-------------------------------- MODULE Device --------------------------------
(***************************************************************************)
(* The application on a device that its owner configures, restarts and     *)
(* may unplug: main's start-up (nv_app_state_init), the settings it keeps  *)
(* in flash (N_storage), the menu of src/src/menu_bagl.c, and the session. *)
(* The session's display and the menu share the one screen: the menu is on *)
(* it when no review is.                                                   *)
(*                                                                         *)
(* External: nvm_write, here byte by byte in the order of the addresses,   *)
(* the power may go between two bytes; the lists and flows of the UX       *)
(* library, which move by one entry.                                       *)
(***************************************************************************)
EXTENDS AppSession

CONSTANT DefaultPubkeyDisplay  \* PubkeyDisplayLong, or Short on a Nano S

VARIABLES
    phase,    \* the application is off, in nv_app_state_init, or on
    written,  \* bytes of internalStorage_t that nv_app_state_init has done
    storage,  \* N_storage
    menu,     \* the page of the menu and the entry it is at
    chosen    \* history: what the owner chose last, at first the defaults

deviceVars == <<sessionVars, phase, written, storage, menu, chosen>>

ASSUME DefaultAssumption == DefaultPubkeyDisplay \in {0, 1}

-----------------------------------------------------------------------------
Settings == {"allow_blind_sign", "pubkey_display", "display_mode"}

\* Mutant: the flag comes first.
MutantStorageLayout == <<"initialized", "allow_blind_sign", "pubkey_display", "display_mode">>

\* internalStorage_t, in the order of its bytes.
StorageLayout == <<"allow_blind_sign", "pubkey_display", "display_mode", "initialized">>
StorageSize == 4

Defaults == [allow_blind_sign |-> 0, pubkey_display |-> DefaultPubkeyDisplay,
             display_mode |-> 0, initialized |-> 1]

Entry == [allow_blind_sign |-> 0, pubkey_display |-> 1, display_mode |-> 2]

\* The idle flow, the list of settings, and a list of two values and Back.
Pages == {"idle", "settings"} \cup Settings
LastEntry(page) == IF page \in {"idle", "settings"} THEN 3 ELSE 2

Home == [page |-> "idle", index |-> 0]
At(page, index) == menu.page = page /\ menu.index = index

-----------------------------------------------------------------------------
(* Start and stop.                                                         *)

\* Mutant: every start writes the defaults.
MutantBytesDone == 0

\* Nothing is to be written when the storage is marked as initialised.
BytesDone == IF storage["initialized"] # 1 THEN 0 ELSE StorageSize

Boot ==
    /\ phase' = "starting"
    /\ written' = BytesDone
    /\ UNCHANGED <<storage, chosen>>

Start ==
    /\ phase = "off"
    /\ Boot
    /\ UNCHANGED <<sessionVars, menu>>

\* nv_app_state_init goes on with its nvm_write.
WriteByte ==
    /\ phase = "starting"
    /\ written < StorageSize
    /\ LET field == StorageLayout[written + 1]
       IN  storage' = [storage EXCEPT ![field] = Defaults[field]]
    /\ written' = written + 1
    /\ UNCHANGED <<sessionVars, phase, menu, chosen>>

\* main shows the idle screen and enters app_main.
Ready ==
    /\ phase = "starting"
    /\ written = StorageSize
    /\ phase' = "on"
    /\ menu' = Home
    /\ UNCHANGED <<sessionVars, written, storage, chosen>>

\* ApduReplySdkExceptionIoReset: main's loop starts over.
ResetDevice ==
    /\ phase = "on"
    /\ IoReset
    /\ Boot
    /\ menu' = Home

Stop ==
    /\ PowerCycle
    /\ phase' = "off"
    /\ menu' = Home
    /\ UNCHANGED <<written, storage, chosen>>

PowerLoss ==
    /\ phase # "off"
    /\ Stop

-----------------------------------------------------------------------------
(* The menu.                                                               *)

\* Mutant: the settings stay open under a review.
MutantMenuShown == phase = "on"

\* The flow of a review takes the place of the menu.
MenuShown == phase = "on" /\ screen.kind = "idle"

MenuFrame == <<sessionVars, phase, written>>

\* Mutant: the flow does not go round.
MutantScroll(by) ==
    /\ MenuShown
    /\ LET next == menu.index + by
       IN  /\ menu.page = "idle" \/ next \in 0 .. LastEntry(menu.page)
           /\ menu' = [menu EXCEPT !.index = next]
    /\ UNCHANGED <<MenuFrame, storage, chosen>>

\* The idle flow goes round, a list ends at its last entry.
Scroll(by) ==
    /\ MenuShown
    /\ LET last == LastEntry(menu.page)
           next == menu.index + by
       IN  /\ menu.page = "idle" \/ next \in 0 .. last
           /\ menu' = [menu EXCEPT !.index = next % (last + 1)]
    /\ UNCHANGED <<MenuFrame, storage, chosen>>

OpenSettings ==
    /\ MenuShown
    /\ At("idle", 1)
    /\ menu' = [page |-> "settings", index |-> 0]
    /\ UNCHANGED <<MenuFrame, storage, chosen>>

\* settings_submenu_selector: the list opens at the stored value.
OpenSetting(s) ==
    /\ MenuShown
    /\ At("settings", Entry[s])
    /\ menu' = [page |-> s, index |-> storage[s]]
    /\ UNCHANGED <<MenuFrame, storage, chosen>>

LeaveSettings ==
    /\ MenuShown
    /\ At("settings", LastEntry("settings"))
    /\ menu' = Home
    /\ UNCHANGED <<MenuFrame, storage, chosen>>

\* allow_blind_sign_data_selector and its two siblings.
Choose(s, value) ==
    /\ MenuShown
    /\ At(s, value)
    /\ storage' = [storage EXCEPT ![s] = value]
    /\ chosen' = [chosen EXCEPT ![s] = value]
    /\ menu' = [page |-> "settings", index |-> Entry[s]]
    /\ UNCHANGED MenuFrame

LeaveSetting(s) ==
    /\ MenuShown
    /\ At(s, LastEntry(s))
    /\ menu' = [page |-> "settings", index |-> Entry[s]]
    /\ UNCHANGED <<MenuFrame, storage, chosen>>

Quit ==
    /\ MenuShown
    /\ At("idle", LastEntry("idle"))
    /\ Stop

-----------------------------------------------------------------------------
\* The menu stays under an APDU that is answered at once; a review replaces
\* it, and ui_idle follows a review.
RunSession ==
    /\ phase = "on"
    /\ \/ \E a \in Apdus : HandleApdu(a)
       \/ NoApdu
       \/ Forward
       \/ Back
       \/ Decide
    /\ menu' = IF screen.kind = "idle" /\ screen'.kind = "idle" THEN menu ELSE Home
    /\ UNCHANGED <<phase, written, storage, chosen>>

\* The application is installed with its storage zeroed.
DeviceInit ==
    /\ SessionInit
    /\ phase = "off"
    /\ written = 0
    /\ storage = [field \in Settings \cup {"initialized"} |-> 0]
    /\ menu = Home
    /\ chosen = [s \in Settings |-> Defaults[s]]

DeviceNext ==
    \/ Start
    \/ WriteByte
    \/ Ready
    \/ ResetDevice
    \/ PowerLoss
    \/ RunSession
    \/ \E by \in {1, -1} : Scroll(by)
    \/ OpenSettings
    \/ LeaveSettings
    \/ \E s \in Settings : OpenSetting(s) \/ LeaveSetting(s) \/ \E value \in {0, 1} : Choose(s, value)
    \/ Quit

DeviceSpec == DeviceInit /\ [][DeviceNext]_deviceVars

-----------------------------------------------------------------------------
DeviceTypeOK ==
    /\ phase \in {"off", "starting", "on"}
    /\ written \in 0 .. StorageSize
    /\ storage \in [Settings \cup {"initialized"} -> {0, 1}]
    /\ menu.page \in Pages /\ menu.index \in 0 .. LastEntry(menu.page)
    /\ chosen \in [Settings -> {0, 1}]

\* Whenever the application runs, its settings are the last the owner chose,
\* or the defaults of the device before that: whatever power was lost while
\* nv_app_state_init wrote them (main.c:249) and however often main started
\* over, which runs nv_app_state_init every time.
StoredIsChosen == phase = "on" => \A s \in Settings : storage[s] = chosen[s]

\* From the moment a request is on the display until it is answered the
\* settings stay: ux_summary_step and the check of blind signing read
\* N_storage (signLegacyTransaction.c:108 and :190) while the menu, in the
\* same screen, writes it.
SettingsFixedInReview == [][pending => UNCHANGED <<storage, menu>>]_deviceVars
=============================================================================
