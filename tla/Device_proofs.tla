----------------------------- MODULE Device_proofs -----------------------------
(***************************************************************************)
(* Proofs about Device, for any APDUs, any parser and either default: the  *)
(* device keeps the session's behaviour, so what is proved of the session  *)
(* holds on it, and its settings are the owner's whenever it runs.         *)
(***************************************************************************)
EXTENDS Device, AppSession_proofs

\* What is known of the flash at each point of the start-up: once the flag is
\* there the settings are the owner's, and until then nothing was chosen and
\* the bytes written so far are the defaults.
StorageInv ==
    /\ phase \in {"off", "starting", "on"}
    /\ written \in 0 .. StorageSize
    /\ storage \in [Settings \cup {"initialized"} -> {0, 1}]
    /\ chosen \in [Settings -> {0, 1}]
    /\ storage["initialized"] = 1 => \A s \in Settings : storage[s] = chosen[s]
    /\ storage["initialized"] = 0 => \A s \in Settings : chosen[s] = Defaults[s]
    /\ (phase = "starting" /\ storage["initialized"] = 0) =>
          /\ written < StorageSize
          /\ \A i \in 1 .. written : storage[StorageLayout[i]] = Defaults[StorageLayout[i]]
    /\ (phase = "starting" /\ storage["initialized"] = 1) => written = StorageSize
    /\ phase = "on" => storage["initialized"] = 1

-----------------------------------------------------------------------------
\* A step of the device is a step of the session, or the session stands still.
LEMMA DeviceStepRefines == [DeviceNext]_deviceVars => [SessionNext]_sessionVars
  <1> SUFFICES ASSUME [DeviceNext]_deviceVars PROVE [SessionNext]_sessionVars
    OBVIOUS
  <1>1. CASE Start \/ WriteByte \/ Ready
    BY <1>1 DEF Start, WriteByte, Ready
  <1>2. CASE ResetDevice
    BY <1>2 DEF ResetDevice, SessionNext
  <1>3. CASE PowerLoss \/ Quit
    BY <1>3 DEF PowerLoss, Quit, Stop, SessionNext
  <1>4. CASE RunSession
    BY <1>4 DEF RunSession, SessionNext
  <1>5. CASE \E by \in {1, -1} : Scroll(by)
    BY <1>5 DEF Scroll, MenuFrame
  <1>6. CASE OpenSettings \/ LeaveSettings
    BY <1>6 DEF OpenSettings, LeaveSettings, MenuFrame
  <1>7. CASE \E s \in Settings : OpenSetting(s) \/ LeaveSetting(s) \/ \E v \in {0, 1} : Choose(s, v)
    BY <1>7 DEF OpenSetting, LeaveSetting, Choose, MenuFrame
  <1>8. CASE UNCHANGED deviceVars
    BY <1>8 DEF deviceVars
  <1> QED BY <1>1, <1>2, <1>3, <1>4, <1>5, <1>6, <1>7, <1>8 DEF DeviceNext

\* On a device the application is the session: every theorem about SafeSpec
\* holds while its owner uses the menu, quits it or unplugs it.
THEOREM DeviceImplementsSession == DeviceSpec => SafeSpec
  <1>1. DeviceInit => SessionInit
    BY DEF DeviceInit
  <1> QED BY <1>1, DeviceStepRefines, PTL DEF DeviceSpec, SafeSpec

-----------------------------------------------------------------------------
LEMMA DefaultValues ==
    /\ \A s \in Settings : Defaults[s] \in {0, 1}
    /\ Defaults["initialized"] = 1
    /\ StorageSize = 4
    /\ StorageLayout[1] = "allow_blind_sign" /\ StorageLayout[2] = "pubkey_display"
    /\ StorageLayout[3] = "display_mode" /\ StorageLayout[4] = "initialized"
  BY DefaultAssumption DEF Defaults, Settings, StorageLayout, StorageSize

LEMMA StorageInvInit == DeviceInit => StorageInv
  <1> SUFFICES ASSUME DeviceInit PROVE StorageInv
    OBVIOUS
  <1>1. \A s \in Settings : Defaults[s] \in {0, 1}
    BY DefaultValues
  <1>2. chosen \in [Settings -> {0, 1}]
    BY <1>1 DEF DeviceInit
  <1> QED BY <1>2, DefaultValues DEF DeviceInit, StorageInv

\* nv_app_state_init starts, on a first start or over.
LEMMA BootInv ==
    ASSUME StorageInv, Boot
    PROVE  StorageInv'
  <1>1. storage["initialized"] \in {0, 1}
    BY DEF StorageInv
  <1> QED BY <1>1, DefaultValues DEF StorageInv, Boot, BytesDone

LEMMA WriteByteInv ==
    ASSUME StorageInv, WriteByte
    PROVE  StorageInv'
  <1>1. PICK n : n = written /\ n \in {0, 1, 2, 3}
    BY DefaultValues DEF StorageInv, WriteByte
  <1>2. PICK field : field = StorageLayout[n + 1]
    OBVIOUS
  <1>3. /\ field \in Settings \cup {"initialized"} /\ Defaults[field] \in {0, 1}
        /\ field = "initialized" <=> n = 3
    BY <1>1, <1>2, DefaultValues DEF Settings
  <1>4. /\ storage' = [storage EXCEPT ![field] = Defaults[field]]
        /\ written' = n + 1 /\ phase = "starting" /\ UNCHANGED <<phase, chosen>>
    BY <1>1, <1>2 DEF WriteByte
  <1>5. storage["initialized"] = 0
    BY <1>1, <1>4, DefaultValues DEF StorageInv
  <1>6. storage' \in [Settings \cup {"initialized"} -> {0, 1}] /\ written' \in 0 .. StorageSize
    BY <1>1, <1>3, <1>4, DefaultValues DEF StorageInv
  <1>7. \A i \in 1 .. n + 1 : storage'[StorageLayout[i]] = Defaults[StorageLayout[i]]
    <2>1. ASSUME NEW i \in 1 .. n + 1
          PROVE  storage'[StorageLayout[i]] = Defaults[StorageLayout[i]]
      <3>1. i \in {1, 2, 3, 4}
        BY <1>1
      <3>2. StorageLayout[i] \in Settings \cup {"initialized"}
        BY <3>1, DefaultValues DEF Settings
      <3>3. CASE StorageLayout[i] = field
        BY <1>3, <1>4, <3>3 DEF StorageInv
      <3>4. CASE StorageLayout[i] # field
        <4>1. i \in 1 .. n
          BY <1>1, <1>2, <3>4
        <4>2. storage[StorageLayout[i]] = Defaults[StorageLayout[i]]
          BY <1>1, <1>4, <1>5, <4>1 DEF StorageInv
        <4> QED BY <1>4, <3>2, <3>4, <4>2 DEF StorageInv
      <3> QED BY <3>3, <3>4
    <2> QED BY <2>1
  <1>8. CASE n = 3
    <2>1. storage'["initialized"] = 1 /\ \A s \in Settings : storage'[s] = Defaults[s]
      BY <1>7, <1>8, DefaultValues DEF Settings
    <2>2. \A s \in Settings : chosen[s] = Defaults[s]
      BY <1>5 DEF StorageInv
    <2>3. written' = StorageSize
      BY <1>4, <1>8, DefaultValues
    <2> QED BY <1>4, <1>6, <2>1, <2>2, <2>3 DEF StorageInv
  <1>9. CASE n # 3
    <2>1. storage'["initialized"] = 0
      BY <1>3, <1>4, <1>5, <1>9 DEF StorageInv
    <2>2. written' < StorageSize
      BY <1>1, <1>4, <1>9, DefaultValues
    <2>3. \A s \in Settings : chosen[s] = Defaults[s]
      BY <1>5 DEF StorageInv
    <2> QED BY <1>4, <1>6, <1>7, <2>1, <2>2, <2>3 DEF StorageInv
  <1> QED BY <1>8, <1>9

LEMMA StorageInvNext == StorageInv /\ [DeviceNext]_deviceVars => StorageInv'
  <1> SUFFICES ASSUME StorageInv, [DeviceNext]_deviceVars PROVE StorageInv'
    OBVIOUS
  <1>1. CASE Start \/ ResetDevice
    BY <1>1, BootInv DEF Start, ResetDevice
  <1>2. CASE WriteByte
    BY <1>2, WriteByteInv
  <1>3. CASE Ready
    <2>1. storage["initialized"] \in {0, 1}
      BY DEF StorageInv
    <2> QED BY <1>3, <2>1, DefaultValues DEF Ready, StorageInv
  <1>4. CASE PowerLoss \/ Quit
    BY <1>4 DEF PowerLoss, Quit, Stop, StorageInv
  <1>5. CASE UNCHANGED <<phase, written, storage, chosen>>
    BY <1>5 DEF StorageInv
  <1>6. ASSUME NEW s \in Settings, NEW value \in {0, 1}, Choose(s, value)
        PROVE  StorageInv'
    <2>1. /\ storage' = [storage EXCEPT ![s] = value] /\ chosen' = [chosen EXCEPT ![s] = value]
          /\ phase = "on" /\ UNCHANGED <<phase, written>>
      BY <1>6 DEF Choose, MenuShown, MenuFrame
    <2>2. storage["initialized"] = 1 /\ s # "initialized"
      BY <2>1 DEF StorageInv, Settings
    <2>3. storage'["initialized"] = 1 /\ \A t \in Settings : storage'[t] = chosen'[t]
      BY <2>1, <2>2 DEF StorageInv
    <2>4. /\ storage' \in [Settings \cup {"initialized"} -> {0, 1}]
          /\ chosen' \in [Settings -> {0, 1}]
      BY <2>1 DEF StorageInv
    <2> QED BY <2>1, <2>3, <2>4 DEF StorageInv
  <1>7. DeviceNext => \/ Start \/ ResetDevice \/ WriteByte \/ Ready \/ PowerLoss \/ Quit
                      \/ UNCHANGED <<phase, written, storage, chosen>>
                      \/ \E s \in Settings, value \in {0, 1} : Choose(s, value)
    BY DEF DeviceNext, RunSession, Scroll, OpenSettings, LeaveSettings, OpenSetting,
           LeaveSetting, MenuFrame
  <1>8. UNCHANGED deviceVars => UNCHANGED <<phase, written, storage, chosen>>
    BY DEF deviceVars
  <1> QED BY <1>1, <1>2, <1>3, <1>4, <1>5, <1>6, <1>7, <1>8

\* A device that runs has the settings its owner chose, through power losses
\* at any byte of the start-up and through every restart of main.
THEOREM StoredSettingsAreChosen == DeviceSpec => []StoredIsChosen
  <1>1. StorageInv => StoredIsChosen
    BY DEF StorageInv, StoredIsChosen
  <1> QED BY <1>1, StorageInvInit, StorageInvNext, PTL DEF DeviceSpec

-----------------------------------------------------------------------------
\* A review starts and ends with the menu at home.
MenuInv == screen.kind # "idle" => phase = "on" /\ menu = Home

LEMMA MenuInvInductive ==
    /\ DeviceInit => MenuInv
    /\ MenuInv /\ [DeviceNext]_deviceVars => MenuInv'
  <1>1. DeviceInit => MenuInv
    BY DEF DeviceInit, SessionInit, Idle, MenuInv
  <1>2. ASSUME MenuInv, [DeviceNext]_deviceVars
        PROVE  MenuInv'
    <2>1. CASE Start \/ WriteByte \/ Ready
      <3>1. UNCHANGED screen
        BY <2>1 DEF Start, WriteByte, Ready, sessionVars
      <3>2. phase # "on"
        BY <2>1 DEF Start, WriteByte, Ready
      <3> QED BY <1>2, <3>1, <3>2 DEF MenuInv
    <2>2. CASE ResetDevice \/ PowerLoss \/ Quit
      BY <2>2 DEF ResetDevice, PowerLoss, Quit, Stop, IoReset, PowerCycle, Restart, Idle, MenuInv
    <2>3. CASE RunSession
      BY <2>3 DEF RunSession, MenuInv
    <2>4. CASE MenuShown /\ UNCHANGED screen
      BY <1>2, <2>4 DEF MenuShown, MenuInv
    <2>5. CASE UNCHANGED deviceVars
      BY <1>2, <2>5 DEF deviceVars, sessionVars, MenuInv
    <2>6. DeviceNext => \/ Start \/ WriteByte \/ Ready \/ ResetDevice \/ PowerLoss \/ Quit
                        \/ RunSession \/ (MenuShown /\ UNCHANGED screen)
      <3>1. UNCHANGED MenuFrame => UNCHANGED screen
        BY DEF MenuFrame, sessionVars
      <3>2. \A by : Scroll(by) => MenuShown /\ UNCHANGED screen
        BY <3>1 DEF Scroll
      <3>3. OpenSettings \/ LeaveSettings => MenuShown /\ UNCHANGED screen
        BY <3>1 DEF OpenSettings, LeaveSettings
      <3>4. \A s, value : OpenSetting(s) \/ LeaveSetting(s) \/ Choose(s, value)
                            => MenuShown /\ UNCHANGED screen
        BY <3>1 DEF OpenSetting, LeaveSetting, Choose
      <3> QED BY <3>2, <3>3, <3>4 DEF DeviceNext
    <2> QED BY <1>2, <2>1, <2>2, <2>3, <2>4, <2>5, <2>6
  <1>3. MenuInv /\ [DeviceNext]_deviceVars => MenuInv'
    BY <1>2
  <1> QED BY <1>1, <1>3

\* No setting changes and no menu moves under a request that waits.
THEOREM SettingsStayInReview == DeviceSpec => SettingsFixedInReview
  <1>1. PendingIsOnScreen /\ MenuInv /\ [DeviceNext]_deviceVars
          => [pending => UNCHANGED <<storage, menu>>]_deviceVars
    <2> SUFFICES ASSUME PendingIsOnScreen, MenuInv, DeviceNext, pending
                 PROVE  UNCHANGED <<storage, menu>>
      OBVIOUS
    <2>1. screen.kind # "idle" /\ phase = "on" /\ menu = Home
      BY DEF PendingIsOnScreen, MenuInv
    <2>2. ~MenuShown
      BY <2>1 DEF MenuShown
    <2>3. CASE ResetDevice \/ PowerLoss \/ RunSession
      BY <2>1, <2>3 DEF ResetDevice, Boot, PowerLoss, Stop, RunSession
    <2>4. ~Start /\ ~WriteByte /\ ~Ready
      BY <2>1 DEF Start, WriteByte, Ready
    <2> QED BY <2>2, <2>3, <2>4 DEF DeviceNext, Scroll, OpenSettings, LeaveSettings,
                                    OpenSetting, LeaveSetting, Choose, Quit
  <1> QED BY <1>1, MenuInvInductive, DeviceImplementsSession, PendingRequestIsOnScreen, PTL
          DEF DeviceSpec, SettingsFixedInReview

-----------------------------------------------------------------------------
\* Every entry a list opens at or returns to is one of its entries: a stored
\* value, the entry of a setting, and one entry up or down, around the ends in
\* the idle flow (menu_bagl.c).
MenuType == menu \in [page: Pages, index: 0 .. 3] /\ menu.index <= LastEntry(menu.page)

LEMMA EntryTypes ==
    /\ \A page \in Pages : LastEntry(page) \in {2, 3}
    /\ LastEntry("idle") = 3 /\ LastEntry("settings") = 3
    /\ \A s \in Settings : s \in Pages /\ Entry[s] \in 0 .. 2 /\ LastEntry(s) = 2
    /\ Home = [page |-> "idle", index |-> 0] /\ {"idle", "settings"} \subseteq Pages
  BY DEF LastEntry, Pages, Settings, Entry, Home

LEMMA MenuTypeInductive ==
    /\ DeviceInit => MenuType
    /\ MenuType /\ StorageInv /\ [DeviceNext]_deviceVars => MenuType'
  <1>1. menu = Home => MenuType
    BY EntryTypes DEF MenuType
  <1>2. menu' = Home => MenuType'
    BY EntryTypes DEF MenuType
  <1>3. ASSUME MenuType, StorageInv, [DeviceNext]_deviceVars
        PROVE  MenuType'
    <2>1. CASE Start \/ WriteByte \/ UNCHANGED deviceVars
      BY <1>3, <2>1 DEF Start, WriteByte, deviceVars, MenuType
    <2>2. CASE Ready \/ ResetDevice \/ PowerLoss \/ Quit \/ LeaveSettings
      BY <1>2, <2>2 DEF Ready, ResetDevice, PowerLoss, Quit, Stop, LeaveSettings
    <2>3. CASE RunSession
      BY <1>2, <1>3, <2>3 DEF RunSession, MenuType
    <2>4. ASSUME NEW by \in {1, -1}, Scroll(by)
          PROVE  MenuType'
      <3>1. PICK last : last = LastEntry(menu.page) /\ last \in {2, 3}
        BY <1>3, EntryTypes DEF MenuType
      <3>2. menu' = [menu EXCEPT !.index = (menu.index + by) % (last + 1)]
        BY <2>4, <3>1 DEF Scroll
      <3> QED BY <1>3, <3>1, <3>2 DEF MenuType
    <2>5. CASE OpenSettings
      BY <2>5, EntryTypes DEF OpenSettings, MenuType
    <2>6. ASSUME NEW s \in Settings, OpenSetting(s)
          PROVE  MenuType'
      <3>1. storage[s] \in {0, 1}
        BY <1>3 DEF StorageInv
      <3> QED BY <2>6, <3>1, EntryTypes DEF OpenSetting, MenuType
    <2>7. ASSUME NEW s \in Settings, LeaveSetting(s) \/ \E value \in {0, 1} : Choose(s, value)
          PROVE  MenuType'
      <3>1. menu' = [page |-> "settings", index |-> Entry[s]]
        BY <2>7 DEF LeaveSetting, Choose
      <3> QED BY <3>1, EntryTypes DEF MenuType
    <2> QED BY <1>3, <2>1, <2>2, <2>3, <2>4, <2>5, <2>6, <2>7 DEF DeviceNext
  <1>4. MenuType /\ StorageInv /\ [DeviceNext]_deviceVars => MenuType'
    BY <1>3
  <1> QED BY <1>1, <1>4 DEF DeviceInit

\* The flash, the start-up and the menu keep their types on every device: no
\* list of the menu is ever at an entry it does not have.
THEOREM DeviceTypeCorrect == DeviceSpec => []DeviceTypeOK
  <1>1. MenuType /\ StorageInv => DeviceTypeOK
    BY EntryTypes DEF MenuType, StorageInv, DeviceTypeOK
  <1> QED BY <1>1, MenuTypeInductive, StorageInvInit, StorageInvNext, PTL DEF DeviceSpec
=============================================================================
