---------------------------- MODULE DesktopParts ----------------------------
(***************************************************************************)
(* The components of the PC about which theorems are proved in             *)
(* DesktopPartsProofs, put side by side as in PhoneParts: the keys of a    *)
(* session, and the tabs of the window for the phones, their names and the *)
(* settings.                                                               *)
(***************************************************************************)
EXTENDS Side, Integers, Sequences, FiniteSets

CONSTANTS
  Socket, Copy, MaxPairs, MaxResets, MaxRestarts, MaxLosses, MaxClips, \* Session
  Guest, TTL, MaxClock, MaxCodes, MaxHandshakes, MaxUnpairs,  \* DesktopPairing
  Device, Nickname, Empty, Own, MaxStarts, MaxTyped,
  MaxReconnects,                                              \* DesktopRename
  Combo, Limit, MaxCalls, MaxOutside                          \* DesktopSettings

VARIABLES
  phone, pc, side, owner, server, session, keysUp, keysDown, unopened,
  keysBounds, clock, now, expiry, unclaimed, devicesPaired, devicesCalls,
  devicesAnswers, devicesEvents, devicesListening, code, phase, tab,
  devicesConfirm, devicesTimers, devicesView, scanned, devicesMissed,
  handshakes, unpairs, names, namesView, renamingId, renameValue, namesCalls,
  namesAnswers, notes, typed, namesFailed, namesStarts, typings, reconnects,
  namesFailures, memory, settingsDisk, autostart, registered, owned,
  settingsCalls, settingsAnswers, settingsView, recording, hotkeyError,
  startupError, update, settingsChecks, settingsCauses, settingsChanges,
  settingsFailures, outside

Keys == INSTANCE Session WITH Text <- Copy, NoKey <- None,
  MaxScans <- MaxPairs, up <- keysUp, down <- keysDown, bounds <- keysBounds
Devices == INSTANCE DesktopPairing WITH Phone <- Guest,
  MaxPairs <- MaxHandshakes, paired <- devicesPaired, calls <- devicesCalls,
  answers <- devicesAnswers, events <- devicesEvents,
  listening <- devicesListening, confirm <- devicesConfirm,
  timers <- devicesTimers, view <- devicesView, missed <- devicesMissed
Names == INSTANCE DesktopRename WITH Name <- Nickname, view <- namesView,
  calls <- namesCalls, answers <- namesAnswers, failed <- namesFailed,
  starts <- namesStarts, failures <- namesFailures
Settings == INSTANCE DesktopSettings WITH disk <- settingsDisk,
  calls <- settingsCalls, answers <- settingsAnswers, view <- settingsView,
  checks <- settingsChecks, causes <- settingsCauses,
  changes <- settingsChanges, failures <- settingsFailures

\* What stands for "none" is nothing that is copied, no socket, no phone and no
\* settings; each phone has a name of its own, and there are shortcuts and limits to
\* choose from.
ASSUME DesktopPartsAssumption ==
  /\ None \notin Copy /\ None \notin Socket /\ None \notin Device
  /\ None \notin [hotkey : Combo, startup : BOOLEAN, limit : Limit]
  /\ Own \in [Device -> Nickname] /\ TTL \in Nat
  /\ Combo # {} /\ Limit # {}

KeysVars ==
  <<phone, pc, side, owner, server, session, keysUp, keysDown, unopened,
    keysBounds>>
DevicesVars ==
  <<clock, now, expiry, unclaimed, devicesPaired, devicesCalls,
    devicesAnswers, devicesEvents, devicesListening, code, phase, tab,
    devicesConfirm, devicesTimers, devicesView, scanned, devicesMissed,
    handshakes, unpairs>>
NamesVars ==
  <<names, namesView, renamingId, renameValue, namesCalls, namesAnswers,
    notes, typed, namesFailed, namesStarts, typings, reconnects, namesFailures>>
SettingsVars ==
  <<memory, settingsDisk, autostart, registered, owned, settingsCalls,
    settingsAnswers, settingsView, recording, hotkeyError, startupError,
    update, settingsChecks, settingsCauses, settingsChanges, settingsFailures,
    outside>>

desktopVars == <<part, KeysVars, DevicesVars, NamesVars, SettingsVars>>

(* Init and Next take the component that part names; the variables of every *)
(* other component are 0 throughout.                                          *)
KeysRest ==
  /\ phone = 0 /\ pc = 0 /\ side = 0 /\ owner = 0 /\ server = 0
  /\ session = 0 /\ keysUp = 0 /\ keysDown = 0 /\ unopened = 0
  /\ keysBounds = 0
DevicesRest ==
  /\ clock = 0 /\ now = 0 /\ expiry = 0 /\ unclaimed = 0 /\ devicesPaired = 0
  /\ devicesCalls = 0 /\ devicesAnswers = 0 /\ devicesEvents = 0
  /\ devicesListening = 0 /\ code = 0 /\ phase = 0 /\ tab = 0
  /\ devicesConfirm = 0 /\ devicesTimers = 0 /\ devicesView = 0
  /\ scanned = 0 /\ devicesMissed = 0 /\ handshakes = 0 /\ unpairs = 0
NamesRest ==
  /\ names = 0 /\ namesView = 0 /\ renamingId = 0 /\ renameValue = 0
  /\ namesCalls = 0 /\ namesAnswers = 0 /\ notes = 0 /\ typed = 0
  /\ namesFailed = 0 /\ namesStarts = 0 /\ typings = 0 /\ reconnects = 0
  /\ namesFailures = 0
SettingsRest ==
  /\ memory = 0 /\ settingsDisk = 0 /\ autostart = 0 /\ registered = 0
  /\ owned = 0 /\ settingsCalls = 0 /\ settingsAnswers = 0
  /\ settingsView = 0 /\ recording = 0 /\ hotkeyError = 0 /\ startupError = 0
  /\ update = 0 /\ settingsChecks = 0 /\ settingsCauses = 0
  /\ settingsChanges = 0 /\ settingsFailures = 0 /\ outside = 0

DesktopInit ==
  /\ IF part = "keys" THEN Keys!Init ELSE KeysRest
  /\ IF part = "devices" THEN Devices!Init ELSE DevicesRest
  /\ IF part = "names" THEN Names!Init ELSE NamesRest
  /\ IF part = "settings" THEN Settings!Init ELSE SettingsRest

DesktopOnly(p) ==
  /\ part = p /\ UNCHANGED part
  /\ p # "keys" => UNCHANGED KeysVars
  /\ p # "devices" => UNCHANGED DevicesVars
  /\ p # "names" => UNCHANGED NamesVars
  /\ p # "settings" => UNCHANGED SettingsVars

DesktopNext ==
  \/ part = "keys" /\ Keys!Next /\ DesktopOnly("keys")
  \/ part = "devices" /\ Devices!Next /\ DesktopOnly("devices")
  \/ part = "names" /\ Names!Next /\ DesktopOnly("names")
  \/ part = "settings" /\ Settings!Next /\ DesktopOnly("settings")

DesktopSpec == DesktopInit /\ [][DesktopNext]_desktopVars

(***************************************************************************)
(* Properties                                                              *)
(***************************************************************************)

\* What one side of a session seals the other opens (crypto/index.ts, client.ts).
AllOpen == part = "keys" => Keys!AllOpen

\* The Devices tab shows a code that works and the phones that are paired, each
\* under the name meant for it (App.tsx, settings.rs).
DevicesTabHonest ==
  /\ part = "devices" => Devices!DevicesTabHonest
  /\ part = "names" => Names!NamesHonest

\* The Settings tab shows what Windows, the shortcut and the file hold (App.tsx).
SettingsHonest == part = "settings" => Settings!SettingsHonest
=============================================================================
