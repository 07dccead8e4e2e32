------------------------------- MODULE Pairing -------------------------------
(***************************************************************************)
(* The desktop's pairing server: server.rs (nonces, the accept loop and    *)
(* the handshake half of serve), settings.rs (paired phones, the settings  *)
(* file) and the commands of lib.rs that write that file.                  *)
(*                                                                         *)
(* Every connection is a tokio task of its own, and a handshake takes the  *)
(* locks of ServerState four separate times: claim_nonce, is_known_device, *)
(* remember_device and the last-seen update.  Each stretch under one lock  *)
(* is one action, so other tasks and the user's commands interleave        *)
(* between them.  The settings file is rewritten in place (fs::write), so  *)
(* a save can fail with the old file kept, or leave a torn file behind.    *)
(*                                                                         *)
(* A phone's device id is derived from its public key (client.ts:79), so a *)
(* phone is its key; time is abstracted to ticks of TTL/PAIRING_TTL_SECS.  *)
(***************************************************************************)
EXTENDS Integers

CONSTANTS
  Phone,        \* client identities: a public key and the id derived from it
  Malformed,    \* clients whose public key does not decode
  Nonce,        \* the nonces the desktop can mint
  Conn,         \* slots for concurrent connections
  TTL,          \* lifetime of a nonce (PAIRING_TTL_SECS)
  MaxClock,     \* bound: last tick of the clock
  MaxFaults     \* bound: failed saves and crashes together

ASSUME PairingAssumption ==
  /\ Malformed \subseteq Phone
  /\ TTL \in Nat \ {0}
  /\ MaxClock \in Nat
  /\ MaxFaults \in Nat

VARIABLES
  clock,        \* now()
  pending,      \* pending_nonces: expiry of a pending nonce, Absent otherwise
  devices,      \* Settings.paired_devices, in memory
  identity,     \* ServerState.identity, as the number of its generation
  disk,         \* settings.json
  session,      \* where each connection's task is in serve
  faults,       \* failed saves and crashes so far (bounds the model only)
  minted,       \* history: when each nonce was minted, Never otherwise
  claims,       \* history: how many times each nonce has opened the door
  introduced,   \* history: phones that claimed a nonce of this identity
  kept,         \* history: phones whose pairing was saved and not taken back
  forgotten,    \* history: phones disconnected by the user since their last claim
  raced         \* history: the forgotten phones whose handshake was already
                \* authorised when the user disconnected them

server  == <<clock, pending, devices, identity, disk, session, faults>>
history == <<minted, claims, introduced, kept, forgotten, raced>>
vars    == <<server, history>>

Absent == 0
Never  == -1
DeviceName == {"announced", "chosen"}   \* by the phone's hello, by the user
Device  == [phone : Phone, name : DeviceName]
Stages  == {"idle", "hello", "claim", "lookup", "remember", "touch", "ack", "live"}
Session == [at : Stages, phone : Phone, nonce : Nonce]
Disk    == [file : {"whole", "torn"}, identity : Nat, devices : SUBSET Device]

Readable == disk.file = "whole"      \* settings.json parses

Phones(ds) == {d.phone : d \in ds}

(***************************************************************************)
(* Settings                                                                *)
(***************************************************************************)

\* Settings::remember: an entry with the same id is replaced.
Remembered(ds, p) ==
  {d \in ds : d.phone # p} \cup {[phone |-> p, name |-> "announced"]}

\* Mutant of Saved: the list is serialised before the change is made.
SavedTooEarly(ds) == [file |-> "whole", identity |-> identity, devices |-> devices]

\* Settings::save of the devices ds under the identity in use.  The outcome
\* is the result of fs::write: done, nothing written, or cut short.
Saved(ds)   == [file |-> "whole", identity |-> identity, devices |-> ds]
Outcome     == {"saved", "unchanged", "torn"}
Fault == faults < MaxFaults /\ faults' = faults + 1
Save(ds, outcome) ==
  \/ outcome = "saved" /\ disk' = Saved(ds) /\ UNCHANGED faults
  \/ outcome = "unchanged" /\ UNCHANGED disk /\ Fault
  \/ outcome = "torn" /\ disk' = [disk EXCEPT !.file = "torn"] /\ Fault

Init ==
  /\ clock = 0
  /\ pending = [n \in Nonce |-> Absent]
  /\ devices = {}
  /\ identity = 0
  /\ disk = [file |-> "whole", identity |-> 0, devices |-> {}]
  /\ session \in {[c \in Conn |-> [at |-> "idle", phone |-> p, nonce |-> n]] :
                    p \in Phone, n \in Nonce}
  /\ faults = 0
  /\ minted = [n \in Nonce |-> Never]
  /\ claims = [n \in Nonce |-> 0]
  /\ introduced = {} /\ kept = {} /\ forgotten = {} /\ raced = {}

(***************************************************************************)
(* Nonces                                                                  *)
(***************************************************************************)

Expiry == clock + TTL

\* Mutant of Unexpired: a code is still good at the second it expires.
UnexpiredAtTheEnd(n) == pending[n] >= clock

Unexpired(n) == pending[n] > clock

\* Mutant of Taken: the nonce is looked up, not removed.
TakenNotRemoved(n) == pending

\* pending_nonces after remove(n).
Taken(n) == [pending EXCEPT ![n] = Absent]

\* create_pairing -> issue_nonce: drop the expired nonces, insert a new one.
\* The 32 random characters are taken never to repeat.
IssueNonce(n) ==
  /\ minted[n] = Never
  /\ pending' = [m \in Nonce |-> IF m = n THEN Expiry
                                 ELSE IF Unexpired(m) THEN pending[m] ELSE Absent]
  /\ minted' = [minted EXCEPT ![n] = clock]
  /\ UNCHANGED <<clock, devices, identity, disk, session, faults,
                 claims, introduced, kept, forgotten, raced>>

Tick ==
  /\ clock < MaxClock
  /\ clock' = clock + 1
  /\ UNCHANGED <<pending, devices, identity, disk, session, faults, history>>

(***************************************************************************)
(* One connection                                                          *)
(***************************************************************************)

Goto(c, stage) == session' = [session EXCEPT ![c].at = stage]
At(c, stage)   == session[c].at = stage

Accept(c) ==
  /\ At(c, "idle")
  /\ Goto(c, "hello")
  /\ UNCHANGED <<clock, pending, devices, identity, disk, faults, history>>

\* The first frame is a hello.  A phone sends the nonce of the offer it
\* scanned on every reconnect, used, expired and pre-restart ones included.
Hello(c, p, n) ==
  /\ At(c, "hello")
  /\ minted[n] # Never
  /\ session' = [session EXCEPT ![c] = [at |-> "claim", phone |-> p, nonce |-> n]]
  /\ UNCHANGED <<clock, pending, devices, identity, disk, faults, history>>

\* claim_nonce, under the lock of pending_nonces: the nonce is removed
\* whether or not it is still valid.
ClaimNonce(c) ==
  /\ At(c, "claim")
  /\ LET n == session[c].nonce
         p == session[c].phone
         valid == Unexpired(n)
     IN /\ pending' = Taken(n)
        /\ Goto(c, IF valid THEN "remember" ELSE "lookup")
        /\ claims' = IF valid THEN [claims EXCEPT ![n] = @ + 1] ELSE claims
        /\ introduced' = IF valid THEN introduced \cup {p} ELSE introduced
        /\ forgotten' = IF valid THEN forgotten \ {p} ELSE forgotten
  /\ UNCHANGED <<clock, devices, identity, disk, faults, minted, kept, raced>>

Known(p) == p \in Phones(devices)

\* Mutant of LookupDevice: a stranger is neither admitted nor turned away.
LookupWithoutRefusal(c) ==
  /\ At(c, "lookup")
  /\ Known(session[c].phone)
  /\ Goto(c, "remember")
  /\ UNCHANGED <<clock, pending, devices, identity, disk, faults, history>>

\* is_known_device, under the lock of settings; a stranger is sent
\* nonce_expired and the task ends.
LookupDevice(c) ==
  /\ At(c, "lookup")
  /\ Goto(c, IF Known(session[c].phone) THEN "remember" ELSE "idle")
  /\ UNCHANGED <<clock, pending, devices, identity, disk, faults, history>>

\* session_key rejects the client's key, after the nonce was spent.
RejectKey(c) ==
  /\ At(c, "remember")
  /\ session[c].phone \in Malformed
  /\ Goto(c, "idle")
  /\ UNCHANGED <<clock, pending, devices, identity, disk, faults, history>>

\* session_key, then remember_device: the result of the save is dropped.
RememberDevice(c, outcome) ==
  /\ At(c, "remember")
  /\ session[c].phone \notin Malformed
  /\ devices' = Remembered(devices, session[c].phone)
  /\ Save(devices', outcome)
  /\ Goto(c, "touch")
  /\ kept' = IF outcome = "saved" THEN kept \cup {session[c].phone} ELSE kept
  /\ UNCHANGED <<clock, pending, identity, minted, claims, introduced, forgotten, raced>>

\* Mutant of TouchDevice: update_last_seen inserts an entry it does not find.
TouchInserts(c, outcome) ==
  /\ At(c, "touch")
  /\ devices' = IF Known(session[c].phone) THEN devices
                ELSE Remembered(devices, session[c].phone)
  /\ Save(devices', outcome)
  /\ Goto(c, "ack")
  /\ UNCHANGED <<clock, pending, identity, history>>

\* update_last_seen and a second save, under a lock of its own: a phone that
\* was removed in between is not put back.
TouchDevice(c, outcome) ==
  /\ At(c, "touch")
  /\ Save(devices, outcome)
  /\ Goto(c, "ack")
  /\ UNCHANGED <<clock, pending, devices, identity, history>>

\* The hello-ack is written and the task subscribes to outgoing clips.
SendAck(c) ==
  /\ At(c, "ack")
  /\ Goto(c, "live")
  /\ UNCHANGED <<clock, pending, devices, identity, disk, faults, history>>

\* The peer goes away: before its hello, instead of the ack, or later on.
Close(c) ==
  /\ session[c].at \in {"hello", "ack", "live"}
  /\ Goto(c, "idle")
  /\ UNCHANGED <<clock, pending, devices, identity, disk, faults, history>>

(***************************************************************************)
(* The user's commands, under the lock of settings                         *)
(***************************************************************************)

\* unpair_device.  The entry is gone from memory even when the save fails
\* and the command reports an error; no session is closed.
UnpairDevice(p, outcome) ==
  /\ p \in Phones(devices)
  /\ devices' = {d \in devices : d.phone # p}
  /\ Save(devices', outcome)
  /\ kept' = kept \ {p}
  /\ LET racing == \E c \in Conn : At(c, "remember") /\ session[c].phone = p
     IN IF outcome = "saved"
        THEN /\ forgotten' = forgotten \cup {p}
             /\ raced' = IF racing THEN raced \cup {p} ELSE raced \ {p}
        ELSE UNCHANGED <<forgotten, raced>>
  /\ UNCHANGED <<clock, pending, identity, session, minted, claims, introduced>>

\* rename_device: the new name replaces the one in the entry.
RenameDevice(p, outcome) ==
  /\ p \in Phones(devices)
  /\ devices' = {IF d.phone = p THEN [d EXCEPT !.name = "chosen"] ELSE d : d \in devices}
  /\ Save(devices', outcome)
  /\ UNCHANGED <<clock, pending, identity, session, history>>

\* set_hotkey, set_launch_at_startup, set_history_limit: a preference changes
\* and the whole file, paired phones included, is rewritten.
SavePreferences(outcome) ==
  /\ Save(devices, outcome)
  /\ UNCHANGED <<clock, pending, devices, identity, session, history>>

(***************************************************************************)
(* The process ends and starts again: Settings::load, ServerState::new     *)
(***************************************************************************)

\* What lives in memory only: the sockets and the pending nonces.
Reboot ==
  /\ Fault
  /\ session' = [c \in Conn |-> [session[c] EXCEPT !.at = "idle"]]
  /\ pending' = [n \in Nonce |-> Absent]
  /\ UNCHANGED <<clock, minted, claims, forgotten, raced>>

\* The file parses: whatever it held last is what the desktop knows.
Restart ==
  /\ Readable
  /\ Reboot
  /\ devices' = disk.devices
  /\ identity' = disk.identity
  /\ UNCHANGED <<disk, introduced, kept>>

\* The file does not parse, because of an earlier torn save or because the
\* process died while writing it: fresh settings with a new identity and no
\* phones replace it.  The result of saving them is not looked at.
RestartAfresh(outcome) ==
  /\ Reboot
  /\ devices' = {}
  /\ identity' = identity + 1
  /\ disk' = IF outcome = "saved"
             THEN [file |-> "whole", identity |-> identity + 1, devices |-> {}]
             ELSE [disk EXCEPT !.file = "torn"]
  /\ introduced' = {} /\ kept' = {}

Handshake(c) ==
  \/ ClaimNonce(c)
  \/ LookupDevice(c)
  \/ RejectKey(c)
  \/ \E outcome \in Outcome : RememberDevice(c, outcome) \/ TouchDevice(c, outcome)
  \/ SendAck(c)

Next ==
  \/ Tick
  \/ \E n \in Nonce : IssueNonce(n)
  \/ \E c \in Conn :
       \/ Accept(c)
       \/ \E p \in Phone, n \in Nonce : Hello(c, p, n)
       \/ Handshake(c)
       \/ Close(c)
  \/ \E p \in Phone, outcome \in Outcome :
       UnpairDevice(p, outcome) \/ RenameDevice(p, outcome)
  \/ \E outcome \in Outcome : SavePreferences(outcome)
  \/ Restart
  \/ \E outcome \in {"saved", "unchanged"} : RestartAfresh(outcome)

Spec == Init /\ [][Next]_vars

\* tokio runs every task that is ready: no handshake step waits for the peer.
FairSpec == Spec /\ \A c \in Conn : WF_vars(Handshake(c))

(***************************************************************************)
(* Properties                                                              *)
(***************************************************************************)

\* Every variable has its type.
TypeOK ==
  /\ clock \in Nat
  /\ pending \in [Nonce -> Nat]
  /\ devices \in SUBSET Device
  /\ identity \in Nat
  /\ disk \in Disk
  /\ session \in [Conn -> Session]
  /\ faults \in Nat
  /\ minted \in [Nonce -> Nat \cup {Never}]
  /\ claims \in [Nonce -> Nat]
  /\ introduced \in SUBSET Phone
  /\ kept \in SUBSET Phone
  /\ forgotten \in SUBSET Phone
  /\ raced \in SUBSET Phone

\* A pairing code opens the door at most once, however many phones present it
\* at the same time and whatever restarts (claim_nonce, server.rs:131-136).
SingleUse == \A n \in Nonce : claims[n] <= 1

\* Nobody is on the list of paired phones, in memory or in a readable file,
\* who has not claimed a pairing code of this PC's present identity
\* (server.rs:236-262 and Settings::load).
OnlyByNonce ==
  /\ Phones(devices) \subseteq introduced
  /\ Readable => Phones(disk.devices) \subseteq introduced

\* A pairing whose save succeeded is still there, in memory and on disk, until
\* the user takes it back or the file is lost: later saves, failed saves and
\* restarts never drop it (remember_device, Settings::save, Settings::load).
PairingSurvives ==
  /\ kept \subseteq Phones(devices)
  /\ Readable => kept \subseteq Phones(disk.devices)

\* After a disconnect that reported success the phone is back on the list only
\* by claiming another code, unless its handshake had already passed the check
\* when the user disconnected it (unpair_device against server.rs:236-262).
DisconnectForgetsUnlessRaced ==
  /\ Phones(devices) \cap (forgotten \ raced) = {}
  /\ Readable => Phones(disk.devices) \cap (forgotten \ raced) = {}

\* What the settings page says of a disconnect (desktop App.tsx:536-537): the
\* phone's key is forgotten, and a new code is needed to pair it again.
DisconnectForgets == Phones(devices) \cap forgotten = {}

\* A nonce opens the door only between its minting and its expiry, TTL later,
\* whatever other codes were minted meanwhile (issue_nonce, claim_nonce).
OpensOnlyWhileValid ==
  [][\A n \in Nonce : claims'[n] > claims[n] => /\ minted[n] # Never
                                           /\ clock < minted[n] + TTL]_vars

\* The door, whatever happens at it: a code opens it once, and nobody is on the
\* list who did not come through it (server.rs:131-143 and 236-262).
DoorHolds == TypeOK /\ SingleUse /\ OnlyByNonce

Answering(c) == session[c].at \in {"claim", "lookup", "remember", "touch", "ack"}
Answered(c) == session[c].at \in {"idle", "live"}

\* A hello is always answered: the task ends in a live session or is over.
HandshakeEnds == \A c \in Conn : Answering(c) ~> Answered(c)
==============================================================================
