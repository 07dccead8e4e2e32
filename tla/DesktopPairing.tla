--------------------------- MODULE DesktopPairing ---------------------------
(***************************************************************************)
(* The main window of the PC (App.tsx): the code it shows, the pairing     *)
(* screen and its phases, and the list of paired phones it displays, over  *)
(* the commands create_pairing, get_settings and unpair_device.            *)
(*                                                                         *)
(* Commands run in order on the main thread, and their answers come back   *)
(* in order; events come in order too, but not in step with the answers.   *)
(***************************************************************************)
EXTENDS Integers, Sequences, FiniteSets

CONSTANTS
  Phone,
  TTL,          \* ticks a code is valid
  MaxClock,     \* bound: ticks
  MaxCodes,     \* bound: codes the window asks for
  MaxPairs,     \* bound: handshakes
  MaxUnpairs    \* bound: disconnects from the window

VARIABLES
  clock, now,   \* the time, and the time the window last looked at
  expiry,       \* the codes issued so far, by number, and when they expire
  unclaimed,    \* pending_nonces
  paired,       \* paired_devices
  calls,        \* commands that have not run yet
  answers,      \* answers on their way
  events,       \* events on their way
  listening,    \* the listeners are registered
  code,         \* the code on display, or 0
  phase, tab, confirm,
  timers,       \* the 2.5 s timers of "done" under way
  view,         \* settings.pairedDevices
  scanned,      \* the code each phone has read, or 0
  missed,       \* ghost: an event came before anyone listened, or did not come
  handshakes, unpairs

backend == <<clock, expiry, unclaimed, paired>>
window == <<now, code, phase, tab, confirm, timers, view>>
link == <<calls, answers, events, listening>>
rest == <<scanned, missed, handshakes, unpairs>>
vars == <<backend, window, link, rest>>

Create == [do |-> "create_pairing", phone |-> {}]
Read == [do |-> "get_settings", phone |-> {}]
Unpair(p) == [do |-> "unpair_device", phone |-> {p}]
Listen == [do |-> "listen", phone |-> {}]
Asked(kind) == Len(SelectSeq(calls, LAMBDA c : c.do = kind))
Codes == DOMAIN expiry

\* The effect of the mount: a code, the settings, then the listeners.
Init ==
  /\ clock = 0 /\ now = 0 /\ expiry = <<>> /\ unclaimed = {} /\ paired = {}
  /\ calls = <<Create, Read, Listen>> /\ answers = <<>> /\ events = <<>> /\ listening = FALSE
  /\ code = 0 /\ phase = "idle" /\ tab = "devices" /\ confirm = {} /\ timers = 0 /\ view = {}
  /\ scanned = [p \in Phone |-> 0] /\ missed = FALSE /\ handshakes = 0 /\ unpairs = 0

(***************************************************************************)
(* The backend                                                             *)
(***************************************************************************)
Emit(e) == IF listening THEN events' = Append(events, e) /\ UNCHANGED missed
                        ELSE missed' = TRUE /\ UNCHANGED events
Paired(p) == [name |-> "device_paired", phone |-> p]
Unpaired(p) == [name |-> "device_unpaired", phone |-> p]

RunCreate ==
  /\ calls # <<>> /\ Head(calls) = Create /\ calls' = Tail(calls)
  /\ expiry' = Append(expiry, clock + TTL)
  /\ unclaimed' = unclaimed \cup {Len(expiry) + 1}
  /\ answers' = Append(answers, [to |-> "create_pairing", code |-> Len(expiry) + 1, view |-> {}])
  /\ UNCHANGED <<clock, paired, window, events, listening, rest>>

RunRead ==
  /\ calls # <<>> /\ Head(calls) = Read /\ calls' = Tail(calls)
  /\ answers' = Append(answers, [to |-> "get_settings", code |-> 0, view |-> paired])
  /\ UNCHANGED <<backend, window, events, listening, rest>>

RunListen ==
  /\ calls # <<>> /\ Head(calls) = Listen /\ calls' = Tail(calls)
  /\ listening' = TRUE
  /\ UNCHANGED <<backend, window, answers, events, rest>>

\* When the save fails the phone is gone from memory, and the window is told
\* neither by an event nor by an answer it looks at.
RunUnpair ==
  /\ calls # <<>> /\ Head(calls).do = "unpair_device" /\ calls' = Tail(calls)
  /\ \E p \in Head(calls).phone :
       /\ paired' = paired \ {p}
       /\ \/ /\ Emit(Unpaired(p))
             /\ answers' = Append(answers, [to |-> "unpair_device", code |-> 0, view |-> {}])
          \/ missed' = TRUE /\ UNCHANGED <<events, answers>>
  /\ UNCHANGED <<clock, expiry, unclaimed, window, listening, scanned, handshakes, unpairs>>

\* A handshake with a code, or one of a phone that is known: both end with the
\* phone on the list and the event.
Handshake(p) ==
  /\ handshakes < MaxPairs /\ handshakes' = handshakes + 1
  /\ \/ /\ scanned[p] \in unclaimed /\ clock <= expiry[scanned[p]]
        /\ unclaimed' = unclaimed \ {scanned[p]}
     \/ p \in paired /\ UNCHANGED unclaimed
  /\ paired' = paired \cup {p}
  /\ Emit(Paired(p))
  /\ UNCHANGED <<clock, expiry, window, calls, answers, listening, scanned, unpairs>>

(***************************************************************************)
(* The window                                                              *)
(***************************************************************************)

\* `expired`, for a code c that is on display.
Expired(c) == c # 0 /\ expiry[c] <= now
expired == Expired(code)
CanAsk == Len(expiry) + Asked("create_pairing") < MaxCodes
RefreshPairing == calls' = Append(calls, Create)

\* An effect asks for another code whenever `expired` becomes true.
Refreshes(before, after) ==
  /\ after /\ ~before => CanAsk
  /\ IF after /\ ~before THEN RefreshPairing ELSE UNCHANGED calls

ShowCode ==
  /\ answers # <<>> /\ Head(answers).to = "create_pairing" /\ answers' = Tail(answers)
  /\ code' = Head(answers).code
  /\ Refreshes(expired, Expired(code'))
  /\ UNCHANGED <<backend, now, phase, tab, confirm, timers, view, events, listening, rest>>

ShowSettings ==
  /\ answers # <<>> /\ Head(answers).to = "get_settings" /\ answers' = Tail(answers)
  /\ view' = Head(answers).view
  /\ UNCHANGED <<backend, now, code, phase, tab, confirm, timers, calls, events, listening, rest>>

\* doUnpairDevice, after the await.
Disconnected ==
  /\ answers # <<>> /\ Head(answers).to = "unpair_device" /\ answers' = Tail(answers)
  /\ calls' = Append(calls, Read)
  /\ UNCHANGED <<backend, window, events, listening, rest>>

\* Mutant of OnPaired: the list is left as it is.
OnPairedUnread ==
  /\ events # <<>> /\ Head(events).name = "device_paired" /\ events' = Tail(events)
  /\ phase' = "done" /\ timers' = timers + 1
  /\ UNCHANGED <<backend, now, code, tab, confirm, view, calls, answers, listening, rest>>

OnPaired ==
  /\ events # <<>> /\ Head(events).name = "device_paired" /\ events' = Tail(events)
  /\ calls' = Append(calls, Read)
  /\ phase' = "done" /\ timers' = timers + 1
  /\ UNCHANGED <<backend, now, code, tab, confirm, view, answers, listening, rest>>

OnUnpaired ==
  /\ events # <<>> /\ Head(events).name = "device_unpaired" /\ events' = Tail(events)
  /\ calls' = Append(calls, Read)
  /\ UNCHANGED <<backend, window, answers, listening, rest>>

\* The timer closes whatever screen is open by then.
DoneOver ==
  /\ timers > 0 /\ timers' = timers - 1
  /\ phase' = "idle"
  /\ UNCHANGED <<backend, now, code, tab, confirm, view, link, rest>>

\* Once a second; a code that expires is replaced once.
Tick ==
  /\ now # clock /\ now' = clock
  /\ Refreshes(expired, code # 0 /\ expiry[code] <= now')
  /\ UNCHANGED <<backend, code, phase, tab, confirm, timers, view, answers, events, listening, rest>>

ShowsList == tab = "devices" /\ phase = "idle"
ShowsCode == tab = "devices" /\ phase = "scanning"

OpenPairingScreen ==
  /\ ShowsList /\ CanAsk
  /\ phase' = "scanning"
  /\ RefreshPairing
  /\ UNCHANGED <<backend, now, code, tab, confirm, timers, view, answers, events, listening, rest>>

\* Back; there is no such button when done.
ClosePairingScreen ==
  /\ ShowsCode
  /\ phase' = "idle"
  /\ UNCHANGED <<backend, now, code, tab, confirm, timers, view, link, rest>>

\* The button beside an expired code.
RefreshPressed ==
  /\ ShowsCode /\ expired /\ CanAsk
  /\ RefreshPairing
  /\ UNCHANGED <<backend, window, answers, events, listening, rest>>

\* The rail: any other tab closes the pairing screen.
SetTab(t) ==
  /\ t # tab /\ tab' = t
  /\ phase' = IF t = "devices" THEN phase ELSE "idle"
  /\ UNCHANGED <<backend, now, code, confirm, timers, view, link, rest>>

ConfirmUnpair(p) ==
  /\ ShowsList /\ p \in view /\ confirm # {p}
  /\ confirm' = {p}
  /\ UNCHANGED <<backend, now, code, phase, tab, timers, view, link, rest>>

DoUnpairDevice ==
  /\ ShowsList /\ confirm # {} /\ confirm \subseteq view /\ unpairs < MaxUnpairs
  /\ unpairs' = unpairs + 1
  /\ \E p \in confirm : calls' = Append(calls, Unpair(p))
  /\ confirm' = {}
  /\ UNCHANGED <<backend, now, code, phase, tab, timers, view, answers, events, listening,
                 scanned, missed, handshakes>>

\* A phone's camera on the screen.
Scan(p) ==
  /\ ShowsCode /\ code # 0 /\ scanned[p] # code
  /\ scanned' = [scanned EXCEPT ![p] = code]
  /\ UNCHANGED <<backend, window, link, missed, handshakes, unpairs>>

ClockTick ==
  /\ clock < MaxClock /\ clock' = clock + 1
  /\ UNCHANGED <<expiry, unclaimed, paired, window, link, rest>>

Next ==
  \/ RunCreate \/ RunRead \/ RunListen \/ RunUnpair
  \/ ShowCode \/ ShowSettings \/ Disconnected \/ OnPaired \/ OnUnpaired \/ DoneOver
  \/ Tick \/ OpenPairingScreen \/ ClosePairingScreen \/ RefreshPressed \/ DoUnpairDevice
  \/ \E t \in {"devices", "other"} : SetTab(t)
  \/ \E p \in Phone : Handshake(p) \/ ConfirmUnpair(p) \/ Scan(p)
  \/ ClockTick

Spec == Init /\ [][Next]_vars

(***************************************************************************)
(* Properties                                                              *)
(***************************************************************************)
TypeOK ==
  /\ clock \in Nat /\ now \in 0..clock /\ expiry \in Seq(Nat) /\ unclaimed \subseteq Codes
  /\ paired \subseteq Phone /\ view \subseteq Phone /\ confirm \subseteq Phone
  /\ code \in Codes \cup {0} /\ phase \in {"idle", "scanning", "done"}
  /\ tab \in {"devices", "other"} /\ timers \in Nat
  /\ scanned \in [Phone -> Codes \cup {0}] /\ listening \in BOOLEAN /\ missed \in BOOLEAN

Quiet == calls = <<>> /\ answers = <<>> /\ events = <<>>

\* The code a phone can scan opens the door: it is neither used nor expired,
\* unless a new one is on its way, or the phone that used it is about to be
\* announced (App.tsx:115-118, 186-190, server.rs:115-136).
CodeIsGood ==
  ShowsCode /\ code # 0 =>
    \/ code \in unclaimed /\ clock <= expiry[code]
    \/ now # clock
    \/ expired
    \/ \E k \in DOMAIN calls : calls[k].do = "create_pairing"
    \/ \E k \in DOMAIN answers : answers[k].to = "create_pairing"
    \/ \E k \in DOMAIN events : events[k].name = "device_paired"
    \/ missed

\* Once everything has been answered the window lists exactly the phones that
\* are paired, however their handshakes and disconnects fell: only what happened
\* before it listened, or whose save failed, can be missing (App.tsx:115-144).
ListCatchesUp == Quiet /\ ~missed => view = paired

\* The Devices tab tells the truth, about the code and about the phones.
DevicesTabHonest == TypeOK /\ CodeIsGood /\ ListCatchesUp
=============================================================================
