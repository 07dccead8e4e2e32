--------------------------- MODULE BackgroundSync ---------------------------
(***************************************************************************)
(* The foreground service that keeps the phone's JavaScript alive while it *)
(* is paired, and its notification (backgroundSync.ts), driven by the      *)
(* effect of App.tsx that owns the client.  The library's flag isRunning() *)
(* changes when the native call behind start() or stop() has returned.     *)
(***************************************************************************)
EXTENDS Integers

CONSTANTS
  MaxPairings,  \* bound: pairings, re-pairings included
  MaxEvents     \* bound: reports of the client, and starts that are denied

VARIABLES
  paired,       \* the effect has a client
  status,       \* what the client has reported last
  running,      \* isRunning()
  starts,       \* start() calls under way
  stops,        \* stop() calls under way
  text,         \* what the service's notification says
  causes,       \* ghost: the interleavings that have happened
  pairings, events

calls == <<running, starts, stops, text>>
vars == <<paired, status, calls, causes, pairings, events>>

Init ==
  /\ paired = FALSE /\ status = "idle"
  /\ running = FALSE /\ starts = 0 /\ stops = 0 /\ text = "waiting"
  /\ causes = {} /\ pairings = 0 /\ events = 0

\* Mutant of updateBackgroundStatus: an error leaves the notification alone.
updateBackgroundStatusNot(state) ==
  text' = IF running /\ state # "reconnecting" THEN state ELSE text

\* A service that is not running is not told.
updateBackgroundStatus(state) == text' = IF running THEN state ELSE text

\* One that runs is left alone, even when it is being stopped.
startBackgroundSync == starts' = IF running THEN starts ELSE starts + 1

\* One that is only starting is not running yet.
stopBackgroundSync == stops' = IF running THEN stops + 1 ELSE stops

\* start() resolves: then(() => updateBackgroundStatus("connecting")).
StartReturns ==
  /\ starts > 0
  /\ starts' = starts - 1
  /\ running' = TRUE /\ text' = "connecting"
  /\ UNCHANGED <<paired, status, stops, causes, pairings, events>>

\* Notifications denied, or killed by the system: degrade silently.
StartDenied ==
  /\ starts > 0 /\ events < MaxEvents
  /\ events' = events + 1
  /\ starts' = starts - 1
  /\ updateBackgroundStatus("connecting")
  /\ causes' = causes \cup {"denied"}
  /\ UNCHANGED <<paired, status, running, stops, pairings>>

StopReturns ==
  /\ stops > 0
  /\ stops' = stops - 1
  /\ running' = FALSE
  /\ UNCHANGED <<paired, status, starts, text, causes, pairings, events>>

\* The effect runs for the first offer.
Pair ==
  /\ ~paired /\ pairings < MaxPairings
  /\ pairings' = pairings + 1
  /\ paired' = TRUE /\ status' = "connecting"
  /\ startBackgroundSync
  /\ updateBackgroundStatus("connecting")
  /\ causes' = IF running /\ stops > 0 THEN causes \cup {"startIgnored"} ELSE causes
  /\ UNCHANGED <<running, stops, events>>

\* What the end of a pairing misses: a start under way outlives the stop, and the
\* stop outlives a start that follows it.
Missed(again) ==
  (IF starts > 0 THEN {"stopIgnored"} ELSE {})
  \cup (IF running /\ again THEN {"startIgnored"} ELSE {})

\* Another offer: the cleanup of the effect and its next run, in one step.
Repair ==
  /\ paired /\ pairings < MaxPairings
  /\ pairings' = pairings + 1
  /\ status' = "connecting"
  /\ stopBackgroundSync
  /\ startBackgroundSync
  /\ updateBackgroundStatus("connecting")
  /\ causes' = causes \cup Missed(TRUE)
  /\ UNCHANGED <<paired, running, events>>

\* unpair(), or the app's component unmounts.
Unpair ==
  /\ paired
  /\ paired' = FALSE /\ status' = "idle"
  /\ stopBackgroundSync
  /\ causes' = causes \cup Missed(FALSE)
  /\ UNCHANGED <<running, starts, text, pairings, events>>

\* onStatus of the client.
OnStatus(state) ==
  /\ paired /\ events < MaxEvents
  /\ events' = events + 1
  /\ status' = state
  /\ updateBackgroundStatus(IF state = "error" THEN "reconnecting" ELSE state)
  /\ UNCHANGED <<paired, running, starts, stops, causes, pairings>>

Next ==
  \/ StartReturns \/ StartDenied \/ StopReturns
  \/ Pair \/ Repair \/ Unpair
  \/ \E state \in {"connecting", "connected", "error"} : OnStatus(state)

Spec == Init /\ [][Next]_vars

(***************************************************************************)
(* Properties                                                              *)
(***************************************************************************)
TypeOK ==
  /\ paired \in BOOLEAN /\ running \in BOOLEAN
  /\ status \in {"idle", "connecting", "connected", "error"}
  /\ starts \in Nat /\ stops \in Nat /\ pairings \in Nat /\ events \in Nat
  /\ text \in {"waiting", "connecting", "connected", "reconnecting"}
  /\ causes \subseteq {"startIgnored", "stopIgnored", "denied"}

\* No call to the library is under way.
Settled == starts = 0 /\ stops = 0

\* The service runs through every state of the connection while the phone is
\* paired (backgroundSync.ts:16-21); only a start that came while a stop was
\* under way, or one that Android denied, leaves it off.
ServiceKept ==
  paired /\ Settled /\ causes \cap {"startIgnored", "denied"} = {} => running

\* It ends with the pairing, unless the stop came while it was starting
\* (backgroundSync.ts:56-59, App.tsx:382).
ServiceEnds == ~paired /\ Settled /\ "stopIgnored" \notin causes => ~running

\* The notification never claims a connection the app does not show
\* (backgroundSync.ts:61-88).
NotificationHonest == running /\ Settled /\ text = "connected" => status = "connected"

\* The service is what the pairing and the connection ask for.
ServiceFollowsPairing == TypeOK /\ ServiceKept /\ ServiceEnds /\ NotificationHonest

=============================================================================
