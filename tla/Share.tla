-------------------------------- MODULE Share --------------------------------
(***************************************************************************)
(* The share sheet: ShareModule.kt, which copies what is shared and keeps  *)
(* it until JavaScript listens, shareService.ts, and the loop of App.tsx   *)
(* that sends a batch, waiting for the socket.                             *)
(*                                                                         *)
(* Native code and JavaScript are two threads: an event or the answer of a *)
(* promise is queued by one and taken by the other.                        *)
(***************************************************************************)
EXTENDS Integers, Sequences, SequencesExt, FiniteSets

CONSTANTS
  Shares,       \* what the user shares at a time: sequences of items
  Text,         \* items that are text; the others are files
  TooLarge,     \* files above MAX_SHARE_BYTES
  MaxAttempts,  \* failed attempts after which the loop gives up, 20 in the code
  MaxDrops,     \* bound: losses of the connection, unreadable files
  MaxEnds       \* bound: ends of the app's component or of the process

Item == UNION {ToSet(batch) : batch \in Shares}

VARIABLES
  shared,       \* ghost: what has been shared, in order
  pending,      \* ShareModule.pending
  files,        \* copies in cacheDir/shared
  js,           \* "none", "active" (an instance without listener), "listening"
  draining,     \* getPendingShare() was called and has not run yet
  inbox,        \* batches on their way to JavaScript, and whether as an event
  loops,        \* handleShared calls: the queue, attempts, and where they are
  up,           \* the client is connected
  sent,         \* what the PC was sent, in order
  given,        \* ghost: items given up, and why
  unheard,      \* ghost: items of events with no listener between emit and arrival
  drops, ends

bounds == <<drops, ends>>
vars == <<shared, pending, files, js, draining, inbox, loops, up, sent, given, unheard, bounds>>

Init ==
  /\ shared = <<>> /\ pending = <<>> /\ files = {}
  /\ js = "none" /\ draining = FALSE
  /\ inbox = <<>> /\ loops = {}
  /\ up = FALSE /\ sent = <<>>
  /\ given = [i \in Item |-> "no"] /\ unheard = {}
  /\ drops = 0 /\ ends = 0

Event(batch) == [items |-> batch, event |-> TRUE]
Answer(batch) == [items |-> batch, event |-> FALSE]
GiveUp(S, why) == given' = [i \in Item |-> IF i \in S THEN why ELSE given[i]]

(***************************************************************************)
(* ShareModule                                                             *)
(***************************************************************************)

\* flushPending, with items: an instance is enough, a listener not needed.
Flush(items) ==
  IF js # "none" /\ items # <<>>
  THEN /\ pending' = <<>> /\ inbox' = Append(inbox, Event(items))
       /\ unheard' = IF js = "listening" THEN unheard ELSE unheard \cup ToSet(items)
  ELSE pending' = items /\ UNCHANGED <<inbox, unheard>>

\* handleIntent: one item, or several at once.
handleIntent(batch) ==
  /\ ToSet(batch) \cap ToSet(shared) = {}
  /\ shared' = shared \o batch
  /\ files' = files \cup (ToSet(batch) \ Text)
  /\ Flush(pending \o batch)
  /\ UNCHANGED <<js, draining, loops, up, sent, given, bounds>>

\* A share that opens the app: the activity finds it when it is created.
OnCreate(batch) == js # "listening" /\ handleIntent(batch)

\* A share while the activity is there: it is given another intent.
OnNewIntent(batch) == js # "none" /\ handleIntent(batch)

\* The module is created: what is pending is emitted if the instance counts as
\* active by then.
ReactStarts ==
  /\ js = "none"
  /\ js' = "active"
  /\ \/ UNCHANGED <<pending, inbox, unheard>>
     \/ /\ pending # <<>> /\ pending' = <<>> /\ inbox' = Append(inbox, Event(pending))
        /\ unheard' = unheard \cup ToSet(pending)
  /\ UNCHANGED <<shared, files, draining, loops, up, sent, given, bounds>>

\* Both effects: drainPendingShare() and onShareReceived().
Mount ==
  /\ js = "active"
  /\ js' = "listening" /\ draining' = TRUE
  /\ UNCHANGED <<shared, pending, files, inbox, loops, up, sent, given, unheard, bounds>>

\* Mutant of Cleared: getPendingShare leaves the list as it is.
ClearedNot(items) == items

Cleared(items) == <<>>

GetPendingShare ==
  /\ draining /\ draining' = FALSE
  /\ inbox' = Append(inbox, Answer(pending))
  /\ pending' = Cleared(pending)
  /\ UNCHANGED <<shared, files, js, loops, up, sent, given, unheard, bounds>>

(***************************************************************************)
(* handleShared                                                            *)
(***************************************************************************)

Loop(items) == [queue |-> items, attempts |-> 0, at |-> "head", stale |-> FALSE]

\* An event finds its listener or nobody; a promise finds its handler.
Deliver ==
  /\ inbox # <<>> /\ inbox' = Tail(inbox)
  /\ LET batch == Head(inbox) IN
     IF batch.event /\ js # "listening"
     THEN GiveUp(ToSet(batch.items), "nobodyListened") /\ UNCHANGED loops
     ELSE /\ loops' = IF batch.items = <<>> THEN loops ELSE loops \cup {Loop(batch.items)}
          /\ UNCHANGED given
  /\ UNCHANGED <<shared, pending, files, js, draining, up, sent, unheard, bounds>>

Change(l, m) == loops' = (loops \ {l}) \cup {m}
Item0(l) == Head(l.queue)

Shift(l) == [l EXCEPT !.queue = Tail(@), !.at = "head", !.attempts = 0]

\* Mutant of Failed: attempts are not counted.
FailedUncounted(l) == [l EXCEPT !.at = "wait"]

Failed(l) == [l EXCEPT !.at = "wait", !.attempts = @ + 1]

\* The loop ends with its queue, or with MaxAttempts in a row.
Ends(l) ==
  /\ l.at = "head" /\ (l.queue = <<>> \/ l.attempts >= MaxAttempts)
  /\ loops' = loops \ {l}
  /\ GiveUp(ToSet(l.queue), "notReached")
  /\ UNCHANGED <<shared, pending, files, js, draining, inbox, up, sent, unheard, bounds>>

Goes(l) == l.at = "head" /\ l.queue # <<>> /\ l.attempts < MaxAttempts

\* sendSharedItem for a text.
SendText(l) ==
  /\ Goes(l) /\ Item0(l) \in Text
  /\ IF up THEN sent' = Append(sent, Item0(l)) /\ Change(l, Shift(l))
           ELSE UNCHANGED sent /\ Change(l, Failed(l))
  /\ UNCHANGED <<shared, pending, files, js, draining, inbox, up, given, unheard, bounds>>

\* For a file, up to the read of it: there is no client between two pairings.
StartFile(l) ==
  /\ Goes(l) /\ Item0(l) \notin Text
  /\ \/ ~up /\ Change(l, Failed(l)) /\ UNCHANGED given
     \/ /\ Item0(l) \in TooLarge
        /\ Change(l, Shift(l)) /\ GiveUp({Item0(l)}, "tooLarge")
     \/ /\ Item0(l) \notin TooLarge
        /\ Change(l, [l EXCEPT !.at = "read", !.stale = FALSE]) /\ UNCHANGED given
  /\ UNCHANGED <<shared, pending, files, js, draining, inbox, up, sent, unheard, bounds>>

Kept(i, ok) == IF ok THEN files \ {i} ELSE files

\* The file is read; the client taken before the await sends it, if it still can.
FileRead(l) ==
  /\ l.at = "read" /\ Item0(l) \in files
  /\ LET ok == up /\ ~l.stale IN
     /\ sent' = IF ok THEN Append(sent, Item0(l)) ELSE sent
     /\ files' = Kept(Item0(l), ok)
     /\ Change(l, IF ok THEN Shift(l) ELSE Failed(l))
  /\ UNCHANGED <<shared, pending, js, draining, inbox, up, given, unheard, bounds>>

\* It cannot be read: permanent.
FileUnreadable(l) ==
  /\ l.at = "read"
  /\ Item0(l) \notin files \/ drops < MaxDrops
  /\ drops' = IF Item0(l) \notin files THEN drops ELSE drops + 1
  /\ GiveUp({Item0(l)}, "unreadable")
  /\ Change(l, Shift(l))
  /\ UNCHANGED <<shared, pending, files, js, draining, inbox, up, sent, unheard, ends>>

\* 600 ms later.
Again(l) ==
  /\ l.at = "wait"
  /\ Change(l, [l EXCEPT !.at = "head"])
  /\ UNCHANGED <<shared, pending, files, js, draining, inbox, up, sent, given, unheard, bounds>>

(***************************************************************************)
(* The surroundings                                                        *)
(***************************************************************************)
Connect == ~up /\ js = "listening" /\ up' = TRUE
           /\ UNCHANGED <<shared, pending, files, js, draining, inbox, loops, sent, given, unheard, bounds>>

\* The socket drops, or the client is replaced while a file is read.
Drop ==
  /\ up /\ drops < MaxDrops
  /\ up' = FALSE /\ drops' = drops + 1
  /\ \/ UNCHANGED loops
     \/ loops' = {[l EXCEPT !.stale = l.at = "read"] : l \in loops}
  /\ UNCHANGED <<shared, pending, files, js, draining, inbox, sent, given, unheard, ends>>

\* What is on its way as an event.
Emitted == UNION {ToSet(inbox[n].items) : n \in {m \in DOMAIN inbox : inbox[m].event}}

\* The activity goes, the process stays: the effects are undone.
Unmount ==
  /\ js = "listening" /\ ends < MaxEnds
  /\ js' = "active" /\ up' = FALSE /\ ends' = ends + 1
  /\ unheard' = unheard \cup Emitted
  /\ UNCHANGED <<shared, pending, files, draining, inbox, loops, sent, given, drops>>

Kill ==
  /\ js # "none" /\ ends < MaxEnds
  /\ js' = "none" /\ up' = FALSE /\ ends' = ends + 1
  /\ pending' = <<>> /\ draining' = FALSE /\ inbox' = <<>> /\ loops' = {}
  /\ GiveUp({i \in ToSet(shared) : given[i] = "no" /\ i \notin ToSet(sent)}, "killed")
  /\ UNCHANGED <<shared, files, sent, unheard, drops>>

LoopSteps(l) ==
  Ends(l) \/ SendText(l) \/ StartFile(l) \/ FileRead(l) \/ FileUnreadable(l) \/ Again(l)

Next ==
  \/ \E batch \in Shares : OnCreate(batch) \/ OnNewIntent(batch)
  \/ ReactStarts \/ Mount \/ GetPendingShare \/ Deliver
  \/ \E l \in loops : LoopSteps(l)
  \/ Connect \/ Drop \/ Unmount \/ Kill

Spec == Init /\ [][Next]_vars

\* Timers fire, reads end, and JavaScript goes on.
FairSpec == Spec /\ WF_vars(\E l \in loops : LoopSteps(l))

(***************************************************************************)
(* Properties                                                              *)
(***************************************************************************)
\* Why the code gives an item up; that nobody listened is none of them.
GivenUp == {"notReached", "tooLarge", "unreadable", "killed"}
Reasons == GivenUp \cup {"no", "nobodyListened"}
TypeOK ==
  /\ shared \in Seq(Item) /\ pending \in Seq(Item) /\ sent \in Seq(Item)
  /\ files \subseteq Item \ Text /\ js \in {"none", "active", "listening"}
  /\ draining \in BOOLEAN /\ up \in BOOLEAN
  /\ inbox \in Seq([items : Seq(Item), event : BOOLEAN])
  /\ loops \subseteq [queue : Seq(Item), attempts : 0..MaxAttempts,
                      at : {"head", "read", "wait"}, stale : BOOLEAN]
  /\ given \in [Item -> Reasons] /\ unheard \subseteq Item

Travelling == UNION {ToSet(inbox[n].items) : n \in DOMAIN inbox}
Queued == UNION {ToSet(l.queue) : l \in loops}

\* What is shared reaches the PC once: the drain of a cold start, the event and
\* the retries never send an item twice (ShareModule.kt:51-59, App.tsx:487-497).
SharedOnce == IsInjective(sent)

\* Nothing shared just vanishes: it is waiting somewhere, was sent, or was given up
\* for a reason the code knows (App.tsx:479-506) - but for one hole. flushPending asks
\* only for an active instance, so an item may be emitted while no listener is
\* attached, and is then lost; it would have to stay in pending, where the drain of
\* the next mount finds it, to be "parked in pending" until "JS can receive it"
\* (ShareModule.kt:27-30, 88). No item is lost in any other way.
Accounted ==
  \A i \in ToSet(shared) :
    \/ i \in ToSet(pending) \cup Travelling \cup Queued \cup ToSet(sent)
    \/ given[i] \in GivenUp
    \/ given[i] = "nobodyListened" /\ i \in unheard

\* A file that is still to be sent is still there: only what was sent is deleted
\* (App.tsx:466, ShareModule.kt:19-24).
CopyKept ==
  \A i \in ToSet(shared) \ Text : i \in ToSet(pending) \cup Travelling \cup Queued => i \in files

Settled == Queued = {}

\* Every item is settled one way or the other: neither a dead PC nor one that
\* comes and goes keeps a batch going for ever (App.tsx:487-497).
ItemsSettled == <>[]Settled

\* A share arrives once, ends for a reason or is lost to a screen that was not
\* listening, and its copy is there till then.
ShareHonest == TypeOK /\ SharedOnce /\ Accounted /\ CopyKept
=============================================================================
