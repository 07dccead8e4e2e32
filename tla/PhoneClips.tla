----------------------------- MODULE PhoneClips -----------------------------
(***************************************************************************)
(* The phone's clipboard and the app that mirrors it: the native listener, *)
(* the event handlers of App.tsx, the queue of copies made while offline   *)
(* and the guard against sending back what came from the PC.  Texts only.  *)
(*                                                                         *)
(* JavaScript runs one callback at a time; a callback is one action, and   *)
(* an await ends it.  The native listener runs on another thread and reads *)
(* the clipboard as it is by then, which may be later than the change it   *)
(* was called for.  Every content the clipboard ever has gets a number.    *)
(***************************************************************************)
EXTENDS Integers, Sequences

CONSTANTS
  Text,         \* texts
  NoText,       \* the empty string
  Cap,          \* MAX_PENDING_CLIPS
  MaxCopies,    \* bound: copies by the phone's user
  MaxReceived,  \* bound: clips from the PC
  MaxDrops,     \* bound: connections lost, network changes, refusals, unpairings
  MaxReads,     \* bound: times the app is opened or its send button is pressed
  MaxOther      \* bound: the last three together

ASSUME PhoneClipsAssumption ==
  /\ NoText \notin Text
  /\ Cap \in Nat \ {0}
  /\ MaxCopies \in Nat /\ MaxReceived \in Nat /\ MaxDrops \in Nat /\ MaxReads \in Nat
  /\ MaxOther \in Nat

VARIABLES
  board,       \* the system clipboard: a text, its number and who wrote it
  fired,       \* calls of the native listener that have not run yet
  events,      \* onClipboardChanged events JavaScript has not handled yet
  lastSent,    \* lastSentRef
  pending,     \* pendingClips
  writes,      \* setStringAsync calls under way, in order
  reading,     \* "auto" or "button": its getStringAsync is under way
  wasRead,     \* and what that will return
  paired,      \* there is an offer, and client.current is its SyncClient
  closedByUs,  \* of that client: an error frame told it not to retry
  sock,        \* its socket: none, CONNECTING, OPEN, or OPEN with its hello-ack here
  key,         \* its session key is there, whichever socket it came by
  closing,     \* sockets it has closed and whose onclose is still to come
  stray,       \* sockets it has replaced without closing them
  awaiting,    \* how many of these two kinds may still get their hello-ack
  reconnect,   \* its reconnect timer is pending
  settle,      \* its 500 ms timers that are pending
  former,      \* a client was closed; its sockets and timers may still report
  connected,   \* the status the app shows is "connected"
  out,         \* frames given to the sockets
  delivered,   \* ghost: the number of the last event frame the PC got
  copies, received, drops, reads

board3  == <<board, fired>>
guard   == <<lastSent, pending>>
session == <<paired, closedByUs, sock, key, former, connected>>
older   == <<closing, stray, awaiting, reconnect, settle>>
link    == <<session, older>>
wire    == <<out, delivered>>
bounds  == <<copies, received, drops, reads>>
vars    == <<board3, events, guard, writes, reading, wasRead, link, wire, bounds>>

Content(t, n, who) == [text |-> t, n |-> n, by |-> who]
Nothing == Content(NoText, 0, "user")
Contents == [text : Text \cup {NoText}, n : Nat, by : {"user", "app"}]
Frame(c, via) == [text |-> c.text, n |-> c.n, by |-> c.by, via |-> via]
Frames == [text : Text \cup {NoText}, n : Nat, by : {"user", "app"}, via : {"event", "early", "read"}]

\* send() succeeds: the socket is OPEN and there is a key, be it an older socket's.
Sends == sock \in {"open", "acked"} /\ key

Init ==
  /\ board = Nothing /\ fired = 0
  /\ events = <<>>
  /\ lastSent = NoText /\ pending = <<>>
  /\ writes = <<>>
  /\ reading = "no" /\ wasRead = Nothing
  /\ paired = FALSE /\ closedByUs = FALSE /\ sock = "none" /\ key = FALSE
  /\ closing = 0 /\ stray = 0 /\ awaiting = 0 /\ reconnect = FALSE /\ settle = 0
  /\ former = FALSE /\ connected = FALSE
  /\ out = <<>> /\ delivered = 0
  /\ copies = 0 /\ received = 0 /\ drops = 0 /\ reads = 0

(***************************************************************************)
(* Android                                                                 *)
(***************************************************************************)

\* The bounds leave room for a drop, a clip from the PC or a read.
Room == drops + received + reads < MaxOther

\* Something is put on the clipboard and the listener is called.
Put(t, who) ==
  /\ board' = Content(t, board.n + 1, who)
  /\ fired' = fired + 1

UserCopies(t) ==
  /\ copies < MaxCopies
  /\ copies' = copies + 1
  /\ Put(t, "user")
  /\ UNCHANGED <<events, guard, writes, reading, wasRead, link, wire, received, drops, reads>>

\* setStringAsync takes effect.
WriteLands ==
  /\ writes # <<>>
  /\ writes' = Tail(writes)
  /\ Put(Head(writes), "app")
  /\ UNCHANGED <<events, guard, reading, wasRead, link, wire, bounds>>

\* emitClipboardChange reads the primary clip and emits its text.
EmitClipboardChange ==
  /\ fired > 0
  /\ fired' = fired - 1
  /\ events' = Append(events, board)
  /\ UNCHANGED <<board, guard, writes, reading, wasRead, link, wire, bounds>>

(***************************************************************************)
(* The event handler of App.tsx                                            *)
(***************************************************************************)

\* client.current.send(text), and the guard that remembers it.
Send(c, via) ==
  /\ Sends
  /\ out' = Append(out, Frame(c, via))
  /\ lastSent' = c.text

\* How an event goes out: "early" if it passes a queue that still waits for the
\* hello-ack of the socket.
Via == IF sock = "acked" \/ pending = <<>> THEN "event" ELSE "early"

\* Mutant of Trimmed: the limit is tested before the push.
TrimmedLate(q) == IF Len(q) > Cap + 1 THEN SubSeq(q, Len(q) - Cap, Len(q)) ELSE q

\* The oldest go when there are more than Cap.
Trimmed(q) == IF Len(q) > Cap THEN SubSeq(q, Len(q) - Cap + 1, Len(q)) ELSE q

\* The same clip, fired twice.
Repeats(c) == pending # <<>> /\ pending[Len(pending)].text = c.text

Queue(c) ==
  /\ ~Sends
  /\ pending' = IF Repeats(c) THEN pending ELSE Trimmed(Append(pending, c))
  /\ UNCHANGED <<out, lastSent>>

OnClipboardChanged ==
  /\ events # <<>>
  /\ events' = Tail(events)
  /\ LET c == Head(events) IN
       \/ c.text = lastSent /\ UNCHANGED <<guard, out>>
       \/ c.text # lastSent /\ Send(c, Via) /\ UNCHANGED pending
       \/ c.text # lastSent /\ Queue(c)
  /\ UNCHANGED <<board3, writes, reading, wasRead, link, delivered, bounds>>

(***************************************************************************)
(* The client and its sockets, as far as send() and the flush tell         *)
(***************************************************************************)

\* Mutants of Flush: reconnecting leaves the queue for later; a queue that
\* the socket does not take is forgotten.
FlushLater(taken) == UNCHANGED <<out, lastSent, pending>>
FlushForgets(taken) ==
  /\ pending' = <<>>
  /\ out' = IF taken THEN out \o [i \in DOMAIN pending |-> Frame(pending[i], "event")] ELSE out
  /\ lastSent' = IF pending # <<>> /\ taken THEN pending[Len(pending)].text ELSE lastSent

\* flushPendingClips: the socket takes all of the queue, or not even its head;
\* readyState does not change while a callback runs.
Flush(taken) ==
  \/ (pending = <<>> \/ ~taken) /\ UNCHANGED <<out, lastSent, pending>>
  \/ /\ pending # <<>> /\ taken
     /\ out' = out \o [i \in DOMAIN pending |-> Frame(pending[i], "event")]
     /\ lastSent' = pending[Len(pending)].text
     /\ pending' = <<>>

\* What the callbacks of the link leave alone.
AppStays == UNCHANGED <<board3, events, writes, reading, wasRead, delivered, copies, received, reads>>
QueueStays == UNCHANGED <<guard, out>>
Failure == drops < MaxDrops /\ Room /\ drops' = drops + 1

\* The effect of an offer: a new client, which attempts at once.
Pair ==
  /\ ~paired
  /\ paired' = TRUE /\ closedByUs' = FALSE /\ sock' = "connecting" /\ key' = FALSE
  /\ connected' = FALSE
  /\ AppStays /\ QueueStays /\ UNCHANGED <<former, older, drops>>

\* attemptConnect() of a timer: a socket there is, is replaced and not closed.
Attempt ==
  /\ \/ reconnect /\ reconnect' = FALSE /\ UNCHANGED settle
     \/ settle > 0 /\ settle' = settle - 1 /\ UNCHANGED reconnect
  /\ stray' = IF sock = "none" THEN stray ELSE stray + 1
  /\ awaiting' = IF sock \in {"connecting", "open"} THEN awaiting + 1 ELSE awaiting
  /\ sock' = "connecting" /\ connected' = FALSE
  /\ AppStays /\ QueueStays /\ UNCHANGED <<paired, closedByUs, key, former, closing, drops>>

\* onopen: with a key left from an older socket, send() succeeds from here.
Opens ==
  /\ sock = "connecting"
  /\ sock' = "open"
  /\ AppStays /\ QueueStays
  /\ UNCHANGED <<paired, closedByUs, key, former, connected, older, drops>>

\* The hello-ack of the socket: the key, then onStatus("connected").
HelloAck ==
  /\ sock = "open"
  /\ sock' = "acked" /\ key' = TRUE /\ connected' = TRUE
  /\ Flush(TRUE)
  /\ AppStays /\ UNCHANGED <<paired, closedByUs, former, older, drops>>

\* That of a socket which another has replaced: send() looks at the current one.
LateAck ==
  /\ awaiting > 0 /\ awaiting' = awaiting - 1
  /\ key' = TRUE /\ connected' = TRUE
  /\ Flush(sock \in {"open", "acked"})
  /\ AppStays
  /\ UNCHANGED <<paired, closedByUs, sock, former, closing, stray, reconnect, settle, drops>>

\* resetForNetworkChange: the key stays until the onclose of the old socket.
NetworkChanged ==
  /\ paired /\ Failure
  /\ closing' = IF sock = "none" THEN closing ELSE closing + 1
  /\ awaiting' = IF sock = "open" THEN awaiting + 1 ELSE awaiting
  /\ sock' = "none" /\ closedByUs' = FALSE
  /\ reconnect' = FALSE /\ settle' = settle + 1
  /\ AppStays /\ QueueStays /\ UNCHANGED <<paired, key, former, connected, stray>>

\* onclose, of whichever socket: the key goes, and the client retries.
Closed ==
  /\ key' = FALSE
  /\ reconnect' = (reconnect \/ ~closedByUs)
  /\ AppStays /\ QueueStays /\ UNCHANGED <<paired, closedByUs, former, settle>>

\* The current socket fails, with onerror before it or without.
Drops ==
  /\ sock # "none" /\ Failure
  /\ sock' = "none" /\ connected' \in {connected, FALSE}
  /\ Closed /\ UNCHANGED <<closing, stray, awaiting>>

\* One that was replaced does, or one that was closed is done.
LateClose ==
  /\ \/ closing > 0 /\ closing' = closing - 1 /\ UNCHANGED <<stray, drops>>
     \/ stray > 0 /\ stray' = stray - 1 /\ Failure /\ UNCHANGED closing
  /\ awaiting' \in {awaiting, awaiting - 1} \cap 0 .. closing' + stray'
  /\ connected' \in {connected, FALSE}
  /\ Closed /\ UNCHANGED sock

\* The PC refuses the hello or cannot open a payload; the socket stays open.
ErrorFrame ==
  /\ sock \in {"open", "acked"} \/ closing + stray > 0
  /\ Failure
  /\ closedByUs' = TRUE /\ connected' = FALSE
  /\ AppStays /\ QueueStays /\ UNCHANGED <<paired, sock, key, former, older>>

\* unpair(), and the close of the client; what is queued stays queued.  A
\* tryAutoSend under way keeps the client it began with.
Unpair ==
  /\ paired /\ Failure
  /\ paired' = FALSE /\ closedByUs' = FALSE /\ sock' = "none" /\ key' = FALSE
  /\ closing' = 0 /\ stray' = 0 /\ awaiting' = 0 /\ reconnect' = FALSE /\ settle' = 0
  /\ former' = TRUE /\ connected' = FALSE
  /\ lastSent' = NoText
  /\ reading' = IF reading = "auto" THEN "former" ELSE reading
  /\ UNCHANGED <<board3, events, pending, writes, wasRead, wire, copies, received, reads>>

\* A closed client reports a status: what is flushed goes by the client there is.
FormerReports ==
  /\ former
  /\ \/ connected' = TRUE /\ Flush(Sends)
     \/ connected' = FALSE /\ QueueStays
  /\ AppStays /\ UNCHANGED <<paired, closedByUs, sock, key, former, older, drops>>

\* onClip: the guard is set before the write is even started.
OnClip(t) ==
  /\ former \/ (key /\ (sock = "acked" \/ closing + stray > 0))
  /\ received < MaxReceived /\ Room
  /\ received' = received + 1
  /\ lastSent' = t
  /\ writes' = Append(writes, t)
  /\ UNCHANGED <<board3, events, pending, reading, wasRead, link, wire, copies, drops, reads>>

(***************************************************************************)
(* Reading the clipboard from the app                                      *)
(***************************************************************************)

\* tryAutoSend and sendClipboard, up to the await of the read.
StartRead(kind) ==
  /\ reading = "no" /\ reads < MaxReads /\ Room /\ board.text # NoText
  /\ kind = "auto" => paired /\ connected
  /\ reads' = reads + 1
  /\ reading' = kind /\ wasRead' = board
  /\ UNCHANGED <<board3, events, guard, writes, link, wire, copies, received, drops>>

\* What they do with it; the button sends what was sent before, too.  A client
\* closed meanwhile has a socket only if its 500 ms timer opened one.
FinishRead ==
  /\ reading # "no"
  /\ reading' = "no" /\ wasRead' = Nothing
  /\ \/ reading # "button" /\ wasRead.text = lastSent /\ UNCHANGED <<out, lastSent>>
     \/ reading = "auto" /\ wasRead.text # lastSent /\ Send(wasRead, "read")
     \/ reading = "button" /\ Send(wasRead, "read")
     \/ /\ reading = "former" /\ wasRead.text # lastSent
        /\ out' = Append(out, Frame(wasRead, "read")) /\ lastSent' = wasRead.text
     \/ (~Sends \/ reading = "former") /\ UNCHANGED <<out, lastSent>>
  /\ UNCHANGED <<board3, events, pending, writes, link, delivered, bounds>>

(***************************************************************************)
(* The network                                                             *)
(***************************************************************************)
Deliver ==
  /\ out # <<>>
  /\ out' = Tail(out)
  /\ delivered' = IF Head(out).via = "event" THEN Head(out).n ELSE delivered
  /\ UNCHANGED <<board3, events, guard, writes, reading, wasRead, link, bounds>>

Link ==
  \/ Pair \/ Attempt \/ Opens \/ HelloAck \/ LateAck
  \/ NetworkChanged \/ Drops \/ LateClose \/ ErrorFrame
  \/ Unpair \/ FormerReports

Next ==
  \/ \E t \in Text : UserCopies(t) \/ OnClip(t)
  \/ WriteLands \/ EmitClipboardChange \/ OnClipboardChanged
  \/ Link
  \/ \E kind \in {"auto", "button"} : StartRead(kind)
  \/ FinishRead
  \/ Deliver

Spec == Init /\ [][Next]_vars

\* Timers fire, callbacks that are due run, and the PC is in reach and answers;
\* no failure, no end of a replaced socket and no pairing is promised.
FairSpec ==
  /\ Spec
  /\ WF_vars(Attempt) /\ WF_vars(Opens) /\ WF_vars(HelloAck)
  /\ WF_vars(WriteLands) /\ WF_vars(EmitClipboardChange) /\ WF_vars(OnClipboardChanged)
  /\ WF_vars(FinishRead) /\ WF_vars(Deliver)

(***************************************************************************)
(* Properties                                                              *)
(***************************************************************************)

\* Every variable has its type.
TypeOK ==
  /\ board \in Contents /\ fired \in Nat
  /\ events \in Seq(Contents)
  /\ lastSent \in Text \cup {NoText}
  /\ pending \in Seq(Contents)
  /\ writes \in Seq(Text)
  /\ reading \in {"no", "auto", "button", "former"} /\ wasRead \in Contents
  /\ sock \in {"none", "connecting", "open", "acked"}
  /\ paired \in BOOLEAN /\ closedByUs \in BOOLEAN /\ key \in BOOLEAN
  /\ former \in BOOLEAN /\ connected \in BOOLEAN
  /\ closing \in Nat /\ stray \in Nat /\ awaiting \in Nat /\ reconnect \in BOOLEAN /\ settle \in Nat
  /\ out \in Seq(Frames) /\ delivered \in Nat
  /\ copies \in Nat /\ received \in Nat /\ drops \in Nat /\ reads \in Nat

\* No two neighbours in the queue are the same text, and it is bounded: what is
\* replayed has no clip that merely fired twice (App.tsx:221-227).
Backlog ==
  /\ Len(pending) <= Cap
  /\ \A i \in 1 .. Len(pending) - 1 : pending[i].text # pending[i + 1].text

\* Of what comes first, nothing has a higher number.
Ascending(q, r) == \A i \in DOMAIN q, j \in DOMAIN r : q[i].n <= r[j].n
Sorted(q) == \A i, j \in DOMAIN q : i < j => q[i].n <= q[j].n
Event(f) == f.via = "event"

\* What the listener reports goes out in the order in which it was copied,
\* across drops, queueing and replay (App.tsx:193-230), except that a clip
\* overtakes the queue on a socket that is open but not acked yet, with the key
\* of an older one (client.ts:287): those frames are the early ones.
FramesInOrder ==
  \A i, j \in DOMAIN out : i < j /\ Event(out[i]) /\ Event(out[j]) => out[i].n <= out[j].n
FramesFirst ==
  \A i \in DOMAIN out : Event(out[i]) =>
    /\ delivered <= out[i].n
    /\ \A j \in DOMAIN pending : out[i].n <= pending[j].n
    /\ \A j \in DOMAIN events : out[i].n <= events[j].n
InOrder ==
  /\ FramesInOrder /\ FramesFirst
  /\ Sorted(pending) /\ Sorted(events) /\ Ascending(pending, events)

\* On a session that is up nothing waits in the queue (App.tsx:196, 291-293).
Flushed == sock = "acked" /\ key => pending = <<>>

\* The queue is a queue: bounded, without repeats, empty while a session is up,
\* and in the order of the copies, which only an early frame leaves
\* (App.tsx:193-230, client.ts:286-287).
QueueHolds == TypeOK /\ Backlog /\ Flushed /\ InOrder

\* A queued clip leaves the queue only by being sent, or as the oldest of a
\* full one when another is queued: no drop, failed flush, unpairing or read by
\* the app loses it (flushPendingClips, App.tsx:193-208, and 224-227).
KeptUntilSent ==
  [][\A i \in DOMAIN pending :
       \/ \E j \in DOMAIN pending' : pending'[j] = pending[i]
       \/ \E j \in DOMAIN out' : out'[j] = Frame(pending[i], "event")
       \/ i = 1 /\ Len(pending) = Cap]_vars

\* What is queued goes out, unless the phone is unpaired or an error frame told
\* its client not to retry: with the PC in reach no order of drops, network
\* changes and late callbacks leaves a queue that nothing will flush
\* (App.tsx:193-208, client.ts:145-210, 410-416).
BacklogDrains == pending # <<>> ~> pending = <<>> \/ ~paired \/ closedByUs

\* What App.tsx:301-302 says of a text from the PC: remembering it is an exact
\* guard against the write bouncing straight back.
NoBounce == \A i \in DOMAIN out : out[i].via # "read" => out[i].by = "user"
=============================================================================
