------------------------------- MODULE Fanout -------------------------------
(***************************************************************************)
(* The PC's sessions after the hello-ack (server.rs, the loop of serve):   *)
(* one task per session that takes turns between the phone's frames and a  *)
(* broadcast channel of Capacity messages, and that does neither while it  *)
(* waits for a write.  A message is known by its place in the log of what  *)
(* was published; it goes out as Frames[m] frames, none if it is too       *)
(* large, several if it is a file.  unread is what the connection holds:   *)
(* a write waits for room.                                                 *)
(***************************************************************************)
EXTENDS Integers, Sequences

CONSTANTS
  Session,
  Message, Frames,  \* kinds of messages, and how many frames each takes
  Capacity,         \* of the broadcast channel
  Window,           \* frames a connection holds before a write waits
  MaxLog,           \* bound: messages published
  MaxConnects,      \* bound: handshakes that end well
  MaxFrames         \* bound: frames of the phones

ASSUME FanoutAssumption == Frames \in [Message -> Nat] /\ Capacity \in Nat

VARIABLES
  log,          \* what was sent into the channel
  stage,        \* where the task of a session is
  taken,        \* the messages its receiver has gone past
  left,         \* frames of the message being written that are still to go
  peer,         \* the phone: here, closed, or gone without a word
  unread,       \* frames in the connection
  inbox,        \* frames of the phone in the connection
  sent,         \* ghost: the messages written whole, by their place in log
  connects, frames

outbound == <<log, taken, left, sent>>
wire == <<peer, unread, inbox>>
vars == <<outbound, stage, wire, connects, frames>>

Init ==
  /\ log = <<>>
  /\ stage = [s \in Session |-> "off"]
  /\ taken = [s \in Session |-> 0] /\ left = [s \in Session |-> 0]
  /\ sent = [s \in Session |-> <<>>]
  /\ peer = [s \in Session |-> "closed"]
  /\ unread = [s \in Session |-> 0] /\ inbox = [s \in Session |-> 0]
  /\ connects = 0 /\ frames = 0

Subscribed(s) == stage[s] \in {"serving", "writing", "answering"}

\* Mutant of Room: one task writes to every phone in turn.
RoomOfAll(s) == \A t \in Session : Subscribed(t) => unread[t] < Window

Room(s) == unread[s] < Window

(***************************************************************************)
(* The channel                                                             *)
(***************************************************************************)

\* A copy, a file for the phone, or a notification dismissed on the PC.
Publish ==
  /\ Len(log) < MaxLog
  /\ \E m \in Message : log' = Append(log, m)
  /\ UNCHANGED <<stage, taken, left, sent, wire, connects, frames>>

\* The ack is written: the phone shows that it is connected.
Connect(s) ==
  /\ stage[s] = "off" /\ connects < MaxConnects
  /\ connects' = connects + 1
  /\ stage' = [stage EXCEPT ![s] = "acked"]
  /\ peer' = [peer EXCEPT ![s] = "here"]
  /\ unread' = [unread EXCEPT ![s] = 0] /\ inbox' = [inbox EXCEPT ![s] = 0]
  /\ UNCHANGED <<outbound, frames>>

\* outgoing.subscribe(): the receiver begins at the end of the channel.
Subscribe(s) ==
  /\ stage[s] = "acked"
  /\ stage' = [stage EXCEPT ![s] = "serving"]
  /\ taken' = [taken EXCEPT ![s] = Len(log)] /\ sent' = [sent EXCEPT ![s] = <<>>]
  /\ UNCHANGED <<log, left, wire, connects, frames>>

Lagging(s) == Len(log) - taken[s] > Capacity

\* Where a receiver that lagged goes on.
Oldest == Len(log) - Capacity

\* recv() answers Lagged, and the loop goes on.
Lagged(s) ==
  /\ stage[s] = "serving" /\ Lagging(s)
  /\ taken' = [taken EXCEPT ![s] = Oldest]
  /\ UNCHANGED <<log, stage, left, sent, wire, connects, frames>>

\* Mutant of Recv: the first frame is held to be written when it is taken.
RecvEarly(s) ==
  /\ stage[s] = "serving" /\ ~Lagging(s) /\ taken[s] < Len(log)
  /\ taken' = [taken EXCEPT ![s] = @ + 1]
  /\ sent' = [sent EXCEPT ![s] = Append(@, taken[s] + 1)]
  /\ UNCHANGED <<log, left, stage, wire, connects, frames>>

\* recv() answers a message; one that is too large is dropped here.
Recv(s) ==
  /\ stage[s] = "serving" /\ ~Lagging(s) /\ taken[s] < Len(log)
  /\ taken' = [taken EXCEPT ![s] = @ + 1]
  /\ left' = [left EXCEPT ![s] = Frames[log[taken[s] + 1]]]
  /\ stage' = [stage EXCEPT ![s] = IF left'[s] = 0 THEN "serving" ELSE "writing"]
  /\ UNCHANGED <<log, sent, wire, connects, frames>>

\* A frame is written. The session reads nothing until the last one is.
Written(s) ==
  /\ stage[s] = "writing" /\ peer[s] # "closed" /\ Room(s)
  /\ unread' = [unread EXCEPT ![s] = @ + 1]
  /\ left' = [left EXCEPT ![s] = @ - 1]
  /\ IF left'[s] > 0 THEN UNCHANGED <<stage, sent>>
     ELSE /\ stage' = [stage EXCEPT ![s] = "serving"]
          /\ sent' = [sent EXCEPT ![s] = Append(@, taken[s])]
  /\ UNCHANGED <<log, taken, peer, inbox, connects, frames>>

(***************************************************************************)
(* The phone's frames                                                      *)
(***************************************************************************)

PhoneSends(s) ==
  /\ peer[s] = "here" /\ stage[s] # "off" /\ frames < MaxFrames
  /\ frames' = frames + 1
  /\ inbox' = [inbox EXCEPT ![s] = @ + 1]
  /\ UNCHANGED <<outbound, stage, peer, unread, connects>>

\* A clip that opens, a notification, a chunk: nothing is written. A ping, the
\* last chunk of a file, or what does not decrypt is answered.
ReadFrame(s) ==
  /\ stage[s] = "serving" /\ inbox[s] > 0
  /\ inbox' = [inbox EXCEPT ![s] = @ - 1]
  /\ \/ UNCHANGED stage
     \/ stage' = [stage EXCEPT ![s] = "answering"]
  /\ UNCHANGED <<outbound, peer, unread, connects, frames>>

\* The answer is written; that it could not be is ignored.
Answered(s) ==
  /\ stage[s] = "answering" /\ (Room(s) \/ peer[s] = "closed")
  /\ stage' = [stage EXCEPT ![s] = "serving"]
  /\ unread' = [unread EXCEPT ![s] = IF Room(s) THEN @ + 1 ELSE @]
  /\ UNCHANGED <<outbound, peer, inbox, connects, frames>>

PhoneReads(s) ==
  /\ peer[s] = "here" /\ unread[s] > 0
  /\ unread' = [unread EXCEPT ![s] = @ - 1]
  /\ UNCHANGED <<outbound, stage, peer, inbox, connects, frames>>

(***************************************************************************)
(* The end of a session                                                    *)
(***************************************************************************)

\* The phone closes its socket, or is switched off, or out of range.
PhoneEnds(s) ==
  /\ peer[s] = "here" /\ stage[s] # "off"
  /\ \E e \in {"closed", "gone"} : peer' = [peer EXCEPT ![s] = e]
  /\ UNCHANGED <<outbound, stage, unread, inbox, connects, frames>>

\* Mutant of Ends: a write that failed is ignored.
EndsWhenRead(s) ==
  /\ peer[s] # "here" /\ stage[s] = "serving"
  /\ peer[s] = "gone" \/ inbox[s] = 0
  /\ stage' = [stage EXCEPT ![s] = "off"]
  /\ left' = [left EXCEPT ![s] = 0]
  /\ UNCHANGED <<log, taken, sent, wire, connects, frames>>

\* The end of the stream is read, or a write fails. Of a phone that is gone the
\* PC learns only when the system gives the connection up, if it does.
Ends(s) ==
  /\ peer[s] # "here" /\ stage[s] \in {"serving", "writing"}
  /\ stage[s] = "serving" => peer[s] = "gone" \/ inbox[s] = 0
  /\ stage' = [stage EXCEPT ![s] = "off"]
  /\ left' = [left EXCEPT ![s] = 0]
  /\ UNCHANGED <<log, taken, sent, wire, connects, frames>>

Take(s) == Recv(s) \/ Lagged(s)

Next ==
  \/ Publish
  \/ \E s \in Session : Connect(s) \/ Subscribe(s) \/ Lagged(s) \/ Recv(s) \/ Written(s)
                          \/ PhoneSends(s) \/ ReadFrame(s) \/ Answered(s) \/ PhoneReads(s)
                          \/ PhoneEnds(s) \/ Ends(s)

\* The runtime polls every task that can run and a phone that is here reads. A
\* select! takes a branch at random, so that neither is starved.
Fairness ==
  \A s \in Session :
    /\ WF_vars(Subscribe(s)) /\ SF_vars(Take(s)) /\ WF_vars(Written(s) \/ Answered(s))
    /\ WF_vars(PhoneReads(s)) /\ WF_vars(ReadFrame(s))
    /\ WF_vars(peer[s] = "closed" /\ Ends(s))

Spec == Init /\ [][Next]_vars
FairSpec == Spec /\ Fairness

(***************************************************************************)
(* Properties                                                              *)
(***************************************************************************)

\* What a reader of the feed is past: a message that is being written is not.
Passed == [s \in Session |-> IF stage[s] = "writing" THEN taken[s] - 1 ELSE taken[s]]

\* A phone is a reader from the subscription on, and listens while it is there.
Promise == INSTANCE Feed WITH
  Reader <- Session, TooLarge <- {m \in Message : Frames[m] = 0},
  open <- [s \in Session |-> Subscribed(s)],
  listening <- [s \in Session |-> Subscribed(s) /\ peer[s] = "here"],
  at <- Passed, got <- sent

\* The sessions implement the feed: a connected phone is written everything that
\* is published after its subscription, in order, whole, and once, but for what
\* is too large and what a lag of more than Capacity costs; and it is never
\* held up by another one.
ImplementsFeed == Promise!FairSpec

\* The safety part.
ImplementsFeedSafely == Promise!Spec

\* A session whose phone has closed the connection ends, whatever it waits for.
SessionsEnd == \A s \in Session : (peer[s] = "closed" /\ stage[s] # "off") ~> stage[s] = "off"
=============================================================================
