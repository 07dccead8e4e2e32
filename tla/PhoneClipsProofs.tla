-------------------------- MODULE PhoneClipsProofs --------------------------
(***************************************************************************)
(* Theorems about PhoneClips, for any texts, any limit of the queue and    *)
(* any number of copies, clips from the PC and lost connections.           *)
(*                                                                         *)
(* A reported clip passes through three sequences on its way to the PC:    *)
(* events, pending and out.  Order holds because a clip skips pending only *)
(* when nothing is in it, or else as an early frame: Flushed says that     *)
(* nothing waits on a session that is up, Flows states the order of the    *)
(* numbers along the way.  QueueSteps says what a step can do to pending:  *)
(* add a clip, send all of it, or nothing.                                 *)
(***************************************************************************)
EXTENDS PhoneClips, SequenceTheorems, TLAPS

(***************************************************************************)
(* Sequences                                                               *)
(***************************************************************************)

\* The queue after its oldest were dropped is the end of the queue before.
LEMMA TrimmedIsSuffix ==
  ASSUME NEW S, NEW q \in Seq(S)
  PROVE  /\ Trimmed(q) \in Seq(S)
         /\ Len(Trimmed(q)) = IF Len(q) <= Cap THEN Len(q) ELSE Cap
         /\ \E d \in Nat : /\ Len(q) = Len(Trimmed(q)) + d
                           /\ \A i \in 1 .. Len(Trimmed(q)) : Trimmed(q)[i] = q[i + d]
<1> USE PhoneClipsAssumption DEF PhoneClipsAssumption
<1>1. CASE Len(q) <= Cap
  <2>1. Trimmed(q) = q  BY <1>1, LenProperties DEF Trimmed
  <2>2. Len(q) = Len(Trimmed(q)) + 0 /\ \A i \in 1 .. Len(Trimmed(q)) : Trimmed(q)[i] = q[i + 0]
    BY <2>1, LenProperties
  <2> QED BY <1>1, <2>1, <2>2
<1>2. CASE Len(q) > Cap
  <2> DEFINE m == Len(q) - Cap + 1
  <2>1. Trimmed(q) = SubSeq(q, m, Len(q))  BY <1>2 DEF Trimmed
  <2>2. m \in Int /\ Len(q) \in Int /\ m >= 1  BY <1>2, LenProperties
  <2>3. \A i \in m .. Len(q) : q[i] \in S  BY <2>2, ElementOfSeq
  <2> HIDE DEF m
  <2>4. /\ SubSeq(q, m, Len(q)) \in Seq(S)
        /\ Len(SubSeq(q, m, Len(q))) = IF m <= Len(q) THEN Len(q) - m + 1 ELSE 0
        /\ \A i \in 1 .. Len(q) - m + 1 : SubSeq(q, m, Len(q))[i] = q[m + i - 1]
    BY <2>2, <2>3, SubSeqProperties
  <2>5. Len(Trimmed(q)) = Cap  BY <2>1, <2>2, <2>4 DEF m
  <2>6. m - 1 \in Nat /\ Len(q) = Len(Trimmed(q)) + (m - 1)  BY <2>2, <2>5 DEF m
  <2>7. \A i \in 1 .. Len(Trimmed(q)) : Trimmed(q)[i] = q[i + (m - 1)]
    BY <2>1, <2>2, <2>4, <2>5 DEF m
  <2>8. \E d \in Nat : /\ Len(q) = Len(Trimmed(q)) + d
                       /\ \A i \in 1 .. Len(Trimmed(q)) : Trimmed(q)[i] = q[i + d]
    <3> m - 1 \in Nat  BY <2>6
    <3> WITNESS m - 1 \in Nat
    <3> QED BY <2>6, <2>7
  <2> QED BY <1>2, <2>1, <2>4, <2>5, <2>8, LenProperties
<1> QED BY <1>1, <1>2, LenProperties, SMTT(60)

\* The frames of a flush.
FlushFrames == [i \in DOMAIN pending |-> Frame(pending[i], "event")]

\* They are those of the queue, in order, behind the frames there already.
LEMMA FlushedFrames ==
  ASSUME TypeOK
  PROVE  /\ FlushFrames \in Seq(Frames)
         /\ Len(FlushFrames) = Len(pending)
         /\ out \o FlushFrames \in Seq(Frames)
         /\ Len(out \o FlushFrames) = Len(out) + Len(pending)
         /\ \A i \in 1 .. Len(out) : (out \o FlushFrames)[i] = out[i]
         /\ \A i \in 1 .. Len(pending) :
              (out \o FlushFrames)[Len(out) + i] = Frame(pending[i], "event")
<1>1. pending \in Seq(Contents) /\ out \in Seq(Frames)  BY DEF TypeOK
<1>2. Len(pending) \in Nat /\ DOMAIN pending = 1 .. Len(pending)  BY <1>1, LenProperties
<1>3. \A i \in 1 .. Len(pending) : Frame(pending[i], "event") \in Frames
  <2> TAKE i \in 1 .. Len(pending)
  <2>1. pending[i] \in Contents  BY <1>1, ElementOfSeq
  <2> QED BY <2>1 DEF Contents, Frame, Frames
<1>4. FlushFrames = [i \in 1 .. Len(pending) |-> Frame(pending[i], "event")]
  BY <1>2 DEF FlushFrames
<1>5. FlushFrames \in Seq(Frames)  BY <1>2, <1>3, <1>4, IsASeq
<1>6. Len(FlushFrames) = Len(pending)  BY <1>2, <1>4, <1>5, LenProperties
<1>7. /\ out \o FlushFrames \in Seq(Frames)
      /\ Len(out \o FlushFrames) = Len(out) + Len(FlushFrames)
      /\ \A i \in 1 .. Len(out) + Len(FlushFrames) : (out \o FlushFrames)[i] =
           IF i <= Len(out) THEN out[i] ELSE FlushFrames[i - Len(out)]
  BY <1>1, <1>5, ConcatProperties
<1>8. Len(out) \in Nat  BY <1>1, LenProperties
<1>9. \A i \in 1 .. Len(out) : (out \o FlushFrames)[i] = out[i]
  BY <1>2, <1>6, <1>7, <1>8
<1>10. ASSUME NEW i \in 1 .. Len(pending)
       PROVE  (out \o FlushFrames)[Len(out) + i] = Frame(pending[i], "event")
  <2>1. Len(out) + i \in 1 .. Len(out) + Len(FlushFrames) /\ ~(Len(out) + i <= Len(out))
    BY <1>2, <1>6, <1>8
  <2>2. (out \o FlushFrames)[Len(out) + i] = FlushFrames[Len(out) + i - Len(out)]
    BY <1>7, <2>1
  <2>3. Len(out) + i - Len(out) = i  BY <1>2, <1>8
  <2> QED BY <1>4, <2>2, <2>3
<1> QED BY <1>5, <1>6, <1>7, <1>9, <1>10

(***************************************************************************)
(* Types                                                                   *)
(***************************************************************************)
\* The initial values have their types.
LEMMA TypeInit == Init => TypeOK
<1> SUFFICES ASSUME Init PROVE TypeOK
  OBVIOUS
<1>1. board \in Contents /\ wasRead \in Contents  BY DEF Init, Nothing, Content, Contents
<1>2. /\ events \in Seq(Contents) /\ pending \in Seq(Contents)
      /\ writes \in Seq(Text) /\ out \in Seq(Frames)
  BY EmptySeq DEF Init
<1> QED BY <1>1, <1>2 DEF Init, TypeOK

\* A new content of the clipboard, numbered after the last one.
LEMMA PutType ==
  ASSUME TypeOK, NEW t \in Text, NEW who \in {"user", "app"}, Put(t, who)
  PROVE  board' \in Contents /\ fired' \in Nat
BY DEF TypeOK, Put, Content, Contents

\* A frame given to the socket, and the text the guard remembers.
LEMMA SendType ==
  ASSUME TypeOK, NEW c \in Contents, NEW via \in {"event", "early", "read"}, Send(c, via)
  PROVE  out' \in Seq(Frames) /\ lastSent' \in Text \cup {NoText}
<1>1. Frame(c, via) \in Frames  BY DEF Contents, Frame, Frames
<1>2. out' = Append(out, Frame(c, via)) /\ lastSent' = c.text  BY DEF Send
<1>3. c.text \in Text \cup {NoText}  BY DEF Contents
<1> QED BY <1>1, <1>2, <1>3, AppendProperties DEF TypeOK

\* A clip more in the queue.
LEMMA QueueType ==
  ASSUME TypeOK, NEW c \in Contents, Queue(c)
  PROVE  pending' \in Seq(Contents)
<1>1. Append(pending, c) \in Seq(Contents)  BY AppendProperties DEF TypeOK
<1> QED BY <1>1, TrimmedIsSuffix DEF Queue, TypeOK

\* Reconnecting leaves the queue, the guard and the frames well typed.
LEMMA FlushType ==
  ASSUME TypeOK, NEW taken \in BOOLEAN, Flush(taken)
  PROVE  out' \in Seq(Frames) /\ lastSent' \in Text \cup {NoText} /\ pending' \in Seq(Contents)
<1>1. CASE UNCHANGED <<out, lastSent, pending>>  BY <1>1 DEF TypeOK
<1>2. CASE pending # <<>> /\ taken
  <2>1. /\ out' = out \o FlushFrames
        /\ lastSent' = pending[Len(pending)].text
        /\ pending' = <<>>
    BY <1>2 DEF Flush, FlushFrames
  <2>2. Len(pending) \in 1 .. Len(pending)  BY <1>2, EmptySeq, LenProperties DEF TypeOK
  <2>3. pending[Len(pending)] \in Contents  BY <2>2, ElementOfSeq DEF TypeOK
  <2> QED BY <2>1, <2>3, FlushedFrames, EmptySeq DEF Contents
<1> QED BY <1>1, <1>2 DEF Flush

\* The types of what the link keeps: states, and counters.
FlagsTyped ==
  /\ sock \in {"none", "connecting", "open", "acked"}
  /\ paired \in BOOLEAN /\ closedByUs \in BOOLEAN /\ key \in BOOLEAN
  /\ former \in BOOLEAN /\ connected \in BOOLEAN /\ reconnect \in BOOLEAN
CountsTyped ==
  closing \in Nat /\ stray \in Nat /\ awaiting \in Nat /\ settle \in Nat /\ drops \in Nat

\* Every callback of the client keeps the states well typed.
LEMMA FlagTypes == ASSUME TypeOK, Link PROVE FlagsTyped'
<1> USE DEF session, older
<1>0. FlagsTyped  BY DEF FlagsTyped, TypeOK
<1>1. CASE Pair  BY <1>0, <1>1 DEF Pair, FlagsTyped
<1>2. CASE Attempt
  <2>1. reconnect' \in BOOLEAN  BY <1>0, <1>2 DEF Attempt, FlagsTyped
  <2> QED BY <1>0, <1>2, <2>1 DEF Attempt, FlagsTyped
<1>3. CASE Opens  BY <1>0, <1>3 DEF Opens, FlagsTyped
<1>4. CASE HelloAck  BY <1>0, <1>4 DEF HelloAck, FlagsTyped
<1>5. CASE LateAck  BY <1>0, <1>5 DEF LateAck, FlagsTyped
<1>6. CASE NetworkChanged  BY <1>0, <1>6 DEF NetworkChanged, FlagsTyped
<1>7. CASE Drops \/ LateClose
  <2>1. connected' \in BOOLEAN  BY <1>0, <1>7 DEF Drops, LateClose, FlagsTyped
  <2>2. reconnect' \in BOOLEAN /\ key' \in BOOLEAN /\ UNCHANGED <<paired, closedByUs, former>>
    BY <1>7 DEF Drops, LateClose, Closed
  <2>3. sock' \in {sock, "none"}  BY <1>7 DEF Drops, LateClose
  <2> QED BY <1>0, <2>1, <2>2, <2>3 DEF FlagsTyped
<1>8. CASE ErrorFrame  BY <1>0, <1>8 DEF ErrorFrame, FlagsTyped
<1>9. CASE Unpair  BY <1>0, <1>9 DEF Unpair, FlagsTyped
<1>10. CASE FormerReports
  <2>1. connected' \in BOOLEAN  BY <1>10 DEF FormerReports
  <2> QED BY <1>0, <1>10, <2>1 DEF FormerReports, FlagsTyped
<1> QED BY <1>1, <1>2, <1>3, <1>4, <1>5, <1>6, <1>7, <1>8, <1>9, <1>10 DEF Link

\* And the counters.
LEMMA CountTypes == ASSUME TypeOK, Link PROVE CountsTyped'
<1> USE DEF older, CountsTyped
<1>0. CountsTyped  BY DEF TypeOK
<1>1. CASE Pair \/ Opens \/ HelloAck \/ FormerReports
  BY <1>0, <1>1 DEF Pair, Opens, HelloAck, FormerReports
<1>2. CASE Attempt  BY <1>0, <1>2 DEF Attempt
<1>3. CASE LateAck  BY <1>0, <1>3 DEF LateAck
<1>4. CASE NetworkChanged  BY <1>0, <1>4 DEF NetworkChanged, Failure
<1>5. CASE Drops  BY <1>0, <1>5 DEF Drops, Closed, Failure
<1>6. CASE LateClose
  <2>1. closing' \in Nat /\ stray' \in Nat /\ drops' \in Nat /\ settle' \in Nat
    BY <1>0, <1>6 DEF LateClose, Closed, Failure
  <2>2. awaiting' \in 0 .. closing' + stray'  BY <1>6 DEF LateClose
  <2> QED BY <2>1, <2>2
<1>7. CASE ErrorFrame  BY <1>0, <1>7 DEF ErrorFrame, Failure
<1>8. CASE Unpair  BY <1>0, <1>8 DEF Unpair, Failure
<1> QED BY <1>1, <1>2, <1>3, <1>4, <1>5, <1>6, <1>7, <1>8 DEF Link

\* What a callback of the client does besides: it flushes, or it unpairs and the
\* guard is cleared, or the app and its queue stay as they are.
LEMMA LinkSteps ==
  ASSUME Link
  PROVE  \/ AppStays /\ QueueStays
         \/ AppStays /\ \E taken \in BOOLEAN : Flush(taken)
         \/ Unpair
<1>1. CASE Pair \/ Attempt \/ Opens \/ NetworkChanged \/ Drops \/ LateClose \/ ErrorFrame
  BY <1>1 DEF Pair, Attempt, Opens, NetworkChanged, Drops, LateClose, ErrorFrame, Closed
<1>2. CASE HelloAck  BY <1>2 DEF HelloAck
<1>3. CASE LateAck
  <2>1. (sock \in {"open", "acked"}) \in BOOLEAN  OBVIOUS
  <2> QED BY <1>3, <2>1 DEF LateAck
<1>4. CASE FormerReports
  <2>1. Sends \in BOOLEAN  BY DEF Sends
  <2> QED BY <1>4, <2>1 DEF FormerReports
<1> QED BY <1>1, <1>2, <1>3, <1>4 DEF Link

\* Every step keeps the types.
LEMMA TypeStep == TypeOK /\ [Next]_vars => TypeOK'
<1> SUFFICES ASSUME TypeOK, [Next]_vars PROVE TypeOK'
  OBVIOUS
<1> USE DEF board3, guard, link, session, older, wire, bounds
<1>1. ASSUME NEW t \in Text, UserCopies(t) PROVE TypeOK'
  BY <1>1, PutType DEF UserCopies, TypeOK
<1>2. ASSUME NEW t \in Text, OnClip(t) PROVE TypeOK'
  <2>1. writes' \in Seq(Text)  BY <1>2, AppendProperties DEF OnClip, TypeOK
  <2> QED BY <1>2, <2>1 DEF OnClip, TypeOK
<1>3. CASE WriteLands
  <2>1. Head(writes) \in Text /\ writes' \in Seq(Text)
    BY <1>3, HeadTailProperties DEF WriteLands, TypeOK
  <2> QED BY <1>3, <2>1, PutType DEF WriteLands, TypeOK
<1>4. CASE EmitClipboardChange
  <2>1. events' \in Seq(Contents)  BY <1>4, AppendProperties DEF EmitClipboardChange, TypeOK
  <2> QED BY <1>4, <2>1 DEF EmitClipboardChange, TypeOK
<1>5. CASE OnClipboardChanged
  <2>1. Head(events) \in Contents /\ events' \in Seq(Contents)
    BY <1>5, HeadTailProperties DEF OnClipboardChanged, TypeOK
  <2>2. /\ lastSent' \in Text \cup {NoText}
        /\ pending' \in Seq(Contents)
        /\ out' \in Seq(Frames)
    <3>1. CASE UNCHANGED <<lastSent, pending, out>>  BY <3>1 DEF TypeOK
    <3>2. CASE Send(Head(events), Via) /\ UNCHANGED pending
      <4>1. Via \in {"event", "early", "read"}  BY DEF Via
      <4> QED BY <2>1, <3>2, <4>1, SendType DEF TypeOK
    <3>3. CASE Queue(Head(events))
      <4>1. pending' \in Seq(Contents)  BY <2>1, <3>3, QueueType
      <4> QED BY <3>3, <4>1 DEF Queue, TypeOK
    <3> QED BY <1>5, <3>1, <3>2, <3>3 DEF OnClipboardChanged
  <2> QED BY <1>5, <2>1, <2>2 DEF OnClipboardChanged, TypeOK
<1>6. CASE Link
  <2>1. FlagsTyped' /\ CountsTyped'  BY <1>6, FlagTypes, CountTypes
  <2>2. CASE AppStays /\ QueueStays
    BY <2>1, <2>2 DEF AppStays, QueueStays, FlagsTyped, CountsTyped, guard, TypeOK
  <2>3. ASSUME NEW taken \in BOOLEAN, AppStays, Flush(taken) PROVE TypeOK'
    <3>1. /\ out' \in Seq(Frames) /\ lastSent' \in Text \cup {NoText}
          /\ pending' \in Seq(Contents)
      BY <2>3, FlushType
    <3> QED BY <2>1, <2>3, <3>1 DEF AppStays, FlagsTyped, CountsTyped, TypeOK
  <2>4. CASE Unpair
    <3>1. reading' \in {"no", "auto", "button", "former"} /\ lastSent' = NoText
      BY <2>4 DEF Unpair, TypeOK
    <3>2. UNCHANGED <<board, fired, events, pending, writes, wasRead, out, delivered,
                      copies, received, reads>>
      BY <2>4 DEF Unpair
    <3> QED BY <2>1, <3>1, <3>2 DEF FlagsTyped, CountsTyped, TypeOK
  <2> QED BY <1>6, <2>2, <2>3, <2>4, LinkSteps
<1>7. ASSUME NEW kind \in {"auto", "button"}, StartRead(kind) PROVE TypeOK'
  BY <1>7 DEF StartRead, TypeOK
<1>8. CASE FinishRead
  <2>1. wasRead \in Contents /\ wasRead' \in Contents
    BY <1>8 DEF FinishRead, Nothing, Content, Contents, TypeOK
  <2>2. lastSent' \in Text \cup {NoText} /\ out' \in Seq(Frames)
    <3>1. CASE UNCHANGED <<out, lastSent>>  BY <3>1 DEF TypeOK
    <3>2. CASE Send(wasRead, "read")  BY <2>1, <3>2, SendType
    <3>3. CASE out' = Append(out, Frame(wasRead, "read")) /\ lastSent' = wasRead.text
      <4>1. Frame(wasRead, "read") \in Frames /\ wasRead.text \in Text \cup {NoText}
        BY <2>1 DEF Contents, Frame, Frames
      <4> QED BY <3>3, <4>1, AppendProperties DEF TypeOK
    <3> QED BY <1>8, <3>1, <3>2, <3>3 DEF FinishRead
  <2> QED BY <1>8, <2>1, <2>2 DEF FinishRead, TypeOK
<1>9. CASE Deliver
  <2>1. out' \in Seq(Frames) /\ Head(out) \in Frames
    BY <1>9, HeadTailProperties DEF Deliver, TypeOK
  <2>2. delivered' \in Nat  BY <1>9, <2>1 DEF Deliver, Frames, TypeOK
  <2> QED BY <1>9, <2>1, <2>2 DEF Deliver, TypeOK
<1>10. CASE UNCHANGED vars  BY <1>10 DEF vars, TypeOK
<1> QED BY <1>1, <1>2, <1>3, <1>4, <1>5, <1>6, <1>7, <1>8, <1>9, <1>10 DEF Next

\* The clipboard, the queue, the guard and the frames keep their types
\* (App.tsx:92-112, 193-230).
THEOREM Typing == Spec => []TypeOK
<1>1. Init => TypeOK  BY TypeInit
<1>2. TypeOK /\ [Next]_vars => TypeOK'  BY TypeStep
<1> QED BY <1>1, <1>2, PTL DEF Spec

(***************************************************************************)
(* Order                                                                   *)
(***************************************************************************)

\* What is in the pipeline lies between the last clip delivered and the one on
\* the clipboard.
Flows ==
  /\ InOrder
  /\ delivered <= board.n
  /\ \A i \in DOMAIN events : delivered <= events[i].n /\ events[i].n <= board.n
  /\ \A i \in DOMAIN pending : delivered <= pending[i].n /\ pending[i].n <= board.n
  /\ \A i \in DOMAIN out : Event(out[i]) => out[i].n <= board.n

\* Every number is one.
LEMMA Numbers ==
  ASSUME TypeOK
  PROVE  /\ delivered \in Nat /\ board.n \in Nat
         /\ \A i \in DOMAIN events : events[i].n \in Nat
         /\ \A i \in DOMAIN pending : pending[i].n \in Nat
         /\ \A i \in DOMAIN out : out[i].n \in Nat
<1>1. \A i \in DOMAIN events : events[i] \in Contents  BY ElementOfSeq, LenProperties DEF TypeOK
<1>2. \A i \in DOMAIN pending : pending[i] \in Contents  BY ElementOfSeq, LenProperties DEF TypeOK
<1>3. \A i \in DOMAIN out : out[i] \in Frames  BY ElementOfSeq, LenProperties DEF TypeOK
<1> QED BY <1>1, <1>2, <1>3 DEF TypeOK, Contents, Frames

\* Nothing flows at first.
LEMMA FlowsInit == Init => Flows
BY DEF Init, Flows, InOrder, FramesInOrder, FramesFirst, Sorted, Ascending, Nothing, Content

\* A new content only raises what everything is bounded by.
LEMMA PutFlows ==
  ASSUME TypeOK, Flows, NEW t, NEW who, Put(t, who),
         UNCHANGED <<events, pending, out, delivered>>
  PROVE  Flows'
<1>1. board'.n = board.n + 1  BY DEF Put, Content
<1>2. InOrder'
  BY DEF Flows, InOrder, FramesInOrder, FramesFirst, Sorted, Ascending
<1>3. board.n <= board'.n  BY <1>1, Numbers
<1> QED BY <1>1, <1>2, <1>3, Numbers DEF Flows

\* The listener reports what is on the clipboard, the latest there is.
LEMMA EmitFlows == ASSUME TypeOK, Flows, EmitClipboardChange PROVE Flows'
<1>1. /\ events' = Append(events, board)
      /\ UNCHANGED <<board, pending, out, delivered>>
  BY DEF EmitClipboardChange, guard, wire
<1>2. /\ DOMAIN events = 1 .. Len(events) /\ DOMAIN events' = 1 .. Len(events) + 1
      /\ Len(events) \in Nat
      /\ \A i \in 1 .. Len(events) : events'[i] = events[i]
      /\ events'[Len(events) + 1] = board
  <2>1. events \in Seq(Contents) /\ board \in Contents  BY DEF TypeOK
  <2> QED BY <1>1, <2>1, AppendProperties, LenProperties
<1>3. \A i \in DOMAIN events' : (i \in DOMAIN events /\ events'[i] = events[i])
                               \/ (i = Len(events) + 1 /\ events'[i] = board)
  BY <1>2
<1>4. \A i \in DOMAIN events' : delivered <= events'[i].n /\ events'[i].n <= board.n
  BY <1>3, Numbers DEF Flows
<1>5. Sorted(events')
  <2> SUFFICES ASSUME NEW i \in DOMAIN events', NEW j \in DOMAIN events', i < j
               PROVE  events'[i].n <= events'[j].n
    BY DEF Sorted
  <2>1. CASE j = Len(events) + 1  BY <1>2, <1>4, <2>1
  <2>2. CASE j # Len(events) + 1
    <3>1. i \in DOMAIN events /\ j \in DOMAIN events  BY <1>2, <2>2
    <3> QED BY <1>2, <3>1 DEF Flows, InOrder, Sorted
  <2> QED BY <2>1, <2>2
<1>6. Ascending(pending, events')
  BY <1>3, Numbers DEF Flows, InOrder, Ascending
<1>7. FramesFirst'
  BY <1>1, <1>3, Numbers DEF Flows, InOrder, FramesFirst
<1>8. FramesInOrder' /\ Sorted(pending')
  BY <1>1 DEF Flows, InOrder, FramesInOrder, Sorted
<1> QED BY <1>1, <1>4, <1>5, <1>6, <1>7, <1>8 DEF Flows, InOrder

\* What the handler takes from the events, and what stays there.
LEMMA TakenEvent ==
  ASSUME TypeOK, Flows, events # <<>>, events' = Tail(events)
  PROVE  /\ 1 \in DOMAIN events /\ Head(events) = events[1]
         /\ \A i \in DOMAIN events' : i + 1 \in DOMAIN events /\ events'[i] = events[i + 1]
                                     /\ events[1].n <= events[i + 1].n
         /\ Sorted(events')
<1> USE LenProperties DEF TypeOK
<1>1. events \in Seq(Contents) /\ Len(events) \in Nat /\ DOMAIN events = 1 .. Len(events)
  BY DEF TypeOK
<1>2. Len(events) # 0  BY <1>1, EmptySeq
<1>3. /\ events' \in Seq(Contents) /\ Len(events') = Len(events) - 1
      /\ \A i \in 1 .. Len(events') : events'[i] = events[i + 1]
  BY <1>1, HeadTailProperties
<1>4. DOMAIN events' = 1 .. Len(events) - 1  BY <1>3
<1>5. 1 \in DOMAIN events  BY <1>1, <1>2
<1>6. Head(events) = events[1]  BY <1>1
<1>7. \A i \in DOMAIN events' :
        i \in Int /\ 1 < i + 1 /\ i + 1 \in DOMAIN events /\ events'[i] = events[i + 1]
  BY <1>1, <1>3, <1>4
<1>8. \A i \in DOMAIN events' : events[1].n <= events[i + 1].n
  BY <1>5, <1>7 DEF Flows, InOrder, Sorted
<1>9. Sorted(events')
  <2> SUFFICES ASSUME NEW i \in DOMAIN events', NEW j \in DOMAIN events', i < j
               PROVE  events'[i].n <= events'[j].n
    BY DEF Sorted
  <2>1. i + 1 < j + 1  BY <1>7
  <2> QED BY <1>7, <2>1 DEF Flows, InOrder, Sorted
<1> QED BY <1>5, <1>6, <1>7, <1>8, <1>9

\* The frames that order is claimed of are those there were.
SameEvents == \A i \in DOMAIN out' : Event(out'[i]) => i \in DOMAIN out /\ out'[i] = out[i]

\* An event that is not sent again, or goes out early.
LEMMA SkipFlows ==
  ASSUME TypeOK, Flows, events # <<>>, events' = Tail(events), SameEvents,
         UNCHANGED <<board, pending, delivered>>
  PROVE  Flows'
<1> USE DEF SameEvents
<1>1. \A i \in DOMAIN events' : i + 1 \in DOMAIN events /\ events'[i] = events[i + 1]
  BY TakenEvent
<1>2. Sorted(events')  BY TakenEvent
<1>3. FramesInOrder' /\ Sorted(pending')
  BY DEF Flows, InOrder, FramesInOrder, Sorted
<1>4. FramesFirst'
  BY <1>1 DEF Flows, InOrder, FramesFirst
<1>5. Ascending(pending', events')
  BY <1>1 DEF Flows, InOrder, Ascending
<1>6. \A i \in DOMAIN events' : delivered <= events'[i].n /\ events'[i].n <= board.n
  BY <1>1 DEF Flows
<1>7. \A i \in DOMAIN out' : Event(out'[i]) => out'[i].n <= board.n
  BY DEF Flows
<1> QED BY <1>2, <1>3, <1>4, <1>5, <1>6, <1>7 DEF Flows, InOrder

\* What Append does to the frames.
LEMMA SentFrame ==
  ASSUME TypeOK, NEW c \in Contents, NEW via \in {"event", "early", "read"},
         out' = Append(out, Frame(c, via))
  PROVE  /\ DOMAIN out = 1 .. Len(out) /\ DOMAIN out' = 1 .. Len(out) + 1 /\ Len(out) \in Nat
         /\ \A i \in DOMAIN out : out'[i] = out[i]
         /\ out'[Len(out) + 1] = Frame(c, via)
<1>1. out \in Seq(Frames) /\ Frame(c, via) \in Frames
  BY DEF TypeOK, Contents, Frame, Frames
<1> QED BY <1>1, AppendProperties, LenProperties

\* A frame that is early, or that no event made, is not one of them.
LEMMA UnseenFrame ==
  ASSUME TypeOK, NEW c \in Contents, NEW via \in {"early", "read"},
         out' = Append(out, Frame(c, via))
  PROVE  SameEvents
<1>1. /\ DOMAIN out = 1 .. Len(out) /\ DOMAIN out' = 1 .. Len(out) + 1 /\ Len(out) \in Nat
      /\ \A i \in DOMAIN out : out'[i] = out[i]
      /\ out'[Len(out) + 1] = Frame(c, via)
  BY SentFrame
<1>2. ~Event(out'[Len(out) + 1])  BY <1>1 DEF Event, Frame
<1> QED BY <1>1, <1>2 DEF SameEvents

\* An event that is sent: nothing is queued that it could overtake.
LEMMA SendFlows ==
  ASSUME TypeOK, Flows, events # <<>>, events' = Tail(events), Send(Head(events), "event"),
         pending = <<>>, UNCHANGED <<board, pending, delivered>>
  PROVE  Flows'
<1> DEFINE c == Head(events)
           last == Len(out) + 1
<1>1. c \in Contents  BY HeadTailProperties DEF TypeOK
<1>2. /\ 1 \in DOMAIN events /\ c = events[1] /\ Sorted(events')
      /\ \A i \in DOMAIN events' : i + 1 \in DOMAIN events /\ events'[i] = events[i + 1]
                                  /\ c.n <= events'[i].n
  BY TakenEvent
<1>3. pending = <<>> /\ pending' = <<>>  OBVIOUS
<1>4. /\ DOMAIN out = 1 .. Len(out) /\ DOMAIN out' = 1 .. last /\ Len(out) \in Nat
      /\ \A i \in DOMAIN out : out'[i] = out[i]
      /\ out'[last] = Frame(c, "event")
  BY <1>1, SentFrame DEF Send
<1>5. out'[last].n = c.n  BY <1>4 DEF Frame
<1> HIDE DEF c, last
<1>6. \A i \in DOMAIN out' : (i \in DOMAIN out /\ out'[i] = out[i]) \/ i = last
  BY <1>4 DEF last
<1>7. delivered <= c.n /\ c.n <= board.n  BY <1>2 DEF Flows
<1>8. \A i \in DOMAIN out : Event(out[i]) => out[i].n <= c.n
  BY <1>2 DEF Flows, InOrder, FramesFirst
<1>9. FramesInOrder'
  <2> SUFFICES ASSUME NEW i \in DOMAIN out', NEW j \in DOMAIN out', i < j,
                      Event(out'[i]), Event(out'[j])
               PROVE  out'[i].n <= out'[j].n
    BY DEF FramesInOrder
  <2>1. i \in DOMAIN out /\ out'[i] = out[i]  BY <1>4, <1>6 DEF last
  <2>2. CASE j = last  BY <1>5, <1>8, <2>1, <2>2
  <2>3. CASE j # last
    <3>1. j \in DOMAIN out /\ out'[j] = out[j]  BY <1>6, <2>3
    <3> QED BY <2>1, <3>1 DEF Flows, InOrder, FramesInOrder
  <2> QED BY <2>2, <2>3
<1>10. FramesFirst'
  <2> SUFFICES ASSUME NEW i \in DOMAIN out', Event(out'[i])
               PROVE  delivered <= out'[i].n /\ \A j \in DOMAIN events' : out'[i].n <= events'[j].n
    BY <1>3 DEF FramesFirst
  <2>1. CASE i = last  BY <1>2, <1>5, <1>7, <2>1
  <2>2. CASE i # last
    <3>1. i \in DOMAIN out /\ out'[i] = out[i]  BY <1>6, <2>2
    <3> QED BY <1>2, <3>1 DEF Flows, InOrder, FramesFirst
  <2> QED BY <2>1, <2>2
<1>11. \A i \in DOMAIN out' : Event(out'[i]) => out'[i].n <= board.n
  BY <1>5, <1>6, <1>7 DEF Flows
<1>12. \A i \in DOMAIN events' : delivered <= events'[i].n /\ events'[i].n <= board.n
  BY <1>2 DEF Flows
<1>13. Sorted(pending') /\ Ascending(pending', events')
  BY <1>3 DEF Sorted, Ascending
<1>14. \A i \in DOMAIN pending' : delivered <= pending'[i].n /\ pending'[i].n <= board.n
  BY <1>3
<1> QED BY <1>2, <1>3, <1>9, <1>10, <1>11, <1>12, <1>13, <1>14 DEF Flows, InOrder

\* The queue with one clip more, before and after its oldest are dropped: every
\* clip of it was queued already or is the new one, which comes last.
LEMMA QueuedLast ==
  ASSUME TypeOK, NEW c \in Contents, pending' = Trimmed(Append(pending, c))
  PROVE  \E d \in Nat :
           /\ \A i \in DOMAIN pending' :
                \/ i + d \in DOMAIN pending /\ pending'[i] = pending[i + d]
                \/ i + d = Len(pending) + 1 /\ pending'[i] = c
           /\ DOMAIN pending' \subseteq Nat
           /\ DOMAIN pending \subseteq 1 .. Len(pending) /\ Len(pending) \in Nat
<1> DEFINE q == Append(pending, c)
<1>1. pending \in Seq(Contents)  BY DEF TypeOK
<1>2. /\ q \in Seq(Contents) /\ Len(q) = Len(pending) + 1
      /\ \A i \in 1 .. Len(pending) : q[i] = pending[i]
      /\ q[Len(pending) + 1] = c
  BY <1>1, AppendProperties
<1>3. Len(pending) \in Nat /\ DOMAIN pending = 1 .. Len(pending)  BY <1>1, LenProperties
<1> HIDE DEF q
<1>4. pending' = Trimmed(q)  BY DEF q
<1>5. PICK d \in Nat : /\ Len(q) = Len(Trimmed(q)) + d
                       /\ \A i \in 1 .. Len(Trimmed(q)) : Trimmed(q)[i] = q[i + d]
  BY <1>2, TrimmedIsSuffix
<1>6. Trimmed(q) \in Seq(Contents)  BY <1>2, TrimmedIsSuffix
<1>7. DOMAIN pending' = 1 .. Len(Trimmed(q)) /\ Len(Trimmed(q)) \in Nat
  BY <1>4, <1>6, LenProperties
<1>8. \A i \in DOMAIN pending' :
        \/ i + d \in DOMAIN pending /\ pending'[i] = pending[i + d]
        \/ i + d = Len(pending) + 1 /\ pending'[i] = c
  <2> SUFFICES ASSUME NEW i \in DOMAIN pending'
               PROVE  \/ i + d \in DOMAIN pending /\ pending'[i] = pending[i + d]
                      \/ i + d = Len(pending) + 1 /\ pending'[i] = c
    OBVIOUS
  <2>1. i + d \in 1 .. Len(pending) + 1  BY <1>2, <1>3, <1>5, <1>7
  <2>2. pending'[i] = q[i + d]  BY <1>4, <1>5, <1>7
  <2> QED BY <1>2, <1>3, <2>1, <2>2
<1>9. DOMAIN pending' \subseteq Nat  BY <1>7
<1> QED BY <1>3, <1>8, <1>9

\* An event that is queued comes after everything on its way.
LEMMA QueueFlows ==
  ASSUME TypeOK, Flows, events # <<>>, events' = Tail(events), Queue(Head(events)),
         UNCHANGED <<board, delivered>>
  PROVE  Flows'
<1> DEFINE c == Head(events)
<1>1. c \in Contents  BY HeadTailProperties DEF TypeOK
<1>2. /\ 1 \in DOMAIN events /\ c = events[1] /\ Sorted(events')
      /\ \A i \in DOMAIN events' : i + 1 \in DOMAIN events /\ events'[i] = events[i + 1]
                                  /\ c.n <= events'[i].n
  BY TakenEvent
<1>3. out' = out  BY DEF Queue
<1>4. CASE UNCHANGED pending  BY <1>3, <1>4, SkipFlows DEF SameEvents
<1>5. CASE pending' = Trimmed(Append(pending, c))
  <2> HIDE DEF c
  <2>1. PICK d \in Nat :
           /\ \A i \in DOMAIN pending' :
                \/ i + d \in DOMAIN pending /\ pending'[i] = pending[i + d]
                \/ i + d = Len(pending) + 1 /\ pending'[i] = c
           /\ DOMAIN pending' \subseteq Nat
           /\ DOMAIN pending \subseteq 1 .. Len(pending) /\ Len(pending) \in Nat
    BY <1>1, <1>5, QueuedLast
  <2>2. delivered <= c.n /\ c.n <= board.n  BY <1>2 DEF Flows
  <2>3. \A i \in DOMAIN pending : pending[i].n <= c.n
    BY <1>2 DEF Flows, InOrder, Ascending
  <2>4. \A i \in DOMAIN pending' : \/ \E k \in DOMAIN pending : pending'[i] = pending[k]
                                   \/ pending'[i] = c
    BY <2>1
  <2>5. Sorted(pending')
    <3> SUFFICES ASSUME NEW i \in DOMAIN pending', NEW j \in DOMAIN pending', i < j
                 PROVE  pending'[i].n <= pending'[j].n
      BY DEF Sorted
    <3>1. i \in Nat /\ j \in Nat /\ i + d < j + d  BY <2>1
    <3>2. i + d \in DOMAIN pending /\ pending'[i] = pending[i + d]  BY <2>1, <3>1
    <3>3. CASE pending'[j] = c  BY <2>3, <3>2, <3>3
    <3>4. CASE j + d \in DOMAIN pending /\ pending'[j] = pending[j + d]
      BY <3>1, <3>2, <3>4 DEF Flows, InOrder, Sorted
    <3> QED BY <2>1, <3>3, <3>4
  <2>6. Ascending(pending', events')
    <3> SUFFICES ASSUME NEW i \in DOMAIN pending', NEW j \in DOMAIN events'
                 PROVE  pending'[i].n <= events'[j].n
      BY DEF Ascending
    <3>1. CASE pending'[i] = c  BY <1>2, <3>1
    <3>2. ASSUME NEW k \in DOMAIN pending, pending'[i] = pending[k]
          PROVE  pending'[i].n <= events'[j].n
      BY <1>2, <3>2 DEF Flows, InOrder, Ascending
    <3> QED BY <2>4, <3>1, <3>2
  <2>7. \A i \in DOMAIN pending' : delivered <= pending'[i].n /\ pending'[i].n <= board.n
    BY <2>2, <2>4 DEF Flows
  <2>8. \A i \in DOMAIN events' : delivered <= events'[i].n /\ events'[i].n <= board.n
    BY <1>2 DEF Flows
  <2>9. FramesFirst'
    <3> SUFFICES ASSUME NEW i \in DOMAIN out, Event(out[i])
                 PROVE  /\ delivered <= out[i].n
                        /\ \A j \in DOMAIN pending' : out[i].n <= pending'[j].n
                        /\ \A j \in DOMAIN events' : out[i].n <= events'[j].n
      BY <1>3 DEF FramesFirst
    <3>1. /\ delivered <= out[i].n /\ out[i].n <= c.n
          /\ \A j \in DOMAIN pending : out[i].n <= pending[j].n
          /\ \A j \in DOMAIN events : out[i].n <= events[j].n
      BY <1>2 DEF Flows, InOrder, FramesFirst
    <3>2. \A j \in DOMAIN pending' : out[i].n <= pending'[j].n  BY <2>4, <3>1
    <3> QED BY <1>2, <3>1, <3>2
  <2>10. FramesInOrder'  BY <1>3 DEF Flows, InOrder, FramesInOrder
  <2>11. \A i \in DOMAIN out' : Event(out'[i]) => out'[i].n <= board.n
    BY <1>3 DEF Flows
  <2> QED BY <1>2, <1>3, <2>5, <2>6, <2>7, <2>8, <2>9, <2>10, <2>11 DEF Flows, InOrder
<1> QED BY <1>4, <1>5 DEF Queue

\* The queue goes out behind what was given to the socket, and before the
\* events that have not been handled.
LEMMA FlushFlows ==
  ASSUME TypeOK, Flows, pending # <<>>, pending' = <<>>, out' = out \o FlushFrames,
         UNCHANGED <<board, events, delivered>>
  PROVE  Flows'
<1> DEFINE k == Len(out)
<1>1. /\ pending \in Seq(Contents) /\ DOMAIN pending = 1 .. Len(pending)
      /\ Len(pending) \in Nat /\ k \in Nat /\ DOMAIN out = 1 .. k
  BY LenProperties DEF TypeOK
<1>2. /\ out' \in Seq(Frames) /\ Len(out') = k + Len(pending)
      /\ \A i \in 1 .. k : out'[i] = out[i]
      /\ \A i \in 1 .. Len(pending) : out'[k + i] = Frame(pending[i], "event")
  BY FlushedFrames
<1>3. DOMAIN out' = 1 .. k + Len(pending)  BY <1>2, LenProperties
<1> HIDE DEF k
\* A frame was there before, or is the flushed one i - k.
<1>4. \A i \in DOMAIN out' :
        \/ i \in DOMAIN out /\ out'[i] = out[i]
        \/ i > k /\ i - k \in DOMAIN pending /\ out'[i].n = pending[i - k].n
  <2> SUFFICES ASSUME NEW i \in DOMAIN out', i \notin DOMAIN out
               PROVE  i > k /\ i - k \in DOMAIN pending /\ out'[i].n = pending[i - k].n
    BY <1>1, <1>2
  <2>1. i > k /\ i - k \in 1 .. Len(pending) /\ k + (i - k) = i  BY <1>1, <1>3
  <2>2. out'[i] = Frame(pending[i - k], "event")  BY <1>2, <2>1
  <2> QED BY <1>1, <2>1, <2>2 DEF Frame
<1>5. FramesInOrder'
  <2> SUFFICES ASSUME NEW i \in DOMAIN out', NEW j \in DOMAIN out', i < j,
                      Event(out'[i]), Event(out'[j])
               PROVE  out'[i].n <= out'[j].n
    BY DEF FramesInOrder
  <2>1. CASE j \in DOMAIN out
    <3>1. i \in DOMAIN out /\ out'[i] = out[i] /\ out'[j] = out[j]
      BY <1>1, <1>2, <1>3, <2>1
    <3> QED BY <2>1, <3>1 DEF Flows, InOrder, FramesInOrder
  <2>2. CASE j > k /\ j - k \in DOMAIN pending /\ out'[j].n = pending[j - k].n
    <3>1. CASE i \in DOMAIN out /\ out'[i] = out[i]
      BY <2>2, <3>1 DEF Flows, InOrder, FramesFirst
    <3>2. CASE i > k /\ i - k \in DOMAIN pending /\ out'[i].n = pending[i - k].n
      <4>1. i - k < j - k  BY <1>1, <1>3
      <4> QED BY <2>2, <3>2, <4>1 DEF Flows, InOrder, Sorted
    <3> QED BY <1>4, <3>1, <3>2
  <2> QED BY <1>4, <2>1, <2>2
<1>6. FramesFirst'
  <2> SUFFICES ASSUME NEW i \in DOMAIN out', Event(out'[i])
               PROVE  delivered <= out'[i].n /\ \A j \in DOMAIN events : out'[i].n <= events[j].n
    BY EmptySeq DEF FramesFirst
  <2>1. CASE i \in DOMAIN out /\ out'[i] = out[i]
    BY <2>1 DEF Flows, InOrder, FramesFirst
  <2>2. CASE i - k \in DOMAIN pending /\ out'[i].n = pending[i - k].n
    BY <2>2 DEF Flows, InOrder, Ascending
  <2> QED BY <1>4, <2>1, <2>2
<1>7. \A i \in DOMAIN out' : Event(out'[i]) => out'[i].n <= board.n
  BY <1>4 DEF Flows
<1>8. Sorted(pending') /\ Sorted(events') /\ Ascending(pending', events')
  BY DEF Flows, InOrder, Sorted, Ascending
<1>9. \A i \in DOMAIN pending' : delivered <= pending'[i].n /\ pending'[i].n <= board.n
  OBVIOUS
<1> QED BY <1>5, <1>6, <1>7, <1>8, <1>9 DEF Flows, InOrder

\* A frame that no event made bounds nothing.
LEMMA ReadFlows ==
  ASSUME TypeOK, Flows, SameEvents, UNCHANGED <<board, events, pending, delivered>>
  PROVE  Flows'
<1> USE DEF SameEvents
<1>1. FramesInOrder'  BY DEF Flows, InOrder, FramesInOrder
<1>2. FramesFirst'  BY DEF Flows, InOrder, FramesFirst
<1>3. Sorted(pending') /\ Sorted(events') /\ Ascending(pending', events')
  BY DEF Flows, InOrder
<1>4. \A i \in DOMAIN out' : Event(out'[i]) => out'[i].n <= board.n
  BY DEF Flows
<1> QED BY <1>1, <1>2, <1>3, <1>4 DEF Flows, InOrder

\* The frame that arrives is the first: nothing behind it is older.
LEMMA DeliverFlows == ASSUME TypeOK, Flows, Deliver PROVE Flows'
<1>1. /\ out # <<>> /\ out' = Tail(out)
      /\ delivered' = IF Event(Head(out)) THEN Head(out).n ELSE delivered
      /\ UNCHANGED <<board, events, pending>>
  BY DEF Deliver, Event, board3, guard
<1>2. out \in Seq(Frames) /\ Len(out) \in Nat /\ DOMAIN out = 1 .. Len(out)
  BY LenProperties DEF TypeOK
<1>3. Len(out) # 0  BY <1>1, <1>2, EmptySeq
<1>4. /\ out' \in Seq(Frames) /\ Len(out') = Len(out) - 1
      /\ \A i \in 1 .. Len(out') : out'[i] = out[i + 1]
  BY <1>1, <1>2, HeadTailProperties
<1>5. DOMAIN out' = 1 .. Len(out) - 1  BY <1>4, LenProperties
<1>6. 1 \in DOMAIN out /\ Head(out) = out[1]  BY <1>2, <1>3
<1>7. \A i \in DOMAIN out' :
        i \in Int /\ 1 < i + 1 /\ i + 1 \in DOMAIN out /\ out'[i] = out[i + 1]
  BY <1>2, <1>4, <1>5
<1>8. FramesInOrder'
  <2> SUFFICES ASSUME NEW i \in DOMAIN out', NEW j \in DOMAIN out', i < j,
                      Event(out'[i]), Event(out'[j])
               PROVE  out'[i].n <= out'[j].n
    BY DEF FramesInOrder
  <2>1. i + 1 < j + 1  BY <1>7
  <2> QED BY <1>7, <2>1 DEF Flows, InOrder, FramesInOrder
<1>9. \A i \in DOMAIN out' : Event(out'[i]) => delivered' <= out'[i].n
  BY <1>1, <1>6, <1>7 DEF Flows, InOrder, FramesInOrder, FramesFirst
<1>10. FramesFirst'
  BY <1>1, <1>7, <1>9 DEF Flows, InOrder, FramesFirst
<1>11. delivered' <= board.n
  BY <1>1, <1>6 DEF Flows
<1>12. \A i \in DOMAIN pending : delivered' <= pending[i].n
  BY <1>1, <1>6 DEF Flows, InOrder, FramesFirst
<1>13. \A i \in DOMAIN events : delivered' <= events[i].n
  BY <1>1, <1>6 DEF Flows, InOrder, FramesFirst
<1>14. \A i \in DOMAIN out' : Event(out'[i]) => out'[i].n <= board.n
  BY <1>7 DEF Flows
<1> QED BY <1>1, <1>8, <1>10, <1>11, <1>12, <1>13, <1>14 DEF Flows, InOrder

\* What Flows looks at.
LEMMA SameFlows ==
  ASSUME Flows, UNCHANGED <<board, events, pending, out, delivered>>
  PROVE  Flows'
<1>1. InOrder'
  BY DEF Flows, InOrder, FramesInOrder, FramesFirst, Sorted, Ascending
<1> QED BY <1>1 DEF Flows

\* Every step keeps what flows in order.
LEMMA FlowsStep == TypeOK /\ Flushed /\ Flows /\ [Next]_vars => Flows'
<1> SUFFICES ASSUME TypeOK, Flushed, Flows, [Next]_vars PROVE Flows'
  OBVIOUS
<1> USE DEF board3, guard, wire, bounds
<1>1. ASSUME NEW t \in Text, UserCopies(t) PROVE Flows'
  BY <1>1, PutFlows DEF UserCopies
<1>2. ASSUME NEW t \in Text, OnClip(t) PROVE Flows'
  BY <1>2, SameFlows DEF OnClip
<1>3. CASE WriteLands  BY <1>3, PutFlows DEF WriteLands
<1>4. CASE EmitClipboardChange  BY <1>4, EmitFlows
<1>5. CASE OnClipboardChanged
  <2>1. events # <<>> /\ events' = Tail(events) /\ UNCHANGED <<board, delivered>>
    BY <1>5 DEF OnClipboardChanged
  <2>2. CASE UNCHANGED <<pending, out>>  BY <2>1, <2>2, SkipFlows DEF SameEvents
  <2>3. CASE Send(Head(events), Via) /\ UNCHANGED pending
    <3>1. Head(events) \in Contents  BY <2>1, HeadTailProperties DEF TypeOK
    <3>2. CASE pending = <<>>
      <4>1. Via = "event"  BY <3>2 DEF Via
      <4> QED BY <2>1, <2>3, <3>2, <4>1, SendFlows
    <3>3. CASE pending # <<>>
      <4>1. Via = "early"  BY <2>3, <3>3 DEF Via, Send, Sends, Flushed
      <4>2. SameEvents  BY <2>3, <3>1, <4>1, UnseenFrame DEF Send
      <4> QED BY <2>1, <2>3, <4>2, SkipFlows
    <3> QED BY <3>2, <3>3
  <2>4. CASE Queue(Head(events))  BY <2>1, <2>4, QueueFlows
  <2> QED BY <1>5, <2>2, <2>3, <2>4 DEF OnClipboardChanged
<1>6. CASE Link
  <2>1. CASE AppStays /\ QueueStays  BY <2>1, SameFlows DEF AppStays, QueueStays
  <2>2. ASSUME NEW taken \in BOOLEAN, AppStays, Flush(taken) PROVE Flows'
    <3>1. UNCHANGED <<board, events, delivered>>  BY <2>2 DEF AppStays
    <3>2. CASE UNCHANGED <<out, pending>>  BY <3>1, <3>2, SameFlows
    <3>3. CASE pending # <<>> /\ pending' = <<>> /\ out' = out \o FlushFrames
      BY <3>1, <3>3, FlushFlows
    <3> QED BY <2>2, <3>2, <3>3 DEF Flush, FlushFrames
  <2>3. CASE Unpair  BY <2>3, SameFlows DEF Unpair
  <2> QED BY <1>6, <2>1, <2>2, <2>3, LinkSteps
<1>7. ASSUME NEW kind \in {"auto", "button"}, StartRead(kind) PROVE Flows'
  BY <1>7, SameFlows DEF StartRead
<1>8. CASE FinishRead
  <2>1. UNCHANGED <<board, events, pending, delivered>>  BY <1>8 DEF FinishRead
  <2>2. CASE UNCHANGED out  BY <2>1, <2>2, SameFlows
  <2>3. CASE out' = Append(out, Frame(wasRead, "read"))
    <3>1. wasRead \in Contents  BY DEF TypeOK
    <3>2. SameEvents  BY <2>3, <3>1, UnseenFrame
    <3> QED BY <2>1, <3>2, ReadFlows
  <2> QED BY <1>8, <2>2, <2>3 DEF FinishRead, Send
<1>9. CASE Deliver  BY <1>9, DeliverFlows
<1>10. CASE UNCHANGED vars  BY <1>10, SameFlows DEF vars
<1> QED BY <1>1, <1>2, <1>3, <1>4, <1>5, <1>6, <1>7, <1>8, <1>9, <1>10 DEF Next

\* A flush the socket takes leaves nothing, and one it does not take is of a
\* socket that is not up.
LEMMA FlushedByAck ==
  ASSUME NEW taken \in BOOLEAN, Flush(taken), sock' = "acked" => taken
  PROVE  Flushed'
BY DEF Flush, Flushed

\* Nothing waits on a session that is up: a key comes only with a flush, and an
\* event is queued only when the socket does not take it.
LEMMA FlushedStep == Flushed /\ [Next]_vars => Flushed'
<1> SUFFICES ASSUME Flushed, [Next]_vars PROVE Flushed'
  OBVIOUS
<1> USE DEF guard, link, session
<1>1. ASSUME NEW t \in Text, UserCopies(t) \/ OnClip(t) PROVE Flushed'
  BY <1>1 DEF UserCopies, OnClip, Flushed
<1>2. CASE WriteLands \/ EmitClipboardChange \/ FinishRead \/ Deliver
  BY <1>2 DEF WriteLands, EmitClipboardChange, FinishRead, Deliver, Flushed
<1>3. CASE OnClipboardChanged
  BY <1>3 DEF OnClipboardChanged, Queue, Sends, Flushed
<1>4. CASE Pair \/ Attempt \/ Opens \/ NetworkChanged
  BY <1>4 DEF Pair, Attempt, Opens, NetworkChanged, Flushed
<1>5. CASE Drops \/ LateClose  BY <1>5 DEF Drops, LateClose, Closed, Flushed
<1>6. CASE ErrorFrame \/ Unpair  BY <1>6 DEF ErrorFrame, Unpair, QueueStays, Flushed
<1>7. CASE HelloAck  BY <1>7, FlushedByAck DEF HelloAck
<1>8. CASE LateAck
  <2>1. (sock \in {"open", "acked"}) \in BOOLEAN /\ sock' = sock  BY <1>8 DEF LateAck
  <2> QED BY <1>8, <2>1, FlushedByAck DEF LateAck
<1>9. CASE FormerReports
  BY <1>9 DEF FormerReports, Flush, QueueStays, Sends, Flushed
<1>10. ASSUME NEW kind \in {"auto", "button"}, StartRead(kind) PROVE Flushed'
  BY <1>10 DEF StartRead, Flushed
<1>11. CASE UNCHANGED vars  BY <1>11 DEF vars, Flushed
<1> QED BY <1>1, <1>2, <1>3, <1>4, <1>5, <1>6, <1>7, <1>8, <1>9, <1>10, <1>11 DEF Next, Link

\* While the socket has its hello-ack and the client its key, nothing waits in
\* the queue (flushPendingClips, App.tsx:193-208, 291-293).
THEOREM NothingWaits == Spec => []Flushed
<1>1. Init => Flushed  BY DEF Init, Flushed
<1> QED BY <1>1, FlushedStep, PTL DEF Spec

\* The frames of the listener are in the order of the copies, however often the
\* connection is lost in between, except the early ones: those an open socket
\* took before its hello-ack, past a queue that waited for it (App.tsx:193-230).
THEOREM ReportedInOrder == Spec => []InOrder
<1>1. Init => TypeOK /\ Flows  BY TypeInit, FlowsInit
<1>2. TypeOK /\ Flushed /\ Flows /\ [Next]_vars => TypeOK' /\ Flows'  BY TypeStep, FlowsStep
<1>3. Flows => InOrder  BY DEF Flows
<1> QED BY <1>1, <1>2, <1>3, NothingWaits, PTL DEF Spec

(***************************************************************************)
(* The queue                                                               *)
(***************************************************************************)

\* What is queued differs from the last one, which dropping the oldest keeps.
LEMMA QueueBacklog ==
  ASSUME TypeOK, Backlog, NEW c \in Contents, Queue(c)
  PROVE  Backlog'
<1>1. CASE pending' = pending  BY <1>1 DEF Backlog
<1>2. CASE ~Repeats(c) /\ pending' = Trimmed(Append(pending, c))
  <2>1. PICK d \in Nat :
           /\ \A i \in DOMAIN pending' :
                \/ i + d \in DOMAIN pending /\ pending'[i] = pending[i + d]
                \/ i + d = Len(pending) + 1 /\ pending'[i] = c
           /\ DOMAIN pending' \subseteq Nat
           /\ DOMAIN pending \subseteq 1 .. Len(pending) /\ Len(pending) \in Nat
    BY <1>2, QueuedLast
  <2>2. Append(pending, c) \in Seq(Contents)  BY AppendProperties DEF TypeOK
  <2>3. pending' \in Seq(Contents) /\ Len(pending') <= Cap
    <3> DEFINE q == Append(pending, c)
    <3>1. Len(q) \in Nat /\ Cap \in Nat
      BY <2>2, LenProperties, PhoneClipsAssumption DEF PhoneClipsAssumption
    <3>2. Trimmed(q) \in Seq(Contents) /\ Len(Trimmed(q)) = IF Len(q) <= Cap THEN Len(q) ELSE Cap
      BY <2>2, TrimmedIsSuffix
    <3> HIDE DEF q
    <3>3. Len(Trimmed(q)) <= Cap  BY <3>1, <3>2
    <3> QED BY <1>2, <3>2, <3>3 DEF q
  <2>4. DOMAIN pending' = 1 .. Len(pending') /\ Len(pending') \in Nat  BY <2>3, LenProperties
  <2>5. ASSUME NEW i \in 1 .. Len(pending') - 1
        PROVE  pending'[i].text # pending'[i + 1].text
    <3>1. i \in DOMAIN pending' /\ i + 1 \in DOMAIN pending' /\ i >= 1  BY <2>4
    <3>2. i + d \in DOMAIN pending /\ pending'[i] = pending[i + d]  BY <2>1, <2>4, <3>1
    <3>3. CASE i + 1 + d \in DOMAIN pending /\ pending'[i + 1] = pending[i + 1 + d]
      <4>1. i + d \in 1 .. Len(pending) - 1 /\ (i + d) + 1 = i + 1 + d  BY <2>1, <3>1, <3>3
      <4> QED BY <3>2, <3>3, <4>1 DEF Backlog
    <3>4. CASE i + 1 + d = Len(pending) + 1 /\ pending'[i + 1] = c
      <4>1. i + d = Len(pending) /\ pending # <<>>  BY <2>1, <3>1, <3>2, <3>4
      <4> QED BY <1>2, <3>2, <3>4, <4>1 DEF Repeats
    <3> QED BY <2>1, <3>1, <3>3, <3>4
  <2> QED BY <2>3, <2>5 DEF Backlog
<1> QED BY <1>1, <1>2 DEF Queue

\* An empty queue is a good one.
LEMMA EmptyBacklog == ASSUME pending' = <<>> PROVE Backlog'
<1>1. Len(pending') = 0  BY EmptySeq
<1> QED BY <1>1, PhoneClipsAssumption DEF Backlog, PhoneClipsAssumption

\* What a step does to the queue: a clip more, all of it sent, or nothing.
LEMMA QueueSteps ==
  ASSUME TypeOK, [Next]_vars
  PROVE  \/ pending' = pending
         \/ \E c \in Contents : Queue(c)
         \/ pending # <<>> /\ pending' = <<>> /\ out' = out \o FlushFrames
<1> USE DEF board3, guard, link, bounds
<1>1. CASE OnClipboardChanged
  <2>1. Head(events) \in Contents  BY <1>1, HeadTailProperties DEF OnClipboardChanged, TypeOK
  <2> QED BY <1>1, <2>1 DEF OnClipboardChanged
<1>2. CASE Link
  <2>1. CASE AppStays /\ QueueStays  BY <2>1 DEF QueueStays
  <2>2. ASSUME NEW taken \in BOOLEAN, Flush(taken)
        PROVE  \/ pending' = pending
               \/ pending # <<>> /\ pending' = <<>> /\ out' = out \o FlushFrames
    BY <2>2 DEF Flush, FlushFrames
  <2>3. CASE Unpair  BY <2>3 DEF Unpair
  <2> QED BY <1>2, <2>1, <2>2, <2>3, LinkSteps
<1>3. ASSUME NEW t \in Text, UserCopies(t) \/ OnClip(t) PROVE pending' = pending
  BY <1>3 DEF UserCopies, OnClip
<1>4. CASE WriteLands \/ EmitClipboardChange \/ FinishRead \/ Deliver
  BY <1>4 DEF WriteLands, EmitClipboardChange, FinishRead, Deliver
<1>5. ASSUME NEW kind \in {"auto", "button"}, StartRead(kind) PROVE pending' = pending
  BY <1>5 DEF StartRead
<1>6. CASE UNCHANGED vars  BY <1>6 DEF vars
<1> QED BY <1>1, <1>2, <1>3, <1>4, <1>5, <1>6 DEF Next

\* Every step leaves a good queue.
LEMMA BacklogStep == TypeOK /\ Backlog /\ [Next]_vars => Backlog'
<1> SUFFICES ASSUME TypeOK, Backlog, [Next]_vars PROVE Backlog'
  OBVIOUS
<1>1. CASE pending' = pending  BY <1>1 DEF Backlog
<1>2. ASSUME NEW c \in Contents, Queue(c) PROVE Backlog'  BY <1>2, QueueBacklog
<1>3. CASE pending' = <<>>  BY <1>3, EmptyBacklog
<1> QED BY <1>1, <1>2, <1>3, QueueSteps

\* The queue is bounded and no two neighbours in it are the same text
\* (App.tsx:221-227).
THEOREM BoundedBacklog == Spec => []Backlog
<1>1. Init => Backlog
  BY EmptySeq, PhoneClipsAssumption DEF Init, Backlog, PhoneClipsAssumption
<1>2. TypeOK /\ Backlog /\ [Next]_vars => Backlog'  BY BacklogStep
<1> QED BY <1>1, <1>2, Typing, PTL DEF Spec

\* What happens to clip i of the queue when another is queued.
LEMMA QueueKeeps ==
  ASSUME TypeOK, Backlog, NEW c \in Contents, Queue(c), NEW i \in DOMAIN pending
  PROVE  \/ \E j \in DOMAIN pending' : pending'[j] = pending[i]
         \/ i = 1 /\ Len(pending) = Cap
<1>1. CASE pending' = pending  BY <1>1
<1>2. CASE pending' = Trimmed(Append(pending, c))
  <2> DEFINE q == Append(pending, c)
  <2>1. /\ q \in Seq(Contents) /\ Len(q) = Len(pending) + 1
        /\ \A k \in 1 .. Len(pending) : q[k] = pending[k]
    BY AppendProperties DEF TypeOK
  <2>2. Len(pending) \in Nat /\ DOMAIN pending = 1 .. Len(pending) /\ Len(pending) <= Cap
    BY LenProperties DEF TypeOK, Backlog
  <2> HIDE DEF q
  <2>3. pending' = Trimmed(q)  BY <1>2 DEF q
  <2>4. Len(pending') = IF Len(q) <= Cap THEN Len(q) ELSE Cap
    BY <2>1, <2>3, TrimmedIsSuffix
  <2>5. PICK d \in Nat : /\ Len(q) = Len(pending') + d
                         /\ \A k \in 1 .. Len(pending') : pending'[k] = q[k + d]
    BY <2>1, <2>3, TrimmedIsSuffix, ZenonT(60)
  <2>6. DOMAIN pending' = 1 .. Len(pending')
    BY <2>1, <2>3, TrimmedIsSuffix, LenProperties
  <2>7. CASE i > d
    <3>1. i - d \in 1 .. Len(pending') /\ i - d + d = i
      BY <2>1, <2>2, <2>5, <2>7
    <3>2. pending'[i - d] = pending[i]  BY <2>1, <2>2, <2>5, <3>1
    <3> QED BY <2>6, <3>1, <3>2
  <2>8. CASE ~(i > d)
    <3>1. Cap \in Nat  BY PhoneClipsAssumption DEF PhoneClipsAssumption
    <3>2. d >= 1 /\ i \in 1 .. Len(pending)  BY <2>2, <2>8
    <3>3. ~(Len(q) <= Cap)  BY <2>1, <2>2, <2>4, <2>5, <3>1, <3>2
    <3>4. Len(pending) = Cap /\ d = 1
      <4>1. Len(pending') = Cap  BY <2>4, <3>3
      <4>2. Len(pending) + 1 = Cap + d  BY <2>1, <2>5, <4>1
      <4>3. Len(pending) + 1 > Cap  BY <2>1, <2>2, <3>1, <3>3
      <4>4. Len(pending) \in Nat /\ Len(pending) <= Cap  BY <2>2
      <4>5. Len(pending) = Cap  BY <3>1, <4>3, <4>4
      <4> QED BY <3>1, <4>2, <4>5
    <3> QED BY <2>2, <2>8, <3>2, <3>4
  <2> QED BY <2>7, <2>8
<1> QED BY <1>1, <1>2 DEF Queue

\* A queued clip leaves by being sent, or as the oldest of a full queue: nothing
\* else the app does loses it (App.tsx:193-208, 224-227).
THEOREM NoClipLost == Spec => KeptUntilSent
<1>1. ASSUME TypeOK, Backlog, [Next]_vars, NEW i \in DOMAIN pending
      PROVE  \/ \E j \in DOMAIN pending' : pending'[j] = pending[i]
             \/ \E j \in DOMAIN out' : out'[j] = Frame(pending[i], "event")
             \/ i = 1 /\ Len(pending) = Cap
  <2>1. CASE pending' = pending  BY <2>1
  <2>2. ASSUME NEW c \in Contents, Queue(c)
        PROVE  \/ \E j \in DOMAIN pending' : pending'[j] = pending[i]
               \/ i = 1 /\ Len(pending) = Cap
    BY <1>1, <2>2, QueueKeeps
  <2>3. CASE out' = out \o FlushFrames
    <3>1. i \in 1 .. Len(pending) /\ Len(pending) \in Nat /\ Len(out) \in Nat
      BY <1>1, LenProperties DEF TypeOK
    <3>2. /\ out' \in Seq(Frames) /\ Len(out') = Len(out) + Len(pending)
          /\ out'[Len(out) + i] = Frame(pending[i], "event")
      BY <1>1, <2>3, <3>1, FlushedFrames
    <3>3. Len(out) + i \in DOMAIN out'  BY <3>1, <3>2, LenProperties
    <3> QED BY <3>2, <3>3
  <2> QED BY <1>1, <2>1, <2>2, <2>3, QueueSteps
<1> DEFINE Kept ==
      \A i \in DOMAIN pending :
        \/ \E j \in DOMAIN pending' : pending'[j] = pending[i]
        \/ \E j \in DOMAIN out' : out'[j] = Frame(pending[i], "event")
        \/ i = 1 /\ Len(pending) = Cap
<1>2. TypeOK /\ Backlog /\ [Next]_vars => [Kept]_vars  BY <1>1
<1>3. Spec => []TypeOK /\ []Backlog  BY Typing, BoundedBacklog
<1>4. KeptUntilSent <=> [][Kept]_vars  BY DEF KeptUntilSent
<1> HIDE DEF Kept
<1> QED BY <1>2, <1>3, <1>4, PTL DEF Spec

\* What is said of the queue, at once: types, its bound, and its order
\* (onClipboardChanged, flushPendingClips).
THEOREM TheQueueHolds == Spec => []QueueHolds
BY Typing, BoundedBacklog, NothingWaits, ReportedInOrder, PTL DEF QueueHolds
=============================================================================
