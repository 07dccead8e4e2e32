---------------------------- MODULE FanoutProofs ----------------------------
(***************************************************************************)
(* The sessions of the PC implement the feed, for any number of phones,    *)
(* any capacity of the channel and messages of any number of frames: every *)
(* step of Fanout is a step of Feed or changes nothing that Feed sees.     *)
(***************************************************************************)
EXTENDS Fanout, TLAPS

Stages == {"off", "acked", "serving", "writing", "answering"}

Fits(m) == Frames[m] # 0

\* What the receivers and the tasks are.
SessionsTyped ==
  /\ log \in Seq(Message)
  /\ stage \in [Session -> Stages]
  /\ taken \in [Session -> Nat] /\ left \in [Session -> Nat]
  /\ peer \in [Session -> {"here", "closed", "gone"}]
  /\ sent \in [Session -> Seq(Nat)]

\* No receiver is ahead of the channel, and what is being written is the
\* message its receiver took last, which does go out.
SessionSound(s) ==
  /\ taken[s] <= Len(log)
  /\ stage[s] = "writing" => taken[s] > 0 /\ left[s] > 0 /\ Fits(log[taken[s]])

SessionsInv == SessionsTyped /\ \A s \in Session : SessionSound(s)

\* A step touches one session at most.
LEMMA Frame ==
  ASSUME SessionsInv, NEW s \in Session, log' = log,
         \A t \in Session \ {s} : /\ stage'[t] = stage[t] /\ taken'[t] = taken[t]
                                  /\ left'[t] = left[t],
         SessionSound(s)'
  PROVE  \A t \in Session : SessionSound(t)'
BY DEF SessionsInv, SessionSound, Fits

\* A lagging receiver goes on at the oldest message the channel holds.
LEMMA OldestIsAhead ==
  ASSUME SessionsInv, NEW s \in Session, Lagging(s)
  PROVE  Oldest \in Nat /\ Oldest <= Len(log) /\ taken[s] < Oldest
<1>1. Len(log) \in Nat /\ taken[s] \in Nat /\ Capacity \in Nat
  BY FanoutAssumption DEF SessionsInv, SessionsTyped
<1> QED BY <1>1 DEF Lagging, Oldest

\* The invariant of the sessions (the loop of serve, server.rs).
THEOREM SessionsStaySound == Spec => []SessionsInv
<1>1. Init => SessionsInv
  BY DEF Init, SessionsInv, SessionsTyped, SessionSound, Stages
<1>2. SessionsInv /\ [Next]_vars => SessionsInv'
  <2> SUFFICES ASSUME SessionsInv, [Next]_vars PROVE SessionsInv'
    OBVIOUS
  <2> USE DEF SessionsTyped, outbound, wire
  <2>1. SessionsTyped /\ Len(log) \in Nat
    BY DEF SessionsInv
  <2>2. CASE Publish
    <3>1. PICK m \in Message : log' = Append(log, m)
      BY <2>2 DEF Publish
    <3>2. log' \in Seq(Message) /\ Len(log') = Len(log) + 1
      BY <2>1, <3>1
    <3>3. \A i \in 1 .. Len(log) : log'[i] = log[i]
      BY <2>1, <3>1
    <3>4. \A s \in Session : SessionSound(s)'
      <4> TAKE s \in Session
      <4>1. /\ SessionSound(s) /\ taken[s] \in Nat
            /\ stage' = stage /\ taken' = taken /\ left' = left
        BY <2>1, <2>2 DEF Publish, SessionsInv
      <4>2. taken[s] > 0 => log'[taken[s]] = log[taken[s]]
        BY <3>3, <4>1, <2>1 DEF SessionSound
      <4> QED BY <2>1, <3>2, <4>1, <4>2 DEF SessionSound, Fits
    <3> QED BY <2>1, <2>2, <3>2, <3>4 DEF Publish, SessionsInv
  <2>3. ASSUME NEW s \in Session, Connect(s) PROVE SessionsInv'
    <3>1. SessionsTyped'
      BY <2>1, <2>3 DEF Connect, Stages
    <3>2. SessionSound(s)'
      BY <2>1, <2>3 DEF Connect, SessionsInv, SessionSound
    <3> QED BY <2>1, <2>3, <3>1, <3>2, Frame DEF Connect, SessionsInv
  <2>4. ASSUME NEW s \in Session, Subscribe(s) PROVE SessionsInv'
    <3>1. SessionsTyped'
      BY <2>1, <2>4 DEF Subscribe, Stages
    <3>2. SessionSound(s)'
      BY <2>1, <2>4 DEF Subscribe, SessionsInv, SessionSound
    <3> QED BY <2>1, <2>4, <3>1, <3>2, Frame DEF Subscribe, SessionsInv
  <2>5. ASSUME NEW s \in Session, Lagged(s) PROVE SessionsInv'
    <3>1. Oldest \in Nat /\ Oldest <= Len(log)
      BY <2>5, OldestIsAhead DEF Lagged
    <3>2. SessionsTyped'
      BY <2>1, <2>5, <3>1 DEF Lagged
    <3>3. SessionSound(s)'
      BY <2>1, <2>5, <3>1 DEF Lagged, SessionsInv, SessionSound
    <3> QED BY <2>1, <2>5, <3>2, <3>3, Frame DEF Lagged, SessionsInv
  <2>6. ASSUME NEW s \in Session, Recv(s) PROVE SessionsInv'
    <3> DEFINE m == log[taken[s] + 1]
    <3>1. taken[s] \in Nat /\ taken[s] + 1 <= Len(log) /\ m \in Message
      BY <2>1, <2>6 DEF Recv
    <3>2. Frames[m] \in Nat
      BY <3>1, FanoutAssumption
    <3>3. /\ taken' = [taken EXCEPT ![s] = taken[s] + 1]
          /\ left' = [left EXCEPT ![s] = Frames[m]]
          /\ stage' = [stage EXCEPT ![s] = IF left'[s] = 0 THEN "serving" ELSE "writing"]
          /\ UNCHANGED <<log, sent, peer>>
      BY <2>6 DEF Recv
    <3> HIDE DEF m
    <3>4. SessionsTyped'
      BY <2>1, <3>1, <3>2, <3>3 DEF Stages
    <3>5. SessionSound(s)'
      <4>1. /\ taken'[s] = taken[s] + 1 /\ left'[s] = Frames[m] /\ log' = log
            /\ stage'[s] = "writing" => left'[s] # 0
        BY <2>1, <3>3
      <4> QED BY <3>1, <3>2, <4>1 DEF SessionSound, Fits, m
    <3> QED BY <2>1, <3>3, <3>4, <3>5, Frame DEF SessionsInv
  <2>7. ASSUME NEW s \in Session, Written(s) PROVE SessionsInv'
    <3>1. /\ stage[s] = "writing" /\ left[s] \in Nat /\ left[s] > 0
          /\ SessionSound(s) /\ taken[s] \in Nat
      BY <2>1, <2>7 DEF Written, SessionsInv, SessionSound
    <3>2. /\ left' = [left EXCEPT ![s] = left[s] - 1]
          /\ UNCHANGED <<log, taken, peer>>
          /\ \/ left'[s] > 0 /\ UNCHANGED <<stage, sent>>
             \/ /\ stage' = [stage EXCEPT ![s] = "serving"]
                /\ sent' = [sent EXCEPT ![s] = Append(sent[s], taken[s])]
      BY <2>7 DEF Written
    <3>3. SessionsTyped'
      <4>1. Append(sent[s], taken[s]) \in Seq(Nat)
        BY <2>1, <3>1
      <4>2. sent' \in [Session -> Seq(Nat)]
        BY <2>1, <3>2, <4>1
      <4>3. left[s] - 1 \in Nat
        BY <3>1
      <4>4. left' \in [Session -> Nat]
        BY <2>1, <3>2, <4>3
      <4>5. stage' \in [Session -> Stages]
        BY <2>1, <3>2 DEF Stages
      <4> QED BY <2>1, <3>2, <4>2, <4>4, <4>5
    <3>4. SessionSound(s)'
      BY <2>1, <3>1, <3>2 DEF SessionSound
    <3> QED BY <2>1, <3>2, <3>3, <3>4, Frame DEF SessionsInv
  <2>8. ASSUME NEW s \in Session,
               PhoneSends(s) \/ PhoneReads(s)
        PROVE  SessionsInv'
    BY <2>1, <2>8 DEF PhoneSends, PhoneReads, SessionsInv, SessionSound, Fits
  <2>9. ASSUME NEW s \in Session, ReadFrame(s) \/ Answered(s) PROVE SessionsInv'
    <3>1. /\ UNCHANGED <<outbound, peer>>
          /\ stage' = stage \/ stage' = [stage EXCEPT ![s] = "answering"]
                            \/ stage' = [stage EXCEPT ![s] = "serving"]
      BY <2>9 DEF ReadFrame, Answered
    <3>2. SessionsTyped'
      BY <2>1, <3>1 DEF Stages
    <3>3. SessionSound(s)'
      BY <2>1, <3>1 DEF SessionsInv, SessionSound, Fits
    <3> QED BY <2>1, <3>1, <3>2, <3>3, Frame DEF SessionsInv
  <2>10. ASSUME NEW s \in Session, PhoneEnds(s) PROVE SessionsInv'
    <3>1. SessionsTyped'
      BY <2>1, <2>10 DEF PhoneEnds
    <3> QED BY <2>1, <2>10, <3>1 DEF PhoneEnds, SessionsInv, SessionSound, Fits
  <2>11. ASSUME NEW s \in Session, Ends(s) PROVE SessionsInv'
    <3>1. SessionsTyped'
      BY <2>1, <2>11 DEF Ends, Stages
    <3>2. SessionSound(s)'
      BY <2>1, <2>11 DEF Ends, SessionsInv, SessionSound
    <3> QED BY <2>1, <2>11, <3>1, <3>2, Frame DEF Ends, SessionsInv
  <2>12. CASE UNCHANGED vars
    BY <2>1, <2>12 DEF vars, SessionsInv, SessionSound, Fits
  <2> QED
    BY <2>2, <2>3, <2>4, <2>5, <2>6, <2>7, <2>8, <2>9, <2>10, <2>11, <2>12 DEF Next
<1> QED BY <1>1, <1>2, PTL DEF Spec

------------------------------------------------------------------------------
(* The feed *)

\* What Feed sees of the sessions, besides the log and what was sent.
Open  == [s \in Session |-> Subscribed(s)]
Hears == [s \in Session |-> Subscribed(s) /\ peer[s] = "here"]

\* A step that leaves this as it is is a stutter of the feed.
LEMMA Unseen ==
  ASSUME UNCHANGED <<log, sent>>,
         \A s \in Session : /\ Subscribed(s)' = Subscribed(s)
                            /\ Hears'[s] = Hears[s]
                            /\ Passed'[s] = Passed[s]
  PROVE  UNCHANGED Promise!vars
<1>1. Open' = Open
  BY DEF Open
<1>2. Hears' = Hears
  BY DEF Hears
<1>3. Passed' = Passed
  BY DEF Passed
<1> QED BY <1>1, <1>2, <1>3 DEF Promise!vars, Open, Hears

\* A step that changes one session changes its entry of what Feed sees alone.
LEMMA Seen ==
  ASSUME SessionsInv, NEW s \in Session,
         \A t \in Session \ {s} : /\ stage'[t] = stage[t] /\ taken'[t] = taken[t]
                                  /\ peer'[t] = peer[t]
  PROVE  /\ Open' = [Open EXCEPT ![s] = Subscribed(s)']
         /\ Hears' = [Hears EXCEPT ![s] = (Subscribed(s) /\ peer[s] = "here")']
         /\ Passed' = [Passed EXCEPT ![s] = Passed'[s]]
<1>1. Open' = [Open EXCEPT ![s] = Subscribed(s)']
  BY DEF Open, Subscribed
<1>2. Hears' = [Hears EXCEPT ![s] = (Subscribed(s) /\ peer[s] = "here")']
  BY DEF Hears, Subscribed
<1>3. Passed' = [Passed EXCEPT ![s] = Passed'[s]]
  BY DEF Passed
<1> QED BY <1>1, <1>2, <1>3

\* What a step of the sessions is to the feed: a message is given when its last
\* frame is written, a reader joins when the receiver is made, and leaves when
\* its session ends.
LEMMA StepsOfFeed ==
  ASSUME SessionsInv, [Next]_vars
  PROVE  Promise!Next \/ UNCHANGED Promise!vars
<1> USE DEF outbound, wire
<1>1. SessionsTyped /\ Len(log) \in Nat /\ \A s \in Session : SessionSound(s)
  BY DEF SessionsInv, SessionsTyped
<1>2. CASE Publish
  <2>1. Open' = Open /\ Hears' = Hears /\ Passed' = Passed /\ sent' = sent
    BY <1>2 DEF Publish, Open, Hears, Passed, Subscribed
  <2>2. Promise!Publish
    BY <1>2, <2>1 DEF Publish, Promise!Publish, Open, Hears
  <2> QED BY <2>2 DEF Promise!Next
<1>3. ASSUME NEW s \in Session, Connect(s) PROVE UNCHANGED Promise!vars
  <2>1. /\ stage[s] = "off" /\ stage' = [stage EXCEPT ![s] = "acked"]
        /\ UNCHANGED <<log, sent, taken>>
        /\ \A t \in Session \ {s} : peer'[t] = peer[t]
    BY <1>1, <1>3 DEF Connect, SessionsTyped
  <2> QED BY <1>1, <2>1, Unseen DEF SessionsTyped, Subscribed, Hears, Passed
<1>4. ASSUME NEW s \in Session, Subscribe(s) PROVE Promise!Join(s)
  <2>1. /\ stage[s] = "acked" /\ stage'[s] = "serving" /\ taken'[s] = Len(log)
        /\ \A t \in Session \ {s} : /\ stage'[t] = stage[t] /\ taken'[t] = taken[t]
                                    /\ peer'[t] = peer[t]
        /\ log' = log /\ sent' = [sent EXCEPT ![s] = <<>>]
    BY <1>1, <1>4 DEF Subscribe, SessionsTyped
  <2>2. ~Subscribed(s) /\ Subscribed(s)' /\ Passed'[s] = Len(log)
    BY <2>1 DEF Subscribed, Passed
  <2>3. /\ Open' = [Open EXCEPT ![s] = TRUE]
        /\ Hears' = [Hears EXCEPT ![s] = (Subscribed(s) /\ peer[s] = "here")']
        /\ Passed' = [Passed EXCEPT ![s] = Len(log)]
    BY <2>1, <2>2, Seen
  <2> QED BY <2>1, <2>2, <2>3 DEF Promise!Join, Open, Hears
<1>5. ASSUME NEW s \in Session, Lagged(s) PROVE Promise!Lose(s)
  <2>1. /\ stage[s] = "serving" /\ taken' = [taken EXCEPT ![s] = Oldest]
        /\ Lagging(s) /\ UNCHANGED <<log, sent, stage, peer>>
    BY <1>5 DEF Lagged
  <2>2. Subscribed(s) /\ Passed[s] = taken[s] /\ Passed'[s] = Oldest
    BY <1>1, <2>1 DEF Subscribed, Passed, SessionsTyped
  <2>3. Open' = Open /\ Hears' = Hears
    BY <2>1 DEF Open, Hears, Subscribed
  <2>4. Passed' = [Passed EXCEPT ![s] = Oldest]
    BY <1>1, <2>1, <2>2, Seen DEF SessionsTyped
  <2> QED BY <2>1, <2>2, <2>3, <2>4 DEF Promise!Lose, Lagging, Oldest, Open, Hears
<1>6. ASSUME NEW s \in Session, Recv(s) PROVE Promise!Pass(s) \/ UNCHANGED Promise!vars
  <2> DEFINE m == log[taken[s] + 1]
  <2>1. /\ stage[s] = "serving" /\ taken[s] < Len(log) /\ taken[s] \in Nat
        /\ taken' = [taken EXCEPT ![s] = taken[s] + 1]
        /\ stage' = [stage EXCEPT ![s] = IF Frames[m] = 0 THEN "serving" ELSE "writing"]
        /\ UNCHANGED <<log, sent, peer>>
    BY <1>1, <1>6 DEF Recv, SessionsTyped
  <2>2. m \in Message
    BY <1>1, <2>1 DEF SessionsTyped
  <2> HIDE DEF m
  <2>3. /\ Subscribed(s) /\ Subscribed(s)' /\ Passed[s] = taken[s]
        /\ stage'[s] = IF Frames[m] = 0 THEN "serving" ELSE "writing"
        /\ taken'[s] = taken[s] + 1
    BY <1>1, <2>1 DEF Subscribed, Passed, SessionsTyped
  <2>4. CASE Frames[m] = 0
    <3>1. Passed'[s] = taken[s] + 1
      BY <2>3, <2>4 DEF Passed
    <3>2. Passed' = [Passed EXCEPT ![s] = taken[s] + 1]
      BY <1>1, <2>1, <3>1, Seen DEF SessionsTyped
    <3>3. Open' = Open /\ Hears' = Hears
      BY <1>1, <2>1, <2>3 DEF Open, Hears, Subscribed, SessionsTyped
    <3>4. log[Passed[s] + 1] \in {k \in Message : Frames[k] = 0}
      BY <2>2, <2>3, <2>4 DEF m
    <3> QED BY <2>1, <2>3, <3>2, <3>3, <3>4 DEF Promise!Pass, Open, Hears
  <2>5. CASE Frames[m] # 0
    <3>1. Passed'[s] = Passed[s]
      BY <2>1, <2>3, <2>5 DEF Passed
    <3>2. \A t \in Session \ {s} : stage'[t] = stage[t] /\ taken'[t] = taken[t]
      BY <1>1, <2>1 DEF SessionsTyped
    <3> QED BY <2>1, <2>3, <3>1, <3>2, Unseen DEF Subscribed, Hears, Passed
  <2> QED BY <2>4, <2>5
<1>7. ASSUME NEW s \in Session, Written(s) PROVE Promise!Take(s) \/ UNCHANGED Promise!vars
  <2>1. /\ stage[s] = "writing" /\ taken[s] \in Nat /\ taken[s] > 0
        /\ taken[s] <= Len(log) /\ Fits(log[taken[s]])
        /\ UNCHANGED <<log, taken, peer>>
    BY <1>1, <1>7 DEF Written, SessionsTyped, SessionSound
  <2>2. CASE UNCHANGED <<stage, sent>>
    BY <2>1, <2>2, Unseen DEF Subscribed, Hears, Passed
  <2>3. CASE /\ stage' = [stage EXCEPT ![s] = "serving"]
             /\ sent' = [sent EXCEPT ![s] = Append(@, taken[s])]
    <3>1. Subscribed(s) /\ Subscribed(s)' /\ Passed[s] = taken[s] - 1 /\ Passed'[s] = taken[s]
      BY <1>1, <2>1, <2>3 DEF Subscribed, Passed, SessionsTyped
    <3>2. Passed' = [Passed EXCEPT ![s] = taken[s]]
      BY <1>1, <2>1, <2>3, <3>1, Seen DEF SessionsTyped
    <3>3. Open' = Open /\ Hears' = Hears
      BY <1>1, <2>1, <2>3, <3>1 DEF Open, Hears, Subscribed, SessionsTyped
    <3>4. Passed[s] + 1 = taken[s] /\ Passed[s] < Len(log)
      BY <1>1, <2>1, <3>1
    <3>5. log[Passed[s] + 1] \notin {k \in Message : Frames[k] = 0}
      BY <2>1, <3>4 DEF Fits
    <3> QED
      BY <2>1, <2>3, <3>1, <3>2, <3>3, <3>4, <3>5 DEF Promise!Take, Open, Hears
  <2> QED BY <1>7, <2>2, <2>3 DEF Written
<1>8. ASSUME NEW s \in Session, PhoneSends(s) \/ PhoneReads(s) PROVE UNCHANGED Promise!vars
  BY <1>8, Unseen DEF PhoneSends, PhoneReads, Subscribed, Hears, Passed
<1>9. ASSUME NEW s \in Session, ReadFrame(s) \/ Answered(s) PROVE UNCHANGED Promise!vars
  <2>1. /\ UNCHANGED <<outbound, peer>>
        /\ stage[s] \in {"serving", "answering"} /\ stage'[s] \in {"serving", "answering"}
        /\ \A t \in Session \ {s} : stage'[t] = stage[t]
    BY <1>1, <1>9 DEF ReadFrame, Answered, SessionsTyped
  <2> QED BY <2>1, Unseen DEF Subscribed, Hears, Passed
<1>10. ASSUME NEW s \in Session, PhoneEnds(s)
       PROVE  Promise!StopListening(s) \/ UNCHANGED Promise!vars
  <2>1. /\ peer[s] = "here" /\ peer'[s] # "here" /\ UNCHANGED <<outbound, stage>>
        /\ \A t \in Session \ {s} : peer'[t] = peer[t]
    BY <1>1, <1>10 DEF PhoneEnds, SessionsTyped
  <2>2. CASE Subscribed(s)
    <3>1. Hears' = [Hears EXCEPT ![s] = FALSE] /\ Hears[s]
      BY <2>1, <2>2 DEF Hears, Subscribed
    <3>2. Open' = Open /\ Passed' = Passed
      BY <2>1 DEF Open, Passed, Subscribed
    <3> QED BY <2>1, <3>1, <3>2 DEF Promise!StopListening, Open, Hears
  <2>3. CASE ~Subscribed(s)
    BY <2>1, <2>3, Unseen DEF Hears, Subscribed, Passed
  <2> QED BY <2>2, <2>3
<1>11. ASSUME NEW s \in Session, Ends(s) PROVE Promise!Leave(s)
  <2>1. /\ peer[s] # "here" /\ stage[s] \in {"serving", "writing"} /\ stage'[s] = "off"
        /\ \A t \in Session \ {s} : stage'[t] = stage[t]
        /\ taken[s] \in Nat /\ taken[s] <= Len(log)
        /\ UNCHANGED <<log, sent, taken, peer>>
    BY <1>1, <1>11 DEF Ends, SessionsTyped, SessionSound
  <2>2. Subscribed(s) /\ ~Subscribed(s)' /\ ~Hears[s]
    BY <2>1 DEF Subscribed, Hears
  <2>3. Open' = [Open EXCEPT ![s] = FALSE] /\ Hears' = Hears
    <3>1. Open' = [Open EXCEPT ![s] = Subscribed(s)']
      BY <2>1, Seen
    <3>2. Subscribed(s)' = FALSE
      BY <2>2
    <3>3. \A t \in Session : Hears'[t] = Hears[t]
      BY <2>1, <2>2 DEF Hears, Subscribed
    <3>4. Hears' = Hears
      BY <3>3 DEF Hears
    <3> QED BY <3>1, <3>2, <3>4
  <2>4. Passed'[s] = taken[s] /\ Passed[s] \in {taken[s] - 1, taken[s]}
    BY <2>1 DEF Passed
  <2>5. Passed' = [Passed EXCEPT ![s] = Passed'[s]]
    BY <2>1, Seen
  <2>6. Passed[s] <= Len(log) /\ \E k \in {0, 1} : Passed'[s] = Passed[s] + k
    BY <1>1, <2>1, <2>4
  <2> QED BY <2>1, <2>2, <2>3, <2>5, <2>6 DEF Promise!Leave, Open, Hears
<1>12. CASE UNCHANGED vars
  BY <1>12, Unseen DEF vars, Subscribed, Hears, Passed
<1> QED
  BY <1>2, <1>3, <1>4, <1>5, <1>6, <1>7, <1>8, <1>9, <1>10, <1>11, <1>12
  DEF Next, Promise!Next, Promise!Moves

\* The sessions implement the feed: a connected phone is written everything
\* that is published after its subscription, in order, whole and once, but for
\* what is too large and what a lag of more than Capacity costs (the loop of
\* serve, server.rs).
THEOREM SessionsImplementFeed == Spec => ImplementsFeedSafely
<1>1. Init => Promise!Init
  <2> SUFFICES ASSUME Init PROVE Promise!Init
    OBVIOUS
  <2>1. Open = [s \in Session |-> FALSE] /\ Hears = [s \in Session |-> FALSE]
    <3>1. \A s \in Session : ~Subscribed(s)
      BY DEF Init, Subscribed
    <3>2. ASSUME NEW s \in Session
          PROVE  Subscribed(s) = FALSE /\ (Subscribed(s) /\ peer[s] = "here") = FALSE
      <4>1. ~Subscribed(s) /\ Subscribed(s) \in BOOLEAN
        BY <3>1 DEF Subscribed
      <4> QED BY <4>1
    <3> QED BY <3>2 DEF Open, Hears
  <2>2. Passed = [s \in Session |-> 0]
    BY DEF Init, Passed
  <2> QED BY <2>1, <2>2 DEF Init, Promise!Init, Open, Hears
<1>2. SessionsInv /\ [Next]_vars => [Promise!Next]_Promise!vars
  BY StepsOfFeed
<1> QED BY <1>1, <1>2, SessionsStaySound, PTL DEF Spec, ImplementsFeedSafely, Promise!Spec

------------------------------------------------------------------------------
(* What the feed amounts to *)

\* What a phone was written since it joined: messages that fit, none of them
\* ahead of where its session is, each later in the log than the one before.
GivenInOrder(s) ==
  \A i \in 1 .. Len(sent[s]) :
    /\ sent[s][i] \in 1 .. Passed[s] /\ Fits(log[sent[s][i]])
    /\ \A j \in 1 .. i - 1 : sent[s][j] < sent[s][i]

InOrderAndOnce == \A s \in Session : GivenInOrder(s)

\* No phone is written a message twice, out of order, or in part only, however
\* many frames it takes and however far the session lags (server.rs, the loop of
\* serve).
THEOREM WrittenInOrderAndOnce == Spec => []InOrderAndOnce
<1>1. Init => InOrderAndOnce
  BY DEF Init, InOrderAndOnce, GivenInOrder
<1>2. SessionsInv /\ InOrderAndOnce /\ [Next]_vars => InOrderAndOnce'
  <2> SUFFICES ASSUME SessionsInv, InOrderAndOnce, [Next]_vars, NEW s \in Session
               PROVE  GivenInOrder(s)'
    BY DEF InOrderAndOnce
  <2>1. /\ log \in Seq(Message) /\ Passed[s] \in Int /\ Passed[s] <= Len(log)
        /\ sent[s] \in Seq(Nat) /\ Len(sent[s]) \in Nat /\ Len(log) \in Nat /\ Capacity \in Nat
    BY FanoutAssumption DEF SessionsInv, SessionsTyped, SessionSound, Passed
  <2>2. GivenInOrder(s)
    BY DEF InOrderAndOnce
  <2>3. Passed \in [Session -> Int] /\ sent \in [Session -> Seq(Nat)]
    BY DEF SessionsInv, SessionsTyped, Passed
  <2>4. ASSUME sent'[s] = sent[s], Passed'[s] \in Int, Passed'[s] >= Passed[s],
               \A i \in 1 .. Len(log) : log'[i] = log[i]
        PROVE  GivenInOrder(s)'
    <3>1. \A i \in 1 .. Len(sent[s]) : sent[s][i] \in 1 .. Len(log) /\ sent[s][i] \in 1 .. Passed'[s]
      BY <2>1, <2>2, <2>4 DEF GivenInOrder
    <3> QED BY <2>2, <2>4, <3>1 DEF GivenInOrder, Fits
  <2>5. CASE UNCHANGED Promise!vars
    BY <2>1, <2>4, <2>5 DEF Promise!vars
  <2>6. CASE Promise!Publish
    <3>1. Passed' = Passed /\ sent' = sent /\ \E m \in Message : log' = Append(log, m)
      BY <2>6 DEF Promise!Publish
    <3> QED BY <2>1, <2>4, <3>1
  <2>7. ASSUME NEW r \in Session, Promise!Join(r) PROVE GivenInOrder(s)'
    <3>1. /\ log' = log /\ Passed' = [Passed EXCEPT ![r] = Len(log)]
          /\ sent' = [sent EXCEPT ![r] = <<>>]
      BY <2>7 DEF Promise!Join
    <3>2. CASE s = r
      BY <3>1, <3>2 DEF GivenInOrder, SessionsInv, SessionsTyped
    <3>3. CASE s # r
      BY <2>1, <2>4, <2>3, <3>1, <3>3
    <3> QED BY <3>2, <3>3
  <2>8. ASSUME NEW r \in Session, Promise!StopListening(r) PROVE GivenInOrder(s)'
    BY <2>1, <2>4, <2>8 DEF Promise!StopListening
  <2>9. ASSUME NEW r \in Session, Promise!Leave(r) PROVE GivenInOrder(s)'
    <3>1. PICK k \in {0, 1} : Passed' = [Passed EXCEPT ![r] = Passed[r] + k]
      BY <2>9 DEF Promise!Leave
    <3> QED BY <2>1, <2>4, <2>9, <2>3, <3>1 DEF Promise!Leave
  <2>10. ASSUME NEW r \in Session, Promise!Pass(r) PROVE GivenInOrder(s)'
    BY <2>1, <2>4, <2>10, <2>3 DEF Promise!Pass
  <2>11. ASSUME NEW r \in Session, Promise!Lose(r) PROVE GivenInOrder(s)'
    BY <2>1, <2>4, <2>11, <2>3 DEF Promise!Lose
  <2>12. ASSUME NEW r \in Session, Promise!Take(r) PROVE GivenInOrder(s)'
    <3>1. /\ log' = log /\ Passed[r] < Len(log)
          /\ log[Passed[r] + 1] \notin {m \in Message : Frames[m] = 0}
          /\ Passed' = [Passed EXCEPT ![r] = Passed[r] + 1]
          /\ sent' = [sent EXCEPT ![r] = Append(sent[r], Passed[r] + 1)]
      BY <2>12 DEF Promise!Take
    <3>2. CASE s # r
      BY <2>1, <2>4, <3>1, <3>2
    <3>3. CASE s = r
      <4>1. Passed[s] \in Nat /\ Passed[s] + 1 \in 1 .. Len(log)
        BY <2>1, <3>1, <3>3 DEF SessionsInv, SessionsTyped, SessionSound, Passed
      <4>2. Fits(log[Passed[s] + 1])
        BY <2>1, <3>1, <3>3, <4>1 DEF Fits
      <4>3. /\ sent'[s] = Append(sent[s], Passed[s] + 1) /\ Passed'[s] = Passed[s] + 1
            /\ Len(sent'[s]) = Len(sent[s]) + 1
            /\ \A i \in 1 .. Len(sent[s]) : sent'[s][i] = sent[s][i]
            /\ sent'[s][Len(sent[s]) + 1] = Passed[s] + 1
        BY <2>1, <3>1, <3>3, <4>1 DEF SessionsInv, SessionsTyped, Passed
      <4> DEFINE n == Len(sent[s])
                 p == Passed[s]
      <4>4. n \in Nat /\ p \in Nat /\ \A i \in 1 .. n : sent[s][i] \in 1 .. p
        BY <2>1, <2>2, <4>1 DEF GivenInOrder
      <4>5. /\ log' = log /\ Passed'[s] = p + 1 /\ Len(sent'[s]) = n + 1
            /\ \A i \in 1 .. n : sent'[s][i] = sent[s][i]
            /\ sent'[s][n + 1] = p + 1 /\ Fits(log[p + 1])
        BY <3>1, <4>2, <4>3
      <4>6. \A i \in 1 .. n : /\ Fits(log[sent[s][i]])
                              /\ \A j \in 1 .. i - 1 : sent[s][j] < sent[s][i]
        BY <2>2 DEF GivenInOrder
      <4> HIDE DEF n, p
      <4>7. ASSUME NEW i \in 1 .. n
            PROVE  /\ sent'[s][i] \in 1 .. p + 1 /\ Fits(log[sent'[s][i]])
                   /\ \A j \in 1 .. i - 1 : sent'[s][j] < sent'[s][i]
        <5>1. sent[s][i] \in 1 .. p + 1
          BY <4>4
        <5>2. \A j \in 1 .. i - 1 : j \in 1 .. n
          BY <4>4
        <5> QED BY <4>5, <4>6, <5>1, <5>2
      <4>8. /\ p + 1 \in 1 .. p + 1
            /\ \A j \in 1 .. (n + 1) - 1 : sent'[s][j] < p + 1
        BY <4>4, <4>5
      <4>9. ASSUME NEW i \in 1 .. n + 1
            PROVE  /\ sent'[s][i] \in 1 .. p + 1 /\ Fits(log[sent'[s][i]])
                   /\ \A j \in 1 .. i - 1 : sent'[s][j] < sent'[s][i]
        <5>1. CASE i \in 1 .. n
          BY <4>7, <5>1
        <5>2. CASE i = n + 1
          BY <4>5, <4>8, <5>2
        <5> QED BY <4>4, <5>1, <5>2
      <4> QED BY <4>5, <4>9 DEF GivenInOrder, Fits
    <3> QED BY <3>2, <3>3
  <2> QED
    BY <2>5, <2>6, <2>7, <2>8, <2>9, <2>10, <2>11, <2>12, StepsOfFeed
    DEF Promise!Next, Promise!Moves
<1> QED BY <1>1, <1>2, SessionsStaySound, PTL DEF Spec
=============================================================================
