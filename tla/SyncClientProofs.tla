-------------------------- MODULE SyncClientProofs --------------------------
(***************************************************************************)
(* Proofs about SyncClient, for any number of sockets, networks, resets    *)
(* and drops.  The steps of the client are first sorted by what they do to *)
(* the sockets that are alive; each invariant then has one case per sort.  *)
(***************************************************************************)
EXTENDS SyncClient, FiniteSetTheorems, SequenceTheorems, TLAPS

\* What a step can do to the sockets that are alive: open one, forget one, or
\* leave them as they are.
Opens  == \E s \in Socket \ Alive :
            /\ Alive' = Alive \cup {s}
            /\ \A t \in Alive : sockets'[t] = sockets[t]
Forgets(s) == s \in Alive /\ Alive' = Alive \ {s}
Keeps  == Alive' = Alive /\ \A t \in Alive : sockets[t].acked => sockets'[t].acked

\* An attempt to connect opens one socket.
LEMMA AttemptOpens ==
  ASSUME LinksTyped, AttemptConnect
  PROVE  Opens /\ current' \in Socket
<1>1. PICK s \in Socket \ Alive :
        /\ sockets' = [sockets EXCEPT ![s] =
                         [state |-> "connecting", host |-> host, acked |-> FALSE]]
        /\ current' = s
  BY DEF AttemptConnect
<1>2. Alive' = Alive \cup {s}
  BY <1>1 DEF Alive, LinksTyped
<1>3. \A t \in Alive : sockets'[t] = sockets[t]
  BY <1>1 DEF Alive, LinksTyped
<1> QED BY <1>1, <1>2, <1>3 DEF Opens

\* Closing the current socket opens and forgets none.
LEMMA CloseCurrentKeeps ==
  ASSUME LinksTyped, CloseCurrent
  PROVE  /\ Keeps
         /\ sockets' \in [Socket -> [state : States, host : Host, acked : BOOLEAN]]
         /\ current' \in Socket \cup {NoSocket}
<1>1. CASE current # NoSocket /\ current \in Live
  <2>1. /\ current \in Socket
        /\ sockets' = [sockets EXCEPT ![current].state = "closing"]
        /\ current' = NoSocket
    BY <1>1 DEF CloseCurrent, LinksTyped
  <2>2. sockets' \in [Socket -> [state : States, host : Host, acked : BOOLEAN]]
    BY <2>1 DEF LinksTyped, States
  <2>3. Alive' = Alive
    BY <1>1, <2>1 DEF Alive, Live, LinksTyped
  <2>4. \A t \in Socket : sockets'[t].acked = sockets[t].acked
    BY <2>1 DEF LinksTyped
  <2> QED BY <2>1, <2>2, <2>3, <2>4 DEF Keeps, Alive
<1>2. CASE ~(current # NoSocket /\ current \in Live)
  BY <1>2 DEF CloseCurrent, Keeps, Alive, LinksTyped
<1> QED BY <1>1, <1>2

\* An onclose forgets its own socket and may start the back-off timer.
LEMMA OnCloseForgets ==
  ASSUME LinksTyped, NEW s \in Alive, OnClose(s)
  PROVE  /\ Forgets(s)
         /\ sockets' \in [Socket -> [state : States, host : Host, acked : BOOLEAN]]
         /\ current' \in Socket \cup {NoSocket}
         /\ key' = FALSE
         /\ reconnect' = (reconnect \/ ~closedByUs)
<1>1. s \in Socket
  BY DEF Alive
<1>2. sockets' \in [Socket -> [state : States, host : Host, acked : BOOLEAN]]
  BY <1>1 DEF OnClose, LinksTyped, States
<1>3. Alive' = Alive \ {s}
  BY <1>1 DEF OnClose, LinksTyped, Alive
<1> QED BY <1>1, <1>2, <1>3 DEF OnClose, LinksTyped, Forgets, KeyAfterClose, WillRetry

------------------------------------------------------------------------------
(* Typing *)

\* The hosts besides the one reached last are a sequence of hosts.
LEMMA OtherHostsTyping == OtherHosts \in Seq(Host)
<1>1. CASE LastHost \notin Range(OfferHosts)
  BY <1>1, SyncClientAssumption DEF OtherHosts
<1>2. CASE LastHost \in Range(OfferHosts)
  <2> DEFINE i == CHOOSE i \in DOMAIN OfferHosts : OfferHosts[i] = LastHost
  <2>1. i \in 1 .. Len(OfferHosts) /\ OfferHosts \in Seq(Host)
    BY <1>2, SyncClientAssumption DEF Range
  <2>2. OtherHosts = SubSeq(OfferHosts, 1, i - 1) \o SubSeq(OfferHosts, i + 1, Len(OfferHosts))
    BY <1>2 DEF OtherHosts
  <2> HIDE DEF i
  <2>3. SubSeq(OfferHosts, 1, i - 1) \in Seq(Host)
    BY <2>1
  <2>4. SubSeq(OfferHosts, i + 1, Len(OfferHosts)) \in Seq(Host)
    BY <2>1
  <2> QED BY <2>2, <2>3, <2>4
<1> QED BY <1>1, <1>2

\* buildHostList returns a list of addresses that is not empty.
LEMMA HostListTyping ==
  ASSUME NEW d \in Host \cup {NoHost}
  PROVE  BuildHostList(d) \in Seq(Host) /\ BuildHostList(d) # <<>>
<1>1. Found(d) \in Seq(Host)
  BY DEF Found
<1>2. CASE LastHost \in {NoHost, d}
  <2>1. BuildHostList(d) = Found(d) \o OfferHosts
    BY <1>2 DEF BuildHostList
  <2> QED BY <1>1, <2>1, SyncClientAssumption
<1>3. CASE LastHost \notin {NoHost, d}
  <2>1. BuildHostList(d) = Found(d) \o <<LastHost>> \o OtherHosts
    BY <1>3 DEF BuildHostList
  <2>2. Found(d) \o <<LastHost>> \in Seq(Host) /\ Len(Found(d) \o <<LastHost>>) > 0
    BY <1>1, <1>3, SyncClientAssumption
  <2> QED BY <2>1, <2>2, OtherHostsTyping
<1> QED BY <1>2, <1>3

\* The index always selects a host.
LEMMA HostTyping ==
  ASSUME TypeOK
  PROVE  host \in Host
BY SyncClientAssumption DEF host, TypeOK

\* An attempt keeps the types.
LEMMA AttemptTyping ==
  ASSUME TypeOK, AttemptConnect
  PROVE  /\ sockets' \in [Socket -> [state : States, host : Host, acked : BOOLEAN]]
         /\ current' \in Socket
         /\ status' = "connecting"
BY HostTyping DEF AttemptConnect, TypeOK, LinksTyped, States

\* An onclose keeps the index a number.
LEMMA OnCloseTyping ==
  ASSUME TypeOK, NEW s \in Alive, OnClose(s), Len(hosts) > 1
  PROVE  hostIndex' \in Nat
BY DEF OnClose, TypeOK, NextIndex

\* Every field of the client keeps its type (class SyncClient, client.ts:58-69).
THEOREM Typing == Spec => []TypeOK
<1>1. Init => TypeOK
  <2> SUFFICES ASSUME Init PROVE TypeOK
    OBVIOUS
  <2>1. hosts \in Seq(Host)
    BY HostListTyping DEF Init
  <2>2. OfferHosts[1] \in Host /\ Range(OfferHosts) \subseteq Host
    BY SyncClientAssumption DEF Range
  <2>3. up \in SUBSET Host
    BY <2>2 DEF Init
  <2>4. sockets \in [Socket -> [state : States, host : Host, acked : BOOLEAN]]
    BY <2>2 DEF Init, States
  <2>5. reconnectDelay \in BASE_RECONNECT .. MAX_RECONNECT
    BY DEF Init, BASE_RECONNECT, MAX_RECONNECT
  <2> QED BY <2>1, <2>3, <2>4, <2>5 DEF Init, TypeOK, LinksTyped
<1>2. TypeOK /\ [Next]_vars => TypeOK'
  <2> SUFFICES ASSUME TypeOK, [Next]_vars PROVE TypeOK'
    OBVIOUS
  <2> USE DEF TypeOK, LinksTyped, list, timers, bounds
  <2>1. CASE Connect
    BY <2>1, AttemptTyping DEF Connect
  <2>2. CASE Close
    BY <2>2, CloseCurrentKeeps DEF Close
  <2>3. CASE ReconnectFires
    <3>1. reconnectDelay' \in BASE_RECONNECT .. MAX_RECONNECT
      BY <2>3 DEF ReconnectFires, NextDelay, BASE_RECONNECT, MAX_RECONNECT
    <3> QED BY <2>3, <3>1, AttemptTyping DEF ReconnectFires
  <2>4. CASE SettleFires
    BY <2>4, AttemptTyping DEF SettleFires
  <2>5. ASSUME NEW n \in Network, NetworkSeen(n) PROVE TypeOK'
    BY <2>5 DEF NetworkSeen
  <2>6. ASSUME NEW n \in Network, NetworkChanged(n) PROVE TypeOK'
    <3>1. hosts' \in Seq(Host)
      BY <2>6, HostListTyping DEF NetworkChanged
    <3>2. reconnectDelay' \in BASE_RECONNECT .. MAX_RECONNECT
      BY <2>6 DEF NetworkChanged, BASE_RECONNECT, MAX_RECONNECT
    <3>3. /\ sockets' \in [Socket -> [state : States, host : Host, acked : BOOLEAN]]
          /\ current' \in Socket \cup {NoSocket}
      BY <2>6, CloseCurrentKeeps DEF NetworkChanged
    <3>4. /\ mode' = mode /\ key' = key /\ status' = status /\ up' = up
          /\ drops' = drops /\ moves' = moves
          /\ closedByUs' = FALSE /\ reconnect' = FALSE /\ heartbeat' = FALSE
          /\ everConnected' = FALSE /\ hostIndex' = 0 /\ lastNetworkId' = n
      BY <2>6 DEF NetworkChanged
    <3>5. settle' \in Nat /\ resets' \in Nat
      BY <2>6 DEF NetworkChanged
    <3> QED BY <3>1, <3>2, <3>3, <3>4, <3>5
  <2>7. ASSUME NEW s \in Socket, Opened(s) PROVE TypeOK'
    BY <2>7 DEF Opened, States
  <2>8. ASSUME NEW s \in Socket, NEW h \in AckHosts, HelloAck(s, h) PROVE TypeOK'
    <3>1. hosts' \in Seq(Host)
      BY <2>8, HostListTyping, SyncClientAssumption DEF HelloAck
    <3>2. reconnectDelay' \in BASE_RECONNECT .. MAX_RECONNECT
      BY <2>8 DEF HelloAck, BASE_RECONNECT, MAX_RECONNECT
    <3>3. sockets' \in [Socket -> [state : States, host : Host, acked : BOOLEAN]]
      BY <2>8 DEF HelloAck, States
    <3> QED BY <2>8, <3>1, <3>2, <3>3 DEF HelloAck
  <2>9. ASSUME NEW s \in Socket, ErrorFrame(s) PROVE TypeOK'
    BY <2>9 DEF ErrorFrame
  <2>10. ASSUME NEW s \in Alive, OnClose(s)
         PROVE  /\ hostIndex' \in Nat /\ key' \in BOOLEAN /\ heartbeat' \in BOOLEAN
                /\ reconnect' \in BOOLEAN
                /\ sockets' \in [Socket -> [state : States, host : Host, acked : BOOLEAN]]
                /\ current' \in Socket \cup {NoSocket}
    <3>1. hostIndex' \in Nat
      BY <2>10, OnCloseTyping DEF OnClose
    <3> QED BY <2>10, <3>1, OnCloseForgets DEF OnClose
  <2>11. ASSUME NEW s \in Socket, NoAnswer(s) \/ Dropped(s) \/ Closed(s) \/ ClosedByPeer(s)
         PROVE  TypeOK'
    <3>1. s \in Alive /\ OnClose(s)
      BY <2>11 DEF NoAnswer, Dropped, Closed, ClosedByPeer, Failed, Live, Alive
    <3> QED BY <2>11, <2>10, <3>1, SMTT(60) DEF NoAnswer, Dropped, Closed, ClosedByPeer, Failed
  <2>12. ASSUME NEW h \in Range(OfferHosts), Move(h) PROVE TypeOK'
    BY <2>12, SyncClientAssumption DEF Move, Range
  <2>13. CASE UNCHANGED vars
    BY <2>13 DEF vars
  <2> QED
    BY <2>1, <2>2, <2>3, <2>4, <2>5, <2>6, <2>7, <2>8, <2>9, <2>11, <2>12, <2>13
    DEF Next, SocketEvent
<1> QED BY <1>1, <1>2, PTL DEF Spec

------------------------------------------------------------------------------
(* What each step does to the sockets and the timers *)

\* The four sorts of steps.  A step that opens a socket uses up a timer, or is
\* the connect(); one that forgets a socket may set the reconnect timer.
LEMMA StepSorts ==
  ASSUME TypeOK, [Next]_vars
  PROVE  \/ /\ Opens
            /\ UNCHANGED <<resets, key>>
            /\ mode = "new" \/ closedByUs' = closedByUs
            /\ \/ mode = "new" /\ mode' = "on" /\ UNCHANGED <<reconnect, settle>>
               \/ /\ mode' = mode /\ reconnect /\ ~reconnect' /\ settle' = settle
               \/ /\ mode' = mode /\ reconnect' = reconnect
                  /\ settle > 0 /\ settle' = settle - 1
         \/ /\ \E s \in Alive : Forgets(s)
            /\ UNCHANGED <<mode, closedByUs, resets, settle>>
            /\ ~key'
            /\ reconnect' = (reconnect \/ ~closedByUs)
         \/ /\ mode = "on" /\ Keeps /\ UNCHANGED key /\ ~reconnect'
            /\ \/ mode' = "closed" /\ closedByUs' /\ UNCHANGED <<settle, resets>>
               \/ /\ mode' = mode /\ ~closedByUs'
                  /\ settle' = settle + 1 /\ resets' = resets + 1
         \/ /\ Keeps /\ UNCHANGED <<mode, reconnect, settle, resets>>
            /\ closedByUs' = closedByUs \/ closedByUs'
            /\ key' = key \/ \E s \in Alive : sockets'[s].acked
<1> USE DEF TypeOK
<1>1. CASE Connect
  BY <1>1, AttemptOpens DEF Connect, timers, bounds
<1>2. CASE ReconnectFires
  BY <1>2, AttemptOpens DEF ReconnectFires, bounds
<1>3. CASE SettleFires
  BY <1>3, AttemptOpens DEF SettleFires, bounds
<1>4. CASE Close
  BY <1>4, CloseCurrentKeeps DEF Close, bounds
<1>5. ASSUME NEW n \in Network, NetworkChanged(n)
      PROVE  /\ mode = "on" /\ Keeps /\ UNCHANGED key /\ ~reconnect'
             /\ mode' = mode /\ ~closedByUs'
             /\ settle' = settle + 1 /\ resets' = resets + 1
  BY <1>5, CloseCurrentKeeps DEF NetworkChanged
<1>6. ASSUME NEW s \in Socket, NoAnswer(s) \/ Dropped(s) \/ Closed(s) \/ ClosedByPeer(s)
      PROVE  /\ s \in Alive /\ Forgets(s)
             /\ UNCHANGED <<mode, closedByUs, resets, settle>>
             /\ ~key'
             /\ reconnect' = (reconnect \/ ~closedByUs)
  <2>1. s \in Alive /\ OnClose(s) /\ UNCHANGED <<mode, closedByUs, resets, settle>>
    BY <1>6 DEF NoAnswer, Dropped, Closed, ClosedByPeer, Failed, Live, Alive, bounds
  <2> QED BY <2>1, OnCloseForgets
<1>7. CASE UNCHANGED <<sockets, mode, closedByUs, key, reconnect, settle, resets>>
  BY <1>7 DEF Keeps, Alive
<1>8. ASSUME NEW s \in Socket, Opened(s)
      PROVE  Keeps /\ UNCHANGED <<mode, closedByUs, key, reconnect, settle, resets>>
  BY <1>8 DEF Opened, Keeps, Alive, LinksTyped, timers, bounds
<1>9. ASSUME NEW s \in Socket, NEW h \in AckHosts, HelloAck(s, h)
      PROVE  /\ Keeps /\ UNCHANGED <<mode, closedByUs, reconnect, settle, resets>>
             /\ s \in Alive /\ sockets'[s].acked
  BY <1>9 DEF HelloAck, Keeps, Alive, LinksTyped, bounds
<1>10. ASSUME NEW s \in Socket, ErrorFrame(s)
       PROVE  /\ Keeps /\ UNCHANGED <<mode, key, reconnect, settle, resets>>
              /\ closedByUs'
  BY <1>10 DEF ErrorFrame, Keeps, Alive, timers
<1>11. ASSUME \/ \E n \in Network : NetworkSeen(n)
              \/ \E h \in Range(OfferHosts) : Move(h)
              \/ UNCHANGED vars
       PROVE  UNCHANGED <<sockets, mode, closedByUs, key, reconnect, settle, resets>>
  BY <1>11 DEF NetworkSeen, Move, vars, timers, bounds
<1> QED
  BY <1>1, <1>2, <1>3, <1>4, <1>5, <1>6, <1>7, <1>8, <1>9, <1>10, <1>11
  DEF Next, SocketEvent

\* Counting the sockets after each sort of step.
LEMMA Counting ==
  /\ Alive \in SUBSET Socket /\ Cardinality(Alive) \in Nat
  /\ Opens => Cardinality(Alive') = Cardinality(Alive) + 1 /\ Alive' # {}
  /\ \A s : Forgets(s) => Cardinality(Alive') = Cardinality(Alive) - 1
  /\ Keeps => Cardinality(Alive') = Cardinality(Alive)
<1>1. Alive \in SUBSET Socket /\ IsFiniteSet(Socket)
  BY SyncClientAssumption DEF Alive
<1>2. IsFiniteSet(Alive) /\ Cardinality(Alive) \in Nat
  BY <1>1, FS_Subset, FS_CardinalityType
<1>3. ASSUME Opens
      PROVE  Cardinality(Alive') = Cardinality(Alive) + 1 /\ Alive' # {}
  <2>1. PICK s \in Socket \ Alive : Alive' = Alive \cup {s}
    BY <1>3 DEF Opens
  <2> QED BY <2>1, <1>2, FS_AddElement
<1>4. ASSUME NEW s, Forgets(s)
      PROVE  Cardinality(Alive') = Cardinality(Alive) - 1
  BY <1>2, <1>4, FS_RemoveElement DEF Forgets
<1> QED BY <1>1, <1>2, <1>3, <1>4 DEF Keeps

------------------------------------------------------------------------------
(* The invariants *)

\* Before connect() there is nothing that could become a connection.
FreshInv == mode = "new" => Alive = {} /\ ~reconnect /\ settle = 0 /\ resets = 0

AttemptsInv == FreshInv /\ AttemptsBounded

\* A client has at most one connection or attempt under way, and one more for
\* each network change it reacted to, in whatever order sockets report their
\* close and timers fire (attemptConnect, scheduleReconnect,
\* resetForNetworkChange).
THEOREM AttemptsStayBounded == Spec => []AttemptsBounded
<1> USE DEF AttemptsInv, FreshInv, AttemptsBounded, Attempts
<1>1. Init => AttemptsInv
  <2> SUFFICES ASSUME Init PROVE AttemptsInv
    OBVIOUS
  <2>1. Alive = {}
    BY DEF Init, Alive
  <2> QED BY <2>1, FS_EmptySet DEF Init
<1>2. TypeOK /\ AttemptsInv /\ [Next]_vars => AttemptsInv'
  <2> SUFFICES ASSUME TypeOK, AttemptsInv, [Next]_vars PROVE AttemptsInv'
    OBVIOUS
  <2> USE Counting DEF TypeOK, LinksTyped
  <2>1. ASSUME Opens, resets' = resets,
               \/ mode = "new" /\ mode' = "on" /\ UNCHANGED <<reconnect, settle>>
               \/ mode' = mode /\ reconnect /\ ~reconnect' /\ settle' = settle
               \/ mode' = mode /\ reconnect' = reconnect /\ settle > 0 /\ settle' = settle - 1
        PROVE  AttemptsInv'
    <3>1. CASE mode = "new" /\ mode' = "on" /\ UNCHANGED <<reconnect, settle>>
      <4>1. Cardinality(Alive) = 0 /\ ~reconnect /\ settle = 0 /\ resets = 0
        BY <3>1, FS_EmptySet
      <4>2. Cardinality(Alive') = 1
        BY <2>1, <4>1
      <4> QED BY <2>1, <3>1, <4>1, <4>2
    <3>2. CASE mode' = mode /\ reconnect /\ ~reconnect' /\ settle' = settle
      BY <2>1, <3>2
    <3>3. CASE mode' = mode /\ reconnect' = reconnect /\ settle > 0 /\ settle' = settle - 1
      BY <2>1, <3>3
    <3> QED BY <2>1, <3>1, <3>2, <3>3
  <2>2. ASSUME NEW s \in Alive, Forgets(s), UNCHANGED <<mode, resets, settle>>
        PROVE  AttemptsInv'
    <3>1. Cardinality(Alive') = Cardinality(Alive) - 1
      BY <2>2
    <3>2. mode' # "new"
      BY <2>2
    <3> QED BY <2>2, <3>1, <3>2
  <2>3. ASSUME mode = "on", Keeps, ~reconnect',
               \/ mode' = "closed" /\ UNCHANGED <<settle, resets>>
               \/ mode' = mode /\ settle' = settle + 1 /\ resets' = resets + 1
        PROVE  AttemptsInv'
    BY <2>3
  <2>4. ASSUME Keeps, UNCHANGED <<mode, reconnect, settle, resets>>
        PROVE  AttemptsInv'
    BY <2>4 DEF Keeps
  <2> QED BY <2>1, <2>2, <2>3, <2>4, StepSorts
<1> QED BY <1>1, <1>2, Typing, PTL DEF Spec

\* A client that is on and was not told to stop has a socket or a timer left
\* that will bring it back (client.ts:145-210, 410-416).
THEOREM NeverLeftStranded == Spec => []NeverStranded
<1>1. Init => NeverStranded
  BY DEF Init, NeverStranded
<1>2. TypeOK /\ NeverStranded /\ [Next]_vars => NeverStranded'
  <2> SUFFICES ASSUME TypeOK, NeverStranded, [Next]_vars PROVE NeverStranded'
    OBVIOUS
  <2> USE Counting DEF TypeOK, LinksTyped, NeverStranded
  <2>1. CASE Opens
    BY <2>1
  <2>2. ASSUME UNCHANGED <<mode, closedByUs, settle>>, reconnect' = (reconnect \/ ~closedByUs)
        PROVE  NeverStranded'
    BY <2>2
  <2>3. ASSUME \/ mode' = "closed"
               \/ settle' = settle + 1
        PROVE  NeverStranded'
    BY <2>3
  <2>4. ASSUME Keeps, UNCHANGED <<mode, reconnect, settle>>,
               closedByUs' = closedByUs \/ closedByUs'
        PROVE  NeverStranded'
    BY <2>4 DEF Keeps
  <2> QED BY <2>1, <2>2, <2>3, <2>4, StepSorts
<1> QED BY <1>1, <1>2, Typing, PTL DEF Spec

\* The session key never outlives the last session that was acknowledged
\* (handle and onclose, client.ts:145-153 and 212-226).
THEOREM KeyNeedsSession == Spec => []KeyHasSession
<1>1. Init => KeyHasSession
  BY DEF Init, KeyHasSession
<1>2. TypeOK /\ KeyHasSession /\ [Next]_vars => KeyHasSession'
  <2> SUFFICES ASSUME TypeOK, KeyHasSession, [Next]_vars PROVE KeyHasSession'
    OBVIOUS
  <2> USE DEF TypeOK, LinksTyped, KeyHasSession
  <2>1. CASE Opens /\ key' = key
    BY <2>1 DEF Opens
  <2>2. CASE ~key'
    BY <2>2
  <2>3. CASE Keeps /\ key' = key
    BY <2>3 DEF Keeps
  <2>4. CASE Keeps /\ \E s \in Alive : sockets'[s].acked
    BY <2>4 DEF Keeps
  <2> QED BY <2>1, <2>2, <2>3, <2>4, StepSorts
<1> QED BY <1>1, <1>2, Typing, PTL DEF Spec

\* What is said of the attempts, at once: types, their number, and that there is
\* always one that brings the client back (attemptConnect, scheduleReconnect).
THEOREM AttemptsAreRight == Spec => []TriesAreRight
BY Typing, AttemptsStayBounded, NeverLeftStranded, PTL DEF TriesAreRight
------------------------------------------------------------------------------
(* The candidate hosts *)

\* Two lists without repetitions that share nothing make one without
\* repetitions, which holds what either holds.
LEMMA Concatenation ==
  ASSUME NEW p \in Seq(Host), NEW q \in Seq(Host)
  PROVE  /\ Range(p \o q) = Range(p) \cup Range(q)
         /\ IsInjective(p) /\ IsInjective(q) /\ Range(p) \cap Range(q) = {}
              => IsInjective(p \o q)
<1> DEFINE r == p \o q
<1>1. /\ r \in Seq(Host) /\ Len(r) = Len(p) + Len(q)
      /\ Len(p) \in Nat /\ Len(q) \in Nat
      /\ DOMAIN p = 1 .. Len(p) /\ DOMAIN q = 1 .. Len(q) /\ DOMAIN r = 1 .. Len(r)
  OBVIOUS
<1>2. \A i \in 1 .. Len(p) : r[i] = p[i]
  OBVIOUS
<1>3. \A i \in 1 .. Len(r) : i > Len(p) => i - Len(p) \in 1 .. Len(q) /\ r[i] = q[i - Len(p)]
  OBVIOUS
<1>4. \A i \in 1 .. Len(q) : i + Len(p) \in 1 .. Len(r) /\ r[i + Len(p)] = q[i]
  OBVIOUS
<1> HIDE DEF r
<1>5. Range(r) \subseteq Range(p) \cup Range(q)
  <2> SUFFICES ASSUME NEW i \in 1 .. Len(r) PROVE r[i] \in Range(p) \cup Range(q)
    BY <1>1 DEF Range
  <2>1. CASE i \in 1 .. Len(p)
    BY <1>1, <1>2, <2>1 DEF Range
  <2>2. CASE i > Len(p)
    BY <1>1, <1>3, <2>2 DEF Range
  <2> QED BY <1>1, <2>1, <2>2
<1>6. Range(p) \subseteq Range(r)
  <2> SUFFICES ASSUME NEW i \in 1 .. Len(p) PROVE p[i] \in Range(r)
    BY <1>1 DEF Range
  <2>1. i \in 1 .. Len(r) /\ r[i] = p[i]
    BY <1>1, <1>2
  <2> QED BY <1>1, <2>1 DEF Range
<1>7. Range(q) \subseteq Range(r)
  <2> SUFFICES ASSUME NEW i \in 1 .. Len(q) PROVE q[i] \in Range(r)
    BY <1>1 DEF Range
  <2> QED BY <1>1, <1>4 DEF Range
<1>8. ASSUME IsInjective(p), IsInjective(q), Range(p) \cap Range(q) = {}
      PROVE  IsInjective(r)
  <2> SUFFICES ASSUME NEW i \in 1 .. Len(r), NEW j \in 1 .. Len(r), r[i] = r[j] PROVE i = j
    BY <1>1 DEF IsInjective
  <2>1. CASE i \in 1 .. Len(p) /\ j \in 1 .. Len(p)
    BY <1>1, <1>2, <1>8, <2>1 DEF IsInjective
  <2>2. CASE i > Len(p) /\ j > Len(p)
    <3>1. i - Len(p) = j - Len(p)
      BY <1>1, <1>3, <1>8, <2>2 DEF IsInjective
    <3> QED BY <1>1, <3>1
  <2>3. ASSUME NEW a \in 1 .. Len(p), NEW b \in 1 .. Len(r), b > Len(p) PROVE r[a] # r[b]
    <3>1. r[a] \in Range(p)
      BY <1>1, <1>2 DEF Range
    <3>2. r[b] \in Range(q)
      BY <1>1, <1>3, <2>3 DEF Range
    <3> QED BY <1>8, <3>1, <3>2
  <2> QED BY <1>1, <2>1, <2>2, <2>3
<1> QED BY <1>5, <1>6, <1>7, <1>8 DEF r

\* The hosts besides the one reached last: each address of the offer but that
\* one, once.
LEMMA OtherHostsSound ==
  /\ IsInjective(OtherHosts)
  /\ Range(OtherHosts) = Range(OfferHosts) \ {LastHost}
  /\ Len(OtherHosts) = IF LastHost \in Range(OfferHosts) THEN Len(OfferHosts) - 1
                       ELSE Len(OfferHosts)
<1> USE SyncClientAssumption
<1>1. CASE LastHost \notin Range(OfferHosts)
  BY <1>1 DEF OtherHosts
<1>2. CASE LastHost \in Range(OfferHosts)
  <2> DEFINE i == CHOOSE i \in DOMAIN OfferHosts : OfferHosts[i] = LastHost
             n == Len(OfferHosts)
  <2>1. i \in 1 .. n /\ OfferHosts[i] = LastHost /\ n \in Nat /\ DOMAIN OfferHosts = 1 .. n
    BY <1>2 DEF Range
  <2>2. OtherHosts = SubSeq(OfferHosts, 1, i - 1) \o SubSeq(OfferHosts, i + 1, n)
    BY <1>2 DEF OtherHosts
  <2> HIDE DEF i
  <2>3. /\ Len(OtherHosts) = n - 1 /\ DOMAIN OtherHosts = 1 .. n - 1
        /\ \A k \in 1 .. n - 1 : OtherHosts[k] = OfferHosts[IF k < i THEN k ELSE k + 1]
    <3> DEFINE p == SubSeq(OfferHosts, 1, i - 1)
               q == SubSeq(OfferHosts, i + 1, n)
    <3>1. p \in Seq(Host) /\ Len(p) = i - 1 /\ \A k \in 1 .. i - 1 : p[k] = OfferHosts[k]
      <4>1. \A k \in 1 .. i - 1 : OfferHosts[k] \in Host
        BY <2>1
      <4>2. 1 \in Int /\ i - 1 \in Int /\ (i - 1) - 1 + 1 = i - 1
        BY <2>1
      <4>3. /\ p \in Seq(Host) /\ Len(p) = IF 1 <= i - 1 THEN (i - 1) - 1 + 1 ELSE 0
            /\ \A k \in 1 .. (i - 1) - 1 + 1 : p[k] = OfferHosts[1 + k - 1]
        BY <4>1, <4>2, SubSeqProperties
      <4> HIDE DEF p
      <4> QED BY <2>1, <4>3
    <3>2. q \in Seq(Host) /\ Len(q) = n - i /\ \A k \in 1 .. n - i : q[k] = OfferHosts[k + i]
      <4>1. \A k \in i + 1 .. n : OfferHosts[k] \in Host
        BY <2>1
      <4>2. i + 1 \in Int /\ n \in Int
        BY <2>1
      <4>3. /\ q \in Seq(Host) /\ Len(q) = IF i + 1 <= n THEN n - (i + 1) + 1 ELSE 0
            /\ \A k \in 1 .. n - (i + 1) + 1 : q[k] = OfferHosts[(i + 1) + k - 1]
        BY <4>1, <4>2, SubSeqProperties
      <4> HIDE DEF q, n
      <4>4. Len(q) = n - i /\ n - (i + 1) + 1 = n - i
        BY <2>1, <4>3
      <4>5. \A k \in 1 .. n - i : q[k] = OfferHosts[k + i]
        <5> TAKE k \in 1 .. n - i
        <5>1. (i + 1) + k - 1 = k + i
          BY <2>1
        <5>2. q[k] = OfferHosts[(i + 1) + k - 1]
          BY <4>3, <4>4
        <5> QED BY <5>1, <5>2
      <4> QED BY <4>3, <4>4, <4>5
    <3> HIDE DEF p, q, n
    <3>3. /\ Len(p \o q) = n - 1 /\ DOMAIN (p \o q) = 1 .. n - 1
          /\ \A k \in 1 .. n - 1 : (p \o q)[k] = IF k < i THEN p[k] ELSE q[k - i + 1]
      <4>1. Len(p) + Len(q) = n - 1
        BY <2>1, <3>1, <3>2
      <4>2. /\ p \o q \in Seq(Host) /\ Len(p \o q) = Len(p) + Len(q)
            /\ \A k \in 1 .. Len(p) + Len(q) :
                 (p \o q)[k] = IF k <= Len(p) THEN p[k] ELSE q[k - Len(p)]
        BY <3>1, <3>2, ConcatProperties, ZenonT(60)
      <4>3. ASSUME NEW k \in 1 .. n - 1
            PROVE  (p \o q)[k] = IF k < i THEN p[k] ELSE q[k - i + 1]
        <5>1. (p \o q)[k] = IF k <= Len(p) THEN p[k] ELSE q[k - Len(p)]
          BY <4>1, <4>2
        <5>2. (k <= Len(p) <=> k < i) /\ k - Len(p) = k - i + 1
          BY <2>1, <3>1
        <5> QED BY <5>1, <5>2
      <4> QED BY <4>1, <4>2, <4>3
    <3>4. \A k \in 1 .. n - 1 : k >= i => q[k - i + 1] = OfferHosts[k + 1]
      <4> TAKE k \in 1 .. n - 1
      <4> HAVE k >= i
      <4>1. k - i + 1 \in 1 .. n - i /\ (k - i + 1) + i = k + 1
        BY <2>1
      <4> QED BY <3>2, <4>1
    <3>5. OtherHosts = p \o q
      BY <2>2 DEF p, q
    <3>6. \A k \in 1 .. n - 1 : k < i => p[k] = OfferHosts[k]
      BY <2>1, <3>1
    <3>7. \A k \in 1 .. n - 1 : (p \o q)[k] = OfferHosts[IF k < i THEN k ELSE k + 1]
      <4> TAKE k \in 1 .. n - 1
      <4>1. CASE k < i
        BY <3>3, <3>6, <4>1
      <4>2. CASE ~(k < i)
        <5>1. k >= i /\ (p \o q)[k] = q[k - i + 1]
          BY <2>1, <3>3, <4>2
        <5> QED BY <3>4, <4>2, <5>1
      <4> QED BY <4>1, <4>2
    <3> QED BY <3>3, <3>5, <3>7
  <2>4. \A j, k \in 1 .. n : OfferHosts[j] = OfferHosts[k] => j = k
    BY <2>1 DEF IsInjective
  <2>5. IsInjective(OtherHosts)
    <3> SUFFICES ASSUME NEW j \in 1 .. n - 1, NEW k \in 1 .. n - 1,
                        OtherHosts[j] = OtherHosts[k]
                 PROVE  j = k
      BY <2>3 DEF IsInjective
    <3>1. (IF j < i THEN j ELSE j + 1) = (IF k < i THEN k ELSE k + 1)
      BY <2>1, <2>3, <2>4
    <3> QED BY <2>1, <3>1
  <2>6. Range(OtherHosts) \subseteq Range(OfferHosts) \ {LastHost}
    <3> SUFFICES ASSUME NEW k \in 1 .. n - 1
                 PROVE  OtherHosts[k] \in Range(OfferHosts) \ {LastHost}
      BY <2>3 DEF Range
    <3> DEFINE m == IF k < i THEN k ELSE k + 1
    <3>1. m \in 1 .. n /\ m # i /\ OtherHosts[k] = OfferHosts[m]
      BY <2>1, <2>3
    <3> QED BY <2>1, <2>4, <3>1 DEF Range
  <2>7. Range(OfferHosts) \ {LastHost} \subseteq Range(OtherHosts)
    <3> SUFFICES ASSUME NEW m \in 1 .. n, OfferHosts[m] # LastHost
                 PROVE  OfferHosts[m] \in Range(OtherHosts)
      BY <2>1 DEF Range
    <3> DEFINE k == IF m < i THEN m ELSE m - 1
    <3>1. m # i
      BY <2>1
    <3>2. k \in 1 .. n - 1 /\ OtherHosts[k] = OfferHosts[m]
      BY <2>1, <2>3, <3>1
    <3> QED BY <2>3, <3>2 DEF Range
  <2> QED BY <1>2, <2>3, <2>5, <2>6, <2>7
<1> QED BY <1>1, <1>2

\* Whatever address was discovered, buildHostList lists no address twice,
\* leaves none of the offer out, and is not shorter than without it.
LEMMA HostListSound ==
  ASSUME NEW d \in Host \cup {NoHost}
  PROVE  /\ IsInjective(BuildHostList(d))
         /\ Range(OfferHosts) \subseteq Range(BuildHostList(d))
         /\ Len(BuildHostList(NoHost)) <= Len(BuildHostList(d))
         /\ Len(BuildHostList(NoHost)) > 0
<1> USE SyncClientAssumption
<1>1. ASSUME NEW e \in Host \cup {NoHost}
      PROVE  /\ Found(e) \in Seq(Host) /\ IsInjective(Found(e))
             /\ \/ /\ e \notin Range(OfferHosts) \cup {NoHost}
                   /\ Range(Found(e)) = {e} /\ Len(Found(e)) = 1
                \/ /\ e \in Range(OfferHosts) \cup {NoHost}
                   /\ Range(Found(e)) = {} /\ Len(Found(e)) = 0
  BY <1>1 DEF Found, Range, IsInjective
<1>2. Len(OfferHosts) \in Nat /\ Len(OfferHosts) > 0
  OBVIOUS
<1>3. ASSUME NEW e \in Host \cup {NoHost}, LastHost \in {NoHost, e}
      PROVE  /\ IsInjective(BuildHostList(e))
             /\ Range(OfferHosts) \subseteq Range(BuildHostList(e))
             /\ Len(BuildHostList(e)) = Len(Found(e)) + Len(OfferHosts)
  <2>1. BuildHostList(e) = Found(e) \o OfferHosts
    BY <1>3 DEF BuildHostList
  <2>2. Range(Found(e)) \cap Range(OfferHosts) = {}
    BY <1>1
  <2> QED BY <1>1, <2>1, <2>2, Concatenation, SMTT(60)
<1>4. ASSUME NEW e \in Host \cup {NoHost}, LastHost \notin {NoHost, e}
      PROVE  /\ IsInjective(BuildHostList(e))
             /\ Range(OfferHosts) \subseteq Range(BuildHostList(e))
             /\ Len(BuildHostList(e)) = Len(Found(e)) + 1 + Len(OtherHosts)
  <2>1. BuildHostList(e) = (Found(e) \o <<LastHost>>) \o OtherHosts
    BY <1>4 DEF BuildHostList
  <2>2. LastHost \in Host /\ <<LastHost>> \in Seq(Host)
    BY <1>4
  <2>3. Range(<<LastHost>>) = {LastHost} /\ IsInjective(<<LastHost>>)
    BY DEF Range, IsInjective
  <2>4. /\ Found(e) \o <<LastHost>> \in Seq(Host)
        /\ IsInjective(Found(e) \o <<LastHost>>)
        /\ Range(Found(e) \o <<LastHost>>) = Range(Found(e)) \cup {LastHost}
    <3> DEFINE one == <<LastHost>>
    <3>1. Found(e) \in Seq(Host) /\ IsInjective(Found(e)) /\ LastHost \notin Range(Found(e))
      BY <1>1, <1>4
    <3>2. one \in Seq(Host) /\ IsInjective(one) /\ Range(one) = {LastHost}
      BY <2>2, <2>3
    <3> HIDE DEF one
    <3>3. /\ Range(Found(e) \o one) = Range(Found(e)) \cup {LastHost}
          /\ IsInjective(Found(e) \o one) /\ Found(e) \o one \in Seq(Host)
      BY <3>1, <3>2, Concatenation
    <3> QED BY <3>3 DEF one
  <2>5. Range(Found(e) \o <<LastHost>>) \cap Range(OtherHosts) = {}
    BY <1>1, <2>4, OtherHostsSound
  <2>6. /\ IsInjective(BuildHostList(e))
        /\ Range(BuildHostList(e)) = Range(Found(e)) \cup {LastHost} \cup Range(OtherHosts)
    <3> DEFINE front == Found(e) \o <<LastHost>>
    <3>1. /\ front \in Seq(Host) /\ IsInjective(front)
          /\ Range(front) = Range(Found(e)) \cup {LastHost}
          /\ Range(front) \cap Range(OtherHosts) = {}
      BY <2>4, <2>5
    <3>2. BuildHostList(e) = front \o OtherHosts
      BY <2>1
    <3> HIDE DEF front
    <3>3. /\ IsInjective(front \o OtherHosts)
          /\ Range(front \o OtherHosts) = Range(front) \cup Range(OtherHosts)
      BY <3>1, OtherHostsSound, OtherHostsTyping, Concatenation
    <3> QED BY <3>1, <3>2, <3>3
  <2>7. Len(BuildHostList(e)) = Len(Found(e)) + 1 + Len(OtherHosts)
    <3>1. Len(Found(e) \o <<LastHost>>) = Len(Found(e)) + 1
      BY <1>1, <2>2
    <3> QED BY <2>1, <2>4, <3>1, OtherHostsTyping
  <2> QED BY <2>6, <2>7, OtherHostsSound
<1>5. Len(Found(NoHost)) = 0 /\ Len(Found(d)) \in {0, 1}
  BY <1>1
<1>6. CASE LastHost = NoHost
  BY <1>2, <1>3, <1>5, <1>6
<1>7. CASE LastHost # NoHost /\ d # LastHost
  <2>1. Len(OtherHosts) \in Nat
    BY OtherHostsTyping
  <2> QED BY <1>4, <1>5, <1>7, <2>1
<1>8. CASE LastHost # NoHost /\ d = LastHost
  <2>1. Len(BuildHostList(NoHost)) = 1 + Len(OtherHosts)
    BY <1>4, <1>5, <1>8
  <2>2. Len(BuildHostList(d)) = Len(Found(d)) + Len(OfferHosts)
    BY <1>3, <1>8
  <2>3. Len(BuildHostList(NoHost)) <= Len(BuildHostList(d)) /\ Len(BuildHostList(NoHost)) > 0
    <3>1. CASE d \in Range(OfferHosts)
      <4>1. Len(OtherHosts) = Len(OfferHosts) - 1
        BY <1>8, <3>1, OtherHostsSound
      <4> QED BY <1>2, <1>5, <2>1, <2>2, <4>1
    <3>2. CASE d \notin Range(OfferHosts)
      <4>1. Len(OtherHosts) = Len(OfferHosts)
        BY <1>8, <3>2, OtherHostsSound
      <4>2. Len(Found(d)) = 1
        BY <1>1, <1>8, <3>2
      <4> QED BY <1>2, <2>1, <2>2, <4>1, <4>2
    <3> QED BY <3>1, <3>2
  <2> QED BY <1>3, <1>8, <2>3
<1> QED BY <1>6, <1>7, <1>8

\* The list is always one that buildHostList made, before the first hello-ack
\* the one without a discovered address.  The index may outlive the list it
\* walked, so it stays below the length of the shortest.
ListInv ==
  /\ \E d \in Host \cup {NoHost} : hosts = BuildHostList(d)
  /\ ~everConnected => hosts = BuildHostList(NoHost)
  /\ hostIndex \in 0 .. Len(BuildHostList(NoHost)) - 1

\* Every address of the offer stays in the list exactly once and the index
\* points into it (buildHostList, client.ts:83-105, and onclose, 149-151).
THEOREM HostsStayComplete == Spec => []HostListComplete
<1>1. Init => ListInv
  <2>1. Len(BuildHostList(NoHost)) \in Nat /\ Len(BuildHostList(NoHost)) > 0
    BY HostListTyping, HostListSound
  <2> QED BY <2>1 DEF Init, ListInv
<1>2. TypeOK /\ ListInv /\ [Next]_vars => ListInv'
  <2> SUFFICES ASSUME TypeOK, ListInv, [Next]_vars PROVE ListInv'
    OBVIOUS
  <2> DEFINE short == Len(BuildHostList(NoHost))
  <2>1. short \in Nat /\ short > 0 /\ short' = short
    BY HostListTyping, HostListSound
  <2> HIDE DEF short
  <2> USE DEF ListInv, short
  <2>2. CASE \/ UNCHANGED list
             \/ hostIndex' = 0 /\ UNCHANGED <<hosts, everConnected>>
    BY <2>1, <2>2 DEF list
  <2>3. ASSUME NEW n \in Network, NetworkChanged(n) PROVE ListInv'
    BY <2>1, <2>3 DEF NetworkChanged
  <2>4. ASSUME NEW s \in Socket, NEW h \in AckHosts, HelloAck(s, h) PROVE ListInv'
    <3>1. h \in Host
      BY SyncClientAssumption
    <3> QED BY <2>1, <2>4, <3>1 DEF HelloAck
  <2>5. ASSUME NEW s \in Socket, NoAnswer(s) \/ Dropped(s) \/ Closed(s) \/ ClosedByPeer(s)
        PROVE  ListInv'
    <3>1. OnClose(s) /\ UNCHANGED <<hosts, everConnected>>
      BY <2>5 DEF NoAnswer, Dropped, Closed, ClosedByPeer, Failed
    <3>2. CASE ~everConnected /\ Len(hosts) > 1
      <4>1. hostIndex' = (hostIndex + 1) % short /\ hostIndex \in Nat
        BY <2>1, <3>1, <3>2 DEF OnClose, NextIndex
      <4>2. hostIndex' \in 0 .. short - 1
        BY <2>1, <4>1
      <4> QED BY <2>1, <3>1, <4>2
    <3>3. CASE ~(~everConnected /\ Len(hosts) > 1)
      BY <2>1, <3>1, <3>3 DEF OnClose
    <3> QED BY <3>2, <3>3
  <2>6. ASSUME \/ Connect \/ Close \/ ReconnectFires \/ SettleFires
               \/ \E n \in Network : NetworkSeen(n)
               \/ \E s \in Socket : Opened(s) \/ ErrorFrame(s)
               \/ \E h \in Range(OfferHosts) : Move(h)
               \/ UNCHANGED vars
        PROVE  ListInv'
    <3>1. UNCHANGED list \/ (hostIndex' = 0 /\ UNCHANGED <<hosts, everConnected>>)
      BY <2>6 DEF Connect, Close, ReconnectFires, SettleFires, NetworkSeen, Opened,
                  ErrorFrame, Move, vars, list
    <3> QED BY <2>2, <3>1
  <2> QED BY <2>3, <2>4, <2>5, <2>6 DEF Next, SocketEvent
<1>3. ListInv => HostListComplete
  <2> SUFFICES ASSUME ListInv PROVE HostListComplete
    OBVIOUS
  <2>1. PICK d \in Host \cup {NoHost} : hosts = BuildHostList(d)
    BY DEF ListInv
  <2>2. Len(BuildHostList(NoHost)) \in Nat /\ Len(hosts) \in Nat
    BY <2>1, HostListTyping
  <2> QED BY <2>1, <2>2, HostListSound DEF ListInv, HostListComplete
<1> QED BY <1>1, <1>2, <1>3, Typing, PTL DEF Spec

------------------------------------------------------------------------------
(* After close() *)

\* A step brings a socket to life only by connect() or by a timer.
LEMMA OnlyTimersGoLive ==
  ASSUME TypeOK, [Next]_vars, Live' \ Live # {}
  PROVE  mode = "new" \/ reconnect \/ settle' < settle
<1> USE DEF TypeOK, LinksTyped, Live
<1>1. ASSUME CloseCurrent PROVE Live' \subseteq Live
  BY <1>1 DEF CloseCurrent
<1>2. ASSUME NEW s \in Socket, OnClose(s) PROVE Live' \subseteq Live
  BY <1>2 DEF OnClose
<1>3. ASSUME \/ Close
             \/ \E n \in Network : NetworkSeen(n) \/ NetworkChanged(n)
             \/ \E s \in Socket : \/ SocketEvent(s) \/ ErrorFrame(s)
                                  \/ Dropped(s) \/ ClosedByPeer(s)
             \/ \E h \in Range(OfferHosts) : Move(h)
             \/ UNCHANGED vars
      PROVE  Live' \subseteq Live
  <2>1. CASE Close \/ \E n \in Network : NetworkChanged(n)
    BY <1>1, <2>1 DEF Close, NetworkChanged
  <2>2. CASE \E s \in Socket : NoAnswer(s) \/ Dropped(s) \/ Closed(s) \/ ClosedByPeer(s)
    BY <1>2, <2>2 DEF NoAnswer, Dropped, Closed, ClosedByPeer, Failed
  <2>3. ASSUME NEW s \in Socket, Opened(s) PROVE Live' \subseteq Live
    BY <2>3 DEF Opened
  <2>4. ASSUME NEW s \in Socket, NEW h \in AckHosts, HelloAck(s, h) PROVE Live' \subseteq Live
    BY <2>4 DEF HelloAck
  <2>5. CASE sockets' = sockets
    BY <2>5
  <2> QED
    BY <1>3, <2>1, <2>2, <2>3, <2>4, <2>5
    DEF SocketEvent, NetworkSeen, ErrorFrame, Move, vars
<1>4. CASE Connect
  BY <1>4 DEF Connect
<1>5. CASE ReconnectFires
  BY <1>5 DEF ReconnectFires
<1>6. CASE SettleFires
  BY <1>6 DEF SettleFires
<1> QED BY <1>3, <1>4, <1>5, <1>6 DEF Next

\* A client that was closed knows it, and its back-off timer is gone.
ClosedInv == mode = "closed" => closedByUs /\ ~reconnect

\* After close() the back-off timer never runs again and a socket is opened
\* only by a 500 ms timer that was pending (close, client.ts:383-394).
THEOREM ClosedStaysClosed == Spec => ClosedForGood
<1>1. Init => ClosedInv
  BY DEF Init, ClosedInv
<1>2. TypeOK /\ ClosedInv /\ [Next]_vars
        => /\ ClosedInv'
           /\ mode = "closed" => ~reconnect'
           /\ mode = "closed" /\ Live' \ Live # {} => settle' < settle
  <2> SUFFICES ASSUME TypeOK, ClosedInv, [Next]_vars
               PROVE  /\ ClosedInv'
                      /\ mode = "closed" => ~reconnect'
                      /\ mode = "closed" /\ Live' \ Live # {} => settle' < settle
    OBVIOUS
  <2>1. ClosedInv' /\ (mode = "closed" => ~reconnect')
    <3> USE DEF ClosedInv, TypeOK, LinksTyped
    <3> QED BY StepSorts
  <2>2. mode = "closed" /\ Live' \ Live # {} => settle' < settle
    BY OnlyTimersGoLive DEF ClosedInv
  <2> QED BY <2>1, <2>2
<1> QED BY <1>1, <1>2, Typing, PTL DEF Spec, ClosedForGood
=============================================================================
