----------------------------- MODULE SyncClient -----------------------------
(***************************************************************************)
(* The phone's connection to the PC: class SyncClient of client.ts, from   *)
(* connect() to close().  JavaScript runs one callback at a time, so a     *)
(* callback is one action; what interleaves is the order in which socket   *)
(* events, timers and network notifications are delivered.  A socket that  *)
(* was closed keeps its callbacks: its onclose runs later, against the     *)
(* fields the client has by then.                                          *)
(*                                                                         *)
(* No order between timers is assumed, although one is set for 500 ms and  *)
(* the other for 3 s or more: Android suspends the JavaScript thread.      *)
(***************************************************************************)
EXTENDS Integers, FiniteSets, Sequences, Functions

CONSTANTS
  Socket,       \* WebSocket objects that can be alive at a time
  Host,         \* addresses
  NoHost,       \* no address: an undefined lastHost
  OfferHosts,   \* candidateHosts(offer), in order
  LastHost,     \* the lastHost the client was built with
  AckHosts,     \* addresses a hello-ack can name first
  Network,      \* Wi-Fi networks
  NoNetwork,    \* lastNetworkId = null
  MaxResets,    \* bound: network changes that reset the client
  MaxDrops,     \* bound: live connections that fail
  MaxMoves      \* bound: times the PC's address changes

ASSUME SyncClientAssumption ==
  /\ OfferHosts \in Seq(Host) /\ OfferHosts # <<>> /\ IsInjective(OfferHosts)
  /\ LastHost \in Host \cup {NoHost} /\ NoHost \notin Host
  /\ AckHosts \subseteq Host
  /\ NoNetwork \notin Network
  /\ IsFiniteSet(Socket)
  /\ MaxResets \in Nat /\ MaxDrops \in Nat /\ MaxMoves \in Nat

VARIABLES
  mode,          \* "new" before connect(), "on" after it, "closed" after close()
  sockets,       \* state, host, and whether the hello-ack has arrived
  current,       \* this.socket
  key,           \* this.key is not null
  closedByUs,
  hosts, hostIndex, everConnected, reconnectDelay, lastNetworkId,
  heartbeat,     \* the ping interval runs
  reconnect,     \* the reconnect timer is pending
  settle,        \* how many 500 ms timers of resetForNetworkChange are pending
  status,        \* the state last given to onStatus
  up,            \* environment: the addresses at which the PC answers
  resets, drops, moves

timers == <<heartbeat, reconnect, settle>>
list   == <<hosts, hostIndex, everConnected>>
bounds == <<resets, drops, moves>>
vars   == <<mode, sockets, current, key, closedByUs, list, reconnectDelay,
            lastNetworkId, timers, status, up, bounds>>

NoSocket == "null"
States   == {"free", "connecting", "open", "closing"}
BASE_RECONNECT == 3
MAX_RECONNECT  == 30

\* A socket object whose callbacks can still run.
Alive == {s \in Socket : sockets[s].state # "free"}
\* A socket that is, or may become, a session with the PC.
Live  == {s \in Socket : sockets[s].state \in {"connecting", "open"}}

(***************************************************************************)
(* Candidate hosts                                                         *)
(***************************************************************************)

\* Mutant of Found: the discovered address is prepended unconditionally.
FoundAgain(discovered) == IF discovered = NoHost THEN <<>> ELSE <<discovered>>

Found(discovered) ==
  IF discovered \notin Range(OfferHosts) \cup {NoHost} THEN <<discovered>> ELSE <<>>

\* base.filter(h => h !== lastHost); the offer lists no address twice.
OtherHosts ==
  IF LastHost \notin Range(OfferHosts) THEN OfferHosts
  ELSE LET i == CHOOSE i \in DOMAIN OfferHosts : OfferHosts[i] = LastHost
       IN SubSeq(OfferHosts, 1, i - 1) \o SubSeq(OfferHosts, i + 1, Len(OfferHosts))

\* buildHostList(discovered): a newly discovered address first, then
\* lastHost, then the candidates of the offer.
BuildHostList(discovered) ==
  IF LastHost \in {NoHost, discovered}
  THEN Found(discovered) \o OfferHosts
  ELSE Found(discovered) \o <<LastHost>> \o OtherHosts

\* Mutant of NextIndex: the walk ends at the last candidate.
NextIndexStops == IF hostIndex + 1 < Len(hosts) THEN hostIndex + 1 ELSE hostIndex

NextIndex == (hostIndex + 1) % Len(hosts)

host == IF hostIndex < Len(hosts) THEN hosts[hostIndex + 1] ELSE OfferHosts[1]

(***************************************************************************)
(* Sockets and timers                                                      *)
(***************************************************************************)

\* attemptConnect(): a new socket replaces this.socket, which is not closed.
AttemptConnect ==
  /\ \E s \in Socket \ Alive :
       /\ sockets' = [sockets EXCEPT ![s] =
                        [state |-> "connecting", host |-> host, acked |-> FALSE]]
       /\ current' = s
  /\ status' = "connecting"

\* this.socket?.close(); this.socket = null
CloseCurrent ==
  /\ sockets' = IF current # NoSocket /\ current \in Live
                THEN [sockets EXCEPT ![current].state = "closing"] ELSE sockets
  /\ current' = NoSocket

\* Mutant of KeyAfterClose: the key of the dead session is kept.
KeyKept == key

KeyAfterClose == FALSE

\* Mutants of WillRetry: only a client that was connected once retries; a
\* client that was closed retries too.
WillRetryOnceConnected == ~closedByUs /\ everConnected
WillRetryAlways == TRUE

WillRetry == ~closedByUs

\* onclose of socket s, whichever socket is current by now.  A reference to
\* a closed socket acts like null: it is not OPEN and closing it does nothing.
OnClose(s) ==
  /\ sockets' = [sockets EXCEPT ![s].state = "free"]
  /\ current' = IF current = s THEN NoSocket ELSE current
  /\ heartbeat' = FALSE
  /\ key' = KeyAfterClose
  /\ hostIndex' = IF ~everConnected /\ Len(hosts) > 1 THEN NextIndex ELSE hostIndex
  /\ reconnect' = (reconnect \/ WillRetry)

NextDelay == IF 2 * reconnectDelay > MAX_RECONNECT THEN MAX_RECONNECT
             ELSE 2 * reconnectDelay

Init ==
  /\ mode = "new"
  /\ sockets = [s \in Socket |-> [state |-> "free", host |-> OfferHosts[1], acked |-> FALSE]]
  /\ current = NoSocket
  /\ key = FALSE /\ closedByUs = FALSE
  /\ hosts = BuildHostList(NoHost) /\ hostIndex = 0 /\ everConnected = FALSE
  /\ reconnectDelay = BASE_RECONNECT
  /\ lastNetworkId = NoNetwork
  /\ heartbeat = FALSE /\ reconnect = FALSE /\ settle = 0
  /\ status = "idle"
  /\ up \in {{h} : h \in Range(OfferHosts)}
  /\ resets = 0 /\ drops = 0 /\ moves = 0

(***************************************************************************)
(* The owner: the socket effect of App.tsx                                 *)
(***************************************************************************)

Connect ==
  /\ mode = "new"
  /\ mode' = "on"
  /\ closedByUs' = FALSE
  /\ hostIndex' = 0
  /\ AttemptConnect
  /\ UNCHANGED <<key, hosts, everConnected, reconnectDelay, lastNetworkId, timers, up, bounds>>

\* close(): the 500 ms timers are not cleared.
Close ==
  /\ mode = "on"
  /\ mode' = "closed"
  /\ closedByUs' = TRUE
  /\ heartbeat' = FALSE
  /\ reconnect' = FALSE
  /\ CloseCurrent
  /\ status' = "idle"
  /\ UNCHANGED <<key, list, reconnectDelay, lastNetworkId, settle, up, bounds>>

(***************************************************************************)
(* Timers                                                                  *)
(***************************************************************************)

\* The callback of scheduleReconnect.
ReconnectFires ==
  /\ reconnect
  /\ reconnect' = FALSE
  /\ reconnectDelay' = NextDelay
  /\ AttemptConnect
  /\ UNCHANGED <<mode, key, closedByUs, list, lastNetworkId, heartbeat, settle, up, bounds>>

\* The callback of resetForNetworkChange.
SettleFires ==
  /\ settle > 0
  /\ settle' = settle - 1
  /\ AttemptConnect
  /\ UNCHANGED <<mode, key, closedByUs, list, reconnectDelay, lastNetworkId,
                 heartbeat, reconnect, up, bounds>>

(***************************************************************************)
(* Network notifications                                                   *)
(***************************************************************************)

\* The listener of subscribeToNetworkChanges, for a Wi-Fi network with an id.
\* The first one seen is only noted; a repeated one is ignored.
NetworkSeen(n) ==
  /\ mode = "on"
  /\ lastNetworkId = NoNetwork
  /\ lastNetworkId' = n
  /\ UNCHANGED <<mode, sockets, current, key, closedByUs, list, reconnectDelay,
                 timers, status, up, bounds>>

\* resetForNetworkChange.  closedByUs is set and cleared again in this one
\* callback; the onclose of the socket runs after it.
NetworkChanged(n) ==
  /\ mode = "on"
  /\ lastNetworkId \notin {NoNetwork, n}
  /\ resets < MaxResets
  /\ resets' = resets + 1
  /\ lastNetworkId' = n
  /\ heartbeat' = FALSE
  /\ reconnect' = FALSE
  /\ CloseCurrent
  /\ closedByUs' = FALSE
  /\ reconnectDelay' = BASE_RECONNECT
  /\ hostIndex' = 0
  /\ everConnected' = FALSE
  /\ hosts' = BuildHostList(NoHost)
  /\ settle' = settle + 1
  /\ UNCHANGED <<mode, key, status, up, drops, moves>>

(***************************************************************************)
(* Socket events                                                           *)
(***************************************************************************)

\* onopen: the hello is sent.
Opened(s) ==
  /\ sockets[s].state = "connecting" /\ sockets[s].host \in up
  /\ sockets' = [sockets EXCEPT ![s].state = "open"]
  /\ UNCHANGED <<mode, current, key, closedByUs, list, reconnectDelay,
                 lastNetworkId, timers, status, up, bounds>>

\* handle: a hello-ack that names h as the PC's first address.  hostIndex
\* keeps its value although the list may have a new head.
HelloAck(s, h) ==
  /\ sockets[s].state \in {"open", "closing"} /\ ~sockets[s].acked
  /\ sockets[s].host \in up
  /\ sockets' = [sockets EXCEPT ![s].acked = TRUE]
  /\ key' = TRUE
  /\ everConnected' = TRUE
  /\ reconnectDelay' = BASE_RECONNECT
  /\ status' = "connected"
  /\ heartbeat' = TRUE
  /\ hosts' = BuildHostList(h)
  /\ UNCHANGED <<mode, current, closedByUs, hostIndex, lastNetworkId, reconnect,
                 settle, up, bounds>>

\* handle: an error frame, a refusal of the hello or decrypt_failed later on.
ErrorFrame(s) ==
  /\ sockets[s].state \in {"open", "closing"}
  /\ drops < MaxDrops
  /\ drops' = drops + 1
  /\ closedByUs' = TRUE
  /\ status' = "error"
  /\ UNCHANGED <<mode, sockets, current, key, list, reconnectDelay, lastNetworkId,
                 timers, up, resets, moves>>

\* The connection fails: onerror, then onclose.
Failed(s) ==
  /\ status' = "error"
  /\ OnClose(s)
  /\ UNCHANGED <<mode, closedByUs, hosts, everConnected, reconnectDelay,
                 lastNetworkId, settle, up, resets, moves>>

\* No PC at that address, or none any longer: the transport gives up.
NoAnswer(s) ==
  /\ s \in Live /\ sockets[s].host \notin up
  /\ Failed(s)
  /\ UNCHANGED drops

Dropped(s) ==
  /\ sockets[s].state = "open"
  /\ drops < MaxDrops
  /\ drops' = drops + 1
  /\ Failed(s)

\* The close is complete, started by either side: onclose alone.
Closed(s) ==
  /\ sockets[s].state = "closing"
  /\ OnClose(s)
  /\ UNCHANGED <<mode, closedByUs, hosts, everConnected, reconnectDelay,
                 lastNetworkId, settle, status, up, bounds>>

ClosedByPeer(s) ==
  /\ sockets[s].state = "open"
  /\ drops < MaxDrops
  /\ drops' = drops + 1
  /\ OnClose(s)
  /\ UNCHANGED <<mode, closedByUs, hosts, everConnected, reconnectDelay,
                 lastNetworkId, settle, status, up, resets, moves>>

(***************************************************************************)
(* Environment                                                             *)
(***************************************************************************)

\* The PC gets another of its candidate addresses.
Move(h) ==
  /\ moves < MaxMoves
  /\ moves' = moves + 1
  /\ up' = {h}
  /\ UNCHANGED <<mode, sockets, current, key, closedByUs, list, reconnectDelay,
                 lastNetworkId, timers, status, resets, drops>>

SocketEvent(s) ==
  \/ Opened(s)
  \/ \E h \in AckHosts : HelloAck(s, h)
  \/ NoAnswer(s)
  \/ Closed(s)

Next ==
  \/ Connect
  \/ Close
  \/ ReconnectFires
  \/ SettleFires
  \/ \E n \in Network : NetworkSeen(n) \/ NetworkChanged(n)
  \/ \E s \in Socket : SocketEvent(s) \/ ErrorFrame(s) \/ Dropped(s) \/ ClosedByPeer(s)
  \/ \E h \in Range(OfferHosts) : Move(h)

Spec == Init /\ [][Next]_vars

\* Timers fire and sockets report what became of them; failures, network
\* changes and the user's close are not promised.
FairSpec ==
  /\ Spec
  /\ WF_vars(Connect) /\ WF_vars(ReconnectFires) /\ WF_vars(SettleFires)
  /\ \A s \in Socket : WF_vars(SocketEvent(s))

(***************************************************************************)
(* Properties                                                              *)
(***************************************************************************)

\* The sockets, the timers and what decides about them are well typed.
LinksTyped ==
  /\ mode \in {"new", "on", "closed"}
  /\ sockets \in [Socket -> [state : States, host : Host, acked : BOOLEAN]]
  /\ current \in Socket \cup {NoSocket}
  /\ key \in BOOLEAN /\ closedByUs \in BOOLEAN
  /\ reconnect \in BOOLEAN /\ settle \in Nat
  /\ resets \in Nat

\* Every field has its type.
TypeOK ==
  /\ LinksTyped
  /\ hosts \in Seq(Host) /\ hostIndex \in Nat /\ everConnected \in BOOLEAN
  /\ reconnectDelay \in BASE_RECONNECT .. MAX_RECONNECT
  /\ lastNetworkId \in Network \cup {NoNetwork}
  /\ heartbeat \in BOOLEAN
  /\ status \in {"idle", "connecting", "connected", "error"}
  /\ up \in SUBSET Host
  /\ drops \in Nat /\ moves \in Nat

\* Sockets and pending timers, each of which becomes at most one socket.
Attempts == Cardinality(Alive) + (IF reconnect THEN 1 ELSE 0) + settle

\* However drops, timers and closes interleave, a client never has more than
\* one connection or attempt under way, and one more for each network change
\* it reacted to: sockets do not pile up by themselves (attemptConnect,
\* scheduleReconnect, client.ts:114-154 and 410-416).
AttemptsBounded == Attempts <= 1 + resets

\* A client that is on and was not told to stop always has a socket whose
\* onclose is still to come, or a timer pending: no order of events leaves it
\* offline with nothing that would bring it back (client.ts:145-210, 410-416).
NeverStranded ==
  mode = "on" /\ ~closedByUs => Alive # {} \/ reconnect \/ settle > 0

\* The session key exists only while a socket that got its hello-ack has not
\* reported its close: a key is never left over from a session that is over
\* (handle and onclose).
KeyHasSession == key => \E s \in Alive : sockets[s].acked

\* Every address of the offer stays in the list exactly once and the index
\* points into it, whatever the hello-acks name and lastHost was
\* (buildHostList against the cycling of onclose, client.ts:83-105, 149-151).
HostListComplete ==
  /\ IsInjective(hosts)
  /\ Range(OfferHosts) \subseteq Range(hosts)
  /\ hostIndex < Len(hosts)

\* After close() nothing is retried: a socket is opened only by a 500 ms timer
\* that was already pending when close() ran (close, client.ts:383-394).
ClosedForGood ==
  /\ [][mode = "closed" => ~reconnect']_vars
  /\ [][mode = "closed" /\ Live' \ Live # {} => settle' < settle]_vars

\* The client keeps trying, and no more than it should (client.ts:114-154, 410-416).
TriesAreRight == TypeOK /\ AttemptsBounded /\ NeverStranded

Reached == status = "connected" \/ closedByUs

\* The client was connected since the network last changed, and the address it would
\* try next is not, or no longer, the PC's. It does not walk the list then, as onclose
\* moves the index only before the first connection (client.ts:149-151).
Astray == everConnected /\ host \notin up

\* A client that is on reaches a PC that answers at one of the offer's addresses, by
\* walking the list at first and after a network change, and by going back to where it
\* was after every drop. What may keep it from that is an error frame or close(), and
\* one thing that the code does not handle: the client goes astray when the PC moves
\* after the first connection, when an ack shifts the list under the index, or when a
\* network change crosses a connection under way (RescansAfterChange)
\* (client.ts:83-105, 145-154, 190-210, 410-416).
ReachesPC == mode = "on" ~> Reached \/ Astray

\* What client.ts:200-207 says of a network change: the state is reset for a
\* fresh attempt and a full host scan, so a PC that answers at one of the
\* candidates is reached on the new network.
RescansAfterChange == mode = "on" /\ resets > 0 ~> status = "connected" \/ closedByUs
=============================================================================
