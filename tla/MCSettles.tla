------------------------------ MODULE MCSettles -----------------------------
(***************************************************************************)
(* What must happen in the end: the components about whose fairness the    *)
(* code says something, each under its own fairness. They share no state,  *)
(* so one run checks them all: a behaviour is one of the component that    *)
(* part names.                                                             *)
(***************************************************************************)
EXTENDS Integers, Sequences, FiniteSets

CONSTANTS
  None, p1, p2, n1, c1, c2, h1, h2, h3, s1, s2, w1, w2, k1, k2, t1, f1, f2,
  tl, br

Release(a, b, c) == [major |-> a, minor |-> b, patch |-> c]
Releases == {Release(0, 1, 999), Release(0, 2, 0)}

VARIABLES
  part,   \* the component that this behaviour is of
  clock, pairingPending, devices, identity, disk, session, faults, minted,
  claims, introduced, kept, forgotten, raced, mode, sockets, current, key,
  closedByUs, hosts, hostIndex, everConnected, reconnectDelay, lastNetworkId,
  heartbeat, reconnect, settle, status, clientUp, resets, clientDrops, moves,
  published, installed, apk, hook, lookups, downloads, installs, causes,
  failures, checks, kills, shared, sharePending, files, js, draining, inbox,
  loops, shareUp, sent, given, unheard, shareDrops, ends, toasts,
  dismissTimers, removalTimers, paused, hovered, run, stale, visible, where,
  stored, known, notices, late, lost, pushes, hovers, changes

Server == INSTANCE Pairing WITH Phone <- {p1, p2}, Malformed <- {p2},
  Nonce <- {n1}, Conn <- {c1, c2}, TTL <- 1, MaxClock <- 1, MaxFaults <- 1,
  pending <- pairingPending
Client == INSTANCE SyncClient WITH Socket <- {s1, s2}, Host <- {h1, h2, h3},
  NoHost <- None, OfferHosts <- <<h1, h2>>, LastHost <- None, AckHosts <- {h1,
  h2, h3}, Network <- {w1, w2}, NoNetwork <- None, MaxResets <- 1,
  MaxDrops <- 1, MaxMoves <- 1, up <- clientUp, drops <- clientDrops
Update == INSTANCE Updater WITH Hook <- {k1, k2}, Sized <- Releases,
  MaxFailures <- 1, MaxChecks <- 1, MaxDownloads <- 1, MaxKills <- 1
Sharing == INSTANCE Share WITH Shares <- {<<t1, f1>>, <<f2>>}, Text <- {t1},
  TooLarge <- {f2}, MaxAttempts <- 2, MaxDrops <- 1, MaxEnds <- 1,
  pending <- sharePending, up <- shareUp, drops <- shareDrops
Stack == INSTANCE Toasts WITH HARD_CAP <- 2, MAX_VISIBLE <- 1,
  Position <- {tl, br}, MaxPushes <- 3, MaxHovers <- 1, MaxChanges <- 1,
  MaxStale <- 2

ServerVars ==
  <<clock, pairingPending, devices, identity, disk, session, faults, minted,
    claims, introduced, kept, forgotten, raced>>
ClientVars ==
  <<mode, sockets, current, key, closedByUs, hosts, hostIndex, everConnected,
    reconnectDelay, lastNetworkId, heartbeat, reconnect, settle, status,
    clientUp, resets, clientDrops, moves>>
UpdateVars ==
  <<published, installed, apk, hook, lookups, downloads, installs, causes,
    failures, checks, kills>>
SharingVars ==
  <<shared, sharePending, files, js, draining, inbox, loops, shareUp, sent,
    given, unheard, shareDrops, ends>>
StackVars ==
  <<toasts, dismissTimers, removalTimers, paused, hovered, run, stale,
    visible, where, stored, known, notices, late, lost, pushes, hovers,
    changes>>

vars == <<part, ServerVars, ClientVars, UpdateVars, SharingVars, StackVars>>

(* Init and Next take the component that part names; the variables of every *)
(* other component are 0 throughout.                                          *)
ServerRest ==
  /\ clock = 0 /\ pairingPending = 0 /\ devices = 0 /\ identity = 0
  /\ disk = 0 /\ session = 0 /\ faults = 0 /\ minted = 0 /\ claims = 0
  /\ introduced = 0 /\ kept = 0 /\ forgotten = 0 /\ raced = 0
ClientRest ==
  /\ mode = 0 /\ sockets = 0 /\ current = 0 /\ key = 0 /\ closedByUs = 0
  /\ hosts = 0 /\ hostIndex = 0 /\ everConnected = 0 /\ reconnectDelay = 0
  /\ lastNetworkId = 0 /\ heartbeat = 0 /\ reconnect = 0 /\ settle = 0
  /\ status = 0 /\ clientUp = 0 /\ resets = 0 /\ clientDrops = 0 /\ moves = 0
UpdateRest ==
  /\ published = 0 /\ installed = 0 /\ apk = 0 /\ hook = 0 /\ lookups = 0
  /\ downloads = 0 /\ installs = 0 /\ causes = 0 /\ failures = 0
  /\ checks = 0 /\ kills = 0
SharingRest ==
  /\ shared = 0 /\ sharePending = 0 /\ files = 0 /\ js = 0 /\ draining = 0
  /\ inbox = 0 /\ loops = 0 /\ shareUp = 0 /\ sent = 0 /\ given = 0
  /\ unheard = 0 /\ shareDrops = 0 /\ ends = 0
StackRest ==
  /\ toasts = 0 /\ dismissTimers = 0 /\ removalTimers = 0 /\ paused = 0
  /\ hovered = 0 /\ run = 0 /\ stale = 0 /\ visible = 0 /\ where = 0
  /\ stored = 0 /\ known = 0 /\ notices = 0 /\ late = 0 /\ lost = 0
  /\ pushes = 0 /\ hovers = 0 /\ changes = 0

Init ==
  /\ part \in {"pairing", "client", "updater", "share", "toasts"}
  /\ IF part = "pairing" THEN Server!Init ELSE ServerRest
  /\ IF part = "client" THEN Client!Init ELSE ClientRest
  /\ IF part = "updater" THEN Update!Init ELSE UpdateRest
  /\ IF part = "share" THEN Sharing!Init ELSE SharingRest
  /\ IF part = "toasts" THEN Stack!Init ELSE StackRest

Only(p) ==
  /\ part = p /\ UNCHANGED part
  /\ p # "pairing" => UNCHANGED ServerVars
  /\ p # "client" => UNCHANGED ClientVars
  /\ p # "updater" => UNCHANGED UpdateVars
  /\ p # "share" => UNCHANGED SharingVars
  /\ p # "toasts" => UNCHANGED StackVars

Next ==
  \/ part = "pairing" /\ Server!Next /\ Only("pairing")
  \/ part = "client" /\ Client!Next /\ Only("client")
  \/ part = "updater" /\ Update!Next /\ Only("updater")
  \/ part = "share" /\ Sharing!Next /\ Only("share")
  \/ part = "toasts" /\ Stack!Next /\ Only("toasts")

Spec == Init /\ [][Next]_vars

InServer(A) == part = "pairing" /\ A /\ Only("pairing")
InClient(A) == part = "client" /\ A /\ Only("client")
InUpdate(A) == part = "updater" /\ A /\ Only("updater")
InSharing(A) == part = "share" /\ A /\ Only("share")
InStack(A) == part = "toasts" /\ A /\ Only("toasts")

\* The fairness of each component, which its own module argues for.
FairSpec ==
  /\ Spec
  /\ \A c \in {c1, c2} : WF_vars(InServer(Server!Handshake(c)))
  /\ WF_vars(InClient(Client!Connect))
  /\ WF_vars(InClient(Client!ReconnectFires))
  /\ WF_vars(InClient(Client!SettleFires))
  /\ \A s \in {s1, s2} : WF_vars(InClient(Client!SocketEvent(s)))
  /\ WF_vars(InUpdate(\E c \in lookups : Update!CheckSteps(c)))
  /\ WF_vars(InUpdate(\E d \in downloads : Update!DownloadSteps(d)))
  /\ WF_vars(InSharing(\E l \in loops : Sharing!LoopSteps(l)))
  /\ WF_vars(InStack(Stack!Timer))
  /\ WF_vars(InStack(Stack!Resized \/ Stack!Positioned))
  /\ WF_vars(InStack(Stack!StaleShows))
  /\ WF_vars(InStack(Stack!OnPrefs))

(***************************************************************************)
(* Properties                                                              *)
(***************************************************************************)

\* Every hello is answered (server.rs).
HandshakeEnds ==
  \A c \in {c1, c2} :
    (part = "pairing" /\ Server!Answering(c)) ~> (part = "pairing" => Server!Answered(c))

\* A client that is on reaches the PC, unless it was connected and now looks where the
\* PC is not, whatever the network, the drops and the PC's address do (client.ts).
ReachesPC ==
  (part = "client" /\ mode = "on") ~> (part = "client" => Client!Reached \/ Client!Astray)

\* The settings screen comes out of every check and download (useUpdater.ts).
BusyEnds == \A k \in {k1, k2} : []<>(part = "updater" => Update!Freed(k))

\* No batch goes on for ever (App.tsx).
ItemsSettled == <>[](part = "share" => Sharing!Settled)

\* Every toast goes away in the end (Toasts.tsx).
StackDrains == <>[](part = "toasts" => Stack!Drained)
=============================================================================
