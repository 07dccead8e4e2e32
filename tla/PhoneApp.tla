------------------------------ MODULE PhoneApp ------------------------------
(***************************************************************************)
(* The phone's app as its user drives it: bootstrap from the SecureStore,  *)
(* the screens, scanning a code, re-pairing, unpairing, the effect that    *)
(* owns the one SyncClient (App.tsx).  Its foreground service is in module  *)
(* BackgroundSync.                                                         *)
(*                                                                         *)
(* JavaScript runs one callback at a time and an await ends it; a change   *)
(* of state and the effects it triggers are one step.  A call of the       *)
(* SecureStore takes effect when it is made, and its await returns later.  *)
(* A PC stands for the code it shows and for its address.                  *)
(***************************************************************************)
EXTENDS Integers, Sequences

CONSTANTS
  PC,           \* the PCs in reach
  None,         \* no offer, no host, no client
  MaxScans,     \* bound: codes the camera reads
  MaxTroubles   \* bound: connections that fail or are lost, and restarts

VARIABLES
  disk,         \* the SecureStore: identity, offer and last host
  boot,         \* what the bootstrap reads next
  me,           \* identity is set
  offer, lastHost, status,
  scanning, confirm,  \* scanning, confirmUnpair
  granted, asking,              \* the camera's permission; a request is open
  handled,      \* handledScan
  timers,       \* 1.5 s timers of bad codes
  saves,        \* offers whose setItem is under way, in order
  unpairing,    \* what unpair() has deleted so far
  client,       \* client.current, with the host it was built with
  late,         \* closed clients whose socket still has an event to report
  known,        \* PCs that have this phone on their list
  causes,       \* ghost: the rare interleavings that have happened
  scans, troubles

stored == <<disk, boot>>
pairing == <<me, offer, lastHost>>
views == <<scanning, confirm>>
camera == <<granted, asking, handled, timers, saves>>
link == <<status, client, late>>
bounds == <<scans, troubles>>
vars == <<stored, pairing, views, camera, unpairing, link, known, causes, bounds>>

Idle == [state |-> "idle", peer |-> None]
Connecting == [state |-> "connecting", peer |-> None]
Broken == [state |-> "error", peer |-> None]
Connected(q) == [state |-> "connected", peer |-> q]

Init ==
  /\ disk = [me |-> FALSE, offer |-> None, host |-> None]
  /\ boot = "identity"
  /\ me = FALSE /\ offer = None /\ lastHost = None /\ status = Idle
  /\ scanning = FALSE /\ confirm = FALSE
  /\ granted = FALSE /\ asking = FALSE
  /\ handled = FALSE /\ timers = 0 /\ saves = <<>>
  /\ unpairing = "no"
  /\ client = None /\ late = {}
  /\ known = {} /\ causes = {}
  /\ scans = 0 /\ troubles = 0

(***************************************************************************)
(* The effect that owns the client                                         *)
(***************************************************************************)
NewClient(o, h) == [pc |-> o, host |-> h, at |-> "trying"]

\* Mutant of SocketEffect: the client of the PC before is kept.
SocketEffectOnce(o, id) ==
  LET new == IF client # None THEN client ELSE IF o # None /\ id THEN NewClient(o, lastHost) ELSE None
  IN  /\ client' = new
      /\ late' = late
      /\ status' = IF new # None /\ client = None THEN Connecting ELSE status

\* The cleanup of the old run, then the new run, when offer becomes o or
\* identity becomes id.  lastHost is no dependency: what it is by now counts.
SocketEffect(o, id) ==
  LET new == IF o # None /\ id THEN NewClient(o, lastHost) ELSE None
  IN  /\ client' = new
      /\ late' = IF client = None THEN late ELSE late \cup {[pc |-> client.pc, host |-> client.host]}
      /\ status' = IF new # None THEN Connecting ELSE IF client # None THEN Idle ELSE status

(***************************************************************************)
(* Bootstrap                                                               *)
(***************************************************************************)
BootIdentity ==
  /\ boot = "identity"
  /\ boot' = "offer"
  /\ disk' = [disk EXCEPT !.me = TRUE]
  /\ me' = TRUE
  /\ SocketEffect(offer, TRUE)
  /\ UNCHANGED <<offer, lastHost, views, camera, unpairing, known, causes, bounds>>

BootOffer ==
  /\ boot = "offer"
  /\ boot' = "host"
  /\ IF disk.offer # None
     THEN offer' = disk.offer /\ SocketEffect(disk.offer, me)
     ELSE UNCHANGED <<offer, link>>
  /\ UNCHANGED <<disk, me, lastHost, views, camera, unpairing, known, causes, bounds>>

\* By now the client has been built without it.
BootHost ==
  /\ boot = "host"
  /\ boot' = "done"
  /\ lastHost' = IF disk.host # None THEN disk.host ELSE lastHost
  /\ UNCHANGED <<disk, me, offer, views, camera, unpairing, link, known, causes, bounds>>

\* The process ends and the app is opened again.
Restart ==
  /\ troubles < MaxTroubles
  /\ troubles' = troubles + 1
  /\ boot' = "identity" /\ me' = FALSE /\ offer' = None /\ lastHost' = None /\ status' = Idle
  /\ scanning' = FALSE /\ confirm' = FALSE
  /\ asking' = FALSE /\ handled' = FALSE /\ timers' = 0 /\ saves' = <<>>
  /\ unpairing' = "no" /\ client' = None /\ late' = {}
  /\ causes' = IF unpairing = "no" THEN causes ELSE causes \cup {"overlap"}
  /\ UNCHANGED <<disk, granted, known, scans>>

(***************************************************************************)
(* Screens                                                                 *)
(***************************************************************************)
Screen == IF scanning THEN "scanner" ELSE "home"

\* What the home screen offers: the primary button, the two of the device
\* card, and those of the confirmation.
ShowsScan   == Screen = "home" /\ offer = None
ShowsDevice == Screen = "home" /\ offer # None /\ ~confirm
ShowsAsk    == Screen = "home" /\ offer # None /\ confirm

\* The scanner's Cancel and the hardware back button.
LeaveScanner == Screen = "scanner" /\ scanning' = FALSE /\ UNCHANGED confirm
AskUnpair == ShowsDevice /\ confirm' = TRUE /\ UNCHANGED scanning
KeepPaired == ShowsAsk /\ confirm' = FALSE /\ UNCHANGED scanning

Navigate ==
  /\ LeaveScanner \/ AskUnpair \/ KeepPaired
  /\ UNCHANGED <<stored, pairing, camera, unpairing, link, known, causes, bounds>>

(***************************************************************************)
(* Scanning                                                                *)
(***************************************************************************)
OpenScanner == scanning' = TRUE /\ handled' = FALSE

StartScanning ==
  /\ ShowsScan \/ ShowsDevice
  /\ IF granted
     THEN OpenScanner /\ UNCHANGED asking
     ELSE asking' = TRUE /\ UNCHANGED <<scanning, handled>>
  /\ UNCHANGED <<stored, pairing, confirm, granted, timers, saves, unpairing, link,
                 known, causes, bounds>>

\* requestPermission returns.
Permission(yes) ==
  /\ asking
  /\ asking' = FALSE /\ granted' = yes
  /\ IF yes THEN OpenScanner ELSE UNCHANGED <<scanning, handled>>
  /\ UNCHANGED <<stored, pairing, confirm, timers, saves, unpairing, link, known,
                 causes, bounds>>

\* Another handler is between two of its awaits.
Overlaps == IF boot # "done" \/ unpairing # "no" \/ saves # <<>> THEN {"overlap"} ELSE {}

\* What the camera reads: whether it is ClipLink's, of this version, with all
\* that an offer has, and when it expires, which an offer need not say.
Code ==
  [app : BOOLEAN, version : BOOLEAN, whole : BOOLEAN, expires : {"never", "past", "later"}]
parsePairingOffer(code) ==
  code.app /\ code.version /\ code.whole /\ code.expires # "past"

\* onScan, of what parsePairingOffer refuses.
BadCode ==
  /\ \E code \in Code : ~parsePairingOffer(code)
  /\ scans < MaxScans /\ Screen = "scanner" /\ ~handled
  /\ scans' = scans + 1
  /\ handled' = TRUE /\ timers' = timers + 1
  /\ UNCHANGED <<stored, pairing, views, granted, asking, saves, unpairing, link, known, causes,
                 troubles>>

BadCodeTimer ==
  /\ timers > 0
  /\ timers' = timers - 1
  /\ handled' = FALSE
  /\ UNCHANGED <<stored, pairing, views, granted, asking, saves, unpairing, link, known, causes,
                 bounds>>

\* The code of another PC is read while the phone is paired.
Repairs(o) == IF offer # None /\ offer # o THEN {"repaired"} ELSE {}

\* onScan, of the code a PC shows, up to the await.
GoodCode(o) ==
  /\ \E code \in Code : parsePairingOffer(code)
  /\ scans < MaxScans /\ Screen = "scanner" /\ ~handled
  /\ scans' = scans + 1
  /\ handled' = TRUE /\ scanning' = FALSE
  /\ disk' = [disk EXCEPT !.offer = o]
  /\ saves' = Append(saves, o)
  /\ causes' = causes \cup Overlaps \cup Repairs(o)
  /\ UNCHANGED <<boot, pairing, confirm, granted, asking, timers, unpairing, link,
                 known, troubles>>

\* The rest of it: the effect closes the client of the PC before.
OfferSaved ==
  /\ saves # <<>>
  /\ saves' = Tail(saves)
  /\ offer' = Head(saves) /\ handled' = FALSE
  /\ SocketEffect(Head(saves), me)
  /\ UNCHANGED <<stored, me, lastHost, views, granted, asking, timers, unpairing, known, causes,
                 bounds>>

(***************************************************************************)
(* unpair(), in its three stretches                                        *)
(***************************************************************************)
Disconnect ==
  /\ ShowsAsk /\ unpairing = "no"
  /\ confirm' = FALSE
  /\ disk' = [disk EXCEPT !.offer = None]
  /\ unpairing' = "offer"
  /\ causes' = causes \cup Overlaps
  /\ UNCHANGED <<boot, pairing, scanning, camera, link, known, bounds>>

UnpairHost ==
  /\ unpairing = "offer"
  /\ unpairing' = "host"
  /\ disk' = [disk EXCEPT !.host = None]
  /\ UNCHANGED <<boot, pairing, views, camera, link, known, causes, bounds>>

UnpairState ==
  /\ unpairing = "host"
  /\ unpairing' = "no"
  /\ offer' = None /\ lastHost' = None
  /\ SocketEffect(None, me)
  /\ UNCHANGED <<stored, me, views, camera, known, causes, bounds>>

(***************************************************************************)
(* What the client reports                                                 *)
(***************************************************************************)

\* The hosts it tries, and who answers: the PC whose code it carries, and a PC
\* that has the phone on its list from before.
Tries(c) == {c.pc, c.host} \ {None}
Answers(c, q) == q \in Tries(c) /\ (q = c.pc \/ q \in known)

\* onStatus("connected"): the host is remembered, in memory and on disk.
Connects(q) ==
  /\ status' = Connected(q)
  /\ lastHost' = q
  /\ disk' = [disk EXCEPT !.host = q]
  /\ known' = known \cup {q}

ClientConnects(q) ==
  /\ client # None /\ client.at = "trying" /\ Answers(client, q)
  /\ client' = [client EXCEPT !.at = "up"]
  /\ Connects(q)
  /\ causes' = IF unpairing = "no" THEN causes ELSE causes \cup {"overlap"}
  /\ UNCHANGED <<boot, me, offer, views, camera, unpairing, late, bounds>>

\* onerror and onclose, or only onclose, of which no status tells.
ClientFails(told) ==
  /\ client # None /\ client.at # "waiting" /\ troubles < MaxTroubles
  /\ troubles' = troubles + 1
  /\ client' = [client EXCEPT !.at = "waiting"]
  /\ status' = IF told THEN Broken ELSE status
  /\ UNCHANGED <<stored, pairing, views, camera, unpairing, late, known, causes, scans>>

ClientRetries ==
  /\ client # None /\ client.at = "waiting"
  /\ client' = [client EXCEPT !.at = "trying"]
  /\ status' = Connecting
  /\ UNCHANGED <<stored, pairing, views, camera, unpairing, late, known, causes, bounds>>

\* A socket of a closed client reports an error, or nothing at all.
LateError(c, told) ==
  /\ late' = late \ {c}
  /\ IF told
     THEN /\ status' = Broken
          /\ causes' = causes \cup {"late"}
     ELSE UNCHANGED <<status, causes>>
  /\ UNCHANGED <<stored, pairing, views, camera, unpairing, client, known, bounds>>

\* Or the hello-ack that was on its way when it was closed.
LateAck(c, q) ==
  /\ Answers(c, q)
  /\ late' = late \ {c}
  /\ Connects(q)
  /\ causes' = causes \cup {"late"}
  /\ UNCHANGED <<boot, me, offer, views, camera, unpairing, client, bounds>>

UserActs == Navigate \/ StartScanning \/ Disconnect
CameraActs ==
  \/ \E yes \in BOOLEAN : Permission(yes)
  \/ BadCode \/ BadCodeTimer \/ OfferSaved
  \/ \E o \in PC : GoodCode(o)
ClientActs ==
  \/ \E q \in PC : ClientConnects(q)
  \/ \E told \in BOOLEAN : ClientFails(told)
  \/ ClientRetries
  \/ \E c \in late : (\E told \in BOOLEAN : LateError(c, told)) \/ \E q \in PC : LateAck(c, q)

Next ==
  \/ BootIdentity \/ BootOffer \/ BootHost \/ Restart
  \/ UserActs \/ CameraActs
  \/ UnpairHost \/ UnpairState
  \/ ClientActs

Spec == Init /\ [][Next]_vars

(***************************************************************************)
(* Properties                                                              *)
(***************************************************************************)
Hosts == PC \cup {None}
TypeOK ==
  /\ disk \in [me : BOOLEAN, offer : Hosts, host : Hosts]
  /\ boot \in {"identity", "offer", "host", "done"}
  /\ me \in BOOLEAN /\ offer \in Hosts /\ lastHost \in Hosts
  /\ status \in [state : {"idle", "connecting", "connected", "error"}, peer : Hosts]
  /\ scanning \in BOOLEAN /\ confirm \in BOOLEAN
  /\ granted \in BOOLEAN /\ asking \in BOOLEAN /\ handled \in BOOLEAN
  /\ timers \in Nat /\ saves \in Seq(PC) /\ unpairing \in {"no", "offer", "host"}
  /\ client = None \/ client \in [pc : PC, host : Hosts, at : {"trying", "up", "waiting"}]
  /\ late \subseteq [pc : PC, host : Hosts]
  /\ known \subseteq PC
  /\ causes \subseteq {"repaired", "overlap", "late"}
  /\ scans \in Nat /\ troubles \in Nat

\* A scanner on screen that ignores codes listens again: a timer or a save is
\* under way that resets handledScan, whatever was scanned, cancelled and
\* opened again before (App.tsx:517-530).
ScannerRecovers == scanning /\ handled => timers > 0 \/ saves # <<>>

\* No handler is between two awaits.
AtRest == boot = "done" /\ saves = <<>> /\ unpairing = "no"

\* A restart brings back the pairing the user sees: what is stored is what is
\* shown, unless two of bootstrap, scan and unpair overlapped (App.tsx:142-161,
\* 516-531, 558-566).
SamePairingAfterRestart == AtRest /\ "overlap" \notin causes => disk.offer = offer

\* There is a client exactly while the phone is paired, for the PC shown.
ClientOfThePairing ==
  /\ client # None <=> offer # None /\ me
  /\ client # None => client.pc = offer

\* Connected means the PC whose code was scanned: a host remembered from one PC
\* never leads to another, unless the phone was re-paired without being
\* unpaired, two handlers overlapped or a closed client reported late.
ConnectedToTheScannedPC ==
  status.state = "connected" /\ causes \cap {"repaired", "overlap", "late"} = {}
    => status.peer = offer

\* What a closed client reports late is the only way to a status without one.
StatusHasClient == client = None /\ "late" \notin causes => status = Idle

\* What the phone shows is the pairing it has.
PhoneAppSound ==
  /\ TypeOK
  /\ ScannerRecovers
  /\ SamePairingAfterRestart
  /\ ClientOfThePairing
  /\ ConnectedToTheScannedPC
  /\ StatusHasClient
=============================================================================
