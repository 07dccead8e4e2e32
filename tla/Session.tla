------------------------------- MODULE Session ------------------------------
(***************************************************************************)
(* The keys of a session (crypto/index.ts, crypto.rs) and the frames that  *)
(* are sealed with them, over the sockets that one phone opens to one PC.  *)
(*                                                                         *)
(* A key is derived from the two identities alone, so a client may hold    *)
(* one key for all of its sockets, and it does: handle() is given frames   *)
(* of sockets that were given up, and send() seals with the key of         *)
(* whichever socket was acknowledged last.  SyncClient.tla says when       *)
(* client.ts opens a socket; here it may at any time.                      *)
(*                                                                         *)
(* Identities are numbered as they are generated; the public half of one   *)
(* stands for both.  An X25519 exchange is the pair of the two, in no      *)
(* order; sealing keeps the text beside the key that opens it.             *)
(***************************************************************************)
EXTENDS Naturals, Sequences

CONSTANTS
  Socket,      \* the sockets the phone may open
  Text,        \* what is copied on either side
  NoKey,       \* a key that is not there, and what opening with a wrong one gives
  MaxScans,    \* bound: pairings
  MaxResets,   \* bound: times the data of the phone's app is erased
  MaxRestarts, \* bound: restarts of the PC's app
  MaxLosses,   \* bound: restarts of it that find no usable secret key
  MaxClips     \* bound: clips sealed on either side

VARIABLES
  phone,    \* [secret, client, nonce, key, on, socket]: its identity, and its client
  pc,       \* [secret, known, nonces]: its identity, phones and open offers
  side,     \* per socket, the phone's end of it: "unused", "open" or "closed"
  owner,    \* per socket, the client that opened it and its identity
  server,   \* per socket, the PC's end: "waiting", "serving" or "over"
  session,  \* per socket, the key its serve() derived
  up, down, \* per socket, the frames under way to the PC and from it
  unopened, \* whether a clip could not be opened, on either side
  bounds    \* [scans, resets, restarts, losses, clips]
vars ==
  <<phone, pc, side, owner, server, session, up, down, unopened, bounds>>

-----------------------------------------------------------------------------
(* crypto/index.ts and crypto.rs *)

PhoneIdentity(n) == <<"phone", n>>
PCIdentity(n) == <<"pc", n>>
SessionKey(secret, peerPublic) == {secret, peerPublic}
Seal(key, text) == [key |-> key, text |-> text]
OpenWith(key, sealed) == IF sealed.key = key THEN sealed.text ELSE NoKey

(* The frames of protocol/index.ts and protocol.rs that keys depend on. *)
Hello(nonce, public) == [type |-> "hello", nonce |-> nonce, public |-> public]
HelloAck(public) == [type |-> "hello-ack", public |-> public]
Error == [type |-> "error"]
Clip(sealed) == [type |-> "clip", payload |-> sealed]

Opens(key, frame) == OpenWith(key, frame.payload) # NoKey

NoClient(secret) ==
  [secret |-> secret, client |-> 0, nonce |-> 0, key |-> NoKey, on |-> FALSE,
   socket |-> NoKey]

Init ==
  /\ phone = NoClient(PhoneIdentity(0))
  /\ pc = [secret |-> PCIdentity(0), known |-> {}, nonces |-> {}]
  /\ side = [s \in Socket |-> "unused"]
  /\ owner = [s \in Socket |-> [client |-> 0, secret |-> PhoneIdentity(0)]]
  /\ server = [s \in Socket |-> "over"]
  /\ session = [s \in Socket |-> NoKey]
  /\ up = [s \in Socket |-> <<>>]
  /\ down = [s \in Socket |-> <<>>]
  /\ unopened = FALSE
  /\ bounds = [scans |-> 0, resets |-> 0, restarts |-> 0, losses |-> 0,
               clips |-> 0]

-----------------------------------------------------------------------------
(* The phone (client.ts, and App.tsx as it makes the client). *)

\* A code is read off the PC: a new client with its nonce.  The client before it
\* is closed, and what its sockets still deliver is lost on it.
Scan ==
  /\ bounds.scans < MaxScans
  /\ LET n == bounds.scans + 1 IN
       /\ bounds' = [bounds EXCEPT !.scans = n]
       /\ pc' = [pc EXCEPT !.nonces = @ \cup {n}]
       /\ phone' = [secret |-> phone.secret, client |-> n, nonce |-> n,
                    key |-> NoKey, on |-> TRUE, socket |-> NoKey]
  /\ UNCHANGED <<side, owner, server, session, up, down, unopened>>

\* The data of the app is gone: an identity of its own when it starts again.
PhoneReset ==
  /\ bounds.resets < MaxResets
  /\ bounds' = [bounds EXCEPT !.resets = @ + 1]
  /\ phone' = NoClient(PhoneIdentity(bounds.resets + 1))
  /\ UNCHANGED <<pc, side, owner, server, session, up, down, unopened>>

\* attemptConnect(), and onopen with its hello.
OpenSocket(s) ==
  /\ side[s] = "unused" /\ phone.on
  /\ side' = [side EXCEPT ![s] = "open"]
  /\ server' = [server EXCEPT ![s] = "waiting"]
  /\ owner' = [owner EXCEPT
       ![s] = [client |-> phone.client, secret |-> phone.secret]]
  /\ up' = [up EXCEPT ![s] = <<Hello(phone.nonce, phone.secret)>>]
  /\ phone' = [phone EXCEPT !.socket = s]
  /\ UNCHANGED <<pc, session, down, unopened, bounds>>

Mine(s) == owner[s].client = phone.client

\* handle(), whichever of its client's sockets the frame came by.  A clip that
\* comes while there is no key is dropped without a word.
Handled(s, f) ==
  /\ phone' = IF ~Mine(s) THEN phone
              ELSE CASE f.type = "hello-ack" ->
                          [phone EXCEPT !.key = SessionKey(phone.secret, f.public)]
                     [] f.type = "error" -> [phone EXCEPT !.on = FALSE]
                     [] OTHER -> phone
  /\ unopened' = (unopened \/ (/\ Mine(s) /\ f.type = "clip"
                               /\ phone.key # NoKey /\ ~Opens(phone.key, f)))

PhoneReceives(s) ==
  /\ side[s] = "open" /\ down[s] # <<>>
  /\ down' = [down EXCEPT ![s] = Tail(@)]
  /\ Handled(s, Head(down[s]))
  /\ UNCHANGED <<pc, side, owner, server, session, up, bounds>>

\* onclose: the key goes, although another socket may be in use.
SocketCloses(s) ==
  /\ side[s] = "open"
  /\ side' = [side EXCEPT ![s] = "closed"]
  /\ down' = [down EXCEPT ![s] = <<>>]
  /\ phone' = IF Mine(s) THEN [phone EXCEPT !.key = NoKey] ELSE phone
  /\ UNCHANGED <<pc, owner, server, session, up, unopened, bounds>>

\* send(): by the newest socket, whether or not the key is of that one.
PhoneSends(t) ==
  /\ bounds.clips < MaxClips /\ phone.key # NoKey
  /\ phone.socket \in Socket /\ side[phone.socket] = "open"
  /\ up' = [up EXCEPT ![phone.socket] = Append(@, Clip(Seal(phone.key, t)))]
  /\ bounds' = [bounds EXCEPT !.clips = @ + 1]
  /\ UNCHANGED <<phone, pc, side, owner, server, session, down, unopened>>

-----------------------------------------------------------------------------
(* The PC (server.rs, settings.rs). *)

\* The handshake of serve(): a nonce is spent, or the phone is known by its key.
Authorised(f) == f.nonce \in pc.nonces \/ f.public \in pc.known

PCHandshake(s) ==
  /\ server[s] = "waiting" /\ up[s] # <<>>
  /\ LET f == Head(up[s]) IN
       IF f.type # "hello" \/ ~Authorised(f)
         THEN /\ server' = [server EXCEPT ![s] = "over"]
              /\ down' = IF f.type = "hello"
                           THEN [down EXCEPT ![s] = Append(@, Error)] ELSE down
              /\ pc' = pc /\ session' = session
         ELSE /\ server' = [server EXCEPT ![s] = "serving"]
              /\ session' = [session EXCEPT
                   ![s] = SessionKey(pc.secret, f.public)]
              /\ down' = [down EXCEPT ![s] = Append(@, HelloAck(pc.secret))]
              /\ pc' = [pc EXCEPT !.nonces = @ \ {f.nonce},
                                  !.known = @ \cup {f.public}]
  /\ up' = [up EXCEPT ![s] = Tail(@)]
  /\ UNCHANGED <<phone, side, owner, unopened, bounds>>

\* A clip that does not open is answered with an error, which ends the client.
PCReceives(s) ==
  /\ server[s] = "serving" /\ up[s] # <<>>
  /\ up' = [up EXCEPT ![s] = Tail(@)]
  /\ LET f == Head(up[s])
         bad == f.type = "clip" /\ ~Opens(session[s], f) IN
       /\ unopened' = (unopened \/ bad)
       /\ down' = IF bad THEN [down EXCEPT ![s] = Append(@, Error)] ELSE down
  /\ UNCHANGED <<phone, pc, side, owner, server, session, bounds>>

\* A copy on the PC goes to every session, sealed with the key of each.
PCSends(t) ==
  /\ bounds.clips < MaxClips
  /\ \E s \in Socket : server[s] = "serving"
  /\ down' = [s \in Socket |->
       IF server[s] = "serving" THEN Append(down[s], Clip(Seal(session[s], t)))
                                ELSE down[s]]
  /\ bounds' = [bounds EXCEPT !.clips = @ + 1]
  /\ UNCHANGED <<phone, pc, side, owner, server, session, up, unopened>>

\* serve() returns once the phone's end is gone.
PCEnds(s) ==
  /\ side[s] = "closed" /\ server[s] \in {"waiting", "serving"}
  /\ server' = [server EXCEPT ![s] = "over"]
  /\ UNCHANGED <<phone, pc, side, owner, session, up, down, unopened, bounds>>

Restart(state) ==
  /\ bounds.restarts < MaxRestarts
  /\ pc' = state
  /\ server' = [s \in Socket |-> "over"]
  /\ UNCHANGED <<phone, side, owner, session, up, down, unopened>>

\* Mutant of PCRestarts: the identity is not saved, the list is.
PCRestartsAfresh ==
  /\ Restart([pc EXCEPT !.secret = PCIdentity(MaxLosses + bounds.restarts + 1),
                        !.nonces = {}])
  /\ bounds' = [bounds EXCEPT !.restarts = @ + 1]

\* The identity and the list are on disk, the offers are not.
PCRestarts ==
  /\ Restart([pc EXCEPT !.nonces = {}])
  /\ bounds' = [bounds EXCEPT !.restarts = @ + 1]

\* No file to read, and the list is lost with it (Settings::load); or a
\* secret_key in it that does not decode, and the list is kept (identity()).
PCLosesKey ==
  /\ bounds.losses < MaxLosses
  /\ \E list \in {{}, pc.known} :
       Restart([secret |-> PCIdentity(bounds.losses + 1), known |-> list,
                nonces |-> {}])
  /\ bounds' = [bounds EXCEPT !.restarts = @ + 1, !.losses = @ + 1]

Next ==
  \/ Scan \/ PhoneReset \/ PCRestarts \/ PCLosesKey
  \/ \E t \in Text : PhoneSends(t) \/ PCSends(t)
  \/ \E s \in Socket :
       \/ OpenSocket(s) \/ PhoneReceives(s) \/ SocketCloses(s)
       \/ PCHandshake(s) \/ PCReceives(s) \/ PCEnds(s)

Spec == Init /\ [][Next]_vars

-----------------------------------------------------------------------------
(* Properties *)

\* What one side seals the other opens, as long as the PC keeps its secret key:
\* whatever sockets are given up, whichever of them the phone's only key came
\* by, and whenever either side starts again (client.ts:217-251, server.rs).
AllOpen == bounds.losses = 0 => ~unopened
=============================================================================
