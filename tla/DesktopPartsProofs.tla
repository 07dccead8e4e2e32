------------------------- MODULE DesktopPartsProofs -------------------------
(***************************************************************************)
(* Proofs about the components that module DesktopParts puts side by side: *)
(* first each one alone, as an instance with an invariant of its own, and  *)
(* at the end what the runs check of them together.                        *)
(***************************************************************************)
EXTENDS DesktopParts, SequenceTheorems, TLAPS

------------------------------------------------------------------------------
(* The keys of a session *)

\* The PC's first identity, and the one key that it shares with a phone.
Kept == Keys!PCIdentity(0)
KeyOf(p) == Keys!SessionKey(Kept, p)

Sealed(p) == {Keys!Clip(Keys!Seal(KeyOf(p), t)) : t \in Copy}
UpFrame(p) == {Keys!Hello(n, p) : n \in Nat} \cup Sealed(p)
DownFrame(p) == {Keys!HelloAck(Kept), Keys!Error} \cup Sealed(p)

Ids == {Keys!PhoneIdentity(n) : n \in Nat}

KeysBoundsOK ==
  keysBounds \in [scans : Nat, resets : Nat, restarts : Nat, losses : Nat, clips : Nat]

PhoneOK ==
  /\ phone \in [secret : Ids, client : Nat, nonce : Nat,
                key : {None} \cup {KeyOf(p) : p \in Ids}, on : BOOLEAN,
                socket : Socket \cup {None}]
  /\ phone.client <= keysBounds.scans
  /\ phone.on => phone.client > 0
  /\ phone.key \in {None, KeyOf(phone.secret)}

\* The key that a client holds fits every socket of its own: one client, one
\* identity.
OwnersOK ==
  /\ owner \in [Socket -> [client : Nat, secret : Ids]]
  /\ side \in [Socket -> {"unused", "open", "closed"}]
  /\ \A s \in Socket :
       side[s] # "unused" =>
         /\ owner[s].client > 0 /\ owner[s].client <= keysBounds.scans
         /\ owner[s].client = phone.client => owner[s].secret = phone.secret
  /\ phone.socket \in Socket =>
       side[phone.socket] # "unused" /\ owner[phone.socket].client = phone.client

FramesOK ==
  /\ DOMAIN keysUp = Socket /\ DOMAIN keysDown = Socket
  /\ \A s \in Socket :
       /\ keysUp[s] \in Seq(UpFrame(owner[s].secret))
       /\ keysDown[s] \in Seq(DownFrame(owner[s].secret))
       /\ side[s] = "unused" => keysDown[s] = <<>> /\ server[s] = "over"

ServersOK ==
  /\ pc \in [secret : {Kept}, known : SUBSET Ids, nonces : SUBSET Nat]
  /\ server \in [Socket -> {"waiting", "serving", "over"}]
  /\ DOMAIN session = Socket
  /\ \A s \in Socket :
       server[s] = "serving" => session[s] = KeyOf(owner[s].secret)

Keyed == PhoneOK /\ OwnersOK /\ FramesOK /\ ServersOK /\ ~unopened

KeysInv == KeysBoundsOK /\ (keysBounds.losses = 0 => Keyed)

\* The queues: what is put at the end and what is taken from the head.
LEMMA QueuesHold ==
  ASSUME NEW S, NEW q \in Seq(S)
  PROVE  /\ \A f \in S : Append(q, f) \in Seq(S)
         /\ q # <<>> => Head(q) \in S /\ Tail(q) \in Seq(S)
  OBVIOUS

\* A clip that was sealed with a key opens with it (crypto/index.ts).
LEMMA SealOpens ==
  ASSUME None \notin Copy, NEW p, NEW f \in Sealed(p)
  PROVE  Keys!Opens(KeyOf(p), f) /\ f.type = "clip"
  BY DEF Sealed, Keys!Opens, Keys!OpenWith, Keys!Seal, Keys!Clip

LEMMA UpFacts ==
  ASSUME None \notin Copy, NEW p, NEW f \in UpFrame(p)
  PROVE  /\ f.type = "hello" => f.public = p /\ f.nonce \in Nat
         /\ f.type = "clip" => Keys!Opens(KeyOf(p), f)
  <1>1. CASE f \in Sealed(p)
    BY <1>1, SealOpens
  <1>2. CASE f \in {Keys!Hello(n, p) : n \in Nat}
    BY <1>2 DEF Keys!Hello
  <1>. QED  BY <1>1, <1>2 DEF UpFrame

LEMMA DownFacts ==
  ASSUME None \notin Copy, NEW p, NEW f \in DownFrame(p)
  PROVE  /\ f.type = "hello-ack" => f.public = Kept
         /\ f.type = "clip" => Keys!Opens(KeyOf(p), f)
  <1>1. CASE f \in Sealed(p)
    BY <1>1, SealOpens
  <1>2. CASE f \in {Keys!HelloAck(Kept), Keys!Error}
    BY <1>2 DEF Keys!HelloAck, Keys!Error
  <1>. QED  BY <1>1, <1>2 DEF DownFrame

\* Both ends derive one key, whichever of them does it (crypto.rs,
\* both_sides_derive_the_same_key).
LEMMA SameKey ==
  ASSUME NEW p
  PROVE  Keys!SessionKey(p, Kept) = KeyOf(p)
  BY DEF Keys!SessionKey, KeyOf

USE DEF KeysBoundsOK, KeysInv

LEMMA InitKeyed ==
  ASSUME None \notin Socket, Keys!Init
  PROVE  KeysInv
  <1>1. Keys!PhoneIdentity(0) \in Ids
    BY DEF Ids
  <1>2. KeysBoundsOK
    BY DEF Keys!Init
  <1>3. PhoneOK
    <2>1. keysBounds.scans = 0 /\ \E id \in Ids : phone = Keys!NoClient(id)
      BY <1>1 DEF Keys!Init
    <2>2. PICK id \in Ids : phone = Keys!NoClient(id)
      BY <2>1
    <2>3. phone = [secret |-> id, client |-> 0, nonce |-> 0, key |-> None, on |-> FALSE,
                   socket |-> None]
      BY <2>2 DEF Keys!NoClient
    <2>4. id \in Ids /\ phone.client = 0 /\ ~phone.on /\ phone.key = None
          /\ phone.socket = None
      BY ONLY <2>2, <2>3
    <2>5. phone \in [secret : Ids, client : Nat, nonce : Nat,
                     key : {None} \cup {KeyOf(p) : p \in Ids}, on : BOOLEAN,
                     socket : Socket \cup {None}]
      BY ONLY <2>3, <2>4
    <2> QED BY <2>1, <2>4, <2>5 DEF PhoneOK
  <1>4. OwnersOK
    BY <1>1 DEF Keys!Init, OwnersOK, Keys!NoClient
  <1>5. FramesOK
    BY DEF Keys!Init, FramesOK
  <1>6. ServersOK
    BY DEF Keys!Init, ServersOK, Kept
  <1>. QED  BY <1>2, <1>3, <1>4, <1>5, <1>6 DEF Keyed, Keys!Init

LEMMA ScanKeyed ==
  ASSUME None \notin Socket, KeysBoundsOK, Keyed, Keys!Scan
  PROVE  KeysBoundsOK' /\ Keyed'
  <1>. USE DEF Keys!Scan, Keyed
  <1>1. KeysBoundsOK'
    OBVIOUS
  <1>2. PhoneOK'
    BY DEF PhoneOK
  <1>3. OwnersOK'
    BY DEF PhoneOK, OwnersOK
  <1>4. FramesOK'
    BY DEF FramesOK
  <1>5. ServersOK'
    BY DEF ServersOK
  <1>. QED  BY <1>1, <1>2, <1>3, <1>4, <1>5

LEMMA ResetKeyed ==
  ASSUME None \notin Socket, KeysBoundsOK, Keyed, Keys!PhoneReset
  PROVE  KeysBoundsOK' /\ Keyed'
  <1>. USE DEF Keys!PhoneReset, Keyed
  <1>1. KeysBoundsOK'
    OBVIOUS
  <1>2. Keys!PhoneIdentity(keysBounds.resets + 1) \in Ids
    BY DEF Ids
  <1>3. PhoneOK'
    BY <1>2 DEF PhoneOK, Keys!NoClient
  <1>4. OwnersOK'
    BY <1>2 DEF PhoneOK, OwnersOK, Keys!NoClient
  <1>5. FramesOK'
    BY DEF FramesOK
  <1>6. ServersOK'
    BY DEF ServersOK
  <1>. QED  BY <1>1, <1>3, <1>4, <1>5, <1>6

LEMMA OpenKeyed ==
  ASSUME None \notin Socket, NEW s \in Socket, KeysBoundsOK, Keyed, Keys!OpenSocket(s)
  PROVE  KeysBoundsOK' /\ Keyed'
  <1>. USE DEF Keys!OpenSocket, Keyed
  <1>1. KeysBoundsOK'
    OBVIOUS
  <1>2. PhoneOK'
    BY DEF PhoneOK
  <1>3. OwnersOK'
    BY DEF PhoneOK, OwnersOK
  <1>4. keysUp'[s] \in Seq(UpFrame(phone.secret))
    BY DEF FramesOK, UpFrame, PhoneOK
  <1>5. FramesOK'
    <2>1. owner'[s].secret = phone.secret /\ keysDown[s] = <<>>
      BY DEF OwnersOK, FramesOK
    <2>2. <<>> \in Seq(DownFrame(phone.secret))
      OBVIOUS
    <2>3. \A r \in Socket \ {s} :
            owner'[r] = owner[r] /\ keysUp'[r] = keysUp[r] /\ server'[r] = server[r]
            /\ side'[r] = side[r]
      BY DEF OwnersOK, FramesOK, ServersOK
    <2>4. DOMAIN keysUp' = Socket /\ DOMAIN keysDown' = Socket /\ keysDown' = keysDown
      BY DEF FramesOK
    <2>5. side'[s] = "open"
      BY DEF OwnersOK
    <2>6. \A r \in Socket \ {s} :
            /\ keysUp[r] \in Seq(UpFrame(owner[r].secret))
            /\ keysDown[r] \in Seq(DownFrame(owner[r].secret))
            /\ side[r] = "unused" => keysDown[r] = <<>> /\ server[r] = "over"
      BY DEF FramesOK
    <2> HIDE DEF Keys!OpenSocket, Keyed
    <2>. QED  BY ONLY <1>4, <2>1, <2>2, <2>3, <2>4, <2>5, <2>6 DEF FramesOK
  <1>6. ServersOK'
    BY DEF ServersOK, OwnersOK
  <1>. QED  BY <1>1, <1>2, <1>3, <1>5, <1>6

LEMMA PhoneReceivesKeyed ==
  ASSUME None \notin Copy, NEW s \in Socket, KeysBoundsOK, Keyed, Keys!PhoneReceives(s)
  PROVE  KeysBoundsOK' /\ Keyed'
  <1>. DEFINE f == Head(keysDown[s])
  <1>. USE DEF Keys!PhoneReceives, Keyed
  <1>1. KeysBoundsOK'
    OBVIOUS
  <1>2. /\ f \in DownFrame(owner[s].secret)
        /\ Tail(keysDown[s]) \in Seq(DownFrame(owner[s].secret))
    BY QueuesHold DEF FramesOK
  <1>3. /\ f.type = "hello-ack" => f.public = Kept
        /\ f.type = "clip" => Keys!Opens(KeyOf(owner[s].secret), f)
    BY <1>2, DownFacts
  <1>4. Keys!Mine(s) => owner[s].secret = phone.secret
    BY DEF Keys!Mine, OwnersOK
  <1>5. \/ phone' = phone
        \/ phone' = [phone EXCEPT !.key = KeyOf(phone.secret)]
        \/ phone' = [phone EXCEPT !.on = FALSE]
    BY <1>3, SameKey DEF Keys!Handled
  <1>6. PhoneOK'
    BY <1>5, ZenonT(60) DEF PhoneOK
  <1>7. OwnersOK'
    BY <1>5, SMTT(60) DEF PhoneOK, OwnersOK
  <1>8. FramesOK'
    BY <1>2 DEF FramesOK
  <1>9. ServersOK'
    BY DEF ServersOK
  <1>10. ~unopened'
    BY <1>3, <1>4, ZenonT(60) DEF Keys!Handled, PhoneOK
  <1>. QED  BY <1>1, <1>6, <1>7, <1>8, <1>9, <1>10

LEMMA ClosesKeyed ==
  ASSUME NEW s \in Socket, KeysBoundsOK, Keyed, Keys!SocketCloses(s)
  PROVE  KeysBoundsOK' /\ Keyed'
  <1>. USE DEF Keys!SocketCloses, Keyed
  <1>1. KeysBoundsOK'
    OBVIOUS
  <1>2. PhoneOK'
    BY DEF PhoneOK
  <1>3. OwnersOK'
    BY DEF PhoneOK, OwnersOK
  <1>4. <<>> \in Seq(DownFrame(owner[s].secret))
    OBVIOUS
  <1>6. FramesOK'
    BY <1>4 DEF FramesOK, OwnersOK
  <1>5. ServersOK'
    BY DEF ServersOK
  <1>. QED  BY <1>1, <1>2, <1>3, <1>5, <1>6

LEMMA PhoneSendsKeyed ==
  ASSUME NEW t \in Copy, KeysBoundsOK, Keyed, Keys!PhoneSends(t)
  PROVE  KeysBoundsOK' /\ Keyed'
  <1>. DEFINE s == phone.socket
              f == Keys!Clip(Keys!Seal(phone.key, t))
  <1>. USE DEF Keys!PhoneSends, Keyed
  <1>1. KeysBoundsOK'
    OBVIOUS
  <1>2. owner[s].secret = phone.secret
    BY DEF OwnersOK
  <1>3. f \in UpFrame(owner[s].secret)
    BY <1>2 DEF PhoneOK, UpFrame, Sealed
  <1>4. Append(keysUp[s], f) \in Seq(UpFrame(owner[s].secret))
    BY <1>3, QueuesHold DEF FramesOK
  <1>5. PhoneOK' /\ OwnersOK' /\ ServersOK'
    BY DEF PhoneOK, OwnersOK, ServersOK
  <1>6. FramesOK'
    BY <1>4 DEF FramesOK
  <1>. QED  BY <1>1, <1>5, <1>6

LEMMA HandshakeKeyed ==
  ASSUME None \notin Copy, NEW s \in Socket, KeysBoundsOK, Keyed, Keys!PCHandshake(s)
  PROVE  KeysBoundsOK' /\ Keyed'
  <1>. DEFINE f == Head(keysUp[s])
              p == owner[s].secret
  <1>. USE DEF Keys!PCHandshake, Keyed
  <1>1. KeysBoundsOK'
    OBVIOUS
  <1>2. f \in UpFrame(p) /\ Tail(keysUp[s]) \in Seq(UpFrame(p))
    BY QueuesHold DEF FramesOK
  <1>3. f.type = "hello" => f.public = p /\ f.nonce \in Nat
    BY <1>2, UpFacts
  <1>4. p \in Ids
    BY DEF OwnersOK
  <1>5. PhoneOK' /\ OwnersOK'
    BY DEF PhoneOK, OwnersOK
  <1>6. side[s] # "unused"
    BY DEF FramesOK
  <1>7. \A g \in {Keys!Error, Keys!HelloAck(pc.secret)} :
          Append(keysDown[s], g) \in Seq(DownFrame(p))
    <2>1. \A g \in {Keys!Error, Keys!HelloAck(pc.secret)} : g \in DownFrame(p)
      BY DEF DownFrame, ServersOK
    <2>. QED  BY <2>1, QueuesHold DEF FramesOK
  <1>8. \/ /\ keysDown' = keysDown
           /\ server' = [server EXCEPT ![s] = "over"]
        \/ \E g \in {Keys!Error, Keys!HelloAck(pc.secret)} :
             /\ keysDown' = [keysDown EXCEPT ![s] = Append(@, g)]
             /\ \E v \in {"over", "serving"} : server' = [server EXCEPT ![s] = v]
    OBVIOUS
  <1>9. FramesOK'
    <2>1. keysUp' = [keysUp EXCEPT ![s] = Tail(@)]
      OBVIOUS
    <2>2. /\ DOMAIN keysDown' = Socket
          /\ keysDown'[s] \in Seq(DownFrame(p))
          /\ \A r \in Socket \ {s} : keysDown'[r] = keysDown[r] /\ server'[r] = server[r]
      BY <1>7, <1>8, ZenonT(60) DEF FramesOK, ServersOK
    <2>. HIDE DEF f, Keys!PCHandshake
    <2>. QED  BY <1>2, <1>6, <2>1, <2>2 DEF FramesOK, Keys!PCHandshake
  <1>10. ServersOK'
    <2>1. CASE f.type # "hello" \/ ~Keys!Authorised(f)
      BY <2>1, ZenonT(60) DEF ServersOK
    <2>2. CASE ~(f.type # "hello" \/ ~Keys!Authorised(f))
      <3>1. session' = [session EXCEPT ![s] = KeyOf(p)]
        BY <2>2, <1>3 DEF ServersOK, KeyOf
      <3>2. pc' \in [secret : {Kept}, known : SUBSET Ids, nonces : SUBSET Nat]
        <4>1. pc' = [pc EXCEPT !.nonces = @ \ {f.nonce},
                               !.known = @ \cup {f.public}]
          BY <2>2
        <4>2. f.public \in Ids
          BY <2>2, <1>3, <1>4
        <4>. HIDE DEF f, Keys!PCHandshake
        <4>. QED  BY <4>1, <4>2 DEF ServersOK
      <3>3. server' = [server EXCEPT ![s] = "serving"]
        BY <2>2
      <3>. QED  BY <3>1, <3>2, <3>3 DEF ServersOK
    <2>. QED  BY <2>1, <2>2
  <1>. QED  BY <1>1, <1>5, <1>9, <1>10

LEMMA PCReceivesKeyed ==
  ASSUME None \notin Copy, NEW s \in Socket, KeysBoundsOK, Keyed, Keys!PCReceives(s)
  PROVE  KeysBoundsOK' /\ Keyed'
  <1>. DEFINE f == Head(keysUp[s])
              p == owner[s].secret
  <1>. USE DEF Keys!PCReceives, Keyed
  <1>1. KeysBoundsOK'
    OBVIOUS
  <1>2. f \in UpFrame(p) /\ Tail(keysUp[s]) \in Seq(UpFrame(p))
    BY QueuesHold DEF FramesOK
  <1>3. f.type = "clip" => Keys!Opens(session[s], f)
    BY <1>2, UpFacts DEF ServersOK
  <1>4. PhoneOK' /\ OwnersOK' /\ ServersOK'
    BY DEF PhoneOK, OwnersOK, ServersOK
  <1>5. FramesOK'
    BY <1>2, <1>3 DEF FramesOK
  <1>. QED  BY <1>1, <1>3, <1>4, <1>5

LEMMA PCSendsKeyed ==
  ASSUME NEW t \in Copy, KeysBoundsOK, Keyed, Keys!PCSends(t)
  PROVE  KeysBoundsOK' /\ Keyed'
  <1>. USE DEF Keys!PCSends, Keyed
  <1>1. KeysBoundsOK'
    OBVIOUS
  <1>2. PhoneOK' /\ OwnersOK' /\ ServersOK'
    BY DEF PhoneOK, OwnersOK, ServersOK
  <1>3. ASSUME NEW s \in Socket, server[s] = "serving"
        PROVE  Append(keysDown[s], Keys!Clip(Keys!Seal(session[s], t)))
                 \in Seq(DownFrame(owner[s].secret))
    <2>1. Keys!Clip(Keys!Seal(session[s], t)) \in DownFrame(owner[s].secret)
      BY <1>3 DEF ServersOK, DownFrame, Sealed
    <2>. QED  BY <2>1, QueuesHold DEF FramesOK
  <1>4. FramesOK'
    BY <1>3 DEF FramesOK
  <1>. QED  BY <1>1, <1>2, <1>4

LEMMA PCEndsKeyed ==
  ASSUME NEW s \in Socket, KeysBoundsOK, Keyed, Keys!PCEnds(s)
  PROVE  KeysBoundsOK' /\ Keyed'
  BY DEF Keys!PCEnds, Keyed, PhoneOK, OwnersOK, FramesOK, ServersOK

LEMMA RestartsKeyed ==
  ASSUME KeysBoundsOK, Keyed, Keys!PCRestarts
  PROVE  KeysBoundsOK' /\ Keyed'
  <1>. USE DEF Keys!PCRestarts, Keys!Restart, Keyed
  <1>1. KeysBoundsOK'
    OBVIOUS
  <1>2. PhoneOK' /\ OwnersOK'
    BY DEF PhoneOK, OwnersOK
  <1>3. FramesOK'
    BY DEF FramesOK
  <1>4. ServersOK'
    BY DEF ServersOK
  <1>. QED  BY <1>1, <1>2, <1>3, <1>4

\* The key is lost only by PCLosesKey, which says so.
LEMMA LossesGrow ==
  ASSUME KeysBoundsOK, Keys!Next, ~Keys!PCLosesKey
  PROVE  keysBounds'.losses = keysBounds.losses /\ KeysBoundsOK'
  <1>1. CASE Keys!Scan \/ Keys!PhoneReset \/ Keys!PCRestarts
    BY <1>1 DEF Keys!Scan, Keys!PhoneReset, Keys!PCRestarts
  <1>2. CASE \E t \in Copy : Keys!PhoneSends(t) \/ Keys!PCSends(t)
    BY <1>2, SMTT(60) DEF Keys!PhoneSends, Keys!PCSends
  <1>3. CASE \E s \in Socket :
               \/ Keys!OpenSocket(s) \/ Keys!PhoneReceives(s) \/ Keys!SocketCloses(s)
               \/ Keys!PCHandshake(s) \/ Keys!PCReceives(s) \/ Keys!PCEnds(s)
    <2>1. UNCHANGED keysBounds
      BY <1>3 DEF Keys!OpenSocket, Keys!PhoneReceives, Keys!SocketCloses, Keys!PCHandshake,
                  Keys!PCReceives, Keys!PCEnds
    <2>. QED  BY <2>1
  <1>. QED  BY <1>1, <1>2, <1>3 DEF Keys!Next

LEMMA NextKeyed ==
  ASSUME None \notin Copy, None \notin Socket
  PROVE  KeysInv /\ [Keys!Next]_(Keys!vars) => KeysInv'
  <1>. SUFFICES ASSUME KeysInv, [Keys!Next]_(Keys!vars) PROVE KeysInv'
    OBVIOUS
  <1>1. CASE UNCHANGED Keys!vars
    BY <1>1 DEF Keys!vars, Keyed, PhoneOK, OwnersOK, FramesOK, ServersOK
  <1>2. CASE Keys!PCLosesKey
    <2>1. keysBounds' = [keysBounds EXCEPT !.restarts = @ + 1, !.losses = @ + 1]
      BY <1>2 DEF Keys!PCLosesKey
    <2>2. KeysBoundsOK
      OBVIOUS
    <2>3. KeysBoundsOK'
      <3>1. keysBounds' = [scans |-> keysBounds.scans, resets |-> keysBounds.resets,
                       restarts |-> keysBounds.restarts + 1,
                       losses |-> keysBounds.losses + 1, clips |-> keysBounds.clips]
        BY ONLY <2>1, <2>2
      <3>. QED  BY ONLY <3>1, <2>2
    <2>4. keysBounds'.losses # 0
      BY ONLY <2>1, <2>2
    <2>. QED  BY <2>3, <2>4
  <1>3. CASE Keys!Next /\ ~Keys!PCLosesKey /\ keysBounds.losses # 0
    BY <1>3, LossesGrow
  <1>4. CASE Keys!Next /\ ~Keys!PCLosesKey /\ keysBounds.losses = 0
    <2>. USE <1>4
    <2>1. CASE Keys!Scan  BY <2>1, ScanKeyed
    <2>2. CASE Keys!PhoneReset  BY <2>2, ResetKeyed
    <2>3. CASE Keys!PCRestarts  BY <2>3, RestartsKeyed
    <2>4. ASSUME NEW t \in Copy, Keys!PhoneSends(t) PROVE KeysInv'
      BY <2>4, PhoneSendsKeyed
    <2>5. ASSUME NEW t \in Copy, Keys!PCSends(t) PROVE KeysInv'
      BY <2>5, PCSendsKeyed
    <2>6. ASSUME NEW s \in Socket, Keys!OpenSocket(s) PROVE KeysInv'
      BY <2>6, OpenKeyed
    <2>7. ASSUME NEW s \in Socket, Keys!PhoneReceives(s) PROVE KeysInv'
      BY <2>7, PhoneReceivesKeyed
    <2>8. ASSUME NEW s \in Socket, Keys!SocketCloses(s) PROVE KeysInv'
      BY <2>8, ClosesKeyed
    <2>9. ASSUME NEW s \in Socket, Keys!PCHandshake(s) PROVE KeysInv'
      BY <2>9, HandshakeKeyed
    <2>10. ASSUME NEW s \in Socket, Keys!PCReceives(s) PROVE KeysInv'
      BY <2>10, PCReceivesKeyed
    <2>11. ASSUME NEW s \in Socket, Keys!PCEnds(s) PROVE KeysInv'
      BY <2>11, PCEndsKeyed
    <2>. QED
      BY <2>1, <2>2, <2>3, <2>4, <2>5, <2>6, <2>7, <2>8, <2>9, <2>10, <2>11
      DEF Keys!Next
  <1>. QED  BY <1>1, <1>2, <1>3, <1>4

\* As long as the PC keeps its secret key, every clip opens: over any number of
\* sockets given up or open at once, pairings, erased phones and restarts
\* (client.ts, server.rs, crypto/index.ts, crypto.rs).
LEMMA KeysAlone == Keys!Spec => []Keys!AllOpen
  <1>1. None \notin Copy /\ None \notin Socket
    BY DesktopPartsAssumption
  <1>2. Keys!Init => KeysInv
    BY <1>1, InitKeyed
  <1>3. KeysInv /\ [Keys!Next]_(Keys!vars) => KeysInv'
    BY <1>1, NextKeyed
  <1>4. KeysInv => Keys!AllOpen
    BY DEF Keys!AllOpen, Keyed
  <1>. QED  BY <1>2, <1>3, <1>4, PTL DEF Keys!Spec

HIDE DEF KeysBoundsOK, KeysInv

------------------------------------------------------------------------------
(* Calls, answers and events on their way *)

\* What is taken from a queue, and what is left.
LEMMA Taken ==
  ASSUME NEW S, NEW q \in Seq(S), q # <<>>
  PROVE  /\ Head(q) \in S /\ Head(q) = q[1] /\ 1 \in DOMAIN q
         /\ Tail(q) \in Seq(S)
         /\ \A k \in DOMAIN Tail(q) : k + 1 \in DOMAIN q /\ Tail(q)[k] = q[k + 1]
         /\ \A k \in DOMAIN q : k # 1 => k - 1 \in DOMAIN Tail(q) /\ q[k] = Tail(q)[k - 1]
<1>1. /\ Len(q) \in Nat \ {0} /\ DOMAIN q = 1 .. Len(q) /\ Head(q) = q[1]
      /\ Tail(q) \in Seq(S) /\ Len(Tail(q)) = Len(q) - 1
      /\ DOMAIN Tail(q) = 1 .. Len(Tail(q))
      /\ \A k \in 1 .. Len(q) - 1 : Tail(q)[k] = q[k + 1]
  BY HeadTailProperties
<1>2. 1 \in DOMAIN q /\ q[1] \in S
  BY <1>1
<1>3. \A k \in DOMAIN Tail(q) : k \in 1 .. Len(q) - 1 /\ k + 1 \in DOMAIN q
  BY <1>1
<1>4. \A k \in DOMAIN q : k # 1 => k - 1 \in DOMAIN Tail(q) /\ (k - 1) + 1 = k
  BY <1>1
<1> QED BY <1>1, <1>2, <1>3, <1>4

\* What is added to a queue comes last.
LEMMA Added ==
  ASSUME NEW S, NEW q \in Seq(S), NEW e \in S
  PROVE  /\ Append(q, e) \in Seq(S)
         /\ DOMAIN Append(q, e) = DOMAIN q \cup {Len(q) + 1}
         /\ Append(q, e)[Len(q) + 1] = e
         /\ \A k \in DOMAIN q : Append(q, e)[k] = q[k] /\ k < Len(q) + 1
<1>1. /\ Append(q, e) \in Seq(S) /\ Len(Append(q, e)) = Len(q) + 1
      /\ DOMAIN q = 1 .. Len(q) /\ DOMAIN Append(q, e) = 1 .. Len(Append(q, e))
      /\ Len(q) \in Nat
      /\ \A k \in 1 .. Len(q) : Append(q, e)[k] = q[k]
      /\ Append(q, e)[Len(q) + 1] = e
  BY AppendProperties
<1> QED BY <1>1

\* The queue has something of A, and what it has last of A is in G.
Closes(q, A, G) ==
  \E k \in DOMAIN q : q[k] \in A \cap G /\ \A j \in DOMAIN q : q[j] \in A => j <= k

Lacks(q, A) == \A k \in DOMAIN q : q[k] \notin A

\* What is added decides if it is of A, and changes nothing if not.
LEMMA ClosesAdded ==
  ASSUME NEW S, NEW q \in Seq(S), NEW e \in S, NEW A, NEW G
  PROVE  /\ e \in A \cap G => Closes(Append(q, e), A, G)
         /\ e \notin A /\ Closes(q, A, G) => Closes(Append(q, e), A, G)
         /\ e \notin A /\ Lacks(q, A) => Lacks(Append(q, e), A)
<1> DEFINE r == Append(q, e)
           m == Len(q) + 1
<1>1. /\ DOMAIN r = DOMAIN q \cup {m} /\ r[m] = e
      /\ \A k \in DOMAIN q : r[k] = q[k] /\ k < m
  BY Added
<1>2. m \in Nat /\ \A k \in DOMAIN q : k \in Nat
  BY LenProperties
<1> HIDE DEF r, m
<1>3. ASSUME e \in A \cap G PROVE Closes(r, A, G)
  <2>1. \A j \in DOMAIN r : j <= m
    BY <1>1, <1>2
  <2> QED BY <1>1, <1>3, <2>1 DEF Closes
<1>4. ASSUME e \notin A, Closes(q, A, G) PROVE Closes(r, A, G)
  <2>1. PICK k \in DOMAIN q : q[k] \in A \cap G /\ \A j \in DOMAIN q : q[j] \in A => j <= k
    BY <1>4 DEF Closes
  <2>2. \A j \in DOMAIN r : r[j] \in A => j <= k
    BY <1>1, <1>4, <2>1
  <2> QED BY <1>1, <2>1, <2>2 DEF Closes
<1>5. ASSUME e \notin A, Lacks(q, A) PROVE Lacks(r, A)
  BY <1>1, <1>5 DEF Lacks
<1> QED BY <1>3, <1>4, <1>5 DEF r

\* What is taken was the last of A, or the last of A is still to come.
LEMMA ClosesTaken ==
  ASSUME NEW S, NEW q \in Seq(S), q # <<>>, NEW A, NEW G
  PROVE  /\ Closes(q, A, G) => \/ Closes(Tail(q), A, G)
                               \/ Lacks(Tail(q), A) /\ Head(q) \in A \cap G
         /\ Lacks(q, A) => Lacks(Tail(q), A) /\ Head(q) \notin A
<1> DEFINE r == Tail(q)
<1>1. /\ Head(q) = q[1] /\ 1 \in DOMAIN q
      /\ \A k \in DOMAIN r : k + 1 \in DOMAIN q /\ r[k] = q[k + 1]
      /\ \A k \in DOMAIN q : k # 1 => k - 1 \in DOMAIN r /\ q[k] = r[k - 1]
      /\ r \in Seq(S)
  BY Taken
<1>2. \A k \in DOMAIN r : k \in Nat /\ k >= 1
  BY <1>1, LenProperties
<1>3. \A k \in DOMAIN q : k \in Nat /\ k >= 1
  BY LenProperties
<1> HIDE DEF r
<1>4. ASSUME Closes(q, A, G)
      PROVE  Closes(r, A, G) \/ (Lacks(r, A) /\ Head(q) \in A \cap G)
  <2>1. PICK k \in DOMAIN q : q[k] \in A \cap G /\ \A j \in DOMAIN q : q[j] \in A => j <= k
    BY <1>4 DEF Closes
  <2>2. CASE k = 1
    <3>1. ASSUME NEW j \in DOMAIN r, r[j] \in A PROVE FALSE
      <4>1. j + 1 \in DOMAIN q /\ q[j + 1] \in A
        BY <1>1, <3>1
      <4>2. j + 1 <= 1
        BY <2>1, <2>2, <4>1
      <4> QED BY <1>2, <4>2
    <3> QED BY <1>1, <2>1, <2>2, <3>1 DEF Lacks
  <2>3. CASE k # 1
    <3>1. k - 1 \in DOMAIN r /\ r[k - 1] \in A \cap G
      BY <1>1, <2>1, <2>3
    <3>2. ASSUME NEW j \in DOMAIN r, r[j] \in A PROVE j <= k - 1
      <4>1. j + 1 \in DOMAIN q /\ q[j + 1] \in A
        BY <1>1, <3>2
      <4>2. j + 1 <= k
        BY <2>1, <4>1
      <4> QED BY <1>2, <1>3, <4>2
    <3> QED BY <3>1, <3>2 DEF Closes
  <2> QED BY <2>2, <2>3
<1>5. ASSUME Lacks(q, A) PROVE Lacks(r, A) /\ Head(q) \notin A
  BY <1>1, <1>5 DEF Lacks
<1> QED BY <1>4, <1>5 DEF r

------------------------------------------------------------------------------
(* The Devices tab *)

DevicesCalls == [do : {"create_pairing", "get_settings", "unpair_device", "listen"},
                 phone : SUBSET Guest]
DevicesAnswers == [to : {"create_pairing", "get_settings", "unpair_device"}, code : Nat,
                   view : SUBSET Guest]
DevicesEvents == [name : {"device_paired", "device_unpaired"}, phone : Guest]

DevicesTyping ==
  /\ Devices!TypeOK
  /\ devicesCalls \in Seq(DevicesCalls) /\ devicesAnswers \in Seq(DevicesAnswers)
  /\ devicesEvents \in Seq(DevicesEvents)

Asked(do) == \E k \in DOMAIN devicesCalls : devicesCalls[k].do = do
Announced == \E k \in DOMAIN devicesEvents : devicesEvents[k].name = "device_paired"
NewCodes == {k \in DOMAIN devicesAnswers : devicesAnswers[k].to = "create_pairing"}

\* The codes on their way to the window have been claimed by nobody, since phones have
\* scanned none but those it has shown, which came before.
CodesInOrder ==
  /\ \A k \in NewCodes : devicesAnswers[k].code \in unclaimed /\ code < devicesAnswers[k].code
  /\ \A j, k \in NewCodes : j < k => devicesAnswers[j].code < devicesAnswers[k].code
  /\ \A p \in Guest : scanned[p] <= code

\* The code on the pairing screen has been claimed by nobody, or the screen is about to
\* have another or to close.
CodeUnclaimed ==
  phase = "scanning" /\ code # 0 =>
    \/ code \in unclaimed
    \/ Asked("create_pairing") \/ NewCodes # {} \/ Announced \/ devicesMissed

Lists == {a \in DevicesAnswers : a.to = "get_settings"}
Current == {a \in DevicesAnswers : a.view = devicesPaired}

\* The list is about to be read, or the last that was read is the present one.
ListFollows ==
  \/ devicesMissed \/ devicesEvents # <<>> \/ Asked("get_settings")
  \/ Closes(devicesAnswers, Lists, Current)
  \/ Lacks(devicesAnswers, Lists) /\ devicesView = devicesPaired

DevicesInv == DevicesTyping /\ CodesInOrder /\ CodeUnclaimed /\ ListFollows

\* What is asked for is asked for until it is taken, and a call that is added counts.
LEMMA AskedAdded ==
  ASSUME devicesCalls \in Seq(DevicesCalls), NEW c \in DevicesCalls,
         devicesCalls' = Append(devicesCalls, c)
  PROVE  /\ devicesCalls' \in Seq(DevicesCalls)
         /\ \A do \in {"create_pairing", "get_settings"} : Asked(do) \/ c.do = do => Asked(do)'
<1>1. /\ devicesCalls' \in Seq(DevicesCalls)
      /\ DOMAIN devicesCalls' = DOMAIN devicesCalls \cup {Len(devicesCalls) + 1}
      /\ devicesCalls'[Len(devicesCalls) + 1] = c
      /\ \A k \in DOMAIN devicesCalls : devicesCalls'[k] = devicesCalls[k]
  BY Added
<1> QED BY <1>1 DEF Asked

LEMMA AskedTaken ==
  ASSUME devicesCalls \in Seq(DevicesCalls), devicesCalls # <<>>,
         devicesCalls' = Tail(devicesCalls)
  PROVE  /\ devicesCalls' \in Seq(DevicesCalls) /\ Head(devicesCalls) \in DevicesCalls
         /\ \A do : Asked(do) => Asked(do)' \/ Head(devicesCalls).do = do
<1>1. /\ Head(devicesCalls) \in DevicesCalls /\ Head(devicesCalls) = devicesCalls[1]
      /\ devicesCalls' \in Seq(DevicesCalls)
      /\ \A k \in DOMAIN devicesCalls : k # 1 =>
           k - 1 \in DOMAIN devicesCalls' /\ devicesCalls[k] = devicesCalls'[k - 1]
  BY Taken
<1> QED BY <1>1 DEF Asked

\* A call of the window reaches the queue, if an effect makes one at all.
LEMMA RefreshAsks ==
  ASSUME devicesCalls \in Seq(DevicesCalls),
         devicesCalls' = Append(devicesCalls, Devices!Create) \/ UNCHANGED devicesCalls
  PROVE  /\ devicesCalls' \in Seq(DevicesCalls)
         /\ \A do \in {"create_pairing", "get_settings"} : Asked(do) => Asked(do)'
<1>1. Devices!Create \in DevicesCalls
  BY DEF Devices!Create, DevicesCalls
<1>2. CASE devicesCalls' = Append(devicesCalls, Devices!Create)
  BY <1>1, <1>2, AskedAdded
<1>3. CASE UNCHANGED devicesCalls
  BY <1>3 DEF Asked
<1> QED BY <1>2, <1>3

\* The variables of the tab keep their types.
LEMMA DevicesTyped ==
  ASSUME TTL \in Nat, DevicesTyping, CodesInOrder, [Devices!Next]_(Devices!vars)
  PROVE  DevicesTyping'
<1> USE DEF Devices!backend, Devices!window, Devices!link, Devices!rest, Devices!Codes
<1>0. /\ clock \in Nat /\ now \in 0 .. clock /\ expiry \in Seq(Nat) /\ unclaimed \subseteq DOMAIN expiry
      /\ devicesPaired \subseteq Guest /\ devicesView \subseteq Guest /\ devicesConfirm \subseteq Guest
      /\ code \in DOMAIN expiry \cup {0} /\ phase \in {"idle", "scanning", "done"}
      /\ tab \in {"devices", "other"} /\ devicesTimers \in Nat
      /\ scanned \in [Guest -> DOMAIN expiry \cup {0}]
      /\ devicesListening \in BOOLEAN /\ devicesMissed \in BOOLEAN
      /\ devicesCalls \in Seq(DevicesCalls) /\ devicesAnswers \in Seq(DevicesAnswers)
      /\ devicesEvents \in Seq(DevicesEvents)
  BY DEF DevicesTyping, Devices!TypeOK
<1>a. /\ devicesCalls # <<>> =>
           Tail(devicesCalls) \in Seq(DevicesCalls) /\ Head(devicesCalls) \in DevicesCalls
      /\ devicesAnswers # <<>> =>
           /\ Tail(devicesAnswers) \in Seq(DevicesAnswers)
           /\ Head(devicesAnswers) \in DevicesAnswers
           /\ \E k \in DOMAIN devicesAnswers : Head(devicesAnswers) = devicesAnswers[k]
      /\ devicesEvents # <<>> => Tail(devicesEvents) \in Seq(DevicesEvents)
  BY <1>0, Taken
<1>b. /\ \A c \in DevicesCalls : Append(devicesCalls, c) \in Seq(DevicesCalls)
      /\ \A a \in DevicesAnswers : Append(devicesAnswers, a) \in Seq(DevicesAnswers)
      /\ \A e \in DevicesEvents : Append(devicesEvents, e) \in Seq(DevicesEvents)
  BY <1>0, Added
<1>c. /\ Devices!Create \in DevicesCalls /\ Devices!Read \in DevicesCalls
      /\ \A p \in Guest : Devices!Unpair(p) \in DevicesCalls
      /\ \A p \in Guest : Devices!Paired(p) \in DevicesEvents /\ Devices!Unpaired(p) \in DevicesEvents
  BY DEF Devices!Create, Devices!Read, Devices!Unpair, Devices!Paired, Devices!Unpaired,
         DevicesCalls, DevicesEvents
<1>d. ASSUME NEW e \in DevicesEvents, Devices!Emit(e)
      PROVE  devicesEvents' \in Seq(DevicesEvents) /\ devicesMissed' \in BOOLEAN
  BY <1>0, <1>b, <1>d DEF Devices!Emit
<1>1. CASE Devices!RunCreate
  <2>1. /\ expiry' \in Seq(Nat) /\ DOMAIN expiry \subseteq DOMAIN expiry'
        /\ Len(expiry) + 1 \in DOMAIN expiry' /\ Len(expiry) + 1 \in Nat
    <3>1. expiry' = Append(expiry, clock + TTL) /\ clock + TTL \in Nat
      BY <1>0, <1>1 DEF Devices!RunCreate
    <3> QED BY <1>0, <3>1, Added, LenProperties
  <2>2. [to |-> "create_pairing", code |-> Len(expiry) + 1, view |-> {}] \in DevicesAnswers
    BY <2>1 DEF DevicesAnswers
  <2>3. devicesCalls' \in Seq(DevicesCalls) /\ devicesAnswers' \in Seq(DevicesAnswers)
    BY <1>1, <1>a, <1>b, <2>2 DEF Devices!RunCreate
  <2>4. unclaimed' \subseteq DOMAIN expiry'
    BY <1>0, <1>1, <2>1 DEF Devices!RunCreate
  <2>5. scanned' \in [Guest -> DOMAIN expiry' \cup {0}] /\ code' \in DOMAIN expiry' \cup {0}
    BY <1>0, <1>1, <2>1 DEF Devices!RunCreate
  <2> QED BY <1>0, <1>1, <2>1, <2>3, <2>4, <2>5 DEF Devices!RunCreate, DevicesTyping,
             Devices!TypeOK
<1>2. CASE Devices!RunRead
  <2>1. [to |-> "get_settings", code |-> 0, view |-> devicesPaired] \in DevicesAnswers
    BY <1>0 DEF DevicesAnswers
  <2>2. devicesCalls' \in Seq(DevicesCalls) /\ devicesAnswers' \in Seq(DevicesAnswers)
    BY <1>2, <1>a, <1>b, <2>1 DEF Devices!RunRead
  <2> QED BY <1>0, <1>2, <2>2 DEF Devices!RunRead, DevicesTyping, Devices!TypeOK
<1>3. CASE Devices!RunListen
  <2>1. devicesCalls' \in Seq(DevicesCalls)
    BY <1>3, <1>a DEF Devices!RunListen
  <2> QED BY <1>0, <1>3, <2>1 DEF Devices!RunListen, DevicesTyping, Devices!TypeOK
<1>4. CASE Devices!RunUnpair
  <2>1. [to |-> "unpair_device", code |-> 0, view |-> {}] \in DevicesAnswers
    BY DEF DevicesAnswers
  <2>2. devicesCalls' \in Seq(DevicesCalls) /\ Head(devicesCalls).phone \subseteq Guest
    BY <1>4, <1>a DEF Devices!RunUnpair, DevicesCalls
  <2>3. PICK p \in Head(devicesCalls).phone :
          /\ devicesPaired' = devicesPaired \ {p}
          /\ \/ /\ Devices!Emit(Devices!Unpaired(p))
                /\ devicesAnswers' = Append(devicesAnswers,
                     [to |-> "unpair_device", code |-> 0, view |-> {}])
             \/ devicesMissed' = TRUE /\ UNCHANGED <<devicesEvents, devicesAnswers>>
    BY <1>4 DEF Devices!RunUnpair
  <2>4. /\ devicesPaired' \subseteq Guest /\ devicesAnswers' \in Seq(DevicesAnswers)
        /\ devicesEvents' \in Seq(DevicesEvents) /\ devicesMissed' \in BOOLEAN
    BY <1>0, <1>b, <1>c, <1>d, <2>1, <2>2, <2>3
  <2> QED BY <1>0, <1>4, <2>2, <2>4 DEF Devices!RunUnpair, DevicesTyping, Devices!TypeOK
<1>5. ASSUME NEW p \in Guest, Devices!Handshake(p) PROVE DevicesTyping'
  <2>1. devicesEvents' \in Seq(DevicesEvents) /\ devicesMissed' \in BOOLEAN
    BY <1>5, <1>c, <1>d DEF Devices!Handshake
  <2>2. unclaimed' \subseteq DOMAIN expiry /\ devicesPaired' \subseteq Guest
    BY <1>0, <1>5 DEF Devices!Handshake
  <2> QED BY <1>0, <1>5, <2>1, <2>2 DEF Devices!Handshake, DevicesTyping, Devices!TypeOK
<1>6. CASE Devices!ShowCode
  <2>1. code' \in DOMAIN expiry
    <3>1. /\ devicesAnswers # <<>> /\ Head(devicesAnswers).to = "create_pairing"
          /\ code' = Head(devicesAnswers).code
      BY <1>6 DEF Devices!ShowCode
    <3>2. PICK k \in DOMAIN devicesAnswers : Head(devicesAnswers) = devicesAnswers[k]
      BY <1>a, <3>1
    <3> QED BY <1>0, <3>1, <3>2 DEF CodesInOrder, NewCodes
  <2>2. devicesCalls' \in Seq(DevicesCalls) /\ devicesAnswers' \in Seq(DevicesAnswers)
    BY <1>0, <1>6, <1>a, <1>b, <1>c DEF Devices!ShowCode, Devices!Refreshes,
       Devices!RefreshPairing
  <2> QED BY <1>0, <1>6, <2>1, <2>2 DEF Devices!ShowCode, DevicesTyping, Devices!TypeOK
<1>7. CASE Devices!ShowSettings
  <2>1. devicesAnswers' \in Seq(DevicesAnswers) /\ devicesView' \subseteq Guest
    BY <1>7, <1>a DEF Devices!ShowSettings, DevicesAnswers
  <2> QED BY <1>0, <1>7, <2>1 DEF Devices!ShowSettings, DevicesTyping, Devices!TypeOK
<1>8. CASE Devices!Disconnected
  <2>1. devicesAnswers' \in Seq(DevicesAnswers) /\ devicesCalls' \in Seq(DevicesCalls)
    BY <1>8, <1>a, <1>b, <1>c DEF Devices!Disconnected
  <2> QED BY <1>0, <1>8, <2>1 DEF Devices!Disconnected, DevicesTyping, Devices!TypeOK
<1>9. CASE Devices!OnPaired
  <2>1. devicesEvents' \in Seq(DevicesEvents) /\ devicesCalls' \in Seq(DevicesCalls)
    BY <1>9, <1>a, <1>b, <1>c DEF Devices!OnPaired
  <2> QED BY <1>0, <1>9, <2>1 DEF Devices!OnPaired, DevicesTyping, Devices!TypeOK
<1>10. CASE Devices!OnUnpaired
  <2>1. devicesEvents' \in Seq(DevicesEvents) /\ devicesCalls' \in Seq(DevicesCalls)
    BY <1>10, <1>a, <1>b, <1>c DEF Devices!OnUnpaired
  <2> QED BY <1>0, <1>10, <2>1 DEF Devices!OnUnpaired, DevicesTyping, Devices!TypeOK
<1>11. CASE Devices!DoneOver
  BY <1>0, <1>11 DEF Devices!DoneOver, DevicesTyping, Devices!TypeOK
<1>12. CASE Devices!Tick
  <2>1. devicesCalls' \in Seq(DevicesCalls)
    BY <1>0, <1>12, <1>b, <1>c DEF Devices!Tick, Devices!Refreshes, Devices!RefreshPairing
  <2>2. now' = clock /\ clock' = clock
    BY <1>12 DEF Devices!Tick
  <2> QED BY <1>0, <1>12, <2>1, <2>2 DEF Devices!Tick, DevicesTyping, Devices!TypeOK
<1>13. CASE Devices!OpenPairingScreen \/ Devices!RefreshPressed
  <2>1. devicesCalls' \in Seq(DevicesCalls)
    BY <1>0, <1>13, <1>b, <1>c
       DEF Devices!OpenPairingScreen, Devices!RefreshPressed, Devices!RefreshPairing
  <2> QED BY <1>0, <1>13, <2>1
          DEF Devices!OpenPairingScreen, Devices!RefreshPressed, DevicesTyping, Devices!TypeOK
<1>14. CASE Devices!ClosePairingScreen
  BY <1>0, <1>14 DEF Devices!ClosePairingScreen, DevicesTyping, Devices!TypeOK
<1>15. ASSUME NEW t \in {"devices", "other"}, Devices!SetTab(t) PROVE DevicesTyping'
  BY <1>0, <1>15 DEF Devices!SetTab, DevicesTyping, Devices!TypeOK
<1>16. ASSUME NEW p \in Guest, Devices!ConfirmUnpair(p) PROVE DevicesTyping'
  BY <1>0, <1>16 DEF Devices!ConfirmUnpair, DevicesTyping, Devices!TypeOK
<1>17. CASE Devices!DoUnpairDevice
  <2>1. devicesCalls' \in Seq(DevicesCalls) /\ devicesConfirm' = {}
    BY <1>0, <1>17, <1>b, <1>c DEF Devices!DoUnpairDevice
  <2> QED BY <1>0, <1>17, <2>1 DEF Devices!DoUnpairDevice, DevicesTyping, Devices!TypeOK
<1>18. ASSUME NEW p \in Guest, Devices!Scan(p) PROVE DevicesTyping'
  BY <1>0, <1>18 DEF Devices!Scan, DevicesTyping, Devices!TypeOK
<1>19. CASE Devices!ClockTick
  <2>1. clock' \in Nat /\ now' \in 0 .. clock'
    BY <1>0, <1>19 DEF Devices!ClockTick
  <2> QED BY <1>0, <1>19, <2>1 DEF Devices!ClockTick, DevicesTyping, Devices!TypeOK
<1>20. CASE UNCHANGED Devices!vars
  BY <1>0, <1>20 DEF Devices!vars, DevicesTyping, Devices!TypeOK
<1> QED BY <1>1, <1>2, <1>3, <1>4, <1>5, <1>6, <1>7, <1>8, <1>9, <1>10, <1>11, <1>12, <1>13,
           <1>14,
           <1>15, <1>16, <1>17, <1>18, <1>19, <1>20 DEF Devices!Next

\* An answer that is taken leaves the others in their order.
LEMMA CodesTaken ==
  ASSUME DevicesTyping, devicesAnswers # <<>>, devicesAnswers' = Tail(devicesAnswers)
  PROVE  /\ \A k \in NewCodes' : /\ k + 1 \in NewCodes /\ k \in Nat /\ k + 1 > 1
                                 /\ devicesAnswers'[k] = devicesAnswers[k + 1]
         /\ Head(devicesAnswers) = devicesAnswers[1]
         /\ 1 \in NewCodes <=> Head(devicesAnswers).to = "create_pairing"
         /\ NewCodes # {} => NewCodes' # {} \/ Head(devicesAnswers).to = "create_pairing"
<1>1. devicesAnswers \in Seq(DevicesAnswers)
  BY DEF DevicesTyping
<1>2. /\ Head(devicesAnswers) = devicesAnswers[1] /\ 1 \in DOMAIN devicesAnswers
      /\ devicesAnswers' \in Seq(DevicesAnswers)
      /\ \A k \in DOMAIN devicesAnswers' :
           k + 1 \in DOMAIN devicesAnswers /\ devicesAnswers'[k] = devicesAnswers[k + 1]
      /\ \A k \in DOMAIN devicesAnswers : k # 1 =>
           k - 1 \in DOMAIN devicesAnswers' /\ devicesAnswers[k] = devicesAnswers'[k - 1]
  BY <1>1, Taken
<1>3. \A k \in DOMAIN devicesAnswers' : k \in Nat /\ k + 1 > 1
  BY <1>2, LenProperties
<1>4. \A k \in NewCodes' : k \in DOMAIN devicesAnswers' /\ k + 1 \in NewCodes
  BY <1>2 DEF NewCodes
<1>5. ASSUME NEW k \in NewCodes, Head(devicesAnswers).to # "create_pairing" PROVE NewCodes' # {}
  BY <1>2, <1>5, ZenonT(60) DEF NewCodes
<1>6. 1 \in NewCodes <=> Head(devicesAnswers).to = "create_pairing"
  BY <1>2 DEF NewCodes
<1> QED BY <1>2, <1>3, <1>4, <1>5, <1>6

\* What comes to the window keeps its order, and no code on its way is claimed.
LEMMA CodesKept ==
  ASSUME DevicesTyping, CodesInOrder, [Devices!Next]_(Devices!vars)
  PROVE  CodesInOrder'
<1> USE DEF Devices!backend, Devices!window, Devices!link, Devices!rest, Devices!Codes
<1>0. /\ expiry \in Seq(Nat) /\ unclaimed \subseteq DOMAIN expiry
      /\ code \in DOMAIN expiry \cup {0} /\ scanned \in [Guest -> DOMAIN expiry \cup {0}]
      /\ devicesAnswers \in Seq(DevicesAnswers)
  BY DEF DevicesTyping, Devices!TypeOK
<1>1. /\ Len(expiry) \in Nat /\ DOMAIN expiry = 1 .. Len(expiry) /\ code \in Nat
      /\ \A c \in unclaimed : c \in 1 .. Len(expiry)
      /\ \A p \in Guest : scanned[p] \in Nat
  BY <1>0, LenProperties, SMTT(60)
<1>2. ASSUME UNCHANGED <<devicesAnswers, unclaimed, code, scanned>> PROVE CodesInOrder'
  BY <1>2 DEF CodesInOrder, NewCodes
<1>3. CASE Devices!RunCreate
  <2> DEFINE m == Len(devicesAnswers) + 1
             n == Len(expiry) + 1
             a == [to |-> "create_pairing", code |-> n, view |-> {}]
  <2>1. a \in DevicesAnswers /\ a.code = n /\ n \in Nat
    BY <1>1 DEF DevicesAnswers
  <2>2. /\ DOMAIN devicesAnswers' = DOMAIN devicesAnswers \cup {m}
        /\ devicesAnswers'[m] = a
        /\ \A k \in DOMAIN devicesAnswers : devicesAnswers'[k] = devicesAnswers[k] /\ k < m
        /\ unclaimed' = unclaimed \cup {n} /\ UNCHANGED <<code, scanned>>
    <3>1. devicesAnswers' = Append(devicesAnswers, a)
      BY <1>3 DEF Devices!RunCreate
    <3>2. unclaimed' = unclaimed \cup {n} /\ UNCHANGED <<code, scanned>>
      BY <1>3 DEF Devices!RunCreate
    <3> HIDE DEF a
    <3> QED BY <1>0, <2>1, <3>1, <3>2, Added
  <2>3. code < n /\ \A c \in unclaimed : c < n
    BY <1>0, <1>1
  <2>4. /\ m \in Nat /\ \A k \in DOMAIN devicesAnswers : k \in Nat
    BY <1>0, LenProperties
  <2> HIDE DEF a, m, n
  <2>5. \A k \in NewCodes' : k \in NewCodes \/ k = m
    BY <2>2 DEF NewCodes
  <2>6. ASSUME NEW k \in NewCodes'
        PROVE  devicesAnswers'[k].code \in unclaimed' /\ code' < devicesAnswers'[k].code
    BY <2>1, <2>2, <2>3, <2>5 DEF CodesInOrder, NewCodes
  <2>7. ASSUME NEW j \in NewCodes', NEW k \in NewCodes', j < k
        PROVE  devicesAnswers'[j].code < devicesAnswers'[k].code
    <3>1. j \in NewCodes
      BY <2>2, <2>4, <2>5, <2>7 DEF NewCodes
    <3>2. devicesAnswers'[j] = devicesAnswers[j] /\ devicesAnswers[j].code \in unclaimed
      BY <2>2, <3>1 DEF NewCodes, CodesInOrder
    <3>3. CASE k = m
      BY <2>1, <2>2, <2>3, <3>2, <3>3
    <3>4. CASE k # m
      BY <2>2, <2>5, <2>7, <3>1, <3>4 DEF NewCodes, CodesInOrder
    <3> QED BY <3>3, <3>4
  <2>8. \A p \in Guest : scanned'[p] <= code'
    BY <2>2 DEF CodesInOrder
  <2> QED BY <2>6, <2>7, <2>8 DEF CodesInOrder
<1>4. ASSUME NEW a \in DevicesAnswers, a.to # "create_pairing",
             devicesAnswers' = Append(devicesAnswers, a), UNCHANGED <<unclaimed, code, scanned>>
      PROVE  CodesInOrder'
  <2>1. /\ DOMAIN devicesAnswers' = DOMAIN devicesAnswers \cup {Len(devicesAnswers) + 1}
        /\ devicesAnswers'[Len(devicesAnswers) + 1] = a
        /\ \A k \in DOMAIN devicesAnswers : devicesAnswers'[k] = devicesAnswers[k]
    BY <1>0, <1>4, Added
  <2>2. NewCodes' = NewCodes /\ \A k \in NewCodes : devicesAnswers'[k] = devicesAnswers[k]
    BY <1>4, <2>1 DEF NewCodes
  <2> QED BY <1>4, <2>2 DEF CodesInOrder
<1>5. CASE Devices!RunRead
  <2>1. [to |-> "get_settings", code |-> 0, view |-> devicesPaired] \in DevicesAnswers
    BY DEF DevicesAnswers, DevicesTyping, Devices!TypeOK
  <2> QED BY <1>4, <1>5, <2>1 DEF Devices!RunRead
<1>6. CASE Devices!RunUnpair
  <2>1. [to |-> "unpair_device", code |-> 0, view |-> {}] \in DevicesAnswers
    BY DEF DevicesAnswers
  <2> QED BY <1>2, <1>4, <1>6, <2>1 DEF Devices!RunUnpair
<1>7. ASSUME NEW p \in Guest, Devices!Handshake(p) PROVE CodesInOrder'
  <2>1. /\ unclaimed' = unclaimed \ {scanned[p]} \/ unclaimed' = unclaimed
        /\ UNCHANGED <<devicesAnswers, code, scanned>>
    BY <1>7 DEF Devices!Handshake
  <2>2. \A k \in NewCodes : devicesAnswers[k].code \in unclaimed'
    <3> SUFFICES ASSUME NEW k \in NewCodes PROVE devicesAnswers[k].code \in unclaimed'
      OBVIOUS
    <3>1. /\ devicesAnswers[k].code \in unclaimed /\ code < devicesAnswers[k].code
          /\ scanned[p] <= code
      BY DEF CodesInOrder
    <3>2. devicesAnswers[k].code # scanned[p]
      BY <1>1, <3>1
    <3> QED BY <2>1, <3>1, <3>2
  <2> QED BY <2>1, <2>2 DEF CodesInOrder, NewCodes
<1>8. CASE Devices!ShowCode
  <2>1. /\ devicesAnswers # <<>> /\ devicesAnswers' = Tail(devicesAnswers)
        /\ Head(devicesAnswers).to = "create_pairing" /\ code' = Head(devicesAnswers).code
        /\ UNCHANGED <<unclaimed, scanned>>
    BY <1>8 DEF Devices!ShowCode
  <2>2. /\ \A k \in NewCodes' : /\ k + 1 \in NewCodes /\ k \in Nat /\ k + 1 > 1
                                 /\ devicesAnswers'[k] = devicesAnswers[k + 1]
        /\ code' = devicesAnswers[1].code /\ 1 \in NewCodes
    BY <2>1, CodesTaken
  <2>3. code < code' /\ code' \in unclaimed
    BY <2>2 DEF CodesInOrder
  <2>4. ASSUME NEW k \in NewCodes'
        PROVE  devicesAnswers'[k].code \in unclaimed' /\ code' < devicesAnswers'[k].code
    BY <2>1, <2>2, <2>4 DEF CodesInOrder
  <2>5. ASSUME NEW j \in NewCodes', NEW k \in NewCodes', j < k
        PROVE  devicesAnswers'[j].code < devicesAnswers'[k].code
    <3>1. j + 1 < k + 1
      BY <2>2, <2>5
    <3> QED BY <2>2, <3>1 DEF CodesInOrder
  <2>6. \A p \in Guest : scanned'[p] <= code'
    <3> SUFFICES ASSUME NEW p \in Guest PROVE scanned'[p] <= code'
      OBVIOUS
    <3>1. scanned[p] <= code /\ scanned[p] \in Nat /\ code \in Nat /\ code' \in Nat
      BY <1>1, <2>3 DEF CodesInOrder
    <3> QED BY <2>1, <2>3, <3>1
  <2> QED BY <2>4, <2>5, <2>6 DEF CodesInOrder
<1>9. CASE Devices!ShowSettings \/ Devices!Disconnected
  <2>1. /\ devicesAnswers # <<>> /\ devicesAnswers' = Tail(devicesAnswers)
        /\ UNCHANGED <<unclaimed, scanned, code>>
    BY <1>9 DEF Devices!ShowSettings, Devices!Disconnected
  <2>2. \A k \in NewCodes' : /\ k + 1 \in NewCodes /\ k \in Nat
                               /\ devicesAnswers'[k] = devicesAnswers[k + 1]
    BY <2>1, CodesTaken
  <2>3. ASSUME NEW j \in NewCodes', NEW k \in NewCodes', j < k
        PROVE  devicesAnswers'[j].code < devicesAnswers'[k].code
    <3>1. j + 1 < k + 1
      BY <2>2, <2>3
    <3> QED BY <2>2, <3>1 DEF CodesInOrder
  <2> QED BY <2>1, <2>2, <2>3 DEF CodesInOrder
<1>10. ASSUME NEW p \in Guest, Devices!Scan(p) PROVE CodesInOrder'
  <2>1. /\ scanned' = [scanned EXCEPT ![p] = code]
        /\ UNCHANGED <<devicesAnswers, unclaimed, code>>
    BY <1>10 DEF Devices!Scan
  <2>2. \A q \in Guest : scanned'[q] <= code'
    BY <1>0, <1>1, <2>1 DEF CodesInOrder
  <2> QED BY <2>1, <2>2 DEF CodesInOrder, NewCodes
<1>11. CASE \/ Devices!RunListen \/ Devices!OnPaired \/ Devices!OnUnpaired \/ Devices!DoneOver
            \/ Devices!Tick \/ Devices!OpenPairingScreen \/ Devices!ClosePairingScreen
            \/ Devices!RefreshPressed \/ Devices!DoUnpairDevice \/ Devices!ClockTick
            \/ UNCHANGED Devices!vars
  <2>1. UNCHANGED <<devicesAnswers, unclaimed, code, scanned>>
    BY <1>11 DEF Devices!RunListen, Devices!OnPaired, Devices!OnUnpaired, Devices!DoneOver,
                 Devices!Tick, Devices!OpenPairingScreen, Devices!ClosePairingScreen,
                 Devices!RefreshPressed, Devices!DoUnpairDevice, Devices!ClockTick, Devices!vars
  <2> QED BY <1>2, <2>1
<1>12. ASSUME NEW t, Devices!SetTab(t) PROVE CodesInOrder'
  BY <1>2, <1>12 DEF Devices!SetTab
<1>13. ASSUME NEW p \in Guest, Devices!ConfirmUnpair(p) PROVE CodesInOrder'
  BY <1>2, <1>13 DEF Devices!ConfirmUnpair
<1> QED BY <1>3, <1>5, <1>6, <1>7, <1>8, <1>9, <1>10, <1>11, <1>12, <1>13 DEF Devices!Next

LEMMA CodeStays ==
  ASSUME CodeUnclaimed, phase' = "scanning" => phase = "scanning", code' = code,
         unclaimed' = unclaimed, Asked("create_pairing") => Asked("create_pairing")',
         NewCodes # {} => NewCodes' # {}, Announced => Announced', devicesMissed => devicesMissed'
  PROVE  CodeUnclaimed'
BY DEF CodeUnclaimed

\* An answer that is added leaves those that are there.
LEMMA CodesAdded ==
  ASSUME DevicesTyping, NEW a \in DevicesAnswers, devicesAnswers' = Append(devicesAnswers, a)
  PROVE  /\ NewCodes # {} => NewCodes' # {}
         /\ a.to = "create_pairing" => NewCodes' # {}
<1>1. /\ DOMAIN devicesAnswers' = DOMAIN devicesAnswers \cup {Len(devicesAnswers) + 1}
      /\ devicesAnswers'[Len(devicesAnswers) + 1] = a
      /\ \A k \in DOMAIN devicesAnswers : devicesAnswers'[k] = devicesAnswers[k]
  BY Added DEF DevicesTyping
<1> QED BY <1>1 DEF NewCodes

\* An event reaches the window, unless nobody listens.
LEMMA EventsAdded ==
  ASSUME DevicesTyping, NEW e \in DevicesEvents, Devices!Emit(e)
  PROVE  /\ devicesMissed => devicesMissed'
         /\ devicesMissed' \/ devicesEvents' # <<>>
         /\ Announced => Announced'
         /\ e.name = "device_paired" => devicesMissed' \/ Announced'
<1>1. CASE devicesListening
  <2>1. devicesEvents \in Seq(DevicesEvents) /\ devicesEvents' = Append(devicesEvents, e)
        /\ UNCHANGED devicesMissed
    BY <1>1 DEF DevicesTyping, Devices!Emit
  <2>2. /\ DOMAIN devicesEvents' = DOMAIN devicesEvents \cup {Len(devicesEvents) + 1}
        /\ devicesEvents'[Len(devicesEvents) + 1] = e
        /\ \A k \in DOMAIN devicesEvents : devicesEvents'[k] = devicesEvents[k]
    BY <2>1, Added
  <2>3. devicesEvents' # <<>>
    BY <2>1
  <2> QED BY <2>1, <2>2, <2>3 DEF Announced
<1>2. CASE ~devicesListening
  BY <1>2 DEF Devices!Emit, Announced
<1> QED BY <1>1, <1>2

\* The code on the pairing screen works, or the screen is about to change.
LEMMA CodeKept ==
  ASSUME DevicesTyping, CodesInOrder, CodeUnclaimed, [Devices!Next]_(Devices!vars)
  PROVE  CodeUnclaimed'
<1> USE DEF Devices!backend, Devices!window, Devices!link, Devices!rest
<1>0. /\ devicesCalls \in Seq(DevicesCalls) /\ devicesAnswers \in Seq(DevicesAnswers)
      /\ devicesEvents \in Seq(DevicesEvents)
  BY DEF DevicesTyping
<1>1. CASE Devices!RunCreate
  <2> DEFINE a == [to |-> "create_pairing", code |-> Len(expiry) + 1, view |-> {}]
  <2>1. a \in DevicesAnswers /\ a.to = "create_pairing"
    <3>1. Len(expiry) + 1 \in Nat
      BY LenProperties DEF DevicesTyping, Devices!TypeOK
    <3> QED BY <3>1 DEF DevicesAnswers
  <2>2. devicesAnswers' = Append(devicesAnswers, a)
    BY <1>1 DEF Devices!RunCreate
  <2> HIDE DEF a
  <2> QED BY <2>1, <2>2, CodesAdded DEF CodeUnclaimed
<1>2. CASE Devices!RunRead
  <2> DEFINE a == [to |-> "get_settings", code |-> 0, view |-> devicesPaired]
  <2>1. a \in DevicesAnswers
    BY DEF DevicesAnswers, DevicesTyping, Devices!TypeOK
  <2>2. /\ devicesAnswers' = Append(devicesAnswers, a) /\ Head(devicesCalls) = Devices!Read
        /\ devicesCalls # <<>> /\ devicesCalls' = Tail(devicesCalls)
        /\ UNCHANGED <<phase, code, unclaimed, devicesEvents, devicesMissed>>
    BY <1>2 DEF Devices!RunRead
  <2> HIDE DEF a
  <2>3. NewCodes # {} => NewCodes' # {}
    BY <2>1, <2>2, CodesAdded
  <2>4. Asked("create_pairing") => Asked("create_pairing")'
    BY <1>0, <2>2, AskedTaken DEF Devices!Read
  <2> QED BY <2>2, <2>3, <2>4, CodeStays DEF Announced
<1>3. CASE Devices!RunListen
  <2>1. /\ Head(devicesCalls) = Devices!Listen /\ devicesCalls # <<>>
        /\ devicesCalls' = Tail(devicesCalls)
        /\ UNCHANGED <<phase, code, unclaimed, devicesAnswers, devicesEvents, devicesMissed>>
    BY <1>3 DEF Devices!RunListen
  <2>2. Asked("create_pairing") => Asked("create_pairing")'
    BY <1>0, <2>1, AskedTaken DEF Devices!Listen
  <2> QED BY <2>1, <2>2, CodeStays DEF Announced, NewCodes
<1>4. CASE Devices!RunUnpair
  <2>1. /\ Head(devicesCalls).do = "unpair_device" /\ devicesCalls # <<>>
        /\ devicesCalls' = Tail(devicesCalls) /\ UNCHANGED <<phase, code, unclaimed>>
    BY <1>4 DEF Devices!RunUnpair
  <2>2. Asked("create_pairing") => Asked("create_pairing")'
    BY <1>0, <2>1, AskedTaken
  <2>3. PICK p \in Head(devicesCalls).phone :
          \/ /\ Devices!Emit(Devices!Unpaired(p))
             /\ devicesAnswers' = Append(devicesAnswers,
                  [to |-> "unpair_device", code |-> 0, view |-> {}])
          \/ devicesMissed' = TRUE
    BY <1>4 DEF Devices!RunUnpair
  <2>4. CASE devicesMissed' = TRUE
    BY <2>4 DEF CodeUnclaimed
  <2>5. CASE /\ Devices!Emit(Devices!Unpaired(p))
             /\ devicesAnswers' = Append(devicesAnswers,
                  [to |-> "unpair_device", code |-> 0, view |-> {}])
    <3>1. p \in Guest
      <4>1. Head(devicesCalls) \in DevicesCalls
        BY <1>0, <2>1, Taken
      <4> QED BY <2>3, <4>1 DEF DevicesCalls
    <3>2. Devices!Unpaired(p) \in DevicesEvents
      BY <3>1 DEF Devices!Unpaired, DevicesEvents
    <3>3. [to |-> "unpair_device", code |-> 0, view |-> {}] \in DevicesAnswers
      BY DEF DevicesAnswers
    <3>4. NewCodes # {} => NewCodes' # {}
      BY <2>5, <3>3, CodesAdded
    <3>5. (devicesMissed => devicesMissed') /\ (Announced => Announced')
      BY <2>5, <3>2, EventsAdded
    <3> QED BY <2>1, <2>2, <3>4, <3>5, CodeStays
  <2> QED BY <2>3, <2>4, <2>5
<1>5. ASSUME NEW p \in Guest, Devices!Handshake(p) PROVE CodeUnclaimed'
  <2>1. Devices!Paired(p) \in DevicesEvents /\ Devices!Paired(p).name = "device_paired"
    BY DEF Devices!Paired, DevicesEvents
  <2>2. Devices!Emit(Devices!Paired(p))
    BY <1>5 DEF Devices!Handshake
  <2> QED BY <2>1, <2>2, EventsAdded DEF CodeUnclaimed
<1>6. CASE Devices!ShowCode
  <2>1. /\ devicesAnswers # <<>> /\ devicesAnswers' = Tail(devicesAnswers)
        /\ Head(devicesAnswers).to = "create_pairing" /\ code' = Head(devicesAnswers).code
        /\ UNCHANGED unclaimed
    BY <1>6 DEF Devices!ShowCode
  <2>2. code' = devicesAnswers[1].code /\ 1 \in NewCodes
    BY <2>1, CodesTaken
  <2> QED BY <2>1, <2>2 DEF CodesInOrder, CodeUnclaimed
<1>7. CASE Devices!ShowSettings \/ Devices!Disconnected
  <2>1. /\ devicesAnswers # <<>> /\ devicesAnswers' = Tail(devicesAnswers)
        /\ Head(devicesAnswers).to # "create_pairing"
        /\ devicesCalls' = Append(devicesCalls, Devices!Read) \/ UNCHANGED devicesCalls
        /\ UNCHANGED <<phase, code, unclaimed, devicesEvents, devicesMissed>>
    BY <1>7 DEF Devices!ShowSettings, Devices!Disconnected
  <2>2. NewCodes # {} => NewCodes' # {}
    BY <2>1, CodesTaken
  <2>3. Devices!Read \in DevicesCalls
    BY DEF Devices!Read, DevicesCalls
  <2>4. Asked("create_pairing") => Asked("create_pairing")'
    <3>1. CASE devicesCalls' = Append(devicesCalls, Devices!Read)
      BY <1>0, <2>3, <3>1, AskedAdded
    <3>2. CASE UNCHANGED devicesCalls
      BY <3>2 DEF Asked
    <3> QED BY <2>1, <3>1, <3>2
  <2> QED BY <2>1, <2>2, <2>4, CodeStays DEF Announced
<1>8. CASE Devices!OnPaired \/ Devices!DoneOver \/ Devices!ClosePairingScreen
  BY <1>8 DEF Devices!OnPaired, Devices!DoneOver, Devices!ClosePairingScreen, CodeUnclaimed
<1>9. CASE Devices!OnUnpaired
  <2>1. /\ devicesEvents # <<>> /\ Head(devicesEvents).name = "device_unpaired"
        /\ devicesEvents' = Tail(devicesEvents)
        /\ devicesCalls' = Append(devicesCalls, Devices!Read)
        /\ UNCHANGED <<phase, code, unclaimed, devicesAnswers, devicesMissed>>
    BY <1>9 DEF Devices!OnUnpaired
  <2>2. Announced => Announced'
    <3>1. /\ Head(devicesEvents) = devicesEvents[1]
          /\ \A k \in DOMAIN devicesEvents : k # 1 =>
               k - 1 \in DOMAIN devicesEvents' /\ devicesEvents[k] = devicesEvents'[k - 1]
      BY <1>0, <2>1, Taken
    <3> QED BY <2>1, <3>1 DEF Announced
  <2>3. Devices!Read \in DevicesCalls
    BY DEF Devices!Read, DevicesCalls
  <2>4. Asked("create_pairing") => Asked("create_pairing")'
    BY <1>0, <2>1, <2>3, AskedAdded
  <2> QED BY <2>1, <2>2, <2>4, CodeStays DEF NewCodes
<1>10. CASE Devices!Tick \/ Devices!RefreshPressed
  <2>1. /\ devicesCalls' = Append(devicesCalls, Devices!Create) \/ UNCHANGED devicesCalls
        /\ UNCHANGED <<phase, code, unclaimed, devicesAnswers, devicesEvents, devicesMissed>>
    BY <1>10 DEF Devices!Tick, Devices!RefreshPressed, Devices!Refreshes, Devices!RefreshPairing
  <2>2. Asked("create_pairing") => Asked("create_pairing")'
    BY <1>0, <2>1, RefreshAsks
  <2> QED BY <2>1, <2>2, CodeStays DEF NewCodes, Announced
<1>11. CASE Devices!OpenPairingScreen
  <2>1. Devices!Create \in DevicesCalls /\ Devices!Create.do = "create_pairing"
    BY DEF Devices!Create, DevicesCalls
  <2>2. devicesCalls' = Append(devicesCalls, Devices!Create)
    BY <1>11 DEF Devices!OpenPairingScreen, Devices!RefreshPairing
  <2>3. Asked("create_pairing")'
    BY <1>0, <2>1, <2>2, AskedAdded
  <2> QED BY <2>3 DEF CodeUnclaimed
<1>12. CASE Devices!DoUnpairDevice
  <2>1. PICK p \in devicesConfirm : devicesCalls' = Append(devicesCalls, Devices!Unpair(p))
    BY <1>12 DEF Devices!DoUnpairDevice
  <2>2. Devices!Unpair(p) \in DevicesCalls
    BY <2>1 DEF Devices!Unpair, DevicesCalls, DevicesTyping, Devices!TypeOK
  <2>3. Asked("create_pairing") => Asked("create_pairing")'
    BY <1>0, <2>1, <2>2, AskedAdded
  <2>4. UNCHANGED <<phase, code, unclaimed, devicesAnswers, devicesEvents, devicesMissed>>
    BY <1>12 DEF Devices!DoUnpairDevice
  <2> QED BY <2>3, <2>4, CodeStays DEF NewCodes, Announced
<1>13. ASSUME NEW t, Devices!SetTab(t) PROVE CodeUnclaimed'
  BY <1>13, CodeStays DEF Devices!SetTab, NewCodes, Announced, Asked
<1>14. ASSUME NEW p \in Guest, Devices!ConfirmUnpair(p) \/ Devices!Scan(p) PROVE CodeUnclaimed'
  BY <1>14, CodeStays DEF Devices!ConfirmUnpair, Devices!Scan, NewCodes, Announced, Asked
<1>15. CASE Devices!ClockTick \/ UNCHANGED Devices!vars
  BY <1>15, CodeStays DEF Devices!ClockTick, Devices!vars, NewCodes, Announced, Asked
<1> QED BY <1>1, <1>2, <1>3, <1>4, <1>5, <1>6, <1>7, <1>8, <1>9, <1>10, <1>11, <1>12, <1>13,
           <1>14, <1>15 DEF Devices!Next

LEMMA ListStays ==
  ASSUME ListFollows, devicesPaired' = devicesPaired, devicesView' = devicesView,
         devicesAnswers' = devicesAnswers, devicesMissed => devicesMissed',
         devicesEvents # <<>> => devicesEvents' # <<>> \/ Asked("get_settings")',
         Asked("get_settings") => Asked("get_settings")'
  PROVE  ListFollows'
BY DEF ListFollows, Lists, Current

\* The list on display is the present one, or it is about to be read.
LEMMA ListKept ==
  ASSUME DevicesTyping, ListFollows, [Devices!Next]_(Devices!vars)
  PROVE  ListFollows'
<1> USE DEF Devices!backend, Devices!window, Devices!link, Devices!rest
<1>0. /\ devicesCalls \in Seq(DevicesCalls) /\ devicesAnswers \in Seq(DevicesAnswers)
      /\ devicesEvents \in Seq(DevicesEvents)
  BY DEF DevicesTyping
<1>a. /\ Devices!Read \in DevicesCalls /\ Devices!Read.do = "get_settings"
      /\ Devices!Create \in DevicesCalls
  BY DEF Devices!Read, Devices!Create, DevicesCalls
<1>1. ASSUME NEW a \in DevicesAnswers, a.to # "get_settings", devicesAnswers' = Append(devicesAnswers, a),
             UNCHANGED <<devicesPaired, devicesView, devicesEvents, devicesMissed>>,
             Asked("get_settings") => Asked("get_settings")'
      PROVE  ListFollows'
  <2>1. a \notin Lists
    BY <1>1 DEF Lists
  <2>2. /\ Closes(devicesAnswers, Lists, Current) => Closes(devicesAnswers', Lists, Current)
        /\ Lacks(devicesAnswers, Lists) => Lacks(devicesAnswers', Lists)
    BY <1>0, <1>1, <2>1, ClosesAdded
  <2>3. Lists' = Lists /\ Current' = Current
    BY <1>1 DEF Lists, Current
  <2> QED BY <1>1, <2>2, <2>3 DEF ListFollows
<1>2. ASSUME devicesAnswers # <<>>, devicesAnswers' = Tail(devicesAnswers),
             Head(devicesAnswers).to # "get_settings",
             UNCHANGED <<devicesPaired, devicesView, devicesEvents, devicesMissed>>,
             Asked("get_settings") => Asked("get_settings")'
      PROVE  ListFollows'
  <2>1. Head(devicesAnswers) \notin Lists
    BY <1>2 DEF Lists
  <2>2. /\ Closes(devicesAnswers, Lists, Current) => Closes(devicesAnswers', Lists, Current)
        /\ Lacks(devicesAnswers, Lists) => Lacks(devicesAnswers', Lists)
    BY <1>0, <1>2, <2>1, ClosesTaken
  <2>3. Lists' = Lists /\ Current' = Current
    BY <1>2 DEF Lists, Current
  <2> QED BY <1>2, <2>2, <2>3 DEF ListFollows
<1>3. CASE Devices!RunCreate
  <2> DEFINE a == [to |-> "create_pairing", code |-> Len(expiry) + 1, view |-> {}]
  <2>1. a \in DevicesAnswers /\ a.to = "create_pairing"
    <3>1. Len(expiry) + 1 \in Nat
      BY LenProperties DEF DevicesTyping, Devices!TypeOK
    <3> QED BY <3>1 DEF DevicesAnswers
  <2>2. /\ devicesAnswers' = Append(devicesAnswers, a)
        /\ devicesCalls # <<>> /\ devicesCalls' = Tail(devicesCalls)
        /\ Head(devicesCalls) = Devices!Create
        /\ UNCHANGED <<devicesPaired, devicesView, devicesEvents, devicesMissed>>
    BY <1>3 DEF Devices!RunCreate
  <2> HIDE DEF a
  <2>3. Asked("get_settings") => Asked("get_settings")'
    BY <1>0, <2>2, AskedTaken DEF Devices!Create
  <2> QED BY <1>1, <2>1, <2>2, <2>3
<1>4. CASE Devices!RunRead
  <2> DEFINE a == [to |-> "get_settings", code |-> 0, view |-> devicesPaired]
  <2>1. a \in Lists \cap Current /\ a \in DevicesAnswers
    BY DEF Lists, Current, DevicesAnswers, DevicesTyping, Devices!TypeOK
  <2>2. devicesAnswers' = Append(devicesAnswers, a) /\ UNCHANGED devicesPaired
    BY <1>4 DEF Devices!RunRead
  <2> HIDE DEF a
  <2>3. Closes(devicesAnswers', Lists, Current)
    BY <1>0, <2>1, <2>2, ClosesAdded
  <2>4. Lists' = Lists /\ Current' = Current
    BY <2>2 DEF Lists, Current
  <2> QED BY <2>3, <2>4 DEF ListFollows
<1>5. CASE Devices!RunListen
  <2>1. /\ Head(devicesCalls) = Devices!Listen /\ devicesCalls # <<>>
        /\ devicesCalls' = Tail(devicesCalls)
        /\ UNCHANGED <<devicesPaired, devicesView, devicesAnswers, devicesEvents, devicesMissed>>
    BY <1>5 DEF Devices!RunListen
  <2>2. Asked("get_settings") => Asked("get_settings")'
    BY <1>0, <2>1, AskedTaken DEF Devices!Listen
  <2> QED BY <2>1, <2>2, ListStays
<1>6. CASE Devices!RunUnpair
  <2>1. /\ devicesCalls # <<>>
        /\ \E p \in Head(devicesCalls).phone : Devices!Emit(Devices!Unpaired(p)) \/ devicesMissed' = TRUE
    BY <1>6 DEF Devices!RunUnpair
  <2>2. \A p \in Head(devicesCalls).phone : Devices!Unpaired(p) \in DevicesEvents
    <3>1. Head(devicesCalls) \in DevicesCalls
      BY <1>0, <2>1, Taken
    <3> QED BY <3>1 DEF DevicesCalls, DevicesEvents, Devices!Unpaired
  <2> QED BY <2>1, <2>2, EventsAdded DEF ListFollows
<1>7. ASSUME NEW p \in Guest, Devices!Handshake(p) PROVE ListFollows'
  <2>1. Devices!Paired(p) \in DevicesEvents
    BY DEF Devices!Paired, DevicesEvents
  <2>2. Devices!Emit(Devices!Paired(p))
    BY <1>7 DEF Devices!Handshake
  <2> QED BY <2>1, <2>2, EventsAdded DEF ListFollows
<1>8. CASE Devices!ShowCode
  <2>1. /\ devicesAnswers # <<>> /\ devicesAnswers' = Tail(devicesAnswers)
        /\ Head(devicesAnswers).to = "create_pairing"
        /\ UNCHANGED <<devicesPaired, devicesView, devicesEvents, devicesMissed>>
        /\ devicesCalls' = Append(devicesCalls, Devices!Create) \/ UNCHANGED devicesCalls
    BY <1>8 DEF Devices!ShowCode, Devices!Refreshes, Devices!RefreshPairing
  <2>2. Asked("get_settings") => Asked("get_settings")'
    BY <1>0, <2>1, RefreshAsks
  <2> QED BY <1>2, <2>1, <2>2
<1>9. CASE Devices!ShowSettings
  <2>1. /\ devicesAnswers # <<>> /\ devicesAnswers' = Tail(devicesAnswers)
        /\ Head(devicesAnswers).to = "get_settings" /\ devicesView' = Head(devicesAnswers).view
        /\ UNCHANGED <<devicesPaired, devicesCalls, devicesEvents, devicesMissed>>
    BY <1>9 DEF Devices!ShowSettings
  <2>2. Head(devicesAnswers) \in Lists
    BY <1>0, <2>1, Taken DEF Lists
  <2>3. /\ ~Lacks(devicesAnswers, Lists)
        /\ Closes(devicesAnswers, Lists, Current) =>
             \/ Closes(devicesAnswers', Lists, Current)
             \/ Lacks(devicesAnswers', Lists) /\ Head(devicesAnswers) \in Lists \cap Current
    BY <1>0, <2>1, <2>2, ClosesTaken
  <2>4. Lists' = Lists /\ Current' = Current
    BY <2>1 DEF Lists, Current
  <2>5. Head(devicesAnswers) \in Current => devicesView' = devicesPaired
    BY <2>1 DEF Current
  <2>6. Asked("get_settings") => Asked("get_settings")'
    BY <2>1 DEF Asked
  <2> QED BY <2>1, <2>3, <2>4, <2>5, <2>6 DEF ListFollows
<1>10. CASE Devices!Disconnected \/ Devices!OnPaired \/ Devices!OnUnpaired
  <2>1. devicesCalls' = Append(devicesCalls, Devices!Read)
    BY <1>10 DEF Devices!Disconnected, Devices!OnPaired, Devices!OnUnpaired
  <2>2. Asked("get_settings")'
    BY <1>0, <1>a, <2>1, AskedAdded
  <2> QED BY <2>2 DEF ListFollows
<1>11. CASE Devices!Tick \/ Devices!OpenPairingScreen \/ Devices!RefreshPressed
  <2>1. /\ devicesCalls' = Append(devicesCalls, Devices!Create) \/ UNCHANGED devicesCalls
        /\ UNCHANGED <<devicesPaired, devicesView, devicesAnswers, devicesEvents, devicesMissed>>
    BY <1>11 DEF Devices!Tick, Devices!RefreshPressed, Devices!OpenPairingScreen,
                 Devices!Refreshes, Devices!RefreshPairing
  <2>2. Asked("get_settings") => Asked("get_settings")'
    BY <1>0, <2>1, RefreshAsks
  <2> QED BY <2>1, <2>2, ListStays
<1>12. CASE Devices!DoUnpairDevice
  <2>1. PICK p \in devicesConfirm : devicesCalls' = Append(devicesCalls, Devices!Unpair(p))
    BY <1>12 DEF Devices!DoUnpairDevice
  <2>2. Devices!Unpair(p) \in DevicesCalls
    BY <2>1 DEF Devices!Unpair, DevicesCalls, DevicesTyping, Devices!TypeOK
  <2>3. Asked("get_settings") => Asked("get_settings")'
    BY <1>0, <2>1, <2>2, AskedAdded
  <2>4. UNCHANGED <<devicesPaired, devicesView, devicesAnswers, devicesEvents, devicesMissed>>
    BY <1>12 DEF Devices!DoUnpairDevice
  <2> QED BY <2>3, <2>4, ListStays
<1>13. ASSUME NEW t, Devices!SetTab(t) PROVE ListFollows'
  BY <1>13, ListStays DEF Devices!SetTab, Asked
<1>14. ASSUME NEW p \in Guest, Devices!ConfirmUnpair(p) \/ Devices!Scan(p) PROVE ListFollows'
  BY <1>14, ListStays DEF Devices!ConfirmUnpair, Devices!Scan, Asked
<1>15. CASE \/ Devices!DoneOver \/ Devices!ClosePairingScreen \/ Devices!ClockTick
            \/ UNCHANGED Devices!vars
  BY <1>15, ListStays
     DEF Devices!DoneOver, Devices!ClosePairingScreen, Devices!ClockTick, Devices!vars, Asked
<1> QED BY <1>3, <1>4, <1>5, <1>6, <1>7, <1>8, <1>9, <1>10, <1>11, <1>12, <1>13, <1>14, <1>15
        DEF Devices!Next

\* The Devices tab tells the truth, about the code and about the phones (App.tsx).
LEMMA DevicesAlone ==
  ASSUME TTL \in Nat
  PROVE  Devices!Spec => []Devices!DevicesTabHonest
<1>1. Devices!Init => DevicesInv
  <2> SUFFICES ASSUME Devices!Init PROVE DevicesInv
    OBVIOUS
  <2>1. /\ devicesCalls = <<Devices!Create, Devices!Read, Devices!Listen>>
        /\ devicesAnswers = <<>> /\ devicesEvents = <<>> /\ expiry = <<>>
        /\ unclaimed = {} /\ code = 0 /\ phase = "idle" /\ scanned = [p \in Guest |-> 0]
        /\ devicesPaired = {} /\ devicesView = {}
    BY DEF Devices!Init
  <2>2. /\ Devices!Create \in DevicesCalls /\ Devices!Read \in DevicesCalls
        /\ Devices!Listen \in DevicesCalls
    BY DEF Devices!Create, Devices!Read, Devices!Listen, DevicesCalls
  <2>3. devicesCalls \in Seq(DevicesCalls)
    BY <2>1, <2>2
  <2>4. /\ devicesAnswers \in Seq(DevicesAnswers) /\ devicesEvents \in Seq(DevicesEvents)
        /\ expiry \in Seq(Nat)
    BY <2>1
  <2>5. Devices!TypeOK
    <3>1. /\ unclaimed \subseteq DOMAIN expiry /\ code \in DOMAIN expiry \cup {0}
          /\ scanned \in [Guest -> DOMAIN expiry \cup {0}]
      BY <2>1
    <3>2. clock \in Nat /\ now \in 0 .. clock /\ devicesTimers \in Nat
      BY DEF Devices!Init
    <3> QED BY <2>1, <2>4, <3>1, <3>2 DEF Devices!Init, Devices!TypeOK, Devices!Codes
  <2>6. CodesInOrder
    BY <2>1 DEF CodesInOrder, NewCodes
  <2>7. CodeUnclaimed
    BY <2>1 DEF CodeUnclaimed
  <2>8. ListFollows
    BY <2>1 DEF ListFollows, Lacks
  <2> QED BY <2>3, <2>4, <2>5, <2>6, <2>7, <2>8 DEF DevicesInv, DevicesTyping
<1>2. DevicesInv /\ [Devices!Next]_(Devices!vars) => DevicesInv'
  BY DevicesTyped, CodesKept, CodeKept, ListKept DEF DevicesInv
<1>3. DevicesInv => Devices!DevicesTabHonest
  <2> SUFFICES ASSUME DevicesInv PROVE Devices!DevicesTabHonest
    OBVIOUS
  <2>1. DevicesTyping /\ CodeUnclaimed /\ ListFollows
    BY DEF DevicesInv
  <2>2. Devices!CodeIsGood
    <3> SUFFICES ASSUME code # 0, code \in unclaimed, now = clock, ~(expiry[code] <= now)
                 PROVE  clock <= expiry[code]
      BY <2>1 DEF Devices!CodeIsGood, Devices!ShowsCode, CodeUnclaimed, Asked, NewCodes,
         Announced,
                  Devices!expired, Devices!Expired
    <3>1. expiry[code] \in Nat /\ clock \in Nat
      BY <2>1 DEF DevicesTyping, Devices!TypeOK, Devices!Codes
    <3> QED BY <3>1
  <2>3. Devices!ListCatchesUp
    <3> SUFFICES ASSUME Devices!Quiet, ~devicesMissed PROVE devicesView = devicesPaired
      BY DEF Devices!ListCatchesUp
    <3>1. DOMAIN devicesCalls = {} /\ DOMAIN devicesAnswers = {} /\ devicesEvents = <<>>
      BY DEF Devices!Quiet
    <3> QED BY <2>1, <3>1 DEF ListFollows, Asked, Closes
  <2> QED BY <2>1, <2>2, <2>3 DEF Devices!DevicesTabHonest, DevicesTyping
<1> QED BY <1>1, <1>2, <1>3, PTL DEF Devices!Spec

------------------------------------------------------------------------------
(* The names of the phones *)

Names0 == Nickname \cup {Empty}
NamesCalls == [do : {"rename", "read"}, id : Device \cup {None}, name : Names0]
NamesAnswers == [to : {"rename", "read"}, ok : BOOLEAN, view : [Device -> Names0]]

NamesTyping ==
  /\ names \in [Device -> Names0] /\ namesView \in [Device -> Names0]
  /\ renamingId \in Device \cup {None} /\ renameValue \in Names0
  /\ namesCalls \in Seq(NamesCalls) /\ namesAnswers \in Seq(NamesAnswers)
  /\ notes \in Nat /\ typed \in [Device -> SUBSET Names0]

\* A name that is typed, on its way or stored was meant for its phone.
NamesMeant ==
  /\ renamingId # None => renameValue \in typed[renamingId]
  /\ \A k \in DOMAIN namesCalls : namesCalls[k].do = "rename" =>
       namesCalls[k].id \in Device /\ namesCalls[k].name \in typed[namesCalls[k].id]
  /\ Names!NameMeantForIt

ReadDue == \E k \in DOMAIN namesCalls : namesCalls[k].do = "read"
Readings == {a \in NamesAnswers : a.to = "read"}
NamesNow == {a \in NamesAnswers : a.view = names}

\* The names are about to be read, or those that were read last are stored.
NamesFollow ==
  \/ namesFailed \/ notes > 0 \/ ReadDue
  \/ Closes(namesAnswers, Readings, NamesNow)
  \/ Lacks(namesAnswers, Readings) /\ namesView = names

NamesInv == NamesTyping /\ NamesMeant /\ NamesFollow

\* A command that is given takes what was meant with it.
LEMMA NamesAsked ==
  ASSUME NamesTyping, NamesMeant, NEW c \in NamesCalls,
         namesCalls' = Append(namesCalls, c) \/ UNCHANGED namesCalls,
         \A d \in Device : typed[d] \subseteq typed'[d],
         c.do = "rename" => c.id \in Device /\ c.name \in typed[c.id]
  PROVE  /\ namesCalls' \in Seq(NamesCalls)
         /\ \A k \in DOMAIN namesCalls' : namesCalls'[k].do = "rename" =>
              namesCalls'[k].id \in Device /\ namesCalls'[k].name \in typed'[namesCalls'[k].id]
         /\ ReadDue => ReadDue'
<1>1. /\ namesCalls \in Seq(NamesCalls)
      /\ \A k \in DOMAIN namesCalls : namesCalls[k].do = "rename" =>
           namesCalls[k].id \in Device /\ namesCalls[k].name \in typed'[namesCalls[k].id]
  BY DEF NamesTyping, NamesMeant
<1>2. CASE namesCalls' = Append(namesCalls, c)
  <2>1. /\ namesCalls' \in Seq(NamesCalls)
        /\ DOMAIN namesCalls' = DOMAIN namesCalls \cup {Len(namesCalls) + 1}
        /\ namesCalls'[Len(namesCalls) + 1] = c
        /\ \A k \in DOMAIN namesCalls : namesCalls'[k] = namesCalls[k]
    BY <1>1, <1>2, Added
  <2> QED BY <1>1, <2>1 DEF ReadDue
<1>3. CASE UNCHANGED namesCalls
  BY <1>1, <1>3 DEF ReadDue
<1> QED BY <1>2, <1>3

\* The window reads the names.
LEMMA NamesReadAsked ==
  ASSUME NamesTyping, NamesMeant, namesCalls' = Append(namesCalls, Names!ReadCall),
         UNCHANGED typed
  PROVE  /\ namesCalls' \in Seq(NamesCalls) /\ ReadDue'
         /\ \A k \in DOMAIN namesCalls' : namesCalls'[k].do = "rename" =>
              namesCalls'[k].id \in Device /\ namesCalls'[k].name \in typed'[namesCalls'[k].id]
<1>1. Names!ReadCall \in NamesCalls /\ Names!ReadCall.do = "read"
  BY DEF Names!ReadCall, NamesCalls, Names0
<1>2. /\ DOMAIN namesCalls' = DOMAIN namesCalls \cup {Len(namesCalls) + 1}
      /\ namesCalls'[Len(namesCalls) + 1] = Names!ReadCall
  BY <1>1, Added DEF NamesTyping
<1>3. ReadDue'
  BY <1>1, <1>2 DEF ReadDue
<1> QED BY <1>1, <1>3, NamesAsked

\* A command is taken.
LEMMA NamesRun ==
  ASSUME NamesTyping, NamesMeant, namesCalls # <<>>, namesCalls' = Tail(namesCalls),
         UNCHANGED typed
  PROVE  /\ namesCalls' \in Seq(NamesCalls) /\ Head(namesCalls) \in NamesCalls
         /\ \A k \in DOMAIN namesCalls' : namesCalls'[k].do = "rename" =>
              namesCalls'[k].id \in Device /\ namesCalls'[k].name \in typed'[namesCalls'[k].id]
         /\ Head(namesCalls).do = "rename" =>
              Head(namesCalls).id \in Device /\ Head(namesCalls).name \in typed[Head(namesCalls).id]
         /\ ReadDue => ReadDue' \/ Head(namesCalls).do = "read"
<1>1. /\ namesCalls \in Seq(NamesCalls)
      /\ \A k \in DOMAIN namesCalls : namesCalls[k].do = "rename" =>
           namesCalls[k].id \in Device /\ namesCalls[k].name \in typed[namesCalls[k].id]
  BY DEF NamesTyping, NamesMeant
<1>2. /\ Head(namesCalls) \in NamesCalls /\ Head(namesCalls) = namesCalls[1]
      /\ 1 \in DOMAIN namesCalls /\ namesCalls' \in Seq(NamesCalls)
      /\ \A k \in DOMAIN namesCalls' :
           k + 1 \in DOMAIN namesCalls /\ namesCalls'[k] = namesCalls[k + 1]
      /\ \A k \in DOMAIN namesCalls : k # 1 =>
           k - 1 \in DOMAIN namesCalls' /\ namesCalls[k] = namesCalls'[k - 1]
  BY <1>1, Taken
<1>3. ReadDue => ReadDue' \/ Head(namesCalls).do = "read"
  BY <1>2, ZenonT(60) DEF ReadDue
<1> QED BY <1>1, <1>2, <1>3

\* What was read last stays so while other answers come and go.
LEMMA NamesStay ==
  ASSUME NamesTyping, NamesFollow, names' = names, namesView' = namesView,
         namesFailed => namesFailed', notes' = notes, ReadDue => ReadDue',
         \/ UNCHANGED namesAnswers
         \/ \E a \in NamesAnswers \ Readings : namesAnswers' = Append(namesAnswers, a)
         \/ /\ namesAnswers # <<>> /\ Head(namesAnswers) \notin Readings
            /\ namesAnswers' = Tail(namesAnswers)
  PROVE  NamesFollow'
<1>1. Readings' = Readings /\ NamesNow' = NamesNow /\ namesAnswers \in Seq(NamesAnswers)
  BY DEF Readings, NamesNow, NamesTyping
<1>2. /\ Closes(namesAnswers, Readings, NamesNow) => Closes(namesAnswers', Readings, NamesNow)
      /\ Lacks(namesAnswers, Readings) => Lacks(namesAnswers', Readings)
  <2>1. ASSUME NEW a \in NamesAnswers \ Readings, namesAnswers' = Append(namesAnswers, a)
        PROVE  <1>2!1 /\ <1>2!2
    BY <1>1, <2>1, ClosesAdded
  <2>2. CASE /\ namesAnswers # <<>> /\ Head(namesAnswers) \notin Readings
             /\ namesAnswers' = Tail(namesAnswers)
    BY <1>1, <2>2, ClosesTaken
  <2>3. CASE UNCHANGED namesAnswers
    BY <2>3
  <2> QED BY <2>1, <2>2, <2>3
<1> QED BY <1>1, <1>2 DEF NamesFollow

\* Names are what was meant, and what is shown (App.tsx, settings.rs).
LEMMA NamesAlone ==
  ASSUME None \notin Device, Own \in [Device -> Nickname]
  PROVE  Names!Spec => []Names!NamesHonest
<1> USE DEF Names!backend, Names!input, Names!bounds
<1>1. Names!Init => NamesInv
  <2> SUFFICES ASSUME Names!Init PROVE NamesInv
    OBVIOUS
  <2>1. /\ names = Own /\ namesView = Own /\ renamingId = None /\ renameValue = Empty
        /\ namesCalls = <<>> /\ namesAnswers = <<>> /\ notes = 0 /\ typed = [d \in Device |-> {}]
    BY DEF Names!Init
  <2>2. Own \in [Device -> Names0]
    BY DEF Names0
  <2>3. namesCalls \in Seq(NamesCalls) /\ namesAnswers \in Seq(NamesAnswers)
    BY <2>1
  <2>4. NamesTyping
    BY <2>1, <2>2, <2>3 DEF NamesTyping, Names0
  <2>5. NamesMeant
    BY <2>1 DEF NamesMeant, Names!NameMeantForIt
  <2>6. NamesFollow
    BY <2>1 DEF NamesFollow, Lacks
  <2> QED BY <2>4, <2>5, <2>6 DEF NamesInv
<1>2. NamesInv /\ [Names!Next]_(Names!vars) => NamesInv'
  <2> SUFFICES ASSUME NamesInv, [Names!Next]_(Names!vars) PROVE NamesInv'
    OBVIOUS
  <2>0. NamesTyping /\ NamesMeant /\ NamesFollow
    BY DEF NamesInv
  <2>a. ASSUME NEW d \in Device, NEW n \in typed[d], Names!DoRename(d, n),
               \A e \in Device : typed[e] \subseteq typed'[e]
        PROVE  /\ namesCalls' \in Seq(NamesCalls)
               /\ \A k \in DOMAIN namesCalls' : namesCalls'[k].do = "rename" =>
                    /\ namesCalls'[k].id \in Device
                    /\ namesCalls'[k].name \in typed'[namesCalls'[k].id]
               /\ ReadDue => ReadDue'
    <3>1. /\ Names!Rename(d, n) \in NamesCalls /\ Names!Rename(d, n).id = d
          /\ Names!Rename(d, n).name = n
      BY <2>0 DEF Names!Rename, NamesCalls, NamesTyping
    <3>2. namesCalls' = Append(namesCalls, Names!Rename(d, n)) \/ UNCHANGED namesCalls
      BY <2>a DEF Names!DoRename
    <3> QED BY <2>0, <2>a, <3>1, <3>2, NamesAsked
  <2>1. ASSUME NEW d \in Device, Names!StartRename(d) PROVE NamesInv'
    <3>1. /\ renamingId' = d /\ renameValue' = namesView[d]
          /\ typed' = [typed EXCEPT ![d] = @ \cup {namesView[d]}]
          /\ UNCHANGED <<names, notes, namesView, namesAnswers, namesFailed>>
      BY <2>1 DEF Names!StartRename
    <3>2. /\ typed' \in [Device -> SUBSET Names0] /\ \A e \in Device : typed[e] \subseteq typed'[e]
          /\ namesView[d] \in typed'[d] /\ namesView[d] \in Names0
      BY <2>0, <3>1 DEF NamesTyping
    <3>3. /\ namesCalls' \in Seq(NamesCalls)
          /\ \A k \in DOMAIN namesCalls' : namesCalls'[k].do = "rename" =>
               namesCalls'[k].id \in Device /\ namesCalls'[k].name \in typed'[namesCalls'[k].id]
          /\ ReadDue => ReadDue'
      <4>1. CASE renamingId = None
        <5>1. UNCHANGED namesCalls
          BY <2>1, <4>1 DEF Names!StartRename
        <5> QED BY <2>0, <3>2, <5>1 DEF NamesTyping, NamesMeant, ReadDue
      <4>2. CASE renamingId # None
        <5>1. Names!DoRename(renamingId, renameValue) /\ renamingId \in Device
          BY <2>0, <2>1, <4>2 DEF Names!StartRename, NamesTyping
        <5> QED BY <2>0, <2>a, <3>2, <4>2, <5>1 DEF NamesMeant
      <4> QED BY <4>1, <4>2
    <3>4. NamesTyping'
      BY <2>0, <3>1, <3>2, <3>3 DEF NamesTyping
    <3>5. NamesMeant'
      BY <2>0, <3>1, <3>2, <3>3 DEF NamesMeant, Names!NameMeantForIt
    <3> QED BY <2>0, <3>1, <3>3, <3>4, <3>5, NamesStay DEF NamesInv
  <2>2. ASSUME NEW d \in Device, Names!Reconnect(d) PROVE NamesInv'
    <3>1. /\ names' = [names EXCEPT ![d] = Own[d]] /\ notes' = notes + 1
          /\ UNCHANGED <<namesView, renamingId, renameValue, namesCalls, namesAnswers, typed>>
      BY <2>2 DEF Names!Reconnect
    <3>2. NamesTyping'
      BY <2>0, <3>1 DEF NamesTyping, Names0
    <3>3. NamesMeant'
      BY <2>0, <3>1 DEF NamesTyping, NamesMeant, Names!NameMeantForIt
    <3>4. notes' > 0
      BY <2>0, <3>1 DEF NamesTyping
    <3> QED BY <3>2, <3>3, <3>4 DEF NamesInv, NamesFollow
  <2>3. ASSUME NEW n \in Names0, Names!Type(n) PROVE NamesInv'
    <3>1. /\ renamingId # None /\ renameValue' = n
          /\ typed' = [typed EXCEPT ![renamingId] = @ \cup {n}]
          /\ UNCHANGED <<names, notes, namesView, renamingId, namesCalls, namesAnswers, namesFailed>>
      BY <2>3 DEF Names!Type
    <3>2. renamingId \in Device
      BY <2>0, <3>1 DEF NamesTyping
    <3>3. /\ typed' \in [Device -> SUBSET Names0] /\ \A e \in Device : typed[e] \subseteq typed'[e]
          /\ n \in typed'[renamingId]
      BY <2>0, <3>1, <3>2 DEF NamesTyping
    <3>4. NamesTyping'
      BY <2>0, <3>1, <3>3 DEF NamesTyping
    <3>5. NamesMeant'
      BY <2>0, <3>1, <3>3 DEF NamesMeant, Names!NameMeantForIt
    <3> QED BY <2>0, <3>1, <3>4, <3>5, NamesStay DEF NamesInv, ReadDue
  <2>4. CASE Names!Commit
    <3>1. /\ renamingId # None /\ Names!DoRename(renamingId, renameValue)
          /\ renamingId' \in {renamingId, None}
          /\ UNCHANGED <<names, notes, namesView, renameValue, namesAnswers, typed, namesFailed>>
      BY <2>4 DEF Names!Commit
    <3>2. renamingId \in Device /\ renameValue \in typed[renamingId]
      BY <2>0, <3>1 DEF NamesTyping, NamesMeant
    <3>3. /\ namesCalls' \in Seq(NamesCalls)
          /\ \A k \in DOMAIN namesCalls' : namesCalls'[k].do = "rename" =>
               namesCalls'[k].id \in Device /\ namesCalls'[k].name \in typed'[namesCalls'[k].id]
          /\ ReadDue => ReadDue'
      BY <2>a, <3>1, <3>2
    <3>4. NamesTyping'
      BY <2>0, <3>1, <3>3 DEF NamesTyping
    <3>5. NamesMeant'
      BY <2>0, <3>1, <3>3 DEF NamesMeant, Names!NameMeantForIt
    <3> QED BY <2>0, <3>1, <3>3, <3>4, <3>5, NamesStay DEF NamesInv
  <2>5. CASE Names!Escape
    <3>1. /\ renamingId' = None
          /\ UNCHANGED <<names, notes, namesView, renameValue, namesCalls, namesAnswers, typed,
                         namesFailed>>
      BY <2>5 DEF Names!Escape
    <3>2. NamesTyping' /\ NamesMeant'
      BY <2>0, <3>1 DEF NamesTyping, NamesMeant, Names!NameMeantForIt
    <3> QED BY <2>0, <3>1, <3>2, NamesStay DEF NamesInv, ReadDue
  <2>6. CASE Names!RunRename
    <3>1. /\ namesCalls # <<>> /\ namesCalls' = Tail(namesCalls) /\ Head(namesCalls).do = "rename"
          /\ names' = [names EXCEPT ![Head(namesCalls).id] = Head(namesCalls).name]
          /\ UNCHANGED <<namesView, renamingId, renameValue, typed>>
      BY <2>6 DEF Names!RunRename
    <3>2. \E ok \in BOOLEAN :
            /\ namesAnswers' = Append(namesAnswers, [to |-> "rename", ok |-> ok, view |-> Own])
            /\ \/ ok /\ notes' = notes + 1
               \/ ~ok /\ notes' = notes /\ namesFailed' = TRUE
      BY <2>6 DEF Names!RunRename
    <3>3. \A ok \in BOOLEAN : [to |-> "rename", ok |-> ok, view |-> Own] \in NamesAnswers
      BY DEF NamesAnswers, Names0
    <3>4. namesAnswers' \in Seq(NamesAnswers)
      BY <2>0, <3>2, <3>3, Added DEF NamesTyping
    <3>5. notes' \in Nat /\ (notes' > 0 \/ namesFailed')
      BY <2>0, <3>2 DEF NamesTyping
    <3>6. /\ namesCalls' \in Seq(NamesCalls)
          /\ \A k \in DOMAIN namesCalls' : namesCalls'[k].do = "rename" =>
               namesCalls'[k].id \in Device /\ namesCalls'[k].name \in typed'[namesCalls'[k].id]
          /\ Head(namesCalls).id \in Device /\ Head(namesCalls).name \in typed[Head(namesCalls).id]
          /\ Head(namesCalls).name \in Names0
      BY <2>0, <3>1, NamesRun DEF NamesCalls
    <3>7. NamesTyping'
      BY <2>0, <3>1, <3>4, <3>5, <3>6 DEF NamesTyping
    <3>8. NamesMeant'
      BY <2>0, <3>1, <3>6 DEF NamesTyping, NamesMeant, Names!NameMeantForIt
    <3> QED BY <3>5, <3>7, <3>8 DEF NamesInv, NamesFollow
  <2>7. CASE Names!RunRead
    <3> DEFINE a == [to |-> "read", ok |-> TRUE, view |-> names]
    <3>1. /\ namesCalls # <<>> /\ namesCalls' = Tail(namesCalls)
          /\ namesAnswers' = Append(namesAnswers, a)
          /\ UNCHANGED <<names, notes, namesView, renamingId, renameValue, typed, namesFailed>>
      BY <2>7 DEF Names!RunRead
    <3>2. a \in Readings \cap NamesNow /\ a \in NamesAnswers
      BY <2>0 DEF Readings, NamesNow, NamesAnswers, NamesTyping
    <3> HIDE DEF a
    <3>3. namesAnswers' \in Seq(NamesAnswers) /\ Closes(namesAnswers', Readings, NamesNow)
      BY <2>0, <3>1, <3>2, Added, ClosesAdded DEF NamesTyping
    <3>4. Readings' = Readings /\ NamesNow' = NamesNow
      BY <3>1 DEF Readings, NamesNow
    <3>5. /\ namesCalls' \in Seq(NamesCalls)
          /\ \A k \in DOMAIN namesCalls' : namesCalls'[k].do = "rename" =>
               namesCalls'[k].id \in Device /\ namesCalls'[k].name \in typed'[namesCalls'[k].id]
      BY <2>0, <3>1, NamesRun
    <3>6. NamesTyping'
      BY <2>0, <3>1, <3>3, <3>5 DEF NamesTyping
    <3>7. NamesMeant'
      BY <2>0, <3>1, <3>5 DEF NamesMeant, Names!NameMeantForIt
    <3> QED BY <3>3, <3>4, <3>6, <3>7 DEF NamesInv, NamesFollow
  <2>8. CASE Names!Renamed
    <3>1. /\ namesAnswers # <<>> /\ Head(namesAnswers).to = "rename"
          /\ namesAnswers' = Tail(namesAnswers)
          /\ UNCHANGED <<names, notes, namesView, renameValue, typed, namesFailed>>
          /\ \/ renamingId' = None /\ namesCalls' = Append(namesCalls, Names!ReadCall)
             \/ UNCHANGED <<renamingId, namesCalls>>
      BY <2>8 DEF Names!Renamed
    <3>2. namesAnswers' \in Seq(NamesAnswers) /\ Head(namesAnswers) \notin Readings
      BY <2>0, <3>1, Taken DEF NamesTyping, Readings
    <3>3. /\ namesCalls' \in Seq(NamesCalls)
          /\ \A k \in DOMAIN namesCalls' : namesCalls'[k].do = "rename" =>
               namesCalls'[k].id \in Device /\ namesCalls'[k].name \in typed'[namesCalls'[k].id]
          /\ ReadDue => ReadDue'
      <4>1. CASE namesCalls' = Append(namesCalls, Names!ReadCall)
        BY <2>0, <3>1, <4>1, NamesReadAsked
      <4>2. CASE UNCHANGED namesCalls
        BY <2>0, <3>1, <4>2 DEF NamesTyping, NamesMeant, ReadDue
      <4> QED BY <3>1, <4>1, <4>2
    <3>4. NamesTyping'
      BY <2>0, <3>1, <3>2, <3>3 DEF NamesTyping
    <3>5. NamesMeant'
      BY <2>0, <3>1, <3>3 DEF NamesMeant, Names!NameMeantForIt
    <3> QED BY <2>0, <3>1, <3>2, <3>3, <3>4, <3>5, NamesStay DEF NamesInv
  <2>9. CASE Names!Shown
    <3>1. /\ namesAnswers # <<>> /\ Head(namesAnswers).to = "read"
          /\ namesAnswers' = Tail(namesAnswers) /\ namesView' = Head(namesAnswers).view
          /\ UNCHANGED <<names, notes, renamingId, renameValue, namesCalls, typed, namesFailed>>
      BY <2>9 DEF Names!Shown
    <3>2. namesAnswers' \in Seq(NamesAnswers) /\ Head(namesAnswers) \in NamesAnswers
      BY <2>0, <3>1, Taken DEF NamesTyping
    <3>3. Head(namesAnswers) \in Readings /\ namesView' \in [Device -> Names0]
      BY <3>1, <3>2 DEF Readings, NamesAnswers
    <3>4. /\ ~Lacks(namesAnswers, Readings)
          /\ Closes(namesAnswers, Readings, NamesNow) =>
               \/ Closes(namesAnswers', Readings, NamesNow)
               \/ Lacks(namesAnswers', Readings) /\ Head(namesAnswers) \in Readings \cap NamesNow
      BY <2>0, <3>1, <3>3, ClosesTaken DEF NamesTyping
    <3>5. Head(namesAnswers) \in NamesNow => namesView' = names
      BY <3>1 DEF NamesNow
    <3>6. Readings' = Readings /\ NamesNow' = NamesNow /\ (ReadDue => ReadDue')
      BY <3>1 DEF Readings, NamesNow, ReadDue
    <3>7. NamesFollow'
      BY <2>0, <3>1, <3>4, <3>5, <3>6 DEF NamesFollow
    <3>8. NamesTyping' /\ NamesMeant'
      BY <2>0, <3>1, <3>2, <3>3 DEF NamesTyping, NamesMeant, Names!NameMeantForIt
    <3> QED BY <3>7, <3>8 DEF NamesInv
  <2>10. CASE Names!Noted
    <3>1. /\ namesCalls' = Append(namesCalls, Names!ReadCall) /\ notes > 0 /\ notes' = notes - 1
          /\ UNCHANGED <<names, namesView, renamingId, renameValue, namesAnswers, typed>>
      BY <2>10 DEF Names!Noted
    <3>2. /\ namesCalls' \in Seq(NamesCalls) /\ ReadDue'
          /\ \A k \in DOMAIN namesCalls' : namesCalls'[k].do = "rename" =>
               namesCalls'[k].id \in Device /\ namesCalls'[k].name \in typed'[namesCalls'[k].id]
      BY <2>0, <3>1, NamesReadAsked
    <3>3. notes' \in Nat
      BY <2>0, <3>1 DEF NamesTyping
    <3>4. NamesTyping' /\ NamesMeant'
      BY <2>0, <3>1, <3>2, <3>3 DEF NamesTyping, NamesMeant, Names!NameMeantForIt
    <3> QED BY <3>2, <3>4 DEF NamesInv, NamesFollow
  <2>11. CASE UNCHANGED Names!vars
    <3>1. UNCHANGED <<names, notes, namesView, renamingId, renameValue, namesCalls, namesAnswers,
                      typed, namesFailed>>
      BY <2>11 DEF Names!vars
    <3>2. NamesTyping' /\ NamesMeant'
      BY <2>0, <3>1 DEF NamesTyping, NamesMeant, Names!NameMeantForIt
    <3> QED BY <2>0, <3>1, <3>2, NamesStay DEF NamesInv, ReadDue
  <2> QED BY <2>1, <2>2, <2>3, <2>4, <2>5, <2>6, <2>7, <2>8, <2>9, <2>10, <2>11
          DEF Names!Next, Names0
<1>3. NamesInv => Names!NamesHonest
  <2> SUFFICES ASSUME NamesInv PROVE Names!NamesHonest
    OBVIOUS
  <2>1. Names!NamesShown
    BY DEF NamesInv, NamesFollow, Names!NamesShown, ReadDue, Closes
  <2> QED BY <2>1 DEF NamesInv, NamesMeant, Names!NamesHonest
<1> QED BY <1>1, <1>2, <1>3, PTL DEF Names!Spec

------------------------------------------------------------------------------
(* The settings *)

Stored == [hotkey : Combo, startup : BOOLEAN, limit : Limit]
SettingsApart == None \notin Stored /\ Combo # {} /\ Limit # {}

Reads == [do : {"get_settings"}, arg : {None}]
HotkeySets == [do : {"set_hotkey"}, arg : Combo]
StartupSets == [do : {"set_launch_at_startup"}, arg : BOOLEAN]
LimitSets == [do : {"set_history_limit"}, arg : Limit]
Commands == Reads \cup HotkeySets \cup StartupSets \cup LimitSets
Replies == {r \in [to : Commands, ok : BOOLEAN, view : Stored \cup {None}] :
              r.to.do = "get_settings" => r.view \in Stored}

SettingsTyping ==
  /\ memory \in Stored /\ settingsDisk \in Stored /\ settingsView \in Stored \cup {None}
  /\ settingsCalls \in Seq(Commands) /\ settingsAnswers \in Seq(Replies)
  /\ settingsChecks \in Seq({"check", "download"}) /\ autostart \in BOOLEAN

\* No other shortcut than that of the settings is held, and that one is, but for
\* the two causes.
OneHeld ==
  /\ registered \subseteq {memory.hotkey}
  /\ settingsCauses \cap {"taken", "sameAgain"} = {} => registered = {memory.hotkey}

SettingsDue == \E k \in DOMAIN settingsCalls : settingsCalls[k].do = "get_settings"
FirstComes ==
  settingsView = None => \/ SettingsDue
                         \/ \E k \in DOMAIN settingsAnswers :
                              settingsAnswers[k].to.do = "get_settings"

\* The answers that say something of a setting, and those of them that are true; a
\* change of the startup entry is followed by another read.
StartupTold == {r \in Replies : r.to.do \in {"get_settings", "set_launch_at_startup"}}
StartupTrue == {r \in Replies : r.to.do = "get_settings" => r.view.startup = autostart}
HotkeyTold == {r \in Replies : r.to.do = "get_settings" \/ (r.to.do = "set_hotkey" /\ r.ok)}
HotkeyTrue == {r \in Replies :
  IF r.to.do = "get_settings" THEN r.view.hotkey = memory.hotkey ELSE r.to.arg = memory.hotkey}
LimitTold == {r \in Replies : r.to.do = "get_settings" \/ (r.to.do = "set_history_limit" /\ r.ok)}
LimitTrue == {r \in Replies :
  IF r.to.do = "get_settings" THEN r.view.limit = memory.limit ELSE r.to.arg = memory.limit}

\* The last answer on its way is true, or none is and the window shows the truth.
ToggleFollows ==
  \/ settingsCauses \cap {"outside", "unread"} # {}
  \/ SettingsDue
  \/ Closes(settingsAnswers, StartupTold, StartupTrue)
  \/ /\ Lacks(settingsAnswers, StartupTold)
     /\ settingsView # None => settingsView.startup = autostart
HotkeyFollows ==
  \/ "hotkeyUnsaved" \in settingsCauses
  \/ Closes(settingsAnswers, HotkeyTold, HotkeyTrue)
  \/ /\ Lacks(settingsAnswers, HotkeyTold)
     /\ settingsView # None => settingsView.hotkey = memory.hotkey
LimitFollows ==
  \/ "limitUnsaved" \in settingsCauses
  \/ Closes(settingsAnswers, LimitTold, LimitTrue)
  \/ /\ Lacks(settingsAnswers, LimitTold)
     /\ settingsView # None => settingsView.limit = memory.limit

SettingsInv ==
  /\ SettingsTyping /\ OneHeld /\ FirstComes
  /\ ToggleFollows /\ HotkeyFollows /\ LimitFollows /\ Settings!UpdateSettles

\* What comes and goes in a queue besides A.
Passes(q, r, S, A) ==
  \/ r = q
  \/ \E a \in S \ A : r = Append(q, a)
  \/ q # <<>> /\ Head(q) \notin A /\ r = Tail(q)

LEMMA ClosesPassed ==
  ASSUME NEW S, NEW q \in Seq(S), NEW r, NEW A, NEW G, Passes(q, r, S, A)
  PROVE  /\ Closes(q, A, G) => Closes(r, A, G)
         /\ Lacks(q, A) => Lacks(r, A)
<1>1. CASE r = q
  BY <1>1
<1>2. ASSUME NEW a \in S \ A, r = Append(q, a)
      PROVE  (Closes(q, A, G) => Closes(r, A, G)) /\ (Lacks(q, A) => Lacks(r, A))
  BY <1>2, ClosesAdded
<1>3. CASE q # <<>> /\ Head(q) \notin A /\ r = Tail(q)
  BY <1>3, ClosesTaken
<1> QED BY <1>1, <1>2, <1>3 DEF Passes

\* What says nothing of the startup entry leaves the toggle as true as it was.
LEMMA ToggleStays ==
  ASSUME SettingsTyping, ToggleFollows, autostart' = autostart, SettingsDue => SettingsDue',
         settingsCauses \cap {"outside", "unread"} \subseteq settingsCauses',
         Passes(settingsAnswers, settingsAnswers', Replies, StartupTold),
         settingsView' # None => settingsView # None /\ settingsView'.startup = settingsView.startup
  PROVE  ToggleFollows'
<1>1. StartupTold' = StartupTold /\ StartupTrue' = StartupTrue
  BY DEF StartupTold, StartupTrue
<1>2. /\ Closes(settingsAnswers, StartupTold, StartupTrue)
           => Closes(settingsAnswers', StartupTold, StartupTrue)
      /\ Lacks(settingsAnswers, StartupTold) => Lacks(settingsAnswers', StartupTold)
  BY ClosesPassed DEF SettingsTyping
<1>3. CASE settingsCauses \cap {"outside", "unread"} # {}
  BY <1>3 DEF ToggleFollows
<1>4. CASE SettingsDue \/ Closes(settingsAnswers, StartupTold, StartupTrue)
  BY <1>1, <1>2, <1>4 DEF ToggleFollows
<1>5. CASE /\ Lacks(settingsAnswers, StartupTold)
           /\ settingsView # None => settingsView.startup = autostart
  <2>1. settingsView' # None => settingsView'.startup = autostart'
    BY <1>5
  <2> QED BY <1>1, <1>2, <1>5, <2>1 DEF ToggleFollows
<1> QED BY <1>3, <1>4, <1>5 DEF ToggleFollows

LEMMA HotkeyStays ==
  ASSUME SettingsTyping, HotkeyFollows, memory'.hotkey = memory.hotkey,
         "hotkeyUnsaved" \in settingsCauses => "hotkeyUnsaved" \in settingsCauses',
         Passes(settingsAnswers, settingsAnswers', Replies, HotkeyTold),
         settingsView' # None => settingsView # None /\ settingsView'.hotkey = settingsView.hotkey
  PROVE  HotkeyFollows'
<1>1. HotkeyTold' = HotkeyTold /\ HotkeyTrue' = HotkeyTrue
  BY DEF HotkeyTold, HotkeyTrue
<1>2. /\ Closes(settingsAnswers, HotkeyTold, HotkeyTrue)
           => Closes(settingsAnswers', HotkeyTold, HotkeyTrue)
      /\ Lacks(settingsAnswers, HotkeyTold) => Lacks(settingsAnswers', HotkeyTold)
  BY ClosesPassed DEF SettingsTyping
<1> QED BY <1>1, <1>2 DEF HotkeyFollows

LEMMA LimitStays ==
  ASSUME SettingsTyping, LimitFollows, memory'.limit = memory.limit,
         "limitUnsaved" \in settingsCauses => "limitUnsaved" \in settingsCauses',
         Passes(settingsAnswers, settingsAnswers', Replies, LimitTold),
         settingsView' # None => settingsView # None /\ settingsView'.limit = settingsView.limit
  PROVE  LimitFollows'
<1>1. LimitTold' = LimitTold /\ LimitTrue' = LimitTrue
  BY DEF LimitTold, LimitTrue
<1>2. /\ Closes(settingsAnswers, LimitTold, LimitTrue)
           => Closes(settingsAnswers', LimitTold, LimitTrue)
      /\ Lacks(settingsAnswers, LimitTold) => Lacks(settingsAnswers', LimitTold)
  BY ClosesPassed DEF SettingsTyping
<1> QED BY <1>1, <1>2 DEF LimitFollows

\* What each command and each answer carries.
LEMMA CommandsCarry ==
  ASSUME NEW c \in Commands
  PROVE  /\ c.do = "set_hotkey" => c.arg \in Combo
         /\ c.do = "set_launch_at_startup" => c.arg \in BOOLEAN
         /\ c.do = "set_history_limit" => c.arg \in Limit
BY DEF Commands, Reads, HotkeySets, StartupSets, LimitSets

LEMMA CommandsGiven ==
  /\ Settings!Read \in Commands /\ Settings!Read.do = "get_settings"
  /\ \A c \in Combo : Settings!SetHotkey(c) \in Commands
  /\ \A on \in BOOLEAN : Settings!SetStartup(on) \in Commands
  /\ \A n \in Limit : Settings!SetLimit(n) \in Commands
<1> USE DEF Commands
<1>1. Settings!Read \in Commands /\ Settings!Read.do = "get_settings"
  BY DEF Settings!Read, Reads
<1>2. \A c \in Combo : Settings!SetHotkey(c) \in Commands
  BY DEF Settings!SetHotkey, HotkeySets
<1>3. \A on \in BOOLEAN : Settings!SetStartup(on) \in Commands
  BY DEF Settings!SetStartup, StartupSets
<1>4. \A n \in Limit : Settings!SetLimit(n) \in Commands
  BY DEF Settings!SetLimit, LimitSets
<1> QED BY <1>1, <1>2, <1>3, <1>4

\* An answer to anything but a read.
LEMMA Replied ==
  ASSUME NEW c \in Commands, c.do # "get_settings", NEW ok \in BOOLEAN
  PROVE  /\ Settings!Answer(c, ok) \in Replies
         /\ Settings!Answer(c, ok).to = c /\ Settings!Answer(c, ok).ok = ok
<1>1. Settings!Answer(c, ok) = [to |-> c, ok |-> ok, view |-> None]
  BY DEF Settings!Answer
<1> QED BY <1>1 DEF Replies

\* A command is given: nothing else changes.
LEMMA SettingsGiven ==
  ASSUME SettingsTyping, NEW c \in Commands, settingsCalls' = Append(settingsCalls, c)
  PROVE  /\ settingsCalls' \in Seq(Commands) /\ (SettingsDue => SettingsDue')
         /\ c.do = "get_settings" => SettingsDue'
<1>1. /\ settingsCalls' \in Seq(Commands)
      /\ DOMAIN settingsCalls' = DOMAIN settingsCalls \cup {Len(settingsCalls) + 1}
      /\ settingsCalls'[Len(settingsCalls) + 1] = c
      /\ \A k \in DOMAIN settingsCalls : settingsCalls'[k] = settingsCalls[k]
  BY Added DEF SettingsTyping
<1> QED BY <1>1 DEF SettingsDue

\* A command is taken.
LEMMA SettingsTaken ==
  ASSUME SettingsTyping, settingsCalls # <<>>, settingsCalls' = Tail(settingsCalls)
  PROVE  /\ settingsCalls' \in Seq(Commands) /\ Head(settingsCalls) \in Commands
         /\ SettingsDue => SettingsDue' \/ Head(settingsCalls).do = "get_settings"
<1>1. /\ Head(settingsCalls) \in Commands /\ Head(settingsCalls) = settingsCalls[1]
      /\ settingsCalls' \in Seq(Commands)
      /\ \A k \in DOMAIN settingsCalls : k # 1 =>
           k - 1 \in DOMAIN settingsCalls' /\ settingsCalls[k] = settingsCalls'[k - 1]
  BY Taken DEF SettingsTyping
<1> QED BY <1>1 DEF SettingsDue

\* An answer is given, and the window still waits for its first.
LEMMA SettingsReplied ==
  ASSUME SettingsTyping, FirstComes, NEW a \in Replies,
         settingsAnswers' = Append(settingsAnswers, a),
         SettingsDue => SettingsDue' \/ a.to.do = "get_settings", settingsView' = settingsView
  PROVE  settingsAnswers' \in Seq(Replies) /\ FirstComes'
<1>1. /\ settingsAnswers' \in Seq(Replies)
      /\ DOMAIN settingsAnswers' = DOMAIN settingsAnswers \cup {Len(settingsAnswers) + 1}
      /\ settingsAnswers'[Len(settingsAnswers) + 1] = a
      /\ \A k \in DOMAIN settingsAnswers : settingsAnswers'[k] = settingsAnswers[k]
  BY Added DEF SettingsTyping
<1> QED BY <1>1 DEF FirstComes

\* An answer is read.
LEMMA SettingsHeard ==
  ASSUME SettingsTyping, FirstComes, settingsAnswers # <<>>,
         settingsAnswers' = Tail(settingsAnswers),
         SettingsDue => SettingsDue', settingsView' = None => settingsView = None
  PROVE  /\ settingsAnswers' \in Seq(Replies) /\ Head(settingsAnswers) \in Replies
         /\ Head(settingsAnswers).to.do # "get_settings" => FirstComes'
<1>1. /\ Head(settingsAnswers) \in Replies /\ Head(settingsAnswers) = settingsAnswers[1]
      /\ settingsAnswers' \in Seq(Replies)
      /\ \A k \in DOMAIN settingsAnswers : k # 1 =>
           k - 1 \in DOMAIN settingsAnswers' /\ settingsAnswers[k] = settingsAnswers'[k - 1]
  BY Taken DEF SettingsTyping
<1> QED BY <1>1 DEF FirstComes

\* An update check is taken off the list.
LEMMA CheckDropped ==
  ASSUME SettingsTyping, NEW k \in DOMAIN settingsChecks, Settings!Drop(k)
  PROVE  settingsChecks' \in Seq({"check", "download"})
<1> DEFINE C == {"check", "download"}
           m == Len(settingsChecks)
<1>1. settingsChecks \in Seq(C) /\ m \in Nat /\ k \in 1 .. m
  BY LenProperties DEF SettingsTyping
<1>2. settingsChecks' = SubSeq(settingsChecks, 1, k - 1) \o SubSeq(settingsChecks, k + 1, m)
  BY DEF Settings!Drop
<1>3. \A i \in 1 .. m : settingsChecks[i] \in C
  BY <1>1, ElementOfSeq
<1> HIDE DEF C, m
<1>4. SubSeq(settingsChecks, 1, k - 1) \in Seq(C)
  BY <1>1, <1>3, SubSeqProperties DEF m
<1>5. SubSeq(settingsChecks, k + 1, m) \in Seq(C)
  BY <1>1, <1>3, SubSeqProperties DEF m
<1> QED BY <1>2, <1>4, <1>5, ConcatProperties DEF C

\* What only gives a command, or an update check: the settings are as they were.
LEMMA SettingsIdle ==
  ASSUME SettingsInv,
         UNCHANGED <<memory, settingsDisk, autostart, registered, settingsCauses, settingsView,
                     settingsAnswers>>,
         settingsCalls' \in Seq(Commands), SettingsDue => SettingsDue',
         settingsChecks' \in Seq({"check", "download"}), Settings!UpdateSettles'
  PROVE  SettingsInv'
<1>a. SettingsTyping'
  BY DEF SettingsInv, SettingsTyping
<1>b. OneHeld'
  BY DEF SettingsInv, OneHeld
<1>c. FirstComes'
  BY DEF SettingsInv, FirstComes
<1>2. Passes(settingsAnswers, settingsAnswers', Replies, StartupTold)
  BY DEF Passes
<1>3. Passes(settingsAnswers, settingsAnswers', Replies, HotkeyTold)
  BY DEF Passes
<1>4. Passes(settingsAnswers, settingsAnswers', Replies, LimitTold)
  BY DEF Passes
<1>5. ToggleFollows'
  BY <1>2, ToggleStays DEF SettingsInv
<1>6. HotkeyFollows'
  BY <1>3, HotkeyStays DEF SettingsInv
<1>7. LimitFollows'
  BY <1>4, LimitStays DEF SettingsInv
<1> QED BY <1>a, <1>b, <1>c, <1>5, <1>6, <1>7 DEF SettingsInv

\* The settings are read: the last answer is true of all three.
LEMMA SettingsRead ==
  ASSUME SettingsInv, Settings!RunRead
  PROVE  SettingsInv'
<1> USE DEF SettingsInv
<1>0. PICK on \in {autostart, memory.startup} :
        /\ settingsAnswers' = Append(settingsAnswers,
             [Settings!Answer(Settings!Read, TRUE) EXCEPT !.view = [memory EXCEPT !.startup = on]])
        /\ IF on = autostart
           THEN settingsCauses' = settingsCauses \ {"outside", "unread", "hotkeyUnsaved", "limitUnsaved"}
           ELSE settingsCauses' = settingsCauses \cup {"unread"}
  BY DEF Settings!RunRead, Settings!Answer
<1>1. /\ settingsCalls # <<>> /\ settingsCalls' = Tail(settingsCalls)
      /\ UNCHANGED <<memory, settingsDisk, autostart, registered, settingsView, update, settingsChecks>>
  BY DEF Settings!RunRead, Settings!Running, Settings!backend, Settings!window,
     Settings!updating
<1> DEFINE v == [memory EXCEPT !.startup = on]
           a == [Settings!Answer(Settings!Read, TRUE) EXCEPT !.view = v]
<1>2. /\ v.hotkey = memory.hotkey /\ v.limit = memory.limit /\ v.startup = on /\ v \in Stored
  <2>1. PICK r \in Stored : memory = r
    BY DEF SettingsTyping
  <2>2. autostart \in BOOLEAN /\ memory.startup \in BOOLEAN
    BY <2>1 DEF SettingsTyping, Stored
  <2>3. on \in BOOLEAN
    BY <2>2
  <2> QED BY <2>3 DEF SettingsTyping, Stored
<1>3. PICK r : r = Settings!Answer(Settings!Read, TRUE)
  OBVIOUS
<1>4. a \in Replies /\ a.to.do = "get_settings" /\ a.view = v
  <2>1. \A ok \in BOOLEAN :
          /\ Settings!Answer(Settings!Read, ok) \in [to : Commands, ok : BOOLEAN, view : {None}]
          /\ Settings!Answer(Settings!Read, ok).to = Settings!Read
    BY CommandsGiven DEF Settings!Answer
  <2>2. r \in [to : Commands, ok : BOOLEAN, view : {None}] /\ r.to.do = "get_settings"
    BY <1>3, <2>1, CommandsGiven
  <2>3. a = [r EXCEPT !.view = v]
    BY <1>3
  <2> HIDE DEF a, v
  <2> QED BY <1>2, <2>2, <2>3 DEF Replies
<1> HIDE DEF v, a
<1>5. /\ settingsAnswers' = Append(settingsAnswers, a)
      /\ on # autostart => "unread" \in settingsCauses'
      /\ settingsCauses' \cap {"taken", "sameAgain"} = settingsCauses \cap {"taken", "sameAgain"}
  BY <1>0 DEF a, v
<1>6. settingsCalls' \in Seq(Commands) /\ settingsAnswers' \in Seq(Replies) /\ FirstComes'
  BY <1>1, <1>4, <1>5, SettingsTaken, SettingsReplied
<1>7. SettingsTyping'
  BY <1>1, <1>6 DEF SettingsTyping
<1>8. OneHeld'
  BY <1>1, <1>5 DEF OneHeld
<1>9. ToggleFollows'
  <2>1. CASE on = autostart
    <3>1. a \in StartupTold \cap StartupTrue
      BY <1>2, <1>4, <2>1 DEF StartupTold, StartupTrue
    <3>2. Closes(settingsAnswers', StartupTold, StartupTrue)
      BY <1>4, <1>5, <3>1, ClosesAdded DEF SettingsTyping
    <3>3. StartupTold' = StartupTold /\ StartupTrue' = StartupTrue
      BY <1>1 DEF StartupTold, StartupTrue
    <3> QED BY <3>2, <3>3 DEF ToggleFollows
  <2>2. CASE on # autostart
    BY <1>5, <2>2 DEF ToggleFollows
  <2> QED BY <2>1, <2>2
<1>10. HotkeyFollows'
  <2>1. a \in HotkeyTold \cap HotkeyTrue
    BY <1>2, <1>4 DEF HotkeyTold, HotkeyTrue
  <2>2. Closes(settingsAnswers', HotkeyTold, HotkeyTrue)
    BY <1>4, <1>5, <2>1, ClosesAdded DEF SettingsTyping
  <2>3. HotkeyTold' = HotkeyTold /\ HotkeyTrue' = HotkeyTrue
    BY <1>1 DEF HotkeyTold, HotkeyTrue
  <2> QED BY <2>2, <2>3 DEF HotkeyFollows
<1>11. LimitFollows'
  <2>1. a \in LimitTold \cap LimitTrue
    BY <1>2, <1>4 DEF LimitTold, LimitTrue
  <2>2. Closes(settingsAnswers', LimitTold, LimitTrue)
    BY <1>4, <1>5, <2>1, ClosesAdded DEF SettingsTyping
  <2>3. LimitTold' = LimitTold /\ LimitTrue' = LimitTrue
    BY <1>1 DEF LimitTold, LimitTrue
  <2> QED BY <2>2, <2>3 DEF LimitFollows
<1>12. Settings!UpdateSettles'
  BY <1>1 DEF Settings!UpdateSettles
<1> QED BY <1>6, <1>7, <1>8, <1>9, <1>10, <1>11, <1>12

\* A setting is changed in memory, and in the file unless that fails.
LEMMA SettingsKept ==
  ASSUME NEW s, NEW base, NEW unsaved, Settings!Save(s, base, unsaved), s \in Stored,
         SettingsTyping
  PROVE  /\ memory' = s /\ settingsDisk' \in Stored
         /\ \E ok \in BOOLEAN :
              /\ settingsAnswers' = Append(settingsAnswers, Settings!Answer(Head(settingsCalls), ok))
              /\ base \subseteq settingsCauses' /\ settingsCauses' \subseteq base \cup {unsaved}
              /\ ok \/ unsaved \in settingsCauses'
<1>1. CASE settingsDisk' = s /\ Settings!Reply(TRUE) /\ settingsCauses' = base
  BY <1>1 DEF Settings!Save, Settings!Reply
<1>2. CASE Settings!Fails /\ Settings!Reply(FALSE) /\ settingsCauses' = base \cup {unsaved}
           /\ UNCHANGED settingsDisk
  BY <1>2 DEF Settings!Save, Settings!Reply, SettingsTyping
<1> QED BY <1>1, <1>2 DEF Settings!Save

LEMMA HotkeyRun ==
  ASSUME SettingsInv, Settings!RunSetHotkey
  PROVE  SettingsInv'
<1> USE DEF SettingsInv
<1> DEFINE c == Head(settingsCalls)
           s == [memory EXCEPT !.hotkey = c.arg]
           base == (settingsCauses \ {"taken", "sameAgain"})
                      \cup (IF c.arg = memory.hotkey THEN {"sameAgain"} ELSE {})
<1>1. /\ settingsCalls # <<>> /\ settingsCalls' = Tail(settingsCalls) /\ c.do = "set_hotkey"
      /\ c.arg \notin registered
      /\ registered' = (registered \cup {c.arg}) \ {memory.hotkey}
      /\ UNCHANGED <<autostart, settingsView, update, settingsChecks>>
  BY DEF Settings!RunSetHotkey, Settings!Running, Settings!RegisterNew, Settings!window,
         Settings!updating
<1>2. Settings!Save(s, base, "hotkeyUnsaved")
  BY DEF Settings!RunSetHotkey
<1>3. c \in Commands /\ settingsCalls' \in Seq(Commands) /\ (SettingsDue => SettingsDue')
  BY <1>1, SettingsTaken
<1>4. c.arg \in Combo
  BY <1>1, <1>3, CommandsCarry
<1>5. s \in Stored /\ s.hotkey = c.arg /\ s.limit = memory.limit
  BY <1>4 DEF SettingsTyping, Stored
<1>6. base \cap {"outside", "unread", "limitUnsaved"}
        = settingsCauses \cap {"outside", "unread", "limitUnsaved"}
  OBVIOUS
<1>7. base \cap {"taken", "sameAgain"} = {} => c.arg # memory.hotkey
  OBVIOUS
<1> HIDE DEF c, s, base
<1>8. /\ memory' = s /\ settingsDisk' \in Stored
      /\ \E ok \in BOOLEAN :
           /\ settingsAnswers' = Append(settingsAnswers, Settings!Answer(c, ok))
           /\ base \subseteq settingsCauses' /\ settingsCauses' \subseteq base \cup {"hotkeyUnsaved"}
           /\ ok \/ "hotkeyUnsaved" \in settingsCauses'
  BY <1>2, <1>5, SettingsKept DEF c
<1>9. PICK ok \in BOOLEAN :
        /\ settingsAnswers' = Append(settingsAnswers, Settings!Answer(c, ok))
        /\ base \subseteq settingsCauses' /\ settingsCauses' \subseteq base \cup {"hotkeyUnsaved"}
        /\ ok \/ "hotkeyUnsaved" \in settingsCauses'
  BY <1>8
<1> DEFINE a == Settings!Answer(c, ok)
<1>10. a \in Replies /\ a.to = c /\ a.ok = ok
  BY <1>1, <1>3, Replied
<1> HIDE DEF a
<1>11. settingsAnswers' = Append(settingsAnswers, a)
  BY <1>9 DEF a
<1>12. settingsAnswers' \in Seq(Replies) /\ FirstComes'
  BY <1>1, <1>3, <1>10, <1>11, SettingsReplied
<1>13. SettingsTyping'
  BY <1>1, <1>3, <1>5, <1>8, <1>12 DEF SettingsTyping
<1>14. OneHeld'
  <2>1. memory'.hotkey = c.arg
    BY <1>5, <1>8
  <2>2. registered \subseteq {memory.hotkey}
    BY DEF OneHeld
  <2>3. registered' \subseteq {c.arg} /\ (c.arg # memory.hotkey => registered' = {c.arg})
    BY <1>1, <2>2
  <2>4. settingsCauses' \cap {"taken", "sameAgain"} = {} => c.arg # memory.hotkey
    BY <1>7, <1>9
  <2> QED BY <2>1, <2>3, <2>4 DEF OneHeld
<1>15. ToggleFollows'
  <2>1. a \notin StartupTold
    BY <1>1, <1>10 DEF StartupTold
  <2>2. Passes(settingsAnswers, settingsAnswers', Replies, StartupTold)
    BY <1>10, <1>11, <2>1 DEF Passes
  <2>3. settingsCauses \cap {"outside", "unread"} \subseteq settingsCauses'
    BY <1>6, <1>9
  <2> QED BY <1>1, <1>3, <2>2, <2>3, ToggleStays
<1>16. HotkeyFollows'
  <2>1. CASE ok
    <3>1. a \in HotkeyTold
      BY <1>1, <1>10, <2>1 DEF HotkeyTold
    <3>2. a \in HotkeyTrue' /\ HotkeyTold' = HotkeyTold
      BY <1>1, <1>5, <1>8, <1>10 DEF HotkeyTrue, HotkeyTold
    <3>3. Closes(settingsAnswers', HotkeyTold', HotkeyTrue')
      BY <1>10, <1>11, <3>1, <3>2, ClosesAdded DEF SettingsTyping
    <3> QED BY <3>3 DEF HotkeyFollows
  <2>2. CASE ~ok
    BY <1>9, <2>2 DEF HotkeyFollows
  <2> QED BY <2>1, <2>2
<1>17. LimitFollows'
  <2>1. a \notin LimitTold
    BY <1>1, <1>10 DEF LimitTold
  <2>2. Passes(settingsAnswers, settingsAnswers', Replies, LimitTold)
    BY <1>10, <1>11, <2>1 DEF Passes
  <2>3. "limitUnsaved" \in settingsCauses => "limitUnsaved" \in settingsCauses'
    BY <1>6, <1>9
  <2> QED BY <1>1, <1>5, <1>8, <2>2, <2>3, LimitStays
<1>18. Settings!UpdateSettles'
  BY <1>1 DEF Settings!UpdateSettles
<1> QED BY <1>12, <1>13, <1>14, <1>15, <1>16, <1>17, <1>18

LEMMA LimitRun ==
  ASSUME SettingsInv, Settings!RunSetLimit
  PROVE  SettingsInv'
<1> USE DEF SettingsInv
<1> DEFINE c == Head(settingsCalls)
           s == [memory EXCEPT !.limit = c.arg]
<1>1. /\ settingsCalls # <<>> /\ settingsCalls' = Tail(settingsCalls) /\ c.do = "set_history_limit"
      /\ UNCHANGED <<autostart, registered, settingsView, update, settingsChecks>>
  BY DEF Settings!RunSetLimit, Settings!Running, Settings!window, Settings!updating
<1>2. Settings!Save(s, settingsCauses, "limitUnsaved")
  BY DEF Settings!RunSetLimit
<1>3. c \in Commands /\ settingsCalls' \in Seq(Commands) /\ (SettingsDue => SettingsDue')
  BY <1>1, SettingsTaken
<1>4. c.arg \in Limit
  BY <1>1, <1>3, CommandsCarry
<1>5. s \in Stored /\ s.limit = c.arg /\ s.hotkey = memory.hotkey
  BY <1>4 DEF SettingsTyping, Stored
<1> HIDE DEF c, s
<1>6. /\ memory' = s /\ settingsDisk' \in Stored
      /\ \E ok \in BOOLEAN :
           /\ settingsAnswers' = Append(settingsAnswers, Settings!Answer(c, ok))
           /\ settingsCauses \subseteq settingsCauses'
           /\ settingsCauses' \subseteq settingsCauses \cup {"limitUnsaved"}
           /\ ok \/ "limitUnsaved" \in settingsCauses'
  BY <1>2, <1>5, SettingsKept DEF c
<1>7. PICK ok \in BOOLEAN :
        /\ settingsAnswers' = Append(settingsAnswers, Settings!Answer(c, ok))
        /\ settingsCauses \subseteq settingsCauses'
        /\ settingsCauses' \subseteq settingsCauses \cup {"limitUnsaved"}
        /\ ok \/ "limitUnsaved" \in settingsCauses'
  BY <1>6
<1> DEFINE a == Settings!Answer(c, ok)
<1>8. a \in Replies /\ a.to = c /\ a.ok = ok
  BY <1>1, <1>3, Replied
<1> HIDE DEF a
<1>9. settingsAnswers' = Append(settingsAnswers, a)
  BY <1>7 DEF a
<1>10. settingsAnswers' \in Seq(Replies) /\ FirstComes'
  BY <1>1, <1>3, <1>8, <1>9, SettingsReplied
<1>11. SettingsTyping'
  BY <1>1, <1>3, <1>5, <1>6, <1>10 DEF SettingsTyping
<1>12. OneHeld'
  BY <1>1, <1>5, <1>6, <1>7 DEF OneHeld
<1>13. ToggleFollows'
  <2>1. a \notin StartupTold
    BY <1>1, <1>8 DEF StartupTold
  <2>2. Passes(settingsAnswers, settingsAnswers', Replies, StartupTold)
    BY <1>8, <1>9, <2>1 DEF Passes
  <2> QED BY <1>1, <1>3, <1>7, <2>2, ToggleStays
<1>14. HotkeyFollows'
  <2>1. a \notin HotkeyTold
    BY <1>1, <1>8 DEF HotkeyTold
  <2>2. Passes(settingsAnswers, settingsAnswers', Replies, HotkeyTold)
    BY <1>8, <1>9, <2>1 DEF Passes
  <2> QED BY <1>1, <1>5, <1>6, <1>7, <2>2, HotkeyStays
<1>15. LimitFollows'
  <2>1. CASE ok
    <3>1. a \in LimitTold
      BY <1>1, <1>8, <2>1 DEF LimitTold
    <3>2. a \in LimitTrue' /\ LimitTold' = LimitTold
      BY <1>1, <1>5, <1>6, <1>8 DEF LimitTrue, LimitTold
    <3>3. Closes(settingsAnswers', LimitTold', LimitTrue')
      BY <1>8, <1>9, <3>1, <3>2, ClosesAdded DEF SettingsTyping
    <3> QED BY <3>3 DEF LimitFollows
  <2>2. CASE ~ok
    BY <1>7, <2>2 DEF LimitFollows
  <2> QED BY <2>1, <2>2
<1>16. Settings!UpdateSettles'
  BY <1>1 DEF Settings!UpdateSettles
<1> QED BY <1>10, <1>11, <1>12, <1>13, <1>14, <1>15, <1>16

\* The startup entry is written, and the wish kept; or the entry is not written, and
\* nothing changes.  The answer makes the window read again.
LEMMA StartupRun ==
  ASSUME SettingsInv, Settings!RunSetStartup
  PROVE  SettingsInv'
<1> USE DEF SettingsInv
<1> DEFINE c == Head(settingsCalls)
           s == [memory EXCEPT !.startup = c.arg]
<1>1. /\ settingsCalls # <<>> /\ settingsCalls' = Tail(settingsCalls)
      /\ c.do = "set_launch_at_startup"
      /\ UNCHANGED <<registered, settingsView, update, settingsChecks>>
  BY DEF Settings!RunSetStartup, Settings!Running, Settings!window, Settings!updating
<1>2. \/ autostart' = c.arg /\ Settings!Save(s, settingsCauses, "startupUnsaved")
      \/ Settings!Reply(FALSE) /\ UNCHANGED <<memory, settingsDisk, autostart, settingsCauses>>
  BY DEF Settings!RunSetStartup
<1>3. c \in Commands /\ settingsCalls' \in Seq(Commands) /\ (SettingsDue => SettingsDue')
  BY <1>1, SettingsTaken
<1>4. c.arg \in BOOLEAN
  BY <1>1, <1>3, CommandsCarry
<1>5. s \in Stored /\ s.limit = memory.limit /\ s.hotkey = memory.hotkey
  BY <1>4 DEF SettingsTyping, Stored
<1> HIDE DEF c, s
<1>6. /\ memory' \in Stored /\ memory'.limit = memory.limit /\ memory'.hotkey = memory.hotkey
      /\ settingsDisk' \in Stored
      /\ \E ok \in BOOLEAN :
           settingsAnswers' = Append(settingsAnswers, Settings!Answer(c, ok))
      /\ settingsCauses \subseteq settingsCauses'
      /\ settingsCauses' \subseteq settingsCauses \cup {"startupUnsaved"}
  <2>1. CASE Settings!Save(s, settingsCauses, "startupUnsaved")
    <3>1. /\ memory' = s /\ settingsDisk' \in Stored
          /\ \E ok \in BOOLEAN :
               /\ settingsAnswers' = Append(settingsAnswers, Settings!Answer(c, ok))
               /\ settingsCauses \subseteq settingsCauses'
               /\ settingsCauses' \subseteq settingsCauses \cup {"startupUnsaved"}
               /\ ok \/ "startupUnsaved" \in settingsCauses'
      BY <1>5, <2>1, SettingsKept DEF c
    <3> QED BY <1>5, <3>1
  <2>2. CASE Settings!Reply(FALSE) /\ UNCHANGED <<memory, settingsDisk, autostart, settingsCauses>>
    <3>1. \E ok \in BOOLEAN : settingsAnswers' = Append(settingsAnswers, Settings!Answer(c, ok))
      BY <2>2 DEF Settings!Reply, c
    <3> QED BY <2>2, <3>1 DEF SettingsTyping
  <2> QED BY <1>2, <2>1, <2>2
<1>7. PICK ok \in BOOLEAN : settingsAnswers' = Append(settingsAnswers, Settings!Answer(c, ok))
  BY <1>6
<1> DEFINE a == Settings!Answer(c, ok)
<1>8. a \in Replies /\ a.to = c
  BY <1>1, <1>3, Replied
<1> HIDE DEF a
<1>9. settingsAnswers' = Append(settingsAnswers, a)
  BY <1>7 DEF a
<1>10. settingsAnswers' \in Seq(Replies) /\ FirstComes'
  BY <1>1, <1>3, <1>8, <1>9, SettingsReplied
<1>11. autostart' \in BOOLEAN
  <2>1. CASE autostart' = c.arg
    BY <1>4, <2>1
  <2>2. CASE autostart' = autostart
    BY <2>2 DEF SettingsTyping
  <2> QED BY <1>2, <2>1, <2>2
<1>12. SettingsTyping'
  BY <1>1, <1>3, <1>6, <1>10, <1>11 DEF SettingsTyping
<1>13. OneHeld'
  BY <1>1, <1>6 DEF OneHeld
<1>14. ToggleFollows'
  <2>1. a \in StartupTold \cap StartupTrue' /\ StartupTold' = StartupTold
    BY <1>1, <1>8 DEF StartupTold, StartupTrue
  <2>2. Closes(settingsAnswers', StartupTold', StartupTrue')
    BY <1>8, <1>9, <2>1, ClosesAdded DEF SettingsTyping
  <2> QED BY <2>2 DEF ToggleFollows
<1>15. HotkeyFollows'
  <2>1. a \notin HotkeyTold
    BY <1>1, <1>8 DEF HotkeyTold
  <2>2. Passes(settingsAnswers, settingsAnswers', Replies, HotkeyTold)
    BY <1>8, <1>9, <2>1 DEF Passes
  <2> QED BY <1>1, <1>6, <2>2, HotkeyStays
<1>16. LimitFollows'
  <2>1. a \notin LimitTold
    BY <1>1, <1>8 DEF LimitTold
  <2>2. Passes(settingsAnswers, settingsAnswers', Replies, LimitTold)
    BY <1>8, <1>9, <2>1 DEF Passes
  <2> QED BY <1>1, <1>6, <2>2, LimitStays
<1>17. Settings!UpdateSettles'
  BY <1>1 DEF Settings!UpdateSettles
<1> QED BY <1>10, <1>12, <1>13, <1>14, <1>15, <1>16, <1>17

\* A shortcut is refused: the answer says nothing of a setting.
LEMMA HotkeyRefused ==
  ASSUME SettingsInv, Settings!RunSetHotkeyTaken
  PROVE  SettingsInv'
<1> USE DEF SettingsInv
<1> DEFINE c == Head(settingsCalls)
           a == Settings!Answer(c, FALSE)
<1>1. /\ settingsCalls # <<>> /\ settingsCalls' = Tail(settingsCalls) /\ c.do = "set_hotkey"
      /\ settingsAnswers' = Append(settingsAnswers, a)
      /\ UNCHANGED <<memory, settingsDisk, autostart, registered, settingsCauses, settingsView,
                     update, settingsChecks>>
  BY DEF Settings!RunSetHotkeyTaken, Settings!Running, Settings!Reply, Settings!backend,
         Settings!window, Settings!updating
<1>2. c \in Commands /\ settingsCalls' \in Seq(Commands) /\ (SettingsDue => SettingsDue')
  BY <1>1, SettingsTaken
<1>3. a \in Replies /\ a.to = c /\ ~a.ok
  <2>1. \A ok \in BOOLEAN : /\ Settings!Answer(c, ok) \in Replies /\ Settings!Answer(c, ok).to = c
                            /\ Settings!Answer(c, ok).ok = ok
    BY <1>1, <1>2, Replied
  <2> QED BY <2>1
<1> HIDE DEF c, a
<1>4. settingsAnswers' \in Seq(Replies) /\ FirstComes'
  BY <1>1, <1>2, <1>3, SettingsReplied
<1>5. SettingsTyping'
  BY <1>1, <1>2, <1>4 DEF SettingsTyping
<1>6. OneHeld'
  BY <1>1 DEF OneHeld
<1>7. a \notin StartupTold /\ a \notin HotkeyTold /\ a \notin LimitTold
  BY <1>1, <1>3 DEF StartupTold, HotkeyTold, LimitTold
<1>8. ToggleFollows'
  <2>1. Passes(settingsAnswers, settingsAnswers', Replies, StartupTold)
    BY <1>1, <1>3, <1>7 DEF Passes
  <2> QED BY <1>1, <1>2, <2>1, ToggleStays
<1>9. HotkeyFollows'
  <2>1. Passes(settingsAnswers, settingsAnswers', Replies, HotkeyTold)
    BY <1>1, <1>3, <1>7 DEF Passes
  <2> QED BY <1>1, <2>1, HotkeyStays
<1>10. LimitFollows'
  <2>1. Passes(settingsAnswers, settingsAnswers', Replies, LimitTold)
    BY <1>1, <1>3, <1>7 DEF Passes
  <2> QED BY <1>1, <2>1, LimitStays
<1>11. Settings!UpdateSettles'
  BY <1>1 DEF Settings!UpdateSettles
<1> QED BY <1>4, <1>5, <1>6, <1>8, <1>9, <1>10, <1>11

\* The window shows what was read.
LEMMA SettingsShown ==
  ASSUME SettingsInv, Settings!ShowSettings, SettingsApart
  PROVE  SettingsInv'
<1> USE DEF SettingsInv
<1> DEFINE h == Head(settingsAnswers)
<1>1. /\ settingsAnswers # <<>> /\ settingsAnswers' = Tail(settingsAnswers)
      /\ h.to.do = "get_settings" /\ settingsView' = h.view
      /\ UNCHANGED <<memory, settingsDisk, autostart, registered, settingsCauses, settingsCalls,
                     update, settingsChecks>>
  BY DEF Settings!ShowSettings, Settings!Answered, Settings!backend, Settings!updating
<1>2. settingsAnswers' \in Seq(Replies) /\ h \in Replies
  BY <1>1, Taken DEF SettingsTyping
<1>3. h.view \in Stored /\ h.view # None
  BY <1>1, <1>2 DEF Replies, SettingsApart
<1> HIDE DEF h
<1>4. SettingsTyping' /\ FirstComes'
  BY <1>1, <1>2, <1>3 DEF SettingsTyping, FirstComes
<1>5. OneHeld'
  BY <1>1 DEF OneHeld
<1>6. ToggleFollows'
  <2>1. h \in StartupTold /\ (h \in StartupTrue => h.view.startup = autostart)
    BY <1>1, <1>2 DEF StartupTold, StartupTrue
  <2>2. /\ ~Lacks(settingsAnswers, StartupTold)
        /\ Closes(settingsAnswers, StartupTold, StartupTrue) =>
             \/ Closes(settingsAnswers', StartupTold, StartupTrue)
             \/ Lacks(settingsAnswers', StartupTold) /\ h \in StartupTrue
    BY <1>1, <2>1, ClosesTaken DEF SettingsTyping, h
  <2>3. StartupTold' = StartupTold /\ StartupTrue' = StartupTrue /\ (SettingsDue => SettingsDue')
    BY <1>1 DEF StartupTold, StartupTrue, SettingsDue
  <2> QED BY <1>1, <2>1, <2>2, <2>3 DEF ToggleFollows
<1>7. HotkeyFollows'
  <2>1. h \in HotkeyTold /\ (h \in HotkeyTrue => h.view.hotkey = memory.hotkey)
    BY <1>1, <1>2 DEF HotkeyTold, HotkeyTrue
  <2>2. /\ ~Lacks(settingsAnswers, HotkeyTold)
        /\ Closes(settingsAnswers, HotkeyTold, HotkeyTrue) =>
             \/ Closes(settingsAnswers', HotkeyTold, HotkeyTrue)
             \/ Lacks(settingsAnswers', HotkeyTold) /\ h \in HotkeyTrue
    BY <1>1, <2>1, ClosesTaken DEF SettingsTyping, h
  <2>3. HotkeyTold' = HotkeyTold /\ HotkeyTrue' = HotkeyTrue
    BY <1>1 DEF HotkeyTold, HotkeyTrue
  <2> QED BY <1>1, <2>1, <2>2, <2>3 DEF HotkeyFollows
<1>8. LimitFollows'
  <2>1. h \in LimitTold /\ (h \in LimitTrue => h.view.limit = memory.limit)
    BY <1>1, <1>2 DEF LimitTold, LimitTrue
  <2>2. /\ ~Lacks(settingsAnswers, LimitTold)
        /\ Closes(settingsAnswers, LimitTold, LimitTrue) =>
             \/ Closes(settingsAnswers', LimitTold, LimitTrue)
             \/ Lacks(settingsAnswers', LimitTold) /\ h \in LimitTrue
    BY <1>1, <2>1, ClosesTaken DEF SettingsTyping, h
  <2>3. LimitTold' = LimitTold /\ LimitTrue' = LimitTrue
    BY <1>1 DEF LimitTold, LimitTrue
  <2> QED BY <1>1, <2>1, <2>2, <2>3 DEF LimitFollows
<1>9. Settings!UpdateSettles'
  BY <1>1 DEF Settings!UpdateSettles
<1> QED BY <1>2, <1>4, <1>5, <1>6, <1>7, <1>8, <1>9

\* An accepted shortcut is shown where one was shown, and nothing else moves.
LEMMA HotkeyShown ==
  ASSUME SettingsInv, Settings!HotkeySet, SettingsApart
  PROVE  SettingsInv'
<1> USE DEF SettingsInv
<1> DEFINE h == Head(settingsAnswers)
<1>1. /\ settingsAnswers # <<>> /\ settingsAnswers' = Tail(settingsAnswers)
      /\ h.to.do = "set_hotkey"
      /\ IF h.ok THEN settingsView' = IF settingsView = None THEN None
                                      ELSE [settingsView EXCEPT !.hotkey = h.to.arg]
                 ELSE UNCHANGED settingsView
      /\ UNCHANGED <<memory, settingsDisk, autostart, registered, settingsCauses, settingsCalls,
                     update, settingsChecks>>
  BY DEF Settings!HotkeySet, Settings!Answered, Settings!With, Settings!backend,
     Settings!updating
<1>2. settingsAnswers' \in Seq(Replies) /\ h \in Replies
  BY <1>1, Taken DEF SettingsTyping
<1>3. h.to \in Commands
  BY <1>2 DEF Replies
<1>4. h.to.arg \in Combo
  BY <1>1, <1>3, CommandsCarry
<1> HIDE DEF h
<1>5. /\ settingsView' = None <=> settingsView = None
      /\ settingsView' # None =>
           /\ settingsView' \in Stored /\ settingsView'.startup = settingsView.startup
           /\ settingsView'.limit = settingsView.limit
           /\ settingsView'.hotkey = IF h.ok THEN h.to.arg ELSE settingsView.hotkey
  <2>1. CASE settingsView = None
    BY <1>1, <2>1
  <2>2. CASE settingsView # None /\ h.ok
    <3>1. settingsView \in Stored /\ settingsView' = [settingsView EXCEPT !.hotkey = h.to.arg]
      BY <1>1, <2>2 DEF SettingsTyping
    <3>2. settingsView' \in Stored
      BY <1>4, <3>1 DEF Stored
    <3> QED BY <2>2, <3>1, <3>2 DEF Stored, SettingsApart
  <2>3. CASE settingsView # None /\ ~h.ok
    BY <1>1, <2>3 DEF SettingsTyping
  <2> QED BY <2>1, <2>2, <2>3
<1>6. SettingsTyping'
  BY <1>1, <1>2, <1>5 DEF SettingsTyping
<1>7. OneHeld' /\ (SettingsDue => SettingsDue')
  BY <1>1 DEF OneHeld, SettingsDue
<1>8. FirstComes'
  BY <1>1, <1>5, <1>7, SettingsHeard DEF h
<1>9. ToggleFollows'
  <2>1. h \notin StartupTold
    BY <1>1 DEF StartupTold
  <2>2. Passes(settingsAnswers, settingsAnswers', Replies, StartupTold)
    BY <1>1, <2>1 DEF Passes, h
  <2> QED BY <1>1, <1>5, <1>7, <2>2, ToggleStays
<1>10. LimitFollows'
  <2>1. h \notin LimitTold
    BY <1>1 DEF LimitTold
  <2>2. Passes(settingsAnswers, settingsAnswers', Replies, LimitTold)
    BY <1>1, <2>1 DEF Passes, h
  <2> QED BY <1>1, <1>5, <2>2, LimitStays
<1>11. HotkeyFollows'
  <2>1. CASE h.ok
    <3>1. h \in HotkeyTold /\ (h \in HotkeyTrue => h.to.arg = memory.hotkey)
      BY <1>1, <1>2, <2>1 DEF HotkeyTold, HotkeyTrue
    <3>2. /\ ~Lacks(settingsAnswers, HotkeyTold)
          /\ Closes(settingsAnswers, HotkeyTold, HotkeyTrue) =>
               \/ Closes(settingsAnswers', HotkeyTold, HotkeyTrue)
               \/ Lacks(settingsAnswers', HotkeyTold) /\ h \in HotkeyTrue
      BY <1>1, <3>1, ClosesTaken DEF SettingsTyping, h
    <3>3. HotkeyTold' = HotkeyTold /\ HotkeyTrue' = HotkeyTrue
      BY <1>1 DEF HotkeyTold, HotkeyTrue
    <3>4. h \in HotkeyTrue => (settingsView' # None => settingsView'.hotkey = memory'.hotkey)
      BY <1>1, <1>5, <2>1, <3>1
    <3> QED BY <1>1, <3>2, <3>3, <3>4 DEF HotkeyFollows
  <2>2. CASE ~h.ok
    <3>1. h \notin HotkeyTold
      BY <1>1, <2>2 DEF HotkeyTold
    <3>2. Passes(settingsAnswers, settingsAnswers', Replies, HotkeyTold)
      BY <1>1, <3>1 DEF Passes, h
    <3> QED BY <1>1, <1>5, <2>2, <3>2, HotkeyStays
  <2> QED BY <2>1, <2>2
<1>12. Settings!UpdateSettles'
  BY <1>1 DEF Settings!UpdateSettles
<1> QED BY <1>6, <1>7, <1>8, <1>9, <1>10, <1>11, <1>12

LEMMA LimitShown ==
  ASSUME SettingsInv, Settings!LimitSet, SettingsApart
  PROVE  SettingsInv'
<1> USE DEF SettingsInv
<1> DEFINE h == Head(settingsAnswers)
<1>1. /\ settingsAnswers # <<>> /\ settingsAnswers' = Tail(settingsAnswers)
      /\ h.to.do = "set_history_limit"
      /\ IF h.ok THEN settingsView' = IF settingsView = None THEN None
                                      ELSE [settingsView EXCEPT !.limit = h.to.arg]
                 ELSE UNCHANGED settingsView
      /\ UNCHANGED <<memory, settingsDisk, autostart, registered, settingsCauses, settingsCalls,
                     update, settingsChecks>>
  BY DEF Settings!LimitSet, Settings!Answered, Settings!With, Settings!backend,
     Settings!updating
<1>2. settingsAnswers' \in Seq(Replies) /\ h \in Replies
  BY <1>1, Taken DEF SettingsTyping
<1>3. h.to \in Commands
  BY <1>2 DEF Replies
<1>4. h.to.arg \in Limit
  BY <1>1, <1>3, CommandsCarry
<1> HIDE DEF h
<1>5. /\ settingsView' = None <=> settingsView = None
      /\ settingsView' # None =>
           /\ settingsView' \in Stored /\ settingsView'.startup = settingsView.startup
           /\ settingsView'.hotkey = settingsView.hotkey
           /\ settingsView'.limit = IF h.ok THEN h.to.arg ELSE settingsView.limit
  <2>1. CASE settingsView = None
    BY <1>1, <2>1
  <2>2. CASE settingsView # None /\ h.ok
    <3>1. settingsView \in Stored /\ settingsView' = [settingsView EXCEPT !.limit = h.to.arg]
      BY <1>1, <2>2 DEF SettingsTyping
    <3>2. settingsView' \in Stored
      BY <1>4, <3>1 DEF Stored
    <3> QED BY <2>2, <3>1, <3>2 DEF Stored, SettingsApart
  <2>3. CASE settingsView # None /\ ~h.ok
    BY <1>1, <2>3 DEF SettingsTyping
  <2> QED BY <2>1, <2>2, <2>3
<1>6. SettingsTyping'
  BY <1>1, <1>2, <1>5 DEF SettingsTyping
<1>7. OneHeld' /\ (SettingsDue => SettingsDue')
  BY <1>1 DEF OneHeld, SettingsDue
<1>8. FirstComes'
  BY <1>1, <1>5, <1>7, SettingsHeard DEF h
<1>9. ToggleFollows'
  <2>1. h \notin StartupTold
    BY <1>1 DEF StartupTold
  <2>2. Passes(settingsAnswers, settingsAnswers', Replies, StartupTold)
    BY <1>1, <2>1 DEF Passes, h
  <2> QED BY <1>1, <1>5, <1>7, <2>2, ToggleStays
<1>10. HotkeyFollows'
  <2>1. h \notin HotkeyTold
    BY <1>1 DEF HotkeyTold
  <2>2. Passes(settingsAnswers, settingsAnswers', Replies, HotkeyTold)
    BY <1>1, <2>1 DEF Passes, h
  <2> QED BY <1>1, <1>5, <2>2, HotkeyStays
<1>11. LimitFollows'
  <2>1. CASE h.ok
    <3>1. h \in LimitTold /\ (h \in LimitTrue => h.to.arg = memory.limit)
      BY <1>1, <1>2, <2>1 DEF LimitTold, LimitTrue
    <3>2. /\ ~Lacks(settingsAnswers, LimitTold)
          /\ Closes(settingsAnswers, LimitTold, LimitTrue) =>
               \/ Closes(settingsAnswers', LimitTold, LimitTrue)
               \/ Lacks(settingsAnswers', LimitTold) /\ h \in LimitTrue
      BY <1>1, <3>1, ClosesTaken DEF SettingsTyping, h
    <3>3. LimitTold' = LimitTold /\ LimitTrue' = LimitTrue
      BY <1>1 DEF LimitTold, LimitTrue
    <3>4. h \in LimitTrue => (settingsView' # None => settingsView'.limit = memory'.limit)
      BY <1>1, <1>5, <2>1, <3>1
    <3> QED BY <1>1, <3>2, <3>3, <3>4 DEF LimitFollows
  <2>2. CASE ~h.ok
    <3>1. h \notin LimitTold
      BY <1>1, <2>2 DEF LimitTold
    <3>2. Passes(settingsAnswers, settingsAnswers', Replies, LimitTold)
      BY <1>1, <3>1 DEF Passes, h
    <3> QED BY <1>1, <1>5, <2>2, <3>2, LimitStays
  <2> QED BY <2>1, <2>2
<1>12. Settings!UpdateSettles'
  BY <1>1 DEF Settings!UpdateSettles
<1> QED BY <1>6, <1>7, <1>8, <1>9, <1>10, <1>11, <1>12

\* The window reads again after a change of the startup entry.
LEMMA StartupShown ==
  ASSUME SettingsInv, Settings!StartupSet
  PROVE  SettingsInv'
<1> USE DEF SettingsInv
<1> DEFINE h == Head(settingsAnswers)
<1>1. /\ settingsAnswers # <<>> /\ settingsAnswers' = Tail(settingsAnswers)
      /\ h.to.do = "set_launch_at_startup"
      /\ settingsCalls' = Append(settingsCalls, Settings!Read)
      /\ UNCHANGED <<memory, settingsDisk, autostart, registered, settingsCauses, settingsView,
                     update, settingsChecks>>
  BY DEF Settings!StartupSet, Settings!Answered, Settings!backend, Settings!updating
<1>2. settingsAnswers' \in Seq(Replies) /\ h \in Replies
  BY <1>1, Taken DEF SettingsTyping
<1> HIDE DEF h
<1>3. settingsCalls' \in Seq(Commands) /\ SettingsDue'
  BY <1>1, SettingsGiven, CommandsGiven
<1>4. SettingsTyping'
  BY <1>1, <1>2, <1>3 DEF SettingsTyping
<1>5. OneHeld' /\ FirstComes' /\ ToggleFollows'
  BY <1>1, <1>3 DEF OneHeld, FirstComes, ToggleFollows
<1>6. h \notin HotkeyTold /\ h \notin LimitTold
  BY <1>1 DEF HotkeyTold, LimitTold
<1>7. HotkeyFollows'
  <2>1. Passes(settingsAnswers, settingsAnswers', Replies, HotkeyTold)
    BY <1>1, <1>6 DEF Passes, h
  <2> QED BY <1>1, <2>1, HotkeyStays
<1>8. LimitFollows'
  <2>1. Passes(settingsAnswers, settingsAnswers', Replies, LimitTold)
    BY <1>1, <1>6 DEF Passes, h
  <2> QED BY <1>1, <2>1, LimitStays
<1>9. Settings!UpdateSettles'
  BY <1>1 DEF Settings!UpdateSettles
<1> QED BY <1>3, <1>4, <1>5, <1>7, <1>8, <1>9

\* What a window begins with: a read on its way, and no answer yet.
LEMMA FirstAsked ==
  /\ <<Settings!Read>> \in Seq(Commands)
  /\ 1 \in DOMAIN <<Settings!Read>> /\ <<Settings!Read>>[1] = Settings!Read
  /\ <<>> \in Seq(Replies) /\ <<>> \in Seq({"check", "download"})
  /\ \A A : Lacks(<<>>, A)
<1>1. <<Settings!Read>> \in Seq(Commands)
  BY CommandsGiven
<1>2. 1 \in DOMAIN <<Settings!Read>> /\ <<Settings!Read>>[1] = Settings!Read
  OBVIOUS
<1>3. <<>> \in Seq(Replies) /\ <<>> \in Seq({"check", "download"})
  OBVIOUS
<1>4. \A A : Lacks(<<>>, A)
  BY DEF Lacks
<1> QED BY <1>1, <1>2, <1>3, <1>4

\* Settings are what the programs behind them do (App.tsx, settings.rs, lib.rs).
LEMMA SettingsAlone ==
  ASSUME SettingsApart
  PROVE  Settings!Spec => []Settings!SettingsHonest
<1> USE DEF Settings!backend, Settings!window, Settings!updating, Settings!bounds
<1>1. Settings!Init => SettingsInv
  <2> SUFFICES ASSUME Settings!Init PROVE SettingsInv
    OBVIOUS
  <2>1. \E on \in BOOLEAN : memory = [hotkey |-> CHOOSE c \in Combo : TRUE, startup |-> on,
                                      limit |-> CHOOSE n \in Limit : TRUE]
    BY DEF Settings!Init
  <2>2. /\ settingsDisk = memory /\ autostart = memory.startup
        /\ registered = Settings!Held(memory, owned)
        /\ settingsCauses = Settings!Causes(memory, owned)
        /\ settingsCalls = <<Settings!Read>> /\ settingsAnswers = <<>> /\ settingsView = None
        /\ update = "" /\ settingsChecks = <<>>
    BY DEF Settings!Init
  <2>3. (CHOOSE c \in Combo : TRUE) \in Combo /\ (CHOOSE n \in Limit : TRUE) \in Limit
    BY DEF SettingsApart
  <2>4. memory \in Stored /\ autostart \in BOOLEAN
    <3>1. PICK on \in BOOLEAN : memory = [hotkey |-> CHOOSE c \in Combo : TRUE, startup |-> on,
                                          limit |-> CHOOSE n \in Limit : TRUE]
      BY <2>1
    <3>2. memory \in Stored
      BY <2>3, <3>1 DEF Stored
    <3> QED BY <2>2, <3>2 DEF Stored
  <2>5. /\ settingsCalls \in Seq(Commands) /\ settingsAnswers \in Seq(Replies)
        /\ settingsChecks \in Seq({"check", "download"})
    BY <2>2, FirstAsked
  <2>6. SettingsDue /\ \A A : Lacks(settingsAnswers, A)
    <3>1. 1 \in DOMAIN settingsCalls /\ settingsCalls[1] = Settings!Read
      BY <2>2, FirstAsked
    <3> QED BY <2>2, <3>1, FirstAsked, CommandsGiven DEF SettingsDue
  <2>7. SettingsTyping
    BY <2>2, <2>4, <2>5 DEF SettingsTyping
  <2>8. OneHeld
    BY <2>2 DEF OneHeld, Settings!Held, Settings!Causes
  <2>9. FirstComes /\ ToggleFollows
    BY <2>6 DEF FirstComes, ToggleFollows
  <2>10. HotkeyFollows /\ LimitFollows
    BY <2>2, <2>6 DEF HotkeyFollows, LimitFollows
  <2>11. Settings!UpdateSettles
    BY <2>2 DEF Settings!UpdateSettles
  <2> QED BY <2>7, <2>8, <2>9, <2>10, <2>11 DEF SettingsInv
<1>2. SettingsInv /\ [Settings!Next]_(Settings!vars) => SettingsInv'
  <2> SUFFICES ASSUME SettingsInv, [Settings!Next]_(Settings!vars) PROVE SettingsInv'
    OBVIOUS
  <2>0. SettingsTyping /\ OneHeld /\ ToggleFollows /\ Settings!UpdateSettles
    BY DEF SettingsInv
  \* Nothing moves that the settings depend on.
  <2>a. ASSUME UNCHANGED <<memory, settingsDisk, autostart, registered, settingsCauses,
                           settingsView, settingsAnswers, settingsCalls, update, settingsChecks>>
        PROVE  SettingsInv'
    <3>1. settingsCalls' \in Seq(Commands) /\ settingsChecks' \in Seq({"check", "download"})
      BY <2>0, <2>a DEF SettingsTyping
    <3>2. (SettingsDue => SettingsDue') /\ Settings!UpdateSettles'
      BY <2>0, <2>a DEF SettingsDue, Settings!UpdateSettles
    <3> QED BY <2>a, <3>1, <3>2, SettingsIdle
  \* A command is given.
  <2>b. ASSUME NEW c \in Commands, settingsCalls' = Append(settingsCalls, c),
               UNCHANGED <<memory, settingsDisk, autostart, registered, settingsCauses,
                           settingsView, settingsAnswers, update, settingsChecks>>
        PROVE  SettingsInv'
    <3>1. settingsCalls' \in Seq(Commands) /\ (SettingsDue => SettingsDue')
      BY <2>0, <2>b, SettingsGiven
    <3>2. settingsChecks' \in Seq({"check", "download"}) /\ Settings!UpdateSettles'
      BY <2>0, <2>b DEF SettingsTyping, Settings!UpdateSettles
    <3> QED BY <2>b, <3>1, <3>2, SettingsIdle
  \* An update check goes on.
  <2>c. ASSUME settingsChecks' \in Seq({"check", "download"}), Settings!UpdateSettles',
               UNCHANGED <<memory, settingsDisk, autostart, registered, settingsCauses,
                           settingsView, settingsAnswers, settingsCalls>>
        PROVE  SettingsInv'
    <3>1. settingsCalls' \in Seq(Commands) /\ (SettingsDue => SettingsDue')
      BY <2>0, <2>c DEF SettingsTyping, SettingsDue
    <3> QED BY <2>c, <3>1, SettingsIdle
  <2>1. CASE Settings!RunRead
    BY <2>1, SettingsRead
  <2>2. CASE Settings!RunSetHotkey
    BY <2>2, HotkeyRun
  <2>3. CASE Settings!RunSetHotkeyTaken
    BY <2>3, HotkeyRefused
  <2>4. CASE Settings!RunSetStartup
    BY <2>4, StartupRun
  <2>5. CASE Settings!RunSetLimit
    BY <2>5, LimitRun
  <2>6. CASE Settings!Record
    BY <2>6, <2>a DEF Settings!Record
  <2>7. CASE Settings!Blur
    BY <2>7, <2>a DEF Settings!Blur
  <2>8. CASE Settings!OtherProgram
    BY <2>8, <2>a DEF Settings!OtherProgram
  <2>9. CASE UNCHANGED Settings!vars
    BY <2>9, <2>a DEF Settings!vars
  <2>10. ASSUME NEW c \in Combo, Settings!CaptureHotkey(c) PROVE SettingsInv'
    BY <2>10, <2>b, CommandsGiven DEF Settings!CaptureHotkey, Settings!Change
  <2>11. CASE Settings!ToggleStartup
    <3>1. PICK on \in BOOLEAN : settingsCalls' = Append(settingsCalls, Settings!SetStartup(on))
      BY <2>11, Zenon DEF Settings!ToggleStartup, Settings!Change
    <3> QED BY <2>11, <2>b, <3>1, CommandsGiven DEF Settings!ToggleStartup
  <2>12. ASSUME NEW n \in Limit, Settings!ChangeHistoryLimit(n) PROVE SettingsInv'
    BY <2>12, <2>b, CommandsGiven DEF Settings!ChangeHistoryLimit, Settings!Change
  <2>13. CASE Settings!SomeEvent
    BY <2>13, <2>b, CommandsGiven DEF Settings!SomeEvent
  <2>14. CASE Settings!ShowSettings
    BY <2>14, SettingsShown
  <2>15. CASE Settings!HotkeySet
    BY <2>15, HotkeyShown
  <2>16. CASE Settings!StartupSet
    BY <2>16, StartupShown
  <2>17. CASE Settings!LimitSet
    BY <2>17, LimitShown
  <2>18. CASE Settings!CheckUpdate
    <3>1. settingsChecks' = Append(settingsChecks, "check")
      BY <2>18 DEF Settings!CheckUpdate
    <3>2. settingsChecks' \in Seq({"check", "download"}) /\ settingsChecks' # <<>>
      BY <2>0, <3>1 DEF SettingsTyping
    <3> QED BY <2>18, <2>c, <3>2 DEF Settings!CheckUpdate, Settings!UpdateSettles
  <2>19. ASSUME NEW k \in DOMAIN settingsChecks, Settings!Checked(k) PROVE SettingsInv'
    <3>1. CASE Settings!Drop(k) /\ update' = "up to date"
      <4>1. settingsChecks' \in Seq({"check", "download"}) /\ Settings!UpdateSettles'
        BY <2>0, <3>1, CheckDropped DEF Settings!UpdateSettles
      <4> QED BY <2>19, <2>c, <4>1 DEF Settings!Checked
    <3>2. CASE settingsChecks' = [settingsChecks EXCEPT ![k] = "download"]
      <4>1. settingsChecks' \in Seq({"check", "download"}) /\ settingsChecks' # <<>>
        BY <2>0, <3>2 DEF SettingsTyping
      <4> QED BY <2>19, <2>c, <4>1 DEF Settings!Checked, Settings!UpdateSettles
    <3> QED BY <2>19, <3>1, <3>2 DEF Settings!Checked
  <2>20. ASSUME NEW k \in DOMAIN settingsChecks, Settings!UpdateFails(k) PROVE SettingsInv'
    <3>1. Settings!Drop(k) /\ update' = "failed"
      BY <2>20 DEF Settings!UpdateFails
    <3>2. settingsChecks' \in Seq({"check", "download"}) /\ Settings!UpdateSettles'
      BY <2>0, <3>1, CheckDropped DEF Settings!UpdateSettles
    <3> QED BY <2>20, <2>c, <3>2 DEF Settings!UpdateFails
  <2>21. CASE Settings!Restart
    <3>1. /\ memory' = settingsDisk /\ settingsDisk' = settingsDisk
          /\ registered' = Settings!Held(settingsDisk, owned)
          /\ settingsCauses' = Settings!Causes(settingsDisk, owned)
          /\ autostart' \in {autostart, settingsDisk.startup}
          /\ settingsCalls' = <<Settings!Read>> /\ settingsAnswers' = <<>> /\ settingsView' = None
          /\ update' = "" /\ settingsChecks' = <<>>
      BY <2>21 DEF Settings!Restart
    <3>2. /\ settingsCalls' \in Seq(Commands) /\ settingsAnswers' \in Seq(Replies)
          /\ settingsChecks' \in Seq({"check", "download"})
      BY <3>1, FirstAsked
    <3>3. SettingsDue' /\ \A A : Lacks(settingsAnswers', A)
      <4>1. SettingsDue'
        <5>1. 1 \in DOMAIN settingsCalls' /\ settingsCalls'[1] = Settings!Read
          BY <3>1, FirstAsked
        <5> QED BY <5>1, CommandsGiven DEF SettingsDue
      <4> QED BY <3>1, <4>1, FirstAsked
    <3>4. autostart' \in BOOLEAN
      <4>1. settingsDisk.startup \in BOOLEAN
        BY <2>0 DEF SettingsTyping, Stored
      <4> QED BY <2>0, <3>1, <4>1 DEF SettingsTyping
    <3>5. SettingsTyping'
      BY <2>0, <3>1, <3>2, <3>4 DEF SettingsTyping
    <3>6. OneHeld'
      BY <3>1 DEF OneHeld, Settings!Held, Settings!Causes
    <3>7. FirstComes' /\ ToggleFollows'
      BY <3>3 DEF FirstComes, ToggleFollows
    <3>8. HotkeyFollows' /\ LimitFollows'
      BY <3>1, <3>3 DEF HotkeyFollows, LimitFollows
    <3>9. Settings!UpdateSettles'
      BY <3>1 DEF Settings!UpdateSettles
    <3> QED BY <3>5, <3>6, <3>7, <3>8, <3>9 DEF SettingsInv
  <2>22. CASE Settings!TaskManager
    <3>1. /\ autostart' = FALSE /\ settingsCauses' = settingsCauses \cup {"outside"}
          /\ UNCHANGED <<memory, settingsDisk, registered, settingsCalls, settingsAnswers,
                         settingsView, update, settingsChecks>>
      BY <2>22 DEF Settings!TaskManager
    <3>2. SettingsTyping'
      BY <2>0, <3>1 DEF SettingsTyping
    <3>3. OneHeld' /\ ToggleFollows'
      BY <2>0, <3>1 DEF OneHeld, ToggleFollows
    <3>4. FirstComes'
      BY <3>1 DEF SettingsInv, FirstComes, SettingsDue
    <3>5. HotkeyFollows'
      <4>1. Passes(settingsAnswers, settingsAnswers', Replies, HotkeyTold)
        BY <3>1 DEF Passes
      <4> QED BY <3>1, <4>1, HotkeyStays DEF SettingsInv
    <3>6. LimitFollows'
      <4>1. Passes(settingsAnswers, settingsAnswers', Replies, LimitTold)
        BY <3>1 DEF Passes
      <4> QED BY <3>1, <4>1, LimitStays DEF SettingsInv
    <3>7. Settings!UpdateSettles'
      BY <2>0, <3>1 DEF Settings!UpdateSettles
    <3> QED BY <3>2, <3>3, <3>4, <3>5, <3>6, <3>7 DEF SettingsInv
  <2> QED BY <2>1, <2>2, <2>3, <2>4, <2>5, <2>6, <2>7, <2>8, <2>9, <2>10, <2>11, <2>12, <2>13,
             <2>14, <2>15, <2>16, <2>17, <2>18, <2>19, <2>20, <2>21, <2>22
          DEF Settings!Next
<1>3. SettingsInv => Settings!SettingsHonest
  <2> SUFFICES ASSUME SettingsInv, Settings!Quiet PROVE
         /\ Settings!ToggleIsTruth /\ Settings!HotkeyHeld /\ Settings!LimitShown
    BY DEF SettingsInv, Settings!SettingsHonest, Settings!ToggleIsTruth, Settings!HotkeyHeld,
           Settings!LimitShown
  <2>1. settingsCalls = <<>> /\ settingsAnswers = <<>>
    BY DEF Settings!Quiet
  <2>2. settingsView # None /\ ~SettingsDue /\ \A A, G : ~Closes(settingsAnswers, A, G)
    BY <2>1 DEF SettingsInv, FirstComes, SettingsDue, Closes
  <2>3. Settings!ToggleIsTruth
    BY <2>2 DEF SettingsInv, ToggleFollows, Settings!ToggleIsTruth
  <2>4. Settings!HotkeyHeld
    BY <2>2 DEF SettingsInv, HotkeyFollows, OneHeld, Settings!HotkeyHeld
  <2>5. Settings!LimitShown
    BY <2>2 DEF SettingsInv, LimitFollows, Settings!LimitShown
  <2> QED BY <2>3, <2>4, <2>5
<1> QED BY <1>1, <1>2, <1>3, PTL DEF Settings!Spec

------------------------------------------------------------------------------
(* Side by side *)

\* A behaviour is one of the component it begins as.
LEMMA OneComponent ==
  ASSUME [DesktopNext]_desktopVars
  PROVE  /\ part' = part
         /\ part = "keys" => [Keys!Next]_(Keys!vars)
         /\ part = "devices" => [Devices!Next]_(Devices!vars)
         /\ part = "names" => [Names!Next]_(Names!vars)
         /\ part = "settings" => [Settings!Next]_(Settings!vars)
<1>1. CASE UNCHANGED desktopVars
  <2>1. /\ UNCHANGED <<part, KeysVars, DevicesVars, NamesVars, SettingsVars>>
    BY <1>1 DEF desktopVars
  <2>2. UNCHANGED Keys!vars
    BY <2>1 DEF KeysVars, Keys!vars
  <2>3. UNCHANGED Devices!vars
    BY <2>1 DEF DevicesVars, Devices!vars, Devices!backend, Devices!window, Devices!link,
                Devices!rest
  <2>4. UNCHANGED Names!vars
    BY <2>1 DEF NamesVars, Names!vars, Names!backend, Names!input, Names!bounds
  <2>5. UNCHANGED Settings!vars
    BY <2>1 DEF SettingsVars, Settings!vars, Settings!backend, Settings!window,
                Settings!updating, Settings!bounds
  <2> QED BY <2>1, <2>2, <2>3, <2>4, <2>5
<1>2. CASE DesktopNext
  BY <1>2 DEF DesktopNext, DesktopOnly
<1> QED BY <1>1, <1>2

\* As long as the PC keeps its secret key, every clip of a session opens
\* (client.ts, server.rs, crypto/index.ts, crypto.rs).
THEOREM ClipsOpenHere == DesktopSpec => []AllOpen
<1>1. DesktopInit /\ part = "keys" => Keys!Init
  BY DEF DesktopInit
<1>2. part = "keys" /\ [DesktopNext]_desktopVars => (part = "keys")' /\ [Keys!Next]_(Keys!vars)
  BY OneComponent
<1>3. ~(part = "keys") /\ [DesktopNext]_desktopVars => ~(part = "keys")'
  BY OneComponent
<1> QED BY <1>1, <1>2, <1>3, KeysAlone, PTL DEF DesktopSpec, Keys!Spec, AllOpen

\* The Devices tab shows a code that works and the phones that are paired, and never a
\* phone under the name typed for another (App.tsx, settings.rs, server.rs).
THEOREM TabShowsThePhones == DesktopSpec => []DevicesTabHonest
<1>1. /\ DesktopInit /\ part = "devices" => Devices!Init
      /\ DesktopInit /\ part = "names" => Names!Init
  BY DEF DesktopInit
<1>2. part = "devices" /\ [DesktopNext]_desktopVars
        => (part = "devices")' /\ [Devices!Next]_(Devices!vars)
  BY OneComponent
<1>3. ~(part = "devices") /\ [DesktopNext]_desktopVars => ~(part = "devices")'
  BY OneComponent
<1>4. part = "names" /\ [DesktopNext]_desktopVars
        => (part = "names")' /\ [Names!Next]_(Names!vars)
  BY OneComponent
<1>5. ~(part = "names") /\ [DesktopNext]_desktopVars => ~(part = "names")'
  BY OneComponent
<1>6. Devices!Spec => []Devices!DevicesTabHonest
  BY DesktopPartsAssumption, DevicesAlone
<1>7. Names!Spec => []Names!NamesHonest
  BY DesktopPartsAssumption, NamesAlone
<1> QED
  BY <1>1, <1>2, <1>3, <1>4, <1>5, <1>6, <1>7, PTL
  DEF DesktopSpec, Devices!Spec, Names!Spec, DevicesTabHonest

\* The Settings tab shows what Windows, the shortcut and the file hold (App.tsx).
THEOREM TabShowsTheSettings == DesktopSpec => []SettingsHonest
<1>1. DesktopInit /\ part = "settings" => Settings!Init
  BY DEF DesktopInit
<1>2. part = "settings" /\ [DesktopNext]_desktopVars
        => (part = "settings")' /\ [Settings!Next]_(Settings!vars)
  BY OneComponent
<1>3. ~(part = "settings") /\ [DesktopNext]_desktopVars => ~(part = "settings")'
  BY OneComponent
<1>4. Settings!Spec => []Settings!SettingsHonest
  <2>1. SettingsApart
    BY DesktopPartsAssumption DEF SettingsApart, Stored
  <2> QED BY <2>1, SettingsAlone
<1> QED BY <1>1, <1>2, <1>3, <1>4, PTL DEF DesktopSpec, Settings!Spec, SettingsHonest
=============================================================================
