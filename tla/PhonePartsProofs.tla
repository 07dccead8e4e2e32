-------------------------- MODULE PhonePartsProofs --------------------------
(***************************************************************************)
(* Proofs about the components that module PhoneParts puts side by side:   *)
(* first each one alone, as an instance with an invariant of its own, and  *)
(* at the end what the runs check of them together.                        *)
(***************************************************************************)
EXTENDS PhoneParts, SequenceTheorems, TLAPS

------------------------------------------------------------------------------
(* The foreground service *)

\* A stop is under way only while the service runs and the phone is not paired, and
\* a paired phone has a service or a start that will end in one: unless a start was
\* ignored or denied.
KeptInv ==
  "startIgnored" \notin serviceCauses =>
    /\ stops \in {0, 1}
    /\ paired => stops = 0
    /\ stops = 1 => running
    /\ paired /\ "denied" \notin serviceCauses => running \/ starts > 0

\* What still runs when the pairing has ended is being stopped, and nothing starts:
\* unless a stop was ignored.
EndsInv ==
  ~paired /\ "stopIgnored" \notin serviceCauses => starts = 0 /\ (running => stops > 0)

\* The notification is behind only while its service is being stopped.
TextInv == running /\ text = "connected" => status = "connected" \/ stops > 0

ServiceInv == Service!TypeOK /\ KeptInv /\ EndsInv /\ TextInv

\* The service is what the pairing and the connection ask for, whatever the order in
\* which the calls to the library return (backgroundSync.ts).
LEMMA ServiceAlone == Service!Spec => []Service!ServiceFollowsPairing
<1>1. Service!Init => ServiceInv
  <2>1. Service!Init => Service!TypeOK
    <3> SUFFICES ASSUME Service!Init PROVE Service!TypeOK
      OBVIOUS
    <3>1. starts \in Nat /\ stops \in Nat /\ pairings \in Nat /\ serviceEvents \in Nat
      BY DEF Service!Init
    <3> QED BY <3>1 DEF Service!Init, Service!TypeOK
  <2>2. Service!Init => KeptInv /\ EndsInv /\ TextInv
    BY DEF Service!Init, KeptInv, EndsInv, TextInv
  <2> QED BY <2>1, <2>2 DEF ServiceInv
<1>2. ServiceInv /\ [Service!Next]_(Service!vars) => ServiceInv'
  <2> SUFFICES ASSUME ServiceInv, [Service!Next]_(Service!vars) PROVE ServiceInv'
    OBVIOUS
  <2> USE DEF Service!updateBackgroundStatus, Service!startBackgroundSync,
              Service!stopBackgroundSync, Service!Missed
  <2>1. Service!TypeOK'
    <3>1. Service!TypeOK
      BY DEF ServiceInv
    <3> USE DEF Service!Next, Service!vars, Service!calls, Service!StartReturns,
                Service!StartDenied, Service!StopReturns, Service!Pair, Service!Repair,
                Service!Unpair, Service!OnStatus
    <3>2. starts' \in Nat /\ stops' \in Nat
      BY <3>1 DEF Service!TypeOK
    <3>3. pairings' \in Nat /\ serviceEvents' \in Nat
      BY <3>1 DEF Service!TypeOK
    <3>4. paired' \in BOOLEAN /\ running' \in BOOLEAN
      BY <3>1 DEF Service!TypeOK
    <3>5. /\ status' \in {"idle", "connecting", "connected", "error"}
          /\ text' \in {"waiting", "connecting", "connected", "reconnecting"}
      BY <3>1 DEF Service!TypeOK
    <3>6. serviceCauses' \subseteq {"startIgnored", "stopIgnored", "denied"}
      BY <3>1 DEF Service!TypeOK
    <3> QED BY <3>2, <3>3, <3>4, <3>5, <3>6 DEF Service!TypeOK
  <2>2. KeptInv' /\ EndsInv' /\ TextInv'
    <3> USE DEF KeptInv, EndsInv, TextInv
    <3>1. starts \in Nat /\ stops \in Nat /\ KeptInv /\ EndsInv /\ TextInv
      BY DEF ServiceInv, Service!TypeOK
    <3>2. CASE Service!StartReturns \/ Service!StartDenied
      BY <3>1, <3>2 DEF Service!StartReturns, Service!StartDenied
    <3>3. CASE Service!StopReturns
      BY <3>1, <3>3 DEF Service!StopReturns
    <3>4. CASE Service!Pair \/ Service!Repair
      BY <3>1, <3>4 DEF Service!Pair, Service!Repair
    <3>5. CASE Service!Unpair
      BY <3>1, <3>5 DEF Service!Unpair
    <3>6. ASSUME NEW state \in {"connecting", "connected", "error"}, Service!OnStatus(state)
          PROVE  KeptInv' /\ EndsInv' /\ TextInv'
      BY <3>1, <3>6 DEF Service!OnStatus
    <3>7. CASE UNCHANGED Service!vars
      BY <3>1, <3>7 DEF Service!vars, Service!calls
    <3> QED BY <3>2, <3>3, <3>4, <3>5, <3>6, <3>7 DEF Service!Next
  <2> QED BY <2>1, <2>2 DEF ServiceInv
<1>3. ServiceInv => Service!ServiceFollowsPairing
  BY DEF ServiceInv, KeptInv, EndsInv, TextInv, Service!TypeOK, Service!ServiceFollowsPairing,
         Service!ServiceKept, Service!ServiceEnds, Service!NotificationHonest, Service!Settled
<1> QED BY <1>1, <1>2, <1>3, PTL DEF Service!Spec

------------------------------------------------------------------------------
(* The images *)

Whose == {"user", "pc"}
Pictures == Images!Image \cup {None}
Contents == [img : Pictures, n : Nat, uri : Pictures \cup Nat, by : Whose]
FramesOut == [img : Pictures, n : Nat, by : Whose, via : {"event", "read"}]

ImagesTypeOK ==
  /\ board \in Contents /\ fired \in Nat
  /\ imageEvents \in Seq(Contents) /\ reading \in SUBSET Contents
  /\ out \in Seq(FramesOut)
  /\ incoming \in Pictures
  /\ applying \in Seq([img : PCImage, at : {"write", "set"}])
  /\ grace \in BOOLEAN /\ late \in BOOLEAN

\* The variables of the images keep their types.
LEMMA ImagesTyping ==
  ASSUME ImagesTypeOK, [Images!Next]_(Images!vars)
  PROVE  ImagesTypeOK'
<1> USE DEF Images!native, Images!bounds
<1> DEFINE Images1 == [img : PCImage, at : {"write", "set"}]
<1>0. /\ board \in Contents /\ fired \in Nat
      /\ imageEvents \in Seq(Contents) /\ reading \in SUBSET Contents
      /\ out \in Seq(FramesOut) /\ incoming \in Pictures /\ applying \in Seq(Images1)
      /\ grace \in BOOLEAN /\ late \in BOOLEAN
  BY DEF ImagesTypeOK
<1>1. ASSUME NEW i \in Images!Image, Images!UserCopies(i) PROVE ImagesTypeOK'
  <2>1. board' \in Contents
    BY <1>0, <1>1 DEF Images!UserCopies, Images!Put, Contents, Whose, Pictures
  <2>2. fired' \in Nat
    BY <1>0, <1>1 DEF Images!UserCopies, Images!Put
  <2> QED BY <1>0, <1>1, <2>1, <2>2 DEF Images!UserCopies, ImagesTypeOK
<1>2. ASSUME NEW i \in PCImage, Images!OnImageClip(i) PROVE ImagesTypeOK'
  BY <1>0, <1>2 DEF Images!OnImageClip, ImagesTypeOK
<1>3. CASE Images!EmitImage
  BY <1>0, <1>3, SMTT(60) DEF Images!EmitImage, ImagesTypeOK
<1>4. CASE Images!OnImageRefused
  BY <1>0, <1>4 DEF Images!OnImageRefused, ImagesTypeOK
<1>5. CASE Images!OnImage
  BY <1>0, <1>5 DEF Images!OnImage, ImagesTypeOK
<1>6. CASE Images!GraceEnds
  BY <1>0, <1>6 DEF Images!GraceEnds, ImagesTypeOK
<1>7. CASE Images!Foreground \/ Images!Connect \/ Images!Drop
  BY <1>0, <1>7 DEF Images!Foreground, Images!Connect, Images!Drop, ImagesTypeOK
<1>8. ASSUME NEW c \in Contents, NEW via \in {"event", "read"}
      PROVE  Images!Frame(c, via) \in FramesOut
  BY DEF Images!Frame, Contents, FramesOut
<1>9. ASSUME NEW c \in reading, Images!ReadDone(c) PROVE ImagesTypeOK'
  <2>1. Images!Frame(c, "event") \in FramesOut
    BY <1>0, <1>8
  <2>2. out' \in Seq(FramesOut)
    BY <1>0, <1>9, <2>1, SMTT(60) DEF Images!ReadDone, Images!Send
  <2> QED BY <1>0, <1>9, <2>2 DEF Images!ReadDone, ImagesTypeOK
<1>10. ASSUME NEW k \in DOMAIN applying, Images!WriteIncoming(k) PROVE ImagesTypeOK'
  <2> DEFINE setting == [applying[k] EXCEPT !.at = "set"]
  <2>1. applying[k] \in Images1
    <3> HIDE DEF Images1
    <3> QED BY <1>0
  <2>2. setting \in Images1 /\ applying[k].img \in PCImage
    BY <2>1
  <2>3. applying' = [applying EXCEPT ![k] = setting] /\ incoming' = applying[k].img
    BY <1>10 DEF Images!WriteIncoming
  <2>4. applying' \in Seq(Images1)
    <3> HIDE DEF Images1, setting
    <3> QED BY <1>0, <2>2, <2>3
  <2>5. incoming' \in Pictures
    BY <2>2, <2>3 DEF Pictures, Images!Image
  <2> QED BY <1>0, <1>10, <2>4, <2>5 DEF Images!WriteIncoming, ImagesTypeOK
<1>11. ASSUME NEW k \in DOMAIN applying, Images!Applied(k) PROVE ImagesTypeOK'
  <2>1. applying' \in Seq(Images1)
    <3> HIDE DEF Images1
    <3> DEFINE n == Len(applying)
    <3>1. n \in Nat /\ k \in 1 .. n
      BY <1>0
    <3>2. /\ SubSeq(applying, 1, k - 1) \in Seq(Images1)
          /\ SubSeq(applying, k + 1, n) \in Seq(Images1)
      <4> HIDE DEF n
      <4>1. \A i \in 1 .. n : applying[i] \in Images1
        BY <1>0 DEF n
      <4> QED BY <1>0, <3>1, <4>1, SubSeqProperties, SMTT(60)
    <3>3. applying' = SubSeq(applying, 1, k - 1) \o SubSeq(applying, k + 1, n)
      BY <1>11 DEF Images!Applied
    <3> QED BY <3>2, <3>3, ConcatProperties
  <2>2. board' \in Contents
    BY <1>0, <1>11, SMTT(60) DEF Images!Applied, Images!SetImage, Images!Put, Contents, Whose
  <2>3. fired' \in Nat
    BY <1>0, <1>11 DEF Images!Applied, Images!SetImage, Images!Put
  <2> QED BY <1>0, <1>11, <2>1, <2>2, <2>3 DEF Images!Applied, ImagesTypeOK
<1>12. ASSUME NEW k \in DOMAIN auto, Images!AutoHas(k) PROVE ImagesTypeOK'
  BY <1>0, <1>12 DEF Images!AutoHas, ImagesTypeOK
<1>13. ASSUME NEW k \in DOMAIN auto, Images!AutoSends(k) PROVE ImagesTypeOK'
  <2>1. Images!Frame(board, "read") \in FramesOut
    BY <1>0, <1>8
  <2>2. out' \in Seq(FramesOut)
    BY <1>0, <1>13, <2>1, SMTT(60) DEF Images!AutoSends, Images!Send
  <2> QED BY <1>0, <1>13, <2>2 DEF Images!AutoSends, ImagesTypeOK
<1>14. CASE UNCHANGED Images!vars
  BY <1>0, <1>14 DEF Images!vars, ImagesTypeOK
<1> QED BY <1>1, <1>2, <1>3, <1>4, <1>5, <1>6, <1>7, <1>9, <1>10, <1>11, <1>12, <1>13, <1>14
        DEF Images!Next

\* While an image of the PC is on its way to the clipboard, or its event on its way to
\* the app, the app refuses events, unless the grace was too short for one.
Guarded ==
  /\ late \/ grace \/ ~Images!OwnToCome
  /\ \A c \in reading : c.by = "pc" => late
  /\ Images!NoImageEcho

LEMMA ImagesGuarded ==
  ASSUME ImagesTypeOK, Guarded, [Images!Next]_(Images!vars)
  PROVE  Guarded'
<1> USE DEF Images!native, Images!bounds
<1>0. /\ imageEvents \in Seq(Contents) /\ out \in Seq(FramesOut) /\ fired \in Nat
      /\ late \/ grace \/ ~Images!OwnToCome
      /\ \A c \in reading : c.by = "pc" => late
      /\ Images!NoImageEcho
  BY DEF ImagesTypeOK, Guarded
<1>1. ASSUME UNCHANGED <<out, reading>>, late' = late, late' \/ grace' \/ ~Images!OwnToCome'
      PROVE  Guarded'
  BY <1>0, <1>1 DEF Guarded, Images!NoImageEcho
<1>2. ASSUME NEW i \in Images!Image, Images!UserCopies(i) PROVE Guarded'
  BY <1>0, <1>1, <1>2 DEF Images!UserCopies, Images!Put, Images!OwnToCome
<1>3. ASSUME NEW i \in PCImage, Images!OnImageClip(i) PROVE Guarded'
  BY <1>1, <1>3 DEF Images!OnImageClip
<1>4. CASE Images!EmitImage
  BY <1>0, <1>1, <1>4 DEF Images!EmitImage, Images!OwnToCome
<1>5. CASE Images!OnImageRefused
  BY <1>0, <1>1, <1>5 DEF Images!OnImageRefused, Images!OwnToCome
<1>6. CASE Images!OnImage
  <2>1. late \/ imageEvents[1].by # "pc"
    BY <1>0, <1>6 DEF Images!OnImage, Images!OwnToCome
  <2>2. \A c \in reading' : c.by = "pc" => late
    BY <1>0, <1>6, <2>1 DEF Images!OnImage
  <2>3. late' \/ grace' \/ ~Images!OwnToCome'
    BY <1>0, <1>6 DEF Images!OnImage, Images!OwnToCome
  <2> QED BY <1>0, <1>6, <2>2, <2>3 DEF Images!OnImage, Guarded, Images!NoImageEcho
<1>7. CASE Images!GraceEnds
  BY <1>0, <1>7 DEF Images!GraceEnds, Images!OwnToCome, Guarded, Images!NoImageEcho
<1>8. CASE Images!Foreground \/ Images!Connect \/ Images!Drop
  BY <1>0, <1>1, <1>8 DEF Images!Foreground, Images!Connect, Images!Drop, Images!OwnToCome
<1>9. ASSUME NEW c \in reading, Images!ReadDone(c) PROVE Guarded'
  <2>1. out' = out \/ out' = Append(out, Images!Frame(c, "event"))
    BY <1>9 DEF Images!ReadDone, Images!Send
  <2>2. Images!Frame(c, "event").by = "pc" => late
    BY <1>0 DEF Images!Frame
  <2>3. \A k \in DOMAIN out' : \/ k \in DOMAIN out /\ out'[k] = out[k]
                               \/ out'[k] = Images!Frame(c, "event")
    BY <1>0, <2>1
  <2>4. late' = late
    BY <1>9 DEF Images!ReadDone
  <2>5. Images!NoImageEcho'
    BY <1>0, <2>2, <2>3, <2>4 DEF Images!NoImageEcho
  <2> QED BY <1>0, <1>9, <2>5 DEF Images!ReadDone, Images!OwnToCome, Guarded
<1>10. ASSUME NEW k \in DOMAIN applying, Images!WriteIncoming(k) PROVE Guarded'
  BY <1>0, <1>1, <1>10 DEF Images!WriteIncoming, Images!OwnToCome
<1>11. ASSUME NEW k \in DOMAIN applying, Images!Applied(k) PROVE Guarded'
  <2>1. applying # <<>>
    BY <1>11
  <2>2. late \/ grace
    BY <1>0, <2>1 DEF Images!OwnToCome
  <2> QED BY <1>1, <1>11, <2>2 DEF Images!Applied
<1>12. ASSUME NEW k \in DOMAIN auto, Images!AutoHas(k) PROVE Guarded'
  BY <1>0, <1>1, <1>12 DEF Images!AutoHas, Images!OwnToCome
<1>13. ASSUME NEW k \in DOMAIN auto, Images!AutoSends(k) PROVE Guarded'
  <2>1. out' = out \/ out' = Append(out, Images!Frame(board, "read"))
    BY <1>13 DEF Images!AutoSends, Images!Send
  <2>2. Images!Frame(board, "read").via = "read"
    BY DEF Images!Frame
  <2>3. \A j \in DOMAIN out' : \/ j \in DOMAIN out /\ out'[j] = out[j]
                               \/ out'[j] = Images!Frame(board, "read")
    BY <1>0, <2>1
  <2>4. late' = late
    BY <1>13 DEF Images!AutoSends
  <2>5. Images!NoImageEcho'
    BY <1>0, <2>2, <2>3, <2>4 DEF Images!NoImageEcho
  <2> QED BY <1>0, <1>13, <2>5 DEF Images!AutoSends, Images!OwnToCome, Guarded
<1>14. CASE UNCHANGED Images!vars
  BY <1>0, <1>1, <1>14 DEF Images!vars, Images!OwnToCome
<1> QED BY <1>2, <1>3, <1>4, <1>5, <1>6, <1>7, <1>8, <1>9, <1>10, <1>11, <1>12, <1>13, <1>14
        DEF Images!Next

\* A content that was reported has its number; the listener knows the URI of the
\* latest one once it was reported.
Reported(c) == c.n <= board.n /\ (c.n = board.n => lastImageUri = board.uri)

\* A content is in one place: its event is queued, it is being read, or it was sent.
Placed ==
  /\ \A k \in DOMAIN imageEvents : Reported(imageEvents[k])
  /\ \A c \in reading : Reported(c)
  /\ \A k \in DOMAIN out : out[k].via = "event" => Reported(out[k])
  /\ \A k, l \in DOMAIN imageEvents : k # l => imageEvents[k].n # imageEvents[l].n
  /\ \A c, d \in reading : c # d => c.n # d.n
  /\ \A k \in DOMAIN imageEvents, c \in reading : imageEvents[k].n # c.n
  /\ \A k \in DOMAIN out : out[k].via = "event" =>
       /\ \A j \in DOMAIN imageEvents : imageEvents[j].n # out[k].n
       /\ \A c \in reading : c.n # out[k].n
  /\ Images!ImageOnce
  /\ Images!NoLeftovers

LEMMA ImagesPlaced ==
  ASSUME ImagesTypeOK, Placed, [Images!Next]_(Images!vars)
  PROVE  Placed'
<1> USE DEF Images!native, Images!bounds
<1>0. /\ imageEvents \in Seq(Contents) /\ out \in Seq(FramesOut)
      /\ board.n \in Nat /\ reading \in SUBSET Contents
      /\ \A c \in Contents : c.n \in Nat
  BY DEF ImagesTypeOK, Contents
<1>1. ASSUME UNCHANGED <<imageEvents, reading, imageFiles, board, lastImageUri>>,
             \/ out' = out
             \/ \E c : out' = Append(out, Images!Frame(c, "read"))
      PROVE  Placed'
  <2>1. CASE out' = out
    BY <1>1, <2>1 DEF Placed, Reported, Images!ImageOnce, Images!NoLeftovers
  <2>2. ASSUME NEW c, out' = Append(out, Images!Frame(c, "read")) PROVE Placed'
    <3>1. Images!Frame(c, "read").via # "event"
      BY DEF Images!Frame
    <3>2. \A k \in DOMAIN out' : out'[k].via = "event" => k \in DOMAIN out /\ out'[k] = out[k]
      BY <1>0, <2>2, <3>1
    <3> QED BY <1>1, <3>2 DEF Placed, Reported, Images!ImageOnce, Images!NoLeftovers
  <2> QED BY <1>1, <2>1, <2>2
<1>2. ASSUME NEW i, NEW uri, NEW who, Images!Put(i, uri, who),
             UNCHANGED <<lastImageUri, imageEvents, reading, imageFiles, out>>
      PROVE  Placed'
  <2>1. board'.n = board.n + 1
    BY <1>2 DEF Images!Put
  <2>2. \A c : c.n \in Nat /\ Reported(c) => Reported(c)'
    BY <1>0, <2>1 DEF Reported
  <2>3. /\ \A k \in DOMAIN imageEvents : imageEvents[k].n \in Nat
        /\ \A c \in reading : c.n \in Nat
        /\ \A k \in DOMAIN out : out[k].n \in Nat
    <3>1. \A f \in FramesOut : f.n \in Nat
      BY DEF FramesOut
    <3>2. \A k \in DOMAIN imageEvents : imageEvents[k] \in Contents
      BY <1>0
    <3>3. \A k \in DOMAIN out : out[k] \in FramesOut
      BY <1>0
    <3> QED BY <1>0, <3>1, <3>2, <3>3
  <2>4. /\ \A k \in DOMAIN imageEvents' : Reported(imageEvents[k])'
        /\ \A c \in reading' : Reported(c)'
        /\ \A k \in DOMAIN out' : out'[k].via = "event" => Reported(out[k])'
    BY <1>2, <2>2, <2>3 DEF Placed, Reported
  <2> QED BY <1>2, <2>4 DEF Placed, Reported, Images!ImageOnce, Images!NoLeftovers
<1>3. CASE Images!EmitImage
  <2>1. CASE UNCHANGED <<lastImageUri, imageFiles, imageEvents>>
    <3>1. UNCHANGED <<board, reading, out>>
      BY <1>3 DEF Images!EmitImage
    <3> QED BY <1>1, <2>1, <3>1
  <2>2. CASE /\ lastImageUri # board.uri /\ lastImageUri' = board.uri
             /\ imageFiles' = imageFiles \cup {board.n}
             /\ imageEvents' = Append(imageEvents, board)
    <3>1. UNCHANGED <<board, out, reading>>
      BY <1>3 DEF Images!EmitImage
    <3>2. \A c : Reported(c) => c.n # board.n /\ Reported(c)'
      BY <2>2, <3>1 DEF Reported
    <3>3. Reported(board)'
      BY <1>0, <2>2, <3>1 DEF Reported
    <3>4. DOMAIN imageEvents' = 1 .. Len(imageEvents) + 1 /\ Len(imageEvents) \in Nat
      BY <1>0, <2>2
    <3>5. \A k \in DOMAIN imageEvents' :
            imageEvents'[k] = IF k \in DOMAIN imageEvents THEN imageEvents[k] ELSE board
      BY <1>0, <2>2
    <3>6. {imageEvents'[k].n : k \in DOMAIN imageEvents'}
            = {imageEvents[k].n : k \in DOMAIN imageEvents} \cup {board.n}
      <4>1. DOMAIN imageEvents = 1 .. Len(imageEvents)
        BY <1>0
      <4>2. /\ \A k \in DOMAIN imageEvents : k \in DOMAIN imageEvents'
            /\ Len(imageEvents) + 1 \in DOMAIN imageEvents'
            /\ Len(imageEvents) + 1 \notin DOMAIN imageEvents
        BY <3>4, <4>1
      <4>3. \A k \in DOMAIN imageEvents' : k \notin DOMAIN imageEvents => k = Len(imageEvents) + 1
        BY <3>4, <4>1
      <4> QED BY <3>5, <4>2, <4>3
    <3>7. Images!NoLeftovers'
      BY <2>2, <3>1, <3>6 DEF Placed, Images!NoLeftovers
    <3>8. \A k, l \in DOMAIN imageEvents' : k # l => imageEvents'[k].n # imageEvents'[l].n
      <4>1. \A k \in DOMAIN imageEvents' : k \notin DOMAIN imageEvents => k = Len(imageEvents) + 1
        BY <1>0, <3>4
      <4>2. \A k \in DOMAIN imageEvents : imageEvents[k].n # board.n
        BY <3>2 DEF Placed
      <4> QED BY <3>5, <4>1, <4>2 DEF Placed
    <3> QED BY <3>1, <3>2, <3>3, <3>5, <3>7, <3>8 DEF Placed, Images!ImageOnce
  <2> QED BY <1>3, <2>1, <2>2 DEF Images!EmitImage, Images!Known
<1> DEFINE c == Head(imageEvents)
<1>4. ASSUME imageEvents # <<>>, imageEvents' = Tail(imageEvents)
      PROVE  /\ c = imageEvents[1] /\ 1 \in DOMAIN imageEvents /\ c \in Contents
             /\ \A k \in DOMAIN imageEvents' : /\ k + 1 \in DOMAIN imageEvents /\ k + 1 # 1
                                               /\ imageEvents'[k] = imageEvents[k + 1]
             /\ \A k, l \in DOMAIN imageEvents' : k # l => k + 1 # l + 1
             /\ {imageEvents'[k].n : k \in DOMAIN imageEvents'}
                  = {imageEvents[k].n : k \in DOMAIN imageEvents} \ {c.n}
  <2>1. /\ c = imageEvents[1] /\ 1 \in DOMAIN imageEvents /\ c \in Contents
        /\ DOMAIN imageEvents' = 1 .. Len(imageEvents) - 1 /\ Len(imageEvents) \in Nat
        /\ DOMAIN imageEvents = 1 .. Len(imageEvents)
    BY <1>0, <1>4
  <2>2. \A k \in DOMAIN imageEvents' : /\ k + 1 \in DOMAIN imageEvents /\ k + 1 # 1
                                       /\ imageEvents'[k] = imageEvents[k + 1]
    BY <1>0, <1>4, <2>1
  <2>3. \A k, l \in DOMAIN imageEvents' : k # l => k + 1 # l + 1
    BY <2>1
  <2>4. \A k \in DOMAIN imageEvents : k # 1 => k - 1 \in DOMAIN imageEvents' /\ (k - 1) + 1 = k
    BY <2>1
  <2>5. \A k \in DOMAIN imageEvents : k # 1 => imageEvents[k].n # c.n
    BY <2>1 DEF Placed
  <2> HIDE DEF c
  <2>6. {imageEvents'[k].n : k \in DOMAIN imageEvents'}
          \subseteq {imageEvents[k].n : k \in DOMAIN imageEvents} \ {c.n}
    BY <2>2, <2>5
  <2>7. \A k \in DOMAIN imageEvents : k # 1 =>
          \E j \in DOMAIN imageEvents' : imageEvents'[j].n = imageEvents[k].n
    BY <2>2, <2>4
  <2>8. {imageEvents[k].n : k \in DOMAIN imageEvents} \ {c.n}
          \subseteq {imageEvents'[k].n : k \in DOMAIN imageEvents'}
    BY <2>1, <2>7
  <2> QED BY <2>1, <2>2, <2>3, <2>6, <2>8
<1> HIDE DEF c
<1>5. CASE Images!OnImageRefused
  <2>1. /\ imageEvents # <<>> /\ imageEvents' = Tail(imageEvents)
        /\ imageFiles' = imageFiles \ {c.n} /\ UNCHANGED <<Images!native, reading, out>>
    BY <1>5 DEF Images!OnImageRefused, Images!Dropped, c
  <2>2. Images!NoLeftovers'
    <3>1. c.n \notin {d.n : d \in reading}
      BY <1>4, <2>1 DEF Placed
    <3> QED BY <1>4, <2>1, <3>1 DEF Placed, Images!NoLeftovers
  <2> QED BY <1>4, <2>1, <2>2 DEF Placed, Reported, Images!ImageOnce
<1>6. CASE Images!OnImage
  <2>1. /\ imageEvents # <<>> /\ imageEvents' = Tail(imageEvents)
        /\ reading' = reading \cup {c} /\ UNCHANGED <<Images!native, imageFiles, out>>
    BY <1>6 DEF Images!OnImage, c
  <2>2. Images!NoLeftovers'
    <3>1. {d.n : d \in reading'} = {d.n : d \in reading} \cup {c.n}
      BY <2>1
    <3>2. c.n \in {imageEvents[k].n : k \in DOMAIN imageEvents}
      BY <1>4, <2>1
    <3> QED BY <1>4, <2>1, <3>1, <3>2 DEF Placed, Images!NoLeftovers
  <2>3. \A d \in reading : d.n # c.n
    BY <1>4, <2>1 DEF Placed
  <2>4. \A k \in DOMAIN imageEvents' : imageEvents'[k].n # c.n
    BY <1>4, <2>1 DEF Placed
  <2>5. Reported(c) /\ \A k \in DOMAIN out : out[k].via = "event" => c.n # out[k].n
    BY <1>4, <2>1 DEF Placed
  <2> QED BY <1>4, <2>1, <2>2, <2>3, <2>4, <2>5 DEF Placed, Reported, Images!ImageOnce
<1>7. ASSUME NEW d \in reading, Images!ReadDone(d) PROVE Placed'
  <2> DEFINE f == Images!Frame(d, "event")
  <2>1. /\ reading' = reading \ {d} /\ imageFiles' = imageFiles \ {d.n}
        /\ UNCHANGED <<Images!native, imageEvents>>
        /\ out' = out \/ out' = Append(out, f)
    BY <1>7 DEF Images!ReadDone, Images!Send
  <2>2. f.n = d.n
    BY DEF Images!Frame
  <2> HIDE DEF f
  <2>3. Images!NoLeftovers'
    <3>1. {e.n : e \in reading'} = {e.n : e \in reading} \ {d.n}
      BY <2>1 DEF Placed
    <3>2. d.n \notin {imageEvents[k].n : k \in DOMAIN imageEvents}
      BY DEF Placed
    <3> QED BY <2>1, <3>1, <3>2 DEF Placed, Images!NoLeftovers
  <2>4. CASE out' = out
    BY <2>1, <2>3, <2>4 DEF Placed, Reported, Images!ImageOnce
  <2>5. CASE out' = Append(out, f)
    <3>1. \A k \in DOMAIN out' : IF k \in DOMAIN out THEN out'[k] = out[k] ELSE out'[k] = f
      BY <1>0, <2>5
    <3>2. \A k, l \in DOMAIN out' : k \in DOMAIN out \/ l \in DOMAIN out \/ k = l
      BY <1>0, <2>5
    <3>3. /\ Reported(f) /\ \A k \in DOMAIN out : out[k].via = "event" => out[k].n # f.n
          /\ \A j \in DOMAIN imageEvents : imageEvents[j].n # f.n
          /\ \A e \in reading' : e.n # f.n
      BY <2>1, <2>2 DEF Placed, Reported
    <3>4. Images!ImageOnce'
      BY <3>1, <3>2, <3>3 DEF Placed, Images!ImageOnce
    <3>5. \A k \in DOMAIN out' : out'[k].via = "event" =>
            /\ Reported(out'[k])
            /\ \A j \in DOMAIN imageEvents : imageEvents[j].n # out'[k].n
            /\ \A e \in reading' : e.n # out'[k].n
      BY <2>1, <3>1, <3>3 DEF Placed, Reported
    <3> QED BY <2>1, <2>3, <3>4, <3>5 DEF Placed, Reported
  <2> QED BY <2>1, <2>4, <2>5
<1>8. ASSUME NEW i \in Images!Image, Images!UserCopies(i) PROVE Placed'
  BY <1>2, <1>8 DEF Images!UserCopies
<1>9. ASSUME NEW k \in DOMAIN applying, Images!Applied(k) PROVE Placed'
  BY <1>2, <1>9 DEF Images!Applied, Images!SetImage
<1>10. ASSUME NEW k \in DOMAIN auto, Images!AutoSends(k) PROVE Placed'
  BY <1>1, <1>10 DEF Images!AutoSends, Images!Send
<1>11. ASSUME UNCHANGED <<imageEvents, reading, imageFiles, Images!native, out>> PROVE Placed'
  BY <1>1, <1>11
<1>12. ASSUME Images!Next, ~Images!EmitImage, ~Images!OnImageRefused, ~Images!OnImage,
              ~ \E d \in reading : Images!ReadDone(d),
              ~ \E i \in Images!Image : Images!UserCopies(i),
              ~ \E k \in DOMAIN applying : Images!Applied(k),
              ~ \E k \in DOMAIN auto : Images!AutoSends(k)
       PROVE  UNCHANGED <<imageEvents, reading, imageFiles, Images!native, out>>
  BY <1>12 DEF Images!Next, Images!OnImageClip, Images!GraceEnds, Images!Foreground,
               Images!Connect, Images!Drop, Images!WriteIncoming, Images!AutoHas
<1>13. CASE UNCHANGED Images!vars
  BY <1>11, <1>13 DEF Images!vars
<1> QED BY <1>3, <1>5, <1>6, <1>7, <1>8, <1>9, <1>10, <1>11, <1>12, <1>13

\* A number stands for one picture.
Pictured(c) == c.n <= board.n /\ (c.n = board.n => c.img = board.img)
Encoding(f) == IF f.via = "read" THEN "png" ELSE "raw"

\* What was sent last is remembered as it was read.
Remembered ==
  /\ \A k \in DOMAIN imageEvents : Pictured(imageEvents[k])
  /\ \A c \in reading : Pictured(c)
  /\ \A k \in DOMAIN out : Pictured(out[k])
  /\ out # <<>> => lastSent = Images!Bytes(out[Len(out)].img, Encoding(out[Len(out)]))
  /\ Images!ReadOnce

\* An image that is sent becomes what was sent last.
LEMMA ImageSent ==
  ASSUME ImagesTypeOK, Remembered, UNCHANGED <<board, imageEvents>>,
         reading' \in SUBSET reading,
         NEW c \in Contents, Pictured(c), NEW via \in {"event", "read"},
         LET enc == IF via = "read" THEN "png" ELSE "raw" IN Images!Send(c, enc, via),
         via = "read" => c = board
  PROVE  Remembered'
<1> DEFINE f == Images!Frame(c, via)
           n == Len(out)
<1>1. /\ out \in Seq(FramesOut) /\ n \in Nat /\ DOMAIN out = 1 .. n /\ board.n \in Nat
      /\ imageEvents \in Seq(Contents)
  BY DEF ImagesTypeOK, Contents
<1>2. out' = Append(out, f) /\ lastSent' = Images!Bytes(c.img, Encoding(f))
  BY DEF Images!Send, Encoding, Images!Frame
<1>3. f.img = c.img /\ f.n = c.n /\ f.via = via
  BY DEF Images!Frame
<1>4. lastSent # Images!Bytes(c.img, Encoding(f))
  BY <1>3 DEF Images!Send, Encoding
<1> HIDE DEF f, n
<1>5. /\ DOMAIN out' = 1 .. n + 1 /\ Len(out') = n + 1 /\ out'[n + 1] = f /\ out' # <<>>
      /\ \A k \in 1 .. n : out'[k] = out[k]
  BY <1>1, <1>2 DEF n
<1>6. Pictured(f)
  BY <1>3 DEF Pictured
<1>7. \A k \in DOMAIN out' : Pictured(out'[k])
  <2>1. \A k \in DOMAIN out' : k \in DOMAIN out \/ k = n + 1
    BY <1>1, <1>5
  <2> QED BY <1>1, <1>5, <1>6, <2>1 DEF Remembered
<1>8. via = "read" /\ n > 0 => ~(out[n].via = "read" /\ out[n].n = c.n)
  <2> SUFFICES ASSUME via = "read", n > 0, out[n].via = "read", out[n].n = c.n
               PROVE  FALSE
    OBVIOUS
  <2>1. Pictured(out[n]) /\ lastSent = Images!Bytes(out[n].img, Encoding(out[n]))
    BY <1>1 DEF Remembered, n
  <2>2. out[n].img = c.img
    BY <2>1 DEF Pictured
  <2> QED BY <1>3, <1>4, <2>1, <2>2 DEF Encoding
<1>9. Images!ReadOnce'
  <2> SUFFICES ASSUME NEW k \in DOMAIN out', NEW l \in DOMAIN out', k < l,
                      out'[k].via = "read", out'[l].via = "read", out'[k].n = out'[l].n
               PROVE  l > k + 1
    BY DEF Images!ReadOnce
  <2>1. k \in 1 .. n /\ out'[k] = out[k]
    BY <1>1, <1>5
  <2>2. CASE l \in 1 .. n
    BY <1>1, <1>5, <2>1, <2>2 DEF Remembered, Images!ReadOnce
  <2>3. CASE l = n + 1
    <3>1. k # n
      BY <1>1, <1>3, <1>5, <1>8, <2>1, <2>3
    <3> QED BY <1>1, <2>1, <2>3, <3>1
  <2> QED BY <1>1, <1>5, <2>2, <2>3
<1>10. \A k \in DOMAIN imageEvents : Pictured(imageEvents[k])
  BY DEF Remembered
<1>11. \A d \in reading' : Pictured(d)
  BY DEF Remembered
<1> QED BY <1>2, <1>3, <1>5, <1>7, <1>9, <1>10, <1>11 DEF Remembered, Pictured

LEMMA ImagesRemembered ==
  ASSUME ImagesTypeOK, Remembered, [Images!Next]_(Images!vars)
  PROVE  Remembered'
<1> USE DEF Images!native, Images!bounds
<1>0. /\ imageEvents \in Seq(Contents) /\ out \in Seq(FramesOut)
      /\ board \in Contents /\ board.n \in Nat /\ reading \in SUBSET Contents
  BY DEF ImagesTypeOK, Contents
<1>1. ASSUME UNCHANGED <<board, imageEvents, out, lastSent>>, reading' \in SUBSET reading
      PROVE  Remembered'
  BY <1>1 DEF Remembered, Pictured, Encoding, Images!ReadOnce
<1>2. ASSUME NEW i, NEW uri, NEW who, Images!Put(i, uri, who),
             UNCHANGED <<imageEvents, reading, out, lastSent>>
      PROVE  Remembered'
  <2>1. board'.n = board.n + 1
    BY <1>2 DEF Images!Put
  <2>2. \A c : c.n \in Nat /\ Pictured(c) => Pictured(c)'
    BY <1>0, <2>1 DEF Pictured
  <2>3. /\ \A k \in DOMAIN imageEvents : imageEvents[k].n \in Nat
        /\ \A c \in reading : c.n \in Nat
        /\ \A k \in DOMAIN out : out[k].n \in Nat
    <3>1. /\ \A f \in FramesOut : f.n \in Nat
          /\ \A c \in Contents : c.n \in Nat
      BY DEF FramesOut, Contents
    <3>2. \A k \in DOMAIN imageEvents : imageEvents[k] \in Contents
      BY <1>0
    <3>3. \A k \in DOMAIN out : out[k] \in FramesOut
      BY <1>0
    <3> QED BY <1>0, <3>1, <3>2, <3>3
  <2>4. /\ \A k \in DOMAIN imageEvents' : Pictured(imageEvents[k])'
        /\ \A c \in reading' : Pictured(c)'
        /\ \A k \in DOMAIN out' : Pictured(out[k])'
    BY <1>2, <2>2, <2>3 DEF Remembered, Pictured
  <2> QED BY <1>2, <2>4 DEF Remembered, Pictured, Encoding, Images!ReadOnce
<1>3. CASE Images!EmitImage
  <2>1. UNCHANGED <<board, reading, out, lastSent>>
    BY <1>3 DEF Images!EmitImage
  <2>2. imageEvents' = imageEvents \/ imageEvents' = Append(imageEvents, board)
    BY <1>3 DEF Images!EmitImage
  <2>3. \A k \in DOMAIN imageEvents' :
          \/ k \in DOMAIN imageEvents /\ imageEvents'[k] = imageEvents[k]
          \/ imageEvents'[k] = board
    BY <1>0, <2>2, SMTT(60)
  <2>4. Pictured(board)
    BY <1>0 DEF Pictured
  <2> QED BY <2>1, <2>3, <2>4 DEF Remembered, Pictured, Encoding, Images!ReadOnce
<1>4. CASE Images!OnImageRefused \/ Images!OnImage
  <2>1. /\ imageEvents # <<>> /\ imageEvents' = Tail(imageEvents)
        /\ reading' \in SUBSET (reading \cup {imageEvents[1]}) /\ UNCHANGED <<board, out, lastSent>>
    BY <1>0, <1>4 DEF Images!OnImageRefused, Images!OnImage
  <2>2. \A k \in DOMAIN imageEvents' : k + 1 \in DOMAIN imageEvents
                                       /\ imageEvents'[k] = imageEvents[k + 1]
    BY <1>0, <2>1
  <2>3. 1 \in DOMAIN imageEvents
    BY <1>0, <2>1
  <2> QED BY <2>1, <2>2, <2>3 DEF Remembered, Pictured, Encoding, Images!ReadOnce
<1>5. ASSUME NEW c \in reading, Images!ReadDone(c) PROVE Remembered'
  <2>1. /\ reading' \in SUBSET reading /\ UNCHANGED <<board, imageEvents>>
        /\ Images!Send(c, "raw", "event") \/ UNCHANGED <<lastSent, out>>
    BY <1>5 DEF Images!ReadDone
  <2>2. c \in Contents /\ Pictured(c)
    BY <1>0 DEF Remembered
  <2> QED BY <1>1, <2>1, <2>2, ImageSent
<1>6. ASSUME NEW k \in DOMAIN auto, Images!AutoSends(k) PROVE Remembered'
  <2>1. /\ UNCHANGED <<board, imageEvents, reading>>
        /\ Images!Send(board, "png", "read") \/ UNCHANGED <<lastSent, out>>
    BY <1>6 DEF Images!AutoSends
  <2>2. Pictured(board)
    BY <1>0 DEF Pictured
  <2> QED BY <1>0, <1>1, <2>1, <2>2, ImageSent
<1>7. ASSUME NEW i \in Images!Image, Images!UserCopies(i) PROVE Remembered'
  BY <1>2, <1>7 DEF Images!UserCopies
<1>8. ASSUME NEW k \in DOMAIN applying, Images!Applied(k) PROVE Remembered'
  BY <1>2, <1>8 DEF Images!Applied, Images!SetImage
<1>9. ASSUME UNCHANGED <<board, imageEvents, out, lastSent, reading>> PROVE Remembered'
  BY <1>1, <1>9
<1>10. ASSUME Images!Next, ~Images!EmitImage, ~Images!OnImageRefused, ~Images!OnImage,
              ~ \E d \in reading : Images!ReadDone(d),
              ~ \E i \in Images!Image : Images!UserCopies(i),
              ~ \E k \in DOMAIN applying : Images!Applied(k),
              ~ \E k \in DOMAIN auto : Images!AutoSends(k)
       PROVE  UNCHANGED <<board, imageEvents, out, lastSent, reading>>
  BY <1>10 DEF Images!Next, Images!OnImageClip, Images!GraceEnds, Images!Foreground,
               Images!Connect, Images!Drop, Images!WriteIncoming, Images!AutoHas
<1>11. CASE UNCHANGED Images!vars
  BY <1>9, <1>11 DEF Images!vars
<1> QED BY <1>3, <1>4, <1>5, <1>6, <1>7, <1>8, <1>9, <1>10, <1>11

\* The app sends back no image that came from the PC within the grace, sends a copy
\* once by the listener and not twice in a row by the foreground, and leaves no copy
\* in its cache, however copies, reads and events interleave (App.tsx,
\* ClipboardAccessibilityService.kt).
LEMMA ImagesAlone == Images!Spec => []Images!ImagesSentOnce
<1> DEFINE Inv == ImagesTypeOK /\ Guarded /\ Placed /\ Remembered
<1>1. Images!Init => Inv
  <2> SUFFICES ASSUME Images!Init PROVE Inv
    OBVIOUS
  <2>1. ImagesTypeOK
    <3>1. board \in Contents
      BY DEF Images!Init, Contents, Pictures, Whose
    <3>2. /\ imageEvents = <<>> /\ out = <<>> /\ applying = <<>> /\ reading = {} /\ fired = 0
          /\ incoming \in Pictures /\ grace = FALSE /\ late = FALSE
      BY DEF Images!Init, Pictures
    <3>3. /\ <<>> \in Seq(Contents) /\ <<>> \in Seq(FramesOut)
          /\ <<>> \in Seq([img : PCImage, at : {"write", "set"}])
      OBVIOUS
    <3> QED BY <3>1, <3>2, <3>3 DEF ImagesTypeOK
  <2>2. Guarded
    BY DEF Images!Init, Guarded, Images!OwnToCome, Images!NoImageEcho
  <2>3. Placed
    BY DEF Images!Init, Placed, Images!ImageOnce, Images!NoLeftovers
  <2>4. Remembered
    BY DEF Images!Init, Remembered, Images!ReadOnce
  <2> QED BY <2>1, <2>2, <2>3, <2>4
<1>2. Inv /\ [Images!Next]_(Images!vars) => Inv'
  BY ImagesTyping, ImagesGuarded, ImagesPlaced, ImagesRemembered
<1>3. Inv => Images!ImagesSentOnce
  BY DEF Images!ImagesSentOnce, Guarded, Placed, Remembered
<1> HIDE DEF Inv
<1> QED BY <1>1, <1>2, <1>3, PTL DEF Images!Spec

------------------------------------------------------------------------------
(* The share sheet *)

ItemsOf(s) == Sharing!ToSet(s)
Distinct(s) == Sharing!IsInjective(s)
Batches == Seq(Sharing!Item)

\* What the user shares at a time: some items, each once.
SharesAreBatches == \A batch \in Shares : batch \in Batches /\ Distinct(batch)

\* Taking the first of distinct items leaves the others.
LEMMA ItemsOfTail ==
  ASSUME NEW s \in Batches, s # <<>>, Distinct(s)
  PROVE  /\ Tail(s) \in Batches /\ Distinct(Tail(s))
         /\ Head(s) \in ItemsOf(s)
         /\ ItemsOf(Tail(s)) = ItemsOf(s) \ {Head(s)}
<1>1. /\ Tail(s) \in Batches /\ Len(Tail(s)) = Len(s) - 1 /\ Len(s) \in Nat \ {0}
      /\ \A k \in 1 .. Len(Tail(s)) : Tail(s)[k] = s[k + 1]
      /\ DOMAIN s = 1 .. Len(s) /\ DOMAIN Tail(s) = 1 .. Len(Tail(s)) /\ Head(s) = s[1]
  BY HeadTailProperties, LenProperties, EmptySeq DEF Batches
<1>2. Distinct(Tail(s))
  BY <1>1 DEF Distinct, Sharing!IsInjective
<1>3. Head(s) \in ItemsOf(s)
  BY <1>1 DEF ItemsOf, Sharing!ToSet
<1>4. ASSUME NEW i \in ItemsOf(Tail(s)) PROVE i \in ItemsOf(s) \ {Head(s)}
  <2>1. PICK k \in 1 .. Len(Tail(s)) : i = Tail(s)[k]
    BY <1>1 DEF ItemsOf, Sharing!ToSet
  <2> QED BY <1>1, <2>1 DEF ItemsOf, Sharing!ToSet, Distinct, Sharing!IsInjective
<1>5. ASSUME NEW i \in ItemsOf(s) \ {Head(s)} PROVE i \in ItemsOf(Tail(s))
  <2>1. PICK k \in 1 .. Len(s) : i = s[k]
    BY <1>1 DEF ItemsOf, Sharing!ToSet
  <2>2. k - 1 \in 1 .. Len(Tail(s)) /\ Tail(s)[k - 1] = i
    BY <1>1, <1>5, <2>1
  <2> QED BY <1>1, <2>2 DEF ItemsOf, Sharing!ToSet
<1> QED BY <1>1, <1>2, <1>3, <1>4, <1>5

\* An item that is appended is one more, and distinct if it is new.
LEMMA ItemsOfAppend ==
  ASSUME NEW s \in Batches, NEW i \in Sharing!Item
  PROVE  /\ Append(s, i) \in Batches
         /\ ItemsOf(Append(s, i)) = ItemsOf(s) \cup {i}
         /\ Distinct(s) /\ i \notin ItemsOf(s) => Distinct(Append(s, i))
<1>1. /\ Append(s, i) \in Batches /\ Len(Append(s, i)) = Len(s) + 1 /\ Len(s) \in Nat
      /\ DOMAIN s = 1 .. Len(s) /\ DOMAIN Append(s, i) = 1 .. Len(s) + 1
      /\ \A k \in 1 .. Len(s) : Append(s, i)[k] = s[k]
      /\ Append(s, i)[Len(s) + 1] = i
  BY AppendProperties, LenProperties DEF Batches
<1>2. ItemsOf(Append(s, i)) = ItemsOf(s) \cup {i}
  BY <1>1 DEF ItemsOf, Sharing!ToSet
<1>3. ASSUME Distinct(s), i \notin ItemsOf(s) PROVE Distinct(Append(s, i))
  BY <1>1, <1>3 DEF ItemsOf, Sharing!ToSet, Distinct, Sharing!IsInjective
<1> QED BY <1>1, <1>2, <1>3

\* Two batches one after the other hold what both hold.
LEMMA ItemsOfConcat ==
  ASSUME NEW s \in Batches, NEW t \in Batches
  PROVE  /\ s \o t \in Batches
         /\ ItemsOf(s \o t) = ItemsOf(s) \cup ItemsOf(t)
         /\ Distinct(s) /\ Distinct(t) /\ ItemsOf(s) \cap ItemsOf(t) = {} => Distinct(s \o t)
<1> DEFINE m == Len(s)
           n == Len(t)
           c == s \o t
<1>1. /\ c \in Batches /\ Len(c) = m + n /\ m \in Nat /\ n \in Nat
      /\ DOMAIN s = 1 .. m /\ DOMAIN t = 1 .. n /\ DOMAIN c = 1 .. m + n
  BY ConcatProperties, LenProperties DEF Batches
<1>0. \A k \in 1 .. m + n : c[k] = IF k <= m THEN s[k] ELSE t[k - m]
  BY ConcatProperties DEF Batches
<1> HIDE DEF m, n, c
<1>2. /\ \A k \in 1 .. m : c[k] = s[k]
      /\ \A k \in 1 .. n : c[m + k] = t[k]
      /\ \A k \in 1 .. m + n : k \in 1 .. m \/ (k - m \in 1 .. n /\ c[k] = t[k - m])
  <2>1. ASSUME NEW k \in 1 .. n PROVE c[m + k] = t[k]
    <3> DEFINE j == m + k
    <3>1. j \in 1 .. m + n /\ ~(j <= m) /\ j - m = k
      BY <1>1
    <3> HIDE DEF j
    <3>2. c[j] = t[k]
      BY <1>0, <3>1
    <3> QED BY <3>2 DEF j
  <2> QED BY <1>0, <1>1, <2>1
<1>3. ASSUME NEW i \in ItemsOf(c) PROVE i \in ItemsOf(s) \cup ItemsOf(t)
  BY <1>1, <1>2, <1>3 DEF ItemsOf, Sharing!ToSet
<1>4. ItemsOf(s) \subseteq ItemsOf(c)
  BY <1>1, <1>2 DEF ItemsOf, Sharing!ToSet
<1>5. ASSUME NEW i \in ItemsOf(t) PROVE i \in ItemsOf(c)
  <2>1. PICK k \in 1 .. n : i = t[k]
    BY <1>1, <1>5 DEF ItemsOf, Sharing!ToSet
  <2>2. m + k \in 1 .. m + n
    BY <1>1
  <2> QED BY <1>1, <1>2, <2>1, <2>2 DEF ItemsOf, Sharing!ToSet
<1>6. ASSUME Distinct(s), Distinct(t), ItemsOf(s) \cap ItemsOf(t) = {},
             NEW a \in DOMAIN c, NEW b \in DOMAIN c, c[a] = c[b]
      PROVE  a = b
  <2>1. CASE a \in 1 .. m /\ b \in 1 .. m
    BY <1>1, <1>2, <1>6, <2>1 DEF Distinct, Sharing!IsInjective
  <2>2. CASE a - m \in 1 .. n /\ b - m \in 1 .. n /\ c[a] = t[a - m] /\ c[b] = t[b - m]
    <3>1. a - m = b - m
      BY <1>1, <1>6, <2>2 DEF Distinct, Sharing!IsInjective
    <3> QED BY <1>1, <3>1
  <2>3. CASE a \in 1 .. m /\ b - m \in 1 .. n /\ c[b] = t[b - m]
    <3>1. c[a] \in ItemsOf(s) /\ c[b] \in ItemsOf(t)
      BY <1>1, <1>2, <2>3 DEF ItemsOf, Sharing!ToSet
    <3> QED BY <1>6, <3>1
  <2>4. CASE b \in 1 .. m /\ a - m \in 1 .. n /\ c[a] = t[a - m]
    <3>1. c[b] \in ItemsOf(s) /\ c[a] \in ItemsOf(t)
      BY <1>1, <1>2, <2>4 DEF ItemsOf, Sharing!ToSet
    <3> QED BY <1>6, <3>1
  <2> QED BY <1>1, <1>2, <2>1, <2>2, <2>3, <2>4
<1>7. Distinct(s) /\ Distinct(t) /\ ItemsOf(s) \cap ItemsOf(t) = {} => Distinct(c)
  BY <1>6 DEF Distinct, Sharing!IsInjective
<1> QED BY <1>1, <1>3, <1>4, <1>5, <1>7 DEF c

Envelopes == [items : Batches, event : BOOLEAN]
LoopStates == [queue : Batches, attempts : 0 .. MaxAttempts,
               at : {"head", "read", "wait"}, stale : BOOLEAN]

\* No item travels twice, and no loop has one that another has; a loop that reads
\* a file has it first in its queue and attempts left.
InboxApart ==
  /\ inbox \in Seq(Envelopes)
  /\ \A n \in DOMAIN inbox : Distinct(inbox[n].items)
  /\ \A m, n \in DOMAIN inbox :
       m # n => ItemsOf(inbox[m].items) \cap ItemsOf(inbox[n].items) = {}
LoopsApart ==
  /\ loops \in SUBSET LoopStates
  /\ \A l \in loops : Distinct(l.queue) /\ (l.at = "read" => l.queue # <<>> /\ l.attempts < MaxAttempts)
  /\ \A l, m \in loops : l # m => ItemsOf(l.queue) \cap ItemsOf(m.queue) = {}

InPending == ItemsOf(pending)
InSent == ItemsOf(sent)
InShared == ItemsOf(shared)
Travels == Sharing!Travelling
Waits == Sharing!Queued

\* An item is in one place at most, has been shared, is accounted for, and the copy
\* of a file is there as long as it is to be sent.
Balance ==
  /\ InPending \cap (Travels \cup Waits \cup InSent) = {}
  /\ Travels \cap (Waits \cup InSent) = {}
  /\ Waits \cap InSent = {}
  /\ InPending \cup Travels \cup Waits \cup InSent \subseteq InShared
  /\ \A i \in InShared : i \in InPending \cup Travels \cup Waits \cup InSent \/ given[i] # "no"
  /\ (InPending \cup Travels \cup Waits) \ Text \subseteq shareFiles

SharesInv ==
  /\ shared \in Batches
  /\ pending \in Batches /\ Distinct(pending)
  /\ sent \in Batches /\ Distinct(sent)
  /\ shareFiles \subseteq Sharing!Item \ Text
  /\ js \in {"none", "active", "listening"} /\ draining \in BOOLEAN /\ up \in BOOLEAN
  /\ given \in [Sharing!Item -> Sharing!Reasons]
  /\ InboxApart /\ LoopsApart /\ Balance

\* An envelope that joins the others brings its items.
LEMMA InboxGets ==
  ASSUME InboxApart, NEW e \in Envelopes, Distinct(e.items),
         ItemsOf(e.items) \cap Travels = {}, inbox' = Append(inbox, e)
  PROVE  InboxApart' /\ Travels' = Travels \cup ItemsOf(e.items)
<1>1. /\ inbox' \in Seq(Envelopes) /\ Len(inbox) \in Nat
      /\ DOMAIN inbox = 1 .. Len(inbox) /\ DOMAIN inbox' = 1 .. Len(inbox) + 1
      /\ \A n \in 1 .. Len(inbox) : inbox'[n] = inbox[n]
      /\ inbox'[Len(inbox) + 1] = e
  BY AppendProperties, LenProperties DEF InboxApart
<1>2. \A n \in DOMAIN inbox : ItemsOf(inbox[n].items) \subseteq Travels
  BY DEF Travels, Sharing!Travelling, ItemsOf
<1> DEFINE last == Len(inbox) + 1
<1>3. /\ DOMAIN inbox' = DOMAIN inbox \cup {last} /\ last \notin DOMAIN inbox
      /\ \A n \in DOMAIN inbox : inbox'[n] = inbox[n]
      /\ inbox'[last] = e
  BY <1>1
<1> HIDE DEF last
<1>4. Travels' = Travels \cup ItemsOf(e.items)
  BY <1>3 DEF Travels, Sharing!Travelling, ItemsOf
<1>5. \A m, n \in DOMAIN inbox' :
        m # n => ItemsOf(inbox'[m].items) \cap ItemsOf(inbox'[n].items) = {}
  <2> SUFFICES ASSUME NEW m \in DOMAIN inbox', NEW n \in DOMAIN inbox', m # n
               PROVE  ItemsOf(inbox'[m].items) \cap ItemsOf(inbox'[n].items) = {}
    OBVIOUS
  <2>1. CASE m \in DOMAIN inbox /\ n \in DOMAIN inbox
    BY <1>3, <2>1 DEF InboxApart
  <2>2. CASE m = last \/ n = last
    BY <1>2, <1>3, <2>2
  <2> QED BY <1>3, <2>1, <2>2
<1>6. \A n \in DOMAIN inbox' : Distinct(inbox'[n].items)
  BY <1>3 DEF InboxApart
<1> QED BY <1>1, <1>4, <1>5, <1>6 DEF InboxApart, ItemsOf, Distinct

\* The first envelope takes its items with it.
LEMMA InboxGives ==
  ASSUME InboxApart, inbox # <<>>, inbox' = Tail(inbox)
  PROVE  /\ InboxApart' /\ Head(inbox) \in Envelopes /\ Distinct(Head(inbox).items)
         /\ ItemsOf(Head(inbox).items) \subseteq Travels
         /\ Travels' = Travels \ ItemsOf(Head(inbox).items)
<1>1. /\ Tail(inbox) \in Seq(Envelopes) /\ Head(inbox) \in Envelopes /\ Head(inbox) = inbox[1]
      /\ Len(inbox) \in Nat \ {0} /\ Len(Tail(inbox)) = Len(inbox) - 1
      /\ DOMAIN inbox = 1 .. Len(inbox) /\ DOMAIN Tail(inbox) = 1 .. Len(inbox) - 1
      /\ \A n \in 1 .. Len(inbox) - 1 : Tail(inbox)[n] = inbox[n + 1]
  BY HeadTailProperties, LenProperties, EmptySeq DEF InboxApart
<1>2. /\ 1 \in DOMAIN inbox
      /\ \A n \in DOMAIN inbox' : n + 1 \in DOMAIN inbox /\ n + 1 # 1 /\ inbox'[n] = inbox[n + 1]
      /\ \A n \in DOMAIN inbox : n = 1 \/ (n - 1 \in DOMAIN inbox' /\ inbox'[n - 1] = inbox[n])
      /\ \A m, n \in DOMAIN inbox' : m # n => m + 1 # n + 1
  BY <1>1
<1>3. \A n \in DOMAIN inbox : ItemsOf(inbox[n].items) \subseteq Travels
  BY DEF Travels, Sharing!Travelling, ItemsOf
<1>4. Travels' \subseteq Travels \ ItemsOf(Head(inbox).items)
  <2> SUFFICES ASSUME NEW n \in DOMAIN inbox', NEW i \in ItemsOf(inbox'[n].items)
               PROVE  i \in Travels \ ItemsOf(Head(inbox).items)
    BY DEF Travels, Sharing!Travelling, ItemsOf
  <2> QED BY <1>1, <1>2, <1>3, ZenonT(60) DEF InboxApart
<1>5. Travels \ ItemsOf(Head(inbox).items) \subseteq Travels'
  <2> SUFFICES ASSUME NEW n \in DOMAIN inbox, NEW i \in ItemsOf(inbox[n].items),
                      i \notin ItemsOf(inbox[1].items)
               PROVE  \E k \in DOMAIN inbox' : i \in ItemsOf(inbox'[k].items)
    BY <1>1, SMTT(60) DEF Travels, Sharing!Travelling, ItemsOf
  <2> QED BY <1>2
<1>6. InboxApart'
  <2>1. /\ \A n \in DOMAIN inbox' : Distinct(inbox'[n].items)
        /\ \A m, n \in DOMAIN inbox' :
             m # n => ItemsOf(inbox'[m].items) \cap ItemsOf(inbox'[n].items) = {}
    <3>1. \A n \in DOMAIN inbox' : Distinct(inbox'[n].items)
      BY <1>2 DEF InboxApart
    <3>2. ASSUME NEW m \in DOMAIN inbox', NEW n \in DOMAIN inbox', m # n
          PROVE  ItemsOf(inbox'[m].items) \cap ItemsOf(inbox'[n].items) = {}
      <4> DEFINE j == m + 1
                 k == n + 1
      <4>1. /\ j \in DOMAIN inbox /\ k \in DOMAIN inbox /\ j # k
            /\ inbox'[m] = inbox[j] /\ inbox'[n] = inbox[k]
        BY <1>2, <3>2
      <4> HIDE DEF j, k
      <4> QED BY <4>1 DEF InboxApart
    <3> QED BY <3>1, <3>2
  <2> QED BY <1>1, <2>1 DEF InboxApart, ItemsOf, Distinct
<1> QED BY <1>1, <1>2, <1>3, <1>4, <1>5, <1>6 DEF InboxApart

\* A loop that keeps some of its items leaves the rest.
LEMMA LoopChanges ==
  ASSUME LoopsApart, NEW l \in loops, NEW m \in LoopStates, Sharing!Change(l, m),
         Distinct(m.queue), m.at = "read" => m.queue # <<>> /\ m.attempts < MaxAttempts,
         ItemsOf(m.queue) \subseteq ItemsOf(l.queue)
  PROVE  /\ LoopsApart' /\ ItemsOf(l.queue) \subseteq Waits
         /\ Waits' = (Waits \ ItemsOf(l.queue)) \cup ItemsOf(m.queue)
<1>1. loops' = (loops \ {l}) \cup {m}
  BY DEF Sharing!Change
<1>2. \A k \in loops : ItemsOf(k.queue) \subseteq Waits
  BY DEF Waits, Sharing!Queued, ItemsOf
<1>3. \A k \in loops \ {l} : ItemsOf(k.queue) \cap ItemsOf(l.queue) = {}
  BY DEF LoopsApart
<1>4. Waits' \subseteq (Waits \ ItemsOf(l.queue)) \cup ItemsOf(m.queue)
  <2> SUFFICES ASSUME NEW k \in loops', NEW i \in ItemsOf(k.queue)
               PROVE  i \in (Waits \ ItemsOf(l.queue)) \cup ItemsOf(m.queue)
    BY DEF Waits, Sharing!Queued, ItemsOf
  <2> QED BY <1>1, <1>2, <1>3
<1>5. (Waits \ ItemsOf(l.queue)) \cup ItemsOf(m.queue) \subseteq Waits'
  <2>1. \A k \in loops' : ItemsOf(k.queue) \subseteq Waits'
    BY DEF Waits, Sharing!Queued, ItemsOf
  <2>2. ASSUME NEW i \in Waits \ ItemsOf(l.queue) PROVE i \in Waits'
    <3>1. PICK k \in loops : i \in ItemsOf(k.queue)
      BY <2>2 DEF Waits, Sharing!Queued, ItemsOf
    <3> QED BY <1>1, <2>1, <2>2, <3>1
  <2> QED BY <1>1, <2>1, <2>2
<1>6. LoopsApart'
  <2>1. loops' \in SUBSET LoopStates
    BY <1>1 DEF LoopsApart
  <2>2. \A k \in loops' : /\ Distinct(k.queue)
                          /\ k.at = "read" => k.queue # <<>> /\ k.attempts < MaxAttempts
    BY <1>1 DEF LoopsApart
  <2>3. \A k, j \in loops' : k # j => ItemsOf(k.queue) \cap ItemsOf(j.queue) = {}
    <3> SUFFICES ASSUME NEW k \in loops', NEW j \in loops', k # j
                 PROVE  ItemsOf(k.queue) \cap ItemsOf(j.queue) = {}
      OBVIOUS
    <3>1. CASE k \in loops \ {l} /\ j \in loops \ {l}
      BY <3>1 DEF LoopsApart
    <3>2. CASE k = m \/ j = m
      BY <1>1, <1>3, <3>2
    <3> QED BY <1>1, <3>1, <3>2
  <2> QED BY <2>1, <2>2, <2>3 DEF LoopsApart, ItemsOf, Distinct, LoopStates, Batches
<1> QED BY <1>2, <1>4, <1>5, <1>6

\* A new loop takes a batch that no other loop has.
LEMMA LoopStarts ==
  ASSUME LoopsApart, MaxAttempts \in Nat, NEW items \in Batches, Distinct(items),
         ItemsOf(items) \cap Waits = {}, loops' = loops \cup {Sharing!Loop(items)}
  PROVE  LoopsApart' /\ Waits' = Waits \cup ItemsOf(items)
<1> DEFINE m == Sharing!Loop(items)
<1>1. m \in LoopStates /\ m.queue = items /\ m.at = "head"
  BY DEF Sharing!Loop, LoopStates
<1> HIDE DEF m
<1>2. loops' = loops \cup {m}
  BY DEF m
<1>3. \A k \in loops : ItemsOf(k.queue) \subseteq Waits
  BY DEF Waits, Sharing!Queued, ItemsOf
<1>4. Waits' = Waits \cup ItemsOf(items)
  BY <1>1, <1>2 DEF Waits, Sharing!Queued, ItemsOf
<1>5. \A k, j \in loops' : k # j => ItemsOf(k.queue) \cap ItemsOf(j.queue) = {}
  BY <1>1, <1>2, <1>3 DEF LoopsApart
<1>6. /\ loops' \in SUBSET LoopStates
      /\ \A k \in loops' : Distinct(k.queue) /\ (k.at = "read" => k.queue # <<>> /\ k.attempts < MaxAttempts)
  BY <1>1, <1>2 DEF LoopsApart
<1> QED BY <1>4, <1>5, <1>6 DEF LoopsApart, ItemsOf, Distinct, LoopStates, Batches

\* A loop that ends leaves what it had.
LEMMA LoopGone ==
  ASSUME LoopsApart, NEW l \in loops, loops' = loops \ {l}
  PROVE  /\ LoopsApart' /\ ItemsOf(l.queue) \subseteq Waits
         /\ Waits' = Waits \ ItemsOf(l.queue)
<1>1. LoopsApart'
  BY DEF LoopsApart, ItemsOf, Distinct, LoopStates, Batches
<1>2. Waits' = Waits \ ItemsOf(l.queue)
  <2>1. ASSUME NEW k \in loops', NEW i \in ItemsOf(k.queue) PROVE i \in Waits \ ItemsOf(l.queue)
    BY <2>1 DEF LoopsApart, Waits, Sharing!Queued, ItemsOf
  <2>2. ASSUME NEW k \in loops, NEW i \in ItemsOf(k.queue), i \notin ItemsOf(l.queue)
        PROVE  \E j \in loops' : i \in ItemsOf(j.queue)
    BY <2>2
  <2> QED BY <2>1, <2>2 DEF Waits, Sharing!Queued, ItemsOf
<1> QED BY <1>1, <1>2 DEF Waits, Sharing!Queued, ItemsOf

\* The end of a connection marks the loops that read and moves nothing.
LEMMA LoopsMarked ==
  ASSUME LoopsApart,
         loops' = {[l EXCEPT !.stale = l.at = "read"] : l \in loops}
  PROVE  LoopsApart' /\ Waits' = Waits
<1> DEFINE f(l) == [l EXCEPT !.stale = l.at = "read"]
<1>1. \A l \in loops : /\ f(l) \in LoopStates
                       /\ f(l).queue = l.queue /\ f(l).at = l.at /\ f(l).attempts = l.attempts
  BY DEF LoopsApart, LoopStates
<1>2. /\ \A l \in loops : f(l) \in loops'
      /\ \A m \in loops' : \E l \in loops : m = f(l)
  OBVIOUS
<1> HIDE DEF f
<1>3. Waits' = Waits
  <2>1. ASSUME NEW m \in loops', NEW i \in ItemsOf(m.queue)
        PROVE  \E l \in loops : i \in ItemsOf(l.queue)
    BY <1>1, <1>2, <2>1
  <2>2. ASSUME NEW l \in loops, NEW i \in ItemsOf(l.queue)
        PROVE  \E m \in loops' : i \in ItemsOf(m.queue)
    BY <1>1, <1>2, <2>2
  <2> QED BY <2>1, <2>2 DEF Waits, Sharing!Queued, ItemsOf
<1>4. \A k, j \in loops' : k # j => ItemsOf(k.queue) \cap ItemsOf(j.queue) = {}
  <2> SUFFICES ASSUME NEW k \in loops', NEW j \in loops', k # j
               PROVE  ItemsOf(k.queue) \cap ItemsOf(j.queue) = {}
    OBVIOUS
  <2>1. PICK a \in loops, b \in loops : k = f(a) /\ j = f(b)
    BY <1>2
  <2> QED BY <1>1, <2>1, ZenonT(60) DEF LoopsApart
<1>5. loops' \in SUBSET LoopStates
  BY <1>1, <1>2
<1>6. ASSUME NEW k \in loops'
      PROVE  Distinct(k.queue) /\ (k.at = "read" => k.queue # <<>> /\ k.attempts < MaxAttempts)
  <2>1. PICK a \in loops : k = f(a)
    BY <1>2
  <2> QED BY <1>1, <2>1 DEF LoopsApart
<1> QED BY <1>3, <1>4, <1>5, <1>6 DEF LoopsApart, ItemsOf, Distinct, LoopStates, Batches

\* A loop that shifts is done with its first item.
LEMMA LoopShifts ==
  ASSUME LoopsApart, MaxAttempts \in Nat, NEW l \in loops, l.queue # <<>>,
         Sharing!Change(l, Sharing!Shift(l))
  PROVE  /\ LoopsApart' /\ Head(l.queue) \in Waits \cap Sharing!Item
         /\ Waits' = Waits \ {Head(l.queue)}
<1>1. l \in LoopStates /\ l.queue \in Batches /\ Distinct(l.queue)
  BY DEF LoopsApart, LoopStates
<1> DEFINE m == Sharing!Shift(l)
           q == l.queue
           h == Head(q)
<1>2. /\ Tail(q) \in Batches /\ Distinct(Tail(q)) /\ h \in ItemsOf(q) /\ h \in Sharing!Item
      /\ ItemsOf(Tail(q)) = ItemsOf(q) \ {h}
  BY <1>1, ItemsOfTail, HeadTailProperties DEF Batches
<1>3. m \in LoopStates /\ m.queue = Tail(q) /\ m.at = "head"
  <2> DEFINE t == Tail(q)
  <2>1. t \in Batches /\ 0 \in 0 .. MaxAttempts
    BY <1>2
  <2>2. m = [l EXCEPT !.queue = t, !.at = "head", !.attempts = 0]
    BY DEF Sharing!Shift
  <2> HIDE DEF m, q, h, t
  <2>3. m \in LoopStates /\ m.queue = t /\ m.at = "head"
    BY <1>1, <2>1, <2>2 DEF LoopStates
  <2> QED BY <2>3 DEF t
<1>4. Sharing!Change(l, m)
  OBVIOUS
<1> HIDE DEF m, q, h
<1>5. /\ LoopsApart' /\ ItemsOf(l.queue) \subseteq Waits
      /\ Waits' = (Waits \ ItemsOf(l.queue)) \cup ItemsOf(m.queue)
  BY <1>2, <1>3, <1>4, LoopChanges DEF q
<1> QED BY <1>2, <1>3, <1>5 DEF q, h

\* A loop that waits, tries again or reads keeps its items.
LEMMA LoopKeeps ==
  ASSUME LoopsApart, NEW l \in loops, NEW m \in LoopStates, Sharing!Change(l, m),
         m.queue = l.queue, m.at = "read" => m.queue # <<>> /\ m.attempts < MaxAttempts
  PROVE  LoopsApart' /\ Waits' = Waits
<1>1. Distinct(m.queue) /\ ItemsOf(m.queue) \subseteq ItemsOf(l.queue)
  BY DEF LoopsApart
<1> QED BY <1>1, LoopChanges

\* What is given up stays given up.
LEMMA GivenUp ==
  ASSUME given \in [Sharing!Item -> Sharing!Reasons], NEW S, NEW why \in Sharing!Reasons \ {"no"},
         Sharing!GiveUp(S, why)
  PROVE  /\ given' \in [Sharing!Item -> Sharing!Reasons]
         /\ \A i \in Sharing!Item : given[i] # "no" \/ i \in S => given'[i] # "no"
BY DEF Sharing!GiveUp, Sharing!Reasons, Sharing!GivenUp

\* What a step leaves alone keeps its items.
LEMMA PlacesStay ==
  ASSUME SharesInv
  PROVE  /\ UNCHANGED shared => InShared' = InShared /\ shared' \in Batches
         /\ UNCHANGED pending => InPending' = InPending /\ pending' \in Batches /\ Distinct(pending')
         /\ UNCHANGED sent => InSent' = InSent /\ sent' \in Batches /\ Distinct(sent')
         /\ UNCHANGED inbox => Travels' = Travels /\ InboxApart'
         /\ UNCHANGED loops => Waits' = Waits /\ LoopsApart'
         /\ pending' = <<>> => InPending' = {} /\ pending' \in Batches /\ Distinct(pending')
         /\ inbox' = <<>> => Travels' = {} /\ InboxApart'
         /\ loops' = {} => Waits' = {} /\ LoopsApart'
<1>1. /\ UNCHANGED shared => InShared' = InShared /\ shared' \in Batches
      /\ UNCHANGED pending => InPending' = InPending /\ pending' \in Batches /\ Distinct(pending')
      /\ UNCHANGED sent => InSent' = InSent /\ sent' \in Batches /\ Distinct(sent')
  BY DEF SharesInv, InShared, InPending, InSent
<1>2. UNCHANGED inbox => Travels' = Travels /\ InboxApart'
  BY DEF SharesInv, InboxApart, Travels, Sharing!Travelling, ItemsOf, Distinct
<1>3. UNCHANGED loops => Waits' = Waits /\ LoopsApart'
  BY DEF SharesInv, LoopsApart, Waits, Sharing!Queued, ItemsOf, Distinct, LoopStates, Batches
<1>4. /\ <<>> \in Batches /\ <<>> \in Seq(Envelopes)
      /\ Distinct(<<>>) /\ ItemsOf(<<>>) = {}
  BY DEF Batches, Distinct, Sharing!IsInjective, ItemsOf, Sharing!ToSet
<1>5. pending' = <<>> => InPending' = {} /\ pending' \in Batches /\ Distinct(pending')
  BY <1>4 DEF InPending
<1>6. inbox' = <<>> => Travels' = {} /\ InboxApart'
  BY <1>4 DEF InboxApart, Travels, Sharing!Travelling, ItemsOf, Distinct
<1>7. loops' = {} => Waits' = {} /\ LoopsApart'
  BY DEF LoopsApart, Waits, Sharing!Queued
<1> QED BY <1>1, <1>2, <1>3, <1>5, <1>6, <1>7

\* Items that are flushed travel or are pending, and are in one of the two places.
LEMMA FlushMoves ==
  ASSUME SharesInv, NEW items \in Batches, Distinct(items), ItemsOf(items) \cap Travels = {},
         Sharing!Flush(items)
  PROVE  /\ InboxApart' /\ pending' \in Batches /\ Distinct(pending')
         /\ InPending' \cup Travels' = Travels \cup ItemsOf(items)
         /\ InPending' \cap Travels' = {}
<1>1. CASE js # "none" /\ items # <<>>
  <2> DEFINE e == Sharing!Event(items)
  <2>1. e \in Envelopes /\ e.items = items
    BY DEF Sharing!Event, Envelopes
  <2>2. pending' = <<>> /\ inbox' = Append(inbox, e)
    BY <1>1 DEF Sharing!Flush
  <2> HIDE DEF e
  <2>3. InboxApart' /\ Travels' = Travels \cup ItemsOf(items)
    BY <2>1, <2>2, InboxGets DEF SharesInv
  <2> QED BY <2>2, <2>3, PlacesStay
<1>2. CASE ~(js # "none" /\ items # <<>>)
  <2>1. pending' = items /\ UNCHANGED inbox
    BY <1>2 DEF Sharing!Flush
  <2>2. InPending' = ItemsOf(items)
    BY <2>1 DEF InPending, ItemsOf
  <2> QED BY <2>1, <2>2, PlacesStay
<1> QED BY <1>1, <1>2

\* No step of the share sheet, of its loops or of what surrounds them moves an item
\* to two places or drops one.
LEMMA SharesStep ==
  ASSUME MaxAttempts \in Nat, SharesAreBatches, SharesInv, [Sharing!Next]_(Sharing!vars)
  PROVE  SharesInv'
<1> DEFINE Plain == /\ js' \in {"none", "active", "listening"}
                    /\ draining' \in BOOLEAN /\ up' \in BOOLEAN
           Typed == given' \in [Sharing!Item -> Sharing!Reasons]
           Copies == shareFiles' \subseteq Sharing!Item \ Text
<1>0. /\ \A s \in Batches : ItemsOf(s) \subseteq Sharing!Item
      /\ InShared \subseteq Sharing!Item
  BY DEF SharesInv, InShared, ItemsOf, Sharing!ToSet, Batches
<1>1. ASSUME NEW batch \in Shares, Sharing!handleIntent(batch) PROVE SharesInv'
  <2> DEFINE items == pending \o batch
  <2>1. batch \in Batches /\ Distinct(batch)
    BY DEF SharesAreBatches
  <2>2. ItemsOf(batch) \cap InShared = {} /\ ItemsOf(batch) \subseteq Sharing!Item
    BY <1>0, <1>1, <2>1 DEF Sharing!handleIntent, InShared, ItemsOf
  <2>3. /\ items \in Batches /\ Distinct(items)
        /\ ItemsOf(items) = InPending \cup ItemsOf(batch)
    BY <2>1, <2>2, ItemsOfConcat DEF SharesInv, Balance, InPending
  <2>4. shared' \in Batches /\ InShared' = InShared \cup ItemsOf(batch)
    BY <1>1, <2>1, ItemsOfConcat DEF SharesInv, Sharing!handleIntent, InShared
  <2>5. /\ Sharing!Flush(items) /\ shareFiles' = shareFiles \cup (ItemsOf(batch) \ Text)
        /\ UNCHANGED <<js, draining, loops, up, sent, given>>
    BY <1>1 DEF Sharing!handleIntent, ItemsOf
  <2> HIDE DEF items
  <2>6. /\ InboxApart' /\ pending' \in Batches /\ Distinct(pending')
        /\ InPending' \cup Travels' = Travels \cup InPending \cup ItemsOf(batch)
        /\ InPending' \cap Travels' = {}
    BY <2>2, <2>3, <2>5, FlushMoves DEF SharesInv, Balance
  <2>7. Waits' = Waits /\ LoopsApart' /\ InSent' = InSent /\ sent' \in Batches /\ Distinct(sent')
    BY <2>5, PlacesStay
  <2>8. Balance'
    BY <2>2, <2>4, <2>5, <2>6, <2>7 DEF SharesInv, Balance
  <2>9. Plain /\ Typed /\ Copies
    BY <2>2, <2>5 DEF SharesInv
  <2> QED BY <2>4, <2>6, <2>7, <2>8, <2>9 DEF SharesInv
<1>2. ASSUME UNCHANGED <<shared, pending, shareFiles, inbox, loops, sent, given>>, Plain
      PROVE  SharesInv'
  <2>1. Balance'
    BY <1>2, PlacesStay DEF SharesInv, Balance
  <2> QED BY <1>2, <2>1, PlacesStay DEF SharesInv
<1>3. ASSUME NEW e \in Envelopes, e.items = pending, inbox' = Append(inbox, e), pending' = <<>>,
             UNCHANGED <<shared, shareFiles, loops, sent, given>>, Plain
      PROVE  SharesInv'
  <2>1. InboxApart' /\ Travels' = Travels \cup InPending
    BY <1>3, InboxGets DEF SharesInv, Balance, InPending
  <2>2. Balance'
    BY <1>3, <2>1, PlacesStay DEF SharesInv, Balance
  <2> QED BY <1>3, <2>1, <2>2, PlacesStay DEF SharesInv
<1>4. CASE Sharing!ReactStarts
  <2>1. Plain /\ UNCHANGED <<shared, shareFiles, loops, sent, given>>
    BY <1>4 DEF Sharing!ReactStarts, SharesInv
  <2>2. CASE UNCHANGED <<pending, inbox>>
    BY <1>2, <2>1, <2>2
  <2>3. CASE pending' = <<>> /\ inbox' = Append(inbox, Sharing!Event(pending))
    <3>1. Sharing!Event(pending) \in Envelopes /\ Sharing!Event(pending).items = pending
      BY DEF Sharing!Event, Envelopes, SharesInv
    <3> QED BY <1>3, <2>1, <2>3, <3>1
  <2> QED BY <1>4, <2>2, <2>3 DEF Sharing!ReactStarts
<1>5. CASE Sharing!GetPendingShare
  <2>1. /\ Plain /\ UNCHANGED <<shared, shareFiles, loops, sent, given>>
        /\ pending' = <<>> /\ inbox' = Append(inbox, Sharing!Answer(pending))
    BY <1>5 DEF Sharing!GetPendingShare, Sharing!Cleared, SharesInv
  <2>2. Sharing!Answer(pending) \in Envelopes /\ Sharing!Answer(pending).items = pending
    BY DEF Sharing!Answer, Envelopes, SharesInv
  <2> QED BY <1>3, <2>1, <2>2
<1>6. CASE Sharing!Deliver
  <2> DEFINE batch == Head(inbox)
             items == batch.items
  <2>1. /\ InboxApart' /\ batch \in Envelopes /\ Distinct(items)
        /\ ItemsOf(items) \subseteq Travels /\ Travels' = Travels \ ItemsOf(items)
    BY <1>6, InboxGives DEF Sharing!Deliver, SharesInv
  <2>2. /\ Plain /\ UNCHANGED <<shared, pending, shareFiles, sent>>
        /\ \/ Sharing!GiveUp(ItemsOf(items), "nobodyListened") /\ UNCHANGED loops
           \/ items = <<>> /\ UNCHANGED <<loops, given>>
           \/ items # <<>> /\ loops' = loops \cup {Sharing!Loop(items)} /\ UNCHANGED given
    BY <1>6 DEF Sharing!Deliver, SharesInv, ItemsOf
  <2>3. items \in Batches
    BY <2>1 DEF Envelopes
  <2> HIDE DEF batch, items
  <2>4. CASE Sharing!GiveUp(ItemsOf(items), "nobodyListened") /\ UNCHANGED loops
    <3>1. /\ Typed
          /\ \A i \in Sharing!Item : given[i] # "no" \/ i \in ItemsOf(items) => given'[i] # "no"
      BY <2>4, GivenUp DEF SharesInv, Sharing!Reasons, Sharing!GivenUp
    <3>2. Balance'
      BY <1>0, <2>1, <2>2, <2>4, <3>1, PlacesStay DEF SharesInv, Balance
    <3> QED BY <2>1, <2>2, <2>4, <3>1, <3>2, PlacesStay DEF SharesInv
  <2>5. CASE items = <<>> /\ UNCHANGED <<loops, given>>
    <3>1. ItemsOf(items) = {}
      BY <2>5 DEF ItemsOf, Sharing!ToSet
    <3>2. Balance'
      BY <2>1, <2>2, <2>5, <3>1, PlacesStay DEF SharesInv, Balance
    <3> QED BY <2>1, <2>2, <2>5, <3>2, PlacesStay DEF SharesInv
  <2>6. CASE items # <<>> /\ loops' = loops \cup {Sharing!Loop(items)} /\ UNCHANGED given
    <3>1. LoopsApart' /\ Waits' = Waits \cup ItemsOf(items)
      BY <2>1, <2>3, <2>6, LoopStarts DEF SharesInv, Balance
    <3>2. Balance'
      BY <2>1, <2>2, <2>6, <3>1, PlacesStay DEF SharesInv, Balance
    <3> QED BY <2>1, <2>2, <2>6, <3>1, <3>2, PlacesStay DEF SharesInv
  <2> QED BY <2>2, <2>4, <2>5, <2>6
<1>7. ASSUME NEW l \in loops, Sharing!Ends(l) PROVE SharesInv'
  <2>1. /\ Plain /\ UNCHANGED <<shared, pending, shareFiles, inbox, sent>>
        /\ loops' = loops \ {l} /\ Sharing!GiveUp(ItemsOf(l.queue), "notReached")
    BY <1>7 DEF Sharing!Ends, SharesInv, ItemsOf
  <2>2. /\ LoopsApart' /\ ItemsOf(l.queue) \subseteq Waits
        /\ Waits' = Waits \ ItemsOf(l.queue)
    BY <2>1, LoopGone DEF SharesInv
  <2>3. /\ Typed
        /\ \A i \in Sharing!Item : given[i] # "no" \/ i \in ItemsOf(l.queue) => given'[i] # "no"
    BY <2>1, GivenUp DEF SharesInv, Sharing!Reasons, Sharing!GivenUp
  <2>4. Balance'
    BY <1>0, <2>1, <2>2, <2>3, PlacesStay DEF SharesInv, Balance
  <2> QED BY <2>1, <2>2, <2>3, <2>4, PlacesStay DEF SharesInv
<1>8. ASSUME NEW l \in loops, Sharing!Change(l, Sharing!Failed(l)), l.attempts < MaxAttempts,
             UNCHANGED <<shared, pending, shareFiles, inbox, sent, given>>, Plain
      PROVE  SharesInv'
  <2>1. l \in LoopStates
    BY DEF SharesInv, LoopsApart
  <2> DEFINE m == Sharing!Failed(l)
  <2>2. m \in LoopStates /\ m.queue = l.queue /\ m.at = "wait"
    <3> DEFINE a == l.attempts + 1
    <3>1. a \in 0 .. MaxAttempts
      BY <1>8, <2>1 DEF LoopStates
    <3>2. m = [l EXCEPT !.at = "wait", !.attempts = a]
      BY DEF Sharing!Failed
    <3> HIDE DEF m, a
    <3> QED BY <2>1, <3>1, <3>2 DEF LoopStates
  <2>3. Sharing!Change(l, m)
    BY <1>8
  <2> HIDE DEF m
  <2>4. LoopsApart' /\ Waits' = Waits
    BY <2>2, <2>3, LoopKeeps DEF SharesInv
  <2>5. Balance'
    BY <1>8, <2>4, PlacesStay DEF SharesInv, Balance
  <2> QED BY <1>8, <2>4, <2>5, PlacesStay DEF SharesInv
<1>9. ASSUME NEW l \in loops, l.queue # <<>>, Sharing!Change(l, Sharing!Shift(l)),
             sent' = Append(sent, Head(l.queue)),
             \/ UNCHANGED shareFiles
             \/ shareFiles' = shareFiles \ {Head(l.queue)},
             UNCHANGED <<shared, pending, inbox, given>>, Plain
      PROVE  SharesInv'
  <2> DEFINE h == Head(l.queue)
  <2>1. LoopsApart' /\ h \in Waits \cap Sharing!Item /\ Waits' = Waits \ {h}
    BY <1>9, LoopShifts DEF SharesInv
  <2>2. /\ sent' = Append(sent, h)
        /\ UNCHANGED shareFiles \/ shareFiles' = shareFiles \ {h}
    BY <1>9
  <2> HIDE DEF h
  <2>3. sent' \in Batches /\ Distinct(sent') /\ InSent' = InSent \cup {h}
    BY <2>1, <2>2, ItemsOfAppend DEF SharesInv, Balance, InSent
  <2>4. Balance' /\ Copies
    BY <1>9, <2>1, <2>2, <2>3, PlacesStay DEF SharesInv, Balance
  <2> QED BY <1>9, <2>1, <2>3, <2>4, PlacesStay DEF SharesInv
<1>10. ASSUME NEW l \in loops, l.queue # <<>>, Sharing!Change(l, Sharing!Shift(l)),
              NEW why \in Sharing!Reasons \ {"no"}, Sharing!GiveUp({Head(l.queue)}, why),
              UNCHANGED <<shared, pending, shareFiles, inbox, sent>>, Plain
       PROVE  SharesInv'
  <2> DEFINE h == Head(l.queue)
  <2>1. LoopsApart' /\ h \in Waits \cap Sharing!Item /\ Waits' = Waits \ {h}
    BY <1>10, LoopShifts DEF SharesInv
  <2>2. Typed /\ \A i \in Sharing!Item : given[i] # "no" \/ i = h => given'[i] # "no"
    BY <1>10, GivenUp DEF SharesInv
  <2> HIDE DEF h
  <2>3. Balance'
    BY <1>0, <1>10, <2>1, <2>2, PlacesStay DEF SharesInv, Balance
  <2> QED BY <1>10, <2>1, <2>2, <2>3, PlacesStay DEF SharesInv
<1>11. ASSUME NEW l \in loops, Sharing!SendText(l) PROVE SharesInv'
  <2>1. /\ Plain /\ l.queue # <<>> /\ l.attempts < MaxAttempts
        /\ UNCHANGED <<shared, pending, shareFiles, inbox, given>>
        /\ \/ sent' = Append(sent, Head(l.queue)) /\ Sharing!Change(l, Sharing!Shift(l))
           \/ UNCHANGED sent /\ Sharing!Change(l, Sharing!Failed(l))
    BY <1>11 DEF Sharing!SendText, Sharing!Goes, Sharing!Item0, SharesInv
  <2> QED BY <1>8, <1>9, <2>1
<1>12. ASSUME NEW l \in loops, NEW m \in LoopStates, Sharing!Change(l, m), m.queue = l.queue,
              m.at = "read" => m.queue # <<>> /\ m.attempts < MaxAttempts,
              UNCHANGED <<shared, pending, shareFiles, inbox, sent, given>>, Plain
       PROVE  SharesInv'
  <2>1. LoopsApart' /\ Waits' = Waits
    BY <1>12, LoopKeeps DEF SharesInv
  <2>2. Balance'
    BY <1>12, <2>1, PlacesStay DEF SharesInv, Balance
  <2> QED BY <1>12, <2>1, <2>2, PlacesStay DEF SharesInv
<1>13. ASSUME NEW l \in loops, Sharing!StartFile(l) PROVE SharesInv'
  <2> DEFINE m == [l EXCEPT !.at = "read", !.stale = FALSE]
  <2>1. /\ Plain /\ l.queue # <<>> /\ l.attempts < MaxAttempts
        /\ UNCHANGED <<shared, pending, shareFiles, inbox, sent>>
        /\ \/ Sharing!Change(l, Sharing!Failed(l)) /\ UNCHANGED given
           \/ /\ Sharing!Change(l, Sharing!Shift(l))
              /\ Sharing!GiveUp({Head(l.queue)}, "tooLarge")
           \/ Sharing!Change(l, m) /\ UNCHANGED given
    BY <1>13 DEF Sharing!StartFile, Sharing!Goes, Sharing!Item0, SharesInv
  <2>2. l \in LoopStates
    BY DEF SharesInv, LoopsApart
  <2>3. m \in LoopStates /\ m.queue = l.queue /\ m.attempts = l.attempts
    BY <2>2 DEF LoopStates
  <2> HIDE DEF m
  <2>4. "tooLarge" \in Sharing!Reasons \ {"no"}
    BY DEF Sharing!Reasons, Sharing!GivenUp
  <2>5. CASE Sharing!Change(l, Sharing!Failed(l)) /\ UNCHANGED given
    BY <1>8, <2>1, <2>5
  <2>6. CASE /\ Sharing!Change(l, Sharing!Shift(l))
             /\ Sharing!GiveUp({Head(l.queue)}, "tooLarge")
    BY <1>10, <2>1, <2>4, <2>6
  <2>7. CASE Sharing!Change(l, m) /\ UNCHANGED given
    BY <1>12, <2>1, <2>3, <2>7
  <2> QED BY <2>1, <2>5, <2>6, <2>7
<1>14. ASSUME NEW l \in loops, Sharing!FileRead(l) PROVE SharesInv'
  <2>1. l.queue # <<>> /\ l.attempts < MaxAttempts
    BY <1>14 DEF Sharing!FileRead, SharesInv, LoopsApart
  <2>2. /\ Plain /\ UNCHANGED <<shared, pending, inbox, given>>
        /\ \/ /\ sent' = Append(sent, Head(l.queue)) /\ shareFiles' = shareFiles \ {Head(l.queue)}
              /\ Sharing!Change(l, Sharing!Shift(l))
           \/ UNCHANGED <<sent, shareFiles>> /\ Sharing!Change(l, Sharing!Failed(l))
    BY <1>14 DEF Sharing!FileRead, Sharing!Kept, Sharing!Item0, SharesInv
  <2> QED BY <1>8, <1>9, <2>1, <2>2
<1>15. ASSUME NEW l \in loops, Sharing!FileUnreadable(l) PROVE SharesInv'
  <2>1. l.queue # <<>>
    BY <1>15 DEF Sharing!FileUnreadable, SharesInv, LoopsApart
  <2>2. /\ Plain /\ UNCHANGED <<shared, pending, shareFiles, inbox, sent>>
        /\ Sharing!Change(l, Sharing!Shift(l))
        /\ Sharing!GiveUp({Head(l.queue)}, "unreadable")
    BY <1>15 DEF Sharing!FileUnreadable, Sharing!Item0, SharesInv
  <2>3. "unreadable" \in Sharing!Reasons \ {"no"}
    BY DEF Sharing!Reasons, Sharing!GivenUp
  <2> QED BY <1>10, <2>1, <2>2, <2>3
<1>16. ASSUME NEW l \in loops, Sharing!Again(l) PROVE SharesInv'
  <2> DEFINE m == [l EXCEPT !.at = "head"]
  <2>1. /\ Plain /\ UNCHANGED <<shared, pending, shareFiles, inbox, sent, given>>
        /\ Sharing!Change(l, m)
    BY <1>16 DEF Sharing!Again, SharesInv
  <2>2. l \in LoopStates
    BY DEF SharesInv, LoopsApart
  <2>3. m \in LoopStates /\ m.queue = l.queue /\ m.at = "head"
    BY <2>2 DEF LoopStates
  <2> HIDE DEF m
  <2> QED BY <1>12, <2>1, <2>3
<1>17. CASE Sharing!Drop
  <2>1. /\ Plain /\ UNCHANGED <<shared, pending, shareFiles, inbox, sent, given>>
        /\ \/ UNCHANGED loops
           \/ loops' = {[l EXCEPT !.stale = l.at = "read"] : l \in loops}
    BY <1>17 DEF Sharing!Drop, SharesInv
  <2>2. LoopsApart' /\ Waits' = Waits
    BY <2>1, LoopsMarked, PlacesStay DEF SharesInv
  <2>3. Balance'
    BY <2>1, <2>2, PlacesStay DEF SharesInv, Balance
  <2> QED BY <2>1, <2>2, <2>3, PlacesStay DEF SharesInv
<1>18. CASE Sharing!Kill
  <2> DEFINE dead == {i \in InShared : given[i] = "no" /\ i \notin InSent}
  <2>1. /\ Plain /\ UNCHANGED <<shared, shareFiles, sent>>
        /\ pending' = <<>> /\ inbox' = <<>> /\ loops' = {} /\ Sharing!GiveUp(dead, "killed")
    BY <1>18 DEF Sharing!Kill, SharesInv, InShared, InSent, ItemsOf
  <2>2. Typed /\ \A i \in Sharing!Item : given[i] # "no" \/ i \in dead => given'[i] # "no"
    BY <2>1, GivenUp DEF SharesInv, Sharing!Reasons, Sharing!GivenUp
  <2>3. Balance'
    BY <1>0, <2>1, <2>2, PlacesStay DEF SharesInv, Balance
  <2> HIDE DEF dead
  <2> QED BY <2>1, <2>2, <2>3, PlacesStay DEF SharesInv
<1>19. CASE Sharing!Mount \/ Sharing!Connect \/ Sharing!Unmount \/ UNCHANGED Sharing!vars
  <2>1. /\ Plain /\ UNCHANGED <<shared, pending, shareFiles, inbox, loops, sent, given>>
    BY <1>19 DEF Sharing!Mount, Sharing!Connect, Sharing!Unmount, Sharing!vars, SharesInv
  <2> QED BY <1>2, <2>1
<1>20. CASE \E batch \in Shares : Sharing!OnCreate(batch) \/ Sharing!OnNewIntent(batch)
  BY <1>1, <1>20 DEF Sharing!OnCreate, Sharing!OnNewIntent
<1>21. CASE \E l \in loops : Sharing!LoopSteps(l)
  BY <1>7, <1>11, <1>13, <1>14, <1>15, <1>16, <1>21 DEF Sharing!LoopSteps
<1> QED BY <1>4, <1>5, <1>6, <1>17, <1>18, <1>19, <1>20, <1>21 DEF Sharing!Next

\* An event that comes while nobody listens has met no listener since it was emitted,
\* or has outlived it; nothing else is lost to a screen that was not listening.
HeardInv ==
  /\ unheard \subseteq Sharing!Item
  /\ \A n \in DOMAIN inbox :
       inbox[n].event /\ js # "listening" => ItemsOf(inbox[n].items) \subseteq unheard
  /\ \A i \in Sharing!Item : given[i] = "nobodyListened" => i \in unheard

\* What is given up for another reason is not lost to a screen that was not listening.
LEMMA NotUnheard ==
  ASSUME given \in [Sharing!Item -> Sharing!Reasons], NEW S, NEW why,
         why # "nobodyListened", Sharing!GiveUp(S, why)
  PROVE  \A i \in Sharing!Item : given'[i] = "nobodyListened" => given[i] = "nobodyListened"
BY DEF Sharing!GiveUp

LEMMA HeardStep ==
  ASSUME SharesAreBatches, SharesInv, HeardInv, [Sharing!Next]_(Sharing!vars)
  PROVE  HeardInv'
<1>0. /\ inbox \in Seq(Envelopes) /\ pending \in Batches
      /\ given \in [Sharing!Item -> Sharing!Reasons]
      /\ \A s \in Batches : ItemsOf(s) \subseteq Sharing!Item
  BY DEF SharesInv, InboxApart, ItemsOf, Sharing!ToSet, Batches
<1> DEFINE Same == \A i \in Sharing!Item :
                     given'[i] = "nobodyListened" => given[i] = "nobodyListened"
<1>1. ASSUME UNCHANGED <<inbox, js, unheard>>, Same PROVE HeardInv'
  BY <1>1 DEF HeardInv, ItemsOf
<1>2. ASSUME NEW e \in Envelopes, inbox' = Append(inbox, e), UNCHANGED given,
             unheard \subseteq unheard', unheard' \subseteq Sharing!Item,
             js' # "listening" => js # "listening",
             e.event /\ js' # "listening" => ItemsOf(e.items) \subseteq unheard'
      PROVE  HeardInv'
  <2>1. /\ DOMAIN inbox' = 1 .. Len(inbox) + 1 /\ Len(inbox) \in Nat
        /\ DOMAIN inbox = 1 .. Len(inbox)
        /\ \A n \in 1 .. Len(inbox) : inbox'[n] = inbox[n]
        /\ inbox'[Len(inbox) + 1] = e
    BY <1>0, <1>2, AppendProperties, LenProperties
  <2>2. ASSUME NEW n \in DOMAIN inbox', inbox'[n].event, js' # "listening"
        PROVE  ItemsOf(inbox'[n].items) \subseteq unheard'
    <3>1. n \in 1 .. Len(inbox) \/ n = Len(inbox) + 1
      BY <2>1
    <3> QED BY <1>2, <2>1, <2>2, <3>1 DEF HeardInv
  <2> QED BY <1>2, <2>2 DEF HeardInv, ItemsOf
<1>3. ASSUME NEW batch \in Shares, Sharing!handleIntent(batch) PROVE HeardInv'
  <2> DEFINE items == pending \o batch
  <2>1. items \in Batches
    BY <1>0, ItemsOfConcat DEF SharesAreBatches
  <2>2. ItemsOf(items) \subseteq Sharing!Item
    BY <1>0, <2>1
  <2>3. Sharing!Flush(items) /\ UNCHANGED <<js, given>>
    BY <1>3 DEF Sharing!handleIntent
  <2> HIDE DEF items
  <2>4. \/ UNCHANGED <<inbox, unheard>>
        \/ /\ inbox' = Append(inbox, Sharing!Event(items))
           /\ unheard' = IF js = "listening" THEN unheard ELSE unheard \cup ItemsOf(items)
    BY <2>3 DEF Sharing!Flush, ItemsOf
  <2>5. /\ Sharing!Event(items) \in Envelopes /\ Sharing!Event(items).items = items
    BY <2>1 DEF Sharing!Event, Envelopes
  <2>6. CASE UNCHANGED <<inbox, unheard>>
    BY <1>1, <2>3, <2>6
  <2>7. CASE /\ inbox' = Append(inbox, Sharing!Event(items))
             /\ unheard' = IF js = "listening" THEN unheard ELSE unheard \cup ItemsOf(items)
    <3>1. /\ unheard \subseteq unheard' /\ unheard' \subseteq Sharing!Item
          /\ js # "listening" => ItemsOf(items) \subseteq unheard'
      BY <2>2, <2>7 DEF HeardInv
    <3> QED BY <1>2, <2>3, <2>5, <2>7, <3>1
  <2> QED BY <2>4, <2>6, <2>7
<1>4. CASE Sharing!ReactStarts
  <2>1. UNCHANGED given /\ js # "listening"
    BY <1>4 DEF Sharing!ReactStarts
  <2>2. CASE UNCHANGED <<inbox, unheard>>
    BY <2>1, <2>2 DEF HeardInv, ItemsOf
  <2>3. CASE /\ inbox' = Append(inbox, Sharing!Event(pending))
             /\ unheard' = unheard \cup ItemsOf(pending)
    <3>1. Sharing!Event(pending) \in Envelopes /\ Sharing!Event(pending).items = pending
      BY <1>0 DEF Sharing!Event, Envelopes
    <3>2. /\ unheard \subseteq unheard' /\ unheard' \subseteq Sharing!Item
          /\ ItemsOf(pending) \subseteq unheard'
      BY <1>0, <2>3 DEF HeardInv
    <3> QED BY <1>2, <2>1, <2>3, <3>1, <3>2
  <2> QED BY <1>4, <2>2, <2>3 DEF Sharing!ReactStarts, ItemsOf
<1>5. CASE Sharing!GetPendingShare
  <2>1. /\ UNCHANGED <<given, js, unheard>> /\ inbox' = Append(inbox, Sharing!Answer(pending))
    BY <1>5 DEF Sharing!GetPendingShare
  <2>2. Sharing!Answer(pending) \in Envelopes /\ ~Sharing!Answer(pending).event
    BY <1>0 DEF Sharing!Answer, Envelopes
  <2>3. unheard \subseteq unheard' /\ unheard' \subseteq Sharing!Item
    BY <2>1 DEF HeardInv
  <2> QED BY <1>2, <2>1, <2>2, <2>3
<1>6. CASE Sharing!Deliver
  <2> DEFINE batch == Head(inbox)
  <2>1. /\ inbox # <<>> /\ inbox' = Tail(inbox) /\ UNCHANGED <<js, unheard>>
        /\ \/ /\ batch.event /\ js # "listening"
              /\ Sharing!GiveUp(ItemsOf(batch.items), "nobodyListened")
           \/ UNCHANGED given
    BY <1>6 DEF Sharing!Deliver, ItemsOf
  <2>2. /\ DOMAIN inbox' = 1 .. Len(inbox) - 1 /\ Len(inbox) \in Nat \ {0}
        /\ DOMAIN inbox = 1 .. Len(inbox)
        /\ \A n \in 1 .. Len(inbox) - 1 : inbox'[n] = inbox[n + 1]
        /\ batch = inbox[1]
    BY <1>0, <2>1, HeadTailProperties, LenProperties, EmptySeq
  <2>3. ASSUME NEW n \in DOMAIN inbox', inbox'[n].event, js' # "listening"
        PROVE  ItemsOf(inbox'[n].items) \subseteq unheard'
    <3>1. n + 1 \in DOMAIN inbox /\ inbox'[n] = inbox[n + 1]
      BY <2>2, <2>3
    <3> QED BY <2>1, <2>3, <3>1 DEF HeardInv
  <2>4. batch.event /\ js # "listening" => ItemsOf(batch.items) \subseteq unheard
    <3>1. 1 \in DOMAIN inbox
      BY <2>2
    <3> QED BY <2>2, <3>1 DEF HeardInv
  <2> HIDE DEF batch
  <2>5. \A i \in Sharing!Item : given'[i] = "nobodyListened" => i \in unheard'
    BY <1>0, <2>1, <2>4 DEF HeardInv, Sharing!GiveUp
  <2>6. unheard' \subseteq Sharing!Item
    BY <2>1 DEF HeardInv
  <2> QED BY <2>3, <2>5, <2>6 DEF HeardInv, ItemsOf
<1>7. CASE \E l \in loops : Sharing!LoopSteps(l)
  <2>1. PICK l \in loops : Sharing!LoopSteps(l)
    BY <1>7
  <2>2. UNCHANGED <<inbox, js, unheard>>
    BY <2>1 DEF Sharing!LoopSteps, Sharing!Ends, Sharing!SendText, Sharing!StartFile,
       Sharing!FileRead, Sharing!FileUnreadable, Sharing!Again
  <2>3. \/ UNCHANGED given
        \/ \E S, why : why # "nobodyListened" /\ Sharing!GiveUp(S, why)
    BY <2>1, ZenonT(60) DEF Sharing!LoopSteps, Sharing!Ends, Sharing!SendText, Sharing!StartFile,
       Sharing!FileRead, Sharing!FileUnreadable, Sharing!Again
  <2>4. Same
    BY <1>0, <2>3, NotUnheard
  <2> QED BY <1>1, <2>2, <2>4
<1>8. CASE Sharing!Mount
  BY <1>8 DEF Sharing!Mount, HeardInv, ItemsOf
<1>9. CASE Sharing!Connect \/ Sharing!Drop \/ UNCHANGED Sharing!vars
  <2>1. UNCHANGED <<inbox, js, unheard, given>>
    BY <1>9 DEF Sharing!Connect, Sharing!Drop, Sharing!vars
  <2> QED BY <1>1, <2>1
<1>10. CASE Sharing!Unmount
  <2>1. /\ UNCHANGED <<inbox, given>> /\ unheard' = unheard \cup Sharing!Emitted
    BY <1>10 DEF Sharing!Unmount
  <2>2. \A n \in DOMAIN inbox : inbox[n].event => ItemsOf(inbox[n].items) \subseteq Sharing!Emitted
    BY DEF Sharing!Emitted, ItemsOf
  <2>3. Sharing!Emitted \subseteq Sharing!Item
    <3>1. \A n \in DOMAIN inbox : inbox[n] \in Envelopes
      BY <1>0, ElementOfSeq, LenProperties
    <3>2. \A e \in Envelopes : e.items \in Batches
      BY DEF Envelopes
    <3>3. \A n \in DOMAIN inbox : ItemsOf(inbox[n].items) \subseteq Sharing!Item
      BY <1>0, <3>1, <3>2
    <3> QED BY <3>3 DEF Sharing!Emitted, ItemsOf
  <2> QED BY <2>1, <2>2, <2>3 DEF HeardInv, ItemsOf
<1>11. CASE Sharing!Kill
  <2>1. inbox' = <<>> /\ UNCHANGED unheard
    BY <1>11 DEF Sharing!Kill
  <2>2. \E S : Sharing!GiveUp(S, "killed")
    BY <1>11 DEF Sharing!Kill
  <2>3. Same
    BY <1>0, <2>2, NotUnheard
  <2>4. DOMAIN inbox' = {}
    BY <2>1
  <2> QED BY <2>1, <2>3, <2>4 DEF HeardInv
<1>12. CASE \E batch \in Shares : Sharing!OnCreate(batch) \/ Sharing!OnNewIntent(batch)
  BY <1>3, <1>12 DEF Sharing!OnCreate, Sharing!OnNewIntent
<1> QED BY <1>4, <1>5, <1>6, <1>7, <1>8, <1>9, <1>10, <1>11, <1>12 DEF Sharing!Next

\* Whatever is shared arrives once, ends for a reason that the code knows, or was in an
\* event that met no listener; and a file's copy is there as long as it is to be sent,
\* for any batches, losses and ends of the app (ShareModule.kt, App.tsx: handleShared).
LEMMA SharesAlone ==
  ASSUME MaxAttempts \in Nat, SharesAreBatches
  PROVE  Sharing!Spec => []Sharing!ShareHonest
<1>1. Sharing!Init => SharesInv /\ HeardInv
  <2> SUFFICES ASSUME Sharing!Init PROVE SharesInv /\ HeardInv
    OBVIOUS
  <2>1. /\ shared = <<>> /\ pending = <<>> /\ sent = <<>> /\ shareFiles = {} /\ inbox = <<>>
        /\ loops = {} /\ js = "none" /\ draining = FALSE /\ up = FALSE
        /\ given = [i \in Sharing!Item |-> "no"] /\ unheard = {}
    BY DEF Sharing!Init
  <2>2. <<>> \in Batches /\ <<>> \in Seq(Envelopes) /\ Distinct(<<>>) /\ ItemsOf(<<>>) = {}
    BY DEF Batches, Distinct, Sharing!IsInjective, ItemsOf, Sharing!ToSet
  <2>3. InboxApart /\ LoopsApart /\ Travels = {} /\ Waits = {}
    BY <2>1, <2>2 DEF InboxApart, LoopsApart, Travels, Waits, Sharing!Travelling, Sharing!Queued
  <2>4. Balance
    BY <2>1, <2>2, <2>3 DEF Balance, InPending, InSent, InShared
  <2>5. given \in [Sharing!Item -> Sharing!Reasons]
    BY <2>1 DEF Sharing!Reasons
  <2>6. HeardInv
    BY <2>1 DEF HeardInv
  <2> QED BY <2>1, <2>2, <2>3, <2>4, <2>5, <2>6 DEF SharesInv
<1>2. SharesInv /\ HeardInv /\ [Sharing!Next]_(Sharing!vars) => (SharesInv /\ HeardInv)'
  BY SharesStep, HeardStep
<1>3. SharesInv /\ HeardInv => Sharing!ShareHonest
  <2> SUFFICES ASSUME SharesInv, HeardInv PROVE Sharing!ShareHonest
    OBVIOUS
  <2>1. Sharing!TypeOK
    BY DEF SharesInv, HeardInv, InboxApart, LoopsApart, Sharing!TypeOK, Batches, Envelopes, LoopStates
  <2>2. Sharing!SharedOnce
    BY DEF SharesInv, Distinct, Sharing!SharedOnce
  <2>3. \A i \in InShared : given[i] # "no" =>
          given[i] \in Sharing!GivenUp \/ (given[i] = "nobodyListened" /\ i \in unheard)
    <3>1. InShared \subseteq Sharing!Item
      BY DEF SharesInv, InShared, ItemsOf, Batches, Sharing!ToSet
    <3>2. \A i \in Sharing!Item : given[i] \in Sharing!GivenUp \cup {"no", "nobodyListened"}
      BY DEF SharesInv, Sharing!Reasons
    <3>3. \A i \in Sharing!Item : given[i] = "nobodyListened" => i \in unheard
      BY DEF HeardInv
    <3>4. ASSUME NEW i \in Sharing!Item, given[i] # "no", given[i] # "nobodyListened"
          PROVE  given[i] \in Sharing!GivenUp
      BY <3>2, <3>4
    <3> HIDE DEF InShared
    <3> QED BY <3>1, <3>3, <3>4
  <2>4. Sharing!Accounted
    BY <2>3 DEF SharesInv, Balance, InPending, InSent, InShared, Travels, Waits, ItemsOf,
                Sharing!Accounted
  <2>5. Sharing!CopyKept
    BY DEF SharesInv, Balance, InPending, InSent, InShared, Travels, Waits, ItemsOf,
           Sharing!CopyKept
  <2> QED BY <2>1, <2>2, <2>4, <2>5 DEF Sharing!ShareHonest
<1> QED BY <1>1, <1>2, <1>3, PTL DEF Sharing!Spec

------------------------------------------------------------------------------
(* The phone's app *)

\* A client of the app, which is never mistaken for none.
Clients == [pc : PC, host : PC \cup {None}, at : {"trying", "up", "waiting"}]
NoneApart == None \notin PC /\ None \notin Clients

\* What is stored, shown and under way, as long as no two handlers have overlapped:
\* the offer on disk is the one shown, or the one that is being saved, or gone with
\* the one that is being unpaired.
StoreInv ==
  "overlap" \notin appCauses =>
    /\ boot \in {"identity", "offer"} => offer = None /\ saves = <<>> /\ unpairing = "no"
    /\ boot = "host" => saves = <<>> /\ unpairing = "no" /\ appDisk.offer = offer
    /\ boot = "done" /\ saves = <<>> /\ unpairing = "no" => appDisk.offer = offer
    /\ saves # <<>> => unpairing = "no" /\ Len(saves) = 1 /\ appDisk.offer = Head(saves)
    /\ unpairing # "no" => appDisk.offer = None

\* Every host that is remembered is of the PC that was scanned, as long as nothing
\* rare has happened.
HostInv ==
  appCauses = {} =>
    /\ lastHost \in {None, offer}
    /\ unpairing # "offer" => appDisk.host \in {None, appDisk.offer}
    /\ client # None => client.host \in {None, client.pc}
    /\ appStatus.state = "connected" => client # None /\ appStatus.peer = offer
    /\ saves # <<>> => offer \in {None, Head(saves)}

AppInv ==
  /\ App!TypeOK /\ App!ScannerRecovers
  /\ App!ClientOfThePairing /\ App!StatusHasClient
  /\ StoreInv /\ HostInv

\* What the effect that owns the client does when the offer becomes o.
LEMMA EffectGives ==
  ASSUME NoneApart, App!TypeOK, NEW o \in PC \cup {None}, NEW id \in BOOLEAN,
         App!SocketEffect(o, id)
  PROVE  /\ client' = None \/ client' \in Clients
         /\ client' # None <=> o # None /\ id
         /\ client' # None => client'.pc = o /\ client'.host = lastHost
         /\ appLate' \subseteq [pc : PC, host : PC \cup {None}]
         /\ \/ appStatus' = App!Connecting /\ client' # None
            \/ appStatus' = App!Idle /\ client # None /\ client' = None
            \/ appStatus' = appStatus /\ client = None /\ client' = None
<1> DEFINE new == [pc |-> o, host |-> lastHost, at |-> "trying"]
<1>1. o # None => new \in Clients /\ new # None
  BY DEF NoneApart, Clients, App!TypeOK, App!Hosts
<1>2. client' = IF o # None /\ id THEN new ELSE None
  BY DEF App!SocketEffect, App!NewClient
<1>3. appLate' \subseteq [pc : PC, host : PC \cup {None}]
  <2>1. client # None => client.pc \in PC /\ client.host \in PC \cup {None}
    BY DEF App!TypeOK, App!Hosts
  <2> QED BY <2>1 DEF App!SocketEffect, App!TypeOK, App!Hosts
<1>4. /\ client' = None \/ client' \in Clients
      /\ client' # None <=> o # None /\ id
      /\ client' # None => client' = new
  <2> HIDE DEF new
  <2> QED BY <1>1, <1>2
<1>5. appStatus' = IF client' # None THEN App!Connecting
                   ELSE IF client # None THEN App!Idle ELSE appStatus
  BY <1>2 DEF App!SocketEffect, App!NewClient
<1>6. client' # None => client'.pc = o /\ client'.host = lastHost
  BY <1>4
<1>7. \/ appStatus' = App!Connecting /\ client' # None
      \/ appStatus' = App!Idle /\ client # None /\ client' = None
      \/ appStatus' = appStatus /\ client = None /\ client' = None
  BY <1>5
<1>8. client' # None <=> o # None /\ id
  BY <1>4
<1>9. client' = None \/ client' \in Clients
  BY <1>4
<1> QED BY <1>3, <1>6, <1>7, <1>8, <1>9

\* The variables of the app keep their types.
LEMMA AppTyping ==
  ASSUME NoneApart, App!TypeOK, [App!Next]_(App!vars)
  PROVE  App!TypeOK'
<1> DEFINE Disks == [me : BOOLEAN, offer : PC \cup {None}, host : PC \cup {None}]
           States == [state : {"idle", "connecting", "connected", "error"}, peer : PC \cup {None}]
<1>0. /\ appDisk \in Disks /\ appStatus \in States
      /\ boot \in {"identity", "offer", "host", "done"}
      /\ me \in BOOLEAN /\ offer \in PC \cup {None} /\ lastHost \in PC \cup {None}
      /\ scanning \in BOOLEAN /\ appConfirm \in BOOLEAN
      /\ granted \in BOOLEAN /\ asking \in BOOLEAN /\ handled \in BOOLEAN
      /\ appTimers \in Nat /\ saves \in Seq(PC) /\ unpairing \in {"no", "offer", "host"}
      /\ client = None \/ client \in Clients
      /\ appLate \subseteq [pc : PC, host : PC \cup {None}]
      /\ known \subseteq PC
      /\ appCauses \subseteq {"repaired", "overlap", "late"}
      /\ scans \in Nat /\ troubles \in Nat
  BY DEF App!TypeOK, App!Hosts, Clients
<1>1. /\ App!Idle \in States /\ App!Connecting \in States /\ App!Broken \in States
      /\ \A q \in PC : App!Connected(q) \in States
  BY DEF App!Idle, App!Connecting, App!Broken, App!Connected
<1> DEFINE Goal ==
      /\ appDisk' \in Disks /\ appStatus' \in States
      /\ boot' \in {"identity", "offer", "host", "done"}
      /\ me' \in BOOLEAN /\ offer' \in PC \cup {None} /\ lastHost' \in PC \cup {None}
      /\ scanning' \in BOOLEAN /\ appConfirm' \in BOOLEAN
      /\ granted' \in BOOLEAN /\ asking' \in BOOLEAN /\ handled' \in BOOLEAN
      /\ appTimers' \in Nat /\ saves' \in Seq(PC) /\ unpairing' \in {"no", "offer", "host"}
      /\ client' = None \/ client' \in Clients
      /\ appLate' \subseteq [pc : PC, host : PC \cup {None}]
      /\ known' \subseteq PC
      /\ appCauses' \subseteq {"repaired", "overlap", "late"}
      /\ scans' \in Nat /\ troubles' \in Nat
<1>2. Goal => App!TypeOK'
  BY DEF App!TypeOK, App!Hosts, Clients
<1> USE DEF App!stored, App!pairing, App!views, App!camera, App!link, App!bounds
<1>3. CASE App!BootIdentity
  <2>1. App!SocketEffect(offer, TRUE) /\ appDisk' = [appDisk EXCEPT !.me = TRUE]
    BY <1>3 DEF App!BootIdentity
  <2>2. appDisk' \in Disks
    BY <1>0, <2>1
  <2> HIDE DEF Disks
  <2> QED BY <1>0, <1>1, <1>2, <1>3, <2>1, <2>2, EffectGives, ZenonT(60) DEF App!BootIdentity
<1>4. CASE App!BootOffer
  <2>1. appDisk.offer \in PC \cup {None}
    BY <1>0
  <2>2. \/ App!SocketEffect(appDisk.offer, me) /\ offer' = appDisk.offer
        \/ UNCHANGED <<offer, appStatus, client, appLate>>
    BY <1>4 DEF App!BootOffer
  <2> HIDE DEF Disks
  <2> QED BY <1>0, <1>1, <1>2, <1>4, <2>1, <2>2, EffectGives DEF App!BootOffer
<1>5. CASE App!BootHost
  <2>1. appDisk.host \in PC \cup {None}
    BY <1>0
  <2> HIDE DEF Disks
  <2> QED BY <1>0, <1>2, <1>5, <2>1 DEF App!BootHost
<1>6. CASE App!Restart
  <2>1. appDisk' = appDisk /\ known' = known /\ scans' = scans /\ granted' = granted
        /\ troubles' = troubles + 1 /\ appTimers' = 0
    BY <1>6 DEF App!Restart
  <2>2. /\ boot' = "identity" /\ me' = FALSE /\ offer' = None /\ lastHost' = None
        /\ appStatus' = App!Idle /\ scanning' = FALSE /\ appConfirm' = FALSE
        /\ asking' = FALSE /\ handled' = FALSE /\ saves' = <<>>
        /\ unpairing' = "no" /\ client' = None /\ appLate' = {}
    BY <1>6 DEF App!Restart
  <2>3. appCauses' \subseteq {"repaired", "overlap", "late"}
    BY <1>0, <1>6 DEF App!Restart
  <2>4. saves' \in Seq(PC) /\ appTimers' \in Nat /\ troubles' \in Nat
    BY <1>0, <2>1, <2>2
  <2> HIDE DEF Disks, States
  <2> QED BY <1>0, <1>1, <1>2, <2>1, <2>2, <2>3, <2>4
<1>7. CASE App!UserActs \/ (\E yes \in BOOLEAN : App!Permission(yes)) \/ App!BadCode \/ App!BadCodeTimer
  <2>1. \/ appDisk' = appDisk
        \/ appDisk' = [appDisk EXCEPT !.offer = None]
    BY <1>7 DEF App!UserActs, App!Navigate, App!StartScanning, App!Disconnect, App!Permission,
                App!BadCode, App!BadCodeTimer
  <2>2. appDisk' \in Disks
    BY <1>0, <2>1
  <2> HIDE DEF Disks, States
  <2>3. CASE App!Navigate
    <3>1. scanning' \in BOOLEAN /\ appConfirm' \in BOOLEAN
      BY <1>0, <2>3 DEF App!Navigate, App!LeaveScanner, App!AskUnpair, App!KeepPaired
    <3>2. UNCHANGED <<appDisk, boot, me, offer, lastHost, granted, asking, handled, appTimers,
                      saves, unpairing, appStatus, client, appLate, known, appCauses, scans,
                      troubles>>
      BY <2>3 DEF App!Navigate
    <3> QED BY <1>0, <1>2, <3>1, <3>2
  <2>4. CASE App!StartScanning
    BY <1>0, <1>2, <2>4, ZenonT(60) DEF App!StartScanning, App!OpenScanner
  <2>5. CASE App!Disconnect
    BY <1>0, <1>2, <2>2, <2>5, ZenonT(60) DEF App!Disconnect, App!Overlaps
  <2>6. ASSUME NEW yes \in BOOLEAN, App!Permission(yes) PROVE App!TypeOK'
    BY <1>0, <1>2, <2>6, ZenonT(60) DEF App!Permission, App!OpenScanner
  <2>7. CASE App!BadCode \/ App!BadCodeTimer
    <3>1. handled' \in BOOLEAN /\ appTimers' \in Nat /\ scans' \in Nat
      <4>0. handled \in BOOLEAN /\ appTimers \in Nat /\ scans \in Nat
        BY <1>0
      <4>1. CASE App!BadCode
        BY <4>0, <4>1 DEF App!BadCode
      <4>2. CASE App!BadCodeTimer
        <5>1. /\ appTimers > 0 /\ appTimers' = appTimers - 1
              /\ handled' = FALSE /\ scans' = scans
          BY <4>2 DEF App!BadCodeTimer
        <5>2. appTimers' \in Nat
          BY <4>0, <5>1
        <5> QED BY <4>0, <5>1, <5>2
      <4> QED BY <2>7, <4>1, <4>2
    <3>2. UNCHANGED <<appDisk, boot, me, offer, lastHost, granted, asking, scanning, appConfirm,
                      saves, unpairing, appStatus, client, appLate, known, appCauses, troubles>>
      BY <2>7 DEF App!BadCode, App!BadCodeTimer
    <3> QED BY <1>0, <1>2, <3>1, <3>2
  <2> QED BY <1>7, <2>3, <2>4, <2>5, <2>6, <2>7 DEF App!UserActs
<1>8. ASSUME NEW o \in PC, App!GoodCode(o) PROVE App!TypeOK'
  <2>1. appDisk' = [appDisk EXCEPT !.offer = o] /\ saves' = Append(saves, o)
    BY <1>8 DEF App!GoodCode
  <2>2. appDisk' \in Disks /\ saves' \in Seq(PC)
    <3>1. appDisk' \in Disks
      BY <1>0, <2>1
    <3> HIDE DEF Disks
    <3>2. saves \in Seq(PC)
      BY <1>0
    <3> QED BY <2>1, <3>1, <3>2
  <2> HIDE DEF Disks, States
  <2>3. /\ handled' = TRUE /\ scanning' = FALSE /\ scans' \in Nat
        /\ appCauses' \subseteq {"repaired", "overlap", "late"}
    BY <1>0, <1>8 DEF App!GoodCode, App!Overlaps, App!Repairs
  <2>4. UNCHANGED <<boot, me, offer, lastHost, granted, asking, appConfirm, appTimers,
                    unpairing, appStatus, client, appLate, known, troubles>>
    BY <1>8 DEF App!GoodCode
  <2> QED BY <1>0, <1>2, <2>2, <2>3, <2>4, ZenonT(60)
<1>9. CASE App!OfferSaved
  <2>1. Head(saves) \in PC /\ Tail(saves) \in Seq(PC)
    BY <1>0, <1>9 DEF App!OfferSaved
  <2>2. App!SocketEffect(Head(saves), me)
    BY <1>9 DEF App!OfferSaved
  <2> HIDE DEF Disks
  <2>3. /\ client' = None \/ client' \in Clients
        /\ appLate' \subseteq [pc : PC, host : PC \cup {None}]
        /\ appStatus' \in States
    <3> HIDE DEF States
    <3> QED BY <1>0, <1>1, <2>1, <2>2, EffectGives
  <2>4. /\ saves' = Tail(saves) /\ offer' = Head(saves) /\ handled' = FALSE
        /\ UNCHANGED <<appDisk, boot, me, lastHost, granted, asking, scanning, appConfirm,
                       appTimers, unpairing, known, appCauses, scans, troubles>>
    BY <1>9 DEF App!OfferSaved
  <2> HIDE DEF States
  <2> QED BY <1>0, <1>2, <2>1, <2>3, <2>4, ZenonT(60)
<1>10. CASE App!UnpairHost
  <2>1. appDisk' \in Disks
    BY <1>0, <1>10 DEF App!UnpairHost
  <2> HIDE DEF Disks, States
  <2> QED BY <1>0, <1>2, <1>10, <2>1 DEF App!UnpairHost
<1>11. CASE App!UnpairState
  <2>1. App!SocketEffect(None, me)
    BY <1>11 DEF App!UnpairState
  <2> HIDE DEF Disks
  <2>2. /\ client' = None \/ client' \in Clients
        /\ appLate' \subseteq [pc : PC, host : PC \cup {None}]
        /\ appStatus' \in States
    <3> HIDE DEF States
    <3> QED BY <1>0, <1>1, <2>1, EffectGives
  <2>3. /\ unpairing' = "no" /\ offer' = None /\ lastHost' = None
        /\ UNCHANGED <<appDisk, boot, me, granted, asking, handled, scanning, appConfirm,
                       appTimers, saves, known, appCauses, scans, troubles>>
    BY <1>11 DEF App!UnpairState
  <2> HIDE DEF States
  <2> QED BY <1>0, <1>2, <2>2, <2>3
<1>12. ASSUME NEW q \in PC, App!Connects(q)
       PROVE  appDisk' \in Disks /\ appStatus' \in States /\ lastHost' \in PC \cup {None}
              /\ known' \subseteq PC
  BY <1>0, <1>1, <1>12 DEF App!Connects
<1>13. ASSUME NEW q \in PC, App!ClientConnects(q) PROVE App!TypeOK'
  <2>1. client' \in Clients
    BY <1>0, <1>13 DEF App!ClientConnects, Clients
  <2>2. App!Connects(q)
    BY <1>13 DEF App!ClientConnects
  <2> HIDE DEF Disks, States
  <2> QED BY <1>0, <1>2, <1>12, <1>13, <2>1, <2>2 DEF App!ClientConnects
<1>14. ASSUME NEW told \in BOOLEAN, App!ClientFails(told) PROVE App!TypeOK'
  <2>1. client' \in Clients
    BY <1>0, <1>14 DEF App!ClientFails, Clients
  <2> HIDE DEF Disks, States
  <2> QED BY <1>0, <1>1, <1>2, <1>14, <2>1 DEF App!ClientFails
<1>15. CASE App!ClientRetries
  <2>1. client' \in Clients
    BY <1>0, <1>15 DEF App!ClientRetries, Clients
  <2> HIDE DEF Disks, States
  <2> QED BY <1>0, <1>1, <1>2, <1>15, <2>1 DEF App!ClientRetries
<1>16. ASSUME NEW c \in appLate, NEW told \in BOOLEAN, App!LateError(c, told) PROVE App!TypeOK'
  <2>1. /\ appStatus' \in States
        /\ appCauses' \subseteq {"repaired", "overlap", "late"}
        /\ appLate' \subseteq [pc : PC, host : PC \cup {None}]
    <3> HIDE DEF States
    <3> QED BY <1>0, <1>1, <1>16 DEF App!LateError
  <2>2. UNCHANGED <<appDisk, boot, me, offer, lastHost, granted, asking, handled, appTimers,
                    saves, unpairing, client, known, scanning, appConfirm, scans, troubles>>
    BY <1>16 DEF App!LateError
  <2> HIDE DEF Disks, States
  <2> QED BY <1>0, <1>2, <2>1, <2>2
<1>17. ASSUME NEW c \in appLate, NEW q \in PC, App!LateAck(c, q) PROVE App!TypeOK'
  <2>1. App!Connects(q)
    BY <1>17 DEF App!LateAck
  <2> HIDE DEF Disks, States
  <2> QED BY <1>0, <1>2, <1>12, <1>17, <2>1 DEF App!LateAck
<1>18. CASE UNCHANGED App!vars
  BY <1>0, <1>2, <1>18 DEF App!vars
<1> QED BY <1>3, <1>4, <1>5, <1>6, <1>7, <1>8, <1>9, <1>10, <1>11, <1>13, <1>14, <1>15, <1>16,
           <1>17, <1>18 DEF App!Next, App!CameraActs, App!ClientActs

\* A scanner on screen that ignores codes will listen again.
LEMMA ScannerKept ==
  ASSUME App!TypeOK, App!TypeOK', App!ScannerRecovers, [App!Next]_(App!vars)
  PROVE  App!ScannerRecovers'
<1> USE DEF App!stored, App!pairing, App!views, App!camera, App!link, App!bounds,
            App!ScannerRecovers
<1>1. /\ appTimers \in Nat /\ appTimers' \in Nat /\ saves \in Seq(PC)
      /\ scanning \in BOOLEAN /\ handled \in BOOLEAN
  BY DEF App!TypeOK
<1>2. CASE App!BadCode
  <2>1. appTimers' = appTimers + 1
    BY <1>2 DEF App!BadCode
  <2> QED BY <1>1, <2>1
<1>3. ASSUME NEW o \in PC, App!GoodCode(o) PROVE App!ScannerRecovers'
  <2>1. saves' # <<>>
    BY <1>1, <1>3 DEF App!GoodCode
  <2> QED BY <2>1
<1>4. CASE App!BadCodeTimer \/ App!OfferSaved \/ App!Restart
  BY <1>4 DEF App!BadCodeTimer, App!OfferSaved, App!Restart
<1>5. CASE App!Navigate
  BY <1>5 DEF App!Navigate, App!LeaveScanner, App!AskUnpair, App!KeepPaired
<1>6. CASE App!StartScanning \/ \E yes \in BOOLEAN : App!Permission(yes)
  BY <1>6 DEF App!StartScanning, App!Permission, App!OpenScanner
<1>7. CASE App!BootIdentity \/ App!BootOffer \/ App!BootHost \/ App!Disconnect
           \/ App!UnpairHost \/ App!UnpairState
  BY <1>7 DEF App!BootIdentity, App!BootOffer, App!BootHost, App!Disconnect,
              App!UnpairHost, App!UnpairState
<1>8. CASE App!ClientActs
  BY <1>8 DEF App!ClientActs, App!ClientConnects, App!ClientFails, App!ClientRetries,
              App!LateError, App!LateAck
<1>9. CASE UNCHANGED App!vars
  BY <1>9 DEF App!vars
<1> QED BY <1>2, <1>3, <1>4, <1>5, <1>6, <1>7, <1>8, <1>9
        DEF App!Next, App!UserActs, App!CameraActs

\* There is a client for what is shown, and a status only with it.
LEMMA ClientKept ==
  ASSUME NoneApart, App!TypeOK, App!ClientOfThePairing, App!StatusHasClient, [App!Next]_(App!vars)
  PROVE  App!ClientOfThePairing' /\ App!StatusHasClient'
<1> USE DEF App!stored, App!pairing, App!views, App!camera, App!link, App!bounds,
            App!ClientOfThePairing, App!StatusHasClient
<1>0. /\ me \in BOOLEAN /\ offer \in PC \cup {None} /\ appDisk.offer \in PC \cup {None}
      /\ saves \in Seq(PC)
      /\ client # None => client \in Clients
  BY DEF App!TypeOK, App!Hosts, Clients
<1>1. ASSUME NEW o \in PC \cup {None}, NEW id \in BOOLEAN, App!SocketEffect(o, id),
             offer' = o, me' = id, appCauses' = appCauses
      PROVE  App!ClientOfThePairing' /\ App!StatusHasClient'
  BY <1>1, EffectGives
<1>2. CASE App!BootIdentity
  BY <1>0, <1>1, <1>2 DEF App!BootIdentity
<1>3. CASE App!BootOffer
  <2>1. CASE appDisk.offer # None
    BY <1>0, <1>1, <1>3, <2>1 DEF App!BootOffer
  <2>2. CASE appDisk.offer = None
    BY <1>3, <2>2 DEF App!BootOffer
  <2> QED BY <2>1, <2>2
<1>4. CASE App!OfferSaved
  <2>1. Head(saves) \in PC
    BY <1>0, <1>4 DEF App!OfferSaved
  <2> QED BY <1>0, <1>1, <1>4, <2>1 DEF App!OfferSaved
<1>5. CASE App!UnpairState
  BY <1>0, <1>1, <1>5 DEF App!UnpairState
<1>6. CASE App!Restart
  BY <1>6 DEF App!Restart
<1>7. ASSUME client # None, client' \in Clients, client'.pc = client.pc,
             UNCHANGED <<me, offer>>
      PROVE  App!ClientOfThePairing' /\ App!StatusHasClient'
  BY <1>7 DEF NoneApart
<1>8. ASSUME NEW at \in {"trying", "up", "waiting"}, client # None,
             client' = [client EXCEPT !.at = at]
      PROVE  client' \in Clients /\ client'.pc = client.pc
  BY <1>0, <1>8 DEF Clients
<1>9. CASE \/ \E q \in PC : App!ClientConnects(q)
           \/ \E told \in BOOLEAN : App!ClientFails(told)
           \/ App!ClientRetries
  <2>1. /\ client # None /\ UNCHANGED <<me, offer>>
        /\ \E at \in {"trying", "up", "waiting"} : client' = [client EXCEPT !.at = at]
    BY <1>9 DEF App!ClientConnects, App!ClientFails, App!ClientRetries
  <2> QED BY <1>7, <1>8, <2>1
<1>10. CASE \E c \in appLate : (\E told \in BOOLEAN : App!LateError(c, told))
                                \/ \E q \in PC : App!LateAck(c, q)
  <2>1. /\ UNCHANGED <<me, offer, client>>
        /\ "late" \in appCauses' \/ UNCHANGED <<appStatus, appCauses>>
    BY <1>10 DEF App!LateError, App!LateAck
  <2> QED BY <2>1
<1>11. CASE \/ App!BootHost \/ App!UserActs \/ App!UnpairHost \/ App!BadCode \/ App!BadCodeTimer
            \/ (\E yes \in BOOLEAN : App!Permission(yes)) \/ (\E o \in PC : App!GoodCode(o))
            \/ UNCHANGED App!vars
  <2>1. /\ UNCHANGED <<me, offer, client, appStatus>>
        /\ appCauses \subseteq appCauses'
    BY <1>11 DEF App!BootHost, App!UserActs, App!Navigate, App!StartScanning, App!Disconnect,
                 App!UnpairHost, App!BadCode, App!BadCodeTimer, App!Permission, App!GoodCode,
                 App!vars
  <2> QED BY <2>1
<1> QED BY <1>2, <1>3, <1>4, <1>5, <1>6, <1>9, <1>10, <1>11
        DEF App!Next, App!CameraActs, App!ClientActs

\* What has happened stays known, and an overlap is noted where it begins.
LEMMA CausesGrow ==
  ASSUME App!TypeOK, [App!Next]_(App!vars)
  PROVE  appCauses \subseteq appCauses'
<1> USE DEF App!stored, App!pairing, App!views, App!camera, App!link, App!bounds
<1>1. CASE App!BootIdentity \/ App!BootOffer \/ App!BootHost \/ App!Restart
  BY <1>1 DEF App!BootIdentity, App!BootOffer, App!BootHost, App!Restart
<1>2. CASE App!UserActs \/ App!UnpairHost \/ App!UnpairState \/ UNCHANGED App!vars
  BY <1>2 DEF App!UserActs, App!Navigate, App!StartScanning, App!Disconnect, App!UnpairHost,
              App!UnpairState, App!vars
<1>3. CASE App!CameraActs
  BY <1>3 DEF App!CameraActs, App!Permission, App!BadCode, App!BadCodeTimer, App!OfferSaved,
              App!GoodCode
<1>4. CASE App!ClientActs
  BY <1>4 DEF App!ClientActs, App!ClientConnects, App!ClientFails, App!ClientRetries,
              App!LateError, App!LateAck
<1> QED BY <1>1, <1>2, <1>3, <1>4 DEF App!Next

LEMMA StoreKept ==
  ASSUME NoneApart, App!TypeOK, StoreInv, [App!Next]_(App!vars)
  PROVE  StoreInv'
<1> USE DEF App!stored, App!pairing, App!views, App!camera, App!link, App!bounds
<1> DEFINE Disks == [me : BOOLEAN, offer : PC \cup {None}, host : PC \cup {None}]
<1>0. /\ appDisk \in Disks
      /\ boot \in {"identity", "offer", "host", "done"}
      /\ saves \in Seq(PC) /\ unpairing \in {"no", "offer", "host"}
  BY DEF App!TypeOK, App!Hosts
<1>1. appCauses \subseteq appCauses'
  BY CausesGrow
<1>2. SUFFICES ASSUME "overlap" \notin appCauses', "overlap" \notin appCauses
               PROVE  StoreInv'
  BY <1>1 DEF StoreInv
<1>3. ASSUME UNCHANGED <<boot, offer, saves, unpairing>>, appDisk'.offer = appDisk.offer
      PROVE  StoreInv'
  BY <1>1, <1>3 DEF StoreInv
<1>4. CASE App!BootIdentity
  <2>1. appDisk'.offer = appDisk.offer
    BY <1>0, <1>4 DEF App!BootIdentity
  <2>2. boot = "identity" /\ boot' = "offer" /\ UNCHANGED <<offer, saves, unpairing>>
    BY <1>4 DEF App!BootIdentity
  <2> QED BY <1>2, <2>1, <2>2 DEF StoreInv
<1>5. CASE App!BootOffer
  <2>1. /\ boot = "offer" /\ boot' = "host" /\ UNCHANGED <<appDisk, saves, unpairing>>
        /\ offer' = IF appDisk.offer # None THEN appDisk.offer ELSE offer
    BY <1>5 DEF App!BootOffer
  <2> QED BY <1>2, <2>1 DEF StoreInv
<1>6. CASE App!BootHost
  BY <1>2, <1>6 DEF App!BootHost, StoreInv
<1>7. CASE App!Restart
  <2>1. /\ boot' = "identity" /\ offer' = None /\ saves' = <<>> /\ unpairing' = "no"
    BY <1>7 DEF App!Restart
  <2> QED BY <2>1 DEF StoreInv
<1>8. ASSUME "overlap" \notin App!Overlaps
      PROVE  boot = "done" /\ unpairing = "no" /\ saves = <<>>
  BY <1>8 DEF App!Overlaps
<1>9. ASSUME NEW o \in PC, App!GoodCode(o) PROVE StoreInv'
  <2>1. boot = "done" /\ unpairing = "no" /\ saves = <<>>
    BY <1>2, <1>8, <1>9 DEF App!GoodCode
  <2>2. appDisk'.offer = o
    BY <1>0, <1>9 DEF App!GoodCode
  <2>3. boot' = boot /\ unpairing' = unpairing /\ saves' = Append(saves, o)
    BY <1>9 DEF App!GoodCode
  <2>4. Len(saves') = 1 /\ Head(saves') = o /\ saves' # <<>>
    BY <2>1, <2>3
  <2> QED BY <2>1, <2>2, <2>3, <2>4 DEF StoreInv
<1>10. CASE App!OfferSaved
  <2>1. /\ saves # <<>> /\ saves' = Tail(saves) /\ offer' = Head(saves)
        /\ UNCHANGED <<appDisk, boot, unpairing>>
    BY <1>10 DEF App!OfferSaved
  <2>2. boot = "done" /\ unpairing = "no" /\ Len(saves) = 1 /\ appDisk.offer = Head(saves)
    BY <1>0, <1>2, <2>1 DEF StoreInv
  <2>3. saves' = <<>>
    BY <1>0, <2>1, <2>2
  <2> QED BY <2>1, <2>2, <2>3 DEF StoreInv
<1>11. CASE App!Disconnect
  <2>1. boot = "done" /\ saves = <<>>
    BY <1>2, <1>8, <1>11 DEF App!Disconnect
  <2>2. appDisk'.offer = None
    BY <1>0, <1>11 DEF App!Disconnect
  <2>3. UNCHANGED <<boot, saves>> /\ unpairing' = "offer"
    BY <1>11 DEF App!Disconnect
  <2> QED BY <2>1, <2>2, <2>3 DEF StoreInv
<1>12. CASE App!UnpairHost
  <2>1. appDisk'.offer = appDisk.offer
    BY <1>0, <1>12 DEF App!UnpairHost
  <2>2. UNCHANGED <<boot, saves, offer>> /\ unpairing = "offer" /\ unpairing' = "host"
    BY <1>12 DEF App!UnpairHost
  <2> QED BY <1>2, <2>1, <2>2 DEF StoreInv
<1>13. CASE App!UnpairState
  <2>1. UNCHANGED <<appDisk, boot, saves>> /\ unpairing = "host" /\ unpairing' = "no" /\ offer' = None
    BY <1>13 DEF App!UnpairState
  <2> QED BY <1>0, <1>2, <2>1 DEF StoreInv
<1>14. CASE App!ClientActs
  <2>1. appDisk' = appDisk \/ \E q \in PC : appDisk' = [appDisk EXCEPT !.host = q]
    BY <1>14 DEF App!ClientActs, App!ClientConnects, App!Connects, App!ClientFails,
                 App!ClientRetries, App!LateError, App!LateAck
  <2>2. appDisk'.offer = appDisk.offer
    BY <1>0, <2>1
  <2>3. UNCHANGED <<boot, offer, saves, unpairing>>
    BY <1>14 DEF App!ClientActs, App!ClientConnects, App!Connects, App!ClientFails,
                 App!ClientRetries, App!LateError, App!LateAck
  <2> QED BY <1>3, <2>2, <2>3
<1>15. CASE \/ App!Navigate \/ App!StartScanning \/ App!BadCode \/ App!BadCodeTimer
            \/ (\E yes \in BOOLEAN : App!Permission(yes)) \/ UNCHANGED App!vars
  <2>1. UNCHANGED <<appDisk, boot, offer, saves, unpairing>>
    BY <1>15 DEF App!Navigate, App!StartScanning, App!BadCode, App!BadCodeTimer,
                 App!Permission, App!vars
  <2> QED BY <1>3, <2>1
<1> QED BY <1>4, <1>5, <1>6, <1>7, <1>9, <1>10, <1>11, <1>12, <1>13, <1>14, <1>15
        DEF App!Next, App!UserActs, App!CameraActs

LEMMA HostKept ==
  ASSUME NoneApart, App!TypeOK, App!ClientOfThePairing, StoreInv, HostInv, [App!Next]_(App!vars)
  PROVE  HostInv'
<1> USE DEF App!stored, App!pairing, App!views, App!camera, App!link, App!bounds
<1> DEFINE Disks == [me : BOOLEAN, offer : PC \cup {None}, host : PC \cup {None}]
<1>0. /\ appDisk \in Disks
      /\ boot \in {"identity", "offer", "host", "done"}
      /\ me \in BOOLEAN /\ offer \in PC \cup {None} /\ lastHost \in PC \cup {None}
      /\ saves \in Seq(PC) /\ unpairing \in {"no", "offer", "host"}
      /\ client # None => client \in Clients
      /\ client # None <=> offer # None /\ me
      /\ client # None => client.pc = offer
  BY DEF App!TypeOK, App!Hosts, Clients, App!ClientOfThePairing
<1>1. appCauses \subseteq appCauses'
  BY CausesGrow
<1>2. SUFFICES ASSUME appCauses' = {}, appCauses = {}
               PROVE  HostInv'
  BY <1>1 DEF HostInv
<1>3. /\ lastHost \in {None, offer}
      /\ unpairing # "offer" => appDisk.host \in {None, appDisk.offer}
      /\ client # None => client.host \in {None, client.pc}
      /\ appStatus.state = "connected" => client # None /\ appStatus.peer = offer
      /\ saves # <<>> => offer \in {None, Head(saves)}
  BY <1>2 DEF HostInv
<1>4. /\ boot \in {"identity", "offer"} => offer = None /\ saves = <<>> /\ unpairing = "no"
      /\ boot = "host" => saves = <<>> /\ unpairing = "no" /\ appDisk.offer = offer
      /\ boot = "done" /\ saves = <<>> /\ unpairing = "no" => appDisk.offer = offer
      /\ saves # <<>> => unpairing = "no" /\ Len(saves) = 1 /\ appDisk.offer = Head(saves)
      /\ unpairing # "no" => appDisk.offer = None
  BY <1>2 DEF StoreInv
<1>5. ASSUME NEW o \in PC \cup {None}, NEW id \in BOOLEAN, App!SocketEffect(o, id),
             lastHost \in {None, o}
      PROVE  /\ client' # None => client'.host \in {None, client'.pc}
             /\ appStatus'.state # "connected"
  <2>1. client' # None => client'.host \in {None, client'.pc}
    BY <1>5, EffectGives
  <2>2. App!Connecting.state # "connected" /\ App!Idle.state # "connected"
    BY DEF App!Connecting, App!Idle
  <2>3. client = None => appStatus.state # "connected"
    BY <1>3
  <2>4. appStatus' \in {App!Connecting, App!Idle} \/ (appStatus' = appStatus /\ client = None)
    BY EffectGives, <1>5
  <2> QED BY <2>1, <2>2, <2>3, <2>4
<1>6. ASSUME UNCHANGED <<lastHost, offer, unpairing, client, appStatus, saves>>,
             appDisk'.offer = appDisk.offer, appDisk'.host = appDisk.host
      PROVE  HostInv'
  BY <1>3, <1>6 DEF HostInv
<1>7. CASE App!BootIdentity
  <2>1. App!SocketEffect(offer, TRUE) /\ UNCHANGED <<offer, lastHost, unpairing, saves>>
    BY <1>7 DEF App!BootIdentity
  <2>2. appDisk'.offer = appDisk.offer /\ appDisk'.host = appDisk.host
    BY <1>0, <1>7 DEF App!BootIdentity
  <2> QED BY <1>0, <1>3, <1>5, <2>1, <2>2 DEF HostInv
<1>8. CASE App!BootOffer
  <2>1. offer = None /\ saves = <<>> /\ lastHost = None
    BY <1>3, <1>4, <1>8 DEF App!BootOffer
  <2>2. UNCHANGED <<appDisk, lastHost, unpairing, saves>>
    BY <1>8 DEF App!BootOffer
  <2>3. CASE appDisk.offer # None
    <3>1. App!SocketEffect(appDisk.offer, me) /\ offer' = appDisk.offer /\ appDisk.offer \in PC \cup {None}
      BY <1>0, <1>8, <2>3 DEF App!BootOffer
    <3> QED BY <1>0, <1>3, <1>5, <2>1, <2>2, <3>1 DEF HostInv
  <2>4. CASE appDisk.offer = None
    BY <1>6, <1>8, <2>2, <2>4 DEF App!BootOffer
  <2> QED BY <2>3, <2>4
<1>9. CASE App!BootHost
  <2>1. /\ lastHost' = IF appDisk.host # None THEN appDisk.host ELSE lastHost
        /\ UNCHANGED <<appDisk, offer, unpairing, saves, client, appStatus>> /\ boot = "host"
    BY <1>9 DEF App!BootHost
  <2> QED BY <1>3, <1>4, <2>1 DEF HostInv
<1>10. CASE App!Restart
  <2>1. /\ offer' = None /\ lastHost' = None /\ appStatus' = App!Idle /\ saves' = <<>>
        /\ client' = None /\ unpairing = "no" /\ appDisk' = appDisk
    BY <1>2, <1>10 DEF App!Restart
  <2>2. App!Idle.state # "connected"
    BY DEF App!Idle
  <2> QED BY <1>3, <2>1, <2>2 DEF HostInv
<1>11. ASSUME NEW o \in PC, App!GoodCode(o) PROVE HostInv'
  <2>1. boot = "done" /\ unpairing = "no" /\ saves = <<>> /\ offer \in {None, o}
    BY <1>2, <1>11 DEF App!GoodCode, App!Overlaps, App!Repairs
  <2>2. appDisk'.offer = o /\ appDisk'.host = appDisk.host
    BY <1>0, <1>11 DEF App!GoodCode
  <2>3. /\ saves' = Append(saves, o)
        /\ UNCHANGED <<lastHost, offer, unpairing, client, appStatus>>
    BY <1>11 DEF App!GoodCode
  <2>4. Head(saves') = o
    BY <2>1, <2>3
  <2>5. appDisk.host \in {None, o}
    BY <1>3, <1>4, <2>1
  <2> QED BY <1>3, <2>1, <2>2, <2>3, <2>4, <2>5 DEF HostInv
<1>12. CASE App!OfferSaved
  <2>1. /\ saves # <<>> /\ saves' = Tail(saves) /\ offer' = Head(saves)
        /\ App!SocketEffect(Head(saves), me)
        /\ UNCHANGED <<appDisk, lastHost, unpairing>>
    BY <1>12 DEF App!OfferSaved
  <2>2. saves' = <<>> /\ Head(saves) \in PC
    BY <1>0, <1>4, <2>1
  <2>3. lastHost \in {None, Head(saves)}
    BY <1>3, <2>1
  <2>4. /\ client' # None => client'.host \in {None, client'.pc}
        /\ appStatus'.state # "connected"
    BY <1>0, <1>5, <2>1, <2>2, <2>3
  <2> QED BY <1>3, <2>1, <2>2, <2>3, <2>4 DEF HostInv
<1>13. CASE App!Disconnect
  <2>1. UNCHANGED <<lastHost, offer, client, appStatus, saves>> /\ unpairing' = "offer"
    BY <1>13 DEF App!Disconnect
  <2> QED BY <1>3, <2>1 DEF HostInv
<1>14. CASE App!UnpairHost
  <2>1. appDisk'.host = None
    BY <1>0, <1>14 DEF App!UnpairHost
  <2>2. UNCHANGED <<lastHost, offer, client, appStatus, saves>>
    BY <1>14 DEF App!UnpairHost
  <2> QED BY <1>3, <2>1, <2>2 DEF HostInv
<1>15. CASE App!UnpairState
  <2>1. /\ App!SocketEffect(None, me) /\ offer' = None /\ lastHost' = None
        /\ UNCHANGED <<appDisk, saves>> /\ unpairing = "host"
    BY <1>15 DEF App!UnpairState
  <2>2. client' = None /\ (appStatus' = App!Idle \/ (appStatus' = appStatus /\ client = None))
    <3>1. None \in PC \cup {None} /\ me \in BOOLEAN
      BY <1>0
    <3> QED BY <2>1, <3>1, EffectGives
  <2>3. App!Idle.state # "connected"
    BY DEF App!Idle
  <2> QED BY <1>3, <1>4, <2>1, <2>2, <2>3 DEF HostInv
<1>16. ASSUME NEW q \in PC, App!ClientConnects(q) PROVE HostInv'
  <2>1. /\ client # None /\ client' = [client EXCEPT !.at = "up"] /\ unpairing = "no"
        /\ UNCHANGED <<boot, me, offer, saves, unpairing>>
        /\ App!Answers(client, q)
    BY <1>2, <1>16 DEF App!ClientConnects
  <2>2. q = offer
    BY <1>0, <1>3, <2>1 DEF App!Answers, App!Tries
  <2>3. appDisk'.host = q /\ appDisk'.offer = appDisk.offer
    BY <1>0, <1>16 DEF App!ClientConnects, App!Connects
  <2>4. /\ appStatus' = App!Connected(q) /\ lastHost' = q
    BY <1>16 DEF App!ClientConnects, App!Connects
  <2>5. App!Connected(q).peer = q
    BY DEF App!Connected
  <2>6. appDisk.offer = offer
    BY <1>0, <1>3, <1>4, <2>1
  <2>7. client' # None /\ client'.host = client.host /\ client'.pc = client.pc
    BY <1>0, <2>1 DEF Clients, NoneApart
  <2> QED BY <1>3, <2>1, <2>2, <2>3, <2>4, <2>5, <2>6, <2>7 DEF HostInv
<1>17. CASE App!ClientRetries \/ \E told \in BOOLEAN : App!ClientFails(told)
  <2>1. /\ client # None
        /\ \E at \in {"trying", "up", "waiting"} : client' = [client EXCEPT !.at = at]
        /\ UNCHANGED <<appDisk, lastHost, offer, unpairing, saves>>
        /\ appStatus' \in {appStatus, App!Broken, App!Connecting}
    BY <1>17 DEF App!ClientRetries, App!ClientFails
  <2>2. client' # None /\ client'.host = client.host /\ client'.pc = client.pc
    BY <1>0, <2>1 DEF Clients, NoneApart
  <2>3. App!Connecting.state # "connected" /\ App!Broken.state # "connected"
    BY DEF App!Connecting, App!Broken
  <2> QED BY <1>3, <2>1, <2>2, <2>3 DEF HostInv
<1>18. CASE \E c \in appLate : (\E told \in BOOLEAN : App!LateError(c, told))
                               \/ \E q \in PC : App!LateAck(c, q)
  <2>1. UNCHANGED <<appDisk, lastHost, offer, unpairing, client, appStatus, saves>>
    BY <1>2, <1>18 DEF App!LateError, App!LateAck
  <2> QED BY <1>6, <2>1
<1>19. CASE \/ App!Navigate \/ App!StartScanning \/ App!BadCode \/ App!BadCodeTimer
            \/ (\E yes \in BOOLEAN : App!Permission(yes)) \/ UNCHANGED App!vars
  <2>1. UNCHANGED <<appDisk, lastHost, offer, unpairing, client, appStatus, saves>>
    BY <1>19 DEF App!Navigate, App!StartScanning, App!BadCode, App!BadCodeTimer,
                 App!Permission, App!vars
  <2> QED BY <1>6, <2>1
<1> QED BY <1>7, <1>8, <1>9, <1>10, <1>11, <1>12, <1>13, <1>14, <1>15, <1>16, <1>17, <1>18,
           <1>19
        DEF App!Next, App!UserActs, App!CameraActs, App!ClientActs

\* What the app shows is the pairing it has, for any PCs, scans, restarts and failures
\* (App.tsx).
LEMMA AppAlone ==
  ASSUME NoneApart
  PROVE  App!Spec => []App!PhoneAppSound
<1>1. App!Init => AppInv
  <2> SUFFICES ASSUME App!Init PROVE AppInv
    OBVIOUS
  <2> USE DEF App!Init, App!Idle
  <2>1. App!TypeOK
    <3>1. appDisk \in [me : BOOLEAN, offer : App!Hosts, host : App!Hosts]
      BY DEF App!Hosts
    <3>2. appStatus \in [state : {"idle", "connecting", "connected", "error"}, peer : App!Hosts]
      BY DEF App!Hosts
    <3>3. saves \in Seq(PC) /\ appTimers \in Nat /\ scans \in Nat /\ troubles \in Nat
      OBVIOUS
    <3>4. /\ boot \in {"identity", "offer", "host", "done"}
          /\ me \in BOOLEAN /\ offer \in App!Hosts /\ lastHost \in App!Hosts
          /\ scanning \in BOOLEAN /\ appConfirm \in BOOLEAN
          /\ granted \in BOOLEAN /\ asking \in BOOLEAN /\ handled \in BOOLEAN
          /\ unpairing \in {"no", "offer", "host"}
          /\ client = None /\ appLate = {} /\ known = {} /\ appCauses = {}
      BY DEF App!Hosts
    <3> QED BY <3>1, <3>2, <3>3, <3>4 DEF App!TypeOK
  <2>2. App!ScannerRecovers /\ App!ClientOfThePairing /\ App!StatusHasClient
    BY DEF App!ScannerRecovers, App!ClientOfThePairing, App!StatusHasClient
  <2>3. StoreInv /\ HostInv
    BY DEF StoreInv, HostInv
  <2> QED BY <2>1, <2>2, <2>3 DEF AppInv
<1>2. AppInv /\ [App!Next]_(App!vars) => AppInv'
  BY AppTyping, ScannerKept, ClientKept, StoreKept, HostKept DEF AppInv
<1>3. AppInv => App!PhoneAppSound
  <2> SUFFICES ASSUME AppInv PROVE App!PhoneAppSound
    OBVIOUS
  <2>1. App!SamePairingAfterRestart
    BY DEF AppInv, StoreInv, App!SamePairingAfterRestart, App!AtRest
  <2>2. App!ConnectedToTheScannedPC
    <3>1. appCauses \cap {"repaired", "overlap", "late"} = {} => appCauses = {}
      BY DEF AppInv, App!TypeOK
    <3> QED BY <3>1 DEF AppInv, HostInv, App!ConnectedToTheScannedPC
  <2> QED BY <2>1, <2>2 DEF AppInv, App!PhoneAppSound
<1> QED BY <1>1, <1>2, <1>3, PTL DEF App!Spec

------------------------------------------------------------------------------
(* The notification of an update *)

NotesTyping ==
  /\ perm \in {"undetermined", "granted", "denied"}
  /\ key \in Numbered \cup {0}
  /\ call \in [Invocation -> [at : Notes!Stages, of : Numbered \cup {0}]]
  /\ \A c \in Invocation : call[c].at # "unused" => call[c].of \in Numbered
  /\ notesShown \in [Numbered -> Nat]
  /\ screen \in [open : BOOLEAN, ok : {"unknown", "yes", "no"},
                 waits : {"no", "read", "ask"}]

\* One call at a time is at work, for a version as new as any before; what it goes
\* on to post was not remembered, and what was shown is, or is about to be.
OneAtATime ==
  notesCauses \cap {"overlap", "notRemembered"} = {} =>
    /\ \A c, d \in Notes!Running : c = d
    /\ \A c \in Notes!Running, d \in Invocation : call[d].of <= call[c].of
    /\ \A c \in Notes!Running : key <= call[c].of
    /\ key # 0 => \E d \in Invocation : key <= call[d].of
    /\ \A c \in Invocation : call[c].at = "post" => key # call[c].of
    /\ \A v \in Numbered : notesShown[v] <= 1
    /\ \A v \in Numbered :
         notesShown[v] > 0 =>
           v <= key \/ \E c \in Invocation : call[c].at = "remember" /\ call[c].of = v

\* A version is remembered once it was shown.
ShownFirst ==
  /\ key # 0 => notesShown[key] > 0
  /\ \A c \in Invocation : call[c].at = "remember" => notesShown[call[c].of] > 0

NotesInv == NotesTyping /\ OneAtATime /\ ShownFirst /\ Notes!OffIsOff

LEMMA NotesTyped ==
  ASSUME Numbered \subseteq Nat, NotesTyping, Notes!Next
  PROVE  NotesTyping'
<1> USE DEF NotesTyping, Notes!Goto, Notes!At, Notes!Stages, Notes!Closed
<1>1. ASSUME NEW c \in Invocation, NEW v \in Numbered, Notes!NotifyUpdateAvailable(c, v)
      PROVE  NotesTyping'
  BY <1>1 DEF Notes!NotifyUpdateAvailable
<1>2. ASSUME NEW c \in Invocation, Notes!Allowed(c) PROVE NotesTyping'
  BY <1>2 DEF Notes!Allowed
<1>3. ASSUME NEW c \in Invocation, Notes!Requested(c) PROVE NotesTyping'
  BY <1>3 DEF Notes!Requested, Notes!Answers
<1>4. ASSUME NEW c \in Invocation, Notes!ReadsKey(c) PROVE NotesTyping'
  BY <1>4 DEF Notes!ReadsKey
<1>5. ASSUME NEW c \in Invocation, Notes!Posts(c) PROVE NotesTyping'
  BY <1>5 DEF Notes!Posts
<1>6. ASSUME NEW c \in Invocation, Notes!Remembers(c) PROVE NotesTyping'
  BY <1>6 DEF Notes!Remembers
<1>7. ASSUME NEW c \in Invocation, Notes!Throws(c) PROVE NotesTyping'
  BY <1>7 DEF Notes!Throws, Notes!Running
<1>8. CASE Notes!Kill
  BY <1>8 DEF Notes!Kill, Notes!Running
<1>9. CASE Notes!Open \/ Notes!Close \/ Notes!ReadDone \/ Notes!AskNotifications
  <2>1. CASE Notes!Open
    BY <2>1 DEF Notes!Open
  <2>2. CASE Notes!Close
    BY <2>2 DEF Notes!Close
  <2>3. CASE Notes!ReadDone
    BY <2>3 DEF Notes!ReadDone, Notes!Said
  <2>4. CASE Notes!AskNotifications
    BY <2>4 DEF Notes!AskNotifications
  <2> QED BY <1>9, <2>1, <2>2, <2>3, <2>4
<1>10. CASE Notes!AskDone \/ Notes!SystemSettings
  BY <1>10, ZenonT(60) DEF Notes!AskDone, Notes!SystemSettings, Notes!Answers,
               Notes!AnswerShown, Notes!Said
<1> QED
  BY <1>1, <1>2, <1>3, <1>4, <1>5, <1>6, <1>7, <1>8, <1>9, <1>10 DEF Notes!Next

LEMMA NotesShownFirst ==
  ASSUME Numbered \subseteq Nat \ {0}, NotesTyping, ShownFirst, Notes!Next
  PROVE  ShownFirst'
<1> USE DEF NotesTyping, ShownFirst, Notes!Goto, Notes!At
<1>1. ASSUME NEW c \in Invocation, NEW v \in Numbered, Notes!NotifyUpdateAvailable(c, v)
      PROVE  ShownFirst'
  BY <1>1 DEF Notes!NotifyUpdateAvailable
<1>2. ASSUME NEW c \in Invocation, Notes!Allowed(c) PROVE ShownFirst'
  BY <1>2 DEF Notes!Allowed
<1>3. ASSUME NEW c \in Invocation, Notes!Requested(c) PROVE ShownFirst'
  BY <1>3 DEF Notes!Requested
<1>4. ASSUME NEW c \in Invocation, Notes!ReadsKey(c) PROVE ShownFirst'
  BY <1>4 DEF Notes!ReadsKey
<1>5. ASSUME NEW c \in Invocation, Notes!Posts(c) PROVE ShownFirst'
  BY <1>5 DEF Notes!Posts
<1>6. ASSUME NEW c \in Invocation, Notes!Remembers(c) PROVE ShownFirst'
  BY <1>6 DEF Notes!Remembers
<1>7. ASSUME NEW c \in Invocation, Notes!Throws(c) PROVE ShownFirst'
  BY <1>7 DEF Notes!Throws, Notes!Running
<1>8. CASE Notes!Kill
  BY <1>8 DEF Notes!Kill, Notes!Running
<1>9. CASE \/ Notes!Open \/ Notes!Close \/ Notes!ReadDone
           \/ Notes!AskNotifications \/ Notes!AskDone \/ Notes!SystemSettings
  BY <1>9 DEF Notes!Open, Notes!Close, Notes!ReadDone, Notes!AskNotifications,
              Notes!AskDone, Notes!SystemSettings
<1> QED
  BY <1>1, <1>2, <1>3, <1>4, <1>5, <1>6, <1>7, <1>8, <1>9 DEF Notes!Next

LEMMA NotesOneAtATime ==
  ASSUME Numbered \subseteq Nat \ {0}, NotesTyping, OneAtATime, Notes!Next
  PROVE  OneAtATime'
<1> USE DEF NotesTyping, OneAtATime, Notes!Goto, Notes!At, Notes!Running
<1>1. ASSUME NEW c \in Invocation, NEW v \in Numbered, Notes!NotifyUpdateAvailable(c, v)
      PROVE  OneAtATime'
  <2>1. SUFFICES ASSUME notesCauses' \cap {"overlap", "notRemembered"} = {}
                 PROVE  OneAtATime'
    OBVIOUS
  <2>2. Notes!Running = {} /\ notesCauses' = notesCauses
    BY <1>1, <2>1 DEF Notes!NotifyUpdateAvailable
  <2>3. call' = [call EXCEPT ![c] = [at |-> "allowed", of |-> v]]
    BY <1>1 DEF Notes!NotifyUpdateAvailable
  <2>4. key' = key /\ notesShown' = notesShown /\ call[c].at = "unused"
    BY <1>1 DEF Notes!NotifyUpdateAvailable
  <2>5. \A d \in Invocation : call[d].of <= v
    BY <1>1 DEF Notes!NotifyUpdateAvailable
  <2>6. \A d \in Notes!Running' : d = c
    BY <2>2, <2>3
  <2>7. \A d \in Invocation : call'[d].of <= v
    BY <2>3, <2>5
  <2>8. key <= v
    <3>0. \A w \in Numbered \cup {0} : w \in Nat
      OBVIOUS
    <3>4. \A d \in Invocation : call[d].of \in Numbered \cup {0}
      OBVIOUS
    <3>1. v \in Nat /\ key \in Nat /\ \A d \in Invocation : call[d].of \in Nat
      BY <3>0, <3>4
    <3>2. CASE key = 0
      BY <3>1, <3>2
    <3>3. CASE key # 0
      <4>1. PICK d \in Invocation : key <= call[d].of
        BY <2>1, <2>2, <3>3
      <4> HIDE DEF NotesTyping, OneAtATime
      <4> QED BY <2>5, <3>1, <4>1
    <3> QED BY <3>2, <3>3
  <2>9. \A d \in Invocation : call'[d].at = "post" => key # call'[d].of
    BY <2>1, <2>2, <2>3
  <2>10. key # 0 => \E d \in Invocation : key <= call'[d].of
    BY <2>3, <2>8
  <2>11. \A d \in Invocation : call[d].at = "remember" =>
           call'[d].at = "remember" /\ call'[d].of = call[d].of
    BY <2>3, <2>4
  <2> QED BY <2>1, <2>2, <2>3, <2>4, <2>6, <2>7, <2>8, <2>9, <2>10, <2>11
<1>2. ASSUME NEW c \in Invocation, Notes!Allowed(c) PROVE OneAtATime'
  BY <1>2 DEF Notes!Allowed
<1>3. ASSUME NEW c \in Invocation, Notes!Requested(c) PROVE OneAtATime'
  BY <1>3 DEF Notes!Requested
<1>4. ASSUME NEW c \in Invocation, Notes!ReadsKey(c) PROVE OneAtATime'
  BY <1>4 DEF Notes!ReadsKey, Notes!AlreadyNotified
<1>5. ASSUME NEW c \in Invocation, Notes!Posts(c) PROVE OneAtATime'
  <2>1. SUFFICES ASSUME notesCauses' \cap {"overlap", "notRemembered"} = {}
                 PROVE  OneAtATime'
    OBVIOUS
  <2>2. /\ notesCauses' = notesCauses /\ key' = key /\ call[c].at = "post"
        /\ call' = [call EXCEPT ![c].at = "remember"]
        /\ notesShown' = [notesShown EXCEPT ![call[c].of] = @ + 1]
    BY <1>5 DEF Notes!Posts
  <2>3. c \in Notes!Running
    BY <2>2
  <2>4. call[c].of \in Numbered /\ ~(call[c].of <= key)
    BY <2>1, <2>2, <2>3
  <2>5. \A d \in Invocation : call[d].at # "remember"
    BY <2>1, <2>2, <2>3
  <2>6. notesShown[call[c].of] = 0
    BY <2>1, <2>2, <2>4, <2>5
  <2>7. \A v \in Numbered : notesShown'[v] <= 1
    BY <2>1, <2>2, <2>6
  <2>8. /\ \A d \in Invocation : call'[d].of = call[d].of
        /\ \A d \in Invocation \ {c} : call'[d] = call[d]
        /\ call'[c].at = "remember"
    BY <2>2
  <2>9. Notes!Running' = Notes!Running
    BY <2>2, <2>8
  <2>10. \A v \in Numbered :
           notesShown'[v] > 0 =>
             v <= key \/ \E d \in Invocation : call'[d].at = "remember" /\ call'[d].of = v
    BY <2>1, <2>2, <2>5, <2>8
  <2> QED BY <2>1, <2>2, <2>7, <2>8, <2>9, <2>10
<1>6. ASSUME NEW c \in Invocation, Notes!Remembers(c) PROVE OneAtATime'
  BY <1>6 DEF Notes!Remembers
<1>7. ASSUME NEW c \in Invocation, Notes!Throws(c) PROVE OneAtATime'
  <2>1. SUFFICES ASSUME notesCauses' \cap {"overlap", "notRemembered"} = {}
                 PROVE  OneAtATime'
    OBVIOUS
  <2>2. /\ notesCauses' = notesCauses /\ call[c].at # "remember"
        /\ call' = [call EXCEPT ![c].at = "over"]
        /\ key' = key /\ notesShown' = notesShown
    BY <1>7, <2>1 DEF Notes!Throws, Notes!Forgotten
  <2> QED BY <2>1, <2>2
<1>8. CASE Notes!Kill
  <2>1. SUFFICES ASSUME notesCauses' \cap {"overlap", "notRemembered"} = {}
                 PROVE  OneAtATime'
    OBVIOUS
  <2>2. key' = key /\ notesShown' = notesShown
    BY <1>8 DEF Notes!Kill
  <2>3. notesCauses' = notesCauses \/ notesCauses' = notesCauses \cup {"notRemembered"}
    BY <1>8 DEF Notes!Kill, Notes!Forgotten
  <2>4. notesCauses' = notesCauses /\ \A c \in Invocation : call[c].at # "remember"
    BY <1>8, <2>1, <2>3 DEF Notes!Kill, Notes!Forgotten
  <2>5. \A c \in Invocation :
          call'[c].of = call[c].of /\ call'[c].at \in {"unused", "over"}
    BY <1>8 DEF Notes!Kill
  <2> QED BY <2>1, <2>2, <2>4, <2>5
<1>9. CASE \/ Notes!Open \/ Notes!Close \/ Notes!ReadDone
           \/ Notes!AskNotifications \/ Notes!AskDone \/ Notes!SystemSettings
  <2>1. UNCHANGED <<key, call, notesShown>>
    BY <1>9 DEF Notes!Open, Notes!Close, Notes!ReadDone, Notes!AskNotifications,
                Notes!AskDone, Notes!SystemSettings
  <2>2. \/ notesCauses' = notesCauses
        \/ notesCauses' = notesCauses \ {"askedElsewhere", "settings"}
        \/ notesCauses' = notesCauses \cup {"askedElsewhere"}
        \/ notesCauses' = notesCauses \cup {"settings"}
    BY <1>9 DEF Notes!Open, Notes!Close, Notes!ReadDone, Notes!AskNotifications,
                Notes!AskDone, Notes!SystemSettings
  <2>3. notesCauses' \cap {"overlap", "notRemembered"} = {} =>
          notesCauses \cap {"overlap", "notRemembered"} = {}
    BY <2>2
  <2> QED BY <2>1, <2>3
<1> QED
  BY <1>1, <1>2, <1>3, <1>4, <1>5, <1>6, <1>7, <1>8, <1>9 DEF Notes!Next

LEMMA NotesOff ==
  ASSUME NotesTyping, Notes!OffIsOff, Notes!Next
  PROVE  Notes!OffIsOff'
<1> USE DEF NotesTyping, Notes!OffIsOff, Notes!Closed
<1>1. ASSUME NEW c \in Invocation, NEW v \in Numbered, Notes!NotifyUpdateAvailable(c, v)
      PROVE  Notes!OffIsOff'
  BY <1>1 DEF Notes!NotifyUpdateAvailable
<1>2. ASSUME NEW c \in Invocation,
             Notes!Allowed(c) \/ Notes!ReadsKey(c) \/ Notes!Posts(c) \/ Notes!Remembers(c)
      PROVE  Notes!OffIsOff'
  BY <1>2 DEF Notes!Allowed, Notes!ReadsKey, Notes!Posts, Notes!Remembers
<1>3. ASSUME NEW c \in Invocation, Notes!Requested(c) PROVE Notes!OffIsOff'
  BY <1>3 DEF Notes!Requested
<1>4. ASSUME NEW c \in Invocation, Notes!Throws(c) PROVE Notes!OffIsOff'
  BY <1>4 DEF Notes!Throws, Notes!Forgotten
<1>5. CASE Notes!Kill
  BY <1>5 DEF Notes!Kill
<1>6. CASE Notes!Open \/ Notes!Close \/ Notes!ReadDone \/ Notes!AskNotifications
  <2>1. CASE Notes!Open
    BY <2>1 DEF Notes!Open
  <2>2. CASE Notes!Close
    BY <2>2 DEF Notes!Close
  <2>3. CASE Notes!ReadDone
    BY <2>3 DEF Notes!ReadDone, Notes!Said
  <2>4. CASE Notes!AskNotifications
    BY <2>4 DEF Notes!AskNotifications
  <2> QED BY <1>6, <2>1, <2>2, <2>3, <2>4
<1>7. CASE Notes!AskDone \/ Notes!SystemSettings
  BY <1>7 DEF Notes!AskDone, Notes!SystemSettings, Notes!AnswerShown, Notes!Said
<1> QED
  BY <1>1, <1>2, <1>3, <1>4, <1>5, <1>6, <1>7 DEF Notes!Next

LEMMA NotesAlone ==
  ASSUME Numbered \subseteq Nat \ {0}
  PROVE  Notes!Spec => []Notes!NotesHonest
<1>1. Notes!Init => NotesInv
  BY DEF Notes!Init, NotesInv, NotesTyping, OneAtATime, ShownFirst,
         Notes!OffIsOff, Notes!Stages, Notes!Closed, Notes!Running
<1>2. NotesInv /\ [Notes!Next]_(Notes!vars) => NotesInv'
  <2>1. NotesInv /\ Notes!Next => NotesInv'
    BY NotesTyped, NotesShownFirst, NotesOneAtATime, NotesOff DEF NotesInv
  <2>2. NotesInv /\ UNCHANGED Notes!vars => NotesInv'
    BY DEF Notes!vars, NotesInv, NotesTyping, OneAtATime, ShownFirst,
           Notes!OffIsOff, Notes!Running
  <2> QED BY <2>1, <2>2
<1>3. NotesInv => Notes!NotesHonest
  BY DEF NotesInv, OneAtATime, ShownFirst, Notes!NotesHonest, Notes!NotedOnce,
         Notes!RememberedWasShown
<1> QED BY <1>1, <1>2, <1>3, PTL DEF Notes!Spec

------------------------------------------------------------------------------
(* Updates *)

ReleasesNumbered ==
  /\ Releases \subseteq {v \in Update!Version : Update!Small(v)}
  /\ None \notin Releases

\* What is published has a newest, the one that the feed gives.
HasNewest ==
  \E v \in published : \A w \in published \ {v} : Update!Newer(v, w)

OneScreen == \A g, h \in Hook : hook[g].mounted /\ hook[h].mounted => g = h

\* What a screen, a download or an install is about is newer than the app.
Aimed ==
  /\ \A h \in Hook :
       /\ hook[h].of # None => Update!Newer(hook[h].of, installed)
       /\ hook[h].phase \in {"available", "downloading", "ready", "failed"} =>
            hook[h].of # None
  /\ \A c \in lookups :
       c.at \in {"read", "decide"} => c.of # None /\ Update!Newer(c.of, installed)
  /\ \A d \in downloads : Update!Newer(d.of, installed)
  /\ \A i \in installs : Update!Newer(i.of, installed)

\* Nothing of an earlier screen is at work, and no install failed behind one.
Calm == "overlap" \notin updaterCauses /\ "staleInstall" \notin updaterCauses

\* Then one thing goes on at a time, a check or a download, and no screen is open
\* but the one that it is of.
OneWork == Calm =>
  /\ \A d, e \in downloads : d = e
  /\ \A d \in downloads :
       /\ hook[d.by].phase = "downloading" /\ hook[d.by].of = d.of
       /\ lookups = {} /\ \A h \in Hook : hook[h].mounted => h = d.by
  /\ \A c, e \in lookups : c = e
  /\ \A c \in lookups :
       /\ hook[c.by].phase = "checking"
       /\ \A g \in Hook \ {c.by} : ~hook[g].mounted

\* And what was read of a file is still so when it is used.
OnDisk == Calm =>
  /\ \A d \in downloads :
       /\ d.at = "have" => apk[d.of] = "done"
       /\ d.at = "lack" /\ d.of \in Sized => apk[d.of] # "done"
       /\ d.at = "fetch" => d.linked /\ apk[d.of] = "part"
       /\ d.at = "prune" => apk[d.of] \in {"done", "short"}
  /\ \A c \in lookups : c.at = "decide" /\ c.have => apk[c.of] = "done"
  /\ \A h \in Hook : hook[h].mounted /\ hook[h].phase = "ready" =>
       \/ apk[hook[h].of] = "done"
       \/ apk[hook[h].of] = "short" /\ ~hook[h].looked

\* There are files of what was published only.
OfPublished ==
  /\ \A h \in Hook : hook[h].of \in published \cup {None}
  /\ \A c \in lookups : c.of \in published \cup {None}
  /\ \A d \in downloads : d.of \in published
  /\ \A i \in installs : i.of \in published
  /\ \A v \in Releases : apk[v] # "none" => v \in published

\* And what is at work is for a release as new as any of them.
NewestFile == Calm =>
  /\ \A h \in Hook :
       hook[h].of # None /\ hook[h].mounted =>
         \A v \in Releases :
           apk[v] # "none" => v = hook[h].of \/ Update!Newer(hook[h].of, v)
  /\ \A c \in lookups : c.of # None =>
       \A v \in Releases : apk[v] # "none" => v = c.of \/ Update!Newer(c.of, v)
  /\ \A d \in downloads : \A v \in Releases :
       apk[v] # "none" => v = d.of \/ Update!Newer(d.of, v)

UpdateInv ==
  /\ Update!TypeOK /\ HasNewest /\ OneScreen /\ Update!BusyMeansWork
  /\ Aimed /\ OneWork /\ OnDisk /\ OfPublished /\ NewestFile

LEMMA LatestIsNewest ==
  ASSUME HasNewest
  PROVE  /\ Update!Latest \in published
         /\ \A w \in published \ {Update!Latest} : Update!Newer(Update!Latest, w)
  BY DEF HasNewest, Update!Latest

\* What the app calls newer has the higher version code (app.config.js).
LEMMA CodesOrder ==
  ASSUME ReleasesNumbered, NEW v \in Releases, NEW w \in Releases, Update!Newer(v, w)
  PROVE  Update!versionCode(v) > Update!versionCode(w)
  BY DEF ReleasesNumbered, Update!Version, Update!Small, Update!Newer, Update!versionCode

\* The records of a screen, of a check and of a download.
Phases == {"idle", "checking", "upToDate", "available", "downloading", "ready", "failed"}
HookState ==
  [mounted : BOOLEAN, used : BOOLEAN, of : Update!Versions0, looked : BOOLEAN, phase : Phases]
LookupState ==
  [by : Hook, id : Nat, of : Update!Versions0, have : BOOLEAN, at : {"fetch", "read", "decide"}]
DownloadState ==
  [by : Hook, id : 0 .. MaxUnderWay, of : Releases, linked : BOOLEAN,
   at : {"read", "have", "lack", "fetch", "prune"}]

\* The screen h is at phase p about version v, the others where they were.
At(h, p, v, looked) ==
  /\ hook' \in [Hook -> HookState]
  /\ hook'[h].phase = p /\ hook'[h].of = v /\ hook'[h].looked = looked
  /\ hook'[h].mounted = hook[h].mounted /\ hook'[h].used = hook[h].used
  /\ \A g \in Hook \ {h} : hook'[g] = hook[g]

LEMMA PhaseMoves ==
  ASSUME Update!TypeOK, NEW h \in Hook, NEW p \in Phases, NEW v \in Update!Versions0
  PROVE  /\ hook' = Update!Phase(h, p, v) => At(h, p, v, FALSE)
         /\ hook' = Update!Found(h, v) => At(h, "ready", v, TRUE)
<1>1. hook \in [Hook -> HookState]
  BY DEF Update!TypeOK, HookState, Phases
<1> DEFINE r(q, b) == [hook[h] EXCEPT !.phase = q, !.of = v, !.looked = b]
<1>2. \A q \in Phases, b \in BOOLEAN :
        /\ r(q, b) \in HookState
        /\ r(q, b).phase = q /\ r(q, b).of = v /\ r(q, b).looked = b
        /\ r(q, b).mounted = hook[h].mounted /\ r(q, b).used = hook[h].used
  BY <1>1 DEF HookState
<1>3. /\ hook' = Update!Phase(h, p, v) => hook' = [hook EXCEPT ![h] = r(p, FALSE)]
      /\ hook' = Update!Found(h, v) => hook' = [hook EXCEPT ![h] = r("ready", TRUE)]
  BY <1>1 DEF Update!Phase, Update!Found, HookState
<1> HIDE DEF r
<1>4. "ready" \in Phases
  BY DEF Phases
<1> QED BY <1>1, <1>2, <1>3, <1>4 DEF At

LEMMA DownloadMoves ==
  ASSUME NEW d \in DownloadState
  PROVE  /\ \A a \in {"read", "have", "lack", "fetch", "prune"} :
              [d EXCEPT !.at = a] \in DownloadState
         /\ \A b \in BOOLEAN : [d EXCEPT !.linked = b] \in DownloadState
  BY DEF DownloadState

\* startDownload begins one download, and shows it.
LEMMA BeginMoves ==
  ASSUME Update!TypeOK, NEW h \in Hook, NEW v \in Releases, Update!Begin(h, v)
  PROVE  /\ At(h, "downloading", v, FALSE)
         /\ \E f \in DownloadState :
              /\ downloads' = downloads \cup {f}
              /\ f.by = h /\ f.of = v /\ f.at = "read" /\ ~f.linked
<1>1. "downloading" \in Phases /\ v \in Update!Versions0
  BY DEF Phases, Update!Versions0
<1>2. PICK n \in 0 .. MaxUnderWay :
        /\ hook' = Update!Phase(h, "downloading", v)
        /\ downloads' = downloads \cup
             {[by |-> h, id |-> n, of |-> v, at |-> "read", linked |-> FALSE]}
  BY DEF Update!Begin
<1>3. [by |-> h, id |-> n, of |-> v, at |-> "read", linked |-> FALSE] \in DownloadState
  BY DEF DownloadState
<1> QED BY <1>1, <1>2, <1>3, PhaseMoves

\* A press of the button, and the mount, begin a check; it shows.
LEMMA LookMoves ==
  ASSUME Update!TypeOK, NEW h \in Hook, NEW n \in Nat
  PROVE  LET e == Update!Check(h, n)
         IN  /\ e \in LookupState /\ e.by = h /\ e.at = "fetch" /\ e.of = None
             /\ ~e.have
  BY DEF Update!Check, LookupState, Update!Versions0

\* checkForUpdate answers.
LEMMA FetchMoves ==
  ASSUME Update!TypeOK, HasNewest, NEW c \in lookups, NEW reached \in BOOLEAN,
         Update!Fetched(c, reached)
  PROVE  /\ c \in LookupState /\ c.at = "fetch"
         /\ UNCHANGED <<published, installed, apk, downloads, installs, updaterCauses,
                        updaterChecks>>
         /\ \/ lookups' = lookups \ {c} /\ UNCHANGED hook /\ ~hook[c.by].mounted
            \/ lookups' = lookups \ {c} /\ At(c.by, "upToDate", None, FALSE)
            \/ /\ UNCHANGED hook
               /\ Update!Newer(Update!Latest, installed)
               /\ \E e \in LookupState :
                    /\ lookups' = (lookups \ {c}) \cup {e}
                    /\ e.by = c.by /\ e.at = "read" /\ e.of = Update!Latest
<1>1. c \in LookupState
  BY DEF Update!TypeOK, LookupState
<1>2. /\ c.by \in Hook /\ "upToDate" \in Phases /\ None \in Update!Versions0
      /\ Update!Latest \in Releases
  BY <1>1, LatestIsNewest DEF LookupState, Phases, Update!Versions0, Update!TypeOK
<1>3. LET e == [c EXCEPT !.at = "read", !.of = Update!Latest]
      IN  /\ e \in LookupState /\ e.by = c.by /\ e.at = "read" /\ e.of = Update!Latest
          /\ e.have = c.have
  BY <1>1, <1>2 DEF LookupState, Update!Versions0
<1>4. /\ c.at = "fetch"
      /\ UNCHANGED <<published, installed, apk, downloads, installs, updaterCauses, updaterChecks>>
  BY DEF Update!Fetched, Update!files, Update!bounds
<1>5. \/ lookups' = lookups \ {c} /\ UNCHANGED hook /\ ~hook[c.by].mounted
      \/ lookups' = lookups \ {c} /\ hook' = Update!Phase(c.by, "upToDate", None)
      \/ /\ UNCHANGED hook
         /\ Update!Newer(Update!Latest, installed)
         /\ lookups' = (lookups \ {c}) \cup {[c EXCEPT !.at = "read", !.of = Update!Latest]}
  BY DEF Update!Fetched
<1>6. hook' = Update!Phase(c.by, "upToDate", None) => At(c.by, "upToDate", None, FALSE)
  BY <1>2, PhaseMoves
<1> QED BY <1>1, <1>3, <1>4, <1>5, <1>6

\* The file is looked at.
LEMMA ReadMoves ==
  ASSUME Update!TypeOK, NEW c \in lookups, Update!CheckReads(c)
  PROVE  /\ c \in LookupState /\ c.at = "read"
         /\ UNCHANGED <<published, installed, apk, downloads, installs, updaterCauses,
                        updaterChecks, hook>>
         /\ \E e \in LookupState :
              /\ lookups' = (lookups \ {c}) \cup {e}
              /\ e.by = c.by /\ e.at = "decide" /\ e.of = c.of
              /\ e.have => apk[c.of] = "done"
<1>1. c \in LookupState
  BY DEF Update!TypeOK, LookupState
<1>2. Update!isUpdateDownloaded(c.of) \in BOOLEAN
  BY DEF Update!isUpdateDownloaded
<1> DEFINE b == Update!isUpdateDownloaded(c.of)
<1>3. b => apk[c.of] = "done"
  BY DEF Update!isUpdateDownloaded
<1>4. /\ c.at = "read" /\ lookups' = (lookups \ {c}) \cup {[c EXCEPT !.at = "decide", !.have = b]}
      /\ UNCHANGED <<published, installed, apk, downloads, installs, updaterCauses, updaterChecks, hook>>
  BY DEF Update!CheckReads, Update!files, Update!bounds
<1>5. b \in BOOLEAN
  BY <1>2
<1> HIDE DEF b
<1> DEFINE e == [c EXCEPT !.at = "decide", !.have = b]
<1>6. e \in LookupState /\ e.by = c.by /\ e.at = "decide" /\ e.of = c.of /\ e.have = b
  BY <1>1, <1>5 DEF LookupState
<1>7. lookups' = (lookups \ {c}) \cup {e}
  BY <1>4
<1> HIDE DEF e
<1> QED BY <1>1, <1>3, <1>4, <1>6, <1>7

\* The check ends.
LEMMA DecideMoves ==
  ASSUME Update!TypeOK, Aimed, NEW c \in lookups, Update!CheckDecides(c)
  PROVE  /\ c \in LookupState /\ c.at = "decide" /\ c.of \in Releases
         /\ lookups' = lookups \ {c}
         /\ UNCHANGED <<published, installed, apk, installs, updaterCauses, updaterChecks>>
         /\ \/ c.have /\ At(c.by, "ready", c.of, TRUE) /\ UNCHANGED downloads
            \/ At(c.by, "available", c.of, FALSE) /\ UNCHANGED downloads
            \/ /\ At(c.by, "downloading", c.of, FALSE)
               /\ \E f \in DownloadState :
                    /\ downloads' = downloads \cup {f}
                    /\ f.by = c.by /\ f.of = c.of /\ f.at = "read" /\ ~f.linked
<1>1. c \in LookupState
  BY DEF Update!TypeOK, LookupState
<1>2. /\ c.at = "decide" /\ lookups' = lookups \ {c}
      /\ UNCHANGED <<published, installed, apk, installs, updaterCauses, updaterChecks>>
  BY DEF Update!CheckDecides, Update!bounds
<1>3. c.by \in Hook /\ c.of \in Releases /\ c.of \in Update!Versions0
  BY <1>1, <1>2 DEF LookupState, Aimed, Update!Versions0
<1>4. {"ready", "available"} \subseteq Phases
  BY DEF Phases
<1>5. \/ c.have /\ hook' = Update!Found(c.by, c.of) /\ UNCHANGED downloads
      \/ hook' = Update!Phase(c.by, "available", c.of) /\ UNCHANGED downloads
      \/ Update!Begin(c.by, c.of)
  BY DEF Update!CheckDecides
<1> QED BY <1>1, <1>2, <1>3, <1>4, <1>5, PhaseMoves, BeginMoves

LEMMA UpdateTyped ==
  ASSUME Update!TypeOK, HasNewest, Aimed, Update!Next
  PROVE  Update!TypeOK'
<1>0. lookups \subseteq LookupState /\ downloads \subseteq DownloadState
  BY DEF Update!TypeOK, LookupState, DownloadState
<1> USE DEF Update!TypeOK, Update!Versions0, Update!files, Update!bounds,
            Update!NoHook, Update!Alive
<1>1. ASSUME NEW v \in Releases, Update!Publish(v) PROVE Update!TypeOK'
  BY <1>1 DEF Update!Publish
<1>2. CASE Update!Kill
  BY <1>2, ZenonT(60) DEF Update!Kill, Update!Ended
<1>3. ASSUME NEW h \in Hook, Update!Mount(h) PROVE Update!TypeOK'
  <2>1. lookups' = lookups \cup {Update!Check(h, 0)} /\ Update!Check(h, 0) \in LookupState
    BY <1>3, LookMoves DEF Update!Mount
  <2>2. lookups' \subseteq LookupState
    BY <2>1 DEF LookupState
  <2>3. hook' \in [Hook -> HookState]
    BY <1>3 DEF Update!Mount, HookState, Phases
  <2>4. /\ UNCHANGED <<published, installed, apk, downloads, installs, updaterChecks>>
        /\ updaterCauses' \subseteq {"overlap", "noSize", "staleInstall"}
    BY <1>3 DEF Update!Mount
  <2> QED BY <2>2, <2>3, <2>4 DEF HookState, Phases, LookupState
<1>4. ASSUME NEW h \in Hook, Update!Unmount(h) PROVE Update!TypeOK'
  <2>1. hook' \in [Hook -> HookState]
    BY <1>4 DEF Update!Unmount, HookState, Phases
  <2>2. UNCHANGED <<published, installed, apk, lookups, downloads, installs, updaterCauses,
                    updaterChecks>>
    BY <1>4 DEF Update!Unmount
  <2> QED BY <2>1, <2>2 DEF HookState, Phases
<1>5. ASSUME NEW h \in Hook, Update!CheckPressed(h) PROVE Update!TypeOK'
  <2>1. At(h, "checking", None, FALSE)
    BY <1>5, PhaseMoves DEF Update!CheckPressed, Phases
  <2>2. /\ updaterChecks' = updaterChecks + 1
        /\ lookups' = lookups \cup {Update!Check(h, updaterChecks + 1)}
        /\ UNCHANGED <<published, installed, apk, downloads, installs, updaterCauses>>
    BY <1>5 DEF Update!CheckPressed
  <2>3. Update!Check(h, updaterChecks + 1) \in LookupState
    BY LookMoves
  <2>4. lookups' \subseteq LookupState
    BY <2>2, <2>3 DEF LookupState
  <2> QED BY <2>1, <2>2, <2>4 DEF At, HookState, Phases, LookupState
<1>6. ASSUME NEW h \in Hook, Update!DownloadPressed(h) PROVE Update!TypeOK'
  <2>1. hook[h].of \in Releases /\ Update!Begin(h, hook[h].of)
    BY <1>6 DEF Update!DownloadPressed
  <2>2. At(h, "downloading", hook[h].of, FALSE) /\ downloads' \subseteq DownloadState
    <3>1. /\ At(h, "downloading", hook[h].of, FALSE)
          /\ \E f \in DownloadState : downloads' = downloads \cup {f}
      BY <1>6, <2>1, BeginMoves
    <3> QED BY <1>0, <3>1
  <2>3. UNCHANGED <<published, installed, apk, lookups, installs, updaterCauses, updaterChecks>>
    BY <1>6 DEF Update!DownloadPressed
  <2> QED BY <2>2, <2>3 DEF At, HookState, Phases, DownloadState
<1>7. ASSUME NEW h \in Hook, Update!InstallPressed(h) PROVE Update!TypeOK'
  <2>1. hook[h].of \in Releases
    BY <1>7 DEF Update!InstallPressed, Aimed
  <2>2. [by |-> h, of |-> hook[h].of] \in [by : Hook, of : Releases]
    BY <2>1
  <2> QED BY <1>7, <2>2 DEF Update!InstallPressed
<1>8. ASSUME NEW c \in lookups, NEW reached \in BOOLEAN, Update!Fetched(c, reached)
      PROVE  Update!TypeOK'
  <2>1. hook' \in [Hook -> HookState]
    <3>1. hook \in [Hook -> HookState]
      BY DEF HookState, Phases
    <3> HIDE DEF Update!TypeOK
    <3> QED BY <1>8, <3>1, FetchMoves DEF At
  <2>2. lookups' \subseteq LookupState
    <3> HIDE DEF Update!TypeOK
    <3> QED BY <1>0, <1>8, FetchMoves
  <2> QED BY <1>8, <2>1, <2>2, FetchMoves DEF HookState, Phases, LookupState
<1>9. ASSUME NEW c \in lookups, Update!CheckReads(c) PROVE Update!TypeOK'
  <2>1. lookups' \subseteq LookupState
    BY <1>9, ReadMoves DEF LookupState
  <2> QED BY <1>9, <2>1, ReadMoves DEF LookupState
<1>10. ASSUME NEW c \in lookups, Update!CheckDecides(c) PROVE Update!TypeOK'
  <2>1. hook' \in [Hook -> HookState]
    BY <1>10, DecideMoves DEF At
  <2>2. downloads' \subseteq DownloadState
    <3> HIDE DEF Update!TypeOK
    <3> QED BY <1>0, <1>10, DecideMoves
  <2>3. lookups' \subseteq lookups
    BY <1>10, DecideMoves
  <2> QED BY <1>10, <2>1, <2>2, <2>3, DecideMoves DEF HookState, Phases, DownloadState
<1>11. ASSUME NEW d \in downloads, Update!DownloadReads(d) PROVE Update!TypeOK'
  BY <1>11 DEF Update!DownloadReads, Update!Move, Update!isUpdateDownloaded
<1>12. ASSUME NEW d \in downloads, Update!DownloadHas(d) PROVE Update!TypeOK'
  <2>1. At(d.by, "ready", d.of, TRUE)
    BY <1>12, PhaseMoves DEF Update!DownloadHas, Phases
  <2>2. /\ downloads' \subseteq downloads
        /\ UNCHANGED <<published, installed, apk, lookups, installs, updaterCauses, updaterChecks>>
    BY <1>12 DEF Update!DownloadHas
  <2> QED BY <2>1, <2>2 DEF At, HookState, Phases
<1>13. ASSUME NEW d \in downloads, Update!DownloadStarts(d) PROVE Update!TypeOK'
  <2>1. downloads \subseteq DownloadState
    BY DEF DownloadState
  <2>2. \A e \in downloads : [e EXCEPT !.linked = FALSE] \in DownloadState
    BY <2>1, DownloadMoves
  <2>3. [d EXCEPT !.at = "fetch", !.linked = TRUE] \in DownloadState
    <3>1. [d EXCEPT !.at = "fetch"] \in DownloadState
      BY <2>1, DownloadMoves
    <3>2. [[d EXCEPT !.at = "fetch"] EXCEPT !.linked = TRUE] \in DownloadState
      BY <3>1, DownloadMoves
    <3> QED BY <3>2
  <2>4. downloads' = {IF e.of = d.of THEN [e EXCEPT !.linked = FALSE] ELSE e : e \in downloads \ {d}}
                     \cup {[d EXCEPT !.at = "fetch", !.linked = TRUE]}
    BY <1>13 DEF Update!DownloadStarts
  <2>5. downloads' \subseteq DownloadState
    BY <2>1, <2>2, <2>3, <2>4
  <2>6. apk' = [apk EXCEPT ![d.of] = "part"]
    BY <1>13 DEF Update!DownloadStarts
  <2>7. updaterCauses' \subseteq {"overlap", "noSize", "staleInstall"}
    BY <1>13 DEF Update!DownloadStarts
  <2>8. UNCHANGED <<published, installed, hook, lookups, installs, updaterChecks>>
    BY <1>13 DEF Update!DownloadStarts
  <2> QED BY <2>5, <2>6, <2>7, <2>8 DEF DownloadState
<1>14. ASSUME NEW d \in downloads, Update!DownloadFails(d) PROVE Update!TypeOK'
  <2>1. At(d.by, "failed", d.of, FALSE)
    BY <1>14, PhaseMoves DEF Update!DownloadFails, Phases
  <2>2. /\ downloads' \subseteq downloads
        /\ UNCHANGED <<published, installed, apk, lookups, installs, updaterCauses, updaterChecks>>
    BY <1>14 DEF Update!DownloadFails
  <2> QED BY <2>1, <2>2 DEF At, HookState, Phases
<1>15. ASSUME NEW d \in downloads, Update!DownloadPrunes(d) PROVE Update!TypeOK'
  <2>1. downloads \subseteq DownloadState
    BY DEF DownloadState
  <2>2. \A e \in downloads : [e EXCEPT !.linked = FALSE] \in DownloadState
    BY <2>1, DownloadMoves
  <2>3. downloads' = {IF e.of = d.of THEN e ELSE [e EXCEPT !.linked = FALSE] : e \in downloads \ {d}}
    BY <1>15 DEF Update!DownloadPrunes
  <2>4. downloads' \subseteq DownloadState
    BY <2>1, <2>2, <2>3
  <2>5. At(d.by, "ready", d.of, FALSE)
    BY <1>15, PhaseMoves DEF Update!DownloadPrunes, Phases
  <2>8. apk' = [w \in Releases |-> IF w = d.of THEN apk[w] ELSE "none"]
    BY <1>15 DEF Update!DownloadPrunes, Update!Pruned
  <2>9. apk' \in [Releases -> {"none", "part", "short", "done"}]
    BY <2>8
  <2>10. UNCHANGED <<published, installed, lookups, installs, updaterCauses, updaterChecks>>
    BY <1>15 DEF Update!DownloadPrunes
  <2> QED BY <2>4, <2>5, <2>9, <2>10 DEF At, HookState, Phases, DownloadState
<1>16. ASSUME NEW d \in downloads, NEW how \in {"done", "short"}, Update!DownloadArrives(d, how)
       PROVE  Update!TypeOK'
  BY <1>16 DEF Update!DownloadArrives, Update!Move, Update!Written
<1>17. ASSUME NEW i \in installs, Update!InstallFails(i) PROVE Update!TypeOK'
  <2>1. At(i.by, "failed", i.of, FALSE)
    BY <1>17, PhaseMoves DEF Update!InstallFails, Phases
  <2>2. /\ installs' \subseteq installs
        /\ updaterCauses' \subseteq {"overlap", "noSize", "staleInstall"}
        /\ UNCHANGED <<published, installed, apk, lookups, downloads, updaterChecks>>
    BY <1>17 DEF Update!InstallFails
  <2> QED BY <2>1, <2>2 DEF At, HookState, Phases
<1>18. ASSUME NEW i \in installs, Update!InstallDeclined(i) PROVE Update!TypeOK'
  BY <1>18 DEF Update!InstallDeclined
<1>19. ASSUME NEW i \in installs, Update!InstallDone(i) PROVE Update!TypeOK'
  BY <1>19, ZenonT(60) DEF Update!InstallDone, Update!Ended
<1> QED
  BY <1>1, <1>2, <1>3, <1>4, <1>5, <1>6, <1>7, <1>8, <1>9, <1>10, <1>11, <1>12, <1>13, <1>14,
     <1>15, <1>16, <1>17, <1>18, <1>19
  DEF Update!Next, Update!CheckSteps, Update!DownloadSteps

LEMMA UpdateNewest ==
  ASSUME HasNewest, Update!Next
  PROVE  HasNewest'
<1> USE DEF HasNewest, Update!Phase, Update!Found, Update!files, Update!bounds, Update!NoHook, Update!Alive
<1>1. ASSUME NEW v \in Releases, Update!Publish(v) PROVE HasNewest'
  BY <1>1 DEF Update!Publish
<1>2. CASE Update!Kill
  BY <1>2 DEF Update!Kill, Update!Ended
<1>3. ASSUME NEW h \in Hook, Update!Mount(h) PROVE HasNewest'
  BY <1>3 DEF Update!Mount, Update!Check
<1>4. ASSUME NEW h \in Hook, Update!Unmount(h) PROVE HasNewest'
  BY <1>4 DEF Update!Unmount
<1>5. ASSUME NEW h \in Hook, Update!CheckPressed(h) PROVE HasNewest'
  BY <1>5 DEF Update!CheckPressed, Update!Busy, Update!Check
<1>6. ASSUME NEW h \in Hook, Update!DownloadPressed(h) PROVE HasNewest'
  BY <1>6 DEF Update!DownloadPressed, Update!Begin
<1>7. ASSUME NEW h \in Hook, Update!InstallPressed(h) PROVE HasNewest'
  BY <1>7 DEF Update!InstallPressed
<1>8. ASSUME NEW c \in lookups, NEW reached \in BOOLEAN, Update!Fetched(c, reached)
      PROVE  HasNewest'
  BY <1>8 DEF Update!Fetched
<1>9. ASSUME NEW c \in lookups, Update!CheckReads(c) PROVE HasNewest'
  BY <1>9 DEF Update!CheckReads, Update!isUpdateDownloaded
<1>10. ASSUME NEW c \in lookups, Update!CheckDecides(c) PROVE HasNewest'
  BY <1>10 DEF Update!CheckDecides, Update!Begin
<1>11. ASSUME NEW d \in downloads, Update!DownloadReads(d) PROVE HasNewest'
  BY <1>11 DEF Update!DownloadReads, Update!Move, Update!isUpdateDownloaded
<1>12. ASSUME NEW d \in downloads, Update!DownloadHas(d) PROVE HasNewest'
  BY <1>12 DEF Update!DownloadHas
<1>13. ASSUME NEW d \in downloads, Update!DownloadStarts(d) PROVE HasNewest'
  BY <1>13 DEF Update!DownloadStarts
<1>14. ASSUME NEW d \in downloads, Update!DownloadFails(d) PROVE HasNewest'
  BY <1>14 DEF Update!DownloadFails
<1>15. ASSUME NEW d \in downloads, Update!DownloadPrunes(d) PROVE HasNewest'
  BY <1>15 DEF Update!DownloadPrunes, Update!Pruned
<1>16. ASSUME NEW d \in downloads, NEW how \in {"done", "short"}, Update!DownloadArrives(d, how)
       PROVE  HasNewest'
  BY <1>16 DEF Update!DownloadArrives, Update!Move, Update!Written
<1>17. ASSUME NEW i \in installs, Update!InstallFails(i) PROVE HasNewest'
  BY <1>17 DEF Update!InstallFails
<1>18. ASSUME NEW i \in installs, Update!InstallDeclined(i) PROVE HasNewest'
  BY <1>18 DEF Update!InstallDeclined
<1>19. ASSUME NEW i \in installs, Update!InstallDone(i) PROVE HasNewest'
  BY <1>19 DEF Update!InstallDone, Update!Ended
<1> QED
  BY <1>1, <1>2, <1>3, <1>4, <1>5, <1>6, <1>7, <1>8, <1>9, <1>10, <1>11, <1>12, <1>13, <1>14,
     <1>15, <1>16, <1>17, <1>18, <1>19
  DEF Update!Next, Update!CheckSteps, Update!DownloadSteps

LEMMA UpdateScreen ==
  ASSUME Update!TypeOK, OneScreen, Update!Next
  PROVE  OneScreen'
<1> USE DEF Update!TypeOK, OneScreen, Update!Phase, Update!Found, Update!files, Update!bounds,
            Update!NoHook, Update!Alive
<1>1. ASSUME NEW v \in Releases, Update!Publish(v) PROVE OneScreen'
  BY <1>1 DEF Update!Publish
<1>2. CASE Update!Kill
  BY <1>2 DEF Update!Kill, Update!Ended
<1>3. ASSUME NEW h \in Hook, Update!Mount(h) PROVE OneScreen'
  BY <1>3 DEF Update!Mount, Update!Check
<1>4. ASSUME NEW h \in Hook, Update!Unmount(h) PROVE OneScreen'
  BY <1>4 DEF Update!Unmount
<1>5. ASSUME NEW h \in Hook, Update!CheckPressed(h) PROVE OneScreen'
  BY <1>5 DEF Update!CheckPressed, Update!Busy, Update!Check
<1>6. ASSUME NEW h \in Hook, Update!DownloadPressed(h) PROVE OneScreen'
  BY <1>6 DEF Update!DownloadPressed, Update!Begin
<1>7. ASSUME NEW h \in Hook, Update!InstallPressed(h) PROVE OneScreen'
  BY <1>7 DEF Update!InstallPressed
<1>8. ASSUME NEW c \in lookups, NEW reached \in BOOLEAN, Update!Fetched(c, reached)
      PROVE  OneScreen'
  BY <1>8 DEF Update!Fetched
<1>9. ASSUME NEW c \in lookups, Update!CheckReads(c) PROVE OneScreen'
  BY <1>9 DEF Update!CheckReads, Update!isUpdateDownloaded
<1>10. ASSUME NEW c \in lookups, Update!CheckDecides(c) PROVE OneScreen'
  BY <1>10 DEF Update!CheckDecides, Update!Begin
<1>11. ASSUME NEW d \in downloads, Update!DownloadReads(d) PROVE OneScreen'
  BY <1>11 DEF Update!DownloadReads, Update!Move, Update!isUpdateDownloaded
<1>12. ASSUME NEW d \in downloads, Update!DownloadHas(d) PROVE OneScreen'
  BY <1>12 DEF Update!DownloadHas
<1>13. ASSUME NEW d \in downloads, Update!DownloadStarts(d) PROVE OneScreen'
  BY <1>13 DEF Update!DownloadStarts
<1>14. ASSUME NEW d \in downloads, Update!DownloadFails(d) PROVE OneScreen'
  BY <1>14 DEF Update!DownloadFails
<1>15. ASSUME NEW d \in downloads, Update!DownloadPrunes(d) PROVE OneScreen'
  BY <1>15 DEF Update!DownloadPrunes, Update!Pruned
<1>16. ASSUME NEW d \in downloads, NEW how \in {"done", "short"}, Update!DownloadArrives(d, how)
       PROVE  OneScreen'
  BY <1>16 DEF Update!DownloadArrives, Update!Move, Update!Written
<1>17. ASSUME NEW i \in installs, Update!InstallFails(i) PROVE OneScreen'
  BY <1>17 DEF Update!InstallFails
<1>18. ASSUME NEW i \in installs, Update!InstallDeclined(i) PROVE OneScreen'
  BY <1>18 DEF Update!InstallDeclined
<1>19. ASSUME NEW i \in installs, Update!InstallDone(i) PROVE OneScreen'
  BY <1>19 DEF Update!InstallDone, Update!Ended
<1> QED
  BY <1>1, <1>2, <1>3, <1>4, <1>5, <1>6, <1>7, <1>8, <1>9, <1>10, <1>11, <1>12, <1>13, <1>14,
     <1>15, <1>16, <1>17, <1>18, <1>19
  DEF Update!Next, Update!CheckSteps, Update!DownloadSteps

\* A download that moves on is still of its screen and release.
LEMMA MovesOn ==
  ASSUME Update!TypeOK, NEW d \in downloads, NEW a,
         Update!Move(d, a) \/ Update!DownloadStarts(d)
  PROVE  /\ \A e \in downloads : \E f \in downloads' : f.by = e.by /\ f.of = e.of
         /\ \A f \in downloads' : \E e \in downloads : f.by = e.by /\ f.of = e.of
<1>0. downloads \subseteq DownloadState
  BY DEF Update!TypeOK, DownloadState
<1>1. CASE Update!Move(d, a)
  <2>1. downloads' = (downloads \ {d}) \cup {[d EXCEPT !.at = a]}
    BY <1>1 DEF Update!Move
  <2>2. [d EXCEPT !.at = a].by = d.by /\ [d EXCEPT !.at = a].of = d.of
    BY <1>0 DEF DownloadState
  <2> QED BY <2>1, <2>2
<1>2. CASE Update!DownloadStarts(d)
  <2> DEFINE New(e) == IF e.of = d.of THEN [e EXCEPT !.linked = FALSE] ELSE e
             D == [d EXCEPT !.at = "fetch", !.linked = TRUE]
  <2>1. downloads' = {New(e) : e \in downloads \ {d}} \cup {D}
    BY <1>2 DEF Update!DownloadStarts
  <2>2. \A e \in downloads : New(e).by = e.by /\ New(e).of = e.of
    BY <1>0 DEF DownloadState
  <2>3. D.by = d.by /\ D.of = d.of
    BY <1>0 DEF DownloadState
  <2> HIDE DEF New, D
  <2> QED BY <2>1, <2>2, <2>3
<1> QED BY <1>1, <1>2

LEMMA UpdateBusy ==
  ASSUME ReleasesNumbered, Update!TypeOK, HasNewest, Aimed, OneScreen,
         Update!BusyMeansWork, Update!Next
  PROVE  Update!BusyMeansWork'
<1> USE DEF Update!TypeOK, Update!BusyMeansWork, Update!Phase, Update!Found, Update!files, Update!bounds,
            Update!NoHook, Update!Alive
<1>1. ASSUME NEW v \in Releases, Update!Publish(v) PROVE Update!BusyMeansWork'
  BY <1>1 DEF Update!Publish
<1>2. CASE Update!Kill
  BY <1>2 DEF Update!Kill, Update!Ended
<1>3. ASSUME NEW h \in Hook, Update!Mount(h) PROVE Update!BusyMeansWork'
  <2>1. \A g \in Hook : hook'[g].mounted => g = h /\ hook'[g].phase = "checking"
    BY <1>3 DEF Update!Mount
  <2>2. Update!Check(h, 0) \in lookups' /\ Update!Check(h, 0).by = h
    BY <1>3 DEF Update!Mount, Update!Check
  <2> HIDE DEF Update!TypeOK, Update!Phase, Update!Found, DownloadState
  <2> QED BY <2>1, <2>2
<1>4. ASSUME NEW h \in Hook, Update!Unmount(h) PROVE Update!BusyMeansWork'
  BY <1>4 DEF Update!Unmount
<1>5. ASSUME NEW h \in Hook, Update!CheckPressed(h) PROVE Update!BusyMeansWork'
  <2>1. hook' = Update!Phase(h, "checking", None) /\ UNCHANGED downloads
    BY <1>5 DEF Update!CheckPressed
  <2>2. At(h, "checking", None, FALSE)
    BY <1>5, <2>1, PhaseMoves DEF Phases, Update!Versions0
  <2>3. LET e == Update!Check(h, updaterChecks + 1)
        IN  lookups' = lookups \cup {e} /\ e.by = h
    BY <1>5 DEF Update!CheckPressed, Update!Check
  <2> HIDE DEF Update!TypeOK, Update!Phase, Update!Found, DownloadState
  <2> QED BY <1>5, <2>1, <2>2, <2>3 DEF At
<1>6. ASSUME NEW h \in Hook, Update!DownloadPressed(h) PROVE Update!BusyMeansWork'
  <2>1. hook[h].of \in Releases /\ Update!Begin(h, hook[h].of) /\ UNCHANGED lookups
    BY <1>6 DEF Update!DownloadPressed, Update!Versions0
  <2> HIDE DEF Update!TypeOK, Update!Phase, Update!Found, DownloadState
  <2>2. PICK f \in DownloadState : downloads' = downloads \cup {f} /\ f.by = h
    BY <1>6, <2>1, BeginMoves
  <2>3. At(h, "downloading", hook[h].of, FALSE)
    BY <1>6, <2>1, BeginMoves
  <2> QED BY <1>6, <2>1, <2>2, <2>3 DEF At
<1>7. ASSUME NEW h \in Hook, Update!InstallPressed(h) PROVE Update!BusyMeansWork'
  BY <1>7 DEF Update!InstallPressed
<1>8. ASSUME NEW c \in lookups, NEW reached \in BOOLEAN, Update!Fetched(c, reached)
      PROVE  Update!BusyMeansWork'
  <2>1. /\ hook \in [Hook -> HookState] /\ lookups \subseteq LookupState
        /\ Update!Latest \in published /\ Update!Latest # None
        /\ \A w \in published \ {Update!Latest} : Update!Newer(Update!Latest, w)
    BY LatestIsNewest
       DEF ReleasesNumbered, Update!TypeOK, HookState, Phases, LookupState, Update!Versions0
  <2> HIDE DEF Update!TypeOK, Update!Phase, Update!Found, DownloadState
  <2>2. /\ c \in LookupState /\ c.at = "fetch"
        /\ UNCHANGED <<published, installed, apk, downloads, installs, updaterCauses,
                       updaterChecks>>
    BY <1>8, FetchMoves
  <2>3. CASE lookups' = lookups \ {c} /\ UNCHANGED hook /\ ~hook[c.by].mounted
    BY <1>8, <2>1, <2>2, <2>3 DEF LookupState
  <2>4. CASE lookups' = lookups \ {c} /\ At(c.by, "upToDate", None, FALSE)
    BY <1>8, <2>1, <2>2, <2>4 DEF At, HookState, LookupState
  <2>5. ASSUME UNCHANGED hook, Update!Newer(Update!Latest, installed),
               NEW e \in LookupState, lookups' = (lookups \ {c}) \cup {e},
               e.by = c.by, e.at = "read", e.of = Update!Latest
        PROVE  Update!BusyMeansWork'
    BY <1>8, <2>1, <2>2, <2>5 DEF LookupState
  <2> QED BY <1>8, <2>3, <2>4, <2>5, FetchMoves
<1>9. ASSUME NEW c \in lookups, Update!CheckReads(c) PROVE Update!BusyMeansWork'
  BY <1>9, ReadMoves
<1>10. ASSUME NEW c \in lookups, Update!CheckDecides(c) PROVE Update!BusyMeansWork'
  <2>1. /\ hook \in [Hook -> HookState] /\ downloads \subseteq DownloadState
        /\ lookups \subseteq LookupState
    BY DEF Update!TypeOK, HookState, Phases, LookupState, DownloadState, Update!Versions0
  <2> HIDE DEF Update!TypeOK, Update!Phase, Update!Found, DownloadState
  <2>2. /\ c \in LookupState /\ c.at = "decide" /\ c.of \in Releases \ {None}
        /\ lookups' = lookups \ {c}
        /\ UNCHANGED <<published, installed, apk, installs, updaterCauses, updaterChecks>>
    BY <1>10, DecideMoves DEF ReleasesNumbered
  <2>3. CASE c.have /\ At(c.by, "ready", c.of, TRUE) /\ UNCHANGED downloads
    BY <1>10, <2>1, <2>2, <2>3 DEF At, HookState, LookupState
  <2>4. CASE At(c.by, "available", c.of, FALSE) /\ UNCHANGED downloads
    BY <1>10, <2>1, <2>2, <2>4 DEF At, HookState, LookupState
  <2>5. ASSUME At(c.by, "downloading", c.of, FALSE), NEW f \in DownloadState,
               downloads' = downloads \cup {f},
               f.by = c.by, f.of = c.of, f.at = "read", ~f.linked
        PROVE  Update!BusyMeansWork'
    BY <1>10, <2>1, <2>2, <2>5 DEF At, HookState, LookupState
  <2> QED BY <1>10, <2>3, <2>4, <2>5, DecideMoves
<1>11. ASSUME NEW d \in downloads, Update!DownloadReads(d) PROVE Update!BusyMeansWork'
  <2>1. UNCHANGED <<hook, lookups>> /\ \E a : Update!Move(d, a)
    BY <1>11 DEF Update!DownloadReads
  <2>2. \A e \in downloads : \E f \in downloads' : f.by = e.by
    BY <2>1, MovesOn
  <2> QED BY <2>1, <2>2
<1>12. ASSUME NEW d \in downloads, Update!DownloadHas(d) PROVE Update!BusyMeansWork'
  BY <1>12 DEF Update!DownloadHas
<1>13. ASSUME NEW d \in downloads, Update!DownloadStarts(d) PROVE Update!BusyMeansWork'
  <2>1. UNCHANGED <<hook, lookups>>
    BY <1>13 DEF Update!DownloadStarts
  <2>2. \A e \in downloads : \E f \in downloads' : f.by = e.by
    BY <1>13, MovesOn
  <2> QED BY <2>1, <2>2
<1>14. ASSUME NEW d \in downloads, Update!DownloadFails(d) PROVE Update!BusyMeansWork'
  BY <1>14 DEF Update!DownloadFails
<1>15. ASSUME NEW d \in downloads, Update!DownloadPrunes(d) PROVE Update!BusyMeansWork'
  <2>1. At(d.by, "ready", d.of, FALSE) /\ UNCHANGED lookups
    BY <1>15, PhaseMoves DEF Update!DownloadPrunes, Phases, Update!Versions0
  <2> DEFINE Left(e) == IF e.of = d.of THEN e ELSE [e EXCEPT !.linked = FALSE]
  <2>2. downloads' = {Left(e) : e \in downloads \ {d}}
    BY <1>15 DEF Update!DownloadPrunes
  <2>3. \A e \in downloads : Left(e).by = e.by
    OBVIOUS
  <2>4. \A e \in downloads : e.by # d.by => \E f \in downloads' : f.by = e.by
    <3> HIDE DEF Left, Update!TypeOK
    <3> QED BY <2>2, <2>3
  <2> HIDE DEF Left
  <2> QED BY <2>1, <2>4 DEF At
<1>16. ASSUME NEW d \in downloads, NEW how \in {"done", "short"}, Update!DownloadArrives(d, how)
       PROVE  Update!BusyMeansWork'
  <2>1. UNCHANGED <<hook, lookups>> /\ \E a : Update!Move(d, a)
    BY <1>16 DEF Update!DownloadArrives
  <2>2. \A e \in downloads : \E f \in downloads' : f.by = e.by
    BY <2>1, MovesOn
  <2> QED BY <2>1, <2>2
<1>17. ASSUME NEW i \in installs, Update!InstallFails(i) PROVE Update!BusyMeansWork'
  BY <1>17 DEF Update!InstallFails
<1>18. ASSUME NEW i \in installs, Update!InstallDeclined(i) PROVE Update!BusyMeansWork'
  BY <1>18 DEF Update!InstallDeclined
<1>19. ASSUME NEW i \in installs, Update!InstallDone(i) PROVE Update!BusyMeansWork'
  BY <1>19 DEF Update!InstallDone, Update!Ended
<1> QED
  BY <1>1, <1>2, <1>3, <1>4, <1>5, <1>6, <1>7, <1>8, <1>9, <1>10, <1>11, <1>12, <1>13, <1>14,
     <1>15, <1>16, <1>17, <1>18, <1>19
  DEF Update!Next, Update!CheckSteps, Update!DownloadSteps

LEMMA UpdateAimed ==
  ASSUME ReleasesNumbered, Update!TypeOK, HasNewest, Aimed, Update!Next
  PROVE  Aimed'
<1> USE DEF ReleasesNumbered, Update!TypeOK, Update!Versions0, Aimed, Update!Phase, Update!Found,
            Update!files, Update!bounds, Update!NoHook, Update!Alive
<1>1. ASSUME NEW v \in Releases, Update!Publish(v) PROVE Aimed'
  BY <1>1 DEF Update!Publish
<1>2. CASE Update!Kill
  BY <1>2 DEF Update!Kill, Update!Ended
<1>3. ASSUME NEW h \in Hook, Update!Mount(h) PROVE Aimed'
  BY <1>3 DEF Update!Mount, Update!Check
<1>4. ASSUME NEW h \in Hook, Update!Unmount(h) PROVE Aimed'
  BY <1>4 DEF Update!Unmount
<1>5. ASSUME NEW h \in Hook, Update!CheckPressed(h) PROVE Aimed'
  BY <1>5 DEF Update!CheckPressed, Update!Busy, Update!Check
<1>6. ASSUME NEW h \in Hook, Update!DownloadPressed(h) PROVE Aimed'
  BY <1>6 DEF Update!DownloadPressed, Update!Begin
<1>7. ASSUME NEW h \in Hook, Update!InstallPressed(h) PROVE Aimed'
  BY <1>7 DEF Update!InstallPressed
<1>8. ASSUME NEW c \in lookups, NEW reached \in BOOLEAN, Update!Fetched(c, reached)
      PROVE  Aimed'
  <2>1. /\ hook \in [Hook -> HookState] /\ lookups \subseteq LookupState
        /\ Update!Latest \in published /\ Update!Latest # None
        /\ \A w \in published \ {Update!Latest} : Update!Newer(Update!Latest, w)
    BY LatestIsNewest
       DEF ReleasesNumbered, Update!TypeOK, HookState, Phases, LookupState, Update!Versions0
  <2> HIDE DEF Update!TypeOK, Update!Phase, Update!Found, DownloadState
  <2>2. /\ c \in LookupState /\ c.at = "fetch"
        /\ UNCHANGED <<published, installed, apk, downloads, installs, updaterCauses,
                       updaterChecks>>
    BY <1>8, FetchMoves
  <2>3. CASE lookups' = lookups \ {c} /\ UNCHANGED hook /\ ~hook[c.by].mounted
    BY <1>8, <2>1, <2>2, <2>3 DEF LookupState
  <2>4. CASE lookups' = lookups \ {c} /\ At(c.by, "upToDate", None, FALSE)
    BY <1>8, <2>1, <2>2, <2>4 DEF At, HookState, LookupState
  <2>5. ASSUME UNCHANGED hook, Update!Newer(Update!Latest, installed),
               NEW e \in LookupState, lookups' = (lookups \ {c}) \cup {e},
               e.by = c.by, e.at = "read", e.of = Update!Latest
        PROVE  Aimed'
    BY <1>8, <2>1, <2>2, <2>5 DEF LookupState
  <2> QED BY <1>8, <2>3, <2>4, <2>5, FetchMoves
<1>9. ASSUME NEW c \in lookups, Update!CheckReads(c) PROVE Aimed'
  BY <1>9, ReadMoves DEF LookupState
<1>10. ASSUME NEW c \in lookups, Update!CheckDecides(c) PROVE Aimed'
  <2>1. /\ hook \in [Hook -> HookState] /\ downloads \subseteq DownloadState
        /\ lookups \subseteq LookupState
    BY DEF Update!TypeOK, HookState, Phases, LookupState, DownloadState, Update!Versions0
  <2> HIDE DEF Update!TypeOK, Update!Phase, Update!Found, DownloadState
  <2>2. /\ c \in LookupState /\ c.at = "decide" /\ c.of \in Releases \ {None}
        /\ lookups' = lookups \ {c}
        /\ UNCHANGED <<published, installed, apk, installs, updaterCauses, updaterChecks>>
    BY <1>10, DecideMoves DEF ReleasesNumbered
  <2>3. CASE c.have /\ At(c.by, "ready", c.of, TRUE) /\ UNCHANGED downloads
    BY <1>10, <2>1, <2>2, <2>3 DEF At, HookState, LookupState
  <2>4. CASE At(c.by, "available", c.of, FALSE) /\ UNCHANGED downloads
    BY <1>10, <2>1, <2>2, <2>4 DEF At, HookState, LookupState
  <2>5. ASSUME At(c.by, "downloading", c.of, FALSE), NEW f \in DownloadState,
               downloads' = downloads \cup {f},
               f.by = c.by, f.of = c.of, f.at = "read", ~f.linked
        PROVE  Aimed'
    BY <1>10, <2>1, <2>2, <2>5 DEF At, HookState, LookupState
  <2> QED BY <1>10, <2>3, <2>4, <2>5, DecideMoves
<1>11. ASSUME NEW d \in downloads, Update!DownloadReads(d) PROVE Aimed'
  BY <1>11 DEF Update!DownloadReads, Update!Move, Update!isUpdateDownloaded
<1>12. ASSUME NEW d \in downloads, Update!DownloadHas(d) PROVE Aimed'
  BY <1>12 DEF Update!DownloadHas
<1>13. ASSUME NEW d \in downloads, Update!DownloadStarts(d) PROVE Aimed'
  <2>1. UNCHANGED <<hook, lookups, installs, installed>>
    BY <1>13 DEF Update!DownloadStarts
  <2>2. \A f \in downloads' : \E e \in downloads : f.of = e.of
    BY <1>13, MovesOn
  <2> QED BY <2>1, <2>2
<1>14. ASSUME NEW d \in downloads, Update!DownloadFails(d) PROVE Aimed'
  BY <1>14 DEF Update!DownloadFails
<1>15. ASSUME NEW d \in downloads, Update!DownloadPrunes(d) PROVE Aimed'
  BY <1>15, SMTT(60) DEF Update!DownloadPrunes, Update!Pruned
<1>16. ASSUME NEW d \in downloads, NEW how \in {"done", "short"}, Update!DownloadArrives(d, how)
       PROVE  Aimed'
  BY <1>16 DEF Update!DownloadArrives, Update!Move, Update!Written
<1>17. ASSUME NEW i \in installs, Update!InstallFails(i) PROVE Aimed'
  BY <1>17 DEF Update!InstallFails
<1>18. ASSUME NEW i \in installs, Update!InstallDeclined(i) PROVE Aimed'
  BY <1>18 DEF Update!InstallDeclined
<1>19. ASSUME NEW i \in installs, Update!InstallDone(i) PROVE Aimed'
  BY <1>19, SMTT(60) DEF Update!InstallDone, Update!Ended
<1> QED
  BY <1>1, <1>2, <1>3, <1>4, <1>5, <1>6, <1>7, <1>8, <1>9, <1>10, <1>11, <1>12, <1>13, <1>14,
     <1>15, <1>16, <1>17, <1>18, <1>19
  DEF Update!Next, Update!CheckSteps, Update!DownloadSteps


\* What has disturbed the one at work is not forgotten.
LEMMA CalmBefore ==
  ASSUME Update!Next, Calm'
  PROVE  Calm
<1>1. updaterCauses \subseteq updaterCauses'
  BY ZenonT(60) DEF Update!Next, Update!Publish, Update!Kill, Update!Ended, Update!Mount,
         Update!Unmount, Update!CheckPressed, Update!DownloadPressed,
         Update!InstallPressed, Update!CheckSteps, Update!Fetched,
         Update!CheckReads, Update!CheckDecides, Update!DownloadSteps,
         Update!DownloadReads, Update!DownloadHas, Update!DownloadStarts,
         Update!DownloadFails, Update!DownloadPrunes, Update!DownloadArrives,
         Update!InstallFails, Update!InstallDeclined, Update!InstallDone
<1> QED BY <1>1 DEF Calm

\* The one download, when nothing disturbs it.
LEMMA Alone ==
  ASSUME Update!TypeOK, OneWork, Calm, NEW d \in downloads
  PROVE  /\ downloads = {d} /\ d \in DownloadState
         /\ \A a : Update!Move(d, a) =>
              \E f : /\ downloads' = {f} /\ f.by = d.by /\ f.of = d.of
                     /\ f.at = a /\ f.linked = d.linked
         /\ Update!DownloadStarts(d) =>
              \E f : /\ downloads' = {f} /\ f.by = d.by /\ f.of = d.of
                     /\ f.at = "fetch" /\ f.linked
         /\ Update!DownloadPrunes(d) => downloads' = {}
<1>1. downloads = {d}
  BY DEF OneWork
<1>2. d \in DownloadState
  BY DEF Update!TypeOK, DownloadState
<1>3. ASSUME NEW a, Update!Move(d, a)
      PROVE  \E f : /\ downloads' = {f} /\ f.by = d.by /\ f.of = d.of
                    /\ f.at = a /\ f.linked = d.linked
  <2>1. downloads' = {[d EXCEPT !.at = a]}
    BY <1>1, <1>3 DEF Update!Move
  <2> DEFINE f == [d EXCEPT !.at = a]
  <2>2. f.by = d.by /\ f.of = d.of /\ f.at = a /\ f.linked = d.linked
    BY <1>2 DEF DownloadState
  <2>3. downloads' = {f}
    BY <2>1
  <2> HIDE DEF f
  <2> QED BY <2>2, <2>3
<1>4. ASSUME Update!DownloadStarts(d)
      PROVE  \E f : /\ downloads' = {f} /\ f.by = d.by /\ f.of = d.of
                    /\ f.at = "fetch" /\ f.linked
  <2>1. downloads' = {[d EXCEPT !.at = "fetch", !.linked = TRUE]}
    BY <1>1, <1>4 DEF Update!DownloadStarts
  <2> DEFINE f == [d EXCEPT !.at = "fetch", !.linked = TRUE]
  <2>2. f.by = d.by /\ f.of = d.of /\ f.at = "fetch" /\ f.linked
    BY <1>2 DEF DownloadState
  <2>3. downloads' = {f}
    BY <2>1
  <2> HIDE DEF f
  <2> QED BY <2>2, <2>3
<1>5. Update!DownloadPrunes(d) => downloads' = {}
  BY <1>1 DEF Update!DownloadPrunes
<1> QED BY <1>1, <1>2, <1>3, <1>4, <1>5

LEMMA UpdateWork ==
  ASSUME ReleasesNumbered, Update!TypeOK, HasNewest, Aimed, OneScreen, OneWork, Update!Next
  PROVE  OneWork'
<1> USE DEF Update!TypeOK, OneScreen, OneWork, Update!Phase, Update!Found, Update!files, Update!bounds,
            Update!NoHook, Update!Alive, DownloadState
<1>0. SUFFICES ASSUME Calm, Calm' PROVE OneWork'
  BY CalmBefore DEF OneWork
<1>1. ASSUME NEW v \in Releases, Update!Publish(v) PROVE OneWork'
  BY <1>0, <1>1 DEF Update!Publish
<1>2. CASE Update!Kill
  BY <1>0, <1>2 DEF Update!Kill, Update!Ended
<1>3. ASSUME NEW h \in Hook, Update!Mount(h) PROVE OneWork'
  <2>1. downloads = {} /\ lookups = {} /\ \A g \in Hook : ~hook[g].mounted
    BY <1>0, <1>3 DEF Update!Mount, Calm
  <2> QED BY <1>0, <1>3, <2>1 DEF Update!Mount, Update!Check
<1>4. ASSUME NEW h \in Hook, Update!Unmount(h) PROVE OneWork'
  BY <1>0, <1>4 DEF Update!Unmount
<1>5. ASSUME NEW h \in Hook, Update!CheckPressed(h) PROVE OneWork'
  <2>1. At(h, "checking", None, FALSE) /\ UNCHANGED downloads
    BY <1>5, PhaseMoves DEF Update!CheckPressed, Phases, Update!Versions0
  <2>2. LET e == Update!Check(h, updaterChecks + 1)
        IN  lookups' = lookups \cup {e} /\ e.by = h
    BY <1>5 DEF Update!CheckPressed, Update!Check
  <2>3. hook[h].mounted /\ hook[h].phase \notin {"checking", "downloading"}
    BY <1>5 DEF Update!CheckPressed, Update!Busy
  <2>4. downloads = {} /\ lookups = {} /\ \A g \in Hook \ {h} : ~hook[g].mounted
    BY <1>0, <2>3
  <2> QED BY <1>0, <1>5, <2>1, <2>2, <2>4 DEF At
<1>6. ASSUME NEW h \in Hook, Update!DownloadPressed(h) PROVE OneWork'
  <2>1. hook[h].of \in Releases /\ Update!Begin(h, hook[h].of) /\ UNCHANGED lookups
    BY <1>6 DEF Update!DownloadPressed, Update!Versions0
  <2>2. hook[h].mounted /\ hook[h].phase \notin {"checking", "downloading"}
    BY <1>6 DEF Update!DownloadPressed
  <2>3. downloads = {} /\ lookups = {} /\ \A g \in Hook \ {h} : ~hook[g].mounted
    BY <1>0, <2>2
  <2> HIDE DEF Update!TypeOK, Update!Phase, Update!Found, DownloadState
  <2>4. PICK f \in DownloadState : downloads' = downloads \cup {f} /\ f.by = h /\ f.of = hook[h].of
    <3> DEFINE v == hook[h].of
    <3>1. v \in Releases /\ Update!Begin(h, v)
      BY <2>1
    <3> HIDE DEF v, OneWork, OneScreen
    <3>2. \E f \in DownloadState :
            /\ downloads' = downloads \cup {f}
            /\ f.by = h /\ f.of = v /\ f.at = "read" /\ ~f.linked
      BY <1>6, <3>1, BeginMoves
    <3> QED BY <3>2 DEF v
  <2>5. At(h, "downloading", hook[h].of, FALSE)
    BY <1>6, <2>1, BeginMoves
  <2> QED BY <1>0, <1>6, <2>1, <2>3, <2>4, <2>5 DEF At
<1>7. ASSUME NEW h \in Hook, Update!InstallPressed(h) PROVE OneWork'
  BY <1>0, <1>7 DEF Update!InstallPressed
<1>8. ASSUME NEW c \in lookups, NEW reached \in BOOLEAN, Update!Fetched(c, reached)
      PROVE  OneWork'
  <2>1. /\ hook \in [Hook -> HookState] /\ lookups \subseteq LookupState
        /\ Update!Latest \in published /\ Update!Latest # None
        /\ \A w \in published \ {Update!Latest} : Update!Newer(Update!Latest, w)
    BY LatestIsNewest
       DEF ReleasesNumbered, Update!TypeOK, HookState, Phases, LookupState, Update!Versions0
  <2> HIDE DEF Update!TypeOK, Update!Phase, Update!Found, DownloadState
  <2>2. /\ c \in LookupState /\ c.at = "fetch"
        /\ UNCHANGED <<published, installed, apk, downloads, installs, updaterCauses,
                       updaterChecks>>
    BY <1>8, FetchMoves
  <2>3. CASE lookups' = lookups \ {c} /\ UNCHANGED hook /\ ~hook[c.by].mounted
    BY <1>0, <1>8, <2>1, <2>2, <2>3 DEF LookupState
  <2>4. CASE lookups' = lookups \ {c} /\ At(c.by, "upToDate", None, FALSE)
    BY <1>0, <1>8, <2>1, <2>2, <2>4 DEF At, HookState, LookupState
  <2>5. ASSUME UNCHANGED hook, Update!Newer(Update!Latest, installed),
               NEW e \in LookupState, lookups' = (lookups \ {c}) \cup {e},
               e.by = c.by, e.at = "read", e.of = Update!Latest
        PROVE  OneWork'
    BY <1>0, <1>8, <2>1, <2>2, <2>5 DEF LookupState
  <2> QED BY <1>8, <2>3, <2>4, <2>5, FetchMoves
<1>9. ASSUME NEW c \in lookups, Update!CheckReads(c) PROVE OneWork'
  BY <1>0, <1>9, ReadMoves DEF LookupState
<1>10. ASSUME NEW c \in lookups, Update!CheckDecides(c) PROVE OneWork'
  <2>1. /\ hook \in [Hook -> HookState] /\ downloads \subseteq DownloadState
        /\ lookups \subseteq LookupState
    BY DEF Update!TypeOK, HookState, Phases, LookupState, DownloadState, Update!Versions0
  <2> HIDE DEF Update!TypeOK, Update!Phase, Update!Found, DownloadState
  <2>2. /\ c \in LookupState /\ c.at = "decide" /\ c.of \in Releases \ {None}
        /\ lookups' = lookups \ {c}
        /\ UNCHANGED <<published, installed, apk, installs, updaterCauses, updaterChecks>>
    BY <1>10, DecideMoves DEF ReleasesNumbered
  <2>3. CASE c.have /\ At(c.by, "ready", c.of, TRUE) /\ UNCHANGED downloads
    BY <1>0, <1>10, <2>1, <2>2, <2>3 DEF At, HookState, LookupState
  <2>4. CASE At(c.by, "available", c.of, FALSE) /\ UNCHANGED downloads
    BY <1>0, <1>10, <2>1, <2>2, <2>4 DEF At, HookState, LookupState
  <2>5. ASSUME At(c.by, "downloading", c.of, FALSE), NEW f \in DownloadState,
               downloads' = downloads \cup {f},
               f.by = c.by, f.of = c.of, f.at = "read", ~f.linked
        PROVE  OneWork'
    BY <1>0, <1>10, <2>1, <2>2, <2>5 DEF At, HookState, LookupState
  <2> QED BY <1>10, <2>3, <2>4, <2>5, DecideMoves
<1>11. ASSUME NEW d \in downloads, Update!DownloadReads(d) PROVE OneWork'
  <2>1. PICK a \in {"have", "lack"} :
          /\ Update!Move(d, a)
          /\ a = "have" => apk[d.of] = "done"
          /\ a = "lack" /\ d.of \in Sized => apk[d.of] # "done"
    BY <1>11 DEF Update!DownloadReads, Update!isUpdateDownloaded
  <2>2. PICK f : /\ downloads' = {f} /\ f.by = d.by /\ f.of = d.of
                 /\ f.at = a /\ f.linked = d.linked
    BY <1>0, <2>1, Alone
  <2>3. UNCHANGED <<hook, lookups, apk, installs, published>>
    BY <1>11 DEF Update!DownloadReads
  <2> QED BY <1>0, <2>1, <2>2, <2>3
<1>12. ASSUME NEW d \in downloads, Update!DownloadHas(d) PROVE OneWork'
  <2>1. downloads = {d} /\ d \in DownloadState
    BY <1>0, Alone
  <2>2. downloads' = {} /\ d.at = "have"
    BY <1>12, <2>1 DEF Update!DownloadHas
  <2>3. At(d.by, "ready", d.of, TRUE)
    BY <1>12, PhaseMoves DEF Update!DownloadHas, Phases, Update!Versions0
  <2>4. UNCHANGED <<apk, lookups, installs, published>>
    BY <1>12 DEF Update!DownloadHas
  <2> QED BY <1>0, <2>1, <2>2, <2>3, <2>4 DEF At
<1>13. ASSUME NEW d \in downloads, Update!DownloadStarts(d) PROVE OneWork'
  <2>1. downloads = {d} /\ d \in DownloadState
    BY <1>0, Alone
  <2>2. PICK f : /\ downloads' = {f} /\ f.by = d.by /\ f.of = d.of
                 /\ f.at = "fetch" /\ f.linked
    BY <1>0, <1>13, Alone
  <2>3. apk' = [apk EXCEPT ![d.of] = "part"] /\ d.at = "lack"
    BY <1>13 DEF Update!DownloadStarts
  <2>4. UNCHANGED <<hook, lookups, installs, published>>
    BY <1>13 DEF Update!DownloadStarts
  <2> QED BY <1>0, <2>1, <2>2, <2>3, <2>4
<1>14. ASSUME NEW d \in downloads, Update!DownloadFails(d) PROVE OneWork'
  <2>1. downloads = {d} /\ d \in DownloadState
    BY <1>0, Alone
  <2>2. downloads' = {}
    BY <1>14, <2>1 DEF Update!DownloadFails
  <2>3. At(d.by, "failed", d.of, FALSE)
    BY <1>14, PhaseMoves DEF Update!DownloadFails, Phases, Update!Versions0
  <2>4. UNCHANGED <<apk, lookups, installs, published>>
    BY <1>14 DEF Update!DownloadFails
  <2> QED BY <1>0, <2>1, <2>2, <2>3, <2>4 DEF At
<1>15. ASSUME NEW d \in downloads, Update!DownloadPrunes(d) PROVE OneWork'
  <2>1. downloads = {d} /\ d \in DownloadState
    BY <1>0, Alone
  <2>2. downloads' = {}
    BY <1>0, <1>15, Alone
  <2>3. At(d.by, "ready", d.of, FALSE)
    BY <1>15, PhaseMoves DEF Update!DownloadPrunes, Phases, Update!Versions0
  <2>4. /\ apk' = [w \in Releases |-> IF w = d.of THEN apk[w] ELSE "none"]
        /\ d.at = "prune" /\ UNCHANGED <<lookups, installs, published>>
    BY <1>15 DEF Update!DownloadPrunes, Update!Pruned
  <2> QED BY <1>0, <2>1, <2>2, <2>3, <2>4 DEF At
<1>16. ASSUME NEW d \in downloads, NEW how \in {"done", "short"}, Update!DownloadArrives(d, how)
       PROVE  OneWork'
  <2>1. downloads = {d} /\ d \in DownloadState
    BY <1>0, Alone
  <2>2. Update!Move(d, "prune") /\ d.at = "fetch"
    BY <1>16 DEF Update!DownloadArrives
  <2>3. PICK f : /\ downloads' = {f} /\ f.by = d.by /\ f.of = d.of
                 /\ f.at = "prune" /\ f.linked = d.linked
    BY <1>0, <2>2, Alone
  <2>4. apk' = IF d.linked THEN [apk EXCEPT ![d.of] = how] ELSE apk
    BY <1>16 DEF Update!DownloadArrives, Update!Written
  <2>5. UNCHANGED <<hook, lookups, installs, published>>
    BY <1>16 DEF Update!DownloadArrives
  <2> QED BY <1>0, <2>1, <2>2, <2>3, <2>4, <2>5
<1>17. ASSUME NEW i \in installs, Update!InstallFails(i) PROVE OneWork'
  <2>1. hook[i.by].phase = "ready" /\ hook[i.by].of = i.of
    BY <1>0, <1>17 DEF Update!InstallFails, Calm
  <2>2. At(i.by, "failed", i.of, FALSE)
    BY <1>17, PhaseMoves DEF Update!InstallFails, Phases, Update!Versions0
  <2>3. UNCHANGED <<apk, lookups, downloads, published>> /\ installs' = installs \ {i}
    BY <1>17 DEF Update!InstallFails
  <2> QED BY <1>0, <2>1, <2>2, <2>3 DEF At
<1>18. ASSUME NEW i \in installs, Update!InstallDeclined(i) PROVE OneWork'
  BY <1>0, <1>18 DEF Update!InstallDeclined
<1>19. ASSUME NEW i \in installs, Update!InstallDone(i) PROVE OneWork'
  BY <1>0, <1>19, SMTT(60) DEF Update!InstallDone, Update!Ended
<1> QED
  BY <1>1, <1>2, <1>3, <1>4, <1>5, <1>6, <1>7, <1>8, <1>9, <1>10, <1>11, <1>12, <1>13, <1>14,
     <1>15, <1>16, <1>17, <1>18, <1>19
  DEF Update!Next, Update!CheckSteps, Update!DownloadSteps

LEMMA UpdateDisk ==
  ASSUME ReleasesNumbered, Update!TypeOK, HasNewest, Aimed, OneScreen, OneWork, OnDisk,
         Update!Next
  PROVE  OnDisk'
<1> USE DEF Update!TypeOK, OneScreen, OneWork, OnDisk, Update!Phase, Update!Found, Update!files,
            Update!bounds, Update!NoHook, Update!Alive, DownloadState
<1>0. SUFFICES ASSUME Calm, Calm' PROVE OnDisk'
  BY CalmBefore DEF OnDisk
<1>1. ASSUME NEW v \in Releases, Update!Publish(v) PROVE OnDisk'
  BY <1>0, <1>1 DEF Update!Publish
<1>2. CASE Update!Kill
  BY <1>0, <1>2 DEF Update!Kill, Update!Ended
<1>3. ASSUME NEW h \in Hook, Update!Mount(h) PROVE OnDisk'
  <2>1. downloads = {} /\ lookups = {} /\ \A g \in Hook : ~hook[g].mounted
    BY <1>0, <1>3 DEF Update!Mount, Calm
  <2> QED BY <1>0, <1>3, <2>1 DEF Update!Mount, Update!Check
<1>4. ASSUME NEW h \in Hook, Update!Unmount(h) PROVE OnDisk'
  BY <1>0, <1>4 DEF Update!Unmount
<1>5. ASSUME NEW h \in Hook, Update!CheckPressed(h) PROVE OnDisk'
  BY <1>0, <1>5 DEF Update!CheckPressed, Update!Busy, Update!Check
<1>6. ASSUME NEW h \in Hook, Update!DownloadPressed(h) PROVE OnDisk'
  BY <1>0, <1>6 DEF Update!DownloadPressed, Update!Begin
<1>7. ASSUME NEW h \in Hook, Update!InstallPressed(h) PROVE OnDisk'
  BY <1>0, <1>7 DEF Update!InstallPressed
<1>8. ASSUME NEW c \in lookups, NEW reached \in BOOLEAN, Update!Fetched(c, reached)
      PROVE  OnDisk'
  <2>1. /\ hook \in [Hook -> HookState] /\ lookups \subseteq LookupState
        /\ Update!Latest \in published /\ Update!Latest # None
        /\ \A w \in published \ {Update!Latest} : Update!Newer(Update!Latest, w)
    BY LatestIsNewest
       DEF ReleasesNumbered, Update!TypeOK, HookState, Phases, LookupState, Update!Versions0
  <2> HIDE DEF Update!TypeOK, Update!Phase, Update!Found, DownloadState
  <2>2. /\ c \in LookupState /\ c.at = "fetch"
        /\ UNCHANGED <<published, installed, apk, downloads, installs, updaterCauses,
                       updaterChecks>>
    BY <1>8, FetchMoves
  <2>3. CASE lookups' = lookups \ {c} /\ UNCHANGED hook /\ ~hook[c.by].mounted
    BY <1>0, <1>8, <2>1, <2>2, <2>3 DEF LookupState
  <2>4. CASE lookups' = lookups \ {c} /\ At(c.by, "upToDate", None, FALSE)
    BY <1>0, <1>8, <2>1, <2>2, <2>4 DEF At, HookState, LookupState
  <2>5. ASSUME UNCHANGED hook, Update!Newer(Update!Latest, installed),
               NEW e \in LookupState, lookups' = (lookups \ {c}) \cup {e},
               e.by = c.by, e.at = "read", e.of = Update!Latest
        PROVE  OnDisk'
    BY <1>0, <1>8, <2>1, <2>2, <2>5 DEF LookupState
  <2> QED BY <1>8, <2>3, <2>4, <2>5, FetchMoves
<1>9. ASSUME NEW c \in lookups, Update!CheckReads(c) PROVE OnDisk'
  BY <1>0, <1>9, ReadMoves DEF LookupState
<1>10. ASSUME NEW c \in lookups, Update!CheckDecides(c) PROVE OnDisk'
  <2>1. /\ hook \in [Hook -> HookState] /\ downloads \subseteq DownloadState
        /\ lookups \subseteq LookupState
    BY DEF Update!TypeOK, HookState, Phases, LookupState, DownloadState, Update!Versions0
  <2> HIDE DEF Update!TypeOK, Update!Phase, Update!Found, DownloadState
  <2>2. /\ c \in LookupState /\ c.at = "decide" /\ c.of \in Releases \ {None}
        /\ lookups' = lookups \ {c}
        /\ UNCHANGED <<published, installed, apk, installs, updaterCauses, updaterChecks>>
    BY <1>10, DecideMoves DEF ReleasesNumbered
  <2>3. CASE c.have /\ At(c.by, "ready", c.of, TRUE) /\ UNCHANGED downloads
    BY <1>0, <1>10, <2>1, <2>2, <2>3 DEF At, HookState, LookupState
  <2>4. CASE At(c.by, "available", c.of, FALSE) /\ UNCHANGED downloads
    BY <1>0, <1>10, <2>1, <2>2, <2>4 DEF At, HookState, LookupState
  <2>5. ASSUME At(c.by, "downloading", c.of, FALSE), NEW f \in DownloadState,
               downloads' = downloads \cup {f},
               f.by = c.by, f.of = c.of, f.at = "read", ~f.linked
        PROVE  OnDisk'
    BY <1>0, <1>10, <2>1, <2>2, <2>5 DEF At, HookState, LookupState
  <2> QED BY <1>10, <2>3, <2>4, <2>5, DecideMoves
<1>11. ASSUME NEW d \in downloads, Update!DownloadReads(d) PROVE OnDisk'
  <2>1. PICK a \in {"have", "lack"} :
          /\ Update!Move(d, a)
          /\ a = "have" => apk[d.of] = "done"
          /\ a = "lack" /\ d.of \in Sized => apk[d.of] # "done"
    BY <1>11 DEF Update!DownloadReads, Update!isUpdateDownloaded
  <2>2. PICK f : /\ downloads' = {f} /\ f.by = d.by /\ f.of = d.of
                 /\ f.at = a /\ f.linked = d.linked
    BY <1>0, <2>1, Alone
  <2>3. UNCHANGED <<hook, lookups, apk, installs, published>>
    BY <1>11 DEF Update!DownloadReads
  <2> QED BY <1>0, <2>1, <2>2, <2>3
<1>12. ASSUME NEW d \in downloads, Update!DownloadHas(d) PROVE OnDisk'
  <2>1. downloads = {d} /\ d \in DownloadState
    BY <1>0, Alone
  <2>2. downloads' = {} /\ d.at = "have"
    BY <1>12, <2>1 DEF Update!DownloadHas
  <2>3. At(d.by, "ready", d.of, TRUE)
    BY <1>12, PhaseMoves DEF Update!DownloadHas, Phases, Update!Versions0
  <2>4. UNCHANGED <<apk, lookups, installs, published>>
    BY <1>12 DEF Update!DownloadHas
  <2> QED BY <1>0, <2>1, <2>2, <2>3, <2>4 DEF At
<1>13. ASSUME NEW d \in downloads, Update!DownloadStarts(d) PROVE OnDisk'
  <2>1. downloads = {d} /\ d \in DownloadState
    BY <1>0, Alone
  <2>2. PICK f : /\ downloads' = {f} /\ f.by = d.by /\ f.of = d.of
                 /\ f.at = "fetch" /\ f.linked
    BY <1>0, <1>13, Alone
  <2>3. apk' = [apk EXCEPT ![d.of] = "part"] /\ d.at = "lack"
    BY <1>13 DEF Update!DownloadStarts
  <2>4. UNCHANGED <<hook, lookups, installs, published>>
    BY <1>13 DEF Update!DownloadStarts
  <2> QED BY <1>0, <2>1, <2>2, <2>3, <2>4
<1>14. ASSUME NEW d \in downloads, Update!DownloadFails(d) PROVE OnDisk'
  <2>1. downloads = {d} /\ d \in DownloadState
    BY <1>0, Alone
  <2>2. downloads' = {}
    BY <1>14, <2>1 DEF Update!DownloadFails
  <2>3. At(d.by, "failed", d.of, FALSE)
    BY <1>14, PhaseMoves DEF Update!DownloadFails, Phases, Update!Versions0
  <2>4. UNCHANGED <<apk, lookups, installs, published>>
    BY <1>14 DEF Update!DownloadFails
  <2> QED BY <1>0, <2>1, <2>2, <2>3, <2>4 DEF At
<1>15. ASSUME NEW d \in downloads, Update!DownloadPrunes(d) PROVE OnDisk'
  <2>1. downloads = {d} /\ d \in DownloadState
    BY <1>0, Alone
  <2>2. downloads' = {}
    BY <1>0, <1>15, Alone
  <2>3. At(d.by, "ready", d.of, FALSE)
    BY <1>15, PhaseMoves DEF Update!DownloadPrunes, Phases, Update!Versions0
  <2>4. /\ apk' = [w \in Releases |-> IF w = d.of THEN apk[w] ELSE "none"]
        /\ d.at = "prune" /\ UNCHANGED <<lookups, installs, published>>
    BY <1>15 DEF Update!DownloadPrunes, Update!Pruned
  <2> QED BY <1>0, <2>1, <2>2, <2>3, <2>4 DEF At
<1>16. ASSUME NEW d \in downloads, NEW how \in {"done", "short"}, Update!DownloadArrives(d, how)
       PROVE  OnDisk'
  <2>1. downloads = {d} /\ d \in DownloadState
    BY <1>0, Alone
  <2>2. Update!Move(d, "prune") /\ d.at = "fetch"
    BY <1>16 DEF Update!DownloadArrives
  <2>3. PICK f : /\ downloads' = {f} /\ f.by = d.by /\ f.of = d.of
                 /\ f.at = "prune" /\ f.linked = d.linked
    BY <1>0, <2>2, Alone
  <2>4. apk' = IF d.linked THEN [apk EXCEPT ![d.of] = how] ELSE apk
    BY <1>16 DEF Update!DownloadArrives, Update!Written
  <2>5. UNCHANGED <<hook, lookups, installs, published>>
    BY <1>16 DEF Update!DownloadArrives
  <2> QED BY <1>0, <2>1, <2>2, <2>3, <2>4, <2>5
<1>17. ASSUME NEW i \in installs, Update!InstallFails(i) PROVE OnDisk'
  <2>1. hook[i.by].phase = "ready" /\ hook[i.by].of = i.of
    BY <1>0, <1>17 DEF Update!InstallFails, Calm
  <2>2. At(i.by, "failed", i.of, FALSE)
    BY <1>17, PhaseMoves DEF Update!InstallFails, Phases, Update!Versions0
  <2>3. UNCHANGED <<apk, lookups, downloads, published>> /\ installs' = installs \ {i}
    BY <1>17 DEF Update!InstallFails
  <2> QED BY <1>0, <2>1, <2>2, <2>3 DEF At
<1>18. ASSUME NEW i \in installs, Update!InstallDeclined(i) PROVE OnDisk'
  BY <1>0, <1>18 DEF Update!InstallDeclined
<1>19. ASSUME NEW i \in installs, Update!InstallDone(i) PROVE OnDisk'
  BY <1>0, <1>19 DEF Update!InstallDone, Update!Ended
<1> QED
  BY <1>1, <1>2, <1>3, <1>4, <1>5, <1>6, <1>7, <1>8, <1>9, <1>10, <1>11, <1>12, <1>13, <1>14,
     <1>15, <1>16, <1>17, <1>18, <1>19
  DEF Update!Next, Update!CheckSteps, Update!DownloadSteps

LEMMA UpdateFiles ==
  ASSUME ReleasesNumbered, Update!TypeOK, HasNewest, Aimed, OfPublished, Update!Next
  PROVE  OfPublished'
<1> USE DEF Update!TypeOK, OfPublished, Update!Phase, Update!Found, Update!files, Update!bounds,
            Update!NoHook, Update!Alive, DownloadState
<1>1. ASSUME NEW v \in Releases, Update!Publish(v) PROVE OfPublished'
  BY <1>1 DEF Update!Publish
<1>2. CASE Update!Kill
  BY <1>2 DEF Update!Kill, Update!Ended
<1>3. ASSUME NEW h \in Hook, Update!Mount(h) PROVE OfPublished'
  BY <1>3 DEF Update!Mount, Update!Check
<1>4. ASSUME NEW h \in Hook, Update!Unmount(h) PROVE OfPublished'
  BY <1>4 DEF Update!Unmount
<1>5. ASSUME NEW h \in Hook, Update!CheckPressed(h) PROVE OfPublished'
  BY <1>5 DEF Update!CheckPressed, Update!Busy, Update!Check
<1>6. ASSUME NEW h \in Hook, Update!DownloadPressed(h) PROVE OfPublished'
  BY <1>6 DEF Update!DownloadPressed, Update!Begin
<1>7. ASSUME NEW h \in Hook, Update!InstallPressed(h) PROVE OfPublished'
  BY <1>7 DEF Update!InstallPressed, Aimed
<1>8. ASSUME NEW c \in lookups, NEW reached \in BOOLEAN, Update!Fetched(c, reached)
      PROVE  OfPublished'
  <2>1. /\ hook \in [Hook -> HookState] /\ lookups \subseteq LookupState
        /\ Update!Latest \in published /\ Update!Latest # None
        /\ \A w \in published \ {Update!Latest} : Update!Newer(Update!Latest, w)
    BY LatestIsNewest
       DEF ReleasesNumbered, Update!TypeOK, HookState, Phases, LookupState, Update!Versions0
  <2> HIDE DEF Update!TypeOK, Update!Phase, Update!Found, DownloadState
  <2>2. /\ c \in LookupState /\ c.at = "fetch"
        /\ UNCHANGED <<published, installed, apk, downloads, installs, updaterCauses,
                       updaterChecks>>
    BY <1>8, FetchMoves
  <2>3. CASE lookups' = lookups \ {c} /\ UNCHANGED hook /\ ~hook[c.by].mounted
    BY <1>8, <2>1, <2>2, <2>3 DEF LookupState
  <2>4. CASE lookups' = lookups \ {c} /\ At(c.by, "upToDate", None, FALSE)
    BY <1>8, <2>1, <2>2, <2>4 DEF At, HookState, LookupState
  <2>5. ASSUME UNCHANGED hook, Update!Newer(Update!Latest, installed),
               NEW e \in LookupState, lookups' = (lookups \ {c}) \cup {e},
               e.by = c.by, e.at = "read", e.of = Update!Latest
        PROVE  OfPublished'
    BY <1>8, <2>1, <2>2, <2>5 DEF LookupState
  <2> HIDE DEF OfPublished
  <2> QED BY <1>8, <2>3, <2>4, <2>5, FetchMoves
<1>9. ASSUME NEW c \in lookups, Update!CheckReads(c) PROVE OfPublished'
  BY <1>9, ReadMoves DEF LookupState
<1>10. ASSUME NEW c \in lookups, Update!CheckDecides(c) PROVE OfPublished'
  <2>1. /\ hook \in [Hook -> HookState] /\ downloads \subseteq DownloadState
        /\ lookups \subseteq LookupState
    BY DEF Update!TypeOK, HookState, Phases, LookupState, DownloadState, Update!Versions0
  <2> HIDE DEF Update!TypeOK, Update!Phase, Update!Found, DownloadState
  <2>2. /\ c \in LookupState /\ c.at = "decide" /\ c.of \in Releases \ {None}
        /\ lookups' = lookups \ {c}
        /\ UNCHANGED <<published, installed, apk, installs, updaterCauses, updaterChecks>>
    BY <1>10, DecideMoves DEF ReleasesNumbered
  <2>3. CASE c.have /\ At(c.by, "ready", c.of, TRUE) /\ UNCHANGED downloads
    BY <1>10, <2>1, <2>2, <2>3 DEF At, HookState, LookupState
  <2>4. CASE At(c.by, "available", c.of, FALSE) /\ UNCHANGED downloads
    BY <1>10, <2>1, <2>2, <2>4 DEF At, HookState, LookupState
  <2>5. ASSUME At(c.by, "downloading", c.of, FALSE), NEW f \in DownloadState,
               downloads' = downloads \cup {f},
               f.by = c.by, f.of = c.of, f.at = "read", ~f.linked
        PROVE  OfPublished'
    BY <1>10, <2>1, <2>2, <2>5 DEF At, HookState, LookupState
  <2> QED BY <1>10, <2>3, <2>4, <2>5, DecideMoves
<1>11. ASSUME NEW d \in downloads, Update!DownloadReads(d) PROVE OfPublished'
  BY <1>11 DEF Update!DownloadReads, Update!isUpdateDownloaded, Update!Move
<1>12. ASSUME NEW d \in downloads, Update!DownloadHas(d) PROVE OfPublished'
  BY <1>12 DEF Update!DownloadHas
<1>13. ASSUME NEW d \in downloads, Update!DownloadStarts(d) PROVE OfPublished'
  <2>1. UNCHANGED <<hook, lookups, installs, published>> /\ apk' = [apk EXCEPT ![d.of] = "part"]
    BY <1>13 DEF Update!DownloadStarts
  <2>2. \A f \in downloads' : \E e \in downloads : f.of = e.of
    BY <1>13, MovesOn
  <2> QED BY <2>1, <2>2
<1>14. ASSUME NEW d \in downloads, Update!DownloadFails(d) PROVE OfPublished'
  BY <1>14 DEF Update!DownloadFails
<1>15. ASSUME NEW d \in downloads, Update!DownloadPrunes(d) PROVE OfPublished'
  BY <1>15 DEF Update!DownloadPrunes, Update!Pruned
<1>16. ASSUME NEW d \in downloads, NEW how \in {"done", "short"}, Update!DownloadArrives(d, how)
       PROVE  OfPublished'
  BY <1>16 DEF Update!DownloadArrives, Update!Written, Update!Move
<1>17. ASSUME NEW i \in installs, Update!InstallFails(i) PROVE OfPublished'
  BY <1>17 DEF Update!InstallFails
<1>18. ASSUME NEW i \in installs, Update!InstallDeclined(i) PROVE OfPublished'
  BY <1>18 DEF Update!InstallDeclined
<1>19. ASSUME NEW i \in installs, Update!InstallDone(i) PROVE OfPublished'
  BY <1>19 DEF Update!InstallDone, Update!Ended
<1> QED
  BY <1>1, <1>2, <1>3, <1>4, <1>5, <1>6, <1>7, <1>8, <1>9, <1>10, <1>11, <1>12, <1>13, <1>14,
     <1>15, <1>16, <1>17, <1>18, <1>19
  DEF Update!Next, Update!CheckSteps, Update!DownloadSteps

LEMMA UpdateFile ==
  ASSUME ReleasesNumbered, Update!TypeOK, HasNewest, Aimed, OfPublished, OneWork, NewestFile,
         Update!Next
  PROVE  NewestFile'
<1> USE DEF Update!TypeOK, OneWork, OfPublished, NewestFile, Update!Phase, Update!Found, Update!files,
            Update!bounds, Update!NoHook, Update!Alive, DownloadState
<1>0. SUFFICES ASSUME Calm, Calm' PROVE NewestFile'
  BY CalmBefore DEF NewestFile
<1>1. ASSUME NEW v \in Releases, Update!Publish(v) PROVE NewestFile'
  BY <1>0, <1>1 DEF Update!Publish
<1>2. CASE Update!Kill
  BY <1>0, <1>2 DEF Update!Kill, Update!Ended
<1>3. ASSUME NEW h \in Hook, Update!Mount(h) PROVE NewestFile'
  <2>1. downloads = {} /\ lookups = {} /\ \A g \in Hook : ~hook[g].mounted
    BY <1>0, <1>3 DEF Update!Mount, Calm
  <2> QED BY <1>0, <1>3, <2>1 DEF Update!Mount, Update!Check
<1>4. ASSUME NEW h \in Hook, Update!Unmount(h) PROVE NewestFile'
  BY <1>0, <1>4 DEF Update!Unmount
<1>5. ASSUME NEW h \in Hook, Update!CheckPressed(h) PROVE NewestFile'
  BY <1>0, <1>5 DEF Update!CheckPressed, Update!Busy, Update!Check
<1>6. ASSUME NEW h \in Hook, Update!DownloadPressed(h) PROVE NewestFile'
  BY <1>0, <1>6 DEF Update!DownloadPressed, Update!Begin
<1>7. ASSUME NEW h \in Hook, Update!InstallPressed(h) PROVE NewestFile'
  BY <1>0, <1>7 DEF Update!InstallPressed
<1>8. ASSUME NEW c \in lookups, NEW reached \in BOOLEAN, Update!Fetched(c, reached)
      PROVE  NewestFile'
  <2>1. /\ hook \in [Hook -> HookState] /\ lookups \subseteq LookupState
        /\ Update!Latest \in published /\ Update!Latest # None
        /\ \A w \in published \ {Update!Latest} : Update!Newer(Update!Latest, w)
    BY LatestIsNewest
       DEF ReleasesNumbered, Update!TypeOK, HookState, Phases, LookupState, Update!Versions0
  <2> HIDE DEF Update!TypeOK, Update!Phase, Update!Found, DownloadState
  <2>2. /\ c \in LookupState /\ c.at = "fetch"
        /\ UNCHANGED <<published, installed, apk, downloads, installs, updaterCauses,
                       updaterChecks>>
    BY <1>8, FetchMoves
  <2>3. CASE lookups' = lookups \ {c} /\ UNCHANGED hook /\ ~hook[c.by].mounted
    BY <1>0, <1>8, <2>1, <2>2, <2>3 DEF LookupState
  <2>4. CASE lookups' = lookups \ {c} /\ At(c.by, "upToDate", None, FALSE)
    BY <1>0, <1>8, <2>1, <2>2, <2>4 DEF At, HookState, LookupState
  <2>5. ASSUME UNCHANGED hook, Update!Newer(Update!Latest, installed),
               NEW e \in LookupState, lookups' = (lookups \ {c}) \cup {e},
               e.by = c.by, e.at = "read", e.of = Update!Latest
        PROVE  NewestFile'
    BY <1>0, <1>8, <2>1, <2>2, <2>5 DEF LookupState
  <2> QED BY <1>8, <2>3, <2>4, <2>5, FetchMoves
<1>9. ASSUME NEW c \in lookups, Update!CheckReads(c) PROVE NewestFile'
  BY <1>0, <1>9, ReadMoves DEF LookupState
<1>10. ASSUME NEW c \in lookups, Update!CheckDecides(c) PROVE NewestFile'
  <2>1. /\ hook \in [Hook -> HookState] /\ downloads \subseteq DownloadState
        /\ lookups \subseteq LookupState
    BY DEF Update!TypeOK, HookState, Phases, LookupState, DownloadState, Update!Versions0
  <2> HIDE DEF Update!TypeOK, Update!Phase, Update!Found, DownloadState
  <2>2. /\ c \in LookupState /\ c.at = "decide" /\ c.of \in Releases \ {None}
        /\ lookups' = lookups \ {c}
        /\ UNCHANGED <<published, installed, apk, installs, updaterCauses, updaterChecks>>
    BY <1>10, DecideMoves DEF ReleasesNumbered
  <2>3. CASE c.have /\ At(c.by, "ready", c.of, TRUE) /\ UNCHANGED downloads
    BY <1>0, <1>10, <2>1, <2>2, <2>3 DEF At, HookState, LookupState
  <2>4. CASE At(c.by, "available", c.of, FALSE) /\ UNCHANGED downloads
    BY <1>0, <1>10, <2>1, <2>2, <2>4 DEF At, HookState, LookupState
  <2>5. ASSUME At(c.by, "downloading", c.of, FALSE), NEW f \in DownloadState,
               downloads' = downloads \cup {f},
               f.by = c.by, f.of = c.of, f.at = "read", ~f.linked
        PROVE  NewestFile'
    BY <1>0, <1>10, <2>1, <2>2, <2>5 DEF At, HookState, LookupState
  <2> QED BY <1>10, <2>3, <2>4, <2>5, DecideMoves
<1>11. ASSUME NEW d \in downloads, Update!DownloadReads(d) PROVE NewestFile'
  <2>1. PICK a \in {"have", "lack"} :
          /\ Update!Move(d, a)
          /\ a = "have" => apk[d.of] = "done"
          /\ a = "lack" /\ d.of \in Sized => apk[d.of] # "done"
    BY <1>11 DEF Update!DownloadReads, Update!isUpdateDownloaded
  <2>2. PICK f : /\ downloads' = {f} /\ f.by = d.by /\ f.of = d.of
                 /\ f.at = a /\ f.linked = d.linked
    BY <1>0, <2>1, Alone
  <2>3. UNCHANGED <<hook, lookups, apk, installs, published>>
    BY <1>11 DEF Update!DownloadReads
  <2> QED BY <1>0, <2>1, <2>2, <2>3
<1>12. ASSUME NEW d \in downloads, Update!DownloadHas(d) PROVE NewestFile'
  <2>1. downloads = {d} /\ d \in DownloadState
    BY <1>0, Alone
  <2>2. downloads' = {} /\ d.at = "have"
    BY <1>12, <2>1 DEF Update!DownloadHas
  <2>3. At(d.by, "ready", d.of, TRUE)
    BY <1>12, PhaseMoves DEF Update!DownloadHas, Phases, Update!Versions0
  <2>4. UNCHANGED <<apk, lookups, installs, published>>
    BY <1>12 DEF Update!DownloadHas
  <2> QED BY <1>0, <2>1, <2>2, <2>3, <2>4 DEF At
<1>13. ASSUME NEW d \in downloads, Update!DownloadStarts(d) PROVE NewestFile'
  <2>1. downloads = {d} /\ d \in DownloadState
    BY <1>0, Alone
  <2>2. PICK f : /\ downloads' = {f} /\ f.by = d.by /\ f.of = d.of
                 /\ f.at = "fetch" /\ f.linked
    BY <1>0, <1>13, Alone
  <2>3. apk' = [apk EXCEPT ![d.of] = "part"] /\ d.at = "lack"
    BY <1>13 DEF Update!DownloadStarts
  <2>4. UNCHANGED <<hook, lookups, installs, published>>
    BY <1>13 DEF Update!DownloadStarts
  <2> QED BY <1>0, <2>1, <2>2, <2>3, <2>4
<1>14. ASSUME NEW d \in downloads, Update!DownloadFails(d) PROVE NewestFile'
  <2>1. downloads = {d} /\ d \in DownloadState
    BY <1>0, Alone
  <2>2. downloads' = {}
    BY <1>14, <2>1 DEF Update!DownloadFails
  <2>3. At(d.by, "failed", d.of, FALSE)
    BY <1>14, PhaseMoves DEF Update!DownloadFails, Phases, Update!Versions0
  <2>4. UNCHANGED <<apk, lookups, installs, published>>
    BY <1>14 DEF Update!DownloadFails
  <2> QED BY <1>0, <2>1, <2>2, <2>3, <2>4 DEF At
<1>15. ASSUME NEW d \in downloads, Update!DownloadPrunes(d) PROVE NewestFile'
  <2>1. downloads = {d} /\ d \in DownloadState
    BY <1>0, Alone
  <2>2. downloads' = {}
    BY <1>0, <1>15, Alone
  <2>3. At(d.by, "ready", d.of, FALSE)
    BY <1>15, PhaseMoves DEF Update!DownloadPrunes, Phases, Update!Versions0
  <2>4. /\ apk' = [w \in Releases |-> IF w = d.of THEN apk[w] ELSE "none"]
        /\ d.at = "prune" /\ UNCHANGED <<lookups, installs, published>>
    BY <1>15 DEF Update!DownloadPrunes, Update!Pruned
  <2> QED BY <1>0, <2>1, <2>2, <2>3, <2>4 DEF At
<1>16. ASSUME NEW d \in downloads, NEW how \in {"done", "short"}, Update!DownloadArrives(d, how)
       PROVE  NewestFile'
  <2>1. downloads = {d} /\ d \in DownloadState
    BY <1>0, Alone
  <2>2. Update!Move(d, "prune") /\ d.at = "fetch"
    BY <1>16 DEF Update!DownloadArrives
  <2>3. PICK f : /\ downloads' = {f} /\ f.by = d.by /\ f.of = d.of
                 /\ f.at = "prune" /\ f.linked = d.linked
    BY <1>0, <2>2, Alone
  <2>4. apk' = IF d.linked THEN [apk EXCEPT ![d.of] = how] ELSE apk
    BY <1>16 DEF Update!DownloadArrives, Update!Written
  <2>5. UNCHANGED <<hook, lookups, installs, published>>
    BY <1>16 DEF Update!DownloadArrives
  <2> QED BY <1>0, <2>1, <2>2, <2>3, <2>4, <2>5
<1>17. ASSUME NEW i \in installs, Update!InstallFails(i) PROVE NewestFile'
  <2>1. hook[i.by].phase = "ready" /\ hook[i.by].of = i.of
    BY <1>0, <1>17 DEF Update!InstallFails, Calm
  <2>2. At(i.by, "failed", i.of, FALSE)
    BY <1>17, PhaseMoves DEF Update!InstallFails, Phases, Update!Versions0
  <2>3. UNCHANGED <<apk, lookups, downloads, published>> /\ installs' = installs \ {i}
    BY <1>17 DEF Update!InstallFails
  <2> QED BY <1>0, <2>1, <2>2, <2>3 DEF At
<1>18. ASSUME NEW i \in installs, Update!InstallDeclined(i) PROVE NewestFile'
  BY <1>0, <1>18 DEF Update!InstallDeclined
<1>19. ASSUME NEW i \in installs, Update!InstallDone(i) PROVE NewestFile'
  BY <1>0, <1>19 DEF Update!InstallDone, Update!Ended
<1> QED
  BY <1>1, <1>2, <1>3, <1>4, <1>5, <1>6, <1>7, <1>8, <1>9, <1>10, <1>11, <1>12, <1>13, <1>14,
     <1>15, <1>16, <1>17, <1>18, <1>19
  DEF Update!Next, Update!CheckSteps, Update!DownloadSteps

LEMMA UpdateStep ==
  ASSUME ReleasesNumbered, UpdateInv, [Update!Next]_(Update!vars)
  PROVE  UpdateInv'
<1>1. CASE Update!Next
  <2> USE <1>1 DEF UpdateInv
  <2>1. Update!TypeOK'
    BY UpdateTyped
  <2>2. HasNewest'
    BY UpdateNewest
  <2>3. OneScreen'
    BY UpdateScreen
  <2>4. Update!BusyMeansWork'
    BY UpdateBusy
  <2>5. Aimed'
    BY UpdateAimed
  <2>6. OneWork'
    BY UpdateWork
  <2>7. OnDisk'
    BY UpdateDisk
  <2>8. OfPublished'
    BY UpdateFiles
  <2>9. NewestFile'
    BY UpdateFile
  <2> QED BY <2>1, <2>2, <2>3, <2>4, <2>5, <2>6, <2>7, <2>8, <2>9
<1>2. CASE UNCHANGED Update!vars
  <2>1. UNCHANGED <<published, installed, apk, hook, lookups, downloads, installs, updaterCauses,
                    updaterChecks>>
    BY <1>2 DEF Update!vars, Update!files, Update!bounds
  <2>2. Update!TypeOK' /\ HasNewest' /\ OneScreen' /\ Update!BusyMeansWork'
    BY <2>1 DEF UpdateInv, Update!TypeOK, HasNewest, OneScreen,
                Update!BusyMeansWork, Update!Alive
  <2>3. Aimed' /\ OneWork'
    BY <2>1 DEF UpdateInv, Aimed, OneWork, Calm
  <2>4. OnDisk' /\ OfPublished' /\ NewestFile'
    BY <2>1 DEF UpdateInv, OnDisk, OfPublished, NewestFile, Calm
  <2> QED BY <2>2, <2>3, <2>4 DEF UpdateInv
<1> QED BY <1>1, <1>2

LEMMA UpdateStarts ==
  ASSUME Update!Init
  PROVE  UpdateInv
<1>1. Update!TypeOK
  BY DEF Update!Init, Update!TypeOK, Update!NoHook, Update!Versions0
<1>2. HasNewest
  BY DEF Update!Init, HasNewest
<1>3. OneScreen /\ Update!BusyMeansWork /\ Aimed
  BY DEF Update!Init, OneScreen, Update!BusyMeansWork, Update!Alive, Aimed,
         Update!NoHook
<1>4. OneWork /\ OnDisk
  BY DEF Update!Init, OneWork, OnDisk, Update!NoHook
<1>5. OfPublished /\ NewestFile
  BY DEF Update!Init, OfPublished, NewestFile, Update!NoHook
<1> QED BY <1>1, <1>2, <1>3, <1>4, <1>5 DEF UpdateInv

LEMMA UpdateHonest ==
  ASSUME ReleasesNumbered, UpdateInv
  PROVE  Update!UpdaterHonest
<1> USE DEF UpdateInv
<1>1. Update!ReadyIsOnDisk
  BY DEF OnDisk, Calm, Update!ReadyIsOnDisk, Update!Alive
<1>2. Update!OfferedCanBeInstalled
  <2>1. SUFFICES ASSUME NEW h \in Update!Alive, Update!badgeFor(h) # "none"
                 PROVE  Update!versionCode(hook[h].of) > Update!versionCode(installed)
    BY DEF Update!OfferedCanBeInstalled
  <2>2. hook[h].of \in Releases /\ installed \in Releases
    BY <2>1 DEF Update!badgeFor, Update!Alive, Update!TypeOK, Update!Versions0, Aimed
  <2>3. Update!Newer(hook[h].of, installed)
    BY <2>1, <2>2 DEF Update!Alive, Aimed, ReleasesNumbered
  <2> QED BY <2>2, <2>3, CodesOrder
<1> QED BY <1>1, <1>2 DEF Update!UpdaterHonest

\* A finished file goes only for a newer one that is there (updater.ts).
LEMMA UpdateKeeps ==
  ASSUME UpdateInv, [Update!Next]_(Update!vars)
  PROVE  Update!KeepsFinished
<1>1. SUFFICES ASSUME NEW v \in Releases, apk[v] = "done", apk'[v] # "done",
                      updaterCauses' = {}
               PROVE  \E w \in Releases :
                        Update!Newer(w, v) /\ apk[w] \in {"done", "short"}
  BY DEF Update!KeepsFinished
<1>2. Update!Next
  BY <1>1 DEF Update!vars, Update!files
<1>3. Calm'
  BY <1>1 DEF Calm
<1>4. Calm
  BY <1>2, <1>3, CalmBefore, SMTT(60)
<1>5. PICK d \in downloads :
        \/ Update!DownloadStarts(d) \/ Update!DownloadPrunes(d)
        \/ \E how \in {"done", "short"} : Update!DownloadArrives(d, how)
  BY <1>1, <1>2, ZenonT(60) DEF Update!Next, Update!Publish, Update!Kill, Update!Ended,
     Update!Mount,
         Update!Unmount, Update!CheckPressed, Update!DownloadPressed,
         Update!InstallPressed, Update!CheckSteps, Update!Fetched,
         Update!CheckReads, Update!CheckDecides, Update!DownloadSteps,
         Update!DownloadReads, Update!DownloadHas, Update!DownloadFails,
         Update!InstallFails, Update!InstallDeclined, Update!InstallDone,
         Update!files
<1>6. d.of \in Releases /\ apk \in [Releases -> {"none", "part", "short", "done"}]
  BY DEF UpdateInv, Update!TypeOK
<1>7. CASE Update!DownloadStarts(d)
  <2>1. apk' = [apk EXCEPT ![d.of] = "part"] /\ d.at = "lack"
    BY <1>7 DEF Update!DownloadStarts
  <2>2. d.of \in Sized
    BY <1>1, <1>7 DEF Update!DownloadStarts
  <2>3. apk[d.of] # "done"
    BY <1>4, <2>1, <2>2 DEF UpdateInv, OnDisk
  <2> QED BY <1>1, <1>6, <2>1, <2>3
<1>8. CASE \E how \in {"done", "short"} : Update!DownloadArrives(d, how)
  <2>1. \A w \in Releases : w # d.of => apk'[w] = apk[w]
    BY <1>6, <1>8 DEF Update!DownloadArrives, Update!Written
  <2>2. apk[d.of] = "part"
    BY <1>4, <1>8 DEF Update!DownloadArrives, UpdateInv, OnDisk
  <2> QED BY <1>1, <2>1, <2>2
<1>9. CASE Update!DownloadPrunes(d)
  <2>1. apk' = [w \in Releases |-> IF w = d.of THEN apk[w] ELSE "none"] /\ d.at = "prune"
    BY <1>9 DEF Update!DownloadPrunes, Update!Pruned
  <2>2. v # d.of
    BY <1>1, <2>1
  <2>3. Update!Newer(d.of, v)
    BY <1>1, <1>4, <2>2 DEF UpdateInv, NewestFile
  <2>4. apk[d.of] \in {"done", "short"}
    BY <1>4, <2>1 DEF UpdateInv, OnDisk
  <2> QED BY <1>6, <2>3, <2>4
<1> QED BY <1>5, <1>7, <1>8, <1>9

LEMMA UpdateAlone ==
  ASSUME ReleasesNumbered
  PROVE  Update!Spec => []UpdateInv
<1>1. Update!Init => UpdateInv
  BY UpdateStarts
<1>2. UpdateInv /\ [Update!Next]_(Update!vars) => UpdateInv'
  BY UpdateStep
<1> QED BY <1>1, <1>2, PTL DEF Update!Spec

------------------------------------------------------------------------------
(* The phone's screen *)

Lefts == {<<"accessibility", "listener">>, <<"listener">>, <<>>}
Looks == [left : Lefts, got : SUBSET Screen!Service, dying : BOOLEAN]

ScreenTyping ==
  /\ screenChecks \in Seq(Looks)
  /\ switched \subseteq Screen!Service /\ screenShown \subseteq Screen!Service
  /\ foreground \in BOOLEAN /\ dying \in BOOLEAN
  /\ sentTimers \in Nat /\ toasts \in Nat

\* What a check has looked at.
LookedAt(c) == {s \in Screen!Service : \A k \in DOMAIN c.left : c.left[k] # s}

\* A check has seen what is switched on, or an object that was about to go.
SawTruly(c) == c.dying \/ c.got = switched \cap LookedAt(c)

\* The check that began last has looked at nothing before the app came back, and no
\* switch moves while the app is there.
LastCheckTrue ==
  foreground =>
    IF screenChecks = <<>> THEN dying \/ screenShown = switched
                           ELSE SawTruly(screenChecks[Len(screenChecks)])

\* The toast on show is the latest, with its timer.
ToastIsLast == toast \in {0, toasts} /\ Screen!ToastStays

ScreenInv == ScreenTyping /\ LastCheckTrue /\ ToastIsLast /\ Screen!SentMarkGoes

LEMMA FirstLooked ==
  ASSUME NEW c, c.left = <<"listener">>
  PROVE  LookedAt(c) = {"accessibility"}
BY DEF LookedAt, Screen!Service, Screen!Accessibility, Screen!Listener

\* A check looks at one service after the other.
LEMMA LooksOn ==
  ASSUME NEW c \in Looks, c.left # <<>>, switched \subseteq Screen!Service, NEW d \in Looks,
         d.left = Tail(c.left),
         d.got = IF Screen!Enabled(Head(c.left)) THEN c.got \cup {Head(c.left)} ELSE c.got,
         d.dying = (c.dying \/ Head(c.left) \in alive \ switched)
  PROVE  SawTruly(c) => SawTruly(d)
<1> USE DEF Screen!Service, Screen!Accessibility, Screen!Listener
<1>1. CASE c.left = <<"accessibility", "listener">>
  <2>1. Head(c.left) = "accessibility" /\ Tail(c.left) = <<"listener">>
    BY <1>1
  <2>2. LookedAt(c) = {}
    BY <1>1 DEF LookedAt
  <2>3. LookedAt(d) = {"accessibility"}
    BY <2>1, FirstLooked
  <2> QED BY <2>1, <2>2, <2>3 DEF SawTruly, Screen!Enabled
<1>2. CASE c.left = <<"listener">>
  <2>1. Head(c.left) = "listener" /\ Tail(c.left) = <<>>
    BY <1>2
  <2>2. LookedAt(c) = {"accessibility"}
    BY <1>2 DEF LookedAt
  <2>3. LookedAt(d) = {"accessibility", "listener"}
    BY <2>1 DEF LookedAt
  <2> QED BY <2>1, <2>2, <2>3 DEF SawTruly, Screen!Enabled
<1> QED BY <1>1, <1>2 DEF Looks, Lefts

\* What moves neither a switch nor a check nor what is shown keeps them true.
LEMMA ScreenStays ==
  ASSUME ScreenInv, UNCHANGED <<screenChecks, screenShown, switched, foreground, dying>>,
         sentTimers' \in Nat, toasts' \in Nat, ToastIsLast', Screen!SentMarkGoes'
  PROVE  ScreenInv'
BY DEF ScreenInv, ScreenTyping, LastCheckTrue, SawTruly, LookedAt

\* A toast takes the place of the one before.
LEMMA ToastsFollow ==
  ASSUME toasts \in Nat, ToastIsLast, Screen!ShowToast
  PROVE  toasts' \in Nat /\ ToastIsLast'
BY DEF ToastIsLast, Screen!ToastStays, Screen!ShowToast

\* What the screen says is so: of services, toasts and what was sent (App.tsx).
LEMMA ScreenAlone == Screen!Spec => []Screen!ScreenHonest
<1> USE DEF Screen!services, Screen!nudge, Screen!mark, Screen!message
<1>1. Screen!Init => ScreenInv
  <2> SUFFICES ASSUME Screen!Init PROVE ScreenInv
    OBVIOUS
  <2>1. Screen!Check \in Looks
    BY DEF Screen!Check, Screen!Accessibility, Screen!Listener, Looks, Lefts, Screen!Service
  <2>2. screenChecks = <<Screen!Check>> /\ Len(screenChecks) = 1 /\ screenChecks \in Seq(Looks)
    BY <2>1 DEF Screen!Init
  <2>3. Screen!Check.got = {} /\ LookedAt(Screen!Check) = {}
    BY DEF Screen!Check, Screen!Accessibility, Screen!Listener, LookedAt, Screen!Service
  <2>4. LastCheckTrue
    BY <2>2, <2>3 DEF LastCheckTrue, SawTruly
  <2>5. ScreenTyping
    BY <2>2 DEF ScreenTyping, Screen!Init
  <2>6. ToastIsLast /\ Screen!SentMarkGoes
    BY DEF Screen!Init, ToastIsLast, Screen!ToastStays, Screen!SentMarkGoes
  <2> QED BY <2>4, <2>5, <2>6 DEF ScreenInv
<1>2. ScreenInv /\ [Screen!Next]_(Screen!vars) => ScreenInv'
  <2> SUFFICES ASSUME ScreenInv, [Screen!Next]_(Screen!vars) PROVE ScreenInv'
    OBVIOUS
  <2>0. ScreenTyping /\ LastCheckTrue /\ ToastIsLast /\ Screen!SentMarkGoes
    BY DEF ScreenInv
  <2>1. ASSUME NEW s \in Screen!Service, Screen!Toggle(s) PROVE ScreenInv'
    <3>1. ScreenTyping' /\ LastCheckTrue'
      BY <2>0, <2>1 DEF Screen!Toggle, ScreenTyping, LastCheckTrue
    <3> QED BY <2>0, <2>1, <3>1
            DEF Screen!Toggle, ScreenInv, ToastIsLast, Screen!ToastStays, Screen!SentMarkGoes
  <2>2. ASSUME NEW s \in Screen!Service, Screen!ServiceFollows(s) PROVE ScreenInv'
    BY <2>0, <2>2, ScreenStays
       DEF Screen!ServiceFollows, ToastIsLast, Screen!ToastStays, Screen!SentMarkGoes,
           ScreenTyping
  <2>3. CASE Screen!Leaves
    <3>1. ScreenTyping' /\ LastCheckTrue'
      BY <2>0, <2>3 DEF Screen!Leaves, ScreenTyping, LastCheckTrue
    <3> QED BY <2>0, <2>3, <3>1
            DEF Screen!Leaves, ScreenInv, ToastIsLast, Screen!ToastStays, Screen!SentMarkGoes
  <2>4. CASE Screen!Comes
    <3>1. Screen!Check \in Looks
      BY DEF Screen!Check, Screen!Accessibility, Screen!Listener, Looks, Lefts, Screen!Service
    <3>2. Screen!Check.got = {} /\ LookedAt(Screen!Check) = {}
      BY DEF Screen!Check, Screen!Accessibility, Screen!Listener, LookedAt, Screen!Service
    <3>3. /\ screenChecks' \in Seq(Looks) /\ screenChecks' # <<>>
          /\ screenChecks'[Len(screenChecks')] = Screen!Check
      <4>1. screenChecks' = Append(screenChecks, Screen!Check) /\ screenChecks \in Seq(Looks)
        BY <2>0, <2>4 DEF Screen!Comes, ScreenTyping
      <4> QED BY <3>1, <4>1, AppendProperties
    <3>4. SawTruly(Screen!Check)'
      BY <3>2 DEF SawTruly, LookedAt
    <3>5. LastCheckTrue'
      BY <3>3, <3>4 DEF LastCheckTrue, SawTruly, LookedAt
    <3>6. ScreenTyping'
      BY <2>0, <2>4, <3>3 DEF Screen!Comes, ScreenTyping
    <3> QED BY <2>0, <2>4, <3>5, <3>6
            DEF Screen!Comes, ScreenInv, ToastIsLast, Screen!ToastStays, Screen!SentMarkGoes
  <2>5. CASE Screen!ReadsService
    <3>1. PICK i \in DOMAIN screenChecks :
            /\ screenChecks[i].left # <<>>
            /\ screenChecks' = [screenChecks EXCEPT
                 ![i].left = Tail(@),
                 ![i].got = IF Screen!Enabled(Head(screenChecks[i].left))
                            THEN @ \cup {Head(screenChecks[i].left)} ELSE @,
                 ![i].dying = @ \/ Head(screenChecks[i].left) \in alive \ switched]
      BY <2>5 DEF Screen!ReadsService
    <3> DEFINE c == screenChecks[i]
               d == screenChecks'[i]
    <3>2. screenChecks \in Seq(Looks) /\ c \in Looks
      BY <2>0 DEF ScreenTyping
    <3>3. /\ c.left \in Lefts /\ c.got \in SUBSET Screen!Service /\ c.dying \in BOOLEAN
          /\ c = [left |-> c.left, got |-> c.got, dying |-> c.dying]
      BY <3>2 DEF Looks
    <3>4. /\ d.left = Tail(c.left)
          /\ d.got = IF Screen!Enabled(Head(c.left)) THEN c.got \cup {Head(c.left)} ELSE c.got
          /\ d.dying = (c.dying \/ Head(c.left) \in alive \ switched)
          /\ d = [left |-> d.left, got |-> d.got, dying |-> d.dying]
      BY <3>1, <3>2, <3>3
    <3>5. Head(c.left) \in Screen!Service /\ Tail(c.left) \in Lefts
      <4> USE DEF Screen!Service, Screen!Accessibility, Screen!Listener
      <4>1. CASE c.left = <<"accessibility", "listener">>
        <5>1. Head(c.left) = "accessibility" /\ Tail(c.left) = <<"listener">>
          BY <4>1
        <5> QED BY <5>1 DEF Lefts
      <4>2. CASE c.left = <<"listener">>
        <5>1. Head(c.left) = "listener" /\ Tail(c.left) = <<>>
          BY <4>2
        <5> QED BY <5>1 DEF Lefts
      <4> QED BY <3>1, <3>3, <4>1, <4>2 DEF Lefts
    <3>6. d \in Looks
      BY <3>3, <3>4, <3>5 DEF Looks
    <3>7. /\ screenChecks' \in Seq(Looks) /\ Len(screenChecks') = Len(screenChecks)
          /\ screenChecks' # <<>> /\ screenChecks # <<>>
          /\ \A k \in DOMAIN screenChecks : k # i => screenChecks'[k] = screenChecks[k]
      <4>1. screenChecks' = [screenChecks EXCEPT ![i] = d]
        BY <3>1, <3>2
      <4>2. /\ Len(screenChecks) \in Nat /\ i \in 1 .. Len(screenChecks)
            /\ DOMAIN screenChecks' = DOMAIN screenChecks
        BY <3>2, <4>1
      <4> HIDE DEF d, c
      <4> QED BY <3>2, <3>6, <4>1, <4>2
    <3>8. SawTruly(c) => SawTruly(d)
      <4> HIDE DEF d
      <4> QED BY <2>0, <3>1, <3>2, <3>4, <3>6, LooksOn DEF ScreenTyping
    <3>9. UNCHANGED <<switched, foreground, dying, screenShown>>
      BY <2>5 DEF Screen!ReadsService
    <3>10. foreground => SawTruly(screenChecks[Len(screenChecks)])
      BY <2>0, <3>7 DEF LastCheckTrue
    <3>11. foreground => SawTruly(screenChecks'[Len(screenChecks)])
      <4>1. Len(screenChecks) \in DOMAIN screenChecks
        BY <3>2, <3>7
      <4> QED BY <3>7, <3>8, <3>10, <4>1
    <3>12. LastCheckTrue'
      BY <3>7, <3>9, <3>11 DEF LastCheckTrue, SawTruly, LookedAt
    <3>13. ScreenTyping'
      BY <2>0, <2>5, <3>7, <3>9 DEF Screen!ReadsService, ScreenTyping
    <3> QED BY <2>0, <2>5, <3>12, <3>13
            DEF Screen!ReadsService, ScreenInv, ToastIsLast, Screen!ToastStays,
                Screen!SentMarkGoes
  <2>6. CASE Screen!Checked
    <3> DEFINE c == Head(screenChecks)
    <3>1. screenChecks \in Seq(Looks) /\ screenChecks # <<>> /\ screenChecks' = Tail(screenChecks)
      BY <2>0, <2>6 DEF Screen!Checked, ScreenTyping
    <3>2. /\ c \in Looks /\ c = screenChecks[1] /\ screenChecks' \in Seq(Looks)
          /\ Len(screenChecks') = Len(screenChecks) - 1 /\ Len(screenChecks) \in Nat \ {0}
          /\ screenChecks' # <<>> =>
               screenChecks'[Len(screenChecks')] = screenChecks[Len(screenChecks)]
      BY <3>1, HeadTailProperties
    <3>3. /\ c.left = <<>> /\ screenShown' = c.got /\ dying' = c.dying
          /\ UNCHANGED <<switched, foreground>>
      BY <2>6 DEF Screen!Checked
    <3>4. c.got \subseteq Screen!Service /\ c.dying \in BOOLEAN
      BY <3>2 DEF Looks
    <3>5. LookedAt(c) = Screen!Service
      BY <3>3 DEF LookedAt
    <3> HIDE DEF c
    <3>6. ScreenTyping'
      BY <2>0, <2>6, <3>2, <3>3, <3>4 DEF Screen!Checked, ScreenTyping
    <3>7. CASE screenChecks' = <<>>
      <4>1. Len(screenChecks) = 1
        BY <3>2, <3>7
      <4>2. foreground => SawTruly(c)
        BY <2>0, <3>1, <3>2, <4>1 DEF LastCheckTrue
      <4>3. LastCheckTrue'
        BY <2>0, <3>3, <3>5, <3>7, <4>2 DEF LastCheckTrue, SawTruly, ScreenTyping
      <4> QED BY <2>0, <2>6, <3>6, <4>3
              DEF Screen!Checked, ScreenInv, ToastIsLast, Screen!ToastStays, Screen!SentMarkGoes
    <3>8. CASE screenChecks' # <<>>
      <4>1. LastCheckTrue'
        BY <2>0, <3>1, <3>2, <3>3, <3>8 DEF LastCheckTrue, SawTruly, LookedAt
      <4> QED BY <2>0, <2>6, <3>6, <4>1
              DEF Screen!Checked, ScreenInv, ToastIsLast, Screen!ToastStays, Screen!SentMarkGoes
    <3> QED BY <3>7, <3>8
  <2>7. ASSUME NEW n \in toastTimers, Screen!ToastExpires(n) PROVE ScreenInv'
    <3>1. ToastIsLast' /\ toasts' \in Nat /\ Screen!SentMarkGoes' /\ sentTimers' \in Nat
      BY <2>0, <2>7 DEF Screen!ToastExpires, ToastIsLast, Screen!ToastStays, ScreenTyping,
                        Screen!SentMarkGoes
    <3> QED BY <2>7, <3>1, ScreenStays DEF Screen!ToastExpires
  <2>8. CASE Screen!SendPressed
    BY <2>0, <2>8, ScreenStays
       DEF Screen!SendPressed, ToastIsLast, Screen!ToastStays, Screen!SentMarkGoes, ScreenTyping
  <2>9. CASE Screen!ClipboardRead
    <3>1. ToastIsLast' /\ toasts' \in Nat
      BY <2>0, <2>9, ToastsFollow DEF Screen!ClipboardRead, ScreenTyping
    <3>2. Screen!SentMarkGoes' /\ sentTimers' \in Nat
      BY <2>0, <2>9 DEF Screen!ClipboardRead, ScreenTyping, Screen!SentMarkGoes
    <3> QED BY <2>9, <3>1, <3>2, ScreenStays DEF Screen!ClipboardRead
  <2>10. CASE Screen!SentMarkExpires
    <3>1. Screen!SentMarkGoes' /\ sentTimers' \in Nat
      BY <2>0, <2>10 DEF Screen!SentMarkExpires, ScreenTyping, Screen!SentMarkGoes
    <3>2. ToastIsLast' /\ toasts' \in Nat
      BY <2>0, <2>10 DEF Screen!SentMarkExpires, ScreenTyping, ToastIsLast, Screen!ToastStays
    <3> QED BY <2>10, <3>1, <3>2, ScreenStays DEF Screen!SentMarkExpires
  <2>11. ASSUME NEW kind, Screen!Received(kind) PROVE ScreenInv'
    <3>1. ToastIsLast' /\ toasts' \in Nat
      BY <2>0, <2>11, ToastsFollow DEF Screen!Received, ScreenTyping
    <3>2. Screen!SentMarkGoes' /\ sentTimers' \in Nat
      BY <2>0, <2>11 DEF Screen!Received, ScreenTyping, Screen!SentMarkGoes
    <3> QED BY <2>11, <3>1, <3>2, ScreenStays DEF Screen!Received
  <2>12. ASSUME NEW i, Screen!RowPressed(i) PROVE ScreenInv'
    <3>1. ToastIsLast' /\ toasts' \in Nat
      <4>1. CASE Screen!ShowToast
        BY <2>0, <4>1, ToastsFollow DEF ScreenTyping
      <4>2. CASE UNCHANGED <<toast, toastTimers, toasts>>
        BY <2>0, <4>2 DEF ScreenTyping, ToastIsLast, Screen!ToastStays
      <4> QED BY <2>12, <4>1, <4>2 DEF Screen!RowPressed
    <3>2. Screen!SentMarkGoes' /\ sentTimers' \in Nat
      BY <2>0, <2>12 DEF Screen!RowPressed, ScreenTyping, Screen!SentMarkGoes
    <3> QED BY <2>12, <3>1, <3>2, ScreenStays DEF Screen!RowPressed
  <2>13. CASE Screen!Pair \/ Screen!Unpair
    BY <2>0, <2>13, ScreenStays
       DEF Screen!Pair, Screen!Unpair, ToastIsLast, Screen!ToastStays, Screen!SentMarkGoes,
           ScreenTyping
  <2>14. CASE UNCHANGED Screen!vars
    BY <2>0, <2>14, ScreenStays
       DEF Screen!vars, ToastIsLast, Screen!ToastStays, Screen!SentMarkGoes, ScreenTyping
  <2> QED BY <2>1, <2>2, <2>3, <2>4, <2>5, <2>6, <2>7, <2>8, <2>9, <2>10, <2>11, <2>12, <2>13,
             <2>14 DEF Screen!Next, Screen!EnablePressed
<1>3. ScreenInv => Screen!ScreenHonest
  <2> SUFFICES ASSUME ScreenInv PROVE Screen!ScreenHonest
    OBVIOUS
  <2>1. foreground /\ screenChecks = <<>> /\ ~dying => screenShown = switched
    BY DEF ScreenInv, LastCheckTrue
  <2>2. Screen!NudgesTrue
    BY <2>1 DEF Screen!NudgesTrue, Screen!Nudged
  <2> QED BY <2>2 DEF ScreenInv, ToastIsLast, Screen!ScreenHonest
<1> QED BY <1>1, <1>2, <1>3, PTL DEF Screen!Spec

------------------------------------------------------------------------------
(* Side by side *)

\* A behaviour is one of the component it begins as.
LEMMA OneComponent ==
  ASSUME [PhoneNext]_phoneVars
  PROVE  /\ part' = part
         /\ part = "app" => [App!Next]_(App!vars)
         /\ part = "service" => [Service!Next]_(Service!vars)
         /\ part = "images" => [Images!Next]_(Images!vars)
         /\ part = "share" => [Sharing!Next]_(Sharing!vars)
         /\ part = "notes" => [Notes!Next]_(Notes!vars)
         /\ part = "updater" => [Update!Next]_(Update!vars)
         /\ part = "screen" => [Screen!Next]_(Screen!vars)
<1>1. CASE UNCHANGED phoneVars
  <2>1. /\ UNCHANGED <<part, AppVars, ServiceVars, ImagesVars, SharingVars>>
        /\ UNCHANGED <<NotesVars, UpdateVars, ScreenVars>>
    BY <1>1 DEF phoneVars
  <2>2. UNCHANGED App!vars
    BY <2>1 DEF AppVars, App!vars, App!stored, App!pairing, App!views, App!camera, App!link,
                App!bounds
  <2>3. UNCHANGED Service!vars
    BY <2>1 DEF ServiceVars, Service!vars, Service!calls
  <2>4. UNCHANGED Images!vars
    BY <2>1 DEF ImagesVars, Images!vars, Images!native, Images!bounds
  <2>5. UNCHANGED Sharing!vars
    BY <2>1 DEF SharingVars, Sharing!vars, Sharing!bounds
  <2>6. UNCHANGED Notes!vars
    BY <2>1 DEF NotesVars, Notes!vars
  <2>7. UNCHANGED Update!vars
    BY <2>1 DEF UpdateVars, Update!vars, Update!files, Update!bounds
  <2>8. UNCHANGED Screen!vars
    BY <2>1 DEF ScreenVars, Screen!vars, Screen!services, Screen!nudge, Screen!mark,
                Screen!message
  <2> QED BY <2>1, <2>2, <2>3, <2>4, <2>5, <2>6, <2>7, <2>8
<1>2. CASE PhoneNext
  BY <1>2 DEF PhoneNext, PhoneOnly
<1> QED BY <1>1, <1>2

\* The client is that of the pairing shown, what is stored is that pairing until two
\* handlers overlap, and connected means the PC that was scanned, until then or until
\* the first pairing over another or late report of a closed client; the screen asks for
\* the services that are off, and its messages go away in their time (App.tsx).
THEOREM AppShowsItsPairing == PhoneSpec => []PhoneAppSound
<1>1. /\ PhoneInit /\ part = "app" => App!Init
      /\ PhoneInit /\ part = "screen" => Screen!Init
  BY DEF PhoneInit
<1>2. part = "app" /\ [PhoneNext]_phoneVars => (part = "app")' /\ [App!Next]_(App!vars)
  BY OneComponent
<1>3. ~(part = "app") /\ [PhoneNext]_phoneVars => ~(part = "app")'
  BY OneComponent
<1>4. part = "screen" /\ [PhoneNext]_phoneVars
        => (part = "screen")' /\ [Screen!Next]_(Screen!vars)
  BY OneComponent
<1>5. ~(part = "screen") /\ [PhoneNext]_phoneVars => ~(part = "screen")'
  BY OneComponent
<1>6. App!Spec => []App!PhoneAppSound
  <2>1. NoneApart
    BY PhonePartsAssumption DEF NoneApart, Clients
  <2> QED BY <2>1, AppAlone
<1> QED
  BY <1>1, <1>2, <1>3, <1>4, <1>5, <1>6, ScreenAlone, PTL
  DEF PhoneSpec, App!Spec, Screen!Spec, PhoneAppSound

\* The service runs with the pairing, until a start was refused or a start or stop that
\* fell into another was ignored; its notification says connected only while the app
\* does (backgroundSync.ts).
THEOREM ServiceFollows == PhoneSpec => []ServiceFollowsPairing
<1>1. PhoneInit /\ part = "service" => Service!Init
  BY DEF PhoneInit
<1>2. part = "service" /\ [PhoneNext]_phoneVars
        => (part = "service")' /\ [Service!Next]_(Service!vars)
  BY OneComponent
<1>3. ~(part = "service") /\ [PhoneNext]_phoneVars => ~(part = "service")'
  BY OneComponent
<1> QED BY <1>1, <1>2, <1>3, ServiceAlone, PTL DEF PhoneSpec, Service!Spec,
           ServiceFollowsPairing

\* The listener sends an image once and none of the PC within the grace after a write,
\* the foreground sends none twice in a row, and no copy of them is left (App.tsx).
THEOREM ImagesAreSentOnce == PhoneSpec => []ImagesSentOnce
<1>1. PhoneInit /\ part = "images" => Images!Init
  BY DEF PhoneInit
<1>2. part = "images" /\ [PhoneNext]_phoneVars
        => (part = "images")' /\ [Images!Next]_(Images!vars)
  BY OneComponent
<1>3. ~(part = "images") /\ [PhoneNext]_phoneVars => ~(part = "images")'
  BY OneComponent
<1> QED BY <1>1, <1>2, <1>3, ImagesAlone, PTL DEF PhoneSpec, Images!Spec, ImagesSentOnce

\* A share arrives once, is given up for a reason, or was emitted while nobody listened,
\* and its copy is there till then (ShareModule.kt, App.tsx).
THEOREM SharesAreHonest == PhoneSpec => []ShareHonest
<1>1. PhoneInit /\ part = "share" => Sharing!Init
  BY DEF PhoneInit
<1>2. part = "share" /\ [PhoneNext]_phoneVars
        => (part = "share")' /\ [Sharing!Next]_(Sharing!vars)
  BY OneComponent
<1>3. ~(part = "share") /\ [PhoneNext]_phoneVars => ~(part = "share")'
  BY OneComponent
<1>4. Sharing!Spec => []Sharing!ShareHonest
  <2>1. MaxAttempts \in Nat /\ SharesAreBatches
    BY PhonePartsAssumption DEF SharesAreBatches, Batches, Distinct
  <2> QED BY <2>1, SharesAlone
<1> QED BY <1>1, <1>2, <1>3, <1>4, PTL DEF PhoneSpec, Sharing!Spec, ShareHonest

LEMMA UpdatesNumbered == ReleasesNumbered /\ Numbered \subseteq Nat \ {0}
  BY PhonePartsAssumption DEF ReleasesNumbered

\* The user is told of an update once and truly, what a look at its size found complete
\* is whole, and what is offered can be installed, each but for its named causes
\* (updater.ts, useUpdater.ts, SettingsScreen.tsx).
THEOREM UpdatesAreHonest == PhoneSpec => []UpdatesHonest
<1>1. /\ PhoneInit /\ part = "notes" => Notes!Init
      /\ PhoneInit /\ part = "updater" => Update!Init
  BY DEF PhoneInit
<1>2. part = "notes" /\ [PhoneNext]_phoneVars => (part = "notes")' /\ [Notes!Next]_(Notes!vars)
  BY OneComponent
<1>3. ~(part = "notes") /\ [PhoneNext]_phoneVars => ~(part = "notes")'
  BY OneComponent
<1>4. part = "updater" /\ [PhoneNext]_phoneVars
        => (part = "updater")' /\ [Update!Next]_(Update!vars)
  BY OneComponent
<1>5. ~(part = "updater") /\ [PhoneNext]_phoneVars => ~(part = "updater")'
  BY OneComponent
<1>6. (Notes!Spec => []Notes!NotesHonest) /\ (Update!Spec => []UpdateInv)
  BY UpdatesNumbered, NotesAlone, UpdateAlone
<1>7. UpdateInv => Update!UpdaterHonest
  BY UpdatesNumbered, UpdateHonest
<1> QED
  BY <1>1, <1>2, <1>3, <1>4, <1>5, <1>6, <1>7, PTL
  DEF PhoneSpec, Notes!Spec, Update!Spec, UpdatesHonest

\* A finished download goes only for a newer one that has been fetched, but for the
\* named causes (updater.ts).
THEOREM FinishedIsKept == PhoneSpec => FinishedKept
<1>1. PhoneInit /\ part = "updater" => Update!Init
  BY DEF PhoneInit
<1>2. part = "updater" /\ [PhoneNext]_phoneVars
        => (part = "updater")' /\ [Update!Next]_(Update!vars)
  BY OneComponent
<1>3. ~(part = "updater") /\ [PhoneNext]_phoneVars => ~(part = "updater")'
  BY OneComponent
<1>4. Update!Spec => []UpdateInv
  BY UpdatesNumbered, UpdateAlone
<1>5. UpdateInv /\ [Update!Next]_(Update!vars) => Update!KeepsFinished
  BY UpdateKeeps
<1> QED BY <1>1, <1>2, <1>3, <1>4, <1>5, PTL DEF PhoneSpec, Update!Spec, FinishedKept
=============================================================================
