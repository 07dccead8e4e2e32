---------------------------- MODULE PairingProofs ----------------------------
(***************************************************************************)
(* Proofs about Pairing, for every number of phones, codes and connections *)
(* and every lifetime of a code.  The shape is the same throughout: typing *)
(* first, then one invariant per property, strengthened by what it needs   *)
(* to know of the handshakes in flight and of the settings file.           *)
(***************************************************************************)
EXTENDS Pairing, TLAPS

USE DEF Absent, Never

------------------------------------------------------------------------------
(* Typing *)

\* The two outcomes of remembering a phone and of a save are well typed
\* (Settings::remember and Settings::save).
LEMMA RememberedTyping ==
  ASSUME NEW ds \in SUBSET Device, NEW p \in Phone
  PROVE  Remembered(ds, p) \in SUBSET Device
BY DEF Remembered, Device, DeviceName

\* What save writes has the file's type, or leaves the file alone.
LEMMA SaveTyping ==
  ASSUME TypeOK, NEW ds \in SUBSET Device, NEW o \in Outcome, Save(ds, o)
  PROVE  /\ disk' \in Disk
         /\ faults' \in Nat
BY DEF TypeOK, Save, Saved, Fault, Outcome, Disk

\* Moving a connection to another stage keeps the table of connections typed.
LEMMA GotoTyping ==
  ASSUME TypeOK, NEW c \in Conn, NEW s \in Stages, Goto(c, s)
  PROVE  session' \in [Conn -> Session]
BY DEF TypeOK, Goto, Session

\* Every variable keeps its type under every step of the server
\* (ServerState, server.rs:74-82, and Settings, settings.rs:27-36).
THEOREM Typing == Spec => []TypeOK
<1>1. Init => TypeOK
  BY DEF Init, TypeOK, Disk, Session, Stages
<1>2. TypeOK /\ [Next]_vars => TypeOK'
  <2> SUFFICES ASSUME TypeOK, [Next]_vars PROVE TypeOK'
    OBVIOUS
  <2> USE DEF TypeOK
  <2>1. CASE Tick
    BY <2>1 DEF Tick, history
  <2>2. ASSUME NEW n \in Nonce, IssueNonce(n) PROVE TypeOK'
    BY <2>2, PairingAssumption DEF IssueNonce, Expiry
  <2>3. ASSUME NEW c \in Conn, Accept(c) PROVE TypeOK'
    BY <2>3, GotoTyping DEF Accept, history, Stages
  <2>4. ASSUME NEW c \in Conn, NEW p \in Phone, NEW n \in Nonce, Hello(c, p, n)
        PROVE  TypeOK'
    BY <2>4 DEF Hello, history, Session, Stages
  <2>5. ASSUME NEW c \in Conn, ClaimNonce(c) PROVE TypeOK'
    <3>1. session[c].phone \in Phone /\ session[c].nonce \in Nonce
      BY DEF Session
    <3>2. session' \in [Conn -> Session]
      BY <2>5, GotoTyping DEF ClaimNonce, Stages
    <3> QED BY <2>5, <3>1, <3>2 DEF ClaimNonce, Taken
  <2>6. ASSUME NEW c \in Conn, LookupDevice(c) PROVE TypeOK'
    <3>1. session' \in [Conn -> Session]
      BY <2>6, GotoTyping DEF LookupDevice, Stages
    <3> QED BY <2>6, <3>1 DEF LookupDevice, history
  <2>7. ASSUME NEW c \in Conn, RejectKey(c) PROVE TypeOK'
    BY <2>7, GotoTyping DEF RejectKey, history, Stages
  <2>8. ASSUME NEW c \in Conn, NEW o \in Outcome, RememberDevice(c, o) PROVE TypeOK'
    <3>1. session[c].phone \in Phone
      BY DEF Session
    <3>2. devices' \in SUBSET Device
      BY <2>8, <3>1, RememberedTyping DEF RememberDevice
    <3>3. disk' \in Disk /\ faults' \in Nat
      BY <2>8, <3>2, SaveTyping DEF RememberDevice
    <3>4. session' \in [Conn -> Session]
      BY <2>8, GotoTyping DEF RememberDevice, Stages
    <3> QED BY <2>8, <3>1, <3>2, <3>3, <3>4 DEF RememberDevice
  <2>9. ASSUME NEW c \in Conn, NEW o \in Outcome, TouchDevice(c, o) PROVE TypeOK'
    <3>1. disk' \in Disk /\ faults' \in Nat
      BY <2>9, SaveTyping DEF TouchDevice
    <3>2. session' \in [Conn -> Session]
      BY <2>9, GotoTyping DEF TouchDevice, Stages
    <3> QED BY <2>9, <3>1, <3>2 DEF TouchDevice, history
  <2>10. ASSUME NEW c \in Conn, SendAck(c) PROVE TypeOK'
    BY <2>10, GotoTyping DEF SendAck, history, Stages
  <2>11. ASSUME NEW c \in Conn, Close(c) PROVE TypeOK'
    BY <2>11, GotoTyping DEF Close, history, Stages
  <2>12. ASSUME NEW p \in Phone, NEW o \in Outcome, UnpairDevice(p, o) PROVE TypeOK'
    <3>1. devices' \in SUBSET Device
      BY <2>12 DEF UnpairDevice
    <3>2. disk' \in Disk /\ faults' \in Nat
      BY <2>12, <3>1, SaveTyping DEF UnpairDevice
    <3>3. forgotten' \in SUBSET Phone /\ raced' \in SUBSET Phone
      BY <2>12 DEF UnpairDevice
    <3> QED BY <2>12, <3>1, <3>2, <3>3 DEF UnpairDevice
  <2>13. ASSUME NEW p \in Phone, NEW o \in Outcome, RenameDevice(p, o) PROVE TypeOK'
    <3>1. devices' \in SUBSET Device
      BY <2>13 DEF RenameDevice, Device, DeviceName
    <3>2. disk' \in Disk /\ faults' \in Nat
      BY <2>13, <3>1, SaveTyping DEF RenameDevice
    <3> QED BY <2>13, <3>1, <3>2 DEF RenameDevice, history
  <2>14. ASSUME NEW o \in Outcome, SavePreferences(o) PROVE TypeOK'
    <3>1. disk' \in Disk /\ faults' \in Nat
      BY <2>14, SaveTyping DEF SavePreferences
    <3> QED BY <2>14, <3>1 DEF SavePreferences, history
  <2>15. CASE Restart
    BY <2>15 DEF Restart, Reboot, Fault, Disk, Session, Stages
  <2>16. ASSUME NEW o \in Outcome, RestartAfresh(o) PROVE TypeOK'
    <3>1. disk' \in Disk
      BY <2>16 DEF RestartAfresh, Disk
    <3>2. session' \in [Conn -> Session]
      BY <2>16 DEF RestartAfresh, Reboot, Session, Stages
    <3> QED BY <2>16, <3>1, <3>2 DEF RestartAfresh, Reboot, Fault
  <2>17. CASE UNCHANGED vars
    BY <2>17 DEF vars, server, history
  <2> QED
    BY <2>1, <2>2, <2>3, <2>4, <2>5, <2>6, <2>7, <2>8, <2>9, <2>10, <2>11,
       <2>12, <2>13, <2>14, <2>15, <2>16, <2>17 DEF Next, Handshake, Outcome
<1> QED BY <1>1, <1>2, PTL DEF Spec

------------------------------------------------------------------------------
(* Pairing codes *)

\* What is true of a code at any time: it has opened the door at most once,
\* while it is pending it has not, and a pending code expires TTL after it
\* was minted.
CodeInv ==
  \A n \in Nonce :
    /\ claims[n] <= 1
    /\ minted[n] = Never => claims[n] = 0
    /\ pending[n] # Absent => /\ minted[n] # Never
                              /\ claims[n] = 0
                              /\ pending[n] = minted[n] + TTL

\* Only minting, claiming and a restart touch the codes.
LEMMA CodeSteps ==
  ASSUME [Next]_vars
  PROVE  \/ UNCHANGED <<pending, minted, claims>>
         \/ \E n \in Nonce : IssueNonce(n)
         \/ \E c \in Conn : ClaimNonce(c)
         \/ Restart
         \/ \E o \in Outcome : RestartAfresh(o)
BY DEF Next, vars, server, history, Tick, Accept, Hello, Handshake, LookupDevice,
       RejectKey, RememberDevice, TouchDevice, SendAck, Close, UnpairDevice,
       RenameDevice, SavePreferences, Outcome

\* CodeInv holds throughout.
LEMMA CodeInvariant == Spec => []CodeInv
<1>1. Init => CodeInv
  BY DEF Init, CodeInv
<1>2. TypeOK /\ CodeInv /\ [Next]_vars => CodeInv'
  <2> SUFFICES ASSUME TypeOK, CodeInv, [Next]_vars, NEW n \in Nonce
               PROVE  /\ claims'[n] <= 1
                      /\ minted'[n] = Never => claims'[n] = 0
                      /\ pending'[n] # Absent => /\ minted'[n] # Never
                                                 /\ claims'[n] = 0
                                                 /\ pending'[n] = minted'[n] + TTL
    BY DEF CodeInv
  <2> USE PairingAssumption DEF CodeInv, TypeOK
  <2>1. CASE UNCHANGED <<pending, minted, claims>>
    BY <2>1
  <2>2. ASSUME NEW m \in Nonce, IssueNonce(m) PROVE CodeInv'
    BY <2>2 DEF IssueNonce, Expiry, Unexpired
  <2>3. ASSUME NEW c \in Conn, ClaimNonce(c) PROVE CodeInv'
    <3>1. session[c].nonce \in Nonce
      BY DEF Session
    <3> QED BY <2>3, <3>1 DEF ClaimNonce, Taken, Unexpired
  <2>4. CASE Restart \/ \E o \in Outcome : RestartAfresh(o)
    BY <2>4 DEF Restart, RestartAfresh, Reboot
  <2> QED BY <2>1, <2>2, <2>3, <2>4, CodeSteps
<1> QED BY <1>1, <1>2, Typing, PTL DEF Spec

\* A pairing code opens the door at most once (claim_nonce, server.rs:131-136),
\* for any number of phones, connections, failed saves and restarts.
THEOREM CodesAreSingleUse == Spec => []SingleUse
<1>1. CodeInv => SingleUse
  BY DEF CodeInv, SingleUse
<1> QED BY <1>1, CodeInvariant, PTL

\* A code opens the door only between its minting and TTL later (issue_nonce
\* and claim_nonce).
THEOREM CodesExpire == Spec => OpensOnlyWhileValid
<1> DEFINE Valid == \A n \in Nonce : claims'[n] > claims[n] => /\ minted[n] # Never
                                                              /\ clock < minted[n] + TTL
<1>1. TypeOK /\ CodeInv /\ [Next]_vars => [Valid]_vars
  <2> SUFFICES ASSUME TypeOK, CodeInv, Next, NEW n \in Nonce, claims'[n] > claims[n]
               PROVE  minted[n] # Never /\ clock < minted[n] + TTL
    OBVIOUS
  <2>1. PICK c \in Conn : ClaimNonce(c)
    BY CodeSteps DEF TypeOK, IssueNonce, Restart, RestartAfresh, Reboot
  <2>2. n = session[c].nonce /\ Unexpired(n)
    BY <2>1 DEF ClaimNonce, TypeOK, Session
  <2> QED BY <2>2 DEF Unexpired, CodeInv, TypeOK
<1> QED BY <1>1, Typing, CodeInvariant, PTL DEF Spec, OpensOnlyWhileValid

------------------------------------------------------------------------------
(* The list of paired phones *)

\* What a save may leave on disk: a readable file holds the list just written
\* or the one it held before.
LEMMA SaveLeaves ==
  ASSUME NEW ds, NEW o \in Outcome, Save(ds, o), Readable', disk \in Disk
  PROVE  \/ disk'.devices = ds /\ o = "saved"
         \/ disk'.devices = disk.devices /\ Readable
BY DEF Save, Saved, Outcome, Readable, Disk

\* Remembering and renaming a phone add that phone and nobody else.
LEMMA PhonesOf ==
  ASSUME NEW ds \in SUBSET Device, NEW p \in Phone
  PROVE  /\ Phones(Remembered(ds, p)) = Phones(ds) \cup {p}
         /\ Phones({d \in ds : d.phone # p}) = Phones(ds) \ {p}
         /\ Phones({IF d.phone = p THEN [d EXCEPT !.name = "chosen"] ELSE d : d \in ds})
              = Phones(ds)
<1>1. Phones(Remembered(ds, p)) = Phones(ds) \cup {p}
  <2> DEFINE new == [phone |-> p, name |-> "announced"]
  <2>1. new.phone = p
    OBVIOUS
  <2>2. Phones(Remembered(ds, p)) = Phones({d \in ds : d.phone # p}) \cup Phones({new})
    BY DEF Phones, Remembered
  <2>3. Phones({new}) = {p}
    BY <2>1 DEF Phones
  <2>4. Phones({d \in ds : d.phone # p}) = Phones(ds) \ {p}
    BY DEF Phones, Device
  <2> QED BY <2>2, <2>3, <2>4
<1>2. Phones({d \in ds : d.phone # p}) = Phones(ds) \ {p}
  BY DEF Phones, Device
<1>3. Phones({IF d.phone = p THEN [d EXCEPT !.name = "chosen"] ELSE d : d \in ds}) = Phones(ds)
  <2>1. \A d \in ds : (IF d.phone = p THEN [d EXCEPT !.name = "chosen"] ELSE d).phone = d.phone
    BY DEF Device
  <2> QED BY <2>1 DEF Phones
<1> QED BY <1>1, <1>2, <1>3

\* Steps that leave the list and the file alone.
LEMMA ListSteps ==
  ASSUME [Next]_vars
  PROVE  \/ UNCHANGED <<devices, disk, kept>>
         \/ \E c \in Conn, o \in Outcome : RememberDevice(c, o) \/ TouchDevice(c, o)
         \/ \E p \in Phone, o \in Outcome : UnpairDevice(p, o) \/ RenameDevice(p, o)
         \/ \E o \in Outcome : SavePreferences(o)
         \/ Restart
         \/ \E o \in Outcome : RestartAfresh(o)
BY DEF Next, vars, server, history, Tick, IssueNonce, Accept, Hello, Handshake,
       ClaimNonce, LookupDevice, RejectKey, SendAck, Close, Outcome

\* A saved pairing stays until the user takes it back or the file is lost
\* (remember_device, Settings::save and Settings::load): the list in memory
\* and the readable file both hold every phone of kept.
THEOREM SavedPairingsSurvive == Spec => []PairingSurvives
<1>1. Init => PairingSurvives
  BY DEF Init, PairingSurvives
<1>2. TypeOK /\ PairingSurvives /\ [Next]_vars => PairingSurvives'
  <2> SUFFICES ASSUME TypeOK, PairingSurvives, [Next]_vars PROVE PairingSurvives'
    OBVIOUS
  <2> USE DEF TypeOK, PairingSurvives
  <2>1. CASE UNCHANGED <<devices, disk, kept>>
    BY <2>1 DEF Readable
  <2>2. ASSUME NEW c \in Conn, NEW o \in Outcome, RememberDevice(c, o)
        PROVE  PairingSurvives'
    <3>1. session[c].phone \in Phone
      BY DEF Session
    <3>2. Phones(devices') = Phones(devices) \cup {session[c].phone}
      BY <2>2, <3>1, PhonesOf DEF RememberDevice
    <3>3. kept' \subseteq Phones(devices')
      BY <2>2, <3>2 DEF RememberDevice
    <3>4. CASE o = "saved"
      <4>1. disk'.devices = devices'
        BY <2>2, <3>4 DEF RememberDevice, Save, Saved
      <4> QED BY <3>3, <4>1
    <3>5. CASE o # "saved"
      <4>1. kept' = kept
        BY <2>2, <3>5 DEF RememberDevice
      <4>2. Readable' => Readable /\ disk' = disk
        BY <2>2, <3>5 DEF RememberDevice, Save, Readable, Disk
      <4> QED BY <3>3, <4>1, <4>2
    <3> QED BY <3>4, <3>5
  <2>3. ASSUME NEW c \in Conn, NEW o \in Outcome, TouchDevice(c, o)
        PROVE  PairingSurvives'
    BY <2>3, SaveLeaves DEF TouchDevice, history
  <2>4. ASSUME NEW p \in Phone, NEW o \in Outcome, UnpairDevice(p, o)
        PROVE  PairingSurvives'
    <3>1. Phones(devices') = Phones(devices) \ {p}
      BY <2>4, PhonesOf DEF UnpairDevice
    <3> QED BY <2>4, <3>1, SaveLeaves DEF UnpairDevice
  <2>5. ASSUME NEW p \in Phone, NEW o \in Outcome, RenameDevice(p, o)
        PROVE  PairingSurvives'
    <3>1. Phones(devices') = Phones(devices)
      BY <2>5, PhonesOf DEF RenameDevice
    <3> QED BY <2>5, <3>1, SaveLeaves DEF RenameDevice, history
  <2>6. ASSUME NEW o \in Outcome, SavePreferences(o) PROVE PairingSurvives'
    BY <2>6, SaveLeaves DEF SavePreferences, history
  <2>7. CASE Restart
    BY <2>7 DEF Restart, Readable
  <2>8. ASSUME NEW o \in Outcome, RestartAfresh(o) PROVE PairingSurvives'
    BY <2>8 DEF RestartAfresh
  <2> QED BY <2>1, <2>2, <2>3, <2>4, <2>5, <2>6, <2>7, <2>8, ListSteps
<1> QED BY <1>1, <1>2, Typing, PTL DEF Spec

------------------------------------------------------------------------------
(* Who is let in *)

\* The handshakes past the check.
Admitted == {c \in Conn : At(c, "remember")}

\* Only a valid claim and a successful lookup admit a connection; every other
\* step leaves a subset of the admitted connections, with the phones they had.
LEMMA AdmissionSteps ==
  ASSUME TypeOK, [Next]_vars
  PROVE  \/ \E c \in Conn : ClaimNonce(c) \/ LookupDevice(c)
         \/ \A c \in Admitted' : c \in Admitted /\ session'[c].phone = session[c].phone
<1> USE DEF Admitted, At, Goto, TypeOK, Session
<1>1. ASSUME NEW c \in Conn,
             \/ Accept(c)
             \/ RejectKey(c)
             \/ \E o \in Outcome : RememberDevice(c, o) \/ TouchDevice(c, o)
             \/ SendAck(c)
             \/ Close(c)
      PROVE  \A d \in Admitted' : d \in Admitted /\ session'[d].phone = session[d].phone
  BY <1>1 DEF Accept, RejectKey, RememberDevice, TouchDevice, SendAck, Close
<1>2. ASSUME NEW c \in Conn, NEW p \in Phone, NEW n \in Nonce, Hello(c, p, n)
      PROVE  \A d \in Admitted' : d \in Admitted /\ session'[d].phone = session[d].phone
  BY <1>2 DEF Hello
<1>3. CASE UNCHANGED session
  BY <1>3
<1>4. CASE Restart \/ \E o \in Outcome : RestartAfresh(o)
  BY <1>4 DEF Restart, RestartAfresh, Reboot
<1>5. CASE \/ \E n \in Nonce : IssueNonce(n)
           \/ \E p \in Phone, o \in Outcome : UnpairDevice(p, o) \/ RenameDevice(p, o)
           \/ \E o \in Outcome : SavePreferences(o)
           \/ Tick
           \/ UNCHANGED vars
  <2>1. UNCHANGED session
    BY <1>5 DEF IssueNonce, UnpairDevice, RenameDevice, SavePreferences, Tick, vars, server
  <2> QED BY <2>1
<1> QED BY <1>1, <1>2, <1>4, <1>5 DEF Next, Handshake, Outcome

\* What a claim does to the connection that made it.
LEMMA ClaimStep ==
  ASSUME TypeOK, NEW c \in Conn, ClaimNonce(c)
  PROVE  /\ session[c].phone \in Phone
         /\ \A d \in Admitted' :
              /\ session'[d].phone = session[d].phone
              /\ d \notin Admitted => d = c
              /\ d = c => Unexpired(session[c].nonce)
<1>1. \A d \in Conn : d # c => session'[d] = session[d]
  BY DEF ClaimNonce, Goto, TypeOK
<1>2. session'[c].phone = session[c].phone
  BY DEF ClaimNonce, Goto, TypeOK
<1>3. session'[c].at = "remember" => Unexpired(session[c].nonce)
  BY DEF ClaimNonce, Goto, TypeOK
<1>4. session[c].phone \in Phone
  BY DEF TypeOK, Session
<1>5. ASSUME NEW d \in Admitted', d # c
      PROVE  d \in Admitted /\ session'[d].phone = session[d].phone
  BY <1>1, <1>5 DEF Admitted, At
<1>6. c \in Admitted' => Unexpired(session[c].nonce)
  BY <1>3 DEF Admitted, At
<1> QED BY <1>2, <1>4, <1>5, <1>6

\* A lookup admits at most its own connection, and only a phone of the list.
LEMMA LookupStep ==
  ASSUME TypeOK, NEW c \in Conn, LookupDevice(c)
  PROVE  \A d \in Admitted' :
           /\ session'[d].phone = session[d].phone
           /\ d \notin Admitted => d = c /\ session[c].phone \in Phones(devices)
<1>1. \A d \in Conn : d # c => session'[d] = session[d]
  BY DEF LookupDevice, Goto, TypeOK
<1>2. session'[c].phone = session[c].phone
  BY DEF LookupDevice, Goto, TypeOK
<1>3. session'[c].at = "remember" => session[c].phone \in Phones(devices)
  BY DEF LookupDevice, Known, Goto, TypeOK
<1>4. ASSUME NEW d \in Admitted', d # c
      PROVE  d \in Admitted /\ session'[d].phone = session[d].phone
  BY <1>1, <1>4 DEF Admitted, At
<1>5. c \in Admitted' => session[c].phone \in Phones(devices)
  BY <1>3 DEF Admitted, At
<1> QED BY <1>2, <1>4, <1>5

\* Every phone on the list and every phone about to be put there has claimed
\* a code of the present identity.
EntryInv == /\ OnlyByNonce
            /\ \A c \in Admitted : session[c].phone \in introduced

\* Only the loss of the settings file takes the record of a claim away.
LEMMA IntroducedSteps ==
  ASSUME TypeOK, [Next]_vars
  PROVE  introduced \subseteq introduced' \/ \E o \in Outcome : RestartAfresh(o)
BY DEF Next, vars, server, history, Tick, IssueNonce, Accept, Hello, Handshake,
       ClaimNonce, LookupDevice, RejectKey, RememberDevice, TouchDevice, SendAck,
       Close, UnpairDevice, RenameDevice, SavePreferences, Restart, Outcome

\* No phone comes on the list, in memory or in a readable file, without having
\* claimed a code (the check of serve, server.rs:236, and Settings::load).
THEOREM ListIsByInvitation == Spec => []OnlyByNonce
<1>1. Init => EntryInv
  BY DEF Init, EntryInv, OnlyByNonce, Admitted, At, Phones
<1>2. TypeOK /\ EntryInv /\ [Next]_vars => EntryInv'
  <2> SUFFICES ASSUME TypeOK, EntryInv, [Next]_vars PROVE EntryInv'
    OBVIOUS
  <2> USE DEF EntryInv, OnlyByNonce, TypeOK
  <2>1. CASE \E o \in Outcome : RestartAfresh(o)
    <3>1. Admitted' = {} /\ devices' = {}
      BY <2>1 DEF RestartAfresh, Reboot, Admitted, At, Session
    <3>2. Readable' => disk'.devices = {}
      BY <2>1 DEF RestartAfresh, Readable, Disk
    <3> QED BY <3>1, <3>2 DEF Phones
  <2>2. CASE introduced \subseteq introduced'
    <3>1. \A c \in Admitted' : session'[c].phone \in introduced'
      <4>1. ASSUME NEW c \in Conn, ClaimNonce(c)
            PROVE  \A d \in Admitted' : session'[d].phone \in introduced'
        <5>1. Unexpired(session[c].nonce) => session[c].phone \in introduced'
          BY <4>1 DEF ClaimNonce
        <5> QED BY <4>1, <5>1, <2>2, ClaimStep
      <4>2. ASSUME NEW c \in Conn, LookupDevice(c)
            PROVE  \A d \in Admitted' : session'[d].phone \in introduced'
        BY <4>2, <2>2, LookupStep
      <4> QED BY <4>1, <4>2, <2>2, AdmissionSteps
    <3>2. OnlyByNonce'
      <4>1. CASE UNCHANGED <<devices, disk, kept>>
        BY <4>1, <2>2 DEF Readable
      <4>2. ASSUME NEW c \in Conn, NEW o \in Outcome, RememberDevice(c, o)
            PROVE  OnlyByNonce'
        <5>1. session[c].phone \in introduced /\ session[c].phone \in Phone
          BY <4>2 DEF RememberDevice, Admitted, Session
        <5>2. Phones(devices') \subseteq introduced'
          <6>1. Phones(devices') = Phones(devices) \cup {session[c].phone}
            BY <4>2, <5>1, PhonesOf DEF RememberDevice
          <6> QED BY <6>1, <5>1, <2>2
        <5>3. Save(devices', o)
          BY <4>2 DEF RememberDevice
        <5> QED BY <5>2, <5>3, <2>2, SaveLeaves
      <4>3. ASSUME NEW c \in Conn, NEW o \in Outcome, TouchDevice(c, o)
            PROVE  OnlyByNonce'
        BY <4>3, <2>2, SaveLeaves DEF TouchDevice
      <4>4. ASSUME NEW p \in Phone, NEW o \in Outcome, UnpairDevice(p, o)
            PROVE  OnlyByNonce'
        <5>1. Phones(devices') \subseteq introduced'
          <6>1. Phones(devices') = Phones(devices) \ {p}
            BY <4>4, PhonesOf DEF UnpairDevice
          <6> QED BY <6>1, <2>2
        <5> QED BY <4>4, <5>1, <2>2, SaveLeaves DEF UnpairDevice
      <4>5. ASSUME NEW p \in Phone, NEW o \in Outcome, RenameDevice(p, o)
            PROVE  OnlyByNonce'
        <5>1. Phones(devices') \subseteq introduced'
          BY <4>5, <2>2, PhonesOf DEF RenameDevice
        <5> QED BY <4>5, <5>1, <2>2, SaveLeaves DEF RenameDevice
      <4>6. ASSUME NEW o \in Outcome, SavePreferences(o) PROVE OnlyByNonce'
        BY <4>6, <2>2, SaveLeaves DEF SavePreferences
      <4>7. CASE Restart
        BY <4>7, <2>2 DEF Restart, Readable
      <4> QED BY <4>1, <4>2, <4>3, <4>4, <4>5, <4>6, <4>7, <2>1, ListSteps
    <3> QED BY <3>1, <3>2
  <2> QED BY <2>1, <2>2, IntroducedSteps
<1> QED BY <1>1, <1>2, Typing, PTL DEF Spec, EntryInv

------------------------------------------------------------------------------
(* What a disconnect takes away *)

\* The phones that have to claim a code to come back.
Shut == forgotten \ raced

\* Such a phone is not on the list, and no handshake of it is past the check.
ShutInv == /\ DisconnectForgetsUnlessRaced
           /\ \A c \in Admitted : session[c].phone \notin Shut

\* Only a disconnect that succeeds shuts a phone out.
LEMMA ShutSteps ==
  ASSUME TypeOK, [Next]_vars
  PROVE  \/ Shut' \subseteq Shut
         \/ \E p \in Phone : UnpairDevice(p, "saved")
<1>1. ASSUME NEW p \in Phone, NEW o \in Outcome, UnpairDevice(p, o)
      PROVE  Shut' \subseteq Shut \/ UnpairDevice(p, "saved")
  BY <1>1 DEF UnpairDevice, Shut
<1>2. CASE UNCHANGED <<forgotten, raced>>
  BY <1>2 DEF Shut
<1>3. ASSUME NEW c \in Conn, ClaimNonce(c) PROVE Shut' \subseteq Shut
  BY <1>3 DEF ClaimNonce, Shut
<1> QED
  BY <1>1, <1>2, <1>3
  DEF Next, vars, server, history, Tick, IssueNonce, Accept, Hello, Handshake,
      LookupDevice, RejectKey, RememberDevice, TouchDevice, SendAck, Close,
      RenameDevice, SavePreferences, Restart, RestartAfresh, Reboot, Outcome

\* After a disconnect that reported success a phone returns only by claiming
\* another code, unless its handshake was already past the check
\* (unpair_device, lib.rs:398-415, against serve, server.rs:236-262).
THEOREM DisconnectForgetsPhone == Spec => []DisconnectForgetsUnlessRaced
<1>1. Init => ShutInv
  BY DEF Init, ShutInv, DisconnectForgetsUnlessRaced, Shut, Admitted, At, Phones
<1>2. TypeOK /\ ShutInv /\ [Next]_vars => ShutInv'
  <2> SUFFICES ASSUME TypeOK, ShutInv, [Next]_vars PROVE ShutInv'
    OBVIOUS
  <2>0. /\ Phones(devices) \cap Shut = {}
        /\ Readable => Phones(disk.devices) \cap Shut = {}
        /\ disk \in Disk /\ devices \in SUBSET Device
    BY DEF ShutInv, DisconnectForgetsUnlessRaced, Shut, TypeOK
  <2>1. ASSUME NEW p \in Phone, UnpairDevice(p, "saved") PROVE ShutInv'
    <3>1. Phones(devices') = Phones(devices) \ {p}
      BY <2>1, <2>0, PhonesOf DEF UnpairDevice
    <3>5. disk'.devices = devices'
      BY <2>1 DEF UnpairDevice, Save, Saved
    <3>2. Shut' \subseteq Shut \cup {p}
      BY <2>1 DEF UnpairDevice, Shut
    <3>3. \A c \in Admitted' : session'[c].phone \notin Shut'
      <4> SUFFICES ASSUME NEW c \in Conn, c \in Admitted' PROVE session'[c].phone \notin Shut'
        BY DEF Admitted
      <4>1. c \in Admitted /\ session' = session
        BY <2>1 DEF UnpairDevice, Admitted, At
      <4>2. session[c].phone = p => p \in raced'
        BY <4>1, <2>1 DEF UnpairDevice, Admitted, At
      <4> QED BY <4>1, <4>2, <3>2 DEF ShutInv, Shut
    <3>4. Phones(devices') \cap Shut' = {}
      BY <3>1, <3>2, <2>0
    <3> QED BY <3>3, <3>4, <3>5 DEF ShutInv, DisconnectForgetsUnlessRaced, Shut
  <2>2. CASE Shut' \subseteq Shut
    <3>1. \A c \in Admitted' : session'[c].phone \notin Shut'
      <4>1. ASSUME NEW c \in Conn, ClaimNonce(c)
            PROVE  \A d \in Admitted' : session'[d].phone \notin Shut'
        <5>1. Unexpired(session[c].nonce) => session[c].phone \notin Shut'
          BY <4>1 DEF ClaimNonce, Shut
        <5> QED BY <4>1, <5>1, <2>2, ClaimStep DEF ShutInv
      <4>2. ASSUME NEW c \in Conn, LookupDevice(c)
            PROVE  \A d \in Admitted' : session'[d].phone \notin Shut'
        BY <4>2, <2>0, <2>2, LookupStep DEF ShutInv
      <4> QED BY <4>1, <4>2, <2>2, AdmissionSteps DEF ShutInv
    <3> DEFINE Out == /\ Phones(devices') \cap Shut = {}
                      /\ Readable' => Phones(disk'.devices) \cap Shut = {}
    <3>2. Out
      <4>1. CASE UNCHANGED <<devices, disk, kept>>
        BY <4>1, <2>0 DEF Readable
      <4>2. ASSUME NEW c \in Conn, NEW o \in Outcome, RememberDevice(c, o) PROVE Out
        <5>1. session[c].phone \notin Shut /\ session[c].phone \in Phone
          BY <4>2 DEF RememberDevice, Admitted, ShutInv, TypeOK, Session
        <5>2. Phones(devices') \cap Shut = {}
          <6>1. Phones(devices') = Phones(devices) \cup {session[c].phone}
            BY <4>2, <5>1, <2>0, PhonesOf DEF RememberDevice
          <6> QED BY <6>1, <5>1, <2>0
        <5>3. Save(devices', o)
          BY <4>2 DEF RememberDevice
        <5> QED BY <5>2, <5>3, <2>0, SaveLeaves
      <4>3. ASSUME NEW c \in Conn, NEW o \in Outcome, TouchDevice(c, o) PROVE Out
        BY <4>3, <2>0, SaveLeaves DEF TouchDevice
      <4>4. ASSUME NEW p \in Phone, NEW o \in Outcome, UnpairDevice(p, o) PROVE Out
        <5>1. Phones(devices') \cap Shut = {}
          <6>1. Phones(devices') = Phones(devices) \ {p}
            BY <4>4, <2>0, PhonesOf DEF UnpairDevice
          <6> QED BY <6>1, <2>0
        <5> QED BY <4>4, <5>1, <2>0, SaveLeaves DEF UnpairDevice
      <4>5. ASSUME NEW p \in Phone, NEW o \in Outcome, RenameDevice(p, o) PROVE Out
        <5>1. Phones(devices') \cap Shut = {}
          BY <4>5, <2>0, PhonesOf DEF RenameDevice
        <5> QED BY <4>5, <5>1, <2>0, SaveLeaves DEF RenameDevice
      <4>6. ASSUME NEW o \in Outcome, SavePreferences(o) PROVE Out
        BY <4>6, <2>0, SaveLeaves DEF SavePreferences
      <4>7. CASE Restart
        BY <4>7, <2>0 DEF Restart, Readable
      <4>8. ASSUME NEW o \in Outcome, RestartAfresh(o) PROVE Out
        BY <4>8 DEF RestartAfresh, Readable, Phones, Disk
      <4> QED BY <4>1, <4>2, <4>3, <4>4, <4>5, <4>6, <4>7, <4>8, ListSteps
    <3> QED BY <3>1, <3>2, <2>2 DEF ShutInv, DisconnectForgetsUnlessRaced, Shut
  <2> QED BY <2>1, <2>2, ShutSteps
<1> QED BY <1>1, <1>2, Typing, PTL DEF Spec, ShutInv

\* What is said of the door, at once: types, codes that open it once, and a list
\* of those who came through it (claim_nonce, is_known_device, remember_device).
THEOREM TheDoorHolds == Spec => []DoorHolds
BY Typing, CodesAreSingleUse, ListIsByInvitation, PTL DEF DoorHolds
=============================================================================
