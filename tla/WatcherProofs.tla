--------------------------- MODULE WatcherProofs ----------------------------
(***************************************************************************)
(* Theorems about Watcher, for any texts, pictures, sessions and bounds.   *)
(*                                                                         *)
(* That the app never announces its own text rests on the suppression      *)
(* being alive when the watcher comes to decide.  Covered states that in   *)
(* the three places the text can be: still being written, on the clipboard *)
(* and not yet read, or read and not yet decided about.                    *)
(***************************************************************************)
EXTENDS Watcher, TLAPS

(***************************************************************************)
(* Types                                                                   *)
(***************************************************************************)
\* What a read gives back is a clip.
LEMMA ReadBackType == ASSUME NEW c \in Clip PROVE ReadBack(c) \in Clip
BY DEF ReadBack, Clip, Image

\* The types of what a suppression leaves behind.
LEMMA SuppressType ==
  ASSUME TypeOK, NEW w \in Writer, NEW c \in Clip, Suppress(w, c)
  PROVE  /\ writing' \in [Writer -> Clip \cup {NoClip}]
         /\ seen' \in [Clip -> 0 .. TTL]
         /\ credit' \in [Clip -> Int]
         /\ spanned' \in SUBSET Writer
<1> USE WatcherAssumption DEF TypeOK, WatcherAssumption, Suppress
<1>1. writing' \in [Writer -> Clip \cup {NoClip}]  OBVIOUS
<1>2. seen' \in [Clip -> 0 .. TTL]  OBVIOUS
<1>3. credit' \in [Clip -> Int]
  <2>1. credit' = [credit EXCEPT ![c] = credit[c] + 1]  OBVIOUS
  <2>2. credit[c] + 1 \in Int  OBVIOUS
  <2> QED BY <2>1, <2>2
<1>4. spanned' \in SUBSET Writer  OBVIOUS
<1> QED BY <1>1, <1>2, <1>3, <1>4

\* The ageing of a poll keeps every count within the lifetime.
LEMMA AgedType == ASSUME TypeOK PROVE Aged \in [Clip -> 0 .. TTL]
BY WatcherAssumption, SMTT(60) DEF TypeOK, Aged, WatcherAssumption

\* The initial values have their types.
LEMMA TypeInit == Init => TypeOK
BY WatcherAssumption DEF Init, TypeOK, Clip, NoReading, Reading, WatcherAssumption

\* Every step keeps the types.
LEMMA TypeStep == TypeOK /\ [Next]_vars => TypeOK'
<1> SUFFICES ASSUME TypeOK, [Next]_vars PROVE TypeOK'
  OBVIOUS
<1> USE WatcherAssumption DEF TypeOK, WatcherAssumption, watch, bounds
<1>1. CASE \E c \in Text \cup Image("pc") : UserCopies(c)
  BY <1>1 DEF UserCopies, Clip
<1>2. ASSUME NEW s \in Session, NEW c \in Text \cup Image("phone"), Arrive(s, c) PROVE TypeOK'
  <2>1. c \in Clip /\ s \in Writer  BY DEF Clip, Writer
  <2>2. Suppress(s, c)  BY <1>2 DEF Arrive
  <2>3. /\ writing' \in [Writer -> Clip \cup {NoClip}] /\ seen' \in [Clip -> 0 .. TTL]
        /\ credit' \in [Clip -> Int] /\ spanned' \in SUBSET Writer
    BY <2>1, <2>2, SuppressType
  <2>4. exchanged' \in Clip  BY <1>2, <2>1 DEF Arrive
  <2>5. /\ UNCHANGED <<clip, by, lastHash, polled, busy, channel, copies, failures>>
        /\ arrivals' \in Nat
    BY <1>2 DEF Arrive
  <2> QED BY <2>3, <2>4, <2>5
<1>3. ASSUME NEW t \in Text, Pick(t) PROVE TypeOK'
  <2>1. t \in Clip /\ Command \in Writer  BY DEF Clip, Writer
  <2>2. Suppress(Command, t)  BY <1>3 DEF Pick
  <2> QED BY <1>3, <2>1, <2>2, SuppressType, SMTT(60) DEF Pick
<1>4. ASSUME NEW w \in Writer, SetClipboard(w) PROVE TypeOK'
  <2>1. writing[w] \in Clip  BY <1>4 DEF SetClipboard
  <2>2. ReadBack(writing[w]) \in Clip  BY <2>1, ReadBackType
  <2>3. channel' \in Seq([clip : Clip, by : {"user", "app"}]) /\ exchanged' \in Clip \cup {NoClip}
    <3>1. Reading(writing[w], "user") \in [clip : Clip, by : {"user", "app"}]
      BY <2>1 DEF Reading
    <3>2. CASE w = Command
      <4>1. channel' = Append(channel, Reading(writing[w], "user")) /\ exchanged' = writing[w]
        BY <1>4, <3>2 DEF SetClipboard
      <4> QED BY <2>1, <3>1, <4>1
    <3>3. CASE w # Command  BY <1>4, <3>3 DEF SetClipboard
    <3> QED BY <3>2, <3>3
  <2> QED BY <1>4, <2>1, <2>2, <2>3 DEF SetClipboard
<1>5. ASSUME NEW w \in Writer, WriteFails(w) PROVE TypeOK'
  BY <1>5, SMTT(60) DEF WriteFails
<1>6. CASE PollReads
  <2>1. polled' \in [clip : Clip \cup {NoClip}, by : {"user", "app"}]
    BY <1>6 DEF PollReads, Reading
  <2>2. seen' \in [Clip -> 0 .. TTL]  BY <1>6, AgedType DEF PollReads, PollDue
  <2> QED BY <1>6, <2>1, <2>2, SMTT(60) DEF PollReads, PollDue, Writing
<1>7. CASE PollBusy
  <2>1. seen' \in [Clip -> 0 .. TTL]  BY <1>7, AgedType DEF PollBusy, PollDue
  <2>2. busy' \in 0 .. MaxBusy  BY <1>7 DEF PollBusy
  <2> QED BY <1>7, <2>1, <2>2 DEF PollBusy, PollDue, Writing
<1>8. CASE PollDecides
  <2>1. polled.clip \in Clip  BY <1>8 DEF PollDecides
  <2>2. polled' \in [clip : Clip \cup {NoClip}, by : {"user", "app"}]
    BY <1>8 DEF PollDecides, NoReading, Reading
  <2>3. polled \in [clip : Clip, by : {"user", "app"}]  BY <2>1
  <2>4. CASE Unchanged  BY <1>8, <2>2, <2>4 DEF PollDecides, Unchanged
  <2>5. CASE Ignore
    <3>1. credit' \in [Clip -> Int]
      <4>1. credit' = [credit EXCEPT ![polled.clip] = credit[polled.clip] - 1]  BY <2>5 DEF Ignore
      <4>2. credit[polled.clip] - 1 \in Int  BY <2>1
      <4> QED BY <4>1, <4>2
    <3>2. seen' \in [Clip -> 0 .. TTL]  BY <2>1, <2>5 DEF Ignore, Consumed
    <3> QED BY <1>8, <2>1, <2>2, <2>5, <3>1, <3>2 DEF PollDecides, Ignore
  <2>6. CASE Announce
    <3>1. channel' \in Seq([clip : Clip, by : {"user", "app"}])  BY <2>3, <2>6 DEF Announce
    <3> QED BY <1>8, <2>1, <2>2, <2>6, <3>1 DEF PollDecides, Announce
  <2> QED BY <1>8, <2>4, <2>5, <2>6 DEF PollDecides
<1>9. CASE Take
  BY <1>9, SMTT(60) DEF Take
<1>10. CASE UNCHANGED vars
  BY <1>10 DEF vars
<1> QED BY <1>1, <1>2, <1>3, <1>4, <1>5, <1>6, <1>7, <1>8, <1>9, <1>10 DEF Next, Poll

\* Every variable of the PC's clipboard keeps its type (clipboard.rs).
THEOREM Typing == Spec => []TypeOK
BY TypeInit, TypeStep, PTL DEF Spec

(***************************************************************************)
(* No text echo                                                            *)
(***************************************************************************)

\* A text that is being written: no poll has passed since it was suppressed,
\* or one has, which may have spent the suppression on the user's own copy of
\* the same text and then knows that text.
WriteCovered(w) ==
  writing[w] \in Text =>
    \/ w \notin spanned /\ polled.clip = NoClip /\ seen[writing[w]] = TTL
    \/ w \in spanned /\ seen[writing[w]] >= TTL - 1
    \/ w \in spanned /\ polled.clip = NoClip /\ lastHash = writing[w]

\* A text of ours that is on the clipboard: known, just read, or suppressed
\* for more polls than can still fail.
ClipCovered ==
  by = "app" /\ clip \in Text =>
    \/ polled.clip = NoClip /\ clip = lastHash
    \/ polled.clip = clip
    \/ seen[clip] >= TTL - 1 - busy

\* A text of ours that was read and awaits the decision.
PollCovered ==
  polled.by = "app" /\ polled.clip \in Text =>
    polled.clip = lastHash \/ seen[polled.clip] >= 1

Covered == (\A w \in Writer : WriteCovered(w)) /\ ClipCovered /\ PollCovered

\* Nothing waits for a suppression at first.
LEMMA CoveredInit == Init => Covered
<1> SUFFICES ASSUME Init PROVE Covered
  OBVIOUS
<1> USE WatcherAssumption DEF Init, WatcherAssumption, NoReading, Reading
<1>1. \A w \in Writer : WriteCovered(w)  BY DEF WriteCovered, Clip
<1>2. ClipCovered  BY DEF ClipCovered
<1>3. PollCovered  BY DEF PollCovered
<1> QED BY <1>1, <1>2, <1>3 DEF Covered

\* A read-back text is the text that was written.
LEMMA ReadBackText ==
  ASSUME NEW c \in Clip, ReadBack(c) \in Text
  PROVE  c \in Text /\ ReadBack(c) = c
<1>1. SUFFICES ASSUME c \notin Text PROVE FALSE
  BY <1>1 DEF ReadBack
<1>2. c.picture \in Picture  BY <1>1 DEF Clip, Image
<1>3. ReadBack(c) \in Image("pc")  BY <1>1, <1>2 DEF ReadBack, Image
<1> QED BY <1>3, WatcherAssumption DEF WatcherAssumption

\* Suppressing covers the new write and takes nothing from the rest.
LEMMA SuppressCovers ==
  ASSUME TypeOK, Covered, NEW w \in Writer, NEW c \in Clip, Suppress(w, c),
         UNCHANGED <<clip, by, watch>>
  PROVE  Covered'
<1> USE WatcherAssumption DEF WatcherAssumption
<1>1. /\ writing' = [writing EXCEPT ![w] = c] /\ writing'[w] = c
      /\ \A v \in Writer \ {w} : writing'[v] = writing[v]
  BY DEF Suppress, TypeOK
<1>2. /\ seen'[c] = TTL /\ \A d \in Clip : seen'[d] >= seen[d]
      /\ \A d \in Clip : seen[d] = TTL => seen'[d] = TTL
  BY DEF Suppress, TypeOK
<1>3. UNCHANGED <<clip, by, lastHash, polled, busy>>  BY DEF watch
<1>4. /\ polled.clip = NoClip => spanned' = spanned \ {w}
      /\ polled.clip # NoClip => spanned' = spanned \cup {w}
  BY DEF Suppress
<1>5. ASSUME NEW v \in Writer PROVE WriteCovered(v)'
  <2>1. CASE v = w
    <3>1. CASE polled.clip = NoClip  BY <1>1, <1>2, <1>3, <1>4, <2>1, <3>1 DEF WriteCovered
    <3>2. CASE polled.clip # NoClip
      <4>1. w \in spanned' /\ seen'[writing'[w]] >= TTL - 1  BY <1>1, <1>2, <1>4, <3>2
      <4> QED BY <2>1, <4>1 DEF WriteCovered
    <3> QED BY <3>1, <3>2
  <2>2. CASE v # w
    <3>1. writing'[v] = writing[v] /\ (v \in spanned' <=> v \in spanned)  BY <1>1, <1>4, <2>2
    <3>2. WriteCovered(v)  BY DEF Covered
    <3>3. writing[v] \in Text =>
            /\ seen[writing[v]] \in Int /\ seen'[writing[v]] \in Int
            /\ seen'[writing[v]] >= seen[writing[v]]
            /\ (seen[writing[v]] = TTL => seen'[writing[v]] = TTL)
      BY <1>2 DEF TypeOK, Clip, Suppress
    <3>4. TTL \in Int /\ lastHash' = lastHash /\ polled' = polled  BY <1>3
    <3>5. SUFFICES ASSUME writing[v] \in Text PROVE WriteCovered(v)'
      BY <3>1 DEF WriteCovered
    <3>6. CASE v \notin spanned /\ polled.clip = NoClip /\ seen[writing[v]] = TTL
      BY <3>1, <3>3, <3>4, <3>5, <3>6 DEF WriteCovered
    <3>7. CASE v \in spanned /\ seen[writing[v]] >= TTL - 1
      <4>1. seen'[writing[v]] >= TTL - 1  BY <3>3, <3>4, <3>5, <3>7
      <4> QED BY <3>1, <3>7, <4>1 DEF WriteCovered
    <3>8. CASE v \in spanned /\ polled.clip = NoClip /\ lastHash = writing[v]
      BY <3>1, <3>4, <3>8 DEF WriteCovered
    <3> QED BY <3>2, <3>5, <3>6, <3>7, <3>8 DEF WriteCovered
  <2> QED BY <2>1, <2>2
<1>6. ClipCovered'
  <2>1. clip \in Text => seen[clip] \in Int /\ seen'[clip] \in Int /\ seen'[clip] >= seen[clip]
    BY <1>2 DEF TypeOK, Clip, Suppress
  <2> QED BY <1>3, <2>1 DEF ClipCovered, Covered, TypeOK
<1>7. PollCovered'
  <2>1. polled.clip \in Text =>
          /\ seen[polled.clip] \in Int /\ seen'[polled.clip] \in Int
          /\ seen'[polled.clip] >= seen[polled.clip]
    BY <1>2 DEF TypeOK, Clip, Suppress
  <2> QED BY <1>3, <2>1 DEF PollCovered, Covered
<1> QED BY <1>5, <1>6, <1>7 DEF Covered

\* When a poll is due nothing being written has had one yet.
LEMMA PollDueCovers ==
  ASSUME TypeOK, Covered, PollDue, NEW w \in Writer
  PROVE  WriteCovered(w)'
<1> USE WatcherAssumption DEF WatcherAssumption
<1>1. CASE writing[w] \in Text
  <2>1. writing[w] # NoClip /\ writing[w] \in Clip  BY <1>1 DEF Clip
  <2>2. w \notin spanned /\ w \in spanned'  BY <2>1 DEF PollDue, Writing
  <2>3. seen[writing[w]] = TTL  BY <1>1, <2>2 DEF Covered, WriteCovered
  <2>4. seen'[writing[w]] >= TTL - 1  BY <2>1, <2>3 DEF PollDue, Aged, TypeOK
  <2>5. writing' = writing  BY DEF PollDue
  <2> QED BY <2>2, <2>4, <2>5 DEF WriteCovered
<1>2. CASE writing[w] \notin Text
  BY <1>2 DEF WriteCovered, PollDue
<1> QED BY <1>1, <1>2

\* Every step leaves what waits covered.
LEMMA CoveredStep == TypeOK /\ Covered /\ [Next]_vars => Covered'
<1> SUFFICES ASSUME TypeOK, Covered, [Next]_vars PROVE Covered'
  OBVIOUS
<1> USE WatcherAssumption DEF WatcherAssumption
<1>1. ASSUME NEW c \in Text \cup Image("pc"), UserCopies(c) PROVE Covered'
  BY <1>1 DEF UserCopies, watch, Covered, WriteCovered, ClipCovered, PollCovered
<1>2. ASSUME NEW s \in Session, NEW c \in Text \cup Image("phone"), Arrive(s, c) PROVE Covered'
  <2>1. c \in Clip /\ s \in Writer  BY DEF Clip, Writer
  <2>2. Suppress(s, c) /\ UNCHANGED <<clip, by, watch>>  BY <1>2 DEF Arrive
  <2> QED BY <2>1, <2>2, SuppressCovers
<1>3. ASSUME NEW t \in Text, Pick(t) PROVE Covered'
  <2>1. t \in Clip /\ Command \in Writer  BY DEF Clip, Writer
  <2>2. Suppress(Command, t) /\ UNCHANGED <<clip, by, watch>>  BY <1>3 DEF Pick
  <2> QED BY <2>1, <2>2, SuppressCovers
<1>4. ASSUME NEW w \in Writer, SetClipboard(w) PROVE Covered'
  <2>1. writing[w] \in Clip  BY <1>4 DEF SetClipboard, TypeOK
  <2>2. UNCHANGED <<lastHash, polled, busy, seen, spanned>> /\ clip' = ReadBack(writing[w])
    BY <1>4 DEF SetClipboard, watch
  <2>3. ASSUME NEW v \in Writer PROVE WriteCovered(v)'
    <3>1. writing'[v] \in Text => writing'[v] = writing[v]  BY <1>4 DEF SetClipboard, TypeOK, Clip
    <3> QED BY <2>2, <3>1 DEF Covered, WriteCovered
  <2>4. ClipCovered'
    <3>1. SUFFICES ASSUME clip' \in Text PROVE ClipCovered'
      BY DEF ClipCovered
    <3>2. writing[w] \in Text /\ clip' = writing[w]  BY <2>1, <2>2, <3>1, ReadBackText
    <3>3. WriteCovered(w)  BY DEF Covered
    <3>4. \/ seen[clip'] >= TTL - 1
          \/ polled.clip = NoClip /\ lastHash = clip'
      BY <3>2, <3>3 DEF WriteCovered
    <3>5. busy \in Nat /\ seen[clip'] \in Int  BY <2>1, <3>2 DEF TypeOK
    <3> QED BY <2>2, <3>4, <3>5 DEF ClipCovered
  <2>5. PollCovered'  BY <2>2 DEF Covered, PollCovered
  <2> QED BY <2>3, <2>4, <2>5 DEF Covered
<1>5. ASSUME NEW w \in Writer, WriteFails(w) PROVE Covered'
  <2>1. UNCHANGED <<clip, by, lastHash, polled, busy, seen, spanned>>
    BY <1>5 DEF WriteFails, watch
  <2>2. ASSUME NEW v \in Writer PROVE WriteCovered(v)'
    <3>1. writing'[v] \in Text => writing'[v] = writing[v]  BY <1>5 DEF WriteFails, TypeOK, Clip
    <3> QED BY <2>1, <3>1 DEF Covered, WriteCovered
  <2> QED BY <2>1, <2>2 DEF Covered, ClipCovered, PollCovered
<1>6. CASE PollReads
  <2>1. polled' = Reading(clip, by) /\ PollDue /\ busy' = 0 /\ polled.clip = NoClip
    BY <1>6 DEF PollReads, PollDue
  <2>2. polled'.clip = clip /\ polled'.by = by  BY <2>1 DEF Reading
  <2>3. UNCHANGED <<clip, by, lastHash>> /\ seen' = Aged  BY <2>1 DEF PollDue
  <2>4. ClipCovered'  BY <2>2, <2>3 DEF ClipCovered
  <2>5. PollCovered'
    <3>1. SUFFICES ASSUME by = "app", clip \in Text, clip # lastHash PROVE seen'[clip] >= 1
      BY <2>2, <2>3 DEF PollCovered
    <3>2. clip # NoClip /\ clip \in Clip  BY <3>1 DEF Clip
    <3>3. seen[clip] >= TTL - 1 - busy  BY <2>1, <3>1, <3>2 DEF Covered, ClipCovered
    <3>4. seen[clip] >= 2 /\ seen[clip] \in Int  BY <3>2, <3>3 DEF TypeOK
    <3> QED BY <2>3, <3>2, <3>4 DEF Aged
  <2> QED BY <2>1, <2>4, <2>5, PollDueCovers DEF Covered
<1>7. CASE PollBusy
  <2>1. PollDue /\ polled' = polled /\ polled.clip = NoClip  BY <1>7 DEF PollBusy, PollDue
  <2>2. UNCHANGED <<clip, by, lastHash>> /\ seen' = Aged  BY <2>1 DEF PollDue
  <2>3. ClipCovered'
    <3>1. SUFFICES ASSUME by = "app", clip \in Text, clip # lastHash
                   PROVE seen'[clip] >= TTL - 1 - busy'
      BY <2>1, <2>2 DEF ClipCovered
    <3>2. clip # NoClip /\ clip \in Clip  BY <3>1 DEF Clip
    <3>3. seen[clip] >= TTL - 1 - busy  BY <2>1, <3>1, <3>2 DEF Covered, ClipCovered
    <3>4. busy' = busy + 1 /\ busy < MaxBusy  BY <1>7, <3>2 DEF PollBusy
    <3>5. seen[clip] \in Int /\ busy \in Nat /\ busy <= MaxBusy  BY <3>2 DEF TypeOK
    <3>6. seen'[clip] = seen[clip] - 1  BY <2>2, <3>2, <3>3, <3>5 DEF Aged
    <3> QED BY <3>3, <3>4, <3>5, <3>6
  <2>4. PollCovered'  BY <2>1 DEF PollCovered, Clip
  <2> QED BY <2>1, <2>3, <2>4, PollDueCovers DEF Covered
<1>8. CASE PollDecides
  <2>1. polled.clip \in Clip /\ polled.clip # NoClip  BY <1>8 DEF PollDecides, TypeOK
  <2>2. polled'.clip = NoClip /\ UNCHANGED <<clip, by, busy, writing, spanned>>
    BY <1>8 DEF PollDecides, NoReading, Reading
  <2>3. /\ lastHash' = polled.clip
        /\ seen' \in [Clip -> 0 .. TTL]
        /\ \A d \in Clip : d # polled.clip => seen'[d] = seen[d]
    <3>1. CASE Unchanged  BY <3>1 DEF Unchanged, TypeOK
    <3>2. CASE Ignore  BY <2>1, <3>2 DEF Ignore, Consumed, TypeOK
    <3>3. CASE Announce  BY <3>3 DEF Announce, TypeOK
    <3> QED BY <1>8, <3>1, <3>2, <3>3 DEF PollDecides
  <2>4. ASSUME NEW w \in Writer PROVE WriteCovered(w)'
    <3>1. SUFFICES ASSUME writing[w] \in Text PROVE WriteCovered(w)'
      BY <2>2 DEF WriteCovered
    <3>2. writing[w] \in Clip  BY <3>1 DEF Clip
    <3>3. w \in spanned /\ seen[writing[w]] >= TTL - 1
      BY <2>1, <3>1 DEF Covered, WriteCovered
    <3>4. CASE writing[w] = polled.clip  BY <2>2, <2>3, <3>3, <3>4 DEF WriteCovered
    <3>5. CASE writing[w] # polled.clip
      <4>1. seen'[writing[w]] = seen[writing[w]]  BY <2>3, <3>2, <3>5
      <4> QED BY <2>2, <3>3, <4>1 DEF WriteCovered
    <3> QED BY <3>4, <3>5
  <2>5. ClipCovered'
    <3>1. SUFFICES ASSUME by = "app", clip \in Text, clip # polled.clip
                   PROVE  seen'[clip] >= TTL - 1 - busy
      BY <2>2, <2>3 DEF ClipCovered
    <3>2. clip \in Clip  BY <3>1 DEF Clip
    <3>3. seen[clip] >= TTL - 1 - busy  BY <2>1, <3>1 DEF Covered, ClipCovered
    <3> QED BY <2>3, <3>1, <3>2, <3>3
  <2>6. PollCovered'  BY <2>2 DEF PollCovered, Clip
  <2> QED BY <2>4, <2>5, <2>6 DEF Covered
<1>9. CASE Take \/ UNCHANGED vars
  <2>1. UNCHANGED <<clip, by, lastHash, polled, busy, seen, writing, spanned>>
    BY <1>9 DEF Take, vars, watch
  <2> QED BY <2>1 DEF Covered, WriteCovered, ClipCovered, PollCovered
<1> QED BY <1>1, <1>2, <1>3, <1>4, <1>5, <1>6, <1>7, <1>8, <1>9 DEF Next, Poll

\* Nothing is announced at first.
LEMMA NoTextEchoInit == Init => NoTextEcho
BY DEF Init, NoTextEcho, Announced

\* What is announced is the user's or a picture.
LEMMA AppendEcho ==
  ASSUME TypeOK, NoTextEcho, NEW r \in [clip : Clip, by : {"user", "app"}],
         channel' = Append(channel, r), r.clip \in Text => r.by = "user"
  PROVE  NoTextEcho'
<1>1. ASSUME NEW i \in DOMAIN channel', channel'[i].clip \in Text PROVE channel'[i].by = "user"
  <2>1. i \in 1 .. Len(channel) + 1  BY <1>1 DEF TypeOK
  <2>2. CASE i = Len(channel) + 1  BY <1>1, <2>2 DEF TypeOK
  <2>3. CASE i \in DOMAIN channel
    <3>1. channel'[i] = channel[i]  BY <2>3 DEF TypeOK
    <3> QED BY <1>1, <2>3, <3>1 DEF NoTextEcho, Announced
  <2>4. Len(channel) \in Nat /\ DOMAIN channel = 1 .. Len(channel)  BY DEF TypeOK
  <2>5. i = Len(channel) + 1 \/ i \in DOMAIN channel  BY <2>1, <2>4
  <2> QED BY <2>2, <2>3, <2>5
<1> QED BY <1>1 DEF NoTextEcho, Announced

\* No step announces a text of the app: Covered sees to the step that could.
LEMMA NoTextEchoStep == TypeOK /\ Covered /\ NoTextEcho /\ [Next]_vars => NoTextEcho'
<1> SUFFICES ASSUME TypeOK, Covered, NoTextEcho, [Next]_vars PROVE NoTextEcho'
  OBVIOUS
<1>1. CASE channel' = channel
  BY <1>1 DEF NoTextEcho, Announced
<1>2. CASE Take
  <2>1. channel \in Seq([clip : Clip, by : {"user", "app"}]) /\ channel # <<>>
    BY <1>2 DEF Take, TypeOK
  <2>2. \A i \in DOMAIN channel' : i + 1 \in DOMAIN channel /\ channel'[i] = channel[i + 1]
    BY <1>2, <2>1 DEF Take
  <2> QED BY <2>2 DEF NoTextEcho, Announced
<1>3. ASSUME NEW w \in Writer, SetClipboard(w), w = Command PROVE NoTextEcho'
  <2>1. Reading(writing[w], "user") \in [clip : Clip, by : {"user", "app"}]
    BY <1>3 DEF SetClipboard, TypeOK, Reading
  <2>2. channel' = Append(channel, Reading(writing[w], "user"))  BY <1>3 DEF SetClipboard
  <2>3. Reading(writing[w], "user").by = "user"  BY DEF Reading
  <2> QED BY <2>1, <2>2, <2>3, AppendEcho
<1>4. ASSUME PollDecides, Announce PROVE NoTextEcho'
  <2>1. polled \in [clip : Clip, by : {"user", "app"}]  BY <1>4 DEF PollDecides, TypeOK
  <2>2. polled.clip \in Text => polled.by = "user"
    BY <1>4, <2>1 DEF Announce, Covered, PollCovered
  <2> QED BY <1>4, <2>1, <2>2, AppendEcho DEF Announce
<1> QED BY <1>1, <1>2, <1>3, <1>4
     DEF Next, Poll, UserCopies, Arrive, Pick, SetClipboard, WriteFails, PollReads, PollBusy,
         PollDue, PollDecides, Unchanged, Ignore, vars

\* However writes, polls, failed reads and expiries interleave, the app never
\* announces a text that it put on the clipboard itself (clipboard.rs:28-46
\* and 153-179), as long as reads do not fail for the whole of a suppression.
THEOREM TextIsNeverEchoed == Spec => []NoTextEcho
<1>1. Init => TypeOK /\ Covered /\ NoTextEcho
  BY TypeInit, CoveredInit, NoTextEchoInit
<1>2. TypeOK /\ Covered /\ NoTextEcho /\ [Next]_vars => (TypeOK /\ Covered /\ NoTextEcho)'
  BY TypeStep, CoveredStep, NoTextEchoStep
<1> QED BY <1>1, <1>2, PTL DEF Spec

(***************************************************************************)
(* Ignored changes are paid for                                            *)
(***************************************************************************)
\* A change is ignored only at the cost of a suppression, and each one still
\* alive can pay.
Funded == IgnoresArePaidFor /\ \A c \in Clip : seen[c] > 0 => credit[c] >= 1

\* A new suppression comes with a credit of its own.
LEMMA SuppressFunds ==
  ASSUME TypeOK, Funded, NEW w \in Writer, NEW c \in Clip, Suppress(w, c)
  PROVE  Funded'
<1>1. /\ seen' = [seen EXCEPT ![c] = TTL] /\ credit' = [credit EXCEPT ![c] = credit[c] + 1]
  BY DEF Suppress
<1>2. ASSUME NEW d \in Clip PROVE credit'[d] >= 0 /\ (seen'[d] > 0 => credit'[d] >= 1)
  <2>1. credit[d] \in Int /\ credit[d] >= 0 /\ (seen[d] > 0 => credit[d] >= 1)
    BY DEF Funded, IgnoresArePaidFor, TypeOK
  <2>2. CASE d = c  BY <1>1, <2>1, <2>2 DEF TypeOK
  <2>3. CASE d # c  BY <1>1, <2>1, <2>3 DEF TypeOK
  <2> QED BY <2>2, <2>3
<1> QED BY <1>2 DEF Funded, IgnoresArePaidFor

\* Every step leaves each live suppression paid for.
LEMMA FundedStep == TypeOK /\ Funded /\ [Next]_vars => Funded'
<1> SUFFICES ASSUME TypeOK, Funded, [Next]_vars PROVE Funded'
  OBVIOUS
<1>1. CASE UNCHANGED <<seen, credit>>
  BY <1>1 DEF Funded, IgnoresArePaidFor
<1>2. ASSUME NEW s \in Session, NEW c \in Text \cup Image("phone"), Arrive(s, c) PROVE Funded'
  <2>1. c \in Clip /\ s \in Writer /\ Suppress(s, c)  BY <1>2 DEF Clip, Writer, Arrive
  <2> QED BY <2>1, SuppressFunds
<1>3. ASSUME NEW t \in Text, Pick(t) PROVE Funded'
  <2>1. t \in Clip /\ Command \in Writer /\ Suppress(Command, t)
    BY <1>3 DEF Clip, Writer, Pick
  <2> QED BY <2>1, SuppressFunds
<1>4. CASE PollDue /\ credit' = credit
  BY <1>4 DEF PollDue, Aged, Funded, IgnoresArePaidFor, TypeOK
<1>5. ASSUME PollDecides, Ignore PROVE Funded'
  <2>1. polled.clip \in Clip  BY <1>5 DEF PollDecides, TypeOK
  <2>2. /\ seen' = [seen EXCEPT ![polled.clip] = 0] /\ seen[polled.clip] > 0
        /\ credit' = [credit EXCEPT ![polled.clip] = credit[polled.clip] - 1]
    BY <1>5 DEF Ignore, Consumed
  <2>3. ASSUME NEW d \in Clip PROVE credit'[d] >= 0 /\ (seen'[d] > 0 => credit'[d] >= 1)
    <3>1. credit[d] \in Int /\ credit[d] >= 0 /\ (seen[d] > 0 => credit[d] >= 1)
      BY DEF Funded, IgnoresArePaidFor, TypeOK
    <3>2. CASE d = polled.clip  BY <2>2, <3>1, <3>2 DEF TypeOK
    <3>3. CASE d # polled.clip  BY <2>2, <3>1, <3>3 DEF TypeOK
    <3> QED BY <3>2, <3>3
  <2> QED BY <2>3 DEF Funded, IgnoresArePaidFor
<1> QED BY <1>1, <1>2, <1>3, <1>4, <1>5
     DEF Next, Poll, UserCopies, SetClipboard, WriteFails, PollReads, PollBusy,
         PollDue, PollDecides, Unchanged, Announce, Take, vars

\* Every change the watcher ignores is paid for by a suppression of its own
\* (should_ignore, clipboard.rs:37-45).
THEOREM IgnoredOnce == Spec => []IgnoresArePaidFor
<1>1. Init => TypeOK /\ Funded
  BY TypeInit DEF Init, Funded, IgnoresArePaidFor
<1>2. TypeOK /\ Funded /\ [Next]_vars => (TypeOK /\ Funded)'
  BY TypeStep, FundedStep
<1>3. Funded => IgnoresArePaidFor
  BY DEF Funded
<1> QED BY <1>1, <1>2, <1>3, PTL DEF Spec
=============================================================================
