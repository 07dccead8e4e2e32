------------------------------ MODULE Watcher -------------------------------
(***************************************************************************)
(* The PC's clipboard and the three threads that meet on it: the user's    *)
(* programs, the writers of this app (one inbound session at a time applies *)
(* what a phone sent, a command applies a history entry) and the watcher   *)
(* that polls for changes and announces them.  The suppressor is all that  *)
(* tells the app's writes from the user's: clipboard.rs, and its callers   *)
(* in lib.rs.                                                              *)
(*                                                                         *)
(* A hash is modelled by the content it is taken of.  Time is counted in   *)
(* polls of the watcher, half a second each.                               *)
(***************************************************************************)
EXTENDS Integers, FiniteSets, Sequences

CONSTANTS
  Text,         \* texts
  Picture,      \* pictures, as seen by a human
  NoClip,       \* nothing readable on the clipboard; no write, no reading
  Session,      \* inbound sessions
  Command,      \* the command thread: copy_to_clipboard, paste_from_overlay
  TTL,          \* polls after which a suppression has expired: 5 s / 500 ms
  MaxBusy,      \* polls in a row that find the clipboard unreadable
  MaxCopies,    \* bound: copies and history picks of the PC's user
  MaxArrivals,  \* bound: clips that arrive from the phones
  MaxFailures   \* bound: writes that fail

\* The bytes of a picture depend on who encoded it.
Image(encoder) == [picture : Picture, encoder : {encoder}]
Clip   == Text \cup Image("phone") \cup Image("pc")
Writer == Session \cup {Command}

\* Texts are not pictures; the clipboard is never unreadable for as long as a
\* suppression lasts.
ASSUME WatcherAssumption ==
  /\ Text \cap (Image("phone") \cup Image("pc")) = {}
  /\ NoClip \notin Clip
  /\ Command \notin Session
  /\ MaxBusy \in Nat /\ TTL \in Nat /\ TTL >= MaxBusy + 3
  /\ MaxCopies \in Nat /\ MaxArrivals \in Nat /\ MaxFailures \in Nat

VARIABLES
  clip,        \* what a read of the clipboard returns
  by,          \* who wrote it: "user" or "app"
  lastHash,    \* last_hash of the watcher
  seen,        \* polls left until the suppression of a clip expires; 0: none
  writing,     \* per writer: the clip it has suppressed and is about to set
  spanned,     \* writers whose write has a poll inside it
  polled,      \* what the watcher has read and not yet decided about, and who wrote it
  busy,        \* failed reads in a row
  channel,     \* announced, and not yet taken by the session
  exchanged,   \* ghost: the clip that last passed between the two ends
  credit,      \* ghost: suppressions of a clip minus ignored changes to it
  copies, arrivals, failures

watch  == <<lastHash, polled, busy>>
bounds == <<copies, arrivals, failures>>
vars   == <<clip, by, watch, seen, writing, spanned, channel, exchanged, credit, bounds>>

Writing == {w \in Writer : writing[w] # NoClip}
Reading(c, who) == [clip |-> c, by |-> who]
NoReading == Reading(NoClip, "user")

\* set_image stores pixels; read_any encodes them again.
ReadBack(c) == IF c \in Text THEN c ELSE [picture |-> c.picture, encoder |-> "pc"]

(***************************************************************************)
(* EchoSuppressor                                                          *)
(***************************************************************************)

\* Half a second less for every entry.
Aged == [c \in Clip |-> IF seen[c] > 0 THEN seen[c] - 1 ELSE 0]

\* Mutant of Consumed: should_ignore looks the entry up and leaves it.
ConsumedNot(c) == seen

Consumed(c) == [seen EXCEPT ![c] = 0]

\* suppress(); expired entries, which it purges, are 0 already.  A write that
\* starts while the watcher is between its read and its decision counts the
\* poll as its own.
Suppress(w, c) ==
  /\ writing[w] = NoClip
  /\ writing' = [writing EXCEPT ![w] = c]
  /\ seen' = [seen EXCEPT ![c] = TTL]
  /\ credit' = [credit EXCEPT ![c] = @ + 1]
  /\ spanned' = IF polled.clip = NoClip THEN spanned \ {w} ELSE spanned \cup {w}

(***************************************************************************)
(* Initial state: the watcher starts with what is on the clipboard         *)
(***************************************************************************)
Init ==
  /\ clip \in Text \cup {NoClip} /\ by = "user"
  /\ lastHash = clip
  /\ seen = [c \in Clip |-> 0]
  /\ writing = [w \in Writer |-> NoClip] /\ spanned = {}
  /\ polled = NoReading /\ busy = 0
  /\ channel = <<>> /\ exchanged = NoClip
  /\ credit = [c \in Clip |-> 0]
  /\ copies = 0 /\ arrivals = 0 /\ failures = 0

(***************************************************************************)
(* The user's programs and the app's writers                               *)
(***************************************************************************)
UserCopies(c) ==
  /\ copies < MaxCopies
  /\ copies' = copies + 1
  /\ clip' = c /\ by' = "user"
  /\ UNCHANGED <<watch, seen, writing, spanned, channel, exchanged, credit, arrivals, failures>>

\* on_clip of a session, up to the suppress() of apply_text or apply_image.
Arrive(s, c) ==
  /\ arrivals < MaxArrivals
  /\ arrivals' = arrivals + 1
  /\ Suppress(s, c)
  /\ exchanged' = c
  /\ UNCHANGED <<clip, by, watch, channel, copies, failures>>

\* copy_to_clipboard and paste_from_overlay, up to the same point.
Pick(t) ==
  /\ copies < MaxCopies
  /\ copies' = copies + 1
  /\ Suppress(Command, t)
  /\ UNCHANGED <<clip, by, watch, channel, exchanged, arrivals, failures>>

\* set_text or set_image succeeds; a command then sends the clip to the phones.
SetClipboard(w) ==
  /\ writing[w] # NoClip
  /\ clip' = ReadBack(writing[w]) /\ by' = "app"
  /\ writing' = [writing EXCEPT ![w] = NoClip]
  /\ \/ /\ w = Command
        /\ channel' = Append(channel, Reading(writing[w], "user"))
        /\ exchanged' = writing[w]
     \/ w # Command /\ UNCHANGED <<channel, exchanged>>
  /\ UNCHANGED <<watch, seen, spanned, credit, bounds>>

\* It fails: the caller returns early and the suppression stays.
WriteFails(w) ==
  /\ writing[w] # NoClip
  /\ failures < MaxFailures
  /\ failures' = failures + 1
  /\ writing' = [writing EXCEPT ![w] = NoClip]
  /\ UNCHANGED <<clip, by, watch, seen, spanned, channel, exchanged, credit, copies, arrivals>>

(***************************************************************************)
(* The watcher                                                             *)
(***************************************************************************)

\* A write takes less than the 500 ms between two polls: it spans one at most.
PollDue ==
  /\ polled.clip = NoClip
  /\ Writing \cap spanned = {}
  /\ seen' = Aged
  /\ spanned' = spanned \cup Writing
  /\ UNCHANGED <<clip, by, lastHash, writing, channel, exchanged, credit, bounds>>

PollReads ==
  /\ clip # NoClip
  /\ PollDue
  /\ polled' = Reading(clip, by)
  /\ busy' = 0

\* read_any() returns None: the clipboard is empty or held by another program.
PollBusy ==
  /\ busy < MaxBusy \/ clip = NoClip
  /\ PollDue
  /\ busy' = IF clip = NoClip THEN busy ELSE busy + 1
  /\ UNCHANGED polled

Unchanged ==
  /\ polled.clip = lastHash
  /\ UNCHANGED <<lastHash, seen, channel, exchanged, credit>>

\* Mutant of Ignore: last_hash is set only for what is announced.
IgnoreUnnoted ==
  /\ polled.clip # lastHash /\ seen[polled.clip] > 0
  /\ seen' = Consumed(polled.clip)
  /\ credit' = [credit EXCEPT ![polled.clip] = @ - 1]
  /\ UNCHANGED <<lastHash, channel, exchanged>>

Ignore ==
  /\ polled.clip # lastHash /\ seen[polled.clip] > 0
  /\ lastHash' = polled.clip
  /\ seen' = Consumed(polled.clip)
  /\ credit' = [credit EXCEPT ![polled.clip] = @ - 1]
  /\ UNCHANGED <<channel, exchanged>>

\* Mutant of Announce: the change is sent without being noted in last_hash.
AnnounceUnnoted ==
  /\ polled.clip # lastHash /\ seen[polled.clip] = 0
  /\ channel' = Append(channel, polled)
  /\ exchanged' = polled.clip
  /\ UNCHANGED <<lastHash, seen, credit>>

\* on_copy: the clip goes to every session through the broadcast channel.
Announce ==
  /\ polled.clip # lastHash /\ seen[polled.clip] = 0
  /\ lastHash' = polled.clip
  /\ channel' = Append(channel, polled)
  /\ exchanged' = polled.clip
  /\ UNCHANGED <<seen, credit>>

PollDecides ==
  /\ polled.clip # NoClip
  /\ Unchanged \/ Ignore \/ Announce
  /\ polled' = NoReading
  /\ UNCHANGED <<clip, by, busy, writing, spanned, bounds>>

\* A session takes the next clip from its receiver.
Take ==
  /\ channel # <<>>
  /\ channel' = Tail(channel)
  /\ UNCHANGED <<clip, by, watch, seen, writing, spanned, exchanged, credit, bounds>>

Poll == PollReads \/ PollBusy \/ PollDecides

Next ==
  \/ \E c \in Text \cup Image("pc") : UserCopies(c)
  \/ \E s \in Session, c \in Text \cup Image("phone") : Arrive(s, c)
  \/ \E t \in Text : Pick(t)
  \/ \E w \in Writer : SetClipboard(w) \/ WriteFails(w)
  \/ Poll
  \/ Take

Spec == Init /\ [][Next]_vars

\* The watcher's loop runs, a write ends, a session serves its channel.
FairSpec ==
  /\ Spec
  /\ WF_vars(Poll) /\ WF_vars(Take)
  /\ \A w \in Writer : WF_vars(SetClipboard(w) \/ WriteFails(w))

(***************************************************************************)
(* Properties                                                              *)
(***************************************************************************)

\* Every variable has its type.
TypeOK ==
  /\ clip \in Clip \cup {NoClip} /\ by \in {"user", "app"}
  /\ lastHash \in Clip \cup {NoClip}
  /\ seen \in [Clip -> 0 .. TTL]
  /\ writing \in [Writer -> Clip \cup {NoClip}]
  /\ spanned \in SUBSET Writer
  /\ polled \in [clip : Clip \cup {NoClip}, by : {"user", "app"}]
  /\ busy \in 0 .. MaxBusy
  /\ channel \in Seq([clip : Clip, by : {"user", "app"}])
  /\ exchanged \in Clip \cup {NoClip}
  /\ credit \in [Clip -> Int]
  /\ copies \in Nat /\ arrivals \in Nat /\ failures \in Nat

Announced == {channel[i] : i \in DOMAIN channel}

\* No text that the app itself put on the clipboard is announced to the
\* phones, however writes, polls and expiries interleave (watch and
\* EchoSuppressor, clipboard.rs:28-46 and 153-179).
NoTextEcho == \A r \in Announced : r.clip \in Text => r.by = "user"

\* A suppression pays for one ignored change, never for two: the copies a
\* user makes after it are announced (the test
\* suppressed_content_is_ignored_exactly_once, clipboard.rs:210-222).
IgnoresArePaidFor == \A c \in Clip : credit[c] >= 0

\* When the user stops copying, the watcher comes to know what is there: no
\* order of polls and writes makes it miss the last content for good.
CatchesUp == <>[](clip = lastHash)

\* What docs/architecture.md:49-51 says of a user who copies the same text
\* again by hand: it must sync.  Nothing need be sent when it is what passed
\* last between the two ends, or is being replaced already.
RecopySyncs ==
  [][polled = Reading(clip, "user") /\ by = "user" /\ Writing = {}
       /\ polled.clip # NoClip /\ Ignore => exchanged = clip]_vars
=============================================================================
