------------------------------ MODULE Simulator -----------------------------
(***************************************************************************)
(* The demonstration on the website (SyncSimulator.tsx): a PC panel with a *)
(* watcher, a phone panel, and one packet that flies between them.         *)
(*                                                                         *)
(* React renders what a click or a keystroke sets before the next event,   *)
(* and what a timer or an animation sets later: a handler and a timer act  *)
(* on the rendered values, a ref on the present one.                       *)
(***************************************************************************)
EXTENDS Naturals, Sequences

CONSTANTS
  Text,        \* what is typed on either side, and the captions of images
  Blank,       \* a text of white space
  First,       \* the text in the PC panel when the page opens
  MaxClips,    \* the clips that the list keeps (12)
  MaxPushes,   \* bound: packets sent
  MaxTyped,    \* bound: edits and switches of the watcher
  MaxCopies    \* bound: copies from the list

VARIABLES
  pcText, busy,  \* what has been set
  seen,          \* what is rendered of the two
  autoWatch,     \* the switch of the watcher
  lastSentRef,   \* the ref beside them
  timer,         \* <<>>, or the rendered values that the watcher's timer closed over
  flights,       \* packets in the air, with what their landing closed over
  clips,         \* the list on the phone
  pcInbox,       \* whether the PC shows something received
  copied, marks, \* the row with the tick, and the timers that take it away
  causes,        \* [pasted, overlap]: for what the properties except
  bounds         \* [pushes, typed, copies]
vars == <<pcText, busy, seen, autoWatch, lastSentRef, timer, flights, clips,
          pcInbox, copied, marks, causes, bounds>>

-----------------------------------------------------------------------------
Seen(text, b) == [text |-> text, busy |-> b]
Packet(to, kind, text, shown) ==
  [to |-> to, kind |-> kind, text |-> text, shown |-> shown]

\* The effect of the watcher: cleared, and set again while it is switched on.
Armed(on, values) == IF on THEN <<values>> ELSE <<>>

\* The list is headed by the newest and cut.  Ids are times, no two alike.
Row(id, origin) == [id |-> id, origin |-> origin]
Added(row) ==
  LET all == <<row>> \o clips IN
  SubSeq(all, 1, IF Len(all) > MaxClips THEN MaxClips ELSE Len(all))

Init ==
  /\ pcText = First /\ busy = FALSE
  /\ seen = Seen(First, FALSE)
  /\ autoWatch = TRUE /\ lastSentRef = First
  /\ timer = <<Seen(First, FALSE)>>
  /\ flights = <<>>
  /\ clips = <<Row(0, "local")>>
  /\ pcInbox = FALSE
  /\ copied = {} /\ marks = <<>>
  /\ causes = [pasted |-> FALSE, overlap |-> FALSE]
  /\ bounds = [pushes |-> 0, typed |-> 0, copies |-> 0]

-----------------------------------------------------------------------------
(* The visitor *)

Type(t) ==
  /\ bounds.typed < MaxTyped /\ t # seen.text
  /\ bounds' = [bounds EXCEPT !.typed = @ + 1]
  /\ pcText' = t /\ seen' = [seen EXCEPT !.text = t]
  /\ timer' = Armed(autoWatch, seen')
  /\ causes' = [causes EXCEPT !.pasted = FALSE]
  /\ UNCHANGED <<busy, autoWatch, lastSentRef, flights, clips, pcInbox, copied,
                 marks>>

ToggleWatcher ==
  /\ bounds.typed < MaxTyped
  /\ bounds' = [bounds EXCEPT !.typed = @ + 1]
  /\ autoWatch' = ~autoWatch
  /\ timer' = Armed(autoWatch', seen)
  /\ UNCHANGED <<pcText, busy, seen, lastSentRef, flights, clips, pcInbox,
                 copied, marks, causes>>

\* setBusy(true) and fly(), for either direction.
Fly(packet) ==
  /\ bounds.pushes < MaxPushes /\ packet.text # Blank
  /\ bounds' = [bounds EXCEPT !.pushes = @ + 1]
  /\ busy' = TRUE
  /\ causes' = [causes EXCEPT !.overlap = @ \/ flights # <<>>]
  /\ flights' = Append(flights, packet)

\* "Push to phone": pushToPhone() of the rendered text.
PushToPhone ==
  /\ ~seen.busy
  /\ Fly(Packet("phone", "text", seen.text, seen.text))
  /\ lastSentRef' = seen.text
  /\ seen' = [seen EXCEPT !.busy = TRUE]
  /\ timer' = Armed(autoWatch, seen')
  /\ UNCHANGED <<pcText, autoWatch, clips, pcInbox, copied, marks>>

\* pushToPc().
PushToPc(kind, t) ==
  /\ ~seen.busy
  /\ Fly(Packet("pc", kind, t, seen.text))
  /\ seen' = [seen EXCEPT !.busy = TRUE]
  /\ timer' = Armed(autoWatch, seen')
  /\ UNCHANGED <<pcText, autoWatch, lastSentRef, clips, pcInbox, copied, marks>>

\* The buttons of the phone's tabs.  The caption of an image and the words of a
\* notification are texts like any other.
SendText(t) == PushToPc("text", t)
SyncScreenshot(t) == PushToPc("image", t)
MirrorNotification(t) == PushToPc("notification", t)

\* A row of the list is copied; the browser may refuse.
CopyRow(i) ==
  /\ bounds.copies < MaxCopies
  /\ bounds' = [bounds EXCEPT !.copies = @ + 1]
  /\ copied' = {clips[i].id} /\ marks' = Append(marks, clips[i].id)
  /\ UNCHANGED <<pcText, busy, seen, autoWatch, lastSentRef, timer, flights,
                 clips, pcInbox, causes>>

-----------------------------------------------------------------------------
(* Timers, animations and renders *)

\* 900 ms after the last change that the watcher depends on.  The text and busy
\* are those that were rendered then.
WatcherFires ==
  /\ timer # <<>>
  /\ timer' = <<>>
  /\ LET it == timer[1] IN
       IF it.text # Blank /\ it.text # lastSentRef /\ ~it.busy
         THEN /\ Fly(Packet("phone", "text", it.text, it.text))
              /\ lastSentRef' = it.text
         ELSE UNCHANGED <<busy, flights, causes, bounds, lastSentRef>>
  /\ UNCHANGED <<pcText, seen, autoWatch, clips, pcInbox, copied, marks>>

LandOnPhone(f) ==
  /\ clips' = Added(Row(bounds.pushes - Len(flights) + 1, "pc"))
  /\ UNCHANGED <<pcText, lastSentRef, pcInbox, causes>>

\* Mutant of LandOnPc: the watcher is not told.
LandOnPcUnnoted(f) ==
  /\ pcText' = IF f.kind = "text" THEN f.text ELSE f.shown
  /\ pcInbox' = TRUE
  /\ clips' = Added(Row(bounds.pushes - Len(flights) + 1, "phone"))
  /\ causes' = [causes EXCEPT !.pasted = f.kind = "text"]
  /\ UNCHANGED lastSentRef

\* A text takes the place of the PC's.  Another kind does not, but the text that
\* was rendered when it was sent is set again.
LandOnPc(f) ==
  /\ lastSentRef' = f.text
  /\ pcText' = IF f.kind = "text" THEN f.text ELSE f.shown
  /\ pcInbox' = TRUE
  /\ clips' = Added(Row(bounds.pushes - Len(flights) + 1, "phone"))
  /\ causes' = [causes EXCEPT !.pasted = f.kind = "text"]

Land ==
  /\ flights # <<>>
  /\ IF Head(flights).to = "pc" THEN LandOnPc(Head(flights))
                                ELSE LandOnPhone(Head(flights))
  /\ flights' = Tail(flights) /\ busy' = FALSE
  /\ UNCHANGED <<seen, autoWatch, timer, copied, marks, bounds>>

\* What a timer or a landing set is rendered, and the effect runs again if the
\* watcher depends on it.
Render ==
  /\ seen # Seen(pcText, busy)
  /\ seen' = Seen(pcText, busy)
  /\ timer' = Armed(autoWatch, seen')
  /\ UNCHANGED <<pcText, busy, autoWatch, lastSentRef, flights, clips, pcInbox,
                 copied, marks, causes, bounds>>

\* 1400 ms after a copy, unless another row has the tick by then.
MarkExpires ==
  /\ marks # <<>> /\ marks' = Tail(marks)
  /\ copied' = copied \ {Head(marks)}
  /\ UNCHANGED <<pcText, busy, seen, autoWatch, lastSentRef, timer, flights,
                 clips, pcInbox, causes, bounds>>

\* A row of the list, with a tick where the button to copy was.
Ticked(row) == row.id \in copied

Next ==
  \/ \E t \in Text \cup {Blank} : Type(t)
  \/ \E t \in Text : SendText(t) \/ SyncScreenshot(t) \/ MirrorNotification(t)
  \/ \E i \in DOMAIN clips : CopyRow(i)
  \/ ToggleWatcher \/ PushToPhone
  \/ WatcherFires \/ Land \/ Render \/ MarkExpires

Spec == Init /\ [][Next]_vars

-----------------------------------------------------------------------------
(* Properties *)

\* The watcher loses nothing: when it is on and the page is at rest, what the PC
\* panel shows has been sent or came from the phone, although a click, a landing
\* or a render may have used up its timer; but for two packets in the air
\* (SyncSimulator.tsx:153-159).
WatcherKeepsUp ==
  /\ autoWatch /\ timer = <<>> /\ flights = <<>>
  /\ seen = Seen(pcText, busy) /\ ~causes.overlap
  => pcText \in {Blank, lastSentRef}

\* A text that came from the phone is not sent back, unless two packets were in
\* the air, which a click before the watcher's push is rendered allows.
NoEcho == causes.pasted /\ ~causes.overlap => pcText = lastSentRef

\* The tick on a copied row goes away, unless the list has dropped the row: some
\* timer is left that takes it.
TickGoes ==
  \A i \in DOMAIN clips : Ticked(clips[i]) => \E j \in DOMAIN marks : marks[j] = clips[i].id

SimulatorHonest == WatcherKeepsUp /\ NoEcho /\ TickGoes
=============================================================================
