---------------------------- MODULE DesktopClips ----------------------------
(***************************************************************************)
(* The clipboard tab of the PC's window (App.tsx): the list it keeps from  *)
(* get_history and the clip events, its limit and "Clear history", and the *)
(* button that copies an entry back.  Entries are recorded and announced   *)
(* by several threads (lib.rs); commands run in order, and events are not  *)
(* in step with their answers.  The history may have been loaded from the  *)
(* file, and the quick panel pins, unpins and deletes, which tells no one. *)
(***************************************************************************)
EXTENDS Ranks, Sequences, SequencesExt

CONSTANTS
  Recorder,     \* threads that record: the watcher, and one per session
  Text,
  MaxKept,      \* entries the window keeps when a clip comes, 50 in the code
  Limit,        \* positions of the slider
  Loaded,       \* histories that the start may find in history.json
  MaxClips,     \* bound: clips
  MaxUses,      \* bound: uses of the buttons, the slider and the quick panel
  MaxUnderWay   \* bound: commands and answers under way when the user acts

VARIABLES
  store,        \* the history of lib.rs, and its limit
  limit,
  emitting,     \* per thread: what it has recorded and not announced, or NoClip
  calls, answers, events, listening,
  history,      \* the window's list
  copied, timers, \* the entry that is marked "Copied", and the 1.4 s timers
  causes,       \* ghost: why the list may lack an entry, or be out of order
  favoured,     \* ghost: entries that had ever been pinned when the list was read
  clips, uses

link == <<calls, answers, events, listening>>
window == <<history, copied, timers>>
bounds == <<clips, uses>>
ghosts == <<causes, favoured>>
vars == <<store, limit, emitting, link, window, ghosts, bounds>>

NoClip == [id |-> 0, text |-> 0, pinned |-> FALSE]
Call(do, arg) == [do |-> do, arg |-> arg]
Upto(q, n) == SubSeq(q, 1, IF Len(q) < n THEN Len(q) ELSE n)
Without(q, id) == Retain(q, {k \in DOMAIN q : q[k].id # id})
Others(q, t) == Retain(q, {k \in DOMAIN q : q[k].text # t})
Ids(q) == {q[k].id : k \in DOMAIN q}
Pinned(q) == {k \in DOMAIN q : q[k].pinned}
Free(q) == DOMAIN q \ Pinned(q)

\* Newest first, but for the entries F.
Falling(q, F) == \A k, l \in DOMAIN q : k < l => q[k].id \in F \/ q[k].id > q[l].id

\* The effect of the mount reads the history first, and listens after. What is loaded
\* was left by an earlier run, in which the entries favoured had been pinned.
Init ==
  /\ store \in Loaded /\ clips = Len(store) /\ limit \in Limit
  /\ favoured \in SUBSET Ids(store)
  /\ Falling(store, favoured) /\ \A k \in Pinned(store) : store[k].id \in favoured
  /\ emitting = [r \in Recorder |-> NoClip]
  /\ calls = <<Call("get_history", 0), Call("listen", 0)>>
  /\ answers = <<>> /\ events = <<>> /\ listening = FALSE
  /\ history = <<>> /\ copied = 0 /\ timers = 0
  /\ causes = {} /\ uses = 0

(***************************************************************************)
(* Threads                                                                 *)
(***************************************************************************)

\* position(|e| !e.pinned).unwrap_or(0): above the pins when all are pinned.
InsertPosition(q) == IF Free(q) = {} THEN 1 ELSE Foremost(Free(q))

\* Pins stay; of the rest, as many as the limit leaves room for.
Trim(q, n) ==
  LET room == n - Cardinality(Pinned(q))
  IN Retain(q, Pinned(q) \cup {k \in Free(q) : Rank(Free(q), k) <= room})

Recorded(q, e, n) ==
  LET others == Others(q, e.text) IN Trim(InsertAt(others, InsertPosition(others), e), n)

\* App::record
Record(r, t) ==
  /\ emitting[r] = NoClip /\ clips < MaxClips /\ clips' = clips + 1
  /\ LET new == [id |-> clips + 1, text |-> t, pinned |-> FALSE] IN
     /\ store' = Recorded(store, new, limit)
     /\ emitting' = [emitting EXCEPT ![r] = new]
  /\ UNCHANGED <<limit, link, window, ghosts, uses>>

\* What other threads have recorded later, or the window knows by now.
Announcements ==
  {emitting[r].id : r \in Recorder} \cup Ids(events) \cup Ids(history)
    \cup UNION {Ids(answers[k].list) : k \in DOMAIN answers}

\* What the first look has found, or is still to find.
Reading == \E k \in DOMAIN calls : calls[k].do = "get_history"
Read ==
  IF Reading THEN Ids(store)
  ELSE Ids(history) \cup UNION {Ids(answers[k].list) : k \in DOMAIN answers}

\* The event of a clip that another thread has overtaken is out of order.
Emit(r) ==
  /\ emitting[r] # NoClip
  /\ events' = IF listening THEN Append(events, emitting[r]) ELSE events
  /\ emitting' = [emitting EXCEPT ![r] = NoClip]
  /\ causes' = causes \cup (IF listening \/ emitting[r].id \in Read THEN {} ELSE {"missed"})
                      \cup (IF \E id \in Announcements : id > emitting[r].id
                            THEN {"overtaken"} ELSE {})
  /\ UNCHANGED <<favoured, store, limit, calls, answers, listening, window, bounds>>

\* The quick panel changes an entry.
Elsewhere(id) == id \in Ids(store) /\ uses < MaxUses /\ uses' = uses + 1

DeleteElsewhere(id) ==
  /\ Elsewhere(id)
  /\ store' = Without(store, id)
  /\ UNCHANGED <<limit, emitting, link, window, ghosts, clips>>

\* pin_entry and unpin_entry: the entry moves to the top, or below the pins.
PinElsewhere(id, pin) ==
  /\ Elsewhere(id)
  /\ LET e == [store[Foremost({k \in DOMAIN store : store[k].id = id})] EXCEPT !.pinned = pin]
         others == Without(store, id)
     IN store' = InsertAt(others, IF pin THEN 1 ELSE InsertPosition(others), e)
  /\ favoured' = favoured \cup (IF Reading THEN {id} ELSE {})
  /\ UNCHANGED <<limit, emitting, link, window, causes, clips>>

(***************************************************************************)
(* Commands                                                                *)
(***************************************************************************)
Running(do) == calls # <<>> /\ Head(calls).do = do /\ calls' = Tail(calls)
Reply(list) == answers' = Append(answers, [to |-> Head(calls), list |-> list])

RunRead ==
  /\ Running("get_history") /\ Reply(store)
  /\ UNCHANGED <<store, limit, emitting, events, listening, window, ghosts, bounds>>

RunListen ==
  /\ Running("listen") /\ listening' = TRUE
  /\ UNCHANGED <<store, limit, emitting, answers, events, window, ghosts, bounds>>

RunClear ==
  /\ Running("clear_history") /\ Reply(<<>>)
  /\ store' = <<>>
  /\ UNCHANGED <<limit, emitting, events, listening, window, ghosts, bounds>>

\* The list is cut as it is, pins first. Nothing is, and the window told of an error,
\* when the settings cannot be saved; the limit is in force all the same.
RunLimit ==
  /\ Running("set_history_limit") /\ limit' = Head(calls).arg
  /\ \/ Reply(<<>>) /\ store' = Upto(store, limit')
     \/ UNCHANGED <<answers, store>>
  /\ UNCHANGED <<emitting, events, listening, window, ghosts, bounds>>

\* The write is suppressed, so nothing is recorded.
RunCopy ==
  /\ Running("copy_to_clipboard") /\ (Reply(<<>>) \/ UNCHANGED answers)
  /\ UNCHANGED <<store, limit, emitting, events, listening, window, ghosts, bounds>>

(***************************************************************************)
(* The window                                                              *)
(***************************************************************************)
Answered(do) == answers # <<>> /\ Head(answers).to.do = do /\ answers' = Tail(answers)

\* The window lets go of what the backend still has.
Loses(why) == causes' = IF (Ids(history) \ Ids(history')) \cap Ids(store) = {}
                        THEN causes ELSE causes \cup {why}

\* An answer that comes after the events of newer clips drops them.
Listed ==
  /\ Answered("get_history")
  /\ history' = Head(answers).list
  /\ Loses("missed")
  /\ UNCHANGED <<favoured, store, limit, emitting, calls, events, listening, copied, timers, bounds>>

\* Mutant of Shown: an entry that is there already stays.
ShownTwice(e) == Upto(<<e>> \o history, MaxKept)

Shown(e) == Upto(<<e>> \o Without(history, e.id), MaxKept)

OnClip ==
  /\ events # <<>> /\ events' = Tail(events)
  /\ history' = Shown(Head(events))
  /\ Loses("cut")
  /\ UNCHANGED <<favoured, store, limit, emitting, calls, answers, listening, copied, timers, bounds>>

\* A clip that came while the list was being cleared goes from the window only.
Cleared ==
  /\ Answered("clear_history")
  /\ history' = <<>>
  /\ Loses("missed")
  /\ UNCHANGED <<favoured, store, limit, emitting, calls, events, listening, copied, timers, bounds>>

Limited ==
  /\ Answered("set_history_limit")
  /\ history' = Upto(history, Head(answers).to.arg)
  /\ Loses("cut")
  /\ UNCHANGED <<favoured, store, limit, emitting, calls, events, listening, copied, timers, bounds>>

Copied ==
  /\ Answered("copy_to_clipboard")
  /\ copied' = Head(answers).to.arg /\ timers' = timers + 1
  /\ UNCHANGED <<store, limit, emitting, calls, events, listening, history, ghosts, bounds>>

\* Any timer takes the mark away.
CopiedOver ==
  /\ timers > 0 /\ timers' = timers - 1 /\ copied' = 0
  /\ UNCHANGED <<store, limit, emitting, link, history, ghosts, bounds>>

Use(do, arg) ==
  /\ Len(calls) + Len(answers) < MaxUnderWay
  /\ uses < MaxUses /\ uses' = uses + 1
  /\ calls' = Append(calls, Call(do, arg))
  /\ UNCHANGED <<store, limit, emitting, answers, events, listening, window, ghosts, clips>>

ClearHistory == Use("clear_history", 0)
ChangeHistoryLimit(n) == Use("set_history_limit", n)
CopyBack(id) == id \in Ids(history) /\ Use("copy_to_clipboard", id)

Next ==
  \/ \E r \in Recorder : Emit(r) \/ \E t \in Text : Record(r, t)
  \/ \E id \in 1..clips : DeleteElsewhere(id) \/ CopyBack(id)
       \/ \E pin \in BOOLEAN : PinElsewhere(id, pin)
  \/ RunRead \/ RunListen \/ RunClear \/ RunLimit \/ RunCopy
  \/ Listed \/ OnClip \/ Cleared \/ Limited \/ Copied \/ CopiedOver
  \/ ClearHistory \/ \E n \in Limit : ChangeHistoryLimit(n)

Spec == Init /\ [][Next]_vars

(***************************************************************************)
(* Properties                                                              *)
(***************************************************************************)
Announced == events = <<>> /\ \A r \in Recorder : emitting[r] = NoClip

\* "Copied on either device, newest first" (App.tsx:548), with two exceptions of the
\* code: an entry stands above newer ones if it had been pinned, in an earlier run or in
\* this one, before the window read the list, as get_history gives the pins first; and a
\* clip does whose thread announced it after another thread had announced a newer one.
\* Both last until the next start (lib.rs:97-120, App.tsx:123-128).
NewestFirst == "overtaken" \notin causes => Falling(history, favoured)

\* The window lacks an entry of the backend only if its list was cut to its
\* size or to a limit, or if the clip fell between its first look and its
\* listeners, or into an answer that was already on its way (App.tsx:120-128).
NothingMissing ==
  Announced /\ calls = <<>> /\ answers = <<>> /\ causes \cap {"missed", "cut"} = {}
    => Ids(store) \subseteq Ids(history)

\* The tab is newest first and lacks nothing that the backend has, each as far as said
\* above. It may still show what the backend has let go of: what was deleted elsewhere,
\* copied again, or trimmed.
ClipsHonest == NewestFirst /\ NothingMissing
=============================================================================
