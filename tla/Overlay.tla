------------------------------- MODULE Overlay -------------------------------
(***************************************************************************)
(* The quick panel of the PC (Overlay.tsx): the list it keeps of its own,  *)
(* its search, cursor and grouping, against the history of lib.rs.         *)
(*                                                                         *)
(* Commands run in order and are answered in order; events come in order   *)
(* too, but not in step with the answers.                                  *)
(***************************************************************************)
EXTENDS Ranks, Sequences

CONSTANTS
  Text,
  Matching,     \* texts that a query finds
  MaxResults,   \* rows the panel has, 40 in the code
  MaxKept,      \* entries it keeps when a clip comes, 50 in the code
  MaxClips,     \* bound: clips recorded, and changes made in the other window
  MaxEdits,     \* bound: pins, unpins, deletes and pastes
  MaxOpens,     \* bound: times the panel is opened
  MaxUnderWay   \* bound: commands and answers under way when the user acts

VARIABLES
  store,        \* the history of lib.rs
  visible,      \* the panel is on the screen
  calls, answers, events,
  history, query, cursor, hoveredId,
  clean,        \* ghost: neither a clip nor the other window has changed the history since
                \* the list was last read
  mixed,        \* ghost: a clip was put above pins, as every entry had one
  below,        \* ghost: the arrow down was pressed on an empty list
  clips, edits, opens

panel == <<history, query, cursor, hoveredId>>
link == <<calls, answers, events>>
bounds == <<clips, edits, opens>>
vars == <<store, visible, link, panel, clean, mixed, below, bounds>>

Entry(id, t) == [id |-> id, text |-> t, pinned |-> FALSE]
Call(do, id) == [do |-> do, id |-> id]
Read == Call("get_history", 0)

\* The mount reads the list; the panel is hidden until it is called.
Init ==
  /\ store = <<>> /\ visible = FALSE
  /\ calls = <<Read>> /\ answers = <<>> /\ events = <<>>
  /\ history = <<>> /\ query = FALSE /\ cursor = 0 /\ hoveredId = 0
  /\ clean = TRUE /\ mixed = FALSE /\ below = FALSE
  /\ clips = 0 /\ edits = 0 /\ opens = 0

(***************************************************************************)
(* What the panel shows                                                    *)
(***************************************************************************)
Results(h, q) ==
  LET found == IF q THEN Retain(h, {k \in DOMAIN h : h[k].text \in Matching}) ELSE h
  IN SubSeq(found, 1, IF Len(found) < MaxResults THEN Len(found) ELSE MaxResults)
results == Results(history, query)
pinnedItems == Retain(results, {k \in DOMAIN results : results[k].pinned})
unpinnedItems == Retain(results, {k \in DOMAIN results : ~results[k].pinned})

\* From the top: flat while searching, else the pins first.
Rows == IF query THEN results ELSE pinnedItems \o unpinnedItems
Row(id) == LET at == {k \in DOMAIN Rows : Rows[k].id = id} IN IF at = {} THEN 0 ELSE Foremost(at)

\* The effect on results.length pulls the cursor back into the list.
Cursor(h, q, c) ==
  LET n == Len(Results(h, q))
      last == IF n = 0 THEN 0 ELSE n - 1
  IN IF n = Len(results) \/ c < last THEN c ELSE last

ShowList(h) == history' = h /\ cursor' = Cursor(h, query, cursor)

(***************************************************************************)
(* The backend                                                             *)
(***************************************************************************)
AllPinned(q) == q # <<>> /\ \A k \in DOMAIN q : q[k].pinned
Below(q, e) ==
  LET free == {k \in DOMAIN q : ~q[k].pinned}
      at == IF free = {} THEN 1 ELSE Foremost(free)
  IN SubSeq(q, 1, at - 1) \o <<e>> \o SubSeq(q, at, Len(q))
Without(q, id) == Retain(q, {k \in DOMAIN q : q[k].id # id})

\* App::record, and the event for every window.
Recorded(t) ==
  /\ clips < MaxClips /\ clips' = clips + 1
  /\ LET new == Entry(clips + 1, t)
         others == Retain(store, {k \in DOMAIN store : store[k].text # t})
     IN /\ store' = Below(others, new)
        /\ events' = Append(events, [name |-> "clip", entry |-> new])
        /\ clean' = FALSE
        /\ mixed' = (mixed \/ AllPinned(others))
  /\ UNCHANGED <<visible, calls, answers, panel, below, edits, opens>>

\* clear_history and set_history_limit of the other window, which tells the panel nothing.
ChangedElsewhere ==
  /\ clips < MaxClips /\ clips' = clips + 1
  /\ \E n \in 0 .. Len(store) - 1 : store' = SubSeq(store, 1, n)
  /\ clean' = FALSE
  /\ UNCHANGED <<visible, link, panel, mixed, below, edits, opens>>

Running(do) == calls # <<>> /\ Head(calls).do = do /\ calls' = Tail(calls)
\* With the number of such changes by then, at which only the ghosts look.
Reply(list) == answers' = Append(answers, [to |-> Head(calls), list |-> list, clips |-> clips])

RunRead ==
  /\ Running("get_history")
  /\ Reply(store)
  /\ UNCHANGED <<store, visible, events, panel, clean, mixed, below, bounds>>

\* pin_entry and unpin_entry; the entry may be gone by now.
RunPin(pin) ==
  /\ Running(IF pin THEN "pin_entry" ELSE "unpin_entry")
  /\ LET at == {k \in DOMAIN store : store[k].id = Head(calls).id}
         others == Without(store, Head(calls).id)
     IN store' = IF at = {} THEN store
                 ELSE LET e == [store[Foremost(at)] EXCEPT !.pinned = pin] IN
                      IF pin THEN <<e>> \o others ELSE Below(others, e)
  /\ mixed' = (mixed \/ (~pin /\ AllPinned(Without(store, Head(calls).id))))
  /\ Reply(<<>>)
  /\ UNCHANGED <<visible, events, panel, clean, below, bounds>>

RunDelete ==
  /\ Running("delete_entry")
  /\ store' = Without(store, Head(calls).id)
  /\ Reply(<<>>)
  /\ UNCHANGED <<visible, events, panel, clean, mixed, below, bounds>>

\* paste_from_overlay hides the panel; the write is not announced.
RunPaste ==
  /\ Running("paste_from_overlay")
  /\ visible' = FALSE
  /\ Reply(<<>>)
  /\ UNCHANGED <<store, events, panel, clean, mixed, below, bounds>>

\* toggle_overlay: the focus is an event of the window.
Open ==
  /\ ~visible /\ opens < MaxOpens /\ opens' = opens + 1
  /\ visible' = TRUE
  /\ events' = Append(events, [name |-> "focus"])
  /\ UNCHANGED <<store, calls, answers, panel, clean, mixed, below, clips, edits>>

\* The shortcut again, Escape, or a click elsewhere.
Hide ==
  /\ visible /\ visible' = FALSE
  /\ UNCHANGED <<store, link, panel, clean, mixed, below, bounds>>

(***************************************************************************)
(* The panel                                                               *)
(***************************************************************************)

\* Only the id is compared, and a clip comes above the pins.
OnClip ==
  /\ events # <<>> /\ Head(events).name = "clip" /\ events' = Tail(events)
  /\ LET e == Head(events).entry
         list == <<e>> \o Without(history, e.id)
     IN ShowList(SubSeq(list, 1, IF Len(list) < MaxKept THEN Len(list) ELSE MaxKept))
  /\ clean' = FALSE
  /\ UNCHANGED <<store, visible, calls, answers, query, hoveredId, mixed, below, bounds>>

OnFocus ==
  /\ events # <<>> /\ Head(events).name = "focus" /\ events' = Tail(events)
  /\ calls' = Append(calls, Read)
  /\ query' = FALSE /\ cursor' = 0 /\ hoveredId' = 0
  /\ UNCHANGED <<store, visible, answers, history, clean, mixed, below, bounds>>

Answered(do) == answers # <<>> /\ Head(answers).to.do = do /\ answers' = Tail(answers)

\* Events and answers are not in step: the list may be older than a clip the
\* panel has shown, which it then drops, or newer than one still to come.
Listed ==
  /\ Answered("get_history")
  /\ ShowList(Head(answers).list)
  /\ clean' = /\ Head(answers).clips = clips
              /\ \A k \in DOMAIN events : events[k].name # "clip"
  /\ UNCHANGED <<store, visible, calls, events, query, hoveredId, mixed, below, bounds>>

\* Mutant of Pinned: the list is not read again.
PinnedUnread ==
  /\ Answered("pin_entry") \/ Answered("unpin_entry")
  /\ UNCHANGED <<store, visible, calls, events, panel, clean, mixed, below, bounds>>

Pinned ==
  /\ Answered("pin_entry") \/ Answered("unpin_entry")
  /\ calls' = Append(calls, Read)
  /\ UNCHANGED <<store, visible, events, panel, clean, mixed, below, bounds>>

Deleted ==
  /\ Answered("delete_entry")
  /\ ShowList(Without(history, Head(answers).to.id))
  /\ UNCHANGED <<store, visible, calls, events, query, hoveredId, clean, mixed, below, bounds>>

Pasted ==
  /\ Answered("paste_from_overlay")
  /\ UNCHANGED <<store, visible, calls, events, panel, clean, mixed, below, bounds>>

Ask(do, id) ==
  /\ Len(calls) + Len(answers) < MaxUnderWay
  /\ edits < MaxEdits /\ edits' = edits + 1
  /\ calls' = Append(calls, Call(do, id))

TogglePin(k) ==
  /\ visible
  /\ Ask(IF Rows[k].pinned THEN "unpin_entry" ELSE "pin_entry", Rows[k].id)
  /\ UNCHANGED <<store, visible, answers, events, panel, clean, mixed, below, clips, opens>>

\* The button of a row, or the key while the mouse is on one.
DeleteEntry(id) ==
  /\ visible /\ Row(id) # 0
  /\ Ask("delete_entry", id)
  /\ UNCHANGED <<store, visible, answers, events, panel, clean, mixed, below, clips, opens>>

Paste(id) ==
  /\ visible
  /\ Ask("paste_from_overlay", id)
  /\ UNCHANGED <<store, visible, answers, events, panel, clean, mixed, below, clips, opens>>

Enter == cursor + 1 \in DOMAIN results /\ Paste(results[cursor + 1].id)

ArrowDown ==
  /\ visible
  /\ cursor' = IF cursor + 1 < Len(results) THEN cursor + 1 ELSE Len(results) - 1
  /\ cursor' # cursor
  /\ below' = (below \/ results = <<>>)
  /\ UNCHANGED <<store, visible, link, history, query, hoveredId, clean, mixed, bounds>>

ArrowUp ==
  /\ visible /\ cursor # 0
  /\ cursor' = IF cursor > 0 THEN cursor - 1 ELSE 0
  /\ UNCHANGED <<store, visible, link, history, query, hoveredId, clean, mixed, below, bounds>>

MouseEnter(k) ==
  /\ visible /\ hoveredId # Rows[k].id
  /\ cursor' = k - 1 /\ hoveredId' = Rows[k].id
  /\ UNCHANGED <<store, visible, link, history, query, clean, mixed, below, bounds>>

MouseLeave ==
  /\ visible /\ Row(hoveredId) # 0
  /\ hoveredId' = 0
  /\ UNCHANGED <<store, visible, link, history, query, cursor, clean, mixed, below, bounds>>

Search ==
  /\ visible /\ query' = ~query /\ cursor' = 0
  /\ UNCHANGED <<store, visible, link, history, hoveredId, clean, mixed, below, bounds>>

Next ==
  \/ (\E t \in Text : Recorded(t)) \/ ChangedElsewhere
  \/ RunRead \/ (\E pin \in BOOLEAN : RunPin(pin)) \/ RunDelete \/ RunPaste
  \/ Open \/ Hide
  \/ OnClip \/ OnFocus \/ Listed \/ Pinned \/ Deleted \/ Pasted
  \/ \E k \in DOMAIN Rows : TogglePin(k) \/ MouseEnter(k) \/ DeleteEntry(Rows[k].id) \/ Paste(Rows[k].id)
  \/ Enter \/ ArrowDown \/ ArrowUp \/ MouseLeave \/ Search

Spec == Init /\ [][Next]_vars

(***************************************************************************)
(* Properties                                                              *)
(***************************************************************************)
Quiet == calls = <<>> /\ answers = <<>>

\* Once answered, the panel has the list of the backend until the next clip, or until
\* the other window clears or cuts the history: a pin, unpin or delete shows what it
\* did (Overlay.tsx:78-89, lib.rs:323-348).
PanelFresh == Quiet /\ clean /\ events = <<>> => history = store

\* Enter has an entry to paste whenever there is one: the list may shrink or
\* change under the cursor; only an arrow down on an empty list puts it above
\* the first row (Overlay.tsx:62-64, 95-97).
EnterHasARow == ~below /\ results # <<>> => cursor + 1 \in DOMAIN results

\* Enter pastes the row that is highlighted: rows are grouped and the cursor
\* counts the list as it is, so the list has to have its pins first.  They are, once
\* everything asked was answered, unless the history has changed since the list was
\* read, by a clip or in the other window, or a clip was recorded, or an entry
\* unpinned, when every other one was pinned.
EnterPastesTheRow ==
  Quiet /\ clean /\ events = <<>> /\ ~mixed /\ cursor + 1 \in DOMAIN results
    => results[cursor + 1] = Rows[cursor + 1]

\* The panel does what its rows promise.
PanelHonest == PanelFresh /\ EnterHasARow /\ EnterPastesTheRow
=============================================================================
