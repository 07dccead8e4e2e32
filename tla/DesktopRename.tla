---------------------------- MODULE DesktopRename ----------------------------
(***************************************************************************)
(* Renaming a phone in the device list of the PC's window (App.tsx): the   *)
(* input opens on one row, and commits on Enter and whenever it loses the  *)
(* focus; rename_device and get_settings run in order on the main thread.  *)
(***************************************************************************)
EXTENDS Integers, Sequences

CONSTANTS
  Device,
  Name,          \* names, none of them empty
  Empty,         \* what is empty when trimmed
  None,          \* no row is being renamed
  Own,           \* the name each phone gives itself
  MaxStarts,     \* bound: inputs opened
  MaxTyped,      \* bound: changes of an input
  MaxUnderWay,   \* bound: commands and answers under way when Enter is pressed
  MaxReconnects, \* bound: handshakes of paired phones
  MaxFailures    \* bound: saves that fail

VARIABLES
  names,        \* deviceName of each paired phone
  view,         \* and as the window has it
  renamingId, renameValue,
  calls, answers,
  notes,        \* device_paired and settings_changed on their way
  typed,        \* ghost: what was typed, or found, in the input of each row
  failed,       \* ghost: a save has failed
  starts, typings, reconnects, failures

backend == <<names, notes>>
input == <<renamingId, renameValue>>
bounds == <<starts, typings, reconnects, failures>>
vars == <<backend, view, input, calls, answers, typed, failed, bounds>>

Rename(d, n) == [do |-> "rename", id |-> d, name |-> n]
ReadCall == [do |-> "read", id |-> None, name |-> Empty]

Init ==
  /\ names = Own /\ view = Own
  /\ renamingId = None /\ renameValue = Empty
  /\ calls = <<>> /\ answers = <<>> /\ notes = 0
  /\ typed = [d \in Device |-> {}] /\ failed = FALSE
  /\ starts = 0 /\ typings = 0 /\ reconnects = 0 /\ failures = 0

\* doRenameDevice up to its await; an empty name only closes the input.
DoRename(d, n) ==
  IF n = Empty THEN calls' = calls ELSE calls' = Append(calls, Rename(d, n))

\* The pencil or a double click; an input that is open loses the focus first.
StartRename(d) ==
  /\ renamingId # d /\ starts < MaxStarts /\ starts' = starts + 1
  /\ IF renamingId = None THEN UNCHANGED calls ELSE DoRename(renamingId, renameValue)
  /\ renamingId' = d /\ renameValue' = view[d]
  /\ typed' = [typed EXCEPT ![d] = @ \cup {view[d]}]
  /\ UNCHANGED <<backend, view, answers, failed, typings, reconnects, failures>>

Type(n) ==
  /\ renamingId # None /\ renameValue # n
  /\ typings < MaxTyped /\ typings' = typings + 1
  /\ renameValue' = n
  /\ typed' = [typed EXCEPT ![renamingId] = @ \cup {n}]
  /\ UNCHANGED <<backend, view, renamingId, calls, answers, failed, starts, reconnects, failures>>

\* Enter, or a click elsewhere; the input stays until the answer.
Commit ==
  /\ renamingId # None /\ Len(calls) + Len(answers) < MaxUnderWay
  /\ DoRename(renamingId, renameValue)
  /\ renamingId' = IF renameValue = Empty THEN None ELSE renamingId
  /\ UNCHANGED <<backend, view, renameValue, answers, typed, failed, bounds>>

Escape ==
  /\ renamingId # None /\ renamingId' = None
  /\ UNCHANGED <<backend, view, renameValue, calls, answers, typed, failed, bounds>>

\* rename_device: the name changes in memory before the save, which may fail.
RunRename ==
  /\ calls # <<>> /\ Head(calls).do = "rename" /\ calls' = Tail(calls)
  /\ names' = [names EXCEPT ![Head(calls).id] = Head(calls).name]
  /\ \/ /\ answers' = Append(answers, [to |-> "rename", ok |-> TRUE, view |-> Own])
        /\ notes' = notes + 1 /\ UNCHANGED <<failed, failures>>
     \/ /\ failures < MaxFailures /\ failures' = failures + 1 /\ failed' = TRUE
        /\ answers' = Append(answers, [to |-> "rename", ok |-> FALSE, view |-> Own])
        /\ UNCHANGED notes
  /\ UNCHANGED <<view, input, typed, starts, typings, reconnects>>

RunRead ==
  /\ calls # <<>> /\ Head(calls).do = "read" /\ calls' = Tail(calls)
  /\ answers' = Append(answers, [to |-> "read", ok |-> TRUE, view |-> names])
  /\ UNCHANGED <<backend, view, input, typed, failed, bounds>>

\* Any answer closes whatever input is open by then.
Renamed ==
  /\ answers # <<>> /\ Head(answers).to = "rename" /\ answers' = Tail(answers)
  /\ IF Head(answers).ok THEN renamingId' = None /\ calls' = Append(calls, ReadCall)
                         ELSE UNCHANGED <<renamingId, calls>>
  /\ UNCHANGED <<backend, view, renameValue, typed, failed, bounds>>

Shown ==
  /\ answers # <<>> /\ Head(answers).to = "read" /\ answers' = Tail(answers)
  /\ view' = Head(answers).view
  /\ UNCHANGED <<backend, input, calls, typed, failed, bounds>>

\* Mutant of Noted: only the answer of its own command makes the window read.
NotedNot ==
  /\ notes > 0 /\ notes' = notes - 1
  /\ UNCHANGED <<names, view, input, calls, answers, typed, failed, bounds>>

\* settings_changed or device_paired
Noted ==
  /\ notes > 0 /\ notes' = notes - 1
  /\ calls' = Append(calls, ReadCall)
  /\ UNCHANGED <<names, view, input, answers, typed, failed, bounds>>

\* Settings::remember replaces the whole entry with what the phone says.
Reconnect(d) ==
  /\ reconnects < MaxReconnects /\ reconnects' = reconnects + 1
  /\ names' = [names EXCEPT ![d] = Own[d]]
  /\ notes' = notes + 1
  /\ UNCHANGED <<view, input, calls, answers, typed, failed, starts, typings, failures>>

Next ==
  \/ \E d \in Device : StartRename(d) \/ Reconnect(d)
  \/ \E n \in Name \cup {Empty} : Type(n)
  \/ Commit \/ Escape \/ RunRename \/ RunRead \/ Renamed \/ Shown \/ Noted

Spec == Init /\ [][Next]_vars

(***************************************************************************)
(* Properties                                                              *)
(***************************************************************************)

\* A phone is called what it calls itself, or what was in the input of its own
\* row: moving from one row to the next while a rename is under way never gives
\* one phone the name meant for another (App.tsx:289-303, 462-483).
NameMeantForIt == \A d \in Device : names[d] \in {Own[d]} \cup typed[d]

\* With nothing under way the list shows the names that are stored, also after a
\* phone has come back with its own, unless a save failed (App.tsx:130-144, 301).
NamesShown == calls = <<>> /\ answers = <<>> /\ notes = 0 /\ ~failed => view = names

\* Names are what was meant, and what is shown.
NamesHonest == NameMeantForIt /\ NamesShown
=============================================================================
