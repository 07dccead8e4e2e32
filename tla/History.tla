------------------------------ MODULE History -------------------------------
(***************************************************************************)
(* The clipboard history of the PC: App::record, called by the watcher and *)
(* by every inbound session, against the commands of the two windows and   *)
(* history.json (lib.rs, settings.rs).  The history has one mutex and the  *)
(* settings another; record reads the limit under the one before it takes  *)
(* the other, and a command changes the list and saves it under two locks. *)
(* Windows call one command at a time, on the main thread.                 *)
(*                                                                         *)
(* An entry is its text; two entries are the same clip when the text is.   *)
(***************************************************************************)
EXTENDS Ranks, Sequences, SequencesExt

CONSTANTS
  Text,         \* texts
  Recorder,     \* threads that call record
  Requests,     \* the limits a window can ask for
  MinLimit, MaxLimit,  \* what set_history_limit clamps them to
  DefaultLimit, \* DEFAULT_HISTORY_LIMIT
  MaxRecords,   \* bound: clips recorded
  MaxCommands,  \* bound: commands of the user
  MaxCrashes,   \* bound: restarts
  MaxUnsaved   \* bound: saves that fail, of the settings or of the history

ASSUME HistoryAssumption ==
  /\ Requests \subseteq Nat /\ MinLimit \in Nat \ {0} /\ MaxLimit \in Nat
  /\ DefaultLimit \in MinLimit .. MaxLimit
  /\ MaxRecords \in Nat /\ MaxCommands \in Nat /\ MaxCrashes \in Nat /\ MaxUnsaved \in Nat

VARIABLES
  history,     \* newest first; pinned entries are meant to come before the rest
  limit,       \* settings.history_limit
  savedLimit,  \* the same in settings.json
  recording,   \* per recorder: the entry and the limit it read, or NotRecording
  ui,          \* what the running command has left to do: "", "persist" or "truncate"
  disk,        \* history.json
  unsaved,     \* ghost: the list was truncated, or saving it failed, since it was last saved
  deleted,     \* ghost: entries whose deletion reached history.json
  deleting,    \* ghost: entries deleted from the list since it was last saved
  records, commands, crashes, failures

limits == <<limit, savedLimit>>
ghosts == <<unsaved, deleted, deleting>>
bounds == <<records, commands, crashes, failures>>
vars   == <<history, limits, recording, ui, disk, ghosts, bounds>>

Limits == MinLimit .. MaxLimit
Entry(id, t) == [id |-> id, text |-> t, pinned |-> FALSE]
Entries == [id : 1 .. MaxRecords, text : Text, pinned : BOOLEAN]
NotRecording == [id |-> 0]
Idle == ui = "" /\ \A r \in Recorder : recording[r] = NotRecording

(***************************************************************************)
(* The list                                                                *)
(***************************************************************************)
Pinned(q) == {i \in DOMAIN q : q[i].pinned}

Unpinned(q) == DOMAIN q \ Pinned(q)

\* position(|e| e.id == id), counted from 1; 0 when there is none.
Position(q, id) ==
  LET places == {i \in DOMAIN q : q[i].id = id} IN IF places = {} THEN 0 ELSE Min(places)

\* position(|e| !e.pinned).unwrap_or(0): above the pins when all are pinned.
InsertPosition(q) == IF Unpinned(q) = {} THEN 1 ELSE Min(Unpinned(q))

Without(q, id) == Retain(q, {i \in DOMAIN q : q[i].id # id})

\* Mutant of Others: only the id is compared.
OthersById(q, new) == Without(q, new.id)

Others(q, new) == Retain(q, {i \in DOMAIN q : q[i].id # new.id /\ q[i].text # new.text})

\* Mutant of Trim: pins count like the rest.
TrimAll(q, n) == SubSeq(q, 1, IF Len(q) < n THEN Len(q) ELSE n)

\* Pins stay; of the rest, as many as the limit leaves room for.
Trim(q, n) ==
  LET room == n - Cardinality(Pinned(q))
  IN Retain(q, Pinned(q) \cup {i \in Unpinned(q) : Rank(Unpinned(q), i) <= room})

Recorded(q, new, n) ==
  LET others == Others(q, new) IN Trim(InsertAt(others, InsertPosition(others), new), n)

\* HistoryStore::save, which ignores a failure.
Save(q, gone, written) ==
  \/ /\ written
     /\ disk' = q /\ unsaved' = FALSE
     /\ deleted' = deleted \cup gone /\ deleting' = {}
     /\ UNCHANGED failures
  \/ /\ ~written /\ failures < MaxUnsaved
     /\ failures' = failures + 1
     /\ unsaved' = TRUE /\ deleting' = gone
     /\ UNCHANGED <<disk, deleted>>

\* The entry with this id is marked, and moved to the top or below the pins.
Moved(q, id, pinned) ==
  LET i == Position(q, id)
      others == Retain(q, DOMAIN q \ {i})
      place == IF pinned THEN 1 ELSE InsertPosition(others)
  IN IF i = 0 THEN q ELSE InsertAt(others, place, [q[i] EXCEPT !.pinned = pinned])

Init ==
  /\ history = <<>> /\ disk = <<>>
  /\ limit = DefaultLimit /\ savedLimit = DefaultLimit
  /\ recording = [r \in Recorder |-> NotRecording]
  /\ ui = ""
  /\ unsaved = FALSE /\ deleted = {} /\ deleting = {}
  /\ records = 0 /\ commands = 0 /\ crashes = 0 /\ failures = 0

(***************************************************************************)
(* record                                                                  *)
(***************************************************************************)

\* A clip is copied or arrives; the limit is read under the settings lock.
ReadLimit(r, t) ==
  /\ recording[r] = NotRecording
  /\ records < MaxRecords
  /\ records' = records + 1
  /\ recording' = [recording EXCEPT ![r] = [id |-> records + 1, entry |-> Entry(records + 1, t),
                                            limit |-> limit]]
  /\ UNCHANGED <<history, limits, ui, disk, ghosts, commands, crashes, failures>>

\* The rest, under the history lock.
Record(r, written) ==
  /\ recording[r] # NotRecording
  /\ recording' = [recording EXCEPT ![r] = NotRecording]
  /\ history' = Recorded(history, recording[r].entry, recording[r].limit)
  /\ Save(history', deleting, written)
  /\ UNCHANGED <<limits, ui, records, commands, crashes>>

(***************************************************************************)
(* Commands                                                                *)
(***************************************************************************)
Command ==
  /\ ui = "" /\ commands < MaxCommands
  /\ commands' = commands + 1

\* pin_entry, unpin_entry and delete_entry, up to persist_history; a window
\* may name an entry that is no longer there.
PinEntry(id) ==
  /\ Command
  /\ history' = Moved(history, id, TRUE)
  /\ ui' = "persist"
  /\ UNCHANGED <<limits, recording, disk, ghosts, records, crashes, failures>>

UnpinEntry(id) ==
  /\ Command
  /\ history' = Moved(history, id, FALSE)
  /\ ui' = "persist"
  /\ UNCHANGED <<limits, recording, disk, ghosts, records, crashes, failures>>

\* Mutant of DeleteEntry: persist_history is forgotten.
DeleteEntryUnsaved(id) ==
  /\ Command
  /\ history' = Without(history, id)
  /\ UNCHANGED <<limits, recording, ui, disk, ghosts, records, crashes, failures>>

DeleteEntry(id) ==
  /\ Command
  /\ history' = Without(history, id)
  /\ deleting' = deleting \cup {id}
  /\ ui' = "persist"
  /\ UNCHANGED <<limits, recording, disk, unsaved, deleted, records, crashes, failures>>

\* persist_history, under the history lock again.
Persist(written) ==
  /\ ui = "persist"
  /\ ui' = ""
  /\ Save(history, deleting, written)
  /\ UNCHANGED <<history, limits, recording, records, commands, crashes>>

ClearHistory(written) ==
  /\ Command
  /\ history' = <<>>
  /\ Save(history', deleting \cup {history[i].id : i \in DOMAIN history}, written)
  /\ UNCHANGED <<limits, recording, ui, records, crashes>>

Clamped(n) == IF n < MinLimit THEN MinLimit ELSE IF n > MaxLimit THEN MaxLimit ELSE n

\* set_history_limit, under the settings lock.  When saving the settings fails
\* the command ends there, with the new limit in force.
SetHistoryLimit(n, saved) ==
  /\ Command
  /\ limit' = Clamped(n)
  /\ \/ saved /\ ui' = "truncate" /\ savedLimit' = limit' /\ UNCHANGED failures
     \/ /\ ~saved /\ failures < MaxUnsaved
        /\ failures' = failures + 1
        /\ UNCHANGED <<ui, savedLimit>>
  /\ UNCHANGED <<history, recording, disk, ghosts, records, crashes>>

\* history.truncate(clamped), under the history lock; nothing is saved.
Truncate ==
  /\ ui = "truncate"
  /\ ui' = ""
  /\ history' = SubSeq(history, 1, IF Len(history) < limit THEN Len(history) ELSE limit)
  /\ unsaved' = (unsaved \/ Len(history) > limit)
  /\ UNCHANGED <<limits, recording, disk, deleted, deleting, bounds>>

(***************************************************************************)
(* Restart                                                                 *)
(***************************************************************************)

\* The program ends and starts again: HistoryStore::load.
Restart ==
  /\ crashes < MaxCrashes
  /\ crashes' = crashes + 1
  /\ history' = disk
  /\ recording' = [r \in Recorder |-> NotRecording]
  /\ ui' = "" /\ unsaved' = FALSE /\ deleting' = {}
  /\ limit' = savedLimit
  /\ UNCHANGED <<savedLimit, disk, deleted, records, commands, failures>>

\* It ends while history.json is being rewritten; what is left does not parse.
RestartTorn ==
  /\ crashes < MaxCrashes
  /\ ui = "persist" \/ \E r \in Recorder : recording[r] # NotRecording
  /\ crashes' = crashes + 1
  /\ history' = <<>> /\ disk' = <<>>
  /\ recording' = [r \in Recorder |-> NotRecording]
  /\ ui' = "" /\ unsaved' = FALSE /\ deleting' = {}
  /\ limit' = savedLimit
  /\ UNCHANGED <<savedLimit, deleted, records, commands, failures>>

\* A window knows an entry once record has emitted it.
Edit(id) ==
  /\ \A r \in Recorder : recording[r].id # id
  /\ PinEntry(id) \/ UnpinEntry(id) \/ DeleteEntry(id)

Next ==
  \/ \E r \in Recorder, t \in Text : ReadLimit(r, t)
  \/ \E written \in BOOLEAN :
       \/ \E r \in Recorder : Record(r, written)
       \/ Persist(written) \/ ClearHistory(written)
       \/ \E n \in Requests : SetHistoryLimit(n, written)
  \/ \E id \in 1 .. records : Edit(id)
  \/ Truncate
  \/ Restart \/ RestartTorn

Spec == Init /\ [][Next]_vars

(***************************************************************************)
(* Properties                                                              *)
(***************************************************************************)

\* Every variable has its type.
TypeOK ==
  /\ history \in Seq(Entries) /\ disk \in Seq(Entries)
  /\ limit \in Limits /\ savedLimit \in Limits
  /\ \A r \in Recorder : recording[r] # NotRecording =>
       recording[r].entry \in Entries /\ recording[r].limit \in Limits
  /\ ui \in {"", "persist", "truncate"}
  /\ unsaved \in BOOLEAN /\ deleted \cup deleting \subseteq 1 .. MaxRecords

\* A clip is in the history once, however it got there and whatever was done
\* to it: recorded by two threads, pinned, or loaded (lib.rs:97-108, 505-543).
OnePerClip ==
  \A i, j \in DOMAIN history : i # j => /\ history[i].id # history[j].id
                                       /\ history[i].text # history[j].text

\* A pin is lost only to the user, who unpins or deletes the entry, clears the
\* list, lowers the limit or copies the same text again, and to a restart;
\* never to other clips, however many are recorded (record's trimming,
\* lib.rs:109-120).
HasPin(id) == \E i \in Pinned(history) : history[i].id = id
Recopied(id) == \E r \in Recorder, i \in DOMAIN history :
                  /\ history[i].id = id
                  /\ recording[r] # NotRecording /\ recording'[r] = NotRecording
                  /\ recording[r].entry.text = history[i].text
PinsKept ==
  [][\A id \in 1 .. MaxRecords :
       HasPin(id) => \/ HasPin(id)' \/ Recopied(id)
                     \/ commands' # commands \/ Truncate \/ crashes' # crashes]_vars

\* Between commands history.json holds what the windows show, unless a limit
\* was lowered or a save failed since: no order of a command's two locks and
\* another thread's record leaves an old list on disk (lib.rs:121-123, 391-396).
SavedUnlessTruncated == ui = "" /\ ~unsaved => disk = history

\* An entry that was deleted or cleared, and whose absence reached the file
\* once, stays away: neither a record under way nor a restart brings it back
\* (lib.rs:342-348, 536-543).
DeletedForGood == \A i \in DOMAIN history : history[i].id \notin deleted

\* The list never outgrows the largest limit that can be set, pins included,
\* whatever stale limit a record trims it to (lib.rs:109-120).
NeverOutgrown == Len(history) <= MaxLimit /\ Len(disk) <= MaxLimit

\* The list is a history: each clip once, and never more than it may hold.
ListSound == TypeOK /\ OnePerClip /\ NeverOutgrown

\* The file is that list.
FileFollows == SavedUnlessTruncated /\ DeletedForGood
=============================================================================
