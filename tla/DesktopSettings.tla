--------------------------- MODULE DesktopSettings ---------------------------
(***************************************************************************)
(* The settings tab of the PC's window (App.tsx) over the commands of      *)
(* lib.rs that reach other programs: the global shortcut, the registry's   *)
(* startup entry, the history limit, and the updater.  Commands run in     *)
(* order on the main thread, and their answers come back in order.         *)
(***************************************************************************)
EXTENDS Integers, Sequences, FiniteSets

CONSTANTS
  Combo,        \* what accelerator() makes of keys with a modifier
  Limit,        \* positions of the slider, 10 to 500
  None,         \* no settings yet
  MaxCalls,     \* bound: settings changed in the window
  MaxFailures,  \* bound: writes that fail, of the registry or of the file
  MaxOutside    \* bound: what other programs and the user do meanwhile

VARIABLES
  memory, disk,  \* settings, and settings.json: hotkey, startup, limit
  autostart,     \* the startup entry of Windows
  registered,    \* the shortcuts that open the overlay
  owned,         \* shortcuts of other programs
  calls, answers,
  view,          \* settings, as the window has them, or None
  recording, hotkeyError, startupError,
  update, checks, \* the text beside "Check now", and the runs of checkUpdate
  causes,        \* ghost: why the window may be behind
  changes, failures, outside

backend == <<memory, disk, autostart, registered>>
window == <<view, recording, hotkeyError, startupError>>
updating == <<update, checks>>
bounds == <<changes, failures, outside>>
vars == <<backend, owned, calls, answers, window, updating, causes, bounds>>

Read == [do |-> "get_settings", arg |-> None]
SetHotkey(c) == [do |-> "set_hotkey", arg |-> c]
SetStartup(on) == [do |-> "set_launch_at_startup", arg |-> on]
SetLimit(n) == [do |-> "set_history_limit", arg |-> n]
Answer(call, ok) == [to |-> call, ok |-> ok, view |-> None]

\* The app starts: the stored shortcut is registered unless another program has it.
Held(s, taken) == IF s.hotkey \in taken THEN {} ELSE {s.hotkey}
Causes(s, taken) == IF s.hotkey \in taken THEN {"taken"} ELSE {}

Init ==
  /\ \E on \in BOOLEAN :
       memory = [hotkey |-> CHOOSE c \in Combo : TRUE, startup |-> on,
                 limit |-> CHOOSE n \in Limit : TRUE]
  /\ disk = memory
  /\ owned \in {{}} \cup {{c} : c \in Combo}
  /\ registered = Held(memory, owned) /\ autostart = memory.startup
  /\ causes = Causes(memory, owned)
  /\ calls = <<Read>> /\ answers = <<>>
  /\ view = None /\ recording = FALSE /\ hotkeyError = FALSE /\ startupError = FALSE
  /\ update = "" /\ checks = <<>>
  /\ changes = 0 /\ failures = 0 /\ outside = 0

(***************************************************************************)
(* Commands                                                                *)
(***************************************************************************)
Running(do) == calls # <<>> /\ Head(calls).do = do /\ calls' = Tail(calls)
Reply(ok) == answers' = Append(answers, Answer(Head(calls), ok))
Fails == failures < MaxFailures /\ failures' = failures + 1

\* What get_settings reports of the startup entry; a registry that cannot be
\* read is answered with the wish.
RunRead ==
  /\ Running("get_settings")
  /\ \E on \in {autostart, memory.startup} :
       /\ answers' = Append(answers, [Answer(Read, TRUE) EXCEPT !.view = [memory EXCEPT !.startup = on]])
       /\ IF on = autostart
          THEN causes' = causes \ {"outside", "unread", "hotkeyUnsaved", "limitUnsaved"} /\ UNCHANGED failures
          ELSE causes' = causes \cup {"unread"} /\ Fails
  /\ UNCHANGED <<backend, owned, window, updating, changes, outside>>

\* Saved to the file, or kept in memory only.
Save(s, known, unsaved) ==
  /\ memory' = s
  /\ \/ disk' = s /\ Reply(TRUE) /\ causes' = known /\ UNCHANGED failures
     \/ Fails /\ Reply(FALSE) /\ causes' = known \cup {unsaved} /\ UNCHANGED disk

\* Mutant of RegisterNew: the old shortcut stays.
RegisterNewOnly(new, old) == registered' = registered \cup {new}

\* The new one first; then the one of the settings goes, even if it is the same.
RegisterNew(new, old) == registered' = (registered \cup {new}) \ {old}

RunSetHotkey ==
  /\ Running("set_hotkey")
  /\ LET new == Head(calls).arg IN
     /\ new \notin owned \cup registered
     /\ RegisterNew(new, memory.hotkey)
     /\ Save([memory EXCEPT !.hotkey = new],
             (causes \ {"taken", "sameAgain"})
               \cup (IF new = memory.hotkey THEN {"sameAgain"} ELSE {}),
             "hotkeyUnsaved")
  /\ UNCHANGED <<autostart, owned, window, updating, changes, outside>>

\* Windows does not give it away twice.
RunSetHotkeyTaken ==
  /\ Running("set_hotkey")
  /\ Head(calls).arg \in owned \cup registered
  /\ Reply(FALSE)
  /\ UNCHANGED <<backend, owned, window, updating, causes, bounds>>

RunSetStartup ==
  /\ Running("set_launch_at_startup")
  /\ LET on == Head(calls).arg IN
     \/ /\ autostart' = on
        /\ Save([memory EXCEPT !.startup = on], causes, "startupUnsaved")
     \/ /\ on \/ autostart
        /\ Fails /\ Reply(FALSE)
        /\ UNCHANGED <<memory, disk, autostart, causes>>
  /\ UNCHANGED <<registered, owned, window, updating, changes, outside>>

\* The value is clamped to what the slider has anyway.
RunSetLimit ==
  /\ Running("set_history_limit")
  /\ Save([memory EXCEPT !.limit = Head(calls).arg], causes, "limitUnsaved")
  /\ UNCHANGED <<autostart, registered, owned, window, updating, changes, outside>>

(***************************************************************************)
(* The window                                                              *)
(***************************************************************************)
Change(call) == /\ changes < MaxCalls /\ changes' = changes + 1
                /\ calls' = Append(calls, call)

Record ==
  /\ ~recording /\ recording' = TRUE /\ hotkeyError' = FALSE
  /\ UNCHANGED <<backend, owned, calls, answers, view, startupError, updating, causes, bounds>>

Blur ==
  /\ recording /\ recording' = FALSE
  /\ UNCHANGED <<backend, owned, calls, answers, view, hotkeyError, startupError, updating,
                 causes, bounds>>

\* Keys that make no shortcut leave it recording.
CaptureHotkey(c) ==
  /\ recording /\ recording' = FALSE /\ hotkeyError' = FALSE
  /\ Change(SetHotkey(c))
  /\ UNCHANGED <<backend, owned, answers, view, startupError, updating, causes, failures, outside>>

\* The click wishes for the opposite of what the toggle shows.
ToggleStartup ==
  /\ startupError' = FALSE
  /\ Change(SetStartup(view = None \/ ~view.startup))
  /\ UNCHANGED <<backend, owned, answers, view, recording, hotkeyError, updating, causes,
                 failures, outside>>

ChangeHistoryLimit(n) ==
  /\ Change(SetLimit(n))
  /\ UNCHANGED <<backend, owned, answers, window, updating, causes, failures, outside>>

Answered(do) == answers # <<>> /\ Head(answers).to.do = do /\ answers' = Tail(answers)
With(field) == view' = IF view = None THEN None ELSE [view EXCEPT ![field] = Head(answers).to.arg]

ShowSettings ==
  /\ Answered("get_settings")
  /\ view' = Head(answers).view
  /\ UNCHANGED <<backend, owned, calls, recording, hotkeyError, startupError, updating, causes, bounds>>

HotkeySet ==
  /\ Answered("set_hotkey")
  /\ IF Head(answers).ok THEN With("hotkey") /\ UNCHANGED hotkeyError
                         ELSE hotkeyError' = TRUE /\ UNCHANGED view
  /\ UNCHANGED <<backend, owned, calls, recording, startupError, updating, causes, bounds>>

\* Read again, whatever the answer.
StartupSet ==
  /\ Answered("set_launch_at_startup")
  /\ startupError' = (startupError \/ ~Head(answers).ok)
  /\ calls' = Append(calls, Read)
  /\ UNCHANGED <<backend, owned, view, recording, hotkeyError, updating, causes, bounds>>

LimitSet ==
  /\ Answered("set_history_limit")
  /\ IF Head(answers).ok THEN With("limit") ELSE UNCHANGED view
  /\ UNCHANGED <<backend, owned, calls, recording, hotkeyError, startupError, updating, causes, bounds>>

(***************************************************************************)
(* checkUpdate: nothing keeps a second run from starting                   *)
(***************************************************************************)
CheckUpdate ==
  /\ changes < MaxCalls /\ changes' = changes + 1
  /\ update' = "checking" /\ checks' = Append(checks, "check")
  /\ UNCHANGED <<backend, owned, calls, answers, window, causes, failures, outside>>

Drop(k) == checks' = SubSeq(checks, 1, k - 1) \o SubSeq(checks, k + 1, Len(checks))

\* No update, or one to download.
Checked(k) ==
  /\ checks[k] = "check"
  /\ \/ Drop(k) /\ update' = "up to date"
     \/ checks' = [checks EXCEPT ![k] = "download"] /\ update' = "downloading"
  /\ UNCHANGED <<backend, owned, calls, answers, window, causes, bounds>>

UpdateFails(k) ==
  /\ Drop(k) /\ update' = "failed"
  /\ UNCHANGED <<backend, owned, calls, answers, window, causes, bounds>>

(***************************************************************************)
(* Outside                                                                 *)
(***************************************************************************)
Happens == outside < MaxOutside /\ outside' = outside + 1

\* The app starts again, by hand or after an update; it writes the startup entry
\* once more, which may fail.
Restart ==
  /\ Happens
  /\ memory' = disk
  /\ registered' = Held(disk, owned) /\ causes' = Causes(disk, owned)
  /\ autostart' \in {autostart, disk.startup}
  /\ calls' = <<Read>> /\ answers' = <<>>
  /\ view' = None /\ recording' = FALSE /\ hotkeyError' = FALSE /\ startupError' = FALSE
  /\ update' = "" /\ checks' = <<>>
  /\ UNCHANGED <<disk, owned, changes, failures>>

\* Another program takes a free shortcut, or ends.
OtherProgram ==
  /\ Happens
  /\ \/ \E c \in Combo \ (owned \cup registered) : owned' = owned \cup {c}
     \/ owned # {} /\ owned' = {}
  /\ UNCHANGED <<backend, calls, answers, window, updating, causes, changes, failures>>

\* The user undoes the startup entry in Task Manager.
TaskManager ==
  /\ Happens /\ autostart
  /\ autostart' = FALSE /\ causes' = causes \cup {"outside"}
  /\ UNCHANGED <<memory, disk, registered, owned, calls, answers, window, updating, changes, failures>>

\* An event of the backend makes the window read the settings.
SomeEvent ==
  /\ Happens
  /\ calls' = Append(calls, Read)
  /\ UNCHANGED <<backend, owned, answers, window, updating, causes, changes, failures>>

Next ==
  \/ RunRead \/ RunSetHotkey \/ RunSetHotkeyTaken \/ RunSetStartup \/ RunSetLimit
  \/ Record \/ Blur \/ ToggleStartup \/ ShowSettings \/ HotkeySet \/ StartupSet \/ LimitSet
  \/ \E c \in Combo : CaptureHotkey(c)
  \/ \E n \in Limit : ChangeHistoryLimit(n)
  \/ CheckUpdate \/ \E k \in DOMAIN checks : Checked(k) \/ UpdateFails(k)
  \/ Restart \/ OtherProgram \/ TaskManager \/ SomeEvent

Spec == Init /\ [][Next]_vars

(***************************************************************************)
(* Properties                                                              *)
(***************************************************************************)
Quiet == calls = <<>> /\ answers = <<>>

\* The startup toggle shows what Windows will do, "so a write that failed leaves
\* the toggle showing the truth rather than the intention" (App.tsx:241-244): it
\* is behind only when the entry was changed outside or could not be read.
ToggleIsTruth ==
  Quiet /\ causes \cap {"outside", "unread"} = {} => view.startup = autostart

\* The shortcut on display opens the overlay and no other does, however changes
\* and refusals fall; but one that was taken when the app started is not held,
\* and choosing it again once it is free registers it and lets it go.
HotkeyHeld ==
  Quiet /\ causes \cap {"taken", "sameAgain", "hotkeyUnsaved"} = {} => registered = {view.hotkey}

\* The limit on display is the one that is used.
LimitShown == Quiet /\ "limitUnsaved" \notin causes => view.limit = memory.limit

\* The line beside "Check now" says that something goes on only while it does.
UpdateSettles == checks = <<>> => update \notin {"checking", "downloading"}

\* The settings tab tells the truth about the three programs behind it.
SettingsHonest == ToggleIsTruth /\ HotkeyHeld /\ LimitShown /\ UpdateSettles
=============================================================================
