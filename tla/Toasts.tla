------------------------------- MODULE Toasts -------------------------------
(***************************************************************************)
(* The toast window of the PC (Toasts.tsx) and its preferences             *)
(* (toastPrefs.ts): the stack, its two maps of timers, the pause under the *)
(* pointer, and the effect that sizes, places and shows the window, which  *)
(* waits for the window system between its calls. Only the last run can be *)
(* uncancelled, and its closure holds the preferences the window knows.    *)
(***************************************************************************)
EXTENDS Integers, Sequences

CONSTANTS
  HARD_CAP, MAX_VISIBLE,
  Position,     \* the corners a toast can be anchored to
  None,         \* the window was not placed: no monitor was found
  MaxPushes,    \* bound: notifications, files and clips that arrive
  MaxHovers,    \* bound: times the pointer comes over a card
  MaxChanges,   \* bound: changes of the preferences
  MaxStale      \* bound: cancelled runs of the effect that are under way

VARIABLES
  toasts,
  dismissTimers, removalTimers,
  paused, hovered,  \* the state, and the card that is under the pointer, or 0
  run,          \* the last run of the layout effect, and the calls it waits for
  stale,        \* cancelled runs that have yet to learn their monitor
  visible, where,   \* the window is on the screen, and the corner it was put in
  stored, known,    \* the preferences: in localStorage, and in the toast window
  notices,      \* TOAST_PREFS_EVENT on their way
  late,         \* ghost: the stack became empty while a run was under way
  lost,         \* ghost: a card went away under the pointer and nobody was told
  pushes, hovers, changes

timers == <<dismissTimers, removalTimers>>
pointer == <<paused, hovered, lost>>
window == <<run, stale, visible, where, late>>
prefs == <<stored, known, notices>>
bounds == <<pushes, hovers, changes>>
vars == <<toasts, timers, pointer, window, prefs, bounds>>

Prefs == [enabled: BOOLEAN, position: Position]

\* loadToastPrefs(): both windows read the same store.
Init ==
  /\ toasts = <<>> /\ dismissTimers = {} /\ removalTimers = {}
  /\ paused = FALSE /\ hovered = 0
  /\ run = "done" /\ stale = 0 /\ visible = FALSE /\ where = None
  /\ stored \in Prefs /\ known = stored /\ notices = <<>>
  /\ late = FALSE /\ lost = FALSE
  /\ pushes = 0 /\ hovers = 0 /\ changes = 0

Newest(q, n) == SubSeq(q, IF Len(q) > n THEN Len(q) - n + 1 ELSE 1, Len(q))
Ids(q) == {q[k].id : k \in DOMAIN q}
Live(q) == {q[k].id : k \in {l \in DOMAIN q : ~q[l].leaving}}
Drawn(q) == Ids(Newest(q, MAX_VISIBLE))

(***************************************************************************)
(* The effects of a change                                                 *)
(***************************************************************************)

\* Mutant of DismissArmed: a timer that is there is never cleared.
DismissArmedStays(q, p) == IF p THEN dismissTimers ELSE dismissTimers \cup Live(q)

\* Derived from the list: no toast, no timer, and none while paused.
DismissArmed(q, p) == IF p THEN {} ELSE Live(q)

\* The effect is cleaned up: a run that is under way is cancelled, which one
\* that is setting the size or asking for the monitor survives.
Stale == stale + (IF run = "sizing" THEN 1 ELSE 0)

\* The effect: an empty stack hides the window at once, any other begins a run.
Placed(q) ==
  /\ stale' = Stale /\ stale' <= MaxStale
  /\ IF q = <<>> THEN run' = "done" /\ visible' = FALSE
                 ELSE run' = "sizing" /\ UNCHANGED visible

\* A card that is no longer drawn takes the pointer's card with it, and the
\* browser need not report that as a leave.
Pointer(q) ==
  \/ /\ hovered \in Drawn(q) \cup {0}
     /\ UNCHANGED pointer
  \/ /\ hovered \notin Drawn(q) \cup {0} /\ hovered' = 0
     /\ \/ paused' = FALSE /\ UNCHANGED lost
        \/ UNCHANGED paused /\ lost' = TRUE

\* setToasts, and the three effects on the list; those of removals is the set
\* of timers that are left when the change begins.
SetToasts(q, removals) ==
  /\ toasts' = q
  /\ removalTimers' = removals \cup (Ids(q) \ Live(q))
  /\ Placed(q) /\ UNCHANGED where
  /\ late' = (late \/ (q = <<>> /\ stale' > 0))
  /\ Pointer(q)
  /\ dismissTimers' = DismissArmed(q, paused')

(***************************************************************************)
(* Toasts                                                                  *)
(***************************************************************************)

\* A notification, a file, or a clip that is an image or a link, whoever copied
\* it: origin is a device's id, never "local".
Push ==
  /\ known.enabled /\ pushes < MaxPushes
  /\ pushes' = pushes + 1
  /\ SetToasts(Newest(Append(toasts, [id |-> pushes + 1, leaving |-> FALSE]), HARD_CAP),
               removalTimers)
  /\ UNCHANGED <<prefs, hovers, changes>>

Marked(id) == [k \in DOMAIN toasts |-> IF toasts[k].id = id THEN [toasts[k] EXCEPT !.leaving = TRUE]
                                                            ELSE toasts[k]]

\* dismiss(): the button of a card, or its action.
Dismiss(id) ==
  /\ id \in Live(toasts) /\ hovered = id
  /\ SetToasts(Marked(id), removalTimers)
  /\ UNCHANGED <<prefs, bounds>>

DismissFires(id) ==
  /\ id \in dismissTimers \cap Live(toasts)
  /\ SetToasts(Marked(id), removalTimers)
  /\ UNCHANGED <<prefs, bounds>>

\* EXIT_MS later, pointer or not; filter makes a new list, and so the effect runs.
RemovalFires(id) ==
  /\ id \in removalTimers
  /\ SetToasts(SelectSeq(toasts, LAMBDA t : t.id # id), removalTimers \ {id})
  /\ UNCHANGED <<prefs, bounds>>

(***************************************************************************)
(* The pointer                                                             *)
(***************************************************************************)

MouseEnter(id) ==
  /\ hovered = 0 /\ visible /\ id \in Drawn(toasts) /\ hovers < MaxHovers
  /\ paused' = TRUE /\ hovered' = id /\ hovers' = hovers + 1 /\ lost' = FALSE
  /\ dismissTimers' = DismissArmed(toasts, TRUE)
  /\ UNCHANGED <<toasts, removalTimers, window, prefs, pushes, changes>>

MouseLeave ==
  /\ hovered # 0
  /\ paused' = FALSE /\ hovered' = 0
  /\ dismissTimers' = DismissArmed(toasts, FALSE)
  /\ UNCHANGED <<toasts, removalTimers, lost, window, prefs, bounds>>

(***************************************************************************)
(* The run of the layout effect                                            *)
(***************************************************************************)

\* setSize() and currentMonitor() have answered. No monitor: shown where it is.
Resized ==
  /\ run = "sizing"
  /\ \/ run' = "placing" /\ where' = known.position /\ UNCHANGED visible
     \/ run' = "done" /\ where' = None /\ visible' = TRUE
  /\ UNCHANGED <<toasts, timers, pointer, stale, late, prefs, bounds>>

\* setPosition() has answered.
Positioned ==
  /\ run = "placing"
  /\ run' = "done" /\ visible' = TRUE
  /\ UNCHANGED <<toasts, timers, pointer, stale, where, late, prefs, bounds>>

\* A cancelled run shows the window as well, without placing it.
StaleShows ==
  /\ stale > 0
  /\ stale' = stale - 1 /\ visible' = TRUE
  /\ UNCHANGED <<toasts, timers, pointer, run, where, late, prefs, bounds>>

(***************************************************************************)
(* Preferences                                                             *)
(***************************************************************************)

\* changeToastPrefs() of the main window: saved, and published.
ChangePrefs ==
  /\ changes < MaxChanges /\ changes' = changes + 1
  /\ \E p \in Prefs \ {stored} : stored' = p /\ notices' = Append(notices, p)
  /\ UNCHANGED <<toasts, timers, pointer, window, known, pushes, hovers>>

\* Mutant of Taken: what is heard is dropped for what the window had.
TakenNot(p) == known

\* The event carries the preferences whole.
Taken(p) == p

\* The effect depends on the position as well.
OnPrefs ==
  /\ notices # <<>>
  /\ known' = Taken(Head(notices)) /\ notices' = Tail(notices)
  /\ IF known'.position = known.position THEN UNCHANGED <<run, stale, visible>>
                                         ELSE Placed(toasts)
  /\ UNCHANGED <<toasts, timers, pointer, where, late, stored, bounds>>

Timer == \E id \in 1..MaxPushes : DismissFires(id) \/ RemovalFires(id)

Next ==
  \/ Push
  \/ \E id \in 1..MaxPushes : Dismiss(id) \/ DismissFires(id) \/ RemovalFires(id) \/ MouseEnter(id)
  \/ MouseLeave
  \/ Resized \/ Positioned \/ StaleShows
  \/ ChangePrefs \/ OnPrefs

\* Timers fire, calls to the window are answered and events are delivered.
Fairness ==
  /\ WF_vars(Timer) /\ WF_vars(Resized \/ Positioned)
  /\ WF_vars(StaleShows) /\ WF_vars(OnPrefs)

Spec == Init /\ [][Next]_vars
FairSpec == Spec /\ Fairness

(***************************************************************************)
(* Properties                                                              *)
(***************************************************************************)

\* No toast, no timer, and no timer while the pointer holds the countdown: what
\* the comment above the effect asks, after any order of cap, click and pause.
TimersFollowToasts == dismissTimers = IF paused THEN {} ELSE Live(toasts)

\* When the calls of the last run are answered a window with a toast is on the
\* screen, in the corner that the preferences it knows name.
WindowFollowsStack ==
  (run = "done" /\ toasts # <<>>) => visible /\ where \in {known.position, None}

\* An empty stack has no window, unless the last toast left while a run was
\* waiting for the window system.
HiddenWhenEmpty == (toasts = <<>> /\ ~late) => ~visible

\* The countdown is held only while the pointer is over a card, unless a card
\* went away under it.
PauseHasPointer == (paused /\ ~lost) => hovered # 0

\* The toast window tells the truth.
ToastsHonest ==
  /\ TimersFollowToasts
  /\ WindowFollowsStack
  /\ HiddenWhenEmpty
  /\ PauseHasPointer

Drained == known = stored /\ (paused \/ toasts = <<>>)

\* The stack drains: every toast, drawn or held back, goes away in the end
\* unless the pointer holds it, and the window has taken the last preferences.
StackDrains == <>[]Drained
=============================================================================
