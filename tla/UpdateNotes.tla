----------------------------- MODULE UpdateNotes -----------------------------
(***************************************************************************)
(* The notification of an update (updater.ts) and the part of the settings *)
(* screen that speaks of notifications (SettingsScreen.tsx).  Every await  *)
(* of notifyUpdateAvailable ends a step; its caller does not wait for it.  *)
(***************************************************************************)
EXTENDS Integers, FiniteSets

CONSTANTS
  Call,         \* calls of notifyUpdateAvailable
  Latest,       \* the versions that are found, numbers in their order
  MaxFailures,  \* bound: calls of Android that throw, and ends of the process
  MaxChanges    \* bound: changes in the system's settings

VARIABLES
  perm,         \* Android's answer: "undetermined", "granted" or "denied"
  key,          \* NOTIFIED_KEY: the last version a notification was raised for, or 0
  call,         \* where each call is, and its version
  shown,        \* ghost: how often each version was shown
  screen,       \* the settings screen: open, notifyOk, and what it waits for
  causes,       \* ghost: why a version may be shown again, or notifyOk be old
  failures, changes

vars == <<perm, key, call, shown, screen, causes, failures, changes>>

Stages == {"unused", "allowed", "ask", "key", "post", "remember", "over"}
Closed == [open |-> FALSE, ok |-> "unknown", waits |-> "no"]
Running == {c \in Call : call[c].at \notin {"unused", "over"}}

Init ==
  /\ perm = "undetermined" /\ key = 0
  /\ call = [c \in Call |-> [at |-> "unused", of |-> 0]]
  /\ shown = [v \in Latest |-> 0]
  /\ screen = Closed
  /\ causes = {} /\ failures = 0 /\ changes = 0

At(c, s) == call[c].at = s
Goto(c, s) == call' = [call EXCEPT ![c].at = s]

\* A check finds a release that is not on disk; the feed never goes back.
NotifyUpdateAvailable(c, v) ==
  /\ At(c, "unused") /\ v \in Latest
  /\ \A d \in Call : call[d].of <= v
  /\ call' = [call EXCEPT ![c] = [at |-> "allowed", of |-> v]]
  /\ causes' = IF Running = {} THEN causes ELSE causes \cup {"overlap"}
  /\ UNCHANGED <<perm, key, shown, screen, failures, changes>>

\* notificationsAllowed
Allowed(c) ==
  /\ At(c, "allowed")
  /\ Goto(c, IF perm = "granted" THEN "key" ELSE "ask")
  /\ UNCHANGED <<perm, key, shown, screen, causes, failures, changes>>

\* The dialog: Android shows it until it has an answer.
Answers == IF perm = "undetermined" THEN {"granted", "denied"} ELSE {perm}

\* requestNotificationPermission, for a call
Requested(c) ==
  /\ At(c, "ask")
  /\ \E p \in Answers :
       /\ perm' = p
       /\ Goto(c, IF p = "granted" THEN "key" ELSE "over")
       /\ causes' = IF p = perm THEN causes ELSE causes \cup {"askedElsewhere"}
  /\ UNCHANGED <<key, shown, screen, failures, changes>>

\* Only the last version is remembered.
AlreadyNotified(v) == key = v

ReadsKey(c) ==
  /\ At(c, "key")
  /\ Goto(c, IF AlreadyNotified(call[c].of) THEN "over" ELSE "post")
  /\ UNCHANGED <<perm, key, shown, screen, causes, failures, changes>>

\* Mutant of Posts: remembered before it is shown.
PostsLast(c) ==
  /\ At(c, "post")
  /\ key' = call[c].of
  /\ Goto(c, "remember")
  /\ UNCHANGED <<perm, shown, screen, causes, failures, changes>>

Posts(c) ==
  /\ At(c, "post")
  /\ shown' = [shown EXCEPT ![call[c].of] = @ + 1]
  /\ Goto(c, "remember")
  /\ UNCHANGED <<perm, key, screen, causes, failures, changes>>

Remembers(c) ==
  /\ At(c, "remember")
  /\ key' = call[c].of
  /\ Goto(c, "over")
  /\ UNCHANGED <<perm, shown, screen, causes, failures, changes>>

Forgotten(C) == IF \E c \in C : At(c, "remember") THEN causes \cup {"notRemembered"} ELSE causes

\* A call of Android throws; the catch ends the call.
Throws(c) ==
  /\ c \in Running /\ failures < MaxFailures
  /\ failures' = failures + 1
  /\ causes' = Forgotten({c})
  /\ Goto(c, "over")
  /\ UNCHANGED <<perm, key, shown, screen, changes>>

\* The process ends.
Kill ==
  /\ failures < MaxFailures /\ failures' = failures + 1
  /\ causes' = Forgotten(Running)
  /\ call' = [c \in Call |-> IF c \in Running THEN [call[c] EXCEPT !.at = "over"] ELSE call[c]]
  /\ screen' = Closed
  /\ UNCHANGED <<perm, key, shown, changes>>

(***************************************************************************)
(* The settings screen                                                     *)
(***************************************************************************)

\* It asks Android once, when it is mounted.
Open ==
  /\ ~screen.open
  /\ screen' = [open |-> TRUE, ok |-> "unknown", waits |-> "read"]
  /\ causes' = causes \ {"askedElsewhere", "settings"}
  /\ UNCHANGED <<perm, key, call, shown, failures, changes>>

Close ==
  /\ screen.open
  /\ screen' = Closed
  /\ UNCHANGED <<perm, key, call, shown, causes, failures, changes>>

Said(p) == IF p = "granted" THEN "yes" ELSE "no"

ReadDone ==
  /\ screen.waits = "read"
  /\ screen' = [screen EXCEPT !.ok = Said(perm), !.waits = "no"]
  /\ UNCHANGED <<perm, key, call, shown, causes, failures, changes>>

\* The button is there only while notifications are known to be off.
AskNotifications ==
  /\ screen.open /\ screen.ok = "no" /\ screen.waits = "no"
  /\ screen' = [screen EXCEPT !.waits = "ask"]
  /\ UNCHANGED <<perm, key, call, shown, causes, failures, changes>>

AnswerShown(p) == Said(p)

\* When the answer is no the system's settings are opened.
AskDone ==
  /\ screen.waits = "ask"
  /\ \E p \in Answers :
       /\ perm' = p
       /\ screen' = [screen EXCEPT !.ok = AnswerShown(p), !.waits = "no"]
  /\ UNCHANGED <<key, call, shown, causes, failures, changes>>

\* The user changes the permission in the system's settings.
SystemSettings ==
  /\ changes < MaxChanges /\ changes' = changes + 1
  /\ perm' \in {"granted", "denied"} \ {perm}
  /\ causes' = causes \cup {"settings"}
  /\ UNCHANGED <<key, call, shown, screen, failures>>

Next ==
  \/ \E c \in Call :
       \/ \E v \in Latest : NotifyUpdateAvailable(c, v)
       \/ Allowed(c) \/ Requested(c) \/ ReadsKey(c) \/ Posts(c) \/ Remembers(c) \/ Throws(c)
  \/ Kill
  \/ Open \/ Close \/ ReadDone \/ AskNotifications \/ AskDone \/ SystemSettings

Spec == Init /\ [][Next]_vars

(***************************************************************************)
(* Properties                                                              *)
(***************************************************************************)

\* "Only one notification per version" (updater.ts:226), over any number of
\* launches: unless two calls overlapped, or one ended between showing its
\* notification and remembering it.
NotedOnce == causes \cap {"overlap", "notRemembered"} = {} => \A v \in Latest : shown[v] <= 1

\* A version is remembered only if the user was shown it: no failure or missing
\* permission uses up its one notification (updater.ts:236-247).
RememberedWasShown == key # 0 => shown[key] > 0

\* "Notifications are turned off" is said only while they are: what is known of
\* the permission is old only after another dialog or the system's settings
\* changed it (SettingsScreen.tsx:37-48).
OffIsOff ==
  screen.ok = "no" /\ causes \cap {"askedElsewhere", "settings"} = {} => perm # "granted"

\* The user is told of an update once, and told the truth about being told.
NotesHonest == NotedOnce /\ RememberedWasShown /\ OffIsOff
=============================================================================
