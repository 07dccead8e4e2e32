---------------------------- MODULE PhoneScreen -----------------------------
(***************************************************************************)
(* What the main screen of the phone's app tells its user (App.tsx): the   *)
(* nudges to enable a service, as clipboardService.ts and                  *)
(* notificationService.ts ask for it, the toast, the mark of what was just *)
(* sent, and the rows of what came from the PC.                            *)
(*                                                                         *)
(* Native calls run one at a time in the order they are made, and their    *)
(* answers come back in that order.                                        *)
(***************************************************************************)
EXTENDS Naturals, Sequences

CONSTANTS
  MaxRows,     \* rows that the list keeps (20)
  MaxToggles,  \* bound: switches the user moves in the system's settings
  MaxTurns,    \* bound: times the app goes to the background
  MaxToasts    \* bound: toasts

Accessibility == "accessibility"
Listener == "listener"
Service == {Accessibility, Listener}

VARIABLES
  switched,      \* services that are on in the system's settings
  alive,         \* those whose object lives (the instance of their class)
  foreground,    \* the app is active
  checks,        \* checks under way
  shown,         \* what the screen takes for enabled
  paired,        \* there is an offer
  received,      \* the kinds of the rows
  sending,       \* presses of the send button whose clipboard read is under way
  manualSent, sentTimers,  \* the mark, and the timers that take it away
  toast,         \* the number of the toast on show, or 0
  toastTimers,   \* timers to come, by the toast they were set for
  dying,         \* ghost: what was applied last saw an object about to go
  toggles, turns, toasts

services == <<switched, alive>>
nudge == <<foreground, checks, shown, dying, turns>>
mark == <<sending, manualSent, sentTimers>>
message == <<toast, toastTimers, toasts>>
vars == <<services, nudge, paired, received, mark, message, toggles>>

Check == [left |-> <<Accessibility, Listener>>, got |-> {}, dying |-> FALSE]

Init ==
  /\ switched \in SUBSET Service /\ alive = switched
  /\ foreground = TRUE /\ checks = <<Check>> /\ shown = Service
  /\ dying = FALSE /\ turns = 0
  /\ paired \in BOOLEAN /\ received = <<>>
  /\ sending = 0 /\ manualSent = FALSE /\ sentTimers = 0
  /\ toast = 0 /\ toastTimers = {} /\ toasts = 0
  /\ toggles = 0

-----------------------------------------------------------------------------
(* Nudges *)

\* The user moves a switch in the system's settings.
Toggle(s) ==
  /\ ~foreground /\ toggles < MaxToggles /\ toggles' = toggles + 1
  /\ switched' = IF s \in switched THEN switched \ {s} ELSE switched \cup {s}
  /\ UNCHANGED <<alive, nudge, paired, received, mark, message>>

\* Android makes the object of a service, or ends it, some time after.
ServiceFollows(s) ==
  /\ (s \in alive) # (s \in switched)
  /\ alive' = IF s \in switched THEN alive \cup {s} ELSE alive \ {s}
  /\ UNCHANGED <<switched, nudge, paired, received, mark, message, toggles>>

Leaves ==
  /\ foreground /\ turns < MaxTurns /\ turns' = turns + 1
  /\ foreground' = FALSE
  /\ UNCHANGED <<services, checks, shown, dying, paired, received, mark, message,
                 toggles>>

Nudged(s) == paired /\ s \notin shown

\* "Enable": the settings of the system take the place of the app.
EnablePressed(s) == Nudged(s) /\ Leaves

\* The app is active again and checks.
Comes ==
  /\ ~foreground /\ foreground' = TRUE
  /\ checks' = Append(checks, Check)
  /\ UNCHANGED <<services, shown, dying, turns, paired, received, mark, message,
                 toggles>>

\* checkEnabled() of either module: the object, or else the setting.
Enabled(s) == s \in alive \/ s \in switched

ReadsService ==
  \E i \in DOMAIN checks :
    /\ checks[i].left # <<>> /\ \A j \in 1..(i - 1) : checks[j].left = <<>>
    /\ LET s == Head(checks[i].left) IN
         checks' = [checks EXCEPT
           ![i].left = Tail(@),
           ![i].got = IF Enabled(s) THEN @ \cup {s} ELSE @,
           ![i].dying = @ \/ s \in alive \ switched]
    /\ UNCHANGED <<services, foreground, shown, dying, turns, paired, received,
                   mark, message, toggles>>

Checked ==
  /\ checks # <<>> /\ Head(checks).left = <<>>
  /\ shown' = Head(checks).got /\ dying' = Head(checks).dying
  /\ checks' = Tail(checks)
  /\ UNCHANGED <<services, foreground, turns, paired, received, mark, message,
                 toggles>>

-----------------------------------------------------------------------------
(* Toasts, the send button and the rows *)

\* The timer of the toast before is cleared.
ShowToast ==
  /\ toasts < MaxToasts /\ toasts' = toasts + 1
  /\ toast' = toasts + 1
  /\ toastTimers' = (toastTimers \ {toasts}) \cup {toasts + 1}

\* setToast(null), whatever is on show.
ToastExpires(n) ==
  /\ n \in toastTimers /\ toastTimers' = toastTimers \ {n}
  /\ toast' = 0
  /\ UNCHANGED <<services, nudge, paired, received, mark, toasts, toggles>>

\* sendClipboard(), up to the read of the clipboard.
SendPressed ==
  /\ paired /\ foreground /\ toasts + sending < MaxToasts
  /\ sending' = sending + 1
  /\ UNCHANGED <<services, nudge, paired, received, manualSent, sentTimers,
                 message, toggles>>

\* Sent, or there is nothing to send or no connection.
ClipboardRead ==
  /\ sending > 0 /\ sending' = sending - 1
  /\ ShowToast
  /\ \/ manualSent' = TRUE /\ sentTimers' = sentTimers + 1
     \/ UNCHANGED <<manualSent, sentTimers>>
  /\ UNCHANGED <<services, nudge, paired, received, toggles>>

SentMarkExpires ==
  /\ sentTimers > 0 /\ sentTimers' = sentTimers - 1
  /\ manualSent' = FALSE
  /\ UNCHANGED <<services, nudge, paired, received, sending, message, toggles>>

\* The last step of onClip, onImageClip or a file.
Received(kind) ==
  /\ ShowToast
  /\ received' = SubSeq(<<kind>> \o received, 1,
                        IF Len(received) < MaxRows THEN Len(received) + 1 ELSE MaxRows)
  /\ UNCHANGED <<services, nudge, paired, mark, toggles>>

\* A row is copied again, or its file opened.  A file that opens, and a text
\* that cannot be copied, say nothing.
RowPressed(i) ==
  /\ foreground
  /\ \/ ShowToast
     \/ received[i] \in {"text", "file"} /\ UNCHANGED message
  /\ UNCHANGED <<services, nudge, paired, received, mark, toggles>>

\* Code scanned, or unpaired: the rows go with the pairing.
Pair == /\ ~paired /\ paired' = TRUE
        /\ UNCHANGED <<services, nudge, received, mark, message, toggles>>
Unpair == /\ paired /\ paired' = FALSE /\ received' = <<>>
          /\ UNCHANGED <<services, nudge, mark, message, toggles>>

Next ==
  \/ \E s \in Service : Toggle(s) \/ ServiceFollows(s) \/ EnablePressed(s)
  \/ Leaves \/ Comes \/ ReadsService \/ Checked
  \/ \E n \in toastTimers : ToastExpires(n)
  \/ SendPressed \/ ClipboardRead \/ SentMarkExpires
  \/ \E kind \in {"text", "image", "file"} : Received(kind)
  \/ \E i \in DOMAIN received : RowPressed(i)
  \/ Pair \/ Unpair

Spec == Init /\ [][Next]_vars

-----------------------------------------------------------------------------
(* Properties *)

\* When no check is under way the screen asks for the services that are off and
\* for no other, however often the app was left meanwhile: unless a service that
\* was switched off had not ended when it was looked for (App.tsx:159-174,
\* ClipboardModule.kt, NotificationModule.kt).
NudgesTrue ==
  foreground /\ checks = <<>> /\ ~dying
    => \A s \in Service : Nudged(s) <=> paired /\ s \notin switched

\* A toast is taken away by its own timer, and by no other (App.tsx:132-136).
ToastStays == toastTimers = IF toast = 0 THEN {} ELSE {toast}

\* The mark of what was sent goes away, after any number of presses
\* (App.tsx:545-556).
SentMarkGoes == manualSent => sentTimers > 0

ScreenHonest == NudgesTrue /\ ToastStays /\ SentMarkGoes
=============================================================================
