------------------------------- MODULE Mirror -------------------------------
(***************************************************************************)
(* The phones' notifications on the PC: NotificationService.kt and         *)
(* notificationService.ts post them, client.ts sends them, server.rs hands *)
(* them to the window (desktop App.tsx), which lists them; dismissing one  *)
(* there is broadcast to every phone.  A notification is its key, which an *)
(* app uses again for what it posts next, and the number of its post.  The *)
(* event of a phone is handled in the step that posts: what the socket is  *)
(* when JavaScript gets it is all that matters.                            *)
(***************************************************************************)
EXTENDS Ranks, Sequences, Functions

CONSTANTS
  Phone, Key,
  MaxRows,      \* rows that the list keeps (50)
  MaxPosts,     \* bound: notifications posted
  MaxDismisses, \* bound: dismissals on the PC
  MaxEnds       \* bound: sessions that end

VARIABLES
  shade,        \* the number of the post a phone shows for a key, or 0
  up, down,     \* posts on their way to the window, dismissals to the phones
  joined,       \* phones with an open session
  rows,         \* notifications
  dismissing,   \* invocations of dismiss_phone_notification to be answered
  arrived,      \* ghost: the posts that reached the window
  dismissed,    \* ghost: posts up to this number of a key were dismissed on the PC
  missed,       \* ghost: phones, with the posts that a dismissal did not remove there
  posts, dismisses, ends

phones == <<shade, joined>>
wire == <<up, down>>
ghosts == <<arrived, dismissed, missed>>
bounds == <<posts, dismisses, ends>>
vars == <<phones, wire, rows, dismissing, ghosts, bounds>>

Init ==
  /\ shade = [p \in Phone |-> [k \in Key |-> 0]] /\ joined = [p \in Phone |-> TRUE]
  /\ up = [p \in Phone |-> <<>>] /\ down = [p \in Phone |-> <<>>]
  /\ rows = <<>> /\ dismissing = <<>>
  /\ arrived = <<>> /\ dismissed = [k \in Key |-> 0] /\ missed = {}
  /\ posts = 0 /\ dismisses = 0 /\ ends = 0

(***************************************************************************)
(* A phone                                                                 *)
(***************************************************************************)

\* The frame of a post, on its way by the socket.
sendNotification(p, n) == [up EXCEPT ![p] = Append(@, n)]

\* App.tsx gives what is posted to the client, if there is one with a socket.
Forwarded(p, n) == IF joined[p] THEN sendNotification(p, n) ELSE up

\* Without a socket the post is not sent, then or later.
Post(p, k) ==
  /\ posts < MaxPosts /\ posts' = posts + 1
  /\ shade' = [shade EXCEPT ![p][k] = posts + 1]
  /\ up' = Forwarded(p, [key |-> k, post |-> posts + 1])
  /\ UNCHANGED <<joined, down, rows, dismissing, ghosts, dismisses, ends>>

\* cancelNotification() of the listener.
dismissNotification(p, k) == [shade EXCEPT ![p][k] = 0]

\* The user removes it. The PC reads notification-dismiss frames and does nothing with them.
Swipe(p, k) ==
  /\ shade[p][k] # 0
  /\ shade' = [shade EXCEPT ![p][k] = 0]
  /\ UNCHANGED <<joined, wire, rows, dismissing, ghosts, bounds>>

\* What p shows for the keys K.
Kept(p, K) == {<<p, shade[p][k]>> : k \in K}

\* Nothing is done when the listener is not bound, when the cancel fails, or when the
\* notification is one that Android does not let go; no one is told.
OnNotificationDismiss(p) ==
  /\ down[p] # <<>>
  /\ down' = [down EXCEPT ![p] = Tail(@)]
  /\ \/ shade' = dismissNotification(p, Head(down[p])) /\ UNCHANGED missed
     \/ missed' = missed \cup Kept(p, {Head(down[p])}) /\ UNCHANGED shade
  /\ UNCHANGED <<joined, up, rows, dismissing, arrived, dismissed, bounds>>

\* The channel lets go of what a slow session has not taken, and serve goes on.
Lagged(p, i) ==
  /\ i \in DOMAIN down[p]
  /\ down' = [down EXCEPT ![p] = Retain(@, DOMAIN @ \ {i})]
  /\ missed' = missed \cup Kept(p, {down[p][i]})
  /\ UNCHANGED <<phones, up, rows, dismissing, arrived, dismissed, bounds>>

\* What is in the connection is lost with it.
SessionEnds(p) ==
  /\ joined[p] /\ ends < MaxEnds /\ ends' = ends + 1
  /\ joined' = [joined EXCEPT ![p] = FALSE]
  /\ up' = [up EXCEPT ![p] = <<>>] /\ down' = [down EXCEPT ![p] = <<>>]
  /\ missed' = missed \cup Kept(p, Range(down[p]))
  /\ UNCHANGED <<shade, rows, dismissing, arrived, dismissed, posts, dismisses>>

Joins(p) ==
  /\ ~joined[p]
  /\ joined' = [joined EXCEPT ![p] = TRUE]
  /\ UNCHANGED <<shade, wire, rows, dismissing, ghosts, bounds>>

(***************************************************************************)
(* The window                                                              *)
(***************************************************************************)

Without(k) == Retain(rows, {i \in DOMAIN rows : rows[i].key # k})

\* Mutant of Listed: the old row of a key stays.
ListedAgain(n) == SubSeq(<<n>> \o rows, 1, IF Len(rows) >= MaxRows THEN MaxRows ELSE Len(rows) + 1)

\* One row for a key, the newest on top.
Listed(n) ==
  LET all == <<n>> \o Without(n.key) IN
  SubSeq(all, 1, IF Len(all) > MaxRows THEN MaxRows ELSE Len(all))

OnPhoneNotification(p) ==
  /\ up[p] # <<>>
  /\ rows' = Listed(Head(up[p]))
  /\ arrived' = Append(arrived, Head(up[p]))
  /\ up' = [up EXCEPT ![p] = Tail(@)]
  /\ UNCHANGED <<phones, down, dismissing, dismissed, missed, bounds>>

\* Whom a dismissal is sent to: a key has no phone.
Told == {p \in Phone : joined[p]}

\* dismissPhoneNotification(), up to the answer.
DismissPhoneNotification(k) ==
  /\ dismisses < MaxDismisses /\ dismisses' = dismisses + 1
  /\ \E i \in DOMAIN rows : rows[i].key = k
  /\ down' = [p \in Phone |-> IF p \in Told THEN Append(down[p], k) ELSE down[p]]
  /\ dismissing' = Append(dismissing, k)
  /\ dismissed' = [dismissed EXCEPT ![k] = posts]
  /\ missed' = missed \cup UNION {Kept(p, {k}) : p \in Phone \ Told}
  /\ UNCHANGED <<phones, up, rows, arrived, posts, ends>>

\* The row of the key goes, whichever post it shows by now.
DismissAnswered ==
  /\ dismissing # <<>>
  /\ rows' = Without(Head(dismissing)) /\ dismissing' = Tail(dismissing)
  /\ UNCHANGED <<phones, wire, ghosts, bounds>>

\* The phones keep theirs.
ClearAll ==
  /\ rows # <<>> /\ rows' = <<>>
  /\ UNCHANGED <<phones, wire, dismissing, ghosts, bounds>>

Next ==
  \/ \E p \in Phone : \/ \E k \in Key : Post(p, k) \/ Swipe(p, k)
                      \/ OnNotificationDismiss(p) \/ SessionEnds(p) \/ Joins(p)
                      \/ OnPhoneNotification(p)
                      \/ \E i \in 1..MaxDismisses : Lagged(p, i)
  \/ \E k \in Key : DismissPhoneNotification(k)
  \/ DismissAnswered \/ ClearAll

Spec == Init /\ [][Next]_vars

(***************************************************************************)
(* Properties                                                              *)
(***************************************************************************)

\* When a row arrived.
Arrival(n) == CHOOSE i \in DOMAIN arrived : arrived[i] = n

\* The list shows the newest arrival first, and of each key nothing but what
\* arrived last, though two phones and many posts may share the key.
NewestOfEachKey ==
  /\ \A i, j \in DOMAIN rows : i < j =>
       rows[i].key # rows[j].key /\ Arrival(rows[i]) > Arrival(rows[j])
  /\ \A i \in DOMAIN rows : \A n \in Range(arrived) :
       n.key = rows[i].key => Arrival(n) <= Arrival(rows[i])

\* What a phone shows although it was posted before its key was dismissed on the PC is
\* about to go, or is a post that the dismissal never removed: the phone was away, its
\* session ended or fell behind the channel (server.rs:382), its listener was not bound
\* (NotificationModule.kt:51), or the cancel failed or was refused
\* (NotificationService.kt:61). Nobody tries again.
DismissedEverywhere ==
  \A p \in Phone, k \in Key :
    shade[p][k] \in 1..dismissed[k] /\ <<p, shade[p][k]>> \notin missed
      => k \in Range(down[p])

\* The mirror is true.
MirrorHonest == NewestOfEachKey /\ DismissedEverywhere
=============================================================================
