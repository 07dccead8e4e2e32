-------------------------------- MODULE Feed --------------------------------
(***************************************************************************)
(* What the PC promises to the phones that are connected: a reader of the  *)
(* log gets what is published after it has joined, in order and each once. *)
(* It goes without a message only when the message is too large for any    *)
(* phone, or when it has fallen more than Capacity messages behind; and as *)
(* long as it listens it gets on, whatever the other readers do.           *)
(***************************************************************************)
EXTENDS Integers, Sequences

CONSTANTS Reader, Message, TooLarge, Capacity

VARIABLES
  log,
  open,         \* readers that have joined
  listening,    \* readers that are still there to read
  at,           \* how far each one is
  got           \* what each one was given since it joined

vars == <<log, open, listening, at, got>>

Init ==
  /\ log = <<>>
  /\ open = [r \in Reader |-> FALSE] /\ listening = [r \in Reader |-> FALSE]
  /\ at = [r \in Reader |-> 0]
  /\ got = [r \in Reader |-> <<>>]

Publish ==
  /\ \E m \in Message : log' = Append(log, m)
  /\ UNCHANGED <<open, listening, at, got>>

\* A reader begins with what is published next.
Join(r) ==
  /\ ~open[r]
  /\ open' = [open EXCEPT ![r] = TRUE]
  /\ \E b \in BOOLEAN : listening' = [listening EXCEPT ![r] = b]
  /\ at' = [at EXCEPT ![r] = Len(log)]
  /\ got' = [got EXCEPT ![r] = <<>>]
  /\ UNCHANGED log

\* A reader may be gone long before that is known.
StopListening(r) ==
  /\ listening[r]
  /\ listening' = [listening EXCEPT ![r] = FALSE]
  /\ UNCHANGED <<log, open, at, got>>

\* Nobody who listens is put off. A message that is half given is never finished.
Leave(r) ==
  /\ open[r] /\ ~listening[r]
  /\ open' = [open EXCEPT ![r] = FALSE]
  /\ at[r] <= Len(log) /\ \E k \in {0, 1} : at' = [at EXCEPT ![r] = @ + k]
  /\ UNCHANGED <<log, listening, got>>

Take(r) ==
  /\ open[r] /\ at[r] < Len(log) /\ log[at[r] + 1] \notin TooLarge
  /\ at' = [at EXCEPT ![r] = @ + 1]
  /\ got' = [got EXCEPT ![r] = Append(@, at[r] + 1)]
  /\ UNCHANGED <<log, open, listening>>

Pass(r) ==
  /\ open[r] /\ at[r] < Len(log) /\ log[at[r] + 1] \in TooLarge
  /\ at' = [at EXCEPT ![r] = @ + 1]
  /\ UNCHANGED <<log, open, listening, got>>

\* What is still held is never lost.
Lose(r) ==
  /\ open[r] /\ Len(log) - at[r] > Capacity
  /\ at' = [at EXCEPT ![r] = Len(log) - Capacity]
  /\ UNCHANGED <<log, open, listening, got>>

Moves(r) == Take(r) \/ Pass(r) \/ Lose(r)

Next == Publish \/ \E r \in Reader : Join(r) \/ StopListening(r) \/ Leave(r) \/ Moves(r)

Fairness == \A r \in Reader : WF_vars(listening[r] /\ Moves(r))

Spec == Init /\ [][Next]_vars
FairSpec == Spec /\ Fairness
=============================================================================
