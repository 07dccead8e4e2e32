---------------------------- MODULE FileTransfer ----------------------------
(***************************************************************************)
(* Files from a phone to the PC: sendFile of client.ts, the buffers of     *)
(* serve (server.rs), the saving of lib.rs and the list of the PC's window.*)
(* A file is one transfer; frame 0 is its file-start and frame i its i-th  *)
(* chunk.                                                                  *)
(*                                                                         *)
(* The other direction does not exist: no window calls the PC's send_file, *)
(* and its frames carry no type (protocol.rs:86-113), as its file-ack does *)
(* not, so handle() of the phone falls through on every one of them.       *)
(***************************************************************************)
EXTENDS Integers, Sequences, Functions

CONSTANTS
  File,         \* transfers
  Chunks,       \* how many chunks a file has: none if it is empty
  Name,         \* the name of a file
  None,
  MaxFiles,     \* entries the window's list keeps (20)
  MaxEnds,      \* bound: sessions that end
  MaxFails      \* bound: files that cannot be written, and chunks that do not open

Names == {Name[f] : f \in File}

VARIABLES
  open,         \* the socket is open and has its key
  up, down,     \* frames on their way, and acknowledgements
  pcBuffers,    \* file_buffers of the session, by file: the chunks that arrived
  pcDisk,       \* which file each name holds
  pcList,       \* filesReceived of the window
  sent,         \* ghost: files handed to the socket, in order
  cut,          \* ghost: files that a session took with it
  failed,       \* ghost: files that could not be saved
  spoiled,      \* ghost: files of which a chunk did not open
  pcDone,       \* ghost: files saved, in order
  ends, fails

pc == <<pcBuffers, pcDisk, pcList, pcDone>>
wire == <<open, up, down>>
losses == <<cut, failed, spoiled>>
bounds == <<ends, fails>>
vars == <<wire, pc, sent, losses, bounds>>

Init ==
  /\ open = TRUE /\ up = <<>> /\ down = <<>>
  /\ pcBuffers = [f \in {} |-> {}] /\ pcDisk = [n \in Names |-> None]
  /\ pcList = <<>> /\ pcDone = <<>>
  /\ sent = <<>> /\ cut = {} /\ failed = {} /\ spoiled = {}
  /\ ends = 0 /\ fails = 0

Frames(f) == [i \in 1..Chunks[f] + 1 |-> [file |-> f, index |-> i - 1]]
IsStart(m) == m.index = 0

With(b, f, S) == [g \in DOMAIN b \cup {f} |-> IF g = f THEN S ELSE b[g]]
First(q, n) == SubSeq(q, 1, IF Len(q) > n THEN n ELSE Len(q))

(***************************************************************************)
(* The phone and the session                                               *)
(***************************************************************************)

\* All frames of a file are given to the socket in one go.
SendFile(f) ==
  /\ open /\ f \notin Range(sent)
  /\ up' = up \o Frames(f) /\ sent' = Append(sent, f)
  /\ UNCHANGED <<open, down, pc, losses, bounds>>

\* The file-ack of the PC, which has no type: no branch of handle() takes it.
AckIgnored ==
  /\ down # <<>> /\ down' = Tail(down)
  /\ UNCHANGED <<open, up, pc, sent, losses, bounds>>

InTransit == {m.file : m \in Range(up)}

\* The buffers of serve go with its task.
SessionEnds ==
  /\ open /\ ends < MaxEnds /\ ends' = ends + 1
  /\ open' = FALSE /\ up' = <<>> /\ down' = <<>>
  /\ cut' = cut \cup InTransit \cup DOMAIN pcBuffers
  /\ pcBuffers' = [f \in {} |-> {}]
  /\ UNCHANGED <<pcDisk, pcList, pcDone, sent, failed, spoiled, fails>>

Reconnects ==
  /\ ~open /\ open' = TRUE
  /\ UNCHANGED <<up, down, pc, sent, losses, bounds>>

(***************************************************************************)
(* The PC                                                                  *)
(***************************************************************************)

OnFileStart ==
  /\ up # <<>> /\ IsStart(Head(up))
  /\ pcBuffers' = With(pcBuffers, Head(up).file, {})
  /\ up' = Tail(up)
  /\ UNCHANGED <<open, down, pcDisk, pcList, pcDone, sent, losses, bounds>>

\* on_file: saved under its name, whatever is there; nobody is told of a failure.
Saves(f) ==
  \/ /\ pcDisk' = [pcDisk EXCEPT ![Name[f]] = f]
     /\ pcList' = First(<<f>> \o pcList, MaxFiles)
     /\ pcDone' = Append(pcDone, f)
     /\ UNCHANGED <<failed, fails>>
  \/ /\ fails < MaxFails /\ fails' = fails + 1
     /\ failed' = failed \cup {f}
     /\ UNCHANGED <<pcDisk, pcList, pcDone>>

\* As many chunks as the file has.
Complete(f, S) == S = 1..Chunks[f]

\* Mutant of Taken: the buffer of a file that is complete stays.
TakenNot(f) == pcBuffers

\* file_buffers.remove()
Taken(f) == [g \in DOMAIN pcBuffers \ {f} |-> pcBuffers[g]]

\* A chunk of a file that has a buffer; with the last one the file is acknowledged,
\* and then saved. A file without chunks never gets there.
Opened(f, i) ==
  LET S == pcBuffers[f] \cup {i} IN
  /\ IF Complete(f, S)
     THEN /\ pcBuffers' = Taken(f)
          /\ down' = Append(down, f)
          /\ Saves(f)
     ELSE /\ pcBuffers' = With(pcBuffers, f, S)
          /\ UNCHANGED <<pcDisk, pcList, pcDone, down, failed, fails>>
  /\ UNCHANGED spoiled

\* key.open() fails: the chunk is dropped, no one is told, and the rest is read on.
Spoils(f) ==
  /\ fails < MaxFails /\ fails' = fails + 1
  /\ spoiled' = spoiled \cup {f}
  /\ UNCHANGED <<pc, down, failed>>

OnFileChunk ==
  /\ up # <<>> /\ ~IsStart(Head(up)) /\ up' = Tail(up)
  /\ LET f == Head(up).file IN
     IF f \in DOMAIN pcBuffers THEN Opened(f, Head(up).index) \/ Spoils(f)
     ELSE UNCHANGED <<pc, down, failed, spoiled, fails>>
  /\ UNCHANGED <<open, sent, cut, ends>>

\* "Clear list": the files stay.
ClearFiles ==
  /\ pcList # <<>> /\ pcList' = <<>>
  /\ UNCHANGED <<wire, pcBuffers, pcDisk, pcDone, sent, losses, bounds>>

Next ==
  \/ \E f \in File : SendFile(f)
  \/ AckIgnored \/ SessionEnds \/ Reconnects
  \/ OnFileStart \/ OnFileChunk \/ ClearFiles

Spec == Init /\ [][Next]_vars

(***************************************************************************)
(* Properties                                                              *)
(***************************************************************************)

HasNoBytes(f) == Chunks[f] = 0
SentBefore(f, g) == \E i, j \in DOMAIN sent : i < j /\ sent[i] = f /\ sent[j] = g

\* Every transfer is accounted for, and on one account: its frames are under way,
\* it is saved, it failed, its session ended, or it hangs in a buffer to which
\* nothing comes any more (server.rs:323-365, lib.rs:769-800).
Hanging == DOMAIN pcBuffers \ InTransit
Accounts == <<InTransit, Range(pcDone), failed, cut, Hanging>>
EveryTransferAccounted ==
  \A f \in Range(sent) : \E i \in 1..5 :
    f \in Accounts[i] /\ \A j \in 1..5 \ {i} : f \notin Accounts[j]

\* No file hangs but an empty one, whose end never comes, and one of which a chunk
\* did not open, which stays until its session ends (server.rs:334).
BuffersAreNeeded == \A f \in Hanging : HasNoBytes(f) \/ f \in spoiled

\* The PC saves files in the order in which they were sent, each one once, and none
\* of which it could not read a chunk.
SavedInOrder ==
  /\ IsInjective(pcDone) /\ Range(pcDone) \cap spoiled = {}
  /\ \A i, j \in DOMAIN pcDone : i < j => SentBefore(pcDone[i], pcDone[j])

\* A name holds the last file that was saved under it.
LastOfItsName ==
  \A i \in DOMAIN pcDone :
    (\A j \in DOMAIN pcDone : j > i => Name[pcDone[j]] # Name[pcDone[i]])
      => pcDisk[Name[pcDone[i]]] = pcDone[i]

\* The window has the newest files first, and misses none in between, whatever was
\* cleared or fell off the end (desktop App.tsx:156-158).
NewestFirst ==
  Len(pcList) <= Len(pcDone)
  /\ \A i \in DOMAIN pcList : pcList[i] = pcDone[Len(pcDone) + 1 - i]

\* What the PC acknowledges arrived whole; it may not have been saved.
AckedWasWhole == Range(down) \subseteq Range(pcDone) \cup failed

\* Transfers go as they should.
TransfersHold ==
  /\ EveryTransferAccounted /\ SavedInOrder /\ BuffersAreNeeded
  /\ LastOfItsName /\ NewestFirst /\ AckedWasWhole
=============================================================================
