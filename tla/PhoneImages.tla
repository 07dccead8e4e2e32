----------------------------- MODULE PhoneImages -----------------------------
(***************************************************************************)
(* Images on the phone: the native listener that copies them out of the    *)
(* clipboard, the handler of App.tsx that sends them, the images that come *)
(* from the PC, and tryAutoSend.  Texts are the matter of PhoneClips.      *)
(*                                                                         *)
(* The bytes of one image differ with the way they were read: lastSentRef  *)
(* holds what the listener's file had ("raw"), or what getImageAsync       *)
(* encoded ("png").  Every content of the clipboard has a number.          *)
(***************************************************************************)
EXTENDS Integers, Sequences, FiniteSets

CONSTANTS
  UserImage, PCImage,  \* images the user copies, images the PC sends
  TooLarge,            \* those above MAX_SHARE_BYTES
  None,                \* no image: a text, or nothing
  MaxCopies,           \* bound: copies by the user
  MaxReceived,         \* bound: images from the PC
  MaxReads,            \* bound: times the app comes to the foreground
  MaxDrops             \* bound: connections lost

VARIABLES
  board,        \* the clipboard: its image, its number, its URI and who wrote it
  fired,        \* calls of the native listener that have not run yet
  lastImageUri,
  files,        \* copies in cacheDir/clipboard, by the number of the content
  events,       \* onClipboardImageChanged, not handled yet
  reading,      \* files being read by the handler
  lastSent,     \* lastSentRef
  grace,        \* Date.now() < selfWriteUntilRef
  applying,     \* onImageClip calls: the image, and "write" or "set"
  incoming,     \* cliplink_incoming.png
  auto,         \* tryAutoSend calls: "has", or "get" and no image yet
  online,
  out,          \* images given to the socket
  late,         \* ghost: the grace ended before an event it was meant for
  copies, received, reads, drops

bounds == <<copies, received, reads, drops>>
native == <<board, fired, lastImageUri>>
vars == <<native, files, events, reading, lastSent, grace, applying, incoming,
          auto, online, out, late, bounds>>

Image == UserImage \cup PCImage
Bytes(i, enc) == [img |-> i, enc |-> enc]
NoBytes == Bytes(None, "raw")

Init ==
  /\ board = [img |-> None, n |-> 0, uri |-> None, by |-> "user"] /\ fired = 0
  /\ lastImageUri = None /\ files = {} /\ events = <<>> /\ reading = {}
  /\ lastSent = NoBytes /\ grace = FALSE /\ applying = <<>> /\ incoming = None
  /\ auto = <<>> /\ online = FALSE /\ out = <<>> /\ late = FALSE
  /\ copies = 0 /\ received = 0 /\ reads = 0 /\ drops = 0

(***************************************************************************)
(* Android                                                                 *)
(***************************************************************************)

\* Android may call the listener more than once for one copy.
Put(i, uri, who) ==
  /\ board' = [img |-> i, n |-> board.n + 1, uri |-> uri, by |-> who]
  /\ \E k \in 1..2 : fired' = fired + k

\* A picture of the user's own has one URI, however often it is copied.  The
\* list of the app puts a received one back by copyReceivedImage.
UserCopies(i) ==
  /\ copies < MaxCopies /\ copies' = copies + 1
  /\ Put(i, IF i \in PCImage THEN board.n + 1 ELSE i, "user")
  /\ UNCHANGED <<lastImageUri, files, events, reading, lastSent, grace, applying,
                 incoming, auto, online, out, late, received, reads, drops>>

Known(uri) == uri = lastImageUri

\* emitImage: the bytes are copied first.
EmitImage ==
  /\ fired > 0 /\ fired' = fired - 1
  /\ IF board.img = None \/ Known(board.uri)
     THEN UNCHANGED <<lastImageUri, files, events>>
     ELSE /\ lastImageUri' = board.uri
          /\ files' = files \cup {board.n}
          /\ events' = Append(events, board)
  /\ UNCHANGED <<board, reading, lastSent, grace, applying, incoming, auto, online,
                 out, late, bounds>>

(***************************************************************************)
(* onClipboardImageChanged                                                 *)
(***************************************************************************)

Dropped(n) == files \ {n}

\* Refused: our own, or too large.
OnImageRefused ==
  /\ events # <<>> /\ (grace \/ Head(events).img \in TooLarge)
  /\ events' = Tail(events)
  /\ files' = Dropped(Head(events).n)
  /\ UNCHANGED <<native, reading, lastSent, grace, applying, incoming, auto, online,
                 out, late, bounds>>

OnImage ==
  /\ events # <<>> /\ ~grace /\ Head(events).img \notin TooLarge
  /\ events' = Tail(events)
  /\ reading' = reading \cup {Head(events)}
  /\ UNCHANGED <<native, files, lastSent, grace, applying, incoming, auto, online,
                 out, late, bounds>>

Frame(c, via) == [img |-> c.img, n |-> c.n, by |-> c.by, via |-> via]

\* sendImage, and the guard that remembers it.
Send(c, enc, via) ==
  /\ lastSent # Bytes(c.img, enc) /\ online
  /\ out' = Append(out, Frame(c, via))
  /\ lastSent' = Bytes(c.img, enc)

\* The file is read, or cannot be read; nothing keeps an image for later.
ReadDone(c) ==
  /\ c \in reading /\ reading' = reading \ {c}
  /\ files' = files \ {c.n}
  /\ Send(c, "raw", "event") \/ UNCHANGED <<lastSent, out>>
  /\ UNCHANGED <<native, events, grace, applying, incoming, auto, online, late, bounds>>

(***************************************************************************)
(* onImageClip                                                             *)
(***************************************************************************)

\* Mutant of OnImageClip: the window opens when the write is over.
OnImageClipUnguarded(i) ==
  /\ online /\ received < MaxReceived /\ received' = received + 1
  /\ applying' = Append(applying, [img |-> i, at |-> "write"])
  /\ UNCHANGED <<native, files, events, reading, lastSent, grace, incoming, auto, online,
                 out, late, copies, reads, drops>>

OnImageClip(i) ==
  /\ online /\ received < MaxReceived /\ received' = received + 1
  /\ grace' = TRUE
  /\ applying' = Append(applying, [img |-> i, at |-> "write"])
  /\ UNCHANGED <<native, files, events, reading, lastSent, incoming, auto, online,
                 out, late, copies, reads, drops>>

\* Writes to files are done in order, and so are writes to the clipboard.
FirstAt(s, k) == /\ applying[k].at = s
                 /\ \A l \in 1..k - 1 : applying[l].at # s

WriteIncoming(k) ==
  /\ FirstAt("write", k)
  /\ incoming' = applying[k].img
  /\ applying' = [applying EXCEPT ![k].at = "set"]
  /\ UNCHANGED <<native, files, events, reading, lastSent, grace, auto, online, out, late, bounds>>

\* Whatever the file holds by now.
SetImage(k) == Put(incoming, board.n + 1, "pc")

Applied(k) ==
  /\ FirstAt("set", k)
  /\ SetImage(k)
  /\ applying' = SubSeq(applying, 1, k - 1) \o SubSeq(applying, k + 1, Len(applying))
  /\ UNCHANGED <<lastImageUri, files, events, reading, lastSent, grace, incoming, auto,
                 online, out, late, bounds>>

\* The image on the clipboard is ours and its event may still come.
OwnToCome ==
  \/ applying # <<>>
  \/ board.by = "pc" /\ fired > 0
  \/ \E k \in DOMAIN events : events[k].by = "pc"

\* SELF_WRITE_GRACE_MS after the last image.
GraceEnds ==
  /\ grace /\ grace' = FALSE
  /\ late' = (late \/ OwnToCome)
  /\ UNCHANGED <<native, files, events, reading, lastSent, applying, incoming, auto,
                 online, out, bounds>>

(***************************************************************************)
(* tryAutoSend                                                             *)
(***************************************************************************)
Foreground ==
  /\ online /\ reads < MaxReads /\ reads' = reads + 1
  /\ auto' = Append(auto, "has")
  /\ UNCHANGED <<native, files, events, reading, lastSent, grace, applying, incoming,
                 online, out, late, copies, received, drops>>

Without(k) == SubSeq(auto, 1, k - 1) \o SubSeq(auto, k + 1, Len(auto))

\* hasImageAsync; a text is sent as PhoneClips has it.
AutoHas(k) ==
  /\ auto[k] = "has"
  /\ auto' = IF board.img = None THEN Without(k) ELSE [auto EXCEPT ![k] = "get"]
  /\ UNCHANGED <<native, files, events, reading, lastSent, grace, applying, incoming,
                 online, out, late, bounds>>

\* getImageAsync, and the image is sent unless it was the last.
AutoSends(k) ==
  /\ auto[k] = "get" /\ auto' = Without(k)
  /\ \/ board.img # None /\ Send(board, "png", "read")
     \/ /\ board.img = None \/ lastSent = Bytes(board.img, "png") \/ ~online
        /\ UNCHANGED <<lastSent, out>>
  /\ UNCHANGED <<native, files, events, reading, grace, applying, incoming, online, late, bounds>>

\* A new status is another reason to look at the clipboard.
Connect ==
  /\ ~online /\ online' = TRUE
  /\ auto' = Append(auto, "has")
  /\ UNCHANGED <<native, files, events, reading, lastSent, grace, applying, incoming,
                 out, late, bounds>>

Drop ==
  /\ online /\ drops < MaxDrops /\ drops' = drops + 1
  /\ online' = FALSE
  /\ UNCHANGED <<native, files, events, reading, lastSent, grace, applying, incoming,
                 auto, out, late, copies, received, reads>>

Next ==
  \/ \E i \in Image : UserCopies(i)
  \/ \E i \in PCImage : OnImageClip(i)
  \/ EmitImage \/ OnImageRefused \/ OnImage \/ GraceEnds \/ Foreground \/ Connect \/ Drop
  \/ \E c \in reading : ReadDone(c)
  \/ \E k \in DOMAIN applying : WriteIncoming(k) \/ Applied(k)
  \/ \E k \in DOMAIN auto : AutoHas(k) \/ AutoSends(k)

Spec == Init /\ [][Next]_vars

(***************************************************************************)
(* Properties                                                              *)
(***************************************************************************)

\* The listener never sends back an image that came from the PC, however its
\* copies to file and clipboard interleave with others, as long as its event
\* comes within the window (App.tsx:110-119, 237, 318).
NoImageEcho ==
  \A k \in DOMAIN out : out[k].via = "event" /\ out[k].by = "pc" => late

\* One copy, however often Android reports it, is sent once by the listener
\* (ClipboardAccessibilityService.kt:138-139).
ImageOnce ==
  \A k, l \in DOMAIN out :
    k # l /\ out[k].via = "event" /\ out[l].via = "event" => out[k].n # out[l].n

\* Coming to the foreground again does not send the same picture again: another
\* image was sent in between (App.tsx:400-406).
ReadOnce ==
  \A k, l \in DOMAIN out :
    k < l /\ out[k].via = "read" /\ out[l].via = "read" /\ out[k].n = out[l].n => l > k + 1

\* No copy of an image stays behind in the cache: a file there has an event or a
\* reader that will delete it (App.tsx:234-258, ClipboardAccessibilityService.kt:145-171).
NoLeftovers ==
  files = {events[k].n : k \in DOMAIN events} \cup {c.n : c \in reading}

\* Images go out once, and no copy of them is left.
ImagesSentOnce == NoImageEcho /\ ImageOnce /\ ReadOnce /\ NoLeftovers
=============================================================================
