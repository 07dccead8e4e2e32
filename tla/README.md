# ClipLink: specification and verification

TLA+ modules, TLC configurations and TLAPS proofs for ClipLink, a clipboard that
is shared between a PC and Android phones on one network. Every definition is
translated from the source under `src/`; `PROJECT.json` says, for each, which
lines it stands for.

## 1. The system

| Part | Source | State | Operations | Module |
|---|---|---|---|---|
| Pairing server | `server.rs`, `settings.rs`, `lib.rs` | pending nonces, paired phones, identity, `settings.json`, a task per connection | mint and claim a nonce, hello, look up, remember, last seen, ack, disconnect, rename, preferences, restart | `Pairing` |
| Session and fan-out | `server.rs:283-448` | broadcast channel of 64, a receiver per session | take from the channel, write, read a frame, answer, end | `Fanout`, `Feed` |
| Phone client | `client.ts` | socket, key, three timers, candidate hosts, back-off | connect, attempt, open/message/error/close, network change, close | `SyncClient` |
| Crypto | `crypto.rs`, `packages/crypto` | identities, session keys | derive, seal, open | `Session` |
| PC clipboard bridge | `clipboard.rs`, `lib.rs` | clipboard, suppression set, `last_hash` | poll, apply, suppress, announce | `Watcher` |
| Phone clipboard bridge | `ClipboardAccessibilityService.kt`, `App.tsx` | clipboard, `lastSentRef`, pending queue, grace window | emit, send, queue, flush, apply, read | `PhoneClips`, `PhoneImages` |
| History | `lib.rs`, `settings.rs` | entries, limit, `history.json` | record, pin, unpin, delete, clear, limit, persist, load | `History` |
| File transfer | `server.rs`, `client.ts`, `lib.rs` | buffers per transfer of a session, the list of received files | start, chunk, assemble, acknowledge, save | `FileTransfer` |
| Share sheet | `ShareModule.kt`, `shareService.ts`, `App.tsx` | pending share, listener, retry loop | intent, flush, drain, retry, give up | `Share` |
| Phone notifications | `NotificationService.kt`, `client.ts`, desktop `App.tsx` | shade, list of the window | post, remove, dismiss, clear | `Mirror` |
| Toasts | `Toasts.tsx`, `toastPrefs.ts` | stack, two maps of timers, `paused`, a window | push, arm, dismiss, remove, size, place, show | `Toasts` |
| Updater | `updater.ts`, `useUpdater.ts`, `SettingsScreen.tsx` | APK files, phase of the hook, notified version, permission | check, download, install, prune, notify | `Updater`, `UpdateNotes` |
| Phone app | `App.tsx` | stored pairing, screens, client, toast, marks | bootstrap, scan, pair, unpair, enable a service, send | `PhoneApp`, `PhoneScreen` |
| Background service | `backgroundSync.ts` | foreground service and its notification | start, stop, text | `BackgroundSync` |
| Desktop window | desktop `App.tsx`, `lib.rs` | what each tab shows | list, pair, disconnect, rename, settings, copy, delete | `DesktopPairing`, `DesktopRename`, `DesktopSettings`, `DesktopClips` |
| Overlay | `Overlay.tsx`, `lib.rs` | list, search, cursor | show, search, pin, delete, paste | `Overlay` |
| Website | `SyncSimulator.tsx`, `Downloads.tsx`, `release.ts`, `platform.ts` | the demonstration; the rendered release and the guess at a platform | type, push, land, render; release, render, visit | `Simulator`, `Downloads` |
| Wire format | `protocol.rs`, `packages/protocol` | - | encode, decode | frames in `Session`, `FileTransfer`, `PhoneApp` |
| Native services | `ClipboardModule.kt`, `NotificationModule.kt`, ... | - | bridges | `PhoneScreen` in part |
| Discovery, build scripts | `discovery.rs`, ... | - | - | not modelled |

The PC is the server. It mints a nonce, shows it in a QR code and waits; the
phone scans it, opens a WebSocket, says hello, and keeps the socket open,
reconnecting by itself. A copy on the PC is found by a polling thread and handed
to every session through the broadcast channel; a copy on the phone is sent by
the app through its one `SyncClient`. The two ends share nothing but the socket.

Where interleavings come from: on the PC, the parts share the mutexes of
`ServerState` and `App`, taken for one operation at a time and never across an
operation. Its windows ask by `invoke` and are told by events, and an answer and
an event are not in step. On the phone JavaScript runs one callback at a time;
what interleaves is the order of callbacks, of native events and of what happens
between the two ends of an `await`. In a window or a page built with React, a
handler acts on what was rendered, a ref on what is.

### What is hard, and what makes each part correct

`hazards` in `PROJECT.json` names every hazard at its line, with the properties
that watch over it or the reason why none does. In short: a pairing code opens
the door once; a client never strands and never piles up attempts; a key opens
what was sealed for it, whichever socket it came by; a connected phone is fed
everything in order; nothing the app wrote goes back and nothing the user copied
is lost on the way; lists, files and windows agree when the calls and events
between them have come to rest; every busy state and retry ends.

## 2. The modules

A module models one component and holds its properties; `MC<module>` has what
TLC needs in addition; `<module>Proofs` has the theorems. Mutants of the code,
marked as such, stand before the definition they vary; they are no part of the
model.

| Module | State | Actions |
|---|---|---|
| `Pairing` | nonces, paired phones, identity, `settings.json`, the stage of every connection | one per stretch of `serve` under one lock up to the hello-ack, one per command that writes the settings, restarts after a whole and after a torn file |
| `Fanout` | the log of the channel, each receiver's place, the frame being written, the connection | publish, ack, subscribe, receive, lag, write, read, answer, end |
| `Feed` | the abstract promise: a log and, per reader, its place and what it was given | publish, join, take, pass over, lose, leave |
| `SyncClient` | the fields of the class, every socket whose callbacks can still run, where the PC answers | one per callback: open, ack, error frame, failure, drop, close, three timers, network notification, `connect`, `close` |
| `Session` | the identities, the phone's one key, the keys of the PC's sessions, sealed frames on both ways | scan, open, handshake, send and receive on both sides, close, reset, restart, loss of the key |
| `Watcher` | the PC's clipboard, `last_hash`, the suppressions with their ages, the write under way per thread | a copy of the user, suppress, set, a failing write, the two halves of a poll |
| `PhoneClips` | clipboard, calls of the listener, events, `lastSentRef`, the queue, writes and reads under way; of the client its socket, its key, replaced sockets that may still report, its two timers | a copy, emit, the event handler, `onClip`, the flush, the two halves of a read; pair, attempt, open, hello-ack, also a late one, network change, drop, a late `onclose`, error frame, unpair, the late report of a closed client |
| `PhoneImages` | the same for pictures, with the files the listener leaves and the grace window | copy, emit, event, receive, apply, `tryAutoSend` |
| `History` | the list, the limit and both files, the limit each recorder has read, what is left of the command | the two halves of `record`, one per command up to its next lock, truncation, restarts |
| `FileTransfer` | frames of the phone, acknowledgements, buffers of the session, the PC's disk and list | send, start, chunk, a chunk that does not open, save, fail, end of the session, "Clear list" |
| `Share` | pending items, the queue to JavaScript, the loops | intents of a new and a running activity, drain, event, retry, give up |
| `Mirror` | shade of each phone, frames on both ways, the list | post, swipe, forward, list, dismiss, lag of a session, cancel that works or not, clear, end of a session |
| `Toasts` | stack, timers, pause, the run of the effect that places the window | push, expire, remove, hover, click, size, place, show, change of preferences |
| `Updater`, `UpdateNotes` | files, hooks of several mounts, downloads; notification, permission, stored version | each stretch between two `await`s |
| `PhoneApp`, `PhoneScreen`, `BackgroundSync` | the stored pairing and the screens; the nudges, the toast and the rows; the service | each handler, each timer, each stretch between two `await`s |
| `DesktopPairing`, `DesktopRename`, `DesktopSettings`, `DesktopClips`, `Overlay` | a tab or panel, calls and answers under way, events, and the backend it asks | each handler, each command, each event |
| `Simulator`, `Downloads` | what is set and what is rendered; the releases, the page and its visitor | each click, timer, landing and render; jobs, renders, visits |

`Ranks` has the operators that `History`, `Mirror`, `DesktopClips` and `Overlay`
define their lists by: `Retain(q, S)` is what `filter` and `retain` leave of `q`,
the entries at the places `S` in their order.

`PhoneParts`, `DesktopParts`, `ListParts`, `MCParts` and `MCSettles` are sums: their
components share no state, so a behaviour is one of the component that the variable
`part` names (declared in `Side`), while the variables of the others are 0. A
property of component C is stated as `part = "c" => C!Property`. That checks each
component as if it ran alone. The first three have the components about which
theorems are proved, with the assumptions on their constants: the phone's, the
PC's, and those of either that keep a list of what has come, with the website.
`MCParts` extends the three and is what TLC runs. A behaviour of `MCParts` is one
of `PhoneSpec`, one of `DesktopSpec` and one of `ListSpec`: in each of them, the
component is one of its own, or nothing of it moves. `MCSettles` has the
specifications with fairness.

What is abstracted: a hash is the content it is taken of; a phone is its key; an
address, a network and a text are model values; an exchange of keys is the pair
of the two identities; time is a clock of few ticks (`Pairing`,
`DesktopPairing`) or is counted in polls (`Watcher`), and timers fire in any
order. Pictures are (picture, encoder), since each end encodes the pixels again.
Ghost variables, marked in the declarations, remember what the properties need;
no guard of the code reads them. Several modules have a ghost `causes`, which
names the coincidences that a property excepts, each at the step that makes one:
the exceptions are known limits of the code, and the property says there are no
others.

## 3. What is checked

| Run | Bounds | Shows |
|---|---|---|
| `pairing_safety` | 2 phones, one more with a broken key, 2 codes, 2 connections, 2 faults | codes open the door once and in time, the list is by invitation, what was saved survives, a disconnect forgets |
| `pairing_forget` | 1 phone, 2 connections, no fault | violated: the phone is back after a disconnect between check and insertion |
| `client_safety` | 4 sockets, 3 addresses, 2 network changes, 1 drop, 1 move | attempts are bounded, never none, key only with a session, complete list of hosts, silence after `close()` |
| `client_rescan` | 1 network change, a PC that stays | violated: the stale `onclose` moves the index and disturbs the working connection |
| `watcher` | 1 session and a command, 2 copies, 1 arrival, a failed read and a failed write | no text is echoed, each suppression swallows one change, the last content becomes known |
| `watcher_recopy` | 1 session, 2 copies, 2 arrivals | violated: a suppression that no poll consumed swallows the user's own copy |
| `phone` | 3 copies, 1 clip from the PC, 2 lost connections, network changes, error frames or unpairings, 1 read, at most 2 of these three kinds together, a queue of 2 | order but for the named overtaking, no clip lost but by the limit, the queue drains unless the user unpairs or an error frame stops the client |
| `phone_bounce` | 2 clips from the PC, no user | violated: the first of two clips goes back |
| `history` | 2 recorders, 4 clips of 3 texts, 3 commands, a limit of 2, a restart, a failing save | one entry per clip, pins, deletions, the file, the size |
| `fanout` | 2 sessions, a channel of 1, 2 messages of which a file takes several frames and an image may be too large | implements the feed, with its liveness; sessions end |
| `parts` | see the head of `MCParts.cfg` | 18 components: what each shows and sends is true in every order of calls, answers and events |
| `settles` | see the head of `MCSettles.cfg`; for the client 1 network change, 1 drop, 1 move of the PC | hellos are answered, the client reaches the PC or has gone astray, updates, shares and toasts come to an end |

Every property of a passing run has a mutant of the code which the run detects.

The bounds are the smallest at which the cases of the hazards happen: two
connections for every race of the handshake, one fault more than a restart
needs; a socket that is open, one that is closing and a timer for a third, twice
over, for the client; a suppression of four polls, which outlives a write, a
failed read and a decision, and expires within the run; a queue of two that
three copies overflow, the last of which may also overtake a queued one on a socket
with the key of an older one; a list that two pins fill, and a history that is
loaded with a pin above a newer entry; a channel that one message fills, so that a
receiver lags at the second; two mounts of the update screen, since a third would
only repeat what two overlap in; two phones that use
one notification key. The lifetime of a suppression is 4 polls in the runs and 10
in the code; the theorems hold for every lifetime that `WatcherAssumption`
allows. `MinLimit` and `MaxLimit` of the history are 1 and 2 where the code has
10 and 500. In the run the list of `Mirror` holds all that is posted, so that its
cut is not reached; the theorem holds for a list of any size.

Symmetry is used only where a run has no temporal property but one of the form
`[][A]_vars`, and over values that nothing orders: phones, codes, connections,
sockets, texts, recorders; in `parts` the two PCs and the two mounts.

Deadlock is not checked: every model stops when its bounds are used up, and the
system itself rests when nobody copies anything.

### A refinement

`Feed` says what the PC promises to a connected phone in terms of a log: in
order, once, whole, and a loss only of what is too large or of more than
`Capacity` messages; and whoever listens gets on, whatever the others do.
`Fanout` is the loop of `serve` with its channel, its writes that wait and its
answers. `ImplementsFeed` maps a session to a reader that joins at `subscribe`
and is past a message when its last frame is written; a message half written is
not yet given. `ImplementsFeedSafely` is the same without fairness.

### Fairness

Safety and action properties need none. Liveness is checked under `FairSpec`:

- `Pairing`: each connection's task goes on once a hello has come. The tokio
  runtime polls tasks that are ready, and no lock is held across an await.
- `Fanout`: a task that can run is polled; strong fairness of taking from the
  channel, as `select!` picks among ready branches at random; a phone that is
  there reads.
- `SyncClient`: timers fire, and a socket reports opening, failing and closing.
  The PC need not answer at any address but those in `up`. `ReachesPC` excepts a
  client that has gone `Astray`: it was connected, and the address it tries next is
  not the PC's, which the code repairs only at the next network change. Before the
  first connection, and after a network change until the next one, there is no
  exception.
- `Watcher`: the poll loop goes on, a write ends, a session serves its channel.
  Polls that find the clipboard unreadable are bounded in a row (`MaxBusy`): a
  program does not hold the clipboard open for seconds.
- `PhoneClips`: callbacks that are due run and timers fire; of the PC, that it is in
  reach and answers a socket that stays, which is when `ReachesPC` of `SyncClient`
  applies. Nothing is promised of a phone that is unpaired or of a client that an
  error frame stopped, so `BacklogDrains` excepts both: no step brings them back but
  one of the user or of the network.
- `Updater`: fetches, file operations and downloads return, in success or not.
- `Share`: the loop of a batch goes on; its waits are timers.
- `Toasts`: timers fire, the window system answers, events of the preferences
  arrive.

No fairness is assumed of users, drops, faults or restarts.

### What the runs found

The four runs that expect a violation are findings, each against a sentence of
the code or the docs (`findings`). What else was met while modelling, without a
text that it contradicts or a run of its own:

- The PC's `send_file` frames and its `file-ack` carry no type field, and the
  phone's handler drops them; no window calls `send_file`. So the code of the
  phone that receives files (App.tsx:329-375) is unreachable, and not modelled.
- A chunk that does not open is dropped, and the transfer hangs until its session
  ends; so does an empty file, which has no chunk to end it.
- A key that `resetForNetworkChange` or a replaced socket leaves behind lets a new
  clip go out on a socket that is open and not yet acknowledged, before the queue is
  flushed: the PC then has the older text last. `InOrder` calls such frames early and
  says of the others that they keep their order.
- A download that resolves short is shown as ready to install, although the comment
  of the phase says "Downloaded and verified complete" (useUpdater.ts:28-30); only
  the next look at its size finds out. `ReadyIsOnDisk` says this of what was looked
  at, and of what was not that some of the file is there.
- An item that `ShareModule` emits while no listener is attached is lost, although
  it was to be "parked in pending" until JavaScript can receive it
  (ShareModule.kt:27-30, 88). `Accounted` names that loss and rules out any other.
- After a start with pins in the history the Clipboard tab begins with the pins,
  whatever is newer, although it says "newest first" (desktop App.tsx:548).
  `NewestFirst` excepts what was pinned when the list was read, and nothing else but
  two threads that overtake each other.
- A dismissal on the PC is lost to a phone that is away, to a session that lags, to
  a listener that is not bound and to a cancel that Android refuses, and the row is
  gone from the window all the same.
- `isOnline` of the desktop window asks whether a phone was heard from within two
  minutes, but last-seen is written at the handshake only: a phone connected
  for longer is shown as offline.
- `checkForUpdate` takes a feed that cannot be reached, or a release that has no
  APK yet, for "up to date".
- The session key outlives the socket it came by; that is harmless, since it
  depends on the two identities only, which is what `Session` is about.
- In the demonstration on the website an image or notification that lands sets
  the PC's text to what was rendered when it left, and the watcher sends it again.
- A Mac whose browser hides the chip is taken for an Intel Mac.

## 4. What is proved

The theorems hold for all constants that satisfy the module's named assumption,
so for any number of phones, sockets, texts, faults and restarts.

- `PairingProofs`. `Typing` is inductive alone. `TheDoorHolds` and `CodesExpire`
  rest on `CodeInv`: a pending code was minted, has not been claimed, and carries
  its expiry; the property alone says nothing of codes that are still pending.
  The list by invitation and `DisconnectForgetsPhone` are strengthened by what is
  known of connections between check and insertion, which hold a phone that is
  about to enter the list. `SavedPairingsSurvive` needs only that every change of
  the list is one of four kinds.
- `SyncClientProofs`. Every step opens a socket, forgets one or keeps all of
  them (`StepSorts`). `AttemptsAreRight` counts sockets and timers over these
  sorts; `KeyNeedsSession` follows case by case. `HostsStayComplete` rests on
  `ListInv`: the list is one that `buildHostList` makes, of the payload's addresses
  and at most one that an ack named, and the index lies within the shortest of them.
  An address that an ack named is not kept: the next rebuilding drops it.
  `ClosedStaysClosed` rests on `ClosedInv`: the timer of a network change
  survives `close()` and opens a socket, but that socket is opened with the
  client closed, and nothing sets `closedByUs` back.
- `WatcherProofs`. `TextIsNeverEchoed` rests on `Covered`: wherever a text of
  the app is, still being written, on the clipboard and unread, or read and
  undecided, its suppression lasts as many polls as it can still have to wait,
  or the watcher knows the text already. That is where the assumption `TTL >=
  MaxBusy + 3` comes from. `IgnoredOnce` needs that a live suppression is paid
  for.
- `PhoneClipsProofs`. `TheQueueHolds` is not inductive. `NothingWaits` comes first:
  nothing is queued while a session is up, since the hello-ack that brings it up
  flushes. So a clip passes the queue only as an early frame, and `Flows` says of the
  others that everything on the way lies between what was delivered and what is on
  the clipboard. `NoClipLost` follows from
  the bound of the queue and `QueueSteps`, which says what a step can do to the
  queue at all.
- `FanoutProofs`. `SessionsImplementFeed` is the refinement: every step of
  `Fanout` is a step of `Feed` under the mapping of `ImplementsFeed`, or a
  stutter. `SessionsInv` is what that needs of `Fanout`: a receiver lies inside
  the log, at most `Capacity` behind unless it is about to lag, and a frame that
  is being written is the one of the message that the receiver was last handed.
  `WrittenInOrderAndOnce` then says it of the frames themselves.
- `ListProofs` begins with lemmas on ranks: what is retained keeps its order,
  nothing else is there, where an insertion ends, how a cut and a removal compose.
  Nearly all that happens to a list below is that entries are retained, inserted or
  cut off. But for History's, the theorems are about a component of `ListParts`,
  proved of it alone and lifted. `ListPartsAssumption` asks that sizes of lists are
  numbers, that the jobs of a release are for platforms that the site knows, that a
  file has a number of chunks, which may be none, and that the entries of a loaded
  history have identities of their own.
  - `ListStaysSound`, `FileFollowsList`: `SoundInv` strengthens `ListSound` by the
    limits that recorders have read and by what is left of a command. `FollowsInv`
    strengthens `FileFollows`, which only speaks of the time between commands, by
    what the file is while a save is due (`Saved`, `GoneStays`) and by identities
    that are still to be given (`Fresh`). `PinsAreKept` goes over what a step can do
    to a list.
  - `MirrorIsTrue`: `MirrorInv`. A notification dismissed on the PC is off its phone,
    on its way there, or in `missed`, where the four ways to lose it put it. The property speaks of arrivals by the first place
    that holds one; `LastOfKey` and `LaterAbove` say it of every place, `Numbered`
    that posts are numbered apart, and `EachOnce` that a post is in one place on its
    way, or in the log once.
  - `ClipsTabFollows`: `ClipsInv`. `Kept`: until it is read, the backend's list is
    newest first but for what had a pin. `NothingMissing` speaks of a window at rest;
    `OnTheWay` says where an entry of the backend is until then: in the window, in an
    answer, in an event, with a thread that has yet to announce it, or the list is
    about to be asked for. `InStep` says the same of the order: whatever comes by an
    event is newer than what is shown, until one thread overtakes another.
  - `PanelIsHonest`: `PanelInv`. `UpToDate`: the list is about to be asked for again,
    or the last answer on its way leads to the present list by the deletes and pins
    that are still under way. Enter pastes what is highlighted because the list of
    the backend has its pins first (`PinsFirst`), which recording and pinning keep.
  - `TransfersAreAccounted`: `FilesInv`. `Streams`: frames are in line, each with all that follow
    it in its file, and none comes before the start that makes its buffer. `Buffered`:
    what a buffer lacks is on the way, unless a chunk of the file did not open, so the
    last chunk completes the file. `Balanced` says that the accounts are apart,
    `InOrder` that what comes was sent after what is saved, `Reported` that every
    acknowledgement on its way is of a file that was whole.
  - `ToastsAreHonest`: `StackInv` adds to the property what a run of the effect that
    is under way aims at (`WindowFollows`).
  - `WebsiteIsHonest`: `SiteInv`, that a page shows some of the files that its
    release had got, and `DemoInv`, that a packet in the air is the only one or two
    have overlapped, and that a text which is neither sent nor received has a timer.
- `PhonePartsProofs`. A theorem about component C is proved of `C!Spec` and
  lifted: by `OneComponent` a step of `PhoneParts` is one of the component that
  `part` names, and `part` never changes. `PhonePartsAssumption` says what the
  constants must be: that `None` is none of the values it stands beside, that
  releases are numbered as `app.config.js` assumes, and that a batch of shares has
  no item twice.
  - `AppShowsItsPairing`: `StoreInv` follows the pairing through every `await` at
    once, which saves are under way and what the disk has meanwhile; `HostInv` says
    that every host that is remembered is of the PC that was scanned. For the
    screen, `LastCheckTrue`: the check of the services that began last has seen
    what is switched on, since checks end in the order in which they began and
    nothing is switched while the app is in front.
  - `ServiceFollows`: a start or stop under way is the only way for the service
    to differ from the pairing (`KeptInv`, `EndsInv`, `TextInv`).
  - `ImagesAreSentOnce` and `SharesAreHonest`: every file and item is in one
    place on its way (`Placed`, `SharesInv`), and each place guards it.
  - `UpdatesAreHonest` and `FinishedIsKept`: `UpdateInv`. A hook that is busy has
    work of its own (`OneWork`), and as long as nothing has overlapped (`Calm`)
    at most one download is under way, its hook aims at the newest release known
    (`Aimed`), and what is on disk is what it has put there (`OnDisk`,
    `NewestFile`). For the notification: what was remembered was shown before
    (`ShownFirst`), and one launch is at work at a time unless `causes` says so.
- `DesktopPartsProofs`, lifted in the same way. The window and the backend differ
  as long as calls and answers are under way, so an invariant has to say what the
  queues still hold. `Closes(q, A, G)` says that the last element of `q` that is in
  `A` is in `G`, `Lacks` that there is none; the lemmas on them say what adding and
  taking do. A tab is right when the last answer on its way that speaks of a
  setting tells the truth, or none does and the window shows the truth already.
  - `ClipsOpenHere`: as long as the PC keeps its secret key, what is sealed is
    opened. `Keyed` speaks of everything that carries a key: every frame on a
    socket is sealed with the key of the identity that opened that socket, every
    session on the PC holds that key, and the phone holds the key of its present
    identity or none. The socket need not be the one the key came by, which is why
    the loose handling of sockets in `client.ts` is sound. A loss of the key ends
    the claim, so the invariant is `losses = 0 => Keyed`, and `LossesGrow` says it
    stays ended.
  - `TabShowsThePhones`: `CodesInOrder` says that the codes on their way to the
    window are newer than the one on show and claimed by nobody, `CodeUnclaimed`
    that a code on show that has been claimed is about to be replaced, and
    `ListFollows` that the list is about to be read, or the last reading on its way
    is the present list. `NamesMeant` follows what was typed for each phone through
    the edit, the call and the file.
  - `TabShowsTheSettings`: `ToggleFollows`, `HotkeyFollows` and `LimitFollows` say
    of each setting that the last answer that tells of it is true; `OneHeld` that no
    shortcut but that of the settings is registered; `FirstComes` that a window
    with nothing on show is about to be told.

Proving `PhoneAppSound` found a gap in a ghost: the mark "repaired" was set when
the code of another PC had been saved, but a restart between the scan and the
end of the save forgets the client and keeps the mark unset; three scans show
it, which the run's bound of two did not reach. The mark is now set by the scan.

Proving `TransfersHold` found that it was not so: a file without chunks never
ends, and when its session did, its start was on no account. `cut` now has it, and
`EveryTransferAccounted` names the files that hang, and says that a file is on one
account only, where it had said on some. Three more were tightened for their proofs:
the ghost "missed" of `DesktopClips` excepted more than the code loses;
`NewestFirst` there holds at any time and not only once all is announced; and
`SavedInOrder` holds of every pair of files. `MaxKept` has to be positive, as it is
in `App.tsx`: with a list of no entries the clip that comes would be gone at once.

The invariants of the passing runs are all stated by a theorem, and so are their
action properties.
Only model-checked: liveness and `ENABLED`, which the prover does not treat, and so
`ImplementsFeed` with its fairness; and the findings, which are counterexamples.
What limits the theorems: they are about a component or a sum of components that
share no state, under the assumption named in its module, and the ghosts in their
exceptions are as the declarations say. Sequences are handled by their places
throughout (`Ranks`), since `SelectSeq` and the folds could be reasoned about only
by induction over the sequence.

## 5. What is not modelled, and why

- The phone's code that receives files (App.tsx:329-375), which no frame of this PC
  reaches; and the messages that only `packages/protocol` has.
- Discovery: one thread that advertises a record again after a change of
  addresses; no part of `src/` reads the record. Build scripts: configuration.
- Ciphers, nonces of frames, encodings and lengths: no control depends on them.
- HTML clips: the PC applies them, but no phone sends any, and they could not be
  read back.
- `paste_from_overlay` presses Ctrl+V, and sessions open links in the browser;
  both leave no state behind. Poisoned mutexes: no code panics while it holds one.
- An unpairing while the session of the phone is open: the loop does not look at
  the list, so there is nothing to check; it is listed as a hazard.
- Android may hand an activity that it creates again the intent it was launched
  with, which would share it once more; `Share` takes each intent once.
- In `Overlay` one thread announces clips; the order of two threads' events is a
  matter of `DesktopClips`.
- The website but for its demonstration and its downloads: layout, animation and
  links.
- The two clipboards over a wire with both bridges in one model. `Watcher`,
  `PhoneClips` and `Fanout` each leave the other side open to send anything at
  any time, which is more than it does.
