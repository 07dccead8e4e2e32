------------------------------ MODULE ListParts -----------------------------
(***************************************************************************)
(* The components that keep a list of what has come, about which theorems  *)
(* are proved in ListProofs beside those on History, put side by side as   *)
(* in PhoneParts: the notifications, the clipboard tab, the quick panel    *)
(* and the files of the PC, its toasts, and the two sections of the        *)
(* website.                                                                *)
(***************************************************************************)
EXTENDS Side, Integers, Sequences, FiniteSets

CONSTANTS
  Poster, Key, MaxRows, MaxPosts, MaxDismisses, MaxBreaks,    \* Mirror
  Thread, Word, MaxKept, Slider, Loaded, MaxCopied, MaxUses,  \* DesktopClips
  Matching, MaxResults, MaxRecorded, MaxEdits, MaxOpens,      \* Overlay
  Blank, Opening, MaxLanded, MaxFlown, MaxEntered, MaxTicked, \* Simulator
  Job, MaxReleases,                                           \* Downloads
  File, Chunks, Name, MaxFiles, MaxCuts, MaxFails,            \* FileTransfer
  HARD_CAP, MAX_VISIBLE, Corner, MaxArrived, MaxHovers, MaxPrefs,
  MaxStale                                                    \* Toasts

VARIABLES
  shade, mirrorUp, mirrorDown, joined, rows, dismissing, arrived, dismissed,
  mirrorMissed, posts, dismisses, mirrorEnds, clipsStore, clipsLimit,
  emitting, clipsCalls, clipsAnswers, clipsEvents, clipsListening,
  clipsHistory, clipsCopied, clipsTimers, clipsCauses, favoured, clipsClips,
  uses, overlayStore, visible, overlayCalls, overlayAnswers, overlayEvents,
  overlayHistory, query, cursor, hoveredId, clean, mixed, below, overlayClips,
  edits, opens, pcText, busy, seen, autoWatch, lastSentRef, timer, flights,
  demoClips, pcInbox, demoCopied, marks, demoCauses, demoBounds, attached,
  page, visitor, open, filesUp, filesDown, pcBuffers, pcDisk, pcList,
  filesSent, cut, filesFailed, spoiled, pcDone, filesEnds, fails, stackToasts,
  dismissTimers, removalTimers, paused, hovered, run, stale, stackVisible,
  where, stored, stackKnown, notices, stackLate, lost, pushes, hovers, changes

Mirrored == INSTANCE Mirror WITH Phone <- Poster, MaxEnds <- MaxBreaks,
  up <- mirrorUp, down <- mirrorDown, missed <- mirrorMissed,
  ends <- mirrorEnds
Clips == INSTANCE DesktopClips WITH Recorder <- Thread, Text <- Word,
  Limit <- Slider, MaxClips <- MaxCopied, store <- clipsStore,
  limit <- clipsLimit, calls <- clipsCalls, answers <- clipsAnswers,
  events <- clipsEvents, listening <- clipsListening, history <- clipsHistory,
  copied <- clipsCopied, timers <- clipsTimers, causes <- clipsCauses,
  clips <- clipsClips
Panel == INSTANCE Overlay WITH Text <- Word, MaxClips <- MaxRecorded,
  store <- overlayStore, calls <- overlayCalls, answers <- overlayAnswers,
  events <- overlayEvents, history <- overlayHistory, clips <- overlayClips
Demo == INSTANCE Simulator WITH Text <- Word, First <- Opening,
  MaxClips <- MaxLanded, MaxPushes <- MaxFlown, MaxTyped <- MaxEntered,
  MaxCopies <- MaxTicked, clips <- demoClips, copied <- demoCopied,
  causes <- demoCauses, bounds <- demoBounds
Site == INSTANCE Downloads
Files == INSTANCE FileTransfer WITH MaxEnds <- MaxCuts, up <- filesUp,
  down <- filesDown, sent <- filesSent, failed <- filesFailed,
  ends <- filesEnds
Stack == INSTANCE Toasts WITH Position <- Corner, MaxPushes <- MaxArrived,
  MaxChanges <- MaxPrefs, toasts <- stackToasts, visible <- stackVisible,
  known <- stackKnown, late <- stackLate

\* Lists are cut to numbers, and the window's to a positive one; the website's systems
\* are some of those it knows; a file has a number of chunks; what is loaded has been numbered.
ASSUME ListPartsAssumption ==
  /\ MaxRows \in Nat /\ MaxResults \in Nat /\ MaxLanded \in Nat /\ MaxFiles \in Nat
  /\ MaxKept \in Nat \ {0}
  /\ Slider \subseteq Nat
  /\ Job \subseteq Site!Platform
  /\ Chunks \in [File -> Nat]
  /\ \A q \in Loaded : q \in Seq([id : 1..Len(q), text : Word, pinned : BOOLEAN])

MirroredVars ==
  <<shade, mirrorUp, mirrorDown, joined, rows, dismissing, arrived, dismissed,
    mirrorMissed, posts, dismisses, mirrorEnds>>
ClipsVars ==
  <<clipsStore, clipsLimit, emitting, clipsCalls, clipsAnswers, clipsEvents,
    clipsListening, clipsHistory, clipsCopied, clipsTimers, clipsCauses,
    favoured, clipsClips, uses>>
PanelVars ==
  <<overlayStore, visible, overlayCalls, overlayAnswers, overlayEvents,
    overlayHistory, query, cursor, hoveredId, clean, mixed, below,
    overlayClips, edits, opens>>
DemoVars ==
  <<pcText, busy, seen, autoWatch, lastSentRef, timer, flights, demoClips,
    pcInbox, demoCopied, marks, demoCauses, demoBounds>>
SiteVars ==
  <<attached, page, visitor>>
FilesVars ==
  <<open, filesUp, filesDown, pcBuffers, pcDisk, pcList, filesSent, cut,
    filesFailed, spoiled, pcDone, filesEnds, fails>>
StackVars ==
  <<stackToasts, dismissTimers, removalTimers, paused, hovered, run, stale,
    stackVisible, where, stored, stackKnown, notices, stackLate, lost, pushes,
    hovers, changes>>

listVars == <<part, MirroredVars, ClipsVars, PanelVars, DemoVars, SiteVars,
                    FilesVars, StackVars>>

(* Init and Next take the component that part names; the variables of every *)
(* other component are 0 throughout.                                          *)
MirroredRest ==
  /\ shade = 0 /\ mirrorUp = 0 /\ mirrorDown = 0 /\ joined = 0 /\ rows = 0
  /\ dismissing = 0 /\ arrived = 0 /\ dismissed = 0 /\ mirrorMissed = 0
  /\ posts = 0 /\ dismisses = 0 /\ mirrorEnds = 0
ClipsRest ==
  /\ clipsStore = 0 /\ clipsLimit = 0 /\ emitting = 0 /\ clipsCalls = 0
  /\ clipsAnswers = 0 /\ clipsEvents = 0 /\ clipsListening = 0
  /\ clipsHistory = 0 /\ clipsCopied = 0 /\ clipsTimers = 0
  /\ clipsCauses = 0 /\ favoured = 0 /\ clipsClips = 0 /\ uses = 0
PanelRest ==
  /\ overlayStore = 0 /\ visible = 0 /\ overlayCalls = 0
  /\ overlayAnswers = 0 /\ overlayEvents = 0 /\ overlayHistory = 0
  /\ query = 0 /\ cursor = 0 /\ hoveredId = 0 /\ clean = 0 /\ mixed = 0
  /\ below = 0 /\ overlayClips = 0 /\ edits = 0 /\ opens = 0
DemoRest ==
  /\ pcText = 0 /\ busy = 0 /\ seen = 0 /\ autoWatch = 0 /\ lastSentRef = 0
  /\ timer = 0 /\ flights = 0 /\ demoClips = 0 /\ pcInbox = 0
  /\ demoCopied = 0 /\ marks = 0 /\ demoCauses = 0 /\ demoBounds = 0
SiteRest ==
  /\ attached = 0 /\ page = 0 /\ visitor = 0
FilesRest ==
  /\ open = 0 /\ filesUp = 0 /\ filesDown = 0 /\ pcBuffers = 0 /\ pcDisk = 0
  /\ pcList = 0 /\ filesSent = 0 /\ cut = 0 /\ filesFailed = 0 /\ spoiled = 0
  /\ pcDone = 0 /\ filesEnds = 0 /\ fails = 0
StackRest ==
  /\ stackToasts = 0 /\ dismissTimers = 0 /\ removalTimers = 0 /\ paused = 0
  /\ hovered = 0 /\ run = 0 /\ stale = 0 /\ stackVisible = 0 /\ where = 0
  /\ stored = 0 /\ stackKnown = 0 /\ notices = 0 /\ stackLate = 0 /\ lost = 0
  /\ pushes = 0 /\ hovers = 0 /\ changes = 0

ListInit ==
  /\ IF part = "mirror" THEN Mirrored!Init ELSE MirroredRest
  /\ IF part = "clips" THEN Clips!Init ELSE ClipsRest
  /\ IF part = "overlay" THEN Panel!Init ELSE PanelRest
  /\ IF part = "demo" THEN Demo!Init ELSE DemoRest
  /\ IF part = "downloads" THEN Site!Init ELSE SiteRest
  /\ IF part = "files" THEN Files!Init ELSE FilesRest
  /\ IF part = "toasts" THEN Stack!Init ELSE StackRest

ListOnly(p) ==
  /\ part = p /\ UNCHANGED part
  /\ p # "mirror" => UNCHANGED MirroredVars
  /\ p # "clips" => UNCHANGED ClipsVars
  /\ p # "overlay" => UNCHANGED PanelVars
  /\ p # "demo" => UNCHANGED DemoVars
  /\ p # "downloads" => UNCHANGED SiteVars
  /\ p # "files" => UNCHANGED FilesVars
  /\ p # "toasts" => UNCHANGED StackVars

ListNext ==
  \/ part = "mirror" /\ Mirrored!Next /\ ListOnly("mirror")
  \/ part = "clips" /\ Clips!Next /\ ListOnly("clips")
  \/ part = "overlay" /\ Panel!Next /\ ListOnly("overlay")
  \/ part = "demo" /\ Demo!Next /\ ListOnly("demo")
  \/ part = "downloads" /\ Site!Next /\ ListOnly("downloads")
  \/ part = "files" /\ Files!Next /\ ListOnly("files")
  \/ part = "toasts" /\ Stack!Next /\ ListOnly("toasts")

ListSpec == ListInit /\ [][ListNext]_listVars

(***************************************************************************)
(* Properties                                                              *)
(***************************************************************************)

\* The mirror of the phones' notifications, dismissals included (server.rs).
MirrorHonest == part = "mirror" => Mirrored!MirrorHonest

\* The Clipboard tab is newest first but for pins of before it read the list, and lacks
\* nothing that the backend has, but for the named holes (App.tsx, lib.rs).
ClipsHonest == part = "clips" => Clips!ClipsHonest

\* Enter in the panel pastes the row that is highlighted, once what was asked has been
\* answered and until the history changes again (Overlay.tsx).
PanelHonest == part = "overlay" => Panel!PanelHonest

\* Files from a phone are saved whole, once and in order, or are lost for a reason
\* (server.rs).
TransfersHold == part = "files" => Files!TransfersHold

\* Timers, window and pointer follow the stack of toasts (Toasts.tsx).
ToastsHonest == part = "toasts" => Stack!ToastsHonest

\* The demonstration on the website sends what is typed and returns nothing that
\* it received, and the website's links lead to what they say (SyncSimulator.tsx,
\* Downloads.tsx).
WebsiteHonest ==
  /\ part = "demo" => Demo!SimulatorHonest
  /\ part = "downloads" => Site!DownloadsHonest
=============================================================================
