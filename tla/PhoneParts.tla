----------------------------- MODULE PhoneParts -----------------------------
(***************************************************************************)
(* The components of the phone about which theorems are proved in          *)
(* PhonePartsProofs, put side by side: they share no state, and a          *)
(* behaviour is one of the component that part names. The app and its      *)
(* pairing, its service, its images, the share sheet, updates and their    *)
(* notification, and the screen.                                           *)
(***************************************************************************)
EXTENDS Side, Integers, Sequences, FiniteSets

CONSTANTS
  PC, MaxScans, MaxTroubles,                                  \* PhoneApp
  MaxPairings, MaxEvents,                                     \* BackgroundSync
  UserImage, PCImage, LargeImage, MaxCopies, MaxReceived, MaxReads,
  MaxImageDrops,                                              \* PhoneImages
  Shares, Text, LargeShare, MaxAttempts, MaxShareDrops, MaxEnds,  \* Share
  Invocation, Numbered, MaxChanges,                           \* UpdateNotes
  Hook, Releases, Sized, MaxChecks, MaxKills,                 \* Updater
  MaxShown, MaxToggles, MaxTurns, MaxToasts                   \* PhoneScreen

VARIABLES
  appDisk, boot, me, offer, lastHost, appStatus, scanning, appConfirm,
  granted, asking, handled, appTimers, saves, unpairing, client, appLate,
  known, appCauses, scans, troubles, paired, status, running, starts, stops,
  text, serviceCauses, pairings, serviceEvents, board, fired, lastImageUri,
  imageFiles, imageEvents, reading, lastSent, grace, applying, incoming, auto,
  online, out, late, copies, received, reads, imageDrops, shared, pending,
  shareFiles, js, draining, inbox, loops, up, sent, given, unheard,
  shareDrops, ends, perm, key, call, notesShown, screen, notesCauses,
  notesFailures, notesChanges, published, installed, apk, hook, lookups,
  downloads, installs, updaterCauses, updaterFailures, updaterChecks, kills,
  switched, alive, foreground, screenChecks, screenShown, screenPaired,
  screenReceived, sending, manualSent, sentTimers, toast, toastTimers, dying,
  toggles, turns, toasts

App == INSTANCE PhoneApp WITH disk <- appDisk, status <- appStatus,
  confirm <- appConfirm, timers <- appTimers, late <- appLate,
  causes <- appCauses
Service == INSTANCE BackgroundSync WITH causes <- serviceCauses,
  events <- serviceEvents
Images == INSTANCE PhoneImages WITH TooLarge <- LargeImage,
  MaxDrops <- MaxImageDrops, files <- imageFiles, events <- imageEvents,
  drops <- imageDrops
Sharing == INSTANCE Share WITH TooLarge <- LargeShare,
  MaxDrops <- MaxShareDrops, files <- shareFiles, drops <- shareDrops
Notes == INSTANCE UpdateNotes WITH Call <- Invocation, Latest <- Numbered,
  shown <- notesShown, causes <- notesCauses, failures <- notesFailures,
  changes <- notesChanges
Update == INSTANCE Updater WITH MaxDownloads <- MaxUnderWay,
  causes <- updaterCauses, failures <- updaterFailures,
  checks <- updaterChecks
Screen == INSTANCE PhoneScreen WITH MaxRows <- MaxShown,
  checks <- screenChecks, shown <- screenShown, paired <- screenPaired,
  received <- screenReceived

\* What stands for "none" is no PC and no client of one, and no release; releases are
\* numbered as app.config.js assumes, and those that a notification may be of from 1;
\* what is shared at a time is a sequence of items, none of them twice.
ASSUME PhonePartsAssumption ==
  /\ None \notin PC
  /\ None \notin [pc : PC, host : PC \cup {None}, at : {"trying", "up", "waiting"}]
  /\ None \notin Releases
  /\ \A v \in Releases : v \in Update!Version /\ Update!Small(v)
  /\ Numbered \subseteq Nat /\ 0 \notin Numbered
  /\ MaxAttempts \in Nat
  /\ \A batch \in Shares :
       batch \in Seq(Sharing!Item) /\ Sharing!IsInjective(batch)

AppVars ==
  <<appDisk, boot, me, offer, lastHost, appStatus, scanning, appConfirm,
    granted, asking, handled, appTimers, saves, unpairing, client, appLate,
    known, appCauses, scans, troubles>>
ServiceVars ==
  <<paired, status, running, starts, stops, text, serviceCauses, pairings,
    serviceEvents>>
ImagesVars ==
  <<board, fired, lastImageUri, imageFiles, imageEvents, reading, lastSent,
    grace, applying, incoming, auto, online, out, late, copies, received,
    reads, imageDrops>>
SharingVars ==
  <<shared, pending, shareFiles, js, draining, inbox, loops, up, sent, given,
    unheard, shareDrops, ends>>
NotesVars ==
  <<perm, key, call, notesShown, screen, notesCauses, notesFailures,
    notesChanges>>
UpdateVars ==
  <<published, installed, apk, hook, lookups, downloads, installs,
    updaterCauses, updaterFailures, updaterChecks, kills>>
ScreenVars ==
  <<switched, alive, foreground, screenChecks, screenShown, screenPaired,
    screenReceived, sending, manualSent, sentTimers, toast, toastTimers,
    dying, toggles, turns, toasts>>

phoneVars == <<part, AppVars, ServiceVars, ImagesVars, SharingVars, NotesVars,
                     UpdateVars, ScreenVars>>

(* Init and Next take the component that part names; the variables of every *)
(* other component are 0 throughout.                                          *)
AppRest ==
  /\ appDisk = 0 /\ boot = 0 /\ me = 0 /\ offer = 0 /\ lastHost = 0
  /\ appStatus = 0 /\ scanning = 0 /\ appConfirm = 0 /\ granted = 0
  /\ asking = 0 /\ handled = 0 /\ appTimers = 0 /\ saves = 0 /\ unpairing = 0
  /\ client = 0 /\ appLate = 0 /\ known = 0 /\ appCauses = 0 /\ scans = 0
  /\ troubles = 0
ServiceRest ==
  /\ paired = 0 /\ status = 0 /\ running = 0 /\ starts = 0 /\ stops = 0
  /\ text = 0 /\ serviceCauses = 0 /\ pairings = 0 /\ serviceEvents = 0
ImagesRest ==
  /\ board = 0 /\ fired = 0 /\ lastImageUri = 0 /\ imageFiles = 0
  /\ imageEvents = 0 /\ reading = 0 /\ lastSent = 0 /\ grace = 0
  /\ applying = 0 /\ incoming = 0 /\ auto = 0 /\ online = 0 /\ out = 0
  /\ late = 0 /\ copies = 0 /\ received = 0 /\ reads = 0 /\ imageDrops = 0
SharingRest ==
  /\ shared = 0 /\ pending = 0 /\ shareFiles = 0 /\ js = 0 /\ draining = 0
  /\ inbox = 0 /\ loops = 0 /\ up = 0 /\ sent = 0 /\ given = 0 /\ unheard = 0
  /\ shareDrops = 0 /\ ends = 0
NotesRest ==
  /\ perm = 0 /\ key = 0 /\ call = 0 /\ notesShown = 0 /\ screen = 0
  /\ notesCauses = 0 /\ notesFailures = 0 /\ notesChanges = 0
UpdateRest ==
  /\ published = 0 /\ installed = 0 /\ apk = 0 /\ hook = 0 /\ lookups = 0
  /\ downloads = 0 /\ installs = 0 /\ updaterCauses = 0
  /\ updaterFailures = 0 /\ updaterChecks = 0 /\ kills = 0
ScreenRest ==
  /\ switched = 0 /\ alive = 0 /\ foreground = 0 /\ screenChecks = 0
  /\ screenShown = 0 /\ screenPaired = 0 /\ screenReceived = 0 /\ sending = 0
  /\ manualSent = 0 /\ sentTimers = 0 /\ toast = 0 /\ toastTimers = 0
  /\ dying = 0 /\ toggles = 0 /\ turns = 0 /\ toasts = 0

PhoneInit ==
  /\ IF part = "app" THEN App!Init ELSE AppRest
  /\ IF part = "service" THEN Service!Init ELSE ServiceRest
  /\ IF part = "images" THEN Images!Init ELSE ImagesRest
  /\ IF part = "share" THEN Sharing!Init ELSE SharingRest
  /\ IF part = "notes" THEN Notes!Init ELSE NotesRest
  /\ IF part = "updater" THEN Update!Init ELSE UpdateRest
  /\ IF part = "screen" THEN Screen!Init ELSE ScreenRest

PhoneOnly(p) ==
  /\ part = p /\ UNCHANGED part
  /\ p # "app" => UNCHANGED AppVars
  /\ p # "service" => UNCHANGED ServiceVars
  /\ p # "images" => UNCHANGED ImagesVars
  /\ p # "share" => UNCHANGED SharingVars
  /\ p # "notes" => UNCHANGED NotesVars
  /\ p # "updater" => UNCHANGED UpdateVars
  /\ p # "screen" => UNCHANGED ScreenVars

PhoneNext ==
  \/ part = "app" /\ App!Next /\ PhoneOnly("app")
  \/ part = "service" /\ Service!Next /\ PhoneOnly("service")
  \/ part = "images" /\ Images!Next /\ PhoneOnly("images")
  \/ part = "share" /\ Sharing!Next /\ PhoneOnly("share")
  \/ part = "notes" /\ Notes!Next /\ PhoneOnly("notes")
  \/ part = "updater" /\ Update!Next /\ PhoneOnly("updater")
  \/ part = "screen" /\ Screen!Next /\ PhoneOnly("screen")

PhoneSpec == PhoneInit /\ [][PhoneNext]_phoneVars

(***************************************************************************)
(* Properties                                                              *)
(***************************************************************************)

\* What the phone shows is the pairing it has, and it is connected to the PC whose
\* code was read; its screen asks for the services that are off, and its messages go
\* away in their time (App.tsx).
PhoneAppSound ==
  /\ part = "app" => App!PhoneAppSound
  /\ part = "screen" => Screen!ScreenHonest

\* The foreground service runs while the phone is paired, ends with the pairing,
\* and does not claim a connection that is not there (backgroundSync.ts).
ServiceFollowsPairing == part = "service" => Service!ServiceFollowsPairing

\* Images go out once, and no copy of them is left in the cache (App.tsx).
ImagesSentOnce == part = "images" => Images!ImagesSentOnce

\* A share arrives once, is given up for a reason, or was emitted to a screen that was
\* not listening (App.tsx, ShareModule.kt).
ShareHonest == part = "share" => Sharing!ShareHonest

\* The user is told of an update once and truly, and the update screen says what is
\* so, after checks, downloads, failures, ends of the process and releases in every
\* order (updater.ts, useUpdater.ts, SettingsScreen.tsx).
UpdatesHonest ==
  /\ part = "notes" => Notes!NotesHonest
  /\ part = "updater" => Update!UpdaterHonest

\* A finished download is kept (updater.ts).
FinishedKept == [][part = "updater" => Update!KeepsFinished]_phoneVars
=============================================================================
