------------------------------ MODULE Updater ------------------------------
(***************************************************************************)
(* Updates of the phone's app: the hook useUpdater.ts, the downloads of    *)
(* updater.ts and the settings screen that drives them.  The hook of an    *)
(* app component that was unmounted goes on beside that of the next one,   *)
(* as the foreground service keeps the process; files outlive both.        *)
(*                                                                         *)
(* An await ends a step.  The native side reads or deletes a file in one   *)
(* step, and JavaScript goes on with what was read in another.             *)
(***************************************************************************)
EXTENDS Integers, FiniteSets

CONSTANTS
  Hook,         \* mounts of the app component, each with its hook
  Releases,     \* the releases that are published, by version
  Sized,        \* those of which the feed reports the size
  None,         \* no version
  MaxFailures,  \* bound: downloads that fail or end short
  MaxChecks,    \* bound: presses of "Check for updates"
  MaxDownloads, \* bound: downloads of one hook at a time, less one
  MaxKills      \* bound: ends of the process

VARIABLES
  published,    \* what the feed has had so far; the newest is "latest"
  installed,
  apk,          \* the file of each version: "none", "part", "short" or "done"
  hook,         \* per hook: mounted, phase and its version, and, a ghost, whether the
                \* last word on that version's file was a look at its size
  lookups,      \* calls of check() under way
  downloads,    \* calls of startDownload() under way
  installs,     \* installUpdate() calls under way
  causes,       \* ghost: the rare interleavings that have happened
  failures, checks, kills

files == <<apk, downloads>>
bounds == <<failures, checks, kills>>
vars == <<published, installed, files, hook, lookups, installs, causes, bounds>>

-----------------------------------------------------------------------------
(* Version numbers: the order in which the app compares releases, and the  *)
(* number that Android compares (app.config.js).                           *)

Version == [major : Nat, minor : Nat, patch : Nat]

\* compareVersions(v, w) > 0: the first part that differs decides.
Newer(v, w) ==
  \/ v.major > w.major
  \/ v.major = w.major /\ v.minor > w.minor
  \/ v.major = w.major /\ v.minor = w.minor /\ v.patch > w.patch

\* android.versionCode
versionCode(v) == v.major * 1000000 + v.minor * 1000 + v.patch

\* What app.config.js assumes of every release.
Small(v) == v.minor < 1000 /\ v.patch < 1000

-----------------------------------------------------------------------------
Latest == CHOOSE v \in published : \A w \in published \ {v} : Newer(v, w)
NoHook == [mounted |-> FALSE, used |-> FALSE, phase |-> "idle", of |-> None, looked |-> FALSE]

Init ==
  /\ \E v \in Releases :
       /\ \A w \in Releases \ {v} : Newer(w, v)
       /\ published = {v} /\ installed = v
  /\ apk = [v \in Releases |-> "none"]
  /\ hook = [h \in Hook |-> NoHook]
  /\ lookups = {} /\ downloads = {} /\ installs = {}
  /\ causes = {} /\ failures = 0 /\ checks = 0 /\ kills = 0

Alive == {h \in Hook : hook[h].mounted}
Phase(h, p, v) == [hook EXCEPT ![h].phase = p, ![h].of = v, ![h].looked = FALSE]

\* Ready, after a look at the file.
Found(h, v) == [hook EXCEPT ![h].phase = "ready", ![h].of = v, ![h].looked = TRUE]

Publish(v) ==
  /\ v \in Releases \ published
  /\ \A w \in published : Newer(v, w)
  /\ published' = published \cup {v}
  /\ UNCHANGED <<installed, files, hook, lookups, installs, causes, bounds>>

(***************************************************************************)
(* Mounting                                                                *)
(***************************************************************************)

\* A check is told by its number: that of the mount is 0, and downloads of itself.
Check(h, n) == [by |-> h, id |-> n, at |-> "fetch", of |-> None, have |-> FALSE]

\* The app is opened: a new hook checks at once.
Mount(h) ==
  /\ Alive = {} /\ ~hook[h].used
  /\ hook' = [hook EXCEPT ![h] = [NoHook EXCEPT !.mounted = TRUE, !.used = TRUE,
                                                !.phase = "checking"]]
  /\ lookups' = lookups \cup {Check(h, 0)}
  /\ causes' = IF downloads # {} \/ lookups # {}
               THEN causes \cup {"overlap"} ELSE causes
  /\ UNCHANGED <<published, installed, files, installs, bounds>>

\* The component goes; what it has begun goes on.
Unmount(h) ==
  /\ hook[h].mounted
  /\ hook' = [hook EXCEPT ![h].mounted = FALSE]
  /\ UNCHANGED <<published, installed, files, lookups, installs, causes, bounds>>

\* The process ends, and with it everything under way.
Ended(v) ==
  /\ hook' = [h \in Hook |-> [NoHook EXCEPT !.used = hook[h].used]]
  /\ lookups' = {} /\ downloads' = {} /\ installs' = {}
  /\ installed' = v
  /\ UNCHANGED <<published, apk, causes>>

Kill ==
  /\ kills < MaxKills /\ kills' = kills + 1
  /\ Ended(installed)
  /\ UNCHANGED <<failures, checks>>

\* The pill in the header of the app.
badgeFor(h) ==
  CASE hook[h].phase = "available" -> "version"
    [] hook[h].phase = "downloading" -> "busy"
    [] hook[h].phase = "ready" -> "install"
    [] OTHER -> "none"

(***************************************************************************)
(* check()                                                                 *)
(***************************************************************************)

\* The settings screen's button is disabled while busy.
Busy(h) == hook[h].phase \in {"checking", "downloading"}

CheckPressed(h) ==
  /\ hook[h].mounted /\ ~Busy(h) /\ checks < MaxChecks
  /\ checks' = checks + 1
  /\ hook' = Phase(h, "checking", None)
  /\ lookups' = lookups \cup {Check(h, checks + 1)}
  /\ UNCHANGED <<published, installed, files, installs, causes, failures, kills>>

\* checkForUpdate: a release newer than the app, or nothing, be it that the
\* feed cannot be reached.
Fetched(c, reached) ==
  /\ c.at = "fetch"
  /\ LET found == reached /\ Newer(Latest, installed) IN
     \/ /\ ~hook[c.by].mounted
        /\ lookups' = lookups \ {c} /\ UNCHANGED hook
     \/ /\ hook[c.by].mounted /\ ~found
        /\ lookups' = lookups \ {c} /\ hook' = Phase(c.by, "upToDate", None)
     \/ /\ hook[c.by].mounted /\ found
        /\ lookups' = (lookups \ {c}) \cup {[c EXCEPT !.at = "read", !.of = Latest]}
        /\ UNCHANGED hook
  /\ UNCHANGED <<published, installed, files, installs, causes, bounds>>

\* Mutant of isUpdateDownloaded: any file will do.
isUpdateDownloadedAny(v) == v \in Sized /\ apk[v] # "none"

\* Size is the completeness test.
isUpdateDownloaded(v) == v \in Sized /\ apk[v] = "done"

CheckReads(c) ==
  /\ c.at = "read"
  /\ lookups' = (lookups \ {c})
                \cup {[c EXCEPT !.at = "decide", !.have = isUpdateDownloaded(c.of)]}
  /\ UNCHANGED <<published, installed, files, hook, installs, causes, bounds>>

\* startDownload, up to its first await. The number tells the downloads of a hook
\* apart: the least that is free.
Begin(h, v) ==
  \E n \in 0 .. MaxDownloads :
    /\ \A m \in 0 .. n - 1 : \E d \in downloads : d.by = h /\ d.id = m
    /\ \A d \in downloads : d.by = h => d.id # n
    /\ hook' = Phase(h, "downloading", v)
    /\ downloads' = downloads \cup {[by |-> h, id |-> n, of |-> v, at |-> "read", linked |-> FALSE]}

CheckDecides(c) ==
  /\ c.at = "decide"
  /\ lookups' = lookups \ {c}
  /\ \/ c.have /\ hook' = Found(c.by, c.of) /\ UNCHANGED downloads
     \/ ~c.have /\ c.id # 0 /\ hook' = Phase(c.by, "available", c.of) /\ UNCHANGED downloads
     \/ ~c.have /\ c.id = 0 /\ Begin(c.by, c.of)
  /\ UNCHANGED <<published, installed, apk, installs, causes, bounds>>

(***************************************************************************)
(* downloadUpdate()                                                        *)
(***************************************************************************)

\* Download, or Try again.
DownloadPressed(h) ==
  /\ hook[h].mounted /\ hook[h].phase \in {"available", "failed"} /\ hook[h].of # None
  /\ Begin(h, hook[h].of)
  /\ UNCHANGED <<published, installed, apk, lookups, installs, causes, bounds>>

Move(d, at) == downloads' = (downloads \ {d}) \cup {[d EXCEPT !.at = at]}

DownloadReads(d) ==
  /\ d.at = "read"
  /\ Move(d, IF isUpdateDownloaded(d.of) THEN "have" ELSE "lack")
  /\ UNCHANGED <<published, installed, apk, hook, lookups, installs, causes, bounds>>

DownloadHas(d) ==
  /\ d.at = "have"
  /\ downloads' = downloads \ {d}
  /\ hook' = Found(d.by, d.of)
  /\ UNCHANGED <<published, installed, apk, lookups, installs, causes, bounds>>

\* Whatever is there is deleted, and the file is written anew; a download that
\* was writing it writes to a file without a name.
DownloadStarts(d) ==
  /\ d.at = "lack"
  /\ apk' = [apk EXCEPT ![d.of] = "part"]
  /\ downloads' = {IF e.of = d.of THEN [e EXCEPT !.linked = FALSE] ELSE e : e \in downloads \ {d}}
                  \cup {[d EXCEPT !.at = "fetch", !.linked = TRUE]}
  /\ causes' = IF d.of \in Sized THEN causes ELSE causes \cup {"noSize"}
  /\ UNCHANGED <<published, installed, hook, lookups, installs, bounds>>

Written(d, how) == IF d.linked THEN [apk EXCEPT ![d.of] = how] ELSE apk

\* downloadAsync resolves: with all of the file, or with what there was of it.
DownloadArrives(d, how) ==
  /\ d.at = "fetch" /\ how \in {"done", "short"}
  /\ how = "short" => failures < MaxFailures
  /\ failures' = IF how = "short" THEN failures + 1 ELSE failures
  /\ apk' = Written(d, how)
  /\ Move(d, "prune")
  /\ UNCHANGED <<published, installed, hook, lookups, installs, causes, checks, kills>>

\* Mutant of DownloadFails: nobody catches it.
DownloadFailsUncaught(d) ==
  /\ d.at = "fetch" /\ failures < MaxFailures
  /\ failures' = failures + 1
  /\ downloads' = downloads \ {d}
  /\ UNCHANGED <<published, installed, apk, hook, lookups, installs, causes, checks, kills>>

\* It rejects; what has arrived stays.
DownloadFails(d) ==
  /\ d.at = "fetch" /\ failures < MaxFailures
  /\ failures' = failures + 1
  /\ downloads' = downloads \ {d}
  /\ hook' = Phase(d.by, "failed", d.of)
  /\ UNCHANGED <<published, installed, apk, lookups, installs, causes, checks, kills>>

\* Mutant of Pruned: every file but the newest release's goes.
PrunedAll(v) == [w \in Releases |-> "none"]

\* pruneOldApks: every file but this version's.
Pruned(v) == [w \in Releases |-> IF w = v THEN apk[w] ELSE "none"]

DownloadPrunes(d) ==
  /\ d.at = "prune"
  /\ apk' = Pruned(d.of)
  /\ downloads' = {IF e.of = d.of THEN e ELSE [e EXCEPT !.linked = FALSE] : e \in downloads \ {d}}
  /\ hook' = Phase(d.by, "ready", d.of)
  /\ UNCHANGED <<published, installed, lookups, installs, causes, bounds>>

(***************************************************************************)
(* install()                                                               *)
(***************************************************************************)
InstallPressed(h) ==
  /\ hook[h].mounted /\ hook[h].phase = "ready"
  /\ installs' = installs \cup {[by |-> h, of |-> hook[h].of]}
  /\ UNCHANGED <<published, installed, files, hook, lookups, causes, bounds>>

\* No file, or no installer, is an error, whatever the phase is by then.
InstallFails(i) ==
  /\ apk[i.of] = "none" \/ failures < MaxFailures
  /\ failures' = IF apk[i.of] = "none" THEN failures ELSE failures + 1
  /\ installs' = installs \ {i}
  /\ hook' = Phase(i.by, "failed", i.of)
  /\ causes' = IF hook[i.by].phase = "ready" /\ hook[i.by].of = i.of
               THEN causes ELSE causes \cup {"staleInstall"}
  /\ UNCHANGED <<published, installed, files, lookups, checks, kills>>

\* The user turns the installer away, or it finds no package in the file.
InstallDeclined(i) ==
  /\ apk[i.of] # "none"
  /\ installs' = installs \ {i}
  /\ UNCHANGED <<published, installed, files, hook, lookups, causes, bounds>>

\* Android takes only a higher version code; the process ends.
InstallDone(i) ==
  /\ apk[i.of] = "done" /\ versionCode(i.of) > versionCode(installed)
  /\ Ended(i.of)
  /\ UNCHANGED bounds

CheckSteps(c) == (\E reached \in BOOLEAN : Fetched(c, reached)) \/ CheckReads(c) \/ CheckDecides(c)
DownloadSteps(d) ==
  \/ DownloadReads(d) \/ DownloadHas(d) \/ DownloadStarts(d) \/ DownloadFails(d) \/ DownloadPrunes(d)
  \/ \E how \in {"done", "short"} : DownloadArrives(d, how)

Next ==
  \/ \E v \in Releases : Publish(v)
  \/ Kill
  \/ \E h \in Hook :
       \/ Mount(h) \/ Unmount(h)
       \/ CheckPressed(h) \/ DownloadPressed(h) \/ InstallPressed(h)
  \/ \E c \in lookups : CheckSteps(c)
  \/ \E d \in downloads : DownloadSteps(d)
  \/ \E i \in installs : InstallFails(i) \/ InstallDeclined(i) \/ InstallDone(i)

Spec == Init /\ [][Next]_vars

\* Requests and downloads end one way or the other.
FairSpec ==
  /\ Spec
  /\ WF_vars(\E c \in lookups : CheckSteps(c))
  /\ WF_vars(\E d \in downloads : DownloadSteps(d))

(***************************************************************************)
(* Properties                                                              *)
(***************************************************************************)
Versions0 == Releases \cup {None}
TypeOK ==
  /\ published \subseteq Releases /\ installed \in Releases
  /\ apk \in [Releases -> {"none", "part", "short", "done"}]
  /\ hook \in [Hook -> [mounted : BOOLEAN, used : BOOLEAN, of : Versions0, looked : BOOLEAN,
       phase : {"idle", "checking", "upToDate", "available", "downloading", "ready", "failed"}]]
  /\ lookups \subseteq [by : Hook, id : Nat, of : Versions0, have : BOOLEAN,
                        at : {"fetch", "read", "decide"}]
  /\ downloads \subseteq [by : Hook, id : 0 .. MaxDownloads, of : Releases, linked : BOOLEAN,
                          at : {"read", "have", "lack", "fetch", "prune"}]
  /\ installs \subseteq [by : Hook, of : Releases]
  /\ causes \subseteq {"overlap", "noSize", "staleInstall"} /\ checks \in Nat

\* A spinner turns only while something goes on behind it: no failure, restart
\* or stale install leaves the screen busy with its buttons disabled
\* (SettingsScreen.tsx:50, useUpdater.ts:64-113).
BusyMeansWork ==
  \A h \in Alive :
    /\ hook[h].phase = "checking" => \E c \in lookups : c.by = h
    /\ hook[h].phase = "downloading" => \E d \in downloads : d.by = h

KeepsFinished ==
  \A v \in Releases :
    apk[v] = "done" /\ apk'[v] # "done" /\ causes' = {}
      => \E w \in Releases : Newer(w, v) /\ apk[w] \in {"done", "short"}

\* "A download that already finished must never be thrown away" (updater.ts:8-12)
\* but for a newer one that has been fetched: unless a hook of an earlier mount
\* was still at work, an install failed after its screen had moved on to another
\* release, or the feed reports no size.
FinishedKept == [][KeepsFinished]_vars

\* "Downloaded and verified complete" (useUpdater.ts:28-30): what is ready is whole
\* on disk whenever the last word on it was a look at its size. What the code calls
\* ready without one, because a download resolved, may have ended short: then the
\* screen offers a part of the file to install, and only the next look at it tells.
\* Excepted, beside it: a hook of an earlier mount may prune the file (overlap), and
\* so may a download begun after an install failed behind another phase.
ReadyIsOnDisk ==
  \A h \in Alive : hook[h].phase = "ready" /\ causes \cap {"overlap", "staleInstall"} = {}
    => \/ apk[hook[h].of] = "done"
       \/ apk[hook[h].of] = "short" /\ ~hook[h].looked

\* What the app calls newer Android takes for newer: every release that the pill
\* in its header offers can be installed over the one that offers it, and nothing
\* that an older screen began puts the pill on another (app.config.js:1-12).
OfferedCanBeInstalled ==
  \A h \in Alive : badgeFor(h) # "none"
    => versionCode(hook[h].of) > versionCode(installed)

Freed(h) == ~Busy(h) \/ ~hook[h].mounted

\* The settings screen comes out of every check and download: its buttons are
\* back at last (useUpdater.ts:64-113).
BusyEnds == \A h \in Hook : []<>Freed(h)

\* What the settings screen says of the update is so.
UpdaterHonest == TypeOK /\ BusyMeansWork /\ ReadyIsOnDisk /\ OfferedCanBeInstalled
=============================================================================
