----------------------------- MODULE Downloads ------------------------------
(***************************************************************************)
(* The download section of the website: the page that the server renders   *)
(* of the newest release (release.ts), the guess at the visitor's system   *)
(* (platform.ts) and what the two cards and the table offer                *)
(* (Downloads.tsx).                                                        *)
(*                                                                         *)
(* The jobs of release.yml attach their files one by one, the first one    *)
(* that does makes the release, and a page can be rendered in between.  A  *)
(* file is known by the end of its name.  A rendering under the eyes of a  *)
(* visitor does not change what is seen, and is left out.                  *)
(***************************************************************************)
EXTENDS Naturals, Sequences

CONSTANTS
  Job,          \* the jobs that attach files, by platform
  MaxReleases   \* bound: releases

VARIABLES
  attached,  \* per release the jobs that have attached their files
  page,      \* what was rendered last
  visitor    \* who looks at it, and the guess at the system once the page runs
vars == <<attached, page, visitor>>

Platform == {"windows", "android", "macos-arm", "macos-intel", "linux"}
Unknown == "unknown"

\* "Exact artifact the release publishes."
BUILDS(id) ==
  CASE id = "windows" -> "x64-setup.exe"
    [] id = "macos-arm" -> "aarch64.dmg"
    [] id = "macos-intel" -> "x64.dmg"
    [] id = "linux" -> "amd64.AppImage"
    [] id = "android" -> "app-release.apk"

\* What a job attaches: the installer, what updates need, and other packages.
Files(job) ==
  {BUILDS(job)} \cup
    CASE job = "windows" -> {"x64-setup.exe.sig", "x64_en-US.msi", "latest.json"}
      [] job = "macos-arm" -> {"aarch64.app.tar.gz", "aarch64.app.tar.gz.sig"}
      [] job = "macos-intel" -> {"x64.app.tar.gz", "x64.app.tar.gz.sig"}
      [] job = "linux" -> {"amd64.AppImage.sig", "amd64.deb"}
      [] job = "android" -> {}

-----------------------------------------------------------------------------
(* release.ts *)

\* The names that a pattern takes.
MATCHERS(id) ==
  CASE id = "windows" -> {"x64-setup.exe"}
    [] id = "macos-arm" -> {"aarch64.dmg"}
    [] id = "macos-intel" -> {"x64.dmg"}
    [] id = "linux" -> {"amd64.AppImage"}
    [] id = "android" -> {"app-release.apk"}

META(id) == IF id = "android" THEN "companion" ELSE "host"

\* A link leads to one of the files, or else to the page of a release; number 0
\* is the page of whichever is the latest.
Link(release, files) == [of |-> release, files |-> files]
ResolvedBuild(id, link) == [role |-> META(id), href |-> link]

\* The links of every platform lead to the page of the latest release.
fallback ==
  [version |-> 0, builds |-> [id \in Platform |-> ResolvedBuild(id, Link(0, {}))]]

\* Of the files that match the first is taken, and the page of the release when
\* there is none.
Resolved(release, assets) ==
  [version |-> release,
   builds |-> [id \in Platform |->
                 ResolvedBuild(id, Link(release, assets \cap MATCHERS(id)))]]

\* The answer of GitHub, or none.
fetchLatestRelease ==
  LET newest == Len(attached) IN
    {fallback} \cup
      IF newest = 0 THEN {}
      ELSE {Resolved(newest, UNION {Files(job) : job \in attached[newest]})}

-----------------------------------------------------------------------------
(* platform.ts *)

\* What browsers say: the system, the words that user agent and platform hold,
\* whether there is a touch screen, and whether WebGL names an Apple chip; the
\* words "mac os x" are written with hyphens.
Browser(system, ua, platform, touch, chip) ==
  [system |-> system, ua |-> ua, platform |-> platform, touch |-> touch, chip |-> chip]
Browsers ==
  {Browser("windows", {"windows"}, "win", touch, FALSE) : touch \in BOOLEAN}
  \cup {Browser("android", {"android", "linux"}, platform, TRUE, FALSE) :
          platform \in {"linux", "android"}}
  \cup {Browser("macos-intel", {"mac-os-x"}, "mac", FALSE, FALSE),
        Browser("macos-arm", {"mac-os-x"}, "mac", FALSE, TRUE),
        Browser("macos-arm", {"mac-os-x"}, "mac", FALSE, FALSE),
        Browser("ipad", {"mac-os-x"}, "mac", TRUE, FALSE),
        Browser("linux", {"linux"}, "linux", FALSE, FALSE),
        Browser("cros", {}, "cros", FALSE, FALSE),
        Browser("bsd", {}, "freebsd", FALSE, FALSE)}
Nobody == [browser |-> Browser("nobody", {}, "none", FALSE, FALSE), current |-> Unknown]

isAppleSilicon(b) == b.chip

\* The first that fits; a phone with Android calls itself Linux, too.
detectPlatform(b) ==
  IF "android" \in b.ua THEN "android"
  ELSE IF b.platform = "win" \/ "windows" \in b.ua THEN "windows"
  ELSE IF b.platform = "mac" \/ "mac-os-x" \in b.ua
    THEN IF b.touch \/ "arm" \in b.ua \/ isAppleSilicon(b) THEN "macos-arm"
                                                           ELSE "macos-intel"
  ELSE IF b.platform \in {"linux", "x11", "cros"} \/ "linux" \in b.ua THEN "linux"
  ELSE "windows"

-----------------------------------------------------------------------------
(* Downloads.tsx *)

\* The card of the PC never offers what is for phones.
pcBuild ==
  page.builds[IF visitor.current \notin {Unknown, "android"} THEN visitor.current
                                                             ELSE "windows"]
androidBuild == page.builds["android"]

\* The rows of the table that say "you".
isCurrent(id) == visitor.current = id

-----------------------------------------------------------------------------
Init == attached = <<>> /\ page = fallback /\ visitor = Nobody

\* The first files of a new release, and those of the other jobs.
Release(job) ==
  /\ Len(attached) < MaxReleases
  /\ attached' = Append(attached, {job})
  /\ UNCHANGED <<page, visitor>>
Attach(job, n) ==
  /\ job \notin attached[n]
  /\ attached' = [attached EXCEPT ![n] = @ \cup {job}]
  /\ UNCHANGED <<page, visitor>>

\* Every five minutes at the most.
Home ==
  /\ page' \in fetchLatestRelease
  /\ visitor' = Nobody
  /\ UNCHANGED attached

\* The page as the server made it, which knows nobody's system.
Visit(b) ==
  /\ visitor' = [browser |-> b, current |-> Unknown]
  /\ UNCHANGED <<attached, page>>

\* usePlatform(): the guess takes the place of null once the page runs.
Hydrate ==
  /\ visitor # Nobody /\ visitor.current = Unknown
  /\ visitor' = [visitor EXCEPT !.current = detectPlatform(visitor.browser)]
  /\ UNCHANGED <<attached, page>>

Next ==
  \/ \E job \in Job : Release(job) \/ \E n \in DOMAIN attached : Attach(job, n)
  \/ Home \/ Hydrate
  \/ \E b \in Browsers : Visit(b)

Spec == Init /\ [][Next]_vars

-----------------------------------------------------------------------------
(* Properties *)

\* Every link of a page is of the release whose version stands over it, and it
\* leads to the installer that was attached to it for that platform, or to its
\* page; although pages are rendered of releases that are not complete, and an
\* updater's signature bears nearly the name of the installer (release.ts:109-123).
LinksLead ==
  \A id \in Platform :
    LET link == page.builds[id].href IN
      /\ link.of = page.version
      /\ link.files # {} => id \in attached[link.of] /\ link.files = {BUILDS(id)}

\* The first card is for a PC and the second for a phone, whoever looks at them
\* and before or after the guess.  The guess is right for the systems there are
\* builds for, but for a Mac whose browser hides the chip (platform.ts:85-106).
CardsFit ==
  /\ pcBuild.role = "host" /\ androidBuild.role = "companion"
  /\ LET b == visitor.browser IN
       visitor.current # Unknown /\ b.system \in Platform
         /\ (b.system = "macos-arm" => b.chip)
         => isCurrent(b.system)

DownloadsHonest == LinksLead /\ CardsFit
=============================================================================
