------------------------------- MODULE MCParts ------------------------------
(***************************************************************************)
(* The screens and services of the two apps, the dialogues and the keys of *)
(* a session, and the website. They share no state, so one run checks them *)
(* all: a behaviour is one of the component that part names.               *)
(***************************************************************************)
EXTENDS PhoneParts, DesktopParts, ListParts, TLC

CONSTANTS
  pc1, pc2, c1, c2, p1, p2, d1, d2, d3, n1, n2, n3, k1, k2, r1, r2, s1, s2,
  t1, t2, u1, u2, u3, f1, f2

\* Files: two have one name, and one is empty.
MCChunks == (u1 :> 2) @@ (u2 :> 1) @@ (u3 :> 0)
MCName == (u1 :> "a") @@ (u2 :> "a") @@ (u3 :> "b")
\* Histories: none, and one whose older entry is pinned.
Entry(n, t, pin) == [id |-> n, text |-> t, pinned |-> pin]
MCLoaded == {<<>>, <<Entry(1, t1, TRUE), Entry(2, t2, FALSE)>>}
\* Releases: version codes order them, patch numbers do not.
Release(a, b, c) == [major |-> a, minor |-> b, patch |-> c]
MCReleases == {Release(0, 1, 999), Release(0, 2, 0), Release(1, 0, 0)}
\* A text and a file at a time, or one large file.
MCShares == {<<t1, f1>>, <<f2>>}
\* What each phone calls itself.
MCOwn == (d1 :> n1) @@ (d2 :> n2)

\* The PCs in reach of the phone, and the mounts and calls of its update screen.
Interchangeable == Permutations({pc1, pc2}) \cup Permutations({c1, c2})

allVars == <<phoneVars, desktopVars, listVars>>

AllInit ==
  /\ part \in {"app", "service", "images", "share", "notes", "updater",
               "screen", "keys", "devices", "names",
               "settings", "mirror", "clips", "overlay",
               "demo", "downloads", "files", "toasts"}
  /\ PhoneInit /\ DesktopInit /\ ListInit

Alone(p) == PhoneOnly(p) /\ DesktopOnly(p) /\ ListOnly(p)

AllNext == (PhoneNext \/ DesktopNext \/ ListNext) /\ Alone(part)

AllSpec == AllInit /\ [][AllNext]_allVars
=============================================================================
