--------------------------- MODULE ReleaseChannel ---------------------------
(* release_channel.py: which published release is the fleet's canary and which is its stable, since
   when a machine is behind stable.  Releases come as the list GitHub
   gives; a release is [version, day, held] with version the number its comparable key stands for
   (0: a tag without one) and day the day it was published on. *)
EXTENDS Integers, Sequences, FiniteSetsExt

NoRelease == 0
NeverReady == -1

Usable(releases) == {i \in DOMAIN releases : ~releases[i].held}

\* The one published last: "newest" is by date, never by version.
Newest(releases, S) ==
  IF S = {} THEN NoRelease
  ELSE CHOOSE i \in S : \A j \in S : \/ releases[i].day > releases[j].day
                                     \/ (releases[i].day = releases[j].day /\ i <= j)

Canary(releases) == Newest(releases, Usable(releases))

Soaked(releases, now, soak) == {i \in Usable(releases) : now - releases[i].day >= soak}
Stable(releases, now, soak) == Newest(releases, Soaked(releases, now, soak))

\* The day a machine fell behind: when the oldest release newer than it finished its soak.
NewerSoaked(version, releases, now, soak) ==
  {i \in Soaked(releases, now, soak) : releases[i].version > version}
\* Mutant: the clock starts anew with every later release.
BehindSinceStable(version, releases, now, soak) ==
  LET s == Stable(releases, now, soak)
  IN IF s = NoRelease \/ version = 0 \/ releases[s].version <= version THEN NeverReady
     ELSE releases[s].day + soak
BehindSince(version, releases, now, soak) ==
  LET s == Stable(releases, now, soak)
  IN IF s = NoRelease \/ version = 0 \/ releases[s].version <= version THEN NeverReady
     ELSE Min({releases[i].day + soak : i \in NewerSoaked(version, releases, now, soak)})
==============================================================================
