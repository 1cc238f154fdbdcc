------------------------------ MODULE Updater -------------------------------
(* The machine's updater (updater.py) and the start of an installer outside the server
   (selfupgrade.py).  A scheduled run reads the ring's target from the release list, counts the
   attempt in a file, and starts the installer detached; the installer proves the new version or
   rolls it back (LinuxSwitch has its steps).  Beside the updater a caller's SelfUpgrade, or the
   owner by hand, starts the same installer.  Days pass, releases appear, and the owner holds or
   releases them, at any moment. *)
EXTENDS ReleaseChannel

CONSTANTS
  Published,        \* the releases that will appear, in order of publication: their versions
  Installable,      \* the ones whose installation succeeds on this machine
  SoakDays,
  MAX_ATTEMPTS,
  LastDay,          \* bound: the days followed
  MaxUpdaterFaults  \* bound: killed runs, files that cannot be written, runners that time out

ASSUME UpdaterAssumption ==
  /\ Published \in Seq(Nat) /\ Installable \subseteq DOMAIN Published
  /\ SoakDays \in Nat /\ LastDay \in Nat /\ MaxUpdaterFaults \in Nat
  /\ MAX_ATTEMPTS \in Nat \ {0}

VARIABLES
  today,
  releases,       \* what GitHub lists
  ring,           \* the machine's updater.json
  installed,      \* the version on the machine
  attempts,       \* updater-state.json: the tag last tried and how often
  updater,        \* the run in progress
  installer,      \* the release being installed, NoRelease when none is
  started,        \* history: the installer starts of attempts.tag since it became the tag
  hidden,         \* history: of those, the ones a runner that timed out reported as not started
  updaterFaults

updaterVars == <<today, releases, ring, installed, attempts, updater, installer, started, hidden,
                 updaterFaults>>

NoRun == [at |-> "idle", installed |-> 0, tag |-> NoRelease, attempts |-> 0]
Target ==
  IF ring = "canary" THEN Canary(releases) ELSE Stable(releases, today, SoakDays)
\* Mutant: the attempts of another release count too.
AttemptsAny(tag) == attempts.attempts
AttemptsAt(tag) == IF attempts.tag = tag THEN attempts.attempts ELSE 0

-----------------------------------------------------------------------------
(* The world: time, GitHub, and upgrades started by others. *)

NextDay == today < LastDay /\ today' = today + 1
           /\ UNCHANGED <<releases, ring, installed, attempts, updater, installer, started, hidden,
                          updaterFaults>>

PublishRelease ==
  /\ Len(releases) < Len(Published) /\ \A i \in DOMAIN releases : releases[i].day < today
  /\ releases' = Append(releases, [version |-> Published[Len(releases) + 1],
                                   day |-> today, held |-> FALSE])
  /\ UNCHANGED <<today, ring, installed, attempts, updater, installer, started, hidden,
                 updaterFaults>>

\* The prerelease mark in the GitHub UI; bounded to the day after the last release appears.
Hold ==
  /\ today < LastDay
  /\ \E i \in DOMAIN releases : releases' = [releases EXCEPT ![i].held = ~@]
  /\ UNCHANGED <<today, ring, installed, attempts, updater, installer, started, hidden,
                 updaterFaults>>

\* A caller's SelfUpgrade, or an installer run by hand, to any release; an installation already in
\* progress wins.
SelfUpgrade ==
  /\ today < LastDay /\ installer = NoRelease
  /\ installer' \in DOMAIN releases
  /\ UNCHANGED <<today, releases, ring, installed, attempts, updater, started, hidden,
                 updaterFaults>>

\* The installer ends: switched and proven, or rolled back.
InstallerEnds ==
  /\ installer # NoRelease
  /\ installed' = IF installer \in Installable THEN releases[installer].version ELSE installed
  /\ installer' = NoRelease
  /\ UNCHANGED <<today, releases, ring, attempts, updater, started, hidden, updaterFaults>>

-----------------------------------------------------------------------------
(* One scheduled run. *)

\* The installed version is the one this process was loaded with.
BeginRun ==
  /\ updater.at = "idle"
  /\ updater' = [NoRun EXCEPT !.at = "begun", !.installed = installed]
  /\ UNCHANGED <<today, releases, ring, installed, attempts, installer, started, hidden,
                 updaterFaults>>

\* decide: only ever forward.
Wants(seen) ==
  Target # NoRelease /\ seen # 0 /\ releases[Target].version > seen

\* A release list that cannot be read, nothing newer, or a release given up on: the run ends.
NothingToDo ==
  /\ updater.at = "begun"
  /\ ~Wants(updater.installed) \/ AttemptsAt(Target) >= MAX_ATTEMPTS
  /\ updater' = NoRun
  /\ UNCHANGED <<today, releases, ring, installed, attempts, installer, started, hidden,
                 updaterFaults>>

\* Mutant: the attempt is not counted before the start.
RecordAttemptAfter ==
  /\ updater.at = "begun" /\ Wants(updater.installed) /\ AttemptsAt(Target) < MAX_ATTEMPTS
  /\ updater' = [updater EXCEPT !.at = "recorded", !.tag = Target,
                                !.attempts = AttemptsAt(Target)]
  /\ attempts' = [tag |-> Target, attempts |-> AttemptsAt(Target)]
  /\ started' = IF attempts.tag = Target THEN started ELSE 0
  /\ hidden' = IF attempts.tag = Target THEN hidden ELSE 0
  /\ UNCHANGED <<today, releases, ring, installed, installer, updaterFaults>>
\* The attempt is on disk before anything starts.
RecordAttempt ==
  /\ updater.at = "begun" /\ Wants(updater.installed) /\ AttemptsAt(Target) < MAX_ATTEMPTS
  /\ updater' = [updater EXCEPT !.at = "recorded", !.tag = Target,
                                !.attempts = AttemptsAt(Target)]
  /\ attempts' = [tag |-> Target, attempts |-> AttemptsAt(Target) + 1]
  /\ started' = IF attempts.tag = Target THEN started ELSE 0
  /\ hidden' = IF attempts.tag = Target THEN hidden ELSE 0
  /\ UNCHANGED <<today, releases, ring, installed, installer, updaterFaults>>

\* The runner answers: the detached installer runs (or finds another one in progress).
Launch == installer' = IF installer = NoRelease THEN updater.tag ELSE installer
StartUpgrade ==
  /\ updater.at = "recorded"
  /\ Launch /\ started' = started + 1
  /\ updater' = NoRun
  /\ UNCHANGED <<today, releases, ring, installed, attempts, hidden, updaterFaults>>

\* The runner failed: nothing was started, so the count goes back - when it can be written.
StartFails ==
  /\ updater.at = "recorded" /\ updaterFaults < MaxUpdaterFaults
  /\ attempts' \in {attempts, [tag |-> updater.tag, attempts |-> updater.attempts]}
  /\ updater' = NoRun /\ updaterFaults' = updaterFaults + 1
  /\ UNCHANGED <<today, releases, ring, installed, installer, started, hidden>>

\* The runner outlived START_TIMEOUT_S: run_child raises, and the installer may run all the same.
StartTimesOut ==
  /\ updater.at = "recorded" /\ updaterFaults < MaxUpdaterFaults
  /\ Launch /\ started' = started + 1 /\ hidden' = hidden + 1
  /\ attempts' = [tag |-> updater.tag, attempts |-> updater.attempts]
  /\ updater' = NoRun /\ updaterFaults' = updaterFaults + 1
  /\ UNCHANGED <<today, releases, ring, installed>>

\* The run dies: before anything was written, or with the installer it started.
RunKilled ==
  /\ updater.at # "idle" /\ updaterFaults < MaxUpdaterFaults
  /\ \/ UNCHANGED <<installer, started>>
     \/ updater.at = "recorded" /\ Launch /\ started' = started + 1
  /\ updater' = NoRun /\ updaterFaults' = updaterFaults + 1
  /\ UNCHANGED <<today, releases, ring, installed, attempts, hidden>>

-----------------------------------------------------------------------------
UpdaterIdle(r, day, at) ==
  /\ today = day /\ releases = <<>> /\ ring = r /\ installed = 1
  /\ attempts = [tag |-> NoRelease, attempts |-> 0] /\ updater = [NoRun EXCEPT !.at = at]
  /\ installer = NoRelease /\ started = 0 /\ hidden = 0 /\ updaterFaults = 0
UpdaterInit == \E r \in {"stable", "canary"} : UpdaterIdle(r, 0, "idle")

UpdaterStep == BeginRun \/ NothingToDo \/ RecordAttempt \/ StartUpgrade
UpdaterNext ==
  \/ NextDay \/ PublishRelease \/ Hold \/ SelfUpgrade \/ InstallerEnds
  \/ UpdaterStep \/ StartFails \/ StartTimesOut \/ RunKilled

UpdaterSpec == UpdaterInit /\ [][UpdaterNext]_updaterVars

(* Days pass, the scheduler starts the updater again and again and a run ends; an installer ends. *)
UpdaterFairness ==
  /\ WF_updaterVars(NextDay) /\ WF_updaterVars(UpdaterStep) /\ WF_updaterVars(InstallerEnds)

-----------------------------------------------------------------------------
(* The types of the updater's state. *)
UpdaterTypeOK ==
  /\ today \in 0..LastDay
  /\ releases \in Seq([version : Nat, day : Nat, held : BOOLEAN])
  /\ ring \in {"stable", "canary"} /\ installed \in Nat
  /\ attempts \in [tag : 0..Len(releases), attempts : 0..MAX_ATTEMPTS]
  /\ updater \in [at : {"idle", "begun", "recorded", "parked"}, installed : Nat,
                  tag : 0..Len(releases), attempts : 0..MAX_ATTEMPTS]
  /\ installer \in 0..Len(releases)
  /\ started \in Nat /\ hidden \in Nat /\ updaterFaults \in 0..MaxUpdaterFaults

(* A release this machine cannot reach is not tried over and over: however runs are killed, starts
   fail and the count goes back, the installer was started for the recorded release at most as
   often as the file says, so at most MAX_ATTEMPTS times - but for the starts a runner that timed
   out reported as failed. *)
AttemptsCounted ==
  /\ started <= attempts.attempts + hidden
  /\ updater.at = "recorded" => started < attempts.attempts + hidden
  /\ attempts.attempts <= MAX_ATTEMPTS

(* A machine catches up by itself and then stays still: once releases stop coming it ends at its
   ring's release, ahead of it, or having given that release up. *)
CaughtUp ==
  \/ Target = NoRelease \/ releases[Target].version <= installed
  \/ attempts = [tag |-> Target, attempts |-> MAX_ATTEMPTS]
CatchesUp == <>[]CaughtUp

(* "a new stable while the box is still behind does not restart the count, and no history is needed"
   (release_channel.py, behind_since): as days pass and releases appear, the day a machine fell
   behind stays the day it was, and it is never in the future. *)
DriftClockRuns ==
  [][ LET since == BehindSince(installed, releases, today, SoakDays)
          next == BehindSince(installed', releases', today', SoakDays)
      IN NextDay \/ PublishRelease =>
           /\ since # NeverReady /\ next # NeverReady => next = since
           /\ next <= today' ]_updaterVars

(* A machine ends on its channel by itself; as long as it does not, what the owner is told of it is
   counted from the day it fell behind. *)
StaysOnChannel == CatchesUp /\ DriftClockRuns
==============================================================================
