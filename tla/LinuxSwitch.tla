---------------------------- MODULE LinuxSwitch ----------------------------
(***************************************************************************)
(* The Linux installer's switch to a new install                           *)
(* (installers/install-linux: 90-main.sh, 40-switch.sh, prune_builds): it  *)
(* builds a venv next to the running one, marks the switch as pending,     *)
(* points the venv link at the build, writes unit and key files, restarts  *)
(* the service, asks it for a proof, and goes back when there is none.     *)
(*                                                                         *)
(* One run at a time holds the lock, but it can be interrupted, killed or  *)
(* cut off by a reboot between any two steps, and systemd restarts a       *)
(* crashed service on its own (Restart=always) at any moment.              *)
(*                                                                         *)
(* Builds are numbered as they are made; 0 is the system's own python,     *)
(* which a unit of before the venv runs.  The unit, the EnvironmentFile    *)
(* and config.json are one value, conf.  The mark holds the unit's         *)
(* InvocationID: all that is ever asked of it is whether that is still the *)
(* unit's ("this") or not ("other").                                       *)
(***************************************************************************)
EXTENDS Naturals, FiniteSets

CONSTANTS
    Sources,      \* commits REMOTEOS_MCP_REF may name, the system's python's too
    SystemSource, \* what is installed in the system's python
    VersionOf,    \* [Sources -> versions]: pyproject's version of each
    Good,         \* the sources that answer /health and enforce the key
    Keys,         \* auth keys
    MaxRuns, MaxKills, MaxCrashes   \* bounds (model checking only)

System == 0
None == [unit |-> "none", key |-> "none"]      \* no unit and no key files
Legacy(k) == [unit |-> "legacy", key |-> k]    \* the unit of before the venv
Ours(k) == [unit |-> "ours", key |-> k]
Builds == 1..MaxRuns + 1
Policies == {"restart", "enable-only"}
GiLinks == {"none", "failed", "linked"}        \* what ensure_system_gi came to

ASSUME SwitchAssumption ==
    /\ SystemSource \in Sources /\ Good \subseteq Sources
    /\ "none" \notin Keys
    /\ MaxRuns \in Nat /\ MaxKills \in Nat /\ MaxCrashes \in Nat

VARIABLES
    link,      \* VENV_LINK: nothing, a real directory, or a link; to which build
    store,     \* the builds in VENV_STORE
    source,    \* the source each build was made of
    conf,      \* unit and key files
    pending,   \* the mark: "absent", "this" or "other" InvocationID
    enabled,
    on,        \* systemd keeps the unit started
    proc,      \* the process that runs: its build and the files it read
    phase,     \* where the run is
    run,       \* the run's shell variables
    outcome,   \* how the last run ended
    runs, kills, crashes

disk == <<link, store, source, conf>>
service == <<enabled, on, proc>>
bounds == <<runs, kills, crashes>>
vars == <<disk, pending, service, phase, run, outcome, bounds>>

NoLink == [kind |-> "none", build |-> System]
LinkTo(b) == [kind |-> "link", build |-> b]
Directory(b) == [kind |-> "directory", build |-> b]
NoProc == [conf |-> None, build |-> System]

NoRun == [key |-> "none", policy |-> "restart", new |-> 0, saved |-> None, before |-> NoLink,
          wasPending |-> FALSE, proven |-> FALSE, changed |-> FALSE, modified |-> FALSE,
          swapped |-> FALSE]

SourceOf(b) == IF b = System THEN SystemSource ELSE source[b]

\* A box without an install, one of before the venv, one whose venv is a
\* plain directory (camera-box's), and one this installer made.
Init ==
    /\ \E first \in Sources : source = [b \in Builds |-> first]
    /\ \/ link = NoLink /\ conf \in {None} \union {Legacy(k) : k \in Keys} /\ store = {}
       \/ link = Directory(1) /\ conf \in {Ours(k) : k \in Keys} /\ store = {}
       \/ link = LinkTo(1) /\ conf \in {Ours(k) : k \in Keys} /\ store = {1}
    /\ on = (conf # None)
    /\ enabled = on
    /\ proc = IF on THEN [build |-> link.build, conf |-> conf] ELSE NoProc
    /\ pending = "absent"
    /\ phase = "idle"
    /\ run = NoRun
    /\ outcome = "none"
    /\ runs = 0 /\ kills = 0 /\ crashes = 0

----------------------------------------------------------------------------
(* systemd.                                                                *)

\* The python a unit starts, when its venv is there.
Python(c, l) == IF c.unit = "legacy" THEN System ELSE l.build

CanStart(c, l) == c.unit = "legacy" \/ (c.unit = "ours" /\ l.kind # "none")

Started == /\ on' = (conf # None)
           /\ proc' = IF CanStart(conf, link) THEN [build |-> Python(conf, link), conf |-> conf]
                                              ELSE NoProc

Renewed(mark) == IF mark = "this" THEN "other" ELSE mark

\* The service dies and Restart=always starts it again, as the files are now.
ServiceRestarts ==
    /\ on
    /\ crashes < MaxCrashes
    /\ crashes' = crashes + 1
    /\ Started
    /\ pending' = Renewed(pending)
    /\ UNCHANGED <<disk, enabled, phase, run, outcome, runs, kills>>

----------------------------------------------------------------------------
(* main(), up to the switch.                                               *)

IsCurrent(src) == link.kind # "none" /\ source[link.build] = src

\* fetch_source; venv_is_current, or else build_venv next to the running one.
BeginRun(policy, src, key) ==
    /\ phase = "idle"
    /\ runs < MaxRuns
    /\ runs' = runs + 1
    /\ phase' = "prepared"
    /\ LET new == IF IsCurrent(src) THEN 0 ELSE runs' + 1
       IN  /\ run' = [NoRun EXCEPT !.policy = policy, !.key = key, !.new = new,
                                   !.saved = conf, !.before = link]
           /\ store' = store \union ({new} \ {0})
           /\ source' = IF new = 0 THEN source ELSE [source EXCEPT ![new] = src]
    /\ outcome' = "none"
    /\ UNCHANGED <<link, conf, pending, service, kills, crashes>>

\* Mutant: the mark of an earlier run is not looked at.
CheckMarkForgotten ==
    /\ phase = "prepared"
    /\ phase' = IF run.policy = "restart" THEN "reading" ELSE "arming"
    /\ UNCHANGED <<disk, pending, service, run, outcome, bounds>>

\* A mark with the unit's present InvocationID: that switch never ran.
CheckMark ==
    /\ phase = "prepared"
    /\ phase' = IF run.policy = "restart" THEN "reading" ELSE "arming"
    /\ run' = [run EXCEPT !.wasPending = pending = "this", !.changed = pending = "this"]
    /\ UNCHANGED <<disk, pending, service, outcome, bounds>>

\* check_running_install: what runs is the version its unit's python has, and
\* refuses a request without the key.
Provable ==
    /\ run.saved # None /\ ~run.wasPending
    /\ proc # NoProc
    /\ CanStart(run.saved, link)
    /\ VersionOf[SourceOf(proc.build)] = VersionOf[SourceOf(Python(run.saved, link))]
    /\ SourceOf(proc.build) \in Good

\* What runs may be provable and still not answer in time.
PollRunning(answered) ==
    /\ phase = "reading"
    /\ phase' = "arming"
    /\ run' = [run EXCEPT !.proven = answered /\ Provable]
    /\ UNCHANGED <<disk, pending, service, outcome, bounds>>

----------------------------------------------------------------------------
(* The switch, armed: from here on whatever ends the run undoes it.        *)

Mark ==
    /\ phase = "arming"
    /\ phase' = "armed"
    /\ pending' = "this"
    /\ UNCHANGED <<disk, service, run, outcome, bounds>>

\* swap_venv sets its flags first, so that a signal at any step can be undone.
BeginSwap ==
    /\ phase = "armed"
    /\ run.new # 0
    /\ run' = [run EXCEPT !.swapped = TRUE, !.modified = TRUE, !.changed = TRUE]
    /\ phase' = "swapping"
    /\ UNCHANGED <<disk, pending, service, outcome, bounds>>

\* swap_venv: a real directory is moved into the store first.
AdoptDirectory ==
    /\ phase = "swapping"
    /\ link.kind = "directory"
    /\ link' = NoLink
    /\ store' = store \union {link.build}
    /\ UNCHANGED <<source, conf, pending, service, phase, run, outcome, bounds>>

\* swap_venv: one rename(2) points the link at the new build.
SwapLink ==
    /\ phase = "swapping"
    /\ run.new # 0 /\ link.kind # "directory"
    /\ link' = LinkTo(run.new)
    /\ phase' = "files"
    /\ UNCHANGED <<store, source, conf, pending, service, run, outcome, bounds>>

\* Nothing new was built; ensure_system_gi may have gi to add to the build, and
\* says so to the undo before it tries.
KeepLink(gi) ==
    /\ phase = "armed"
    /\ run.new = 0
    /\ run' = [run EXCEPT !.modified = gi # "none", !.changed = @ \/ gi = "linked"]
    /\ phase' = "files"
    /\ UNCHANGED <<disk, pending, service, outcome, bounds>>

WriteFiles ==
    /\ phase = "files"
    /\ conf' = Ours(run.key)
    /\ run' = [run EXCEPT !.modified = @ \/ conf' # conf, !.changed = @ \/ conf' # conf]
    /\ phase' = "enabling"
    /\ UNCHANGED <<link, store, source, pending, service, outcome, bounds>>

\* `systemctl enable`, which may leave the unit something else than enabled.
Enable(ok) ==
    /\ phase = "enabling"
    /\ enabled' = (enabled \/ ok)
    /\ phase' = CASE ~ok -> "undo"
                  [] ok /\ run.policy = "restart" -> "restarting"
                  [] OTHER -> "finishing"
    /\ UNCHANGED <<disk, pending, on, proc, run, outcome, bounds>>

\* Only a proven process whose files did not change is left as it runs.
Restart ==
    /\ phase = "restarting"
    /\ phase' = "proving"
    /\ \/ /\ run.changed \/ ~run.proven \/ proc = NoProc
          /\ Started
          /\ pending' = Renewed(pending)
       \/ /\ ~run.changed /\ run.proven /\ proc # NoProc
          /\ UNCHANGED <<on, proc, pending>>
    /\ UNCHANGED <<disk, enabled, run, outcome, bounds>>

\* prove_health: the version that was installed, the key, and the refusal.
Proves ==
    /\ proc # NoProc
    /\ VersionOf[SourceOf(proc.build)] = VersionOf[SourceOf(link.build)]
    /\ SourceOf(proc.build) \in Good
    /\ proc.conf.key = run.key

ProveHealth ==
    /\ phase = "proving"
    /\ Proves
    /\ pending' = "absent"
    /\ phase' = "pruning"
    /\ UNCHANGED <<disk, service, run, outcome, bounds>>

\* No proof, or one that did not come in time.
HealthFailed ==
    /\ phase = "proving"
    /\ phase' = "undo"
    /\ UNCHANGED <<disk, pending, service, run, outcome, bounds>>

\* enable-only: a switch stays pending, a proven no-op does not.
FinishEnableOnly(answered) ==
    /\ phase = "finishing"
    /\ phase' = "pruning"
    /\ LET proven == ~run.changed /\ answered /\ Provable
       IN  /\ pending' = IF proven THEN "absent" ELSE pending
           /\ run' = [run EXCEPT !.proven = proven]
    /\ UNCHANGED <<disk, service, outcome, bounds>>

Ended(how) == phase' = "idle" /\ run' = NoRun /\ outcome' = how

\* Mutant: the build of this run is kept, not the one the link points at.
PruneBuildsOfRun ==
    /\ phase = "pruning"
    /\ store' = store \intersect {run.new}
    /\ Ended(IF run.policy = "restart" THEN "proved" ELSE "staged")
    /\ UNCHANGED <<link, source, conf, pending, service, bounds>>

\* Every build goes but the one the link points at.
PruneBuilds ==
    /\ phase = "pruning"
    /\ store' = IF link.kind = "link" THEN store \intersect {link.build} ELSE {}
    /\ Ended(IF run.policy = "restart" THEN "proved" ELSE "staged")
    /\ UNCHANGED <<link, source, conf, pending, service, bounds>>

----------------------------------------------------------------------------
(* undo_switch.  A signal no longer stops it; kill -9 and a reboot do.     *)

Unswapped == IF run.swapped THEN store ELSE store \ {run.new}

\* What is restored: an install in use (enable-only), or a proven one.
Restores == IF run.policy = "restart" THEN run.proven /\ run.modified ELSE run.saved # None

RestoreFiles ==
    /\ phase = "undo"
    /\ Restores
    /\ conf' = run.saved
    /\ phase' = IF run.swapped THEN "restore_venv" ELSE "restored"
    /\ UNCHANGED <<link, store, source, pending, service, run, outcome, bounds>>

\* ADOPTED_DIR: the directory that was the venv has been moved aside.
Adopted == run.before.kind = "directory" /\ run.before.build \in store

\* restore_venv, the directory that was moved aside: our link goes first.
RemoveLink ==
    /\ phase = "restore_venv"
    /\ Adopted
    /\ link' = NoLink
    /\ phase' = "move_back"
    /\ UNCHANGED <<store, source, conf, pending, service, run, outcome, bounds>>

MoveBack ==
    /\ phase = "move_back"
    /\ link' = run.before
    /\ store' = store \ {run.before.build, run.new}
    /\ phase' = "restored"
    /\ UNCHANGED <<source, conf, pending, service, run, outcome, bounds>>

\* Mutant: the new build goes, the link stays.
RestoreLinkForgotten ==
    /\ phase = "restore_venv"
    /\ ~Adopted
    /\ store' = store \ {run.new}
    /\ phase' = "restored"
    /\ UNCHANGED <<link, source, conf, pending, service, run, outcome, bounds>>

\* restore_venv, a link, nothing, or a directory that was not moved yet.
RestoreLink ==
    /\ phase = "restore_venv"
    /\ ~Adopted
    /\ link' = run.before
    /\ store' = store \ {run.new}
    /\ phase' = "restored"
    /\ UNCHANGED <<source, conf, pending, service, run, outcome, bounds>>

\* The end of restore_previous: the mark goes before the service is restarted.
RestoreMark ==
    /\ phase = "restored"
    /\ pending' = IF run.wasPending THEN pending ELSE "absent"
    /\ store' = Unswapped
    /\ \/ /\ run.policy = "restart"
          /\ phase' = "restart_restored"
          /\ UNCHANGED <<run, outcome>>
       \/ /\ run.policy = "enable-only"
          /\ Ended("restored")
    /\ UNCHANGED <<link, source, conf, service, bounds>>

RestartRestored ==
    /\ phase = "restart_restored"
    /\ Started
    /\ pending' = Renewed(pending)
    /\ phase' = "await"
    /\ UNCHANGED <<disk, enabled, run, outcome, bounds>>

\* A proven install that nothing was written over only has to answer again.
LeaveAsItRan ==
    /\ phase = "undo"
    /\ run.policy = "restart" /\ run.proven /\ ~run.modified
    /\ phase' = "await"
    /\ UNCHANGED <<disk, pending, service, run, outcome, bounds>>

\* poll_running_install await
AwaitPrevious(answered) ==
    /\ phase = "await"
    /\ \/ /\ answered /\ Provable
          /\ pending' = IF run.modified THEN pending ELSE "absent"
          /\ store' = Unswapped
          /\ Ended(IF run.modified THEN "rolled_back" ELSE "left")
       \/ /\ ~(answered /\ Provable)
          /\ phase' = "stop"
          /\ UNCHANGED <<pending, store, run, outcome>>
    /\ UNCHANGED <<link, source, conf, service, bounds>>

NothingProven ==
    /\ phase = "undo"
    /\ run.policy = "restart" /\ ~run.proven
    /\ phase' = "stop"
    /\ UNCHANGED <<disk, pending, service, run, outcome, bounds>>

\* stop_unproven, and the disable after it.  Both are taken to succeed: the code
\* goes on with `set +e` and says "stopped and disabled" whatever systemctl did.
Stop ==
    /\ phase = "stop"
    /\ on' = FALSE
    /\ proc' = NoProc
    /\ phase' = "disable"
    /\ UNCHANGED <<disk, pending, enabled, run, outcome, bounds>>

\* Mutant: the service is stopped, not disabled.
DisableForgotten ==
    /\ phase = "disable"
    /\ pending' = IF pending = "absent" THEN pending ELSE "this"
    /\ store' = Unswapped
    /\ Ended("stopped")
    /\ UNCHANGED <<link, source, conf, service, bounds>>

Disable ==
    /\ phase = "disable"
    /\ enabled' = FALSE
    /\ pending' = IF pending = "absent" THEN pending ELSE "this"
    /\ store' = Unswapped
    /\ Ended("stopped")
    /\ UNCHANGED <<link, source, conf, on, proc, bounds>>

\* enable-only on a box that had nothing: started nothing, so only disabled.
DisableOnly ==
    /\ phase = "undo"
    /\ run.policy = "enable-only" /\ run.saved = None
    /\ enabled' = FALSE
    /\ store' = Unswapped
    /\ Ended("disabled")
    /\ UNCHANGED <<link, source, conf, pending, on, proc, bounds>>

----------------------------------------------------------------------------
(* What ends a run early.                                                  *)

\* A signal or a failed step before the run is armed: its build goes.
GiveUp ==
    /\ phase \in {"prepared", "reading", "arming"}
    /\ store' = store \ {run.new}
    /\ Ended("gave_up")
    /\ UNCHANGED <<link, source, conf, pending, service, bounds>>

\* A signal, a failed step or a lost console while it is armed.
Interrupt ==
    /\ phase \in {"armed", "swapping", "files", "enabling", "restarting"}
    /\ phase' = "undo"
    /\ UNCHANGED <<disk, pending, service, run, outcome, bounds>>

\* kill -9: no trap runs.
Kill ==
    /\ phase # "idle"
    /\ kills < MaxKills
    /\ kills' = kills + 1
    /\ Ended("killed")
    /\ UNCHANGED <<disk, pending, service, runs, crashes>>

\* A reboot, or a power cut: the service starts if it is enabled.
Reboot ==
    /\ kills < MaxKills
    /\ kills' = kills + 1
    /\ IF phase = "idle" THEN UNCHANGED <<phase, run, outcome>> ELSE Ended("killed")
    /\ \/ enabled /\ Started
       \/ ~enabled /\ on' = FALSE /\ proc' = NoProc
    /\ pending' = Renewed(pending)
    /\ UNCHANGED <<disk, enabled, runs, crashes>>

----------------------------------------------------------------------------

Undo ==
    \/ RestoreFiles
    \/ RemoveLink
    \/ MoveBack
    \/ RestoreLink
    \/ RestoreMark
    \/ RestartRestored
    \/ LeaveAsItRan
    \/ \E answered \in BOOLEAN : AwaitPrevious(answered)
    \/ NothingProven
    \/ Stop
    \/ Disable
    \/ DisableOnly

Next ==
    \/ \E policy \in Policies, src \in Sources, key \in Keys : BeginRun(policy, src, key)
    \/ CheckMark
    \/ \E answered \in BOOLEAN : PollRunning(answered) \/ FinishEnableOnly(answered)
    \/ Mark
    \/ BeginSwap
    \/ AdoptDirectory
    \/ SwapLink
    \/ \E gi \in GiLinks : KeepLink(gi)
    \/ WriteFiles
    \/ \E ok \in BOOLEAN : Enable(ok)
    \/ Restart
    \/ ProveHealth
    \/ HealthFailed
    \/ PruneBuilds
    \/ Undo
    \/ GiveUp
    \/ Interrupt
    \/ Kill
    \/ Reboot
    \/ ServiceRestarts

Spec == Init /\ [][Next]_vars

----------------------------------------------------------------------------
(* Properties.                                                             *)

Phases == {"idle", "prepared", "reading", "arming", "armed", "swapping", "files", "enabling",
           "restarting", "proving", "finishing", "pruning", "undo", "restore_venv",
           "move_back", "restored", "restart_restored", "await", "stop", "disable"}

Links == {NoLink} \union [kind : {"link", "directory"}, build : Builds]

Confs == [unit : {"none", "legacy", "ours"}, key : Keys \union {"none"}]

Procs == [build : Builds \union {System}, conf : Confs]

RunVariables ==
    [policy : Policies, key : Keys \union {"none"}, new : Builds \union {0}, saved : Confs,
     before : Links, wasPending : BOOLEAN, proven : BOOLEAN, changed : BOOLEAN,
     modified : BOOLEAN, swapped : BOOLEAN]

\* The shapes, and that nothing runs of a unit that is stopped.
TypeOK ==
    /\ link \in Links
    /\ store \subseteq Builds
    /\ source \in [Builds -> Sources]
    /\ conf \in Confs
    /\ pending \in {"absent", "this", "other"}
    /\ enabled \in BOOLEAN /\ on \in BOOLEAN
    /\ proc # NoProc => on
    /\ proc \in Procs
    /\ phase \in Phases
    /\ run \in RunVariables
    /\ outcome \in {"none", "proved", "staged", "rolled_back", "restored", "left", "stopped",
                    "disabled", "gave_up", "killed"}
    /\ runs \in 0..MaxRuns /\ kills \in 0..MaxKills /\ crashes \in 0..MaxCrashes

\* The venv link never points at a build that is gone: not after a prune, a
\* rollback, or a run killed between any two renames.
LinkNeverDangles == link.kind = "link" => link.build \in store

\* The process that runs is the one unit, venv and key files describe.
AsInstalled == proc = [build |-> Python(conf, link), conf |-> conf]

\* Why: builds are numbered past every earlier one, the build of before the
\* run stays in the store for as long as the run may go back to it, and until
\* the swap the link is what it was.
SwitchInv ==
    /\ LinkNeverDangles
    /\ link.build <= runs + 1 /\ run.before.build <= runs + 1
    /\ run.new # 0 => run.new = runs + 1 /\ run.before.build < run.new
    /\ run.before.kind = "link" => run.before.build \in store
    /\ run.new # 0 /\ phase \in {"prepared", "reading", "arming", "armed", "swapping"}
       => run.new \in store
    /\ phase # "idle" /\ ~run.swapped => link = run.before
    /\ phase \in {"prepared", "reading", "arming", "armed"} => ~run.swapped
    /\ phase \in {"swapping", "restore_venv", "move_back"} => run.swapped
    /\ phase = "move_back" => run.before.kind = "directory"

\* A restart run that was not killed leaves behind a process of the installed
\* version that enforces the key; or, when it had
\* nothing proven to go back to, a stopped and disabled service.  This holds
\* also for a run that follows one that was killed anywhere.
EndsProvenOrStopped ==
    /\ outcome \in {"proved", "rolled_back", "left"} /\ proc # NoProc
       => /\ SourceOf(proc.build) \in Good
          /\ VersionOf[SourceOf(proc.build)] = VersionOf[SourceOf(Python(conf, link))]
    /\ outcome \in {"proved", "rolled_back"} /\ proc # NoProc => proc.conf.key = conf.key
    /\ outcome = "stopped" => proc = NoProc /\ ~on /\ ~enabled

\* Another version is another source.  (With two sources of one version, a
\* crash between the mark and the swap can break the property above.)
VersionsDiffer == \A s, t \in Sources : VersionOf[s] = VersionOf[t] => s = t

\* What runs, and what would run after a restart, enforces the key.
SoundInstall ==
    /\ CanStart(conf, link) => SourceOf(Python(conf, link)) \in Good
    /\ proc # NoProc => /\ SourceOf(proc.build) \in Good
                       /\ VersionOf[SourceOf(proc.build)] = VersionOf[SourceOf(Python(conf, link))]

KeyInForce == proc # NoProc => proc.conf.key = conf.key

\* A rollback ends with the very files and the very venv of before the run,
\* link or directory, from whatever step the switch had reached.
RollbackExact ==
    [][outcome' # outcome /\ outcome' \in {"rolled_back", "restored", "left"}
       => link' = run.before /\ conf' = run.saved]_vars

\* Why: what a finished undo has put back, and that nothing has to be put back
\* before anything was written.
RollbackInv ==
    /\ run.swapped => run.modified
    /\ phase \in {"prepared", "reading", "arming", "armed"} => ~run.modified
    /\ phase # "idle" /\ ~run.modified => conf = run.saved
    /\ phase \in {"restore_venv", "move_back", "restored", "restart_restored", "await"}
       => conf = run.saved
    /\ phase \in {"restored", "restart_restored", "await"} => link = run.before

\* The inductive form of EndsProvenOrStopped: what each phase knows of files and process.
EndsInv ==
    /\ outcome \in {"proved", "rolled_back", "left"} => phase = "idle" /\ SoundInstall
    /\ outcome \in {"proved", "rolled_back"} => KeyInForce
    /\ outcome = "stopped" => phase = "idle" /\ proc = NoProc /\ ~on /\ ~enabled
    /\ phase # "idle" => outcome = "none"
    /\ phase = "pruning" /\ run.policy = "restart" => SoundInstall /\ KeyInForce
    /\ phase \in {"enabling", "restarting", "proving"} => conf = Ours(run.key)
    /\ phase \in {"prepared", "reading", "arming", "armed", "swapping", "files"}
       => conf = run.saved
    /\ phase \in {"await", "restart_restored"} => run.policy = "restart"
    /\ phase = "finishing" => run.policy = "enable-only"
    /\ phase = "await" /\ run.modified => KeyInForce
    /\ phase # "idle" /\ run.new = 0 => run.before.kind # "none"
    /\ phase \in {"files", "enabling", "restarting", "proving"} => link.kind # "none"
    /\ phase = "disable" => proc = NoProc /\ ~on

\* "A switch ... that the unit has not started since ... left the files ahead
\* of the process: restart, never take it as unchanged."
NeverTakenAsUnchanged ==
    [][phase = "restarting" /\ phase' = "proving"
       => AsInstalled' \/ proc' = NoProc]_vars

=============================================================================
