------------------------- MODULE LinuxSwitchProofs -------------------------
(***************************************************************************)
(* Proofs about LinuxSwitch, for any sources, keys and versions and any    *)
(* number of runs, kills and crashes.                                      *)
(***************************************************************************)
EXTENDS SwitchMark, TLAPS

LEMMA TypeInit == Init => TypeOK
BY SwitchAssumption DEF Init, TypeOK, Procs, Confs, Links, RunVariables, Phases, Builds, System, NoProc, None,
    NoRun, NoLink, LinkTo, Directory, Legacy, Ours, Policies

\* What systemd starts is a process, and only of a unit that is on.
LEMMA StartedType ==
    ASSUME TypeOK, Started
    PROVE  on' \in BOOLEAN /\ proc' \in Procs /\ (proc' # NoProc => on')
<1>1. on' = (conf # None) /\ conf \in Confs
  BY DEF TypeOK, Started
<1>2. CASE CanStart(conf, link)
  <2>1. proc' = [build |-> Python(conf, link), conf |-> conf]
    BY <1>2 DEF Started
  <2>2. Python(conf, link) \in Builds \union {System}
    BY DEF Python, TypeOK, Links, NoLink
  <2>3. conf # None
    BY <1>2 DEF CanStart, None
  <2>4. QED
    BY <1>1, <2>1, <2>2, <2>3 DEF Procs
<1>3. CASE ~CanStart(conf, link)
  <2>1. proc' = NoProc
    BY <1>3 DEF Started
  <2>2. NoProc \in Procs
    BY DEF NoProc, None, Confs, System, Procs
  <2>3. QED
    BY <1>1, <2>1, <2>2
<1>4. QED
  BY <1>2, <1>3

LEMMA TypeStep == TypeOK /\ [Next]_vars => TypeOK'
<1> SUFFICES ASSUME TypeOK, [Next]_vars  PROVE TypeOK'
  OBVIOUS
<1>1. /\ MaxRuns \in Nat /\ MaxKills \in Nat /\ MaxCrashes \in Nat
      /\ NoLink \in Links
      /\ NoProc \in Procs
      /\ NoRun \in RunVariables
  BY SwitchAssumption DEF NoLink, Links, Procs, NoProc, None, Confs, NoRun, RunVariables, System, Policies
<1>3. ASSUME NEW policy \in Policies, NEW src \in Sources, NEW key \in Keys, BeginRun(policy, src, key)  PROVE TypeOK'
  <2> DEFINE new == IF IsCurrent(src) THEN 0 ELSE runs' + 1
  <2>1. runs' = runs + 1 /\ runs' \in 0..MaxRuns /\ new \in Builds \union {0}
    BY <1>1, <1>3 DEF BeginRun, TypeOK, Builds
  <2>2. run' = [NoRun EXCEPT !.policy = policy, !.key = key, !.new = new,
                             !.saved = conf, !.before = link]
    BY <1>3 DEF BeginRun
  <2>3. store' = store \union ({new} \ {0})
    BY <1>3 DEF BeginRun
  <2>4. source' = IF new = 0 THEN source ELSE [source EXCEPT ![new] = src]
    BY <1>3 DEF BeginRun
  <2>5. phase' = "prepared" /\ outcome' = "none"
        /\ UNCHANGED <<link, conf, pending, service, kills, crashes>>
    BY <1>3 DEF BeginRun
  <2> HIDE DEF new
  <2>6. run' \in RunVariables
    BY <1>1, <1>3, <2>1, <2>2 DEF TypeOK, RunVariables
  <2>7. store' \subseteq Builds /\ source' \in [Builds -> Sources]
    BY <1>3, <2>1, <2>3, <2>4 DEF TypeOK
  <2>8. QED
    BY <2>1, <2>5, <2>6, <2>7 DEF TypeOK, service, Phases
<1>4. CASE CheckMark
  <2>1. run' \in RunVariables
    <3>1. run \in RunVariables /\ (pending = "this") \in BOOLEAN
      BY DEF TypeOK
    <3>2. QED
      BY <3>1, <1>4 DEF CheckMark, RunVariables
  <2>2. QED
    BY <1>1, <1>4, <2>1 DEF CheckMark, TypeOK, disk, service, bounds, Phases
<1>5. CASE Mark
  BY <1>1, <1>5 DEF Mark, TypeOK, disk, service, bounds, Phases
<1>6. CASE AdoptDirectory
  <2>1. run' \in RunVariables
    BY <1>6 DEF AdoptDirectory, TypeOK
  <2>2. store' \subseteq Builds
    BY <1>6 DEF AdoptDirectory, TypeOK, Links, NoLink
  <2>3. QED
    BY <1>1, <1>6, <2>1, <2>2 DEF AdoptDirectory, TypeOK, service, bounds, Phases
<1>7. CASE SwapLink
  BY <1>1, <1>7 DEF SwapLink, TypeOK, disk, service, bounds, Phases, RunVariables, LinkTo, Links, Builds
<1>8. CASE WriteFiles
  <2>1. run' \in RunVariables
    <3> DEFINE differs == conf' # conf
    <3>1. /\ run \in RunVariables
          /\ (run.modified \/ differs) \in BOOLEAN
          /\ (run.changed \/ differs) \in BOOLEAN
      BY DEF TypeOK
    <3>2. run' = [run EXCEPT !.modified = run.modified \/ differs,
                             !.changed = run.changed \/ differs]
      BY <1>8 DEF WriteFiles
    <3> HIDE DEF differs
    <3>3. QED
      BY <3>1, <3>2 DEF RunVariables
  <2>2. QED
    BY <1>1, <1>8, <2>1 DEF WriteFiles, Ours, Confs, RunVariables, TypeOK, disk, service, bounds, Phases
<1>9. CASE Restart
  <2>1. on' \in BOOLEAN /\ proc' \in Procs /\ (proc' # NoProc => on')
    <3>1. CASE Started
      BY <3>1, StartedType
    <3>2. CASE on' = on /\ proc' = proc
      BY <3>2 DEF TypeOK
    <3>3. QED
      BY <1>9, <3>1, <3>2 DEF Restart
  <2>2. pending' \in {"absent", "this", "other"}
    BY <1>9 DEF Restart, Renewed, TypeOK
  <2>3. QED
    BY <1>1, <1>9, <2>1, <2>2 DEF Restart, TypeOK, disk, bounds, Phases
<1>10. CASE ProveHealth
  BY <1>1, <1>10 DEF ProveHealth, TypeOK, disk, service, bounds, Phases
<1>11. CASE HealthFailed
  BY <1>1, <1>11 DEF HealthFailed, TypeOK, disk, service, bounds, Phases
<1>12. CASE PruneBuilds
  BY <1>1, <1>12 DEF PruneBuilds, TypeOK, disk, service, bounds, Phases, Ended
<1>13. CASE RestoreFiles
  BY <1>1, <1>13 DEF RestoreFiles, TypeOK, disk, service, bounds, Phases, RunVariables
<1>14. CASE RemoveLink
  BY <1>1, <1>14 DEF RemoveLink, Adopted, TypeOK, disk, service, bounds, Phases
<1>15. CASE MoveBack
  BY <1>1, <1>15 DEF MoveBack, TypeOK, disk, service, bounds, Phases, Links, RunVariables
<1>16. CASE RestoreLink
  BY <1>1, <1>16 DEF RestoreLink, Adopted, TypeOK, disk, service, bounds, Phases, Links, RunVariables
<1>17. CASE RestoreMark
  BY <1>1, <1>17 DEF RestoreMark, TypeOK, disk, service, bounds, Phases, Ended, Unswapped
<1>18. CASE RestartRestored
  <2>1. Started
    BY <1>18 DEF RestartRestored
  <2>2. on' \in BOOLEAN /\ proc' \in Procs /\ (proc' # NoProc => on')
    BY <2>1, StartedType
  <2>3. QED
    BY <1>1, <1>18, <2>2 DEF RestartRestored, TypeOK, disk, service, bounds, Phases, Renewed
<1>19. CASE LeaveAsItRan
  BY <1>1, <1>19 DEF LeaveAsItRan, TypeOK, disk, service, bounds, Phases
<1>20. CASE NothingProven
  BY <1>1, <1>20 DEF NothingProven, TypeOK, disk, service, bounds, Phases
<1>21. CASE Stop
  BY <1>1, <1>21 DEF Stop, TypeOK, disk, service, bounds, Phases
<1>22. CASE Disable
  BY <1>1, <1>22 DEF Disable, TypeOK, disk, service, bounds, Phases, Ended, Unswapped
<1>23. CASE DisableOnly
  BY <1>1, <1>23 DEF DisableOnly, TypeOK, disk, service, bounds, Phases, Ended, Unswapped
<1>24. CASE GiveUp
  BY <1>1, <1>24 DEF GiveUp, TypeOK, disk, service, bounds, Phases, Ended
<1>25. CASE Interrupt
  BY <1>1, <1>25 DEF Interrupt, TypeOK, disk, service, bounds, Phases
<1>26. CASE Kill
  BY <1>1, <1>26 DEF Kill, TypeOK, disk, service, bounds, Phases, Ended
<1>27. CASE Reboot
  <2>1. on' \in BOOLEAN /\ proc' \in Procs /\ (proc' # NoProc => on')
    <3>1. CASE Started
      BY <3>1, StartedType
    <3>2. CASE on' = FALSE /\ proc' = NoProc
      BY <1>1, <3>2
    <3>3. QED
      BY <1>27, <3>1, <3>2 DEF Reboot
  <2>2. /\ phase' \in Phases /\ run' \in RunVariables
        /\ outcome' \in {"none", "proved", "staged", "rolled_back", "restored", "left", "stopped",
                        "disabled", "gave_up", "killed"}
    BY <1>1, <1>27 DEF Reboot, Ended, TypeOK, Phases
  <2>3. QED
    BY <1>1, <1>27, <2>1, <2>2 DEF Reboot, TypeOK, disk, Renewed
<1>28. CASE ServiceRestarts
  <2>1. Started
    BY <1>28 DEF ServiceRestarts
  <2>2. on' \in BOOLEAN /\ proc' \in Procs /\ (proc' # NoProc => on')
    BY <2>1, StartedType
  <2>3. QED
    BY <1>1, <1>28, <2>2 DEF ServiceRestarts, TypeOK, disk, service, bounds, Phases, Renewed
<1>29. ASSUME NEW answered \in BOOLEAN, PollRunning(answered)  PROVE TypeOK'
  <2>1. run' \in RunVariables
    <3>1. run \in RunVariables /\ (answered /\ Provable) \in BOOLEAN
      BY DEF TypeOK, Provable
    <3>2. QED
      BY <3>1, <1>29 DEF PollRunning, RunVariables
  <2>2. QED
    BY <1>1, <1>29, <2>1 DEF PollRunning, TypeOK, disk, service, bounds, Phases
<1>30. ASSUME NEW answered \in BOOLEAN, FinishEnableOnly(answered)  PROVE TypeOK'
  <2>1. run' \in RunVariables
    <3> DEFINE proven == ~run.changed /\ answered /\ Provable
    <3>1. run \in RunVariables /\ proven \in BOOLEAN
      BY DEF TypeOK
    <3>2. run' = [run EXCEPT !.proven = proven]
      BY <1>30 DEF FinishEnableOnly
    <3> HIDE DEF proven
    <3>3. QED
      BY <3>1, <3>2 DEF RunVariables
  <2>2. QED
    BY <1>1, <1>30, <2>1 DEF FinishEnableOnly, TypeOK, disk, service, bounds, Phases
<1>31. ASSUME NEW answered \in BOOLEAN, AwaitPrevious(answered)  PROVE TypeOK'
  BY <1>1, <1>31 DEF AwaitPrevious, TypeOK, disk, service, bounds, Phases, Ended, Unswapped
<1>32. ASSUME NEW gi \in GiLinks, KeepLink(gi)  PROVE TypeOK'
  <2>1. run' \in RunVariables
    <3>1. run \in RunVariables /\ (run.changed \/ gi = "linked") \in BOOLEAN
      BY DEF TypeOK
    <3>2. QED
      BY <3>1, <1>32 DEF KeepLink, RunVariables
  <2>2. QED
    BY <1>1, <1>32, <2>1 DEF KeepLink, TypeOK, disk, service, bounds, Phases
<1>33. ASSUME NEW ok \in BOOLEAN, Enable(ok)  PROVE TypeOK'
  BY <1>1, <1>33 DEF Enable, TypeOK, disk, service, bounds, Phases
<1>34. CASE UNCHANGED vars
  BY <1>34 DEF vars, disk, service, bounds, TypeOK
<1>35. CASE BeginSwap
  BY <1>35 DEF BeginSwap, TypeOK, disk, service, bounds, Phases, RunVariables
<1>36. QED
  BY <1>35, <1>3, <1>4, <1>5, <1>6, <1>7, <1>8, <1>9, <1>10, <1>11, <1>12, <1>13, <1>14, <1>15, <1>16, <1>17, <1>18, <1>19, <1>20, <1>21, <1>22, <1>23, <1>24, <1>25, <1>26, <1>27, <1>28, <1>29, <1>30, <1>31, <1>32, <1>33, <1>34 DEF Next, Undo

LEMMA SwitchInit == Init => SwitchInv
BY DEF Init, SwitchInv, LinkNeverDangles, NoRun, NoLink, LinkTo, Directory, System

LEMMA SwitchStep == TypeOK /\ SwitchInv /\ [Next]_vars => SwitchInv'
<1> SUFFICES ASSUME TypeOK, SwitchInv, [Next]_vars  PROVE SwitchInv'
  OBVIOUS
<1>1. runs \in Nat /\ link.build \in Nat /\ run.before.build \in Nat /\ run.new \in Nat
      /\ 0 \notin store
  BY SwitchAssumption DEF TypeOK, Links, NoLink, RunVariables, Builds, System
<1>2. ASSUME NEW policy \in Policies, NEW src \in Sources, NEW key \in Keys, BeginRun(policy, src, key)  PROVE SwitchInv'
  BY <1>1, <1>2 DEF BeginRun, IsCurrent, SwitchInv, LinkNeverDangles, disk, service, bounds, NoRun, NoLink, System, TypeOK, Builds, Links
<1>3. CASE CheckMark
  BY <1>1, <1>3 DEF CheckMark, SwitchInv, LinkNeverDangles, disk, service, bounds, TypeOK, RunVariables, Links, Builds, System
<1>4. CASE Mark
  BY <1>1, <1>4 DEF Mark, SwitchInv, LinkNeverDangles, disk, service, bounds
<1>5. CASE AdoptDirectory
  BY <1>1, <1>5 DEF AdoptDirectory, SwitchInv, LinkNeverDangles, disk, service, bounds, NoLink, System, TypeOK, RunVariables, Links, Builds
<1>6. CASE SwapLink
  BY <1>1, <1>6 DEF SwapLink, SwitchInv, LinkNeverDangles, disk, service, bounds, LinkTo, TypeOK, RunVariables, Links, Builds, System
<1>7. CASE WriteFiles
  BY <1>1, <1>7 DEF WriteFiles, SwitchInv, LinkNeverDangles, disk, service, bounds, TypeOK, RunVariables, Links, Builds, System
<1>8. CASE Restart
  BY <1>1, <1>8 DEF Restart, Started, CanStart, Python, Renewed, SwitchInv, LinkNeverDangles, disk, service, bounds
<1>9. CASE ProveHealth
  BY <1>1, <1>9 DEF ProveHealth, SwitchInv, LinkNeverDangles, disk, service, bounds
<1>10. CASE HealthFailed
  BY <1>1, <1>10 DEF HealthFailed, SwitchInv, LinkNeverDangles, disk, service, bounds
<1>11. CASE PruneBuilds
  BY <1>1, <1>11 DEF PruneBuilds, Ended, SwitchInv, LinkNeverDangles, disk, service, bounds, NoRun, NoLink, System, TypeOK, Builds, Links
<1>12. CASE RestoreFiles
  BY <1>1, <1>12 DEF RestoreFiles, Restores, SwitchInv, LinkNeverDangles, disk, service, bounds
<1>13. CASE RemoveLink
  BY <1>1, <1>13 DEF RemoveLink, Adopted, SwitchInv, LinkNeverDangles, disk, service, bounds, NoLink, System
<1>14. CASE MoveBack
  BY <1>1, <1>14 DEF MoveBack, SwitchInv, LinkNeverDangles, disk, service, bounds, TypeOK, RunVariables, Links, Builds, System
<1>15. CASE RestoreLink
  BY <1>1, <1>15 DEF RestoreLink, Adopted, SwitchInv, LinkNeverDangles, disk, service, bounds, TypeOK, RunVariables, Links, Builds, System
<1>16. CASE RestoreMark
  BY <1>1, <1>16 DEF RestoreMark, Ended, Unswapped, SwitchInv, LinkNeverDangles, disk, service, bounds, NoRun, NoLink, System, TypeOK, Builds, Links
<1>17. CASE RestartRestored
  BY <1>1, <1>17 DEF RestartRestored, Started, CanStart, Python, Renewed, SwitchInv, LinkNeverDangles, disk, service, bounds
<1>18. CASE LeaveAsItRan
  BY <1>1, <1>18 DEF LeaveAsItRan, SwitchInv, LinkNeverDangles, disk, service, bounds
<1>19. CASE NothingProven
  BY <1>1, <1>19 DEF NothingProven, SwitchInv, LinkNeverDangles, disk, service, bounds
<1>20. CASE Stop
  BY <1>1, <1>20 DEF Stop, SwitchInv, LinkNeverDangles, disk, service, bounds
<1>21. CASE Disable
  BY <1>1, <1>21 DEF Disable, Ended, Unswapped, SwitchInv, LinkNeverDangles, disk, service, bounds, NoRun, NoLink, System, TypeOK, Builds, Links
<1>22. CASE DisableOnly
  BY <1>1, <1>22 DEF DisableOnly, Ended, Unswapped, SwitchInv, LinkNeverDangles, disk, service, bounds, NoRun, NoLink, System, TypeOK, Builds, Links
<1>23. CASE GiveUp
  BY <1>1, <1>23 DEF GiveUp, Ended, SwitchInv, LinkNeverDangles, disk, service, bounds, NoRun, NoLink, System, TypeOK, Builds, Links
<1>24. CASE Interrupt
  BY <1>1, <1>24 DEF Interrupt, SwitchInv, LinkNeverDangles, disk, service, bounds
<1>25. CASE Kill
  BY <1>1, <1>25 DEF Kill, Ended, SwitchInv, LinkNeverDangles, disk, service, bounds, NoRun, NoLink, System, TypeOK, Builds, Links
<1>26. CASE Reboot
  BY <1>1, <1>26 DEF Reboot, Started, CanStart, Python, Renewed, Ended, SwitchInv, LinkNeverDangles, disk, service, bounds, NoRun, NoLink, System, TypeOK, Builds, Links
<1>27. CASE ServiceRestarts
  BY <1>1, <1>27 DEF ServiceRestarts, Started, CanStart, Python, Renewed, SwitchInv, LinkNeverDangles, disk, service, bounds
<1>28. ASSUME NEW answered \in BOOLEAN, PollRunning(answered)  PROVE SwitchInv'
  BY <1>1, <1>28 DEF PollRunning, SwitchInv, LinkNeverDangles, disk, service, bounds, TypeOK, RunVariables, Links, Builds, System
<1>29. ASSUME NEW answered \in BOOLEAN, FinishEnableOnly(answered)  PROVE SwitchInv'
  BY <1>1, <1>29 DEF FinishEnableOnly, SwitchInv, LinkNeverDangles, disk, service, bounds, TypeOK, RunVariables, Links, Builds, System
<1>30. ASSUME NEW answered \in BOOLEAN, AwaitPrevious(answered)  PROVE SwitchInv'
  BY <1>1, <1>30 DEF AwaitPrevious, Ended, Unswapped, SwitchInv, LinkNeverDangles, disk, service, bounds, NoRun, NoLink, System, TypeOK, Builds, Links
<1>31. ASSUME NEW gi \in GiLinks, KeepLink(gi)  PROVE SwitchInv'
  BY <1>1, <1>31 DEF KeepLink, SwitchInv, LinkNeverDangles, disk, service, bounds, TypeOK, RunVariables, Links, Builds, System
<1>32. ASSUME NEW ok \in BOOLEAN, Enable(ok)  PROVE SwitchInv'
  BY <1>1, <1>32 DEF Enable, SwitchInv, LinkNeverDangles, disk, service, bounds
<1>33. CASE UNCHANGED vars
  BY <1>1, <1>33 DEF vars, disk, service, bounds, SwitchInv, LinkNeverDangles, disk, service, bounds
<1>34. CASE BeginSwap
  BY <1>34 DEF BeginSwap, SwitchInv, LinkNeverDangles, TypeOK, RunVariables, disk, service, bounds
<1>35. QED
  BY <1>34, <1>2, <1>3, <1>4, <1>5, <1>6, <1>7, <1>8, <1>9, <1>10, <1>11, <1>12, <1>13, <1>14, <1>15, <1>16, <1>17, <1>18, <1>19, <1>20, <1>21, <1>22, <1>23, <1>24, <1>25, <1>26, <1>27, <1>28, <1>29, <1>30, <1>31, <1>32, <1>33 DEF Next, Undo

LEMMA RollbackInit == Init => RollbackInv
BY DEF Init, RollbackInv, NoRun

LEMMA RollbackStep == TypeOK /\ SwitchInv /\ RollbackInv /\ [Next]_vars => RollbackInv'
<1> SUFFICES ASSUME TypeOK, SwitchInv, RollbackInv, [Next]_vars  PROVE RollbackInv'
  OBVIOUS
<1>2. ASSUME NEW policy \in Policies, NEW src \in Sources, NEW key \in Keys, BeginRun(policy, src, key)  PROVE RollbackInv'
  BY <1>2 DEF BeginRun, NoRun, RollbackInv, disk, service, bounds
<1>3. CASE CheckMark
  BY <1>3 DEF CheckMark, TypeOK, RunVariables, RollbackInv, disk, service, bounds
<1>4. CASE Mark
  BY <1>4 DEF Mark, RollbackInv, disk, service, bounds
<1>5. CASE AdoptDirectory
  BY <1>5 DEF AdoptDirectory, TypeOK, RunVariables, RollbackInv, disk, service, bounds
<1>6. CASE SwapLink
  BY <1>6 DEF SwapLink, TypeOK, RunVariables, RollbackInv, disk, service, bounds
<1>7. CASE WriteFiles
  BY <1>7 DEF WriteFiles, TypeOK, RunVariables, RollbackInv, disk, service, bounds
<1>8. CASE Restart
  BY <1>8 DEF Restart, RollbackInv, disk, service, bounds
<1>9. CASE ProveHealth
  BY <1>9 DEF ProveHealth, RollbackInv, disk, service, bounds
<1>10. CASE HealthFailed
  BY <1>10 DEF HealthFailed, RollbackInv, disk, service, bounds
<1>11. CASE PruneBuilds
  BY <1>11 DEF PruneBuilds, Ended, NoRun, RollbackInv, disk, service, bounds
<1>12. CASE RestoreFiles
  BY <1>12 DEF RestoreFiles, Restores, SwitchInv, RollbackInv, disk, service, bounds
<1>13. CASE RemoveLink
  BY <1>13 DEF RemoveLink, Adopted, SwitchInv, RollbackInv, disk, service, bounds
<1>14. CASE MoveBack
  BY <1>14 DEF MoveBack, SwitchInv, RollbackInv, disk, service, bounds
<1>15. CASE RestoreLink
  BY <1>15 DEF RestoreLink, Adopted, SwitchInv, RollbackInv, disk, service, bounds
<1>16. CASE RestoreMark
  BY <1>16 DEF RestoreMark, Ended, NoRun, RollbackInv, disk, service, bounds
<1>17. CASE RestartRestored
  BY <1>17 DEF RestartRestored, RollbackInv, disk, service, bounds
<1>18. CASE LeaveAsItRan
  BY <1>18 DEF LeaveAsItRan, Restores, SwitchInv, RollbackInv, disk, service, bounds
<1>19. CASE NothingProven
  BY <1>19 DEF NothingProven, Restores, RollbackInv, disk, service, bounds
<1>20. CASE Stop
  BY <1>20 DEF Stop, RollbackInv, disk, service, bounds
<1>21. CASE Disable
  BY <1>21 DEF Disable, Ended, NoRun, RollbackInv, disk, service, bounds
<1>22. CASE DisableOnly
  BY <1>22 DEF DisableOnly, Ended, NoRun, RollbackInv, disk, service, bounds
<1>23. CASE GiveUp
  BY <1>23 DEF GiveUp, Ended, NoRun, RollbackInv, disk, service, bounds
<1>24. CASE Interrupt
  BY <1>24 DEF Interrupt, RollbackInv, disk, service, bounds
<1>25. CASE Kill
  BY <1>25 DEF Kill, Ended, NoRun, RollbackInv, disk, service, bounds
<1>26. CASE Reboot
  BY <1>26 DEF Reboot, Ended, NoRun, RollbackInv, disk, service, bounds
<1>27. CASE ServiceRestarts
  BY <1>27 DEF ServiceRestarts, RollbackInv, disk, service, bounds
<1>28. ASSUME NEW answered \in BOOLEAN, PollRunning(answered)  PROVE RollbackInv'
  BY <1>28 DEF PollRunning, TypeOK, RunVariables, RollbackInv, disk, service, bounds
<1>29. ASSUME NEW answered \in BOOLEAN, FinishEnableOnly(answered)  PROVE RollbackInv'
  BY <1>29 DEF FinishEnableOnly, TypeOK, RunVariables, RollbackInv, disk, service, bounds
<1>30. ASSUME NEW answered \in BOOLEAN, AwaitPrevious(answered)  PROVE RollbackInv'
  BY <1>30 DEF AwaitPrevious, Ended, NoRun, RollbackInv, disk, service, bounds
<1>31. ASSUME NEW gi \in GiLinks, KeepLink(gi)  PROVE RollbackInv'
  BY <1>31 DEF KeepLink, SwitchInv, TypeOK, RunVariables, RollbackInv, disk, service, bounds
<1>32. ASSUME NEW ok \in BOOLEAN, Enable(ok)  PROVE RollbackInv'
  BY <1>32 DEF Enable, RollbackInv, disk, service, bounds
<1>33. CASE UNCHANGED vars
  BY <1>33 DEF vars, disk, service, bounds, RollbackInv
<1>34. CASE BeginSwap
  BY <1>34 DEF BeginSwap, TypeOK, RunVariables, RollbackInv, disk, service, bounds
<1>35. QED
  BY <1>34, <1>2, <1>3, <1>4, <1>5, <1>6, <1>7, <1>8, <1>9, <1>10, <1>11, <1>12, <1>13, <1>14, <1>15, <1>16, <1>17, <1>18, <1>19, <1>20, <1>21, <1>22, <1>23, <1>24, <1>25, <1>26, <1>27, <1>28, <1>29, <1>30, <1>31, <1>32, <1>33 DEF Next, Undo

LEMMA RollbackAct ==
    TypeOK /\ SwitchInv /\ RollbackInv /\ [Next]_vars
    => [outcome' # outcome /\ outcome' \in {"rolled_back", "restored", "left"}
        => link' = run.before /\ conf' = run.saved]_vars
<1> SUFFICES ASSUME TypeOK, RollbackInv, Next,
                    outcome' # outcome, outcome' \in {"rolled_back", "restored", "left"}
             PROVE  link' = run.before /\ conf' = run.saved
  OBVIOUS
<1>1. CASE RestoreMark
  BY <1>1 DEF RestoreMark, RollbackInv
<1>2. ASSUME NEW answered \in BOOLEAN, AwaitPrevious(answered)
      PROVE  link' = run.before /\ conf' = run.saved
  BY <1>2 DEF AwaitPrevious, RollbackInv
<1>3. CASE ~RestoreMark /\ \A answered \in BOOLEAN : ~AwaitPrevious(answered)
  BY <1>3 DEF Next, Undo, Ended, BeginRun, CheckMark, PollRunning, FinishEnableOnly, Mark,
     BeginSwap, AdoptDirectory, SwapLink, KeepLink, WriteFiles, Enable, Restart, ProveHealth, HealthFailed,
     PruneBuilds, RestoreFiles, RemoveLink, MoveBack, RestoreLink, RestartRestored, LeaveAsItRan,
     NothingProven, Stop, Disable, DisableOnly, GiveUp, Interrupt, Kill, Reboot, ServiceRestarts
<1>4. QED
  BY <1>1, <1>2, <1>3

\* A step that leaves files and process alone keeps what they say.
LEMMA SoundKept ==
    ASSUME UNCHANGED <<link, source, conf, proc>>
    PROVE  (SoundInstall => SoundInstall') /\ (KeyInForce => KeyInForce')
BY DEF SoundInstall, KeyInForce, CanStart, Python, SourceOf

\* A service that starts from a sound install is as installed.
LEMMA SoundStarted ==
    ASSUME SoundInstall, Started, UNCHANGED <<link, source, conf>>
    PROVE  SoundInstall' /\ KeyInForce'
<1>1. CASE CanStart(conf, link)
  BY <1>1 DEF SoundInstall, KeyInForce, Started, CanStart, Python, SourceOf
<1>2. CASE ~CanStart(conf, link)
  BY <1>2 DEF SoundInstall, KeyInForce, Started, CanStart, Python, SourceOf
<1>3. QED
  BY <1>1, <1>2

\* prove_health and check_running_install establish it.
LEMMA SoundProven ==
    ASSUME VersionsDiffer, TypeOK, conf = Ours(run.key), link.kind # "none", Proves
    PROVE  SoundInstall /\ KeyInForce
<1>1. Python(conf, link) = link.build /\ conf.key = run.key
  BY DEF Python, Ours
<1>2. SourceOf(proc.build) \in Sources /\ SourceOf(link.build) \in Sources
  BY SwitchAssumption DEF TypeOK, Links, NoLink, Procs, SourceOf, System
<1>3. SourceOf(link.build) \in Good
  BY <1>2 DEF VersionsDiffer, Proves
<1>4. QED
  BY <1>1, <1>3 DEF SoundInstall, KeyInForce, Proves

LEMMA SoundAnswered ==
    ASSUME VersionsDiffer, TypeOK, conf = run.saved, Provable
    PROVE  SoundInstall
<1>1. Python(conf, link) \in Builds \union {System} /\ proc.build \in Builds \union {System}
  BY DEF Python, TypeOK, Links, NoLink, Procs
<1>2. SourceOf(proc.build) \in Sources /\ SourceOf(Python(conf, link)) \in Sources
  BY <1>1, SwitchAssumption DEF TypeOK, SourceOf, System
<1>3. SourceOf(Python(conf, link)) \in Good
  BY <1>2 DEF VersionsDiffer, Provable
<1>4. QED
  BY <1>3 DEF SoundInstall, Provable

LEMMA EndsInit == Init => EndsInv
BY DEF Init, EndsInv, NoRun

LEMMA EndsStep == VersionsDiffer /\ TypeOK /\ SwitchInv /\ RollbackInv /\ EndsInv /\ [Next]_vars => EndsInv'
<1> SUFFICES ASSUME VersionsDiffer, TypeOK, SwitchInv, RollbackInv, EndsInv, [Next]_vars  PROVE EndsInv'
  OBVIOUS
<1>2. ASSUME NEW policy \in Policies, NEW src \in Sources, NEW key \in Keys, BeginRun(policy, src, key)  PROVE EndsInv'
  <2>1. runs \in Nat
    BY SwitchAssumption DEF TypeOK
  <2>2. QED
    BY <1>2, <2>1 DEF BeginRun, NoRun, IsCurrent, EndsInv, disk, service, bounds
<1>3. CASE CheckMark
  BY <1>3 DEF CheckMark, TypeOK, RunVariables, EndsInv, disk, service, bounds
<1>4. CASE Mark
  BY <1>4 DEF Mark, EndsInv, disk, service, bounds
<1>5. CASE AdoptDirectory
  BY <1>5 DEF AdoptDirectory, LinkTo, TypeOK, RunVariables, EndsInv, disk, service, bounds
<1>6. CASE SwapLink
  BY <1>6 DEF SwapLink, LinkTo, TypeOK, RunVariables, EndsInv, disk, service, bounds
<1>7. CASE WriteFiles
  BY <1>7 DEF WriteFiles, TypeOK, RunVariables, EndsInv, disk, service, bounds
<1>8. CASE Restart
  BY <1>8 DEF Restart, Started, CanStart, Python, KeyInForce, SoundInstall, EndsInv, disk, service, bounds
<1>9. CASE ProveHealth
  <2>1. SoundInstall /\ KeyInForce
    BY <1>9, SoundProven DEF ProveHealth, EndsInv
  <2>2. SoundInstall' /\ KeyInForce'
    BY <1>9, <2>1, SoundKept DEF ProveHealth, disk, service
  <2>3. QED
    BY <1>9, <2>2 DEF ProveHealth, EndsInv, disk, service, bounds
<1>10. CASE HealthFailed
  BY <1>10 DEF HealthFailed, EndsInv, disk, service, bounds
<1>11. CASE PruneBuilds
  <2>1. run.policy = "restart" => SoundInstall' /\ KeyInForce'
    BY <1>11, SoundKept DEF PruneBuilds, EndsInv, service
  <2>2. QED
    BY <1>11, <2>1 DEF PruneBuilds, Ended, NoRun, EndsInv, service, bounds
<1>12. CASE RestoreFiles
  BY <1>12 DEF RestoreFiles, Restores, EndsInv, disk, service, bounds
<1>13. CASE RemoveLink
  BY <1>13 DEF RemoveLink, Adopted, EndsInv, disk, service, bounds
<1>14. CASE MoveBack
  BY <1>14 DEF MoveBack, EndsInv, disk, service, bounds
<1>15. CASE RestoreLink
  BY <1>15 DEF RestoreLink, Adopted, EndsInv, disk, service, bounds
<1>16. CASE RestoreMark
  BY <1>16 DEF RestoreMark, Ended, NoRun, EndsInv, disk, service, bounds
<1>17. CASE RestartRestored
  BY <1>17 DEF RestartRestored, Started, CanStart, Python, KeyInForce, SoundInstall, EndsInv, disk, service, bounds
<1>18. CASE LeaveAsItRan
  BY <1>18 DEF LeaveAsItRan, Restores, EndsInv, disk, service, bounds
<1>19. CASE NothingProven
  BY <1>19 DEF NothingProven, Restores, EndsInv, disk, service, bounds
<1>20. CASE Stop
  BY <1>20 DEF Stop, EndsInv, disk, service, bounds
<1>21. CASE Disable
  BY <1>21 DEF Disable, Ended, NoRun, EndsInv, disk, service, bounds
<1>22. CASE DisableOnly
  BY <1>22 DEF DisableOnly, Ended, NoRun, EndsInv, disk, service, bounds
<1>23. CASE GiveUp
  BY <1>23 DEF GiveUp, Ended, NoRun, EndsInv, disk, service, bounds
<1>24. CASE Interrupt
  BY <1>24 DEF Interrupt, EndsInv, disk, service, bounds
<1>25. CASE Kill
  BY <1>25 DEF Kill, Ended, NoRun, EndsInv, disk, service, bounds
<1>26. CASE Reboot
  <2>1. CASE enabled /\ Started
    <3>1. SoundInstall => SoundInstall' /\ KeyInForce'
      BY <1>26, <2>1, SoundStarted DEF Reboot, disk
    <3>2. QED
      BY <1>26, <2>1, <3>1 DEF Reboot, Ended, NoRun, EndsInv, disk
  <2>2. CASE ~enabled /\ on' = FALSE /\ proc' = NoProc
    <3>1. (SoundInstall => SoundInstall') /\ KeyInForce'
      BY <1>26, <2>2 DEF Reboot, disk, SoundInstall, KeyInForce, CanStart, Python, SourceOf
    <3>2. QED
      BY <1>26, <2>2, <3>1 DEF Reboot, Ended, NoRun, EndsInv, disk
  <2>3. QED
    BY <1>26, <2>1, <2>2 DEF Reboot
<1>27. CASE ServiceRestarts
  <2>1. on /\ Started /\ UNCHANGED <<link, source, conf, enabled, phase, run, outcome>>
    BY <1>27 DEF ServiceRestarts, disk
  <2>2. (SoundInstall => SoundInstall') /\ KeyInForce'
    <3>1. SoundInstall => SoundInstall'
      BY <2>1, SoundStarted
    <3>2. KeyInForce'
      BY <2>1 DEF KeyInForce, Started
    <3>3. QED
      BY <3>1, <3>2
  <2>3. QED
    BY <2>1, <2>2 DEF EndsInv
<1>28. ASSUME NEW answered \in BOOLEAN, PollRunning(answered)  PROVE EndsInv'
  BY <1>28 DEF PollRunning, TypeOK, RunVariables, EndsInv, disk, service, bounds
<1>29. ASSUME NEW answered \in BOOLEAN, FinishEnableOnly(answered)  PROVE EndsInv'
  BY <1>29 DEF FinishEnableOnly, TypeOK, RunVariables, EndsInv, disk, service, bounds
<1>30. ASSUME NEW answered \in BOOLEAN, AwaitPrevious(answered)  PROVE EndsInv'
  <2>1. CASE answered /\ Provable
    <3>1. phase = "await" /\ conf = run.saved /\ UNCHANGED <<link, source, conf, proc, on, enabled>>
      BY <1>30 DEF AwaitPrevious, RollbackInv, service
    <3>2. SoundInstall' /\ (run.modified => KeyInForce')
      BY <2>1, <3>1, SoundAnswered, SoundKept DEF EndsInv
    <3>3. phase' = "idle" /\ run' = NoRun
          /\ outcome' = IF run.modified THEN "rolled_back" ELSE "left"
      BY <1>30, <2>1 DEF AwaitPrevious, Ended
    <3>4. QED
      BY <3>2, <3>3 DEF EndsInv
  <2>2. CASE ~(answered /\ Provable)
    BY <1>30, <2>2 DEF AwaitPrevious, EndsInv, disk, service, bounds
  <2>3. QED
    BY <2>1, <2>2
<1>31. ASSUME NEW gi \in GiLinks, KeepLink(gi)  PROVE EndsInv'
  BY <1>31 DEF KeepLink, TypeOK, RunVariables, SwitchInv, EndsInv, disk, service, bounds
<1>32. ASSUME NEW ok \in BOOLEAN, Enable(ok)  PROVE EndsInv'
  BY <1>32 DEF Enable, TypeOK, RunVariables, Policies, EndsInv, disk, service, bounds
<1>33. CASE UNCHANGED vars
  <2>1. (SoundInstall => SoundInstall') /\ (KeyInForce => KeyInForce')
    BY <1>33, SoundKept DEF vars, disk, service
  <2>2. QED
    BY <1>33, <2>1 DEF vars, disk, service, bounds, EndsInv
<1>34. CASE BeginSwap
  BY <1>34 DEF BeginSwap, TypeOK, RunVariables, EndsInv, disk, service, bounds
<1>35. QED
  BY <1>34, <1>2, <1>3, <1>4, <1>5, <1>6, <1>7, <1>8, <1>9, <1>10, <1>11, <1>12, <1>13, <1>14, <1>15, <1>16, <1>17, <1>18, <1>19, <1>20, <1>21, <1>22, <1>23, <1>24, <1>25, <1>26, <1>27, <1>28, <1>29, <1>30, <1>31, <1>32, <1>33 DEF Next, Undo

----------------------------------------------------------------------------
(* A staged switch stays pending. *)

LEMMA FlagsInit == Init => FlagsInv
<1> SUFFICES ASSUME Init PROVE FlagsInv
  OBVIOUS
<1> QED
  BY DEF Init, FlagsInv, NoRun

LEMMA FlagsStep == TypeOK /\ SwitchInv /\ RollbackInv /\ FlagsInv /\ [Next]_vars => FlagsInv'
<1> SUFFICES ASSUME TypeOK, SwitchInv, RollbackInv, FlagsInv, [Next]_vars  PROVE FlagsInv'
  OBVIOUS
<1> USE DEF FlagsInv
<1>1. ASSUME NEW policy \in Policies, NEW src \in Sources, NEW key \in Keys, BeginRun(policy, src, key)
      PROVE FlagsInv'
  BY <1>1 DEF BeginRun, NoRun, TypeOK, RunVariables, disk, service
<1>2. CASE CheckMark
  <2> DEFINE marked == pending = "this"
  <2>1. run' = [run EXCEPT !.wasPending = marked, !.changed = marked] /\ run \in RunVariables
    BY <1>2 DEF CheckMark, TypeOK
  <2>2. phase = "prepared" /\ phase' = IF run.policy = "restart" THEN "reading" ELSE "arming"
    BY <1>2 DEF CheckMark
  <2>3. UNCHANGED <<conf, proc, outcome>> /\ ~run.modified /\ ~run.proven /\ ~run.swapped /\ conf = run.saved
    BY <1>2 DEF CheckMark, disk, service, SwitchInv, RollbackInv, FlagsInv
  <2> HIDE DEF marked
  <2> QED
    BY <2>1, <2>2, <2>3 DEF FlagsInv, RunVariables
<1>3. CASE Mark
  BY <1>3 DEF Mark, TypeOK, RunVariables, disk, service
<1>4. CASE AdoptDirectory
  BY <1>4 DEF AdoptDirectory, TypeOK, RunVariables, disk, service
<1>5. CASE SwapLink
  BY <1>5 DEF SwapLink, TypeOK, RunVariables, disk, service
<1>6. CASE WriteFiles
  BY <1>6 DEF WriteFiles, Ours, None, TypeOK, RunVariables, disk, service
<1>7. CASE Restart
  BY <1>7 DEF Restart, Started, CanStart, None, TypeOK, RunVariables, disk, service
<1>8. CASE ProveHealth
  BY <1>8 DEF ProveHealth, TypeOK, RunVariables, disk, service
<1>9. CASE HealthFailed
  BY <1>9 DEF HealthFailed, TypeOK, RunVariables, disk, service
<1>10. CASE PruneBuilds
  BY <1>10 DEF PruneBuilds, Ended, NoRun, TypeOK, RunVariables, disk, service
<1>11. CASE RestoreFiles
  BY <1>11 DEF RestoreFiles, Restores, TypeOK, RunVariables, disk, service
<1>12. CASE RemoveLink
  BY <1>12 DEF RemoveLink, TypeOK, RunVariables, disk, service
<1>13. CASE MoveBack
  BY <1>13 DEF MoveBack, TypeOK, RunVariables, disk, service
<1>14. CASE RestoreLink
  BY <1>14 DEF RestoreLink, TypeOK, RunVariables, disk, service
<1>15. CASE RestoreMark
  BY <1>15 DEF RestoreMark, Ended, NoRun, TypeOK, RunVariables, disk, service
<1>16. CASE RestartRestored
  BY <1>16 DEF RestartRestored, Started, CanStart, None, TypeOK, RunVariables, disk, service
<1>17. CASE LeaveAsItRan
  BY <1>17 DEF LeaveAsItRan, TypeOK, RunVariables, disk, service
<1>18. CASE NothingProven
  BY <1>18 DEF NothingProven, TypeOK, RunVariables, disk, service
<1>19. CASE Stop
  BY <1>19 DEF Stop, TypeOK, RunVariables, disk, service
<1>20. CASE Disable
  BY <1>20 DEF Disable, Ended, NoRun, TypeOK, RunVariables, disk, service
<1>21. CASE DisableOnly
  BY <1>21 DEF DisableOnly, Ended, NoRun, TypeOK, RunVariables, disk, service
<1>22. CASE GiveUp
  BY <1>22 DEF GiveUp, Ended, NoRun, TypeOK, RunVariables, disk, service
<1>23. CASE Interrupt
  BY <1>23 DEF Interrupt, TypeOK, RunVariables, disk, service
<1>24. CASE Kill
  BY <1>24 DEF Kill, Ended, NoRun, TypeOK, RunVariables, disk, service
<1>25. CASE Reboot
  BY <1>25 DEF Reboot, Ended, NoRun, Started, CanStart, None, TypeOK, RunVariables, disk, service
<1>26. CASE ServiceRestarts
  BY <1>26 DEF ServiceRestarts, Started, CanStart, None, TypeOK, RunVariables, disk, service
<1>27. ASSUME NEW answered \in BOOLEAN, PollRunning(answered)  PROVE FlagsInv'
  BY <1>27 DEF PollRunning, Provable, TypeOK, RunVariables, disk, service
<1>28. ASSUME NEW answered \in BOOLEAN, FinishEnableOnly(answered)  PROVE FlagsInv'
  BY <1>28 DEF FinishEnableOnly, Provable, TypeOK, RunVariables, disk, service
<1>29. ASSUME NEW answered \in BOOLEAN, AwaitPrevious(answered)  PROVE FlagsInv'
  BY <1>29 DEF AwaitPrevious, Ended, NoRun, TypeOK, RunVariables, disk, service
<1>30. ASSUME NEW gi \in GiLinks, KeepLink(gi)  PROVE FlagsInv'
  BY <1>30 DEF KeepLink, RollbackInv, TypeOK, RunVariables, disk, service
<1>31. ASSUME NEW ok \in BOOLEAN, Enable(ok)  PROVE FlagsInv'
  BY <1>31 DEF Enable, Policies, TypeOK, RunVariables, disk, service
<1>32. CASE UNCHANGED vars
  BY <1>32 DEF vars, TypeOK, RunVariables, disk, service
<1>33. CASE BeginSwap
  BY <1>33 DEF BeginSwap, TypeOK, RunVariables, disk, service
<1> QED
  BY <1>1, <1>2, <1>3, <1>4, <1>5, <1>6, <1>7, <1>8, <1>9, <1>10, <1>11, <1>12, <1>13, <1>14,
     <1>15, <1>16, <1>17, <1>18, <1>19, <1>20, <1>21, <1>22, <1>23, <1>24, <1>25, <1>26, <1>27,
     <1>28, <1>29, <1>30, <1>31, <1>32, <1>33 DEF Next, Undo

\* A step that leaves files and process alone keeps what they say of each other.
LEMMA FollowsKept ==
    ASSUME UNCHANGED <<link, conf, proc>>
    PROVE  Follows => Follows'
BY DEF Follows, AsInstalled, Python

LEMMA WasFollowingKept ==
    ASSUME proc' = proc, run'.saved = run.saved, run'.before = run.before
    PROVE  WasFollowing => WasFollowing'
BY DEF WasFollowing, Python

\* What systemd starts follows the files.
LEMMA FollowsStarted ==
    ASSUME Started, UNCHANGED <<link, conf>>
    PROVE  Follows'
BY DEF Follows, AsInstalled, Python, Started

\* What followed the files of before the run follows them when they are back, and conversely.
LEMMA FollowsBack ==
    ASSUME conf = run.saved, link = run.before
    PROVE  Follows <=> WasFollowing
BY DEF Follows, WasFollowing, AsInstalled, Python

\* Whatever systemd starts afresh, outside a switch, follows the files.
LEMMA AfreshStep ==
    ASSUME TypeOK, SwitchInv, RollbackInv, FlagsInv, [Next]_vars, StartsAfresh,
           ~(ServiceRestarts /\ Switching)
    PROVE  StagedParts'
<1> USE DEF StagedParts, MarkedOrFollows, FoundFollowing
<1>1. CASE ServiceRestarts
  <2>1. UNCHANGED <<link, conf, phase, run>> /\ Started /\ ~Switching
    BY <1>1 DEF ServiceRestarts, disk
  <2>2. Follows'
    BY <2>1, FollowsStarted
  <2>3. phase \in {"reading", "arming", "restored"} => conf = run.saved /\ link = run.before
    BY DEF RollbackInv, SwitchInv
  <2>4. phase \in {"reading", "arming", "restored"} => WasFollowing'
    BY <2>1, <2>2, <2>3 DEF Follows, WasFollowing, AsInstalled, Python
  <2>5. phase \in {"reading", "arming", "restarting", "proving", "finishing", "pruning", "restored",
                   "restart_restored", "await", "stop", "disable", "idle", "prepared"}
    BY <2>1 DEF TypeOK, Phases, Switching
  <2>6. run.policy = "enable-only" => phase \notin {"restarting", "proving", "restart_restored", "await", "stop", "disable"}
    BY DEF FlagsInv
  <2> QED
    BY <2>1, <2>2, <2>4, <2>5, <2>6
<1>2. CASE Reboot
  <2>1. Follows'
    <3>1. CASE Started
      BY <1>2, <3>1, FollowsStarted DEF Reboot, disk
    <3>2. CASE proc' = NoProc
      BY <3>2 DEF Follows
    <3> QED
      BY <1>2, <3>1, <3>2 DEF Reboot
  <2>2. phase' = "idle"
    BY <1>2 DEF Reboot, Ended
  <2> QED
    BY <2>1, <2>2
<1>3. CASE RestartRestored
  <2>1. Follows'
    BY <1>3, FollowsStarted DEF RestartRestored, disk
  <2>2. phase' = "await" /\ run' = run /\ run.policy = "restart"
    BY <1>3 DEF RestartRestored, FlagsInv
  <2> QED
    BY <2>1, <2>2
<1>4. CASE Restart /\ (run.changed \/ ~run.proven \/ proc = NoProc)
  <2>1. Started
    BY <1>4 DEF Restart
  <2>2. Follows'
    BY <1>4, <2>1, FollowsStarted DEF Restart, disk
  <2>3. phase' = "proving" /\ run' = run /\ run.policy = "restart"
    BY <1>4 DEF Restart, FlagsInv
  <2> QED
    BY <2>2, <2>3
<1> QED
  BY <1>1, <1>2, <1>3, <1>4 DEF StartsAfresh

LEMMA StagedStep ==
    ASSUME TypeOK, SwitchInv, RollbackInv, FlagsInv, StagedParts, [Next]_vars,
           ~(Kill /\ GoingBack), ~Reboot, ~ServiceRestarts
    PROVE  StagedParts'
<1> USE DEF StagedParts, MarkedOrFollows, FoundFollowing
<1>1. ASSUME NEW policy \in Policies, NEW src \in Sources, NEW key \in Keys, BeginRun(policy, src, key)
      PROVE StagedParts'
  <2>1. Follows => Follows'
    BY <1>1, FollowsKept DEF BeginRun, disk, service
  <2> QED
    BY <1>1, <2>1 DEF BeginRun, NoRun, FlagsInv, disk, service
<1>2. CASE CheckMark
  <2> DEFINE marked == pending = "this"
  <2>1. run' = [run EXCEPT !.wasPending = marked, !.changed = marked] /\ run \in RunVariables
    BY <1>2 DEF CheckMark, TypeOK
  <2>2. phase = "prepared" /\ phase' = IF run.policy = "restart" THEN "reading" ELSE "arming"
    BY <1>2 DEF CheckMark
  <2>3. UNCHANGED <<link, conf, pending, proc>> /\ run'.wasPending = marked
        /\ run'.saved = run.saved /\ run'.before = run.before /\ run'.policy = run.policy
    BY <1>2, <2>1 DEF CheckMark, disk, service, RunVariables
  <2>4. conf' = run'.saved /\ link' = run'.before
    BY <2>2, <2>3 DEF RollbackInv, SwitchInv
  <2>5. ~marked => Follows' /\ WasFollowing'
    BY <2>2, <2>3, <2>4, FollowsKept DEF Follows, WasFollowing, AsInstalled, Python
  <2> QED
    BY <2>2, <2>3, <2>5
<1>3. CASE Mark
  <2>1. (Follows => Follows') /\ (WasFollowing => WasFollowing')
    BY <1>3, FollowsKept, WasFollowingKept DEF Mark, TypeOK, RunVariables, disk, service
  <2> QED
    BY <1>3, <2>1 DEF Mark, FlagsInv, disk, service
<1>4. CASE AdoptDirectory
  <2>1. run.changed /\ (WasFollowing => WasFollowing')
    BY <1>4, WasFollowingKept DEF AdoptDirectory, SwitchInv, FlagsInv, service
  <2> QED
    BY <1>4, <2>1 DEF AdoptDirectory, FlagsInv, disk, service, TypeOK, RunVariables
<1>5. CASE SwapLink
  <2>1. run.changed /\ (WasFollowing => WasFollowing')
    BY <1>5, WasFollowingKept DEF SwapLink, SwitchInv, FlagsInv, service
  <2> QED
    BY <1>5, <2>1 DEF SwapLink, FlagsInv, disk, service, TypeOK, RunVariables
<1>6. CASE WriteFiles
  <2> DEFINE differs == conf' # conf
  <2>1. /\ run' = [run EXCEPT !.modified = run.modified \/ differs,
                                 !.changed = run.changed \/ differs]
        /\ run \in RunVariables
    BY <1>6 DEF WriteFiles, TypeOK
  <2>2. UNCHANGED <<link, pending, proc>> /\ phase = "files" /\ phase' = "enabling"
    BY <1>6 DEF WriteFiles, service
  <2> HIDE DEF differs
  <2>3. /\ run'.modified = (run.modified \/ differs) /\ run'.saved = run.saved /\ run'.before = run.before
        /\ run'.policy = run.policy /\ run'.wasPending = run.wasPending
        /\ ~run'.changed => ~run.changed /\ ~differs
    BY <2>1 DEF RunVariables
  <2>4. ~differs /\ Follows => Follows'
    BY <2>2, FollowsKept DEF differs
  <2>5. WasFollowing => WasFollowing'
    BY <2>2, <2>3, WasFollowingKept
  <2> QED
    BY <2>2, <2>3, <2>4, <2>5
<1>7. CASE Restart
  <2>1. /\ run' = run /\ run.policy = "restart" /\ phase' = "proving"
        /\ (~run.changed => ~run.wasPending)
    BY <1>7 DEF Restart, FlagsInv
  <2>2. CASE Started
    <3>1. Follows'
      BY <1>7, <2>2, FollowsStarted DEF Restart, disk
    <3> QED
      BY <2>1, <3>1
  <2>3. CASE ~run.changed /\ UNCHANGED <<on, proc, pending>>
    <3>1. Follows
      BY <1>7, <2>1, <2>3 DEF Restart
    <3>2. Follows'
      BY <1>7, <2>3, <3>1, FollowsKept DEF Restart, disk
    <3> QED
      BY <2>1, <3>2
  <2> QED
    BY <1>7, <2>2, <2>3 DEF Restart
<1>8. CASE ProveHealth
  <2>1. (Follows => Follows') /\ (WasFollowing => WasFollowing')
    BY <1>8, FollowsKept, WasFollowingKept DEF ProveHealth, TypeOK, RunVariables, disk, service
  <2> QED
    BY <1>8, <2>1 DEF ProveHealth, FlagsInv, disk, service
<1>9. CASE HealthFailed
  <2>1. (Follows => Follows') /\ (WasFollowing => WasFollowing')
    BY <1>9, FollowsKept, WasFollowingKept DEF HealthFailed, TypeOK, RunVariables, disk, service
  <2> QED
    BY <1>9, <2>1 DEF HealthFailed, FlagsInv, disk, service
<1>10. CASE PruneBuilds
  <2>1. Follows => Follows'
    BY <1>10, FollowsKept DEF PruneBuilds, disk, service
  <2> QED
    BY <1>10, <2>1 DEF PruneBuilds, Ended, NoRun, FlagsInv, disk, service
<1>11. CASE RestoreFiles
  <2>1. WasFollowing => WasFollowing'
    BY <1>11, WasFollowingKept DEF RestoreFiles, service
  <2>2. ~run.changed /\ Follows => Follows'
    BY <1>11, FollowsKept DEF RestoreFiles, FlagsInv, service
  <2> QED
    BY <1>11, <2>1, <2>2 DEF RestoreFiles, FlagsInv, disk, service, TypeOK, RunVariables
<1>12. CASE RemoveLink
  <2>1. run.changed /\ (WasFollowing => WasFollowing')
    BY <1>12, WasFollowingKept DEF RemoveLink, SwitchInv, FlagsInv, service
  <2> QED
    BY <1>12, <2>1 DEF RemoveLink, FlagsInv, disk, service, TypeOK, RunVariables
<1>13. CASE MoveBack
  <2>1. run.changed /\ (WasFollowing => WasFollowing')
    BY <1>13, WasFollowingKept DEF MoveBack, SwitchInv, FlagsInv, service
  <2> QED
    BY <1>13, <2>1 DEF MoveBack, FlagsInv, disk, service, TypeOK, RunVariables
<1>14. CASE RestoreLink
  <2>1. run.changed /\ (WasFollowing => WasFollowing')
    BY <1>14, WasFollowingKept DEF RestoreLink, SwitchInv, FlagsInv, service
  <2> QED
    BY <1>14, <2>1 DEF RestoreLink, FlagsInv, disk, service, TypeOK, RunVariables
<1>15. CASE RestoreMark
  <2>1. phase = "restored" /\ conf = run.saved /\ link = run.before /\ UNCHANGED <<link, conf, proc>>
    BY <1>15 DEF RestoreMark, RollbackInv, service
  <2>2. (Follows <=> WasFollowing) /\ (Follows => Follows')
    BY <2>1, FollowsBack, FollowsKept
  <2>3. CASE run.policy = "restart" /\ phase' = "restart_restored" /\ run' = run
    <3>1. FoundFollowing'
      BY <2>1, <2>2, <2>3
    <3> QED
      BY <2>3, <3>1
  <2>4. CASE run.policy = "enable-only" /\ phase' = "idle"
    <3>1. CASE run.wasPending
      <4>1. pending' = pending /\ (Follows \/ pending = "this")
        BY <1>15, <2>1, <2>4, <3>1 DEF RestoreMark
      <4> QED
        BY <2>2, <2>4, <4>1
    <3>2. CASE ~run.wasPending
      <4>1. Follows'
        BY <2>1, <2>2, <2>4, <3>2
      <4> QED
        BY <2>4, <4>1
    <3> QED
      BY <3>1, <3>2
  <2> QED
    BY <1>15, <2>3, <2>4 DEF RestoreMark, Ended
<1>16. CASE RestartRestored
  <2>1. Follows'
    BY <1>16, FollowsStarted DEF RestartRestored, disk
  <2> QED
    BY <1>16, <2>1 DEF RestartRestored, FlagsInv
<1>17. CASE LeaveAsItRan
  <2>1. (Follows => Follows') /\ (WasFollowing => WasFollowing')
    BY <1>17, FollowsKept, WasFollowingKept DEF LeaveAsItRan, TypeOK, RunVariables, disk, service
  <2> QED
    BY <1>17, <2>1 DEF LeaveAsItRan, FlagsInv, disk, service
<1>18. CASE NothingProven
  <2>1. (Follows => Follows') /\ (WasFollowing => WasFollowing')
    BY <1>18, FollowsKept, WasFollowingKept DEF NothingProven, TypeOK, RunVariables, disk, service
  <2> QED
    BY <1>18, <2>1 DEF NothingProven, FlagsInv, disk, service
<1>19. CASE Stop
  <2>1. Follows' /\ WasFollowing'
    BY <1>19 DEF Stop, Follows, WasFollowing
  <2> QED
    BY <1>19, <2>1 DEF Stop, FlagsInv
<1>20. CASE Disable
  <2>1. Follows'
    BY <1>20, FollowsKept DEF Disable, disk
  <2> QED
    BY <1>20, <2>1 DEF Disable, Ended
<1>21. CASE DisableOnly
  <2>1. Follows => Follows'
    BY <1>21, FollowsKept DEF DisableOnly, disk, service
  <2> QED
    BY <1>21, <2>1 DEF DisableOnly, Ended, NoRun, FlagsInv, disk, service
<1>22. CASE GiveUp
  <2>1. Follows => Follows'
    BY <1>22, FollowsKept DEF GiveUp, disk, service
  <2> QED
    BY <1>22, <2>1 DEF GiveUp, Ended, NoRun, FlagsInv, disk, service
<1>23. CASE Interrupt
  <2>1. (Follows => Follows') /\ (WasFollowing => WasFollowing')
    BY <1>23, FollowsKept, WasFollowingKept DEF Interrupt, TypeOK, RunVariables, disk, service
  <2> QED
    BY <1>23, <2>1 DEF Interrupt, FlagsInv, disk, service
<1>24. ASSUME NEW answered \in BOOLEAN, PollRunning(answered)  PROVE StagedParts'
  <2>1. (Follows => Follows') /\ (WasFollowing => WasFollowing')
    BY <1>24, FollowsKept, WasFollowingKept DEF PollRunning, TypeOK, RunVariables, disk, service
  <2> QED
    BY <1>24, <2>1 DEF PollRunning, Provable, FlagsInv, disk, service, TypeOK, RunVariables
<1>25. ASSUME NEW answered \in BOOLEAN, FinishEnableOnly(answered)  PROVE StagedParts'
  <2>1. (Follows => Follows') /\ (WasFollowing => WasFollowing')
    BY <1>25, FollowsKept, WasFollowingKept DEF FinishEnableOnly, TypeOK, RunVariables, disk,
       service
  <2> QED
    BY <1>25, <2>1 DEF FinishEnableOnly, Provable, FlagsInv, disk, service, TypeOK, RunVariables
<1>26. ASSUME NEW answered \in BOOLEAN, AwaitPrevious(answered)  PROVE StagedParts'
  <2>1. Follows => Follows'
    BY <1>26, FollowsKept DEF AwaitPrevious, disk, service
  <2> QED
    BY <1>26, <2>1 DEF AwaitPrevious, Ended, NoRun, FlagsInv, disk, service
<1>27. ASSUME NEW gi \in GiLinks, KeepLink(gi)  PROVE StagedParts'
  <2>1. (Follows => Follows') /\ (WasFollowing => WasFollowing')
    BY <1>27, FollowsKept, WasFollowingKept DEF KeepLink, TypeOK, RunVariables, disk, service
  <2>2. /\ phase = "armed" /\ phase' = "files" /\ UNCHANGED <<pending, proc>>
        /\ run' = [run EXCEPT !.modified = gi # "none", !.changed = run.changed \/ gi = "linked"]
        /\ run \in RunVariables
    BY <1>27 DEF KeepLink, TypeOK, service
  <2>3. /\ run'.policy = run.policy /\ run'.wasPending = run.wasPending /\ run'.saved = run.saved
        /\ ~run'.changed => ~run.changed
    BY <2>2 DEF RunVariables
  <2> QED
    BY <2>1, <2>2, <2>3
<1>28. ASSUME NEW ok \in BOOLEAN, Enable(ok)  PROVE StagedParts'
  <2>1. (Follows => Follows') /\ (WasFollowing => WasFollowing')
    BY <1>28, FollowsKept, WasFollowingKept DEF Enable, TypeOK, RunVariables, disk, service
  <2> QED
    BY <1>28, <2>1 DEF Enable, Policies, FlagsInv, disk, service
<1>29. CASE UNCHANGED vars
  <2>1. (Follows => Follows') /\ (WasFollowing => WasFollowing')
    BY <1>29, FollowsKept, WasFollowingKept DEF vars, TypeOK, RunVariables, disk, service
  <2> QED
    BY <1>29, <2>1 DEF vars, FlagsInv, disk, service
<1>31. CASE Kill
  <2>1. Follows => Follows'
    BY <1>31, FollowsKept DEF Kill, disk, service
  <2>2. phase \in {"restore_venv", "move_back", "restored", "restart_restored"} => run.policy = "enable-only"
    BY <1>31 DEF GoingBack, TypeOK, RunVariables, Policies
  <2>3. phase' = "idle" /\ pending' = pending /\ phase # "restart_restored"
    BY <1>31, <2>2 DEF Kill, Ended, FlagsInv
  <2> QED
    BY <2>1, <2>2, <2>3
<1>30. CASE BeginSwap
  <2>1. (Follows => Follows') /\ (WasFollowing => WasFollowing')
    BY <1>30, FollowsKept, WasFollowingKept DEF BeginSwap, TypeOK, RunVariables, disk, service
  <2> QED
    BY <1>30, <2>1 DEF BeginSwap, FlagsInv, disk, service, TypeOK, RunVariables
<1> QED
  BY <1>1, <1>2, <1>3, <1>4, <1>5, <1>6, <1>7, <1>8, <1>9, <1>10, <1>11, <1>12, <1>13, <1>14,
     <1>15, <1>16, <1>17, <1>18, <1>19, <1>20, <1>21, <1>22, <1>23, <1>24, <1>25, <1>26, <1>27,
     <1>28, <1>29, <1>30, <1>31 DEF Next, Undo

----------------------------------------------------------------------------
(* The theorems. *)

\* Type correctness, for any number of runs, kills and crashes.
THEOREM TypeCorrect == Spec => []TypeOK
<1>1. Init => TypeOK
  BY TypeInit
<1>2. TypeOK /\ [Next]_vars => TypeOK'
  BY TypeStep
<1>3. QED
  BY <1>1, <1>2, PTL DEF Spec

\* The venv link never points at a build that is gone (swap_venv, restore_venv
\* and prune_builds of the Linux installer), whatever kills, reboots and runs
\* follow each other.
THEOREM LinkCorrect == Spec => []LinkNeverDangles
<1>1. SwitchInv => LinkNeverDangles
  BY DEF SwitchInv
<1>2. QED
  BY TypeCorrect, SwitchInit, SwitchStep, <1>1, PTL DEF Spec

\* A run that ends by going back has the link and the files of before it
\* (restore_previous, restore_venv).
THEOREM RollbackCorrect == Spec => RollbackExact
<1>1. Spec => [](TypeOK /\ SwitchInv /\ RollbackInv)
  BY TypeCorrect, SwitchInit, SwitchStep, RollbackInit, RollbackStep, PTL DEF Spec
<1>2. QED
  BY <1>1, RollbackAct, PTL DEF Spec, RollbackExact

\* When every version is another source: a restart run that nothing killed
\* leaves a process of the installed version that enforces the key, or a
\* stopped and disabled service (prove_health, undo_switch, stop_unproven),
\* also when it follows runs that were killed anywhere.
THEOREM EndsCorrect ==
    ASSUME VersionsDiffer
    PROVE  Spec => []EndsProvenOrStopped
<1>1. TypeOK /\ SwitchInv /\ RollbackInv /\ EndsInv /\ [Next]_vars => EndsInv'
  BY EndsStep
<1>2. EndsInv => EndsProvenOrStopped
  BY DEF EndsInv, EndsProvenOrStopped, SoundInstall, KeyInForce
<1>3. QED
  BY TypeCorrect, SwitchInit, SwitchStep, RollbackInit, RollbackStep, EndsInit,
     <1>1, <1>2, PTL DEF Spec

\* An enable-only run of the Linux installer leaves the mark of a pending switch as long as the
\* process is not what the files say, whatever runs of either kind, finished, undone, given up or
\* killed, and whatever crashes and reboots come before it (PENDING_FILE in 90-main.sh and
\* 40-switch.sh); unless, since that process started, a crash renewed the InvocationID in the
\* middle of a switch, or a kill ended a rollback before its restart.
THEOREM StagedCorrect == MarkSpec => []StagedStaysPending
<1> DEFINE StagedInv == FlagsInv /\ (~lapsed => StagedParts)
<1>1. MarkSpec => Spec
  <2>1. MarkInit => Init
    BY DEF MarkInit
  <2>2. [MarkNext]_<<vars, lapsed>> => [Next]_vars
    BY DEF MarkNext
  <2> QED
    BY <2>1, <2>2, PTL DEF MarkSpec, Spec
<1>2. Spec => [](TypeOK /\ SwitchInv /\ RollbackInv)
  BY TypeCorrect, SwitchInit, SwitchStep, RollbackInit, RollbackStep, PTL DEF Spec
<1>3. MarkInit => StagedInv
  BY FlagsInit DEF MarkInit, Init, StagedParts, MarkedOrFollows, FoundFollowing, Follows, AsInstalled,
     Python, Legacy, Ours, NoLink, LinkTo, Directory, System, NoRun
<1>4. TypeOK /\ SwitchInv /\ RollbackInv /\ StagedInv /\ [MarkNext]_<<vars, lapsed>> => StagedInv'
  <2> SUFFICES ASSUME TypeOK, SwitchInv, RollbackInv, FlagsInv, ~lapsed => StagedParts,
                      [MarkNext]_<<vars, lapsed>>
               PROVE  StagedInv'
    OBVIOUS
  <2>1. [Next]_vars
    BY DEF MarkNext
  <2>2. FlagsInv'
    BY <2>1, FlagsStep
  <2>3. ASSUME ~lapsed'  PROVE StagedParts'
    <3>1. CASE MarkNext
      <4>1. lapsed' = (Lapses \/ (lapsed /\ ~StartsAfresh))
        BY <3>1 DEF MarkNext
      <4>2. ~Lapses /\ (lapsed => StartsAfresh)
        BY <2>3, <4>1
      <4>3. ~(ServiceRestarts /\ Switching) /\ ~(Kill /\ GoingBack)
        BY <4>2 DEF Lapses
      <4>4. CASE StartsAfresh
        BY <2>1, <4>3, <4>4, AfreshStep
      <4>5. CASE ~StartsAfresh
        <5>1. ~Reboot /\ ~ServiceRestarts /\ StagedParts
          BY <4>2, <4>5 DEF StartsAfresh
        <5> QED
          BY <2>1, <4>3, <5>1, StagedStep
      <4> QED
        BY <4>4, <4>5
    <3>2. CASE UNCHANGED <<vars, lapsed>>
      <4>1. StagedParts /\ UNCHANGED <<link, conf, proc, phase, run, pending>>
        BY <2>3, <3>2 DEF vars, disk, service
      <4> QED
        BY <4>1 DEF StagedParts, MarkedOrFollows, FoundFollowing, Follows, WasFollowing, AsInstalled,
           Python
    <3> QED
      BY <3>1, <3>2
  <2> QED
    BY <2>2, <2>3
<1>5. StagedInv => StagedStaysPending
  BY DEF StagedStaysPending, StagedParts, MarkedOrFollows, Follows, FlagsInv
<1> HIDE DEF StagedInv
<1> QED
  BY <1>1, <1>2, <1>3, <1>4, <1>5, PTL DEF MarkSpec

=============================================================================
