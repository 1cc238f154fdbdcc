----------------------------- MODULE SwitchMark -----------------------------
(***************************************************************************)
(* What the pending mark of the Linux installer is for (90-main.sh,        *)
(* 40-switch.sh): no later run takes a process for current that the files  *)
(* have left behind.  The switch, with one history variable that no step   *)
(* reads.                                                                  *)
(***************************************************************************)
EXTENDS LinuxSwitch

VARIABLE
    lapsed    \* the mark has lost track of the process that runs now

\* The run has marked the switch and may still write, or put back, files.
Switching == phase \in {"armed", "swapping", "files", "enabling", "undo", "restore_venv", "move_back"}

\* A restart run has put files back over those its failed restart started.
GoingBack == /\ run.policy = "restart"
             /\ phase \in {"restore_venv", "move_back", "restored", "restart_restored"}

\* The code's two gaps: a crash renews the InvocationID in the middle of a
\* switch, or a kill ends a rollback before its restart.
Lapses == \/ ServiceRestarts /\ Switching
          \/ Kill /\ GoingBack

\* systemd starts what the files say.
StartsAfresh == \/ ServiceRestarts \/ Reboot \/ RestartRestored
                \/ Restart /\ (run.changed \/ ~run.proven \/ proc = NoProc)

MarkInit == Init /\ lapsed = FALSE

MarkNext == Next /\ lapsed' = (Lapses \/ (lapsed /\ ~StartsAfresh))

MarkSpec == MarkInit /\ [][MarkNext]_<<vars, lapsed>>

\* What runs is what the files say, or what they said before this run.
Follows == proc # NoProc => AsInstalled
WasFollowing ==
    proc # NoProc => proc = [build |-> Python(run.saved, run.before), conf |-> run.saved]

\* What a run's flags say of each other, of its policy and of its files.
FlagsInv ==
    /\ phase # "idle" => outcome = "none"
    /\ phase \in {"restarting", "proving", "restart_restored", "await", "stop", "disable"}
       => run.policy = "restart"
    /\ phase = "finishing" => run.policy = "enable-only"
    /\ run.wasPending \/ run.swapped => run.changed
    /\ run.changed => run.wasPending \/ run.modified
    /\ phase # "idle" /\ ~run.changed => conf = run.saved
    /\ phase \in {"prepared", "reading"} => ~run.proven
    /\ run.proven => run.saved # None /\ ~run.wasPending

\* Who may leave files that the process does not follow: nobody whose mark is not there.
MarkedOrFollows ==
    /\ phase \notin {"restore_venv", "move_back", "restored", "restart_restored"}
       => Follows \/ pending = "this"
    /\ phase \in {"armed", "swapping", "files", "enabling"} => pending = "this"
    /\ run.policy = "enable-only" /\ phase \in {"undo", "restore_venv", "move_back"}
       => pending = "this"
    /\ run.policy = "enable-only" /\ phase = "restored" => Follows \/ pending = "this"
    /\ phase \in {"proving", "await", "disable"} => Follows

\* An unmarked run found a process that followed the files, and follows them until they are changed.
FoundFollowing ==
    phase \notin {"idle", "prepared"} /\ ~run.wasPending =>
      /\ ~run.changed => Follows
      /\ run.policy = "enable-only" /\ phase \notin {"finishing", "pruning"} => WasFollowing

\* Why, as long as the mark has not lapsed.
StagedParts == MarkedOrFollows /\ FoundFollowing

\* An enable-only run leaves the mark as long as the process is not what the
\* files say, whatever runs, kills, crashes and reboots came before it, unless
\* one of the two gaps was hit since that process started.
StagedStaysPending ==
    outcome = "staged" /\ ~lapsed /\ proc # NoProc /\ ~AsInstalled => pending = "this"

=============================================================================
