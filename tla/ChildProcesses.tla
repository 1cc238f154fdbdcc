--------------------------- MODULE ChildProcesses ---------------------------
(* One child of the server on POSIX (platform/command.py; Shell and the desktop helpers run through
   it): the child leads a session and a process group of its own, may start processes that stay in
   the group, leave it (setsid), keep the pipe open or ignore SIGTERM, and a child that outlives
   its timeout is killed with its group.  The kernel gives a process id to a new process only when
   nothing - no process, no zombie, no group - still bears it; the processes of other users come
   and go beside the call.  tools/shell.py refuses a directory that is not one before any of this.

   KillProcess and ListProcesses (process_mgr.py) act on an id looked up in the same call. *)
EXTENDS Naturals, FiniteSets

CONSTANTS Pids, Leader   \* the ids the kernel hands out; the one the child will get

ASSUME ChildAssumption == Leader \in Pids

VARIABLES
  proc,       \* by id: the process that bears it
  server,     \* what run_child is doing
  members,    \* the group's members, as scanned before the first signal
  answer,     \* how the call ended
  struck      \* history: someone else's process received a signal of the server

childVars == <<proc, server, members, answer, struck>>

Free == [state |-> "free", owner |-> "nobody", group |-> Leader, pipe |-> FALSE, stubborn |-> FALSE]
Alive(p) == proc[p].state = "running"
Bears(g) == {p \in Pids : proc[p].state # "free" /\ proc[p].group = g}
Group == {p \in Bears(Leader) : Alive(p)}
Unused(p) == proc[p].state = "free" /\ Bears(p) = {}
PipeOpen == \E p \in Pids : Alive(p) /\ proc[p].pipe

-----------------------------------------------------------------------------
(* The kernel, the child's own doings and other users. *)

Run(p, owner, group, pipe, stubborn) ==
  proc' = [proc EXCEPT ![p] = [state |-> "running", owner |-> owner, group |-> group,
                               pipe |-> pipe, stubborn |-> stubborn]]

\* A process of the call forks; the new one may leave the group, close the pipe, ignore SIGTERM.
Fork ==
  /\ \E parent, p \in Pids :
       /\ Alive(parent) /\ proc[parent].owner = "call" /\ Unused(p)
       /\ \E group \in {proc[parent].group, p}, pipe \in {proc[parent].pipe, FALSE},
             stubborn \in BOOLEAN :
            Run(p, "call", group, pipe, stubborn)
  /\ UNCHANGED <<server, members, answer, struck>>

\* Someone else's process, in a group of its own.
Stranger ==
  /\ \E p \in Pids : Unused(p) /\ Run(p, "stranger", p, FALSE, FALSE)
  /\ UNCHANGED <<server, members, answer, struck>>

\* The server's child stays a zombie until the server waits for it; init reaps the others.
Dead(p) == IF p = Leader /\ proc[p].owner = "call" THEN [proc[p] EXCEPT !.state = "zombie"] ELSE Free
Exit ==
  /\ \E p \in Pids : Alive(p) /\ proc' = [proc EXCEPT ![p] = Dead(p)]
  /\ UNCHANGED <<server, members, answer, struck>>

-----------------------------------------------------------------------------
(* run_child. *)

Spawn ==
  /\ server = "ready"
  /\ Unused(Leader) /\ Run(Leader, "call", Leader, TRUE, FALSE)
  /\ server' = "waiting"
  /\ UNCHANGED <<members, answer, struck>>

\* Shell's working directory is not one, or the program is missing: nothing runs.
RefuseShell ==
  /\ server = "ready"
  /\ server' = "over" /\ answer' = "failed"
  /\ UNCHANGED <<proc, members, struck>>

Reaped == [proc EXCEPT ![Leader] = IF @.state = "zombie" /\ @.owner = "call" THEN Free ELSE @]

\* communicate() returns: the pipes are at their end and the child is waited for.
Finished ==
  /\ server = "waiting" /\ ~PipeOpen /\ proc[Leader].state = "zombie"
  /\ proc' = Reaped
  /\ server' = "over" /\ answer' = "output"
  /\ UNCHANGED <<members, struck>>

\* The timeout, or an interrupt while waiting; the members are read before any signal, and a scan
\* that fails finds none.
TimeOut ==
  /\ server = "waiting"
  /\ members' \in {Bears(Leader), {}}
  /\ server' = "term"
  /\ UNCHANGED <<proc, answer, struck>>

\* A signal to a group reaches exactly its running members at that moment: all are taken to run as
\* the server's user.  (One that sudo made another user's gets no signal, and killpg's error, if there
\* is one, is passed over.)
Signalled(mortals) ==
  /\ proc' = [p \in Pids |-> IF p \in Group \cap mortals THEN Dead(p) ELSE proc[p]]
  /\ struck' = (struck \/ \E p \in Group : proc[p].owner = "stranger")

Obedient == {p \in Pids : ~proc[p].stubborn}

Terminate ==
  /\ server = "term"
  /\ Signalled(Obedient)
  /\ server' = "grace"
  /\ UNCHANGED <<members, answer>>

\* Mutant: the wait reaps the leader before the group is killed.
GraceReaps ==
  /\ server = "grace"
  /\ proc' = Reaped
  /\ server' = "kill"
  /\ UNCHANGED <<members, answer, struck>>
\* Wait for the scanned members, KILL_GRACE_S at most: reaping nothing.
Grace ==
  /\ server = "grace"
  /\ server' = "kill"
  /\ UNCHANGED <<proc, members, answer, struck>>

Kill ==
  /\ server = "kill"
  /\ Signalled(Pids)
  /\ server' = "reap"
  /\ UNCHANGED <<members, answer>>

\* Mutant: the pipes are drained until everybody has closed them.
ReapWaits ==
  /\ server = "reap" /\ ~PipeOpen
  /\ proc' = [Reaped EXCEPT ![Leader] = IF @.owner = "call" THEN Free ELSE @]
  /\ server' = "over" /\ answer' = "timeout" /\ members' = {}
  /\ UNCHANGED struck
\* Popen.kill() polls first, so an exited child is reaped and not signalled; then its pipes are
\* drained for five seconds at most, and the call ends whoever still holds them.
Reap ==
  /\ server = "reap"
  /\ proc' = [Reaped EXCEPT ![Leader] = IF @.owner = "call" THEN Free ELSE @]
  /\ server' = "over" /\ answer' = "timeout" /\ members' = {}
  /\ UNCHANGED struck

\* KillProcess by id or by name: whatever runs under the id when it is looked up, as asked.
KillProcess ==
  /\ server = "ready"
  /\ \E p \in Pids : Alive(p) /\ proc' = [proc EXCEPT ![p] = Dead(p)]
  /\ UNCHANGED <<server, members, answer, struck>>

-----------------------------------------------------------------------------
ChildIdle ==
  /\ proc = [p \in Pids |-> Free] /\ server = "ready" /\ members = {}
  /\ answer = "none" /\ struck = FALSE
ChildInit == ChildIdle

ServerStep == Finished \/ TimeOut \/ Terminate \/ Grace \/ Kill \/ Reap
ChildNext == Fork \/ Stranger \/ Exit \/ Spawn \/ RefuseShell \/ ServerStep \/ KillProcess

ChildSpec == ChildInit /\ [][ChildNext]_childVars
(* The server's own steps are bounded by its timeouts. *)
ChildFairness == WF_childVars(ServerStep)

-----------------------------------------------------------------------------
(* The types of the process table and the call. *)
ChildTypeOK ==
  /\ proc \in [Pids -> [state : {"free", "running", "zombie"},
                        owner : {"nobody", "call", "stranger"},
                        group : Pids, pipe : BOOLEAN, stubborn : BOOLEAN]]
  /\ server \in {"ready", "waiting", "term", "grace", "kill", "reap", "over"}
  /\ members \subseteq Pids
  /\ answer \in {"none", "output", "timeout", "failed"}
  /\ struck \in BOOLEAN

(* However processes exit and ids are reused while the group is being killed, no signal of the
   server reaches a process the call did not start. *)
StrangersSpared == ~struck

(* When a call ends at its timeout nothing of it is left running in its group: neither a process
   that ignores SIGTERM, nor one forked after the members were counted.  (Later the group's id may
   be borne by a new one.) *)
GroupGone ==
  [][server = "reap" /\ server' = "over" =>
       \A p \in Pids : proc'[p].state = "running" /\ proc'[p].group = Leader
                         => proc'[p].owner = "stranger"]_childVars

(* Every call ends, also when a process that left the group holds the pipe open for ever. *)
CallEnds == (server = "waiting") ~> (server = "over")

(* A call always ends, with all of its group and with nobody else's process (command.py's promise of
   a timed-out tool call). *)
GroupEndsAlone == []StrangersSpared /\ GroupGone /\ CallEnds
==============================================================================
