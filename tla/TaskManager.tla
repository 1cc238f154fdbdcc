---------------------------- MODULE TaskManager ----------------------------
(***************************************************************************)
(* The task manager of one machine (src/remoteos/taskmanager.py): every    *)
(* tool call runs in a thread of its own inside `wrapper`, which           *)
(* registers a task, waits for a slot of the tool's category, runs the     *)
(* tool, and answers.  CancelTask and the sweep of stale tasks reach into  *)
(* a task from other threads.                                              *)
(*                                                                         *)
(* What is one step here is what the code makes one step: a section under  *)
(* `_lock`, a semaphore operation, the tool function itself.               *)
(*                                                                         *)
(* A call is one invocation, so the set Calls bounds a behaviour.  `now`   *)
(* is the wall clock in units of the stale limit; the 60 s wait for a slot *)
(* may run out at any moment at which no slot is free.                     *)
(***************************************************************************)
EXTENDS Integers, FiniteSets

CONSTANTS
    Calls,       \* tool invocations
    Categories,  \* ToolCategory
    CategoryOf,  \* [Calls -> Categories]: TOOL_CATEGORIES of the called tool
    Limit,       \* [Categories -> Nat \ {0}]: CATEGORY_LIMITS
    StaleAfter,  \* STALE_AFTER_S
    RuntimeOf,   \* [Calls -> Nat]: declared_runtime of the arguments, 0 for None
    MaxHistory,  \* _max_history
    MaxTime      \* bound on the clock (model checking only)

ASSUME CallsAssumption ==
    /\ IsFiniteSet(Calls)
    /\ CategoryOf \in [Calls -> Categories]
    /\ Limit \in [Categories -> Nat \ {0}]

ASSUME TimeAssumption ==
    /\ StaleAfter \in Nat
    /\ RuntimeOf \in [Calls -> Nat]
    /\ MaxHistory \in Nat
    /\ MaxTime \in Nat

VARIABLES
    now,      \* time.time()
    stamps,   \* how many tasks were stamped with a created_at so far
    tasks,    \* the keys of _tasks
    info,     \* the TaskInfo of each call
    sem,      \* the value of each category's thread semaphore
    pc,       \* where the call's thread is in `wrapper`
    result,   \* what the tool function did
    reply,    \* what the call answers its client
    told      \* the calls some CancelTask reported as cancelled

vars == <<now, stamps, tasks, info, sem, pc, result, reply, told>>

Statuses == {"pending", "running", "completed", "failed", "cancelled"}

\* The statuses a task never leaves, which are also the ones kept as history.
Final == {"completed", "failed", "cancelled"}

Never == -1      \* started_at is None

NewTask == [status |-> "pending", created |-> 0, started |-> Never,
            cancelled |-> FALSE]

Init ==
    /\ now = 0
    /\ stamps = 0
    /\ tasks = {}
    /\ info = [c \in Calls |-> NewTask]
    /\ sem = Limit
    /\ pc = [c \in Calls |-> "idle"]
    /\ result = [c \in Calls |-> "none"]
    /\ reply = [c \in Calls |-> "none"]
    /\ told = {}

----------------------------------------------------------------------------
(* Operators over TaskInfo records.                                        *)

\* TaskInfo.cancel on a task that is still pending or running
Cancelled(i) == [i EXCEPT !.status = "cancelled", !.cancelled = TRUE]

\* The age at which a running task is taken as stuck.
StaleLimit(c) == IF RuntimeOf[c] > StaleAfter THEN RuntimeOf[c] ELSE StaleAfter

IsStale(c) == info[c].status = "running" /\ now - info[c].started > StaleLimit(c)

\* The first half of _cleanup_old: every stale task of _tasks is cancelled.
Swept(known) == [c \in Calls |-> IF c \in known /\ IsStale(c)
                                 THEN Cancelled(info[c]) ELSE info[c]]

\* Mutant: every task counts as history, a live one too.
PrunedLive(known, inf) ==
    {c \in known : Cardinality({d \in known : inf[d].created > inf[c].created}) >= MaxHistory}

\* The second half: of the final tasks only the newest MaxHistory stay.
Pruned(known, inf) ==
    LET history == {c \in known : inf[c].status \in Final}
        newer(c) == {d \in history : inf[d].created > inf[c].created}
    IN  {c \in history : Cardinality(newer(c)) >= MaxHistory}

Moved(i, status) ==
    IF status = "running" THEN [i EXCEPT !.status = status, !.started = now]
                          ELSE [i EXCEPT !.status = status]

\* _transition: one status write under the lock, refused once cancelled.
Transition(c, status) == info' = [info EXCEPT ![c] = Moved(@, status)]

----------------------------------------------------------------------------
(* The steps of a call's thread.                                           *)

\* The TaskInfo is built, and stamped, before the lock is taken.
Call(c) ==
    /\ pc[c] = "idle"
    /\ pc' = [pc EXCEPT ![c] = "created"]
    /\ info' = [info EXCEPT ![c].created = stamps]
    /\ stamps' = stamps + 1
    /\ UNCHANGED <<now, tasks, sem, result, reply, told>>

\* create_task under the lock: register, sweep, prune.
Register(c) ==
    /\ pc[c] = "created"
    /\ pc' = [pc EXCEPT ![c] = "waiting"]
    /\ LET known == tasks \union {c}
       IN  /\ info' = Swept(known)
           /\ tasks' = known \ Pruned(known, Swept(known))
    /\ UNCHANGED <<now, stamps, sem, result, reply, told>>

Acquire(c) ==
    /\ pc[c] = "waiting"
    /\ sem[CategoryOf[c]] > 0
    /\ sem' = [sem EXCEPT ![CategoryOf[c]] = @ - 1]
    /\ pc' = [pc EXCEPT ![c] = "acquired"]
    /\ UNCHANGED <<now, stamps, tasks, info, result, reply, told>>

\* Mutant: acquire() without a timeout.
LockTimeoutNever(c) == FALSE

\* sem.acquire(timeout=60) returns False
LockTimeout(c) ==
    /\ pc[c] = "waiting"
    /\ sem[CategoryOf[c]] = 0
    /\ pc' = [pc EXCEPT ![c] = "timedout"]
    /\ UNCHANGED <<now, stamps, tasks, info, sem, result, reply, told>>

\* Mutant: the failed acquire lies inside the try whose finally releases.
FailWaitingReleases(c) ==
    /\ pc[c] = "timedout"
    /\ pc' = [pc EXCEPT ![c] = "done"]
    /\ sem' = [sem EXCEPT ![CategoryOf[c]] = @ + 1]
    /\ \/ /\ info[c].cancelled
          /\ reply' = [reply EXCEPT ![c] = "cancelled_before"]
          /\ UNCHANGED info
       \/ /\ ~info[c].cancelled
          /\ Transition(c, "failed")
          /\ reply' = [reply EXCEPT ![c] = "lock_timeout"]
    /\ UNCHANGED <<now, stamps, tasks, result, told>>

\* The answer of a call that got no slot; it has none to give back.
FailWaiting(c) ==
    /\ pc[c] = "timedout"
    /\ pc' = [pc EXCEPT ![c] = "done"]
    /\ \/ /\ info[c].cancelled
          /\ reply' = [reply EXCEPT ![c] = "cancelled_before"]
          /\ UNCHANGED info
       \/ /\ ~info[c].cancelled
          /\ Transition(c, "failed")
          /\ reply' = [reply EXCEPT ![c] = "lock_timeout"]
    /\ UNCHANGED <<now, stamps, tasks, sem, result, told>>

\* The slot is held: run the tool unless the call was cancelled meanwhile.
Start(c) ==
    /\ pc[c] = "acquired"
    /\ \/ /\ info[c].cancelled
          /\ pc' = [pc EXCEPT ![c] = "releasing"]
          /\ reply' = [reply EXCEPT ![c] = "cancelled_before"]
          /\ UNCHANGED info
       \/ /\ ~info[c].cancelled
          /\ pc' = [pc EXCEPT ![c] = "running"]
          /\ Transition(c, "running")
          /\ UNCHANGED reply
    /\ UNCHANGED <<now, stamps, tasks, sem, result, told>>

\* The tool function ends: a value, or a ToolError or other Exception.
Return(c, outcome) ==
    /\ pc[c] = "running"
    /\ pc' = [pc EXCEPT ![c] = "returned"]
    /\ result' = [result EXCEPT ![c] = outcome]
    /\ UNCHANGED <<now, stamps, tasks, info, sem, reply, told>>

\* Mutant: the status is written without a look at the cancel event.
FinishUnchecked(c) ==
    /\ pc[c] = "returned"
    /\ pc' = [pc EXCEPT ![c] = "releasing"]
    /\ Transition(c, IF result[c] = "value" THEN "completed" ELSE "failed")
    /\ reply' = [reply EXCEPT ![c] = result[c]]
    /\ UNCHANGED <<now, stamps, tasks, sem, result, told>>

\* The final status, unless a cancel came first, and the answer it implies.
Finish(c) ==
    /\ pc[c] = "returned"
    /\ pc' = [pc EXCEPT ![c] = "releasing"]
    /\ \/ /\ info[c].cancelled
          /\ reply' = [reply EXCEPT ![c] = "cancelled_during"]
          /\ UNCHANGED info
       \/ /\ ~info[c].cancelled
          /\ Transition(c, IF result[c] = "value" THEN "completed" ELSE "failed")
          /\ reply' = [reply EXCEPT ![c] = result[c]]
    /\ UNCHANGED <<now, stamps, tasks, sem, result, told>>

\* The `finally`: the slot goes back whatever happened, then the call answers.
Release(c) ==
    /\ pc[c] = "releasing"
    /\ pc' = [pc EXCEPT ![c] = "done"]
    /\ sem' = [sem EXCEPT ![CategoryOf[c]] = @ + 1]
    /\ UNCHANGED <<now, stamps, tasks, info, result, reply, told>>

(* The steps of others.                                                    *)

\* Mutant: a task in the history is cancelled too.
CancelAnyTask(c) ==
    /\ c \in tasks
    /\ info' = [info EXCEPT ![c] = Cancelled(@)]
    /\ told' = told \union {c}
    /\ UNCHANGED <<now, stamps, tasks, sem, pc, result, reply>>

\* CancelTask finds the task live; on any other task it changes nothing.
CancelTask(c) ==
    /\ c \in tasks
    /\ info[c].status \in {"pending", "running"}
    /\ info' = [info EXCEPT ![c] = Cancelled(@)]
    /\ told' = told \union {c}
    /\ UNCHANGED <<now, stamps, tasks, sem, pc, result, reply>>

Tick ==
    /\ now < MaxTime
    /\ now' = now + 1
    /\ UNCHANGED <<stamps, tasks, info, sem, pc, result, reply, told>>

----------------------------------------------------------------------------

\* What the wrapper itself does next, the tool function left out.
WrapperStep(c) ==
    \/ Register(c)
    \/ Acquire(c)
    \/ LockTimeout(c)
    \/ FailWaiting(c)
    \/ Start(c)
    \/ Finish(c)
    \/ Release(c)

Next ==
    \/ \E c \in Calls : Call(c)
    \/ \E c \in Calls : WrapperStep(c)
    \/ \E c \in Calls, o \in {"value", "error"} : Return(c, o)
    \/ \E c \in Calls : CancelTask(c)
    \/ Tick

Spec == Init /\ [][Next]_vars

----------------------------------------------------------------------------
(* Properties.                                                             *)

PcValues == {"idle", "created", "waiting", "timedout", "acquired", "running",
             "returned", "releasing", "done"}

Replies == {"none", "value", "error", "lock_timeout", "cancelled_before",
            "cancelled_during"}

TaskInfo == [status : Statuses, created : Nat, started : Int,
             cancelled : BOOLEAN]

\* Every variable has the shape the code gives it.
TypeOK ==
    /\ now \in Nat
    /\ stamps \in Nat
    /\ tasks \subseteq Calls
    /\ info \in [Calls -> TaskInfo]
    /\ sem \in [Categories -> Nat]
    /\ pc \in [Calls -> PcValues]
    /\ result \in [Calls -> {"none", "value", "error"}]
    /\ reply \in [Calls -> Replies]
    /\ told \subseteq Calls

\* The calls of category k that hold a slot.
Holders(k) ==
    {c \in Calls : /\ CategoryOf[c] = k
                   /\ pc[c] \in {"acquired", "running", "returned", "releasing"}}

\* No slot is lost or invented, whatever mix of cancels, sweeps, lock
\* timeouts and failures hits the calls: the free slots and the held ones
\* always add up to the category's limit.
SlotsConserved ==
    \A k \in Categories : sem[k] + Cardinality(Holders(k)) = Limit[k]

\* The tool functions of one category that execute at the same time never
\* exceed its limit (one at a time for DESKTOP), also when the task record
\* of one of them already says "cancelled" while its thread still works.
CategoryLimit ==
    \A k \in Categories :
        Cardinality({c \in Calls : CategoryOf[c] = k /\ pc[c] = "running"})
            <= Limit[k]

StatusOfReply(r) ==
    CASE r = "value" -> "completed"
      [] r \in {"error", "lock_timeout"} -> "failed"
      [] OTHER -> "cancelled"

\* The client's answer, the task record and every CancelTask reply tell the
\* same story: a call reported as cancelled stays cancelled, never runs to a
\* "completed" record, and its own caller is told so too.
RepliesAgree ==
    \A c \in Calls :
        /\ reply[c] # "none" => info[c].status = StatusOfReply(reply[c])
        /\ pc[c] = "done" => reply[c] # "none"
        /\ c \in told => info[c].status = "cancelled"

\* Where a call's thread is bounds the status its record can show.
StatusesAt(at) ==
    CASE at \in {"idle", "created"} -> {"pending"}
      [] at \in {"waiting", "timedout", "acquired"} -> {"pending", "cancelled"}
      [] at \in {"running", "returned"} -> {"running", "cancelled"}
      [] OTHER -> Final

\* The inductive form of RepliesAgree: the record follows the thread, the
\* cancel event is the "cancelled" status, and an answer is fixed only once
\* the record is final.
LifecycleInv ==
    \A c \in Calls :
        /\ info[c].status \in StatusesAt(pc[c])
        /\ info[c].cancelled <=> info[c].status = "cancelled"
        /\ pc[c] \in {"idle", "created"} => c \notin tasks
        /\ reply[c] # "none" <=> pc[c] \in {"releasing", "done"}
        /\ reply[c] # "none" => info[c].status = StatusOfReply(reply[c])
        /\ pc[c] = "returned" => result[c] # "none"
        /\ c \in told => info[c].status = "cancelled"

\* A task nobody cancelled by name is only ever swept after it outlived both
\* the stale limit and the runtime it declared itself.
SweptOnlyWhenOverdue ==
    \A c \in Calls :
        info[c].status = "cancelled" /\ c \notin told
            => /\ info[c].started # Never
               /\ now - info[c].started > StaleAfter
               /\ now - info[c].started > RuntimeOf[c]

\* With the reason a running task always has an age, it is inductive.
SweepInv ==
    /\ SweptOnlyWhenOverdue
    /\ \A c \in Calls : info[c].status = "running" => info[c].started \in Nat

\* A call that is waiting or working can be found, listed and cancelled: the
\* pruning of the history never drops the record of a live task.
LiveTasksFindable ==
    \A c \in Calls :
        /\ pc[c] \notin {"idle", "created"}
        /\ info[c].status \notin Final
        => c \in tasks

\* Each registration leaves at most MaxHistory final tasks, those its own
\* sweep just cancelled included.
HistoryBounded ==
    [][(\E c \in Calls : pc[c] = "created" /\ pc'[c] = "waiting")
        => Cardinality({c \in tasks' : info'[c].status \in Final}) <= MaxHistory]_vars

\* A call that waits for a slot gets it or is answered, even when another
\* tool of its category hangs for ever.
WaitersAnswered ==
    \A c \in Calls : pc[c] = "created" ~> pc[c] \in {"running", "done"}

\* How a state shows the outcome of a call and what its client was told.
OutcomeOf(c) == IF info[c].status \in Final THEN info[c].status ELSE "open"
AnswerOf(c) == IF reply[c] = "none" THEN "none" ELSE StatusOfReply(reply[c])

Promise == INSTANCE CallPromise WITH
    outcome <- [c \in Calls |-> OutcomeOf(c)],
    answer <- [c \in Calls |-> AnswerOf(c)],
    confirmed <- told

\* Whatever cancels, sweeps and threads do to a call between its steps, it
\* looks as if one of them had decided its outcome once and for all, and its
\* client and every successful CancelTask were told that one: the task manager
\* implements CallPromise.
KeepsPromise == Promise!Spec

=============================================================================
