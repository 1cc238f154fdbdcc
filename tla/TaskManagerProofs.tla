------------------------- MODULE TaskManagerProofs -------------------------
(***************************************************************************)
(* Theorems about TaskManager, for any set of calls, categories, limits,   *)
(* runtimes and clock.                                                     *)
(***************************************************************************)
EXTENDS TaskManager, FiniteSetTheorems, WellFoundedInduction, TLAPS

\* _transition writes a well-formed TaskInfo.
LEMMA TransitionTyped ==
    ASSUME TypeOK, NEW c \in Calls, NEW s \in Statuses, Transition(c, s)
    PROVE  info' \in [Calls -> TaskInfo]
<1>1. info[c] \in TaskInfo /\ now \in Int
  BY DEF TypeOK
<1>2. [info[c] EXCEPT !.status = s] \in TaskInfo
  BY <1>1 DEF TaskInfo
<1>3. [info[c] EXCEPT !.status = s, !.started = now] \in TaskInfo
  BY <1>1 DEF TaskInfo
<1>4. Moved(info[c], s) \in TaskInfo
  BY <1>2, <1>3 DEF Moved
<1>5. QED
  BY <1>4 DEF Transition, TypeOK

LEMMA TypeBegins == Init => TypeOK
BY CallsAssumption DEF Init, TypeOK, TaskInfo, NewTask, Statuses, PcValues,
                       Replies, Never

LEMMA TypeStep == TypeOK /\ [Next]_vars => TypeOK'
<1> SUFFICES ASSUME TypeOK, [Next]_vars  PROVE TypeOK'
  OBVIOUS
<1> USE CallsAssumption DEF TypeOK, TaskInfo, Statuses, PcValues, Replies
<1>1. ASSUME NEW c \in Calls, Call(c)  PROVE TypeOK'
  <2>1. info' \in [Calls -> TaskInfo]
    BY <1>1 DEF Call
  <2>2. pc' \in [Calls -> PcValues]
    BY <1>1 DEF Call
  <2>3. QED
    BY <1>1, <2>1, <2>2 DEF Call
<1>2. ASSUME NEW c \in Calls, Register(c)  PROVE TypeOK'
  BY <1>2 DEF Register, Swept, Pruned, Cancelled
<1>3. ASSUME NEW c \in Calls, Acquire(c)  PROVE TypeOK'
  BY <1>3 DEF Acquire
<1>4. ASSUME NEW c \in Calls, LockTimeout(c)  PROVE TypeOK'
  BY <1>4 DEF LockTimeout
<1>5. ASSUME NEW c \in Calls, FailWaiting(c)  PROVE TypeOK'
  BY <1>5, TransitionTyped DEF FailWaiting
<1>6. ASSUME NEW c \in Calls, Start(c)  PROVE TypeOK'
  BY <1>6, TransitionTyped DEF Start
<1>7. ASSUME NEW c \in Calls, NEW o \in {"value", "error"}, Return(c, o)
      PROVE TypeOK'
  BY <1>7 DEF Return
<1>8. ASSUME NEW c \in Calls, Finish(c)  PROVE TypeOK'
  <2>1. info' \in [Calls -> TaskInfo]
    BY <1>8, TransitionTyped DEF Finish
  <2>2. reply' \in [Calls -> Replies]
    BY <1>8 DEF Finish
  <2>3. QED
    BY <1>8, <2>1, <2>2 DEF Finish
<1>9. ASSUME NEW c \in Calls, Release(c)  PROVE TypeOK'
  BY <1>9 DEF Release
<1>10. ASSUME NEW c \in Calls, CancelTask(c)  PROVE TypeOK'
  BY <1>10 DEF CancelTask, Cancelled
<1>11. CASE Tick
  BY <1>11 DEF Tick
<1>12. CASE UNCHANGED vars
  BY <1>12 DEF vars
<1>13. QED
  BY <1>1, <1>2, <1>3, <1>4, <1>5, <1>6, <1>7, <1>8, <1>9, <1>10, <1>11,
     <1>12 DEF Next, WrapperStep

\* Every variable keeps its type: no step of a call, a cancel or the clock
\* writes a value the code could not hold.  In particular no semaphore is
\* ever taken below zero.
THEOREM TypeCorrect == Spec => []TypeOK
BY TypeBegins, TypeStep, PTL DEF Spec

----------------------------------------------------------------------------

\* The sweep of a registration cancels running tasks and touches no other.
LEMMA SweptEffect ==
    ASSUME TypeOK, NEW known, NEW c \in Calls
    PROVE  \/ Swept(known)[c] = info[c]
           \/ /\ info[c].status = "running"
              /\ Swept(known)[c].status = "cancelled"
              /\ Swept(known)[c].cancelled = TRUE
BY DEF TypeOK, TaskInfo, Swept, IsStale, Cancelled

\* A record says "running" only while the thread works on the tool.
LEMMA RunningThread ==
    ASSUME TypeOK, LifecycleInv, NEW c \in Calls, info[c].status = "running"
    PROVE  pc[c] \in {"running", "returned"}
BY DEF TypeOK, LifecycleInv, StatusesAt, Final, PcValues

\* The inductive step: one case per step of Next.
LEMMA LifecycleStep ==
    TypeOK /\ LifecycleInv /\ [Next]_vars => LifecycleInv'
<1> SUFFICES ASSUME TypeOK, LifecycleInv, [Next]_vars  PROVE LifecycleInv'
  OBVIOUS
<1> USE DEF TypeOK, LifecycleInv, TaskInfo, PcValues, Replies, Statuses
<1>1. ASSUME NEW c \in Calls, Call(c)  PROVE LifecycleInv'
  BY <1>1 DEF Call, StatusesAt
<1>2. ASSUME NEW c \in Calls, Register(c)  PROVE LifecycleInv'
  <2> DEFINE known == tasks \union {c}
  <2>1. /\ pc[c] = "created" /\ pc' = [pc EXCEPT ![c] = "waiting"]
        /\ info' = Swept(known)
        /\ tasks' \subseteq known
        /\ UNCHANGED <<result, reply, told>>
    BY <1>2 DEF Register
  <2>2. info[c].status = "pending" /\ info'[c] = info[c]
    BY <2>1, SweptEffect DEF StatusesAt
  <2>3. ASSUME NEW d \in Calls
        PROVE  /\ info'[d].status \in StatusesAt(pc'[d])
               /\ info'[d].cancelled <=> info'[d].status = "cancelled"
               /\ pc'[d] \in {"idle", "created"} => d \notin tasks'
               /\ reply'[d] # "none" <=> pc'[d] \in {"releasing", "done"}
               /\ reply'[d] # "none" => info'[d].status = StatusOfReply(reply'[d])
               /\ pc'[d] = "returned" => result'[d] # "none"
               /\ d \in told' => info'[d].status = "cancelled"
    <3>1. CASE d = c
      BY <2>1, <2>2, <3>1 DEF StatusesAt
    <3>2. CASE d # c /\ info'[d] = info[d]
      BY <2>1, <3>2
    <3>3. CASE d # c /\ info'[d] # info[d]
      <4>1. /\ info[d].status = "running"
            /\ info'[d].status = "cancelled"
            /\ info'[d].cancelled = TRUE
        <5>1. \/ Swept(known)[d] = info[d]
              \/ /\ info[d].status = "running"
                 /\ Swept(known)[d].status = "cancelled"
                 /\ Swept(known)[d].cancelled = TRUE
          BY SweptEffect
        <5>2. QED
          BY <2>1, <3>3, <5>1
      <4>2. pc[d] \in {"running", "returned"} /\ pc'[d] = pc[d]
        BY <2>1, <3>3, <4>1, RunningThread
      <4>3. QED
        BY <2>1, <3>3, <4>1, <4>2 DEF StatusesAt
    <3>4. QED
      BY <3>1, <3>2, <3>3
  <2>4. QED
    BY <2>3 DEF LifecycleInv
<1>3. ASSUME NEW c \in Calls, Acquire(c)  PROVE LifecycleInv'
  BY <1>3 DEF Acquire, StatusesAt
<1>4. ASSUME NEW c \in Calls, LockTimeout(c)  PROVE LifecycleInv'
  BY <1>4 DEF LockTimeout, StatusesAt
<1>5. ASSUME NEW c \in Calls, FailWaiting(c)  PROVE LifecycleInv'
  BY <1>5 DEF FailWaiting, Transition, Moved, StatusesAt, StatusOfReply, Final
<1>6. ASSUME NEW c \in Calls, Start(c)  PROVE LifecycleInv'
  <2>1. CASE info[c].cancelled
    BY <1>6, <2>1 DEF Start, StatusesAt, StatusOfReply, Final
  <2>2. CASE ~info[c].cancelled
    <3>1. /\ pc[c] = "acquired" /\ pc' = [pc EXCEPT ![c] = "running"]
          /\ info' = [info EXCEPT ![c] = Moved(info[c], "running")]
          /\ UNCHANGED <<tasks, result, reply, told>>
      BY <1>6, <2>2 DEF Start, Transition
    <3>2. /\ Moved(info[c], "running").status = "running"
          /\ Moved(info[c], "running").cancelled = info[c].cancelled
      BY DEF Moved
    <3>3. QED
      BY <2>2, <3>1, <3>2 DEF StatusesAt
  <2>3. QED
    BY <2>1, <2>2
<1>7. ASSUME NEW c \in Calls, NEW o \in {"value", "error"}, Return(c, o)
      PROVE LifecycleInv'
  BY <1>7 DEF Return, StatusesAt
<1>8. ASSUME NEW c \in Calls, Finish(c)  PROVE LifecycleInv'
  BY <1>8 DEF Finish, Transition, Moved, StatusesAt, StatusOfReply, Final
<1>9. ASSUME NEW c \in Calls, Release(c)  PROVE LifecycleInv'
  BY <1>9 DEF Release, StatusesAt
<1>10. ASSUME NEW c \in Calls, CancelTask(c)  PROVE LifecycleInv'
  BY <1>10 DEF CancelTask, Cancelled, StatusesAt, StatusOfReply, Final
<1>11. CASE Tick
  BY <1>11 DEF Tick
<1>12. CASE UNCHANGED vars
  BY <1>12 DEF vars
<1>13. QED
  BY <1>1, <1>2, <1>3, <1>4, <1>5, <1>6, <1>7, <1>8, <1>9, <1>10, <1>11,
     <1>12 DEF Next, WrapperStep

\* What a call of the decorator is doing and what its TaskInfo says never
\* contradict each other (create_task, wrapper, _transition).
THEOREM LifecycleCorrect == Spec => []LifecycleInv
<1>1. Init => LifecycleInv
  BY DEF Init, LifecycleInv, NewTask, StatusesAt
<1>2. QED
  BY <1>1, LifecycleStep, TypeCorrect, PTL DEF Spec

\* The answer to the caller, the task record and every CancelTask reply agree:
\* a cancel that was confirmed is never overwritten by a late completion.
THEOREM RepliesCorrect == Spec => []RepliesAgree
<1>1. TypeOK /\ LifecycleInv => RepliesAgree
  BY DEF LifecycleInv, RepliesAgree
<1>2. QED
  BY <1>1, LifecycleCorrect, TypeCorrect, PTL

----------------------------------------------------------------------------

HeldAt == {"acquired", "running", "returned", "releasing"}

\* How one thread's move changes the holders of a category.
LEMMA HoldersMove ==
    ASSUME TypeOK, NEW c \in Calls, NEW to, pc' = [pc EXCEPT ![c] = to],
           NEW k \in Categories
    PROVE  /\ (pc[c] \in HeldAt <=> to \in HeldAt) \/ CategoryOf[c] # k
                => Holders(k)' = Holders(k)
           /\ pc[c] \notin HeldAt /\ to \in HeldAt /\ CategoryOf[c] = k
                => c \notin Holders(k) /\ Holders(k)' = Holders(k) \union {c}
           /\ pc[c] \in HeldAt /\ to \notin HeldAt /\ CategoryOf[c] = k
                => c \in Holders(k) /\ Holders(k)' = Holders(k) \ {c}
BY DEF TypeOK, Holders, HeldAt

\* The calls between acquire and release of one semaphore are finitely many,
\* so they can be counted.
LEMMA HoldersFinite ==
    ASSUME NEW k  PROVE IsFiniteSet(Holders(k)) /\ Cardinality(Holders(k)) \in Nat
<1>1. Holders(k) \in SUBSET Calls
  BY DEF Holders
<1>2. IsFiniteSet(Holders(k))
  BY <1>1, CallsAssumption, FS_Subset
<1>3. QED
  BY <1>2, FS_CardinalityType

\* acquire takes one slot for one call, the finally of the wrapper gives one
\* back, and no other step of the manager moves a call in or out of that span.
LEMMA SlotsStep == TypeOK /\ SlotsConserved /\ [Next]_vars => SlotsConserved'
<1> SUFFICES ASSUME TypeOK, SlotsConserved, [Next]_vars, NEW k \in Categories
             PROVE  sem'[k] + Cardinality(Holders(k)') = Limit[k]
  BY DEF SlotsConserved, Holders
<1>1. sem[k] + Cardinality(Holders(k)) = Limit[k] /\ sem[k] \in Nat
      /\ Limit[k] \in Nat
  BY CallsAssumption DEF SlotsConserved, TypeOK
<1>2. IsFiniteSet(Holders(k)) /\ Cardinality(Holders(k)) \in Nat
  BY HoldersFinite
<1>3. ASSUME NEW c \in Calls, NEW to, pc' = [pc EXCEPT ![c] = to],
             pc[c] \in HeldAt <=> to \in HeldAt, UNCHANGED sem
      PROVE  sem'[k] + Cardinality(Holders(k)') = Limit[k]
  BY <1>1, <1>3, HoldersMove
<1>4. ASSUME UNCHANGED <<pc, sem>>
      PROVE  sem'[k] + Cardinality(Holders(k)') = Limit[k]
  BY <1>1, <1>4 DEF Holders
<1>5. ASSUME NEW c \in Calls, Acquire(c)
      PROVE  sem'[k] + Cardinality(Holders(k)') = Limit[k]
  <2>1. CASE CategoryOf[c] = k
    <3>1. c \notin Holders(k) /\ Holders(k)' = Holders(k) \union {c}
      BY <1>5, <2>1, HoldersMove DEF Acquire, HeldAt
    <3>2. Cardinality(Holders(k)') = Cardinality(Holders(k)) + 1
      BY <1>2, <3>1, FS_AddElement
    <3>3. sem'[k] = sem[k] - 1
      BY <1>5, <2>1 DEF Acquire, TypeOK
    <3>4. QED
      BY <1>1, <1>2, <3>2, <3>3
  <2>2. CASE CategoryOf[c] # k
    <3>1. Holders(k)' = Holders(k)
      BY <1>5, <2>2, HoldersMove DEF Acquire
    <3>2. sem'[k] = sem[k]
      BY <1>5, <2>2 DEF Acquire, TypeOK
    <3>3. QED
      BY <1>1, <3>1, <3>2
  <2>3. QED
    BY <2>1, <2>2
<1>6. ASSUME NEW c \in Calls, Release(c)
      PROVE  sem'[k] + Cardinality(Holders(k)') = Limit[k]
  <2>1. CASE CategoryOf[c] = k
    <3>1. c \in Holders(k) /\ Holders(k)' = Holders(k) \ {c}
      <4>1. /\ pc' = [pc EXCEPT ![c] = "done"]
            /\ pc[c] \in HeldAt /\ "done" \notin HeldAt
        BY <1>6 DEF Release, HeldAt
      <4>2. QED
        BY <2>1, <4>1, HoldersMove
    <3>2. Cardinality(Holders(k)') = Cardinality(Holders(k)) - 1
      BY <1>2, <3>1, FS_RemoveElement
    <3>3. sem'[k] = sem[k] + 1
      BY <1>6, <2>1 DEF Release, TypeOK
    <3>4. QED
      BY <1>1, <1>2, <3>2, <3>3
  <2>2. CASE CategoryOf[c] # k
    <3>1. Holders(k)' = Holders(k)
      BY <1>6, <2>2, HoldersMove DEF Release
    <3>2. sem'[k] = sem[k]
      BY <1>6, <2>2 DEF Release, TypeOK
    <3>3. QED
      BY <1>1, <3>1, <3>2
  <2>3. QED
    BY <2>1, <2>2
<1>7. ASSUME NEW c \in Calls, Call(c) \/ Register(c) \/ LockTimeout(c)
                              \/ FailWaiting(c)
      PROVE  sem'[k] + Cardinality(Holders(k)') = Limit[k]
  <2>1. /\ UNCHANGED sem
        /\ pc[c] \notin HeldAt
        /\ \E to \in {"created", "waiting", "timedout", "done"} :
              pc' = [pc EXCEPT ![c] = to]
    BY <1>7 DEF Call, Register, LockTimeout, FailWaiting, HeldAt
  <2>2. QED
    BY <1>3, <2>1 DEF HeldAt
<1>8. ASSUME NEW c \in Calls, Start(c) \/ Finish(c)
      PROVE  sem'[k] + Cardinality(Holders(k)') = Limit[k]
  <2>1. /\ UNCHANGED sem
        /\ pc[c] \in HeldAt
        /\ \E to \in HeldAt : pc' = [pc EXCEPT ![c] = to]
    BY <1>8 DEF Start, Finish, HeldAt
  <2>2. QED
    BY <1>3, <2>1
<1>9. ASSUME NEW c \in Calls, NEW o \in {"value", "error"}, Return(c, o)
      PROVE  sem'[k] + Cardinality(Holders(k)') = Limit[k]
  BY <1>3, <1>9 DEF Return, HeldAt
<1>10. ASSUME NEW c \in Calls, CancelTask(c)
       PROVE  sem'[k] + Cardinality(Holders(k)') = Limit[k]
  BY <1>4, <1>10 DEF CancelTask
<1>11. CASE Tick \/ UNCHANGED vars
  BY <1>4, <1>11 DEF Tick, vars
<1>12. QED
  BY <1>5, <1>6, <1>7, <1>8, <1>9, <1>10, <1>11 DEF Next, WrapperStep

\* No slot of a category is ever lost or handed out twice.
THEOREM SlotsCorrect == Spec => []SlotsConserved
<1>1. Init => SlotsConserved
  <2> SUFFICES ASSUME Init, NEW k \in Categories
               PROVE  sem[k] + Cardinality(Holders(k)) = Limit[k]
    BY DEF SlotsConserved
  <2>1. Holders(k) = {}
    BY DEF Init, Holders
  <2>2. QED
    BY <2>1, FS_EmptySet, CallsAssumption DEF Init
<1>2. QED
  BY <1>1, SlotsStep, TypeCorrect, PTL DEF Spec

\* At most Limit[k] tool functions of category k execute at any moment: one
\* desktop action at a time, for ever.
THEOREM CategoryLimitCorrect == Spec => []CategoryLimit
<1>1. TypeOK /\ SlotsConserved => CategoryLimit
  <2> SUFFICES ASSUME TypeOK, SlotsConserved, NEW k \in Categories
               PROVE  Cardinality({c \in Calls : CategoryOf[c] = k /\ pc[c] = "running"})
                        <= Limit[k]
    BY DEF CategoryLimit
  <2> DEFINE R == {c \in Calls : CategoryOf[c] = k /\ pc[c] = "running"}
  <2>1. R \in SUBSET Holders(k)
    BY DEF Holders
  <2>2. /\ Cardinality(R) <= Cardinality(Holders(k))
        /\ Cardinality(R) \in Nat
    BY <2>1, HoldersFinite, FS_Subset, FS_CardinalityType
  <2>3. sem[k] \in Nat /\ sem[k] + Cardinality(Holders(k)) = Limit[k]
    BY DEF TypeOK, SlotsConserved
  <2>4. QED
    BY <2>2, <2>3, HoldersFinite
<1>2. QED
  BY <1>1, SlotsCorrect, TypeCorrect, PTL

----------------------------------------------------------------------------

\* A step of the manager leaves every swept task one that _cleanup_old was
\* entitled to sweep.
LEMMA SweepStep ==
    TypeOK /\ LifecycleInv /\ SweepInv /\ [Next]_vars => SweepInv'
<1> SUFFICES ASSUME TypeOK, LifecycleInv, SweepInv, [Next]_vars
             PROVE  SweepInv'
  OBVIOUS
<1> DEFINE OK(c) ==
      /\ info[c].status = "cancelled" /\ c \notin told
            => /\ info[c].started # Never
               /\ now - info[c].started > StaleAfter
               /\ now - info[c].started > RuntimeOf[c]
      /\ info[c].status = "running" => info[c].started \in Nat
<1>1. /\ \A c \in Calls : OK(c) /\ info[c] \in TaskInfo
      /\ now \in Nat /\ StaleAfter \in Nat /\ RuntimeOf \in [Calls -> Nat]
  BY TimeAssumption DEF SweepInv, SweptOnlyWhenOverdue, TypeOK
<1>2. SUFFICES ASSUME NEW d \in Calls  PROVE OK(d)'
  BY <1>2 DEF SweepInv, SweptOnlyWhenOverdue
<1>3. ASSUME now' \in Nat, now' >= now, told \subseteq told',
             \/ info'[d] = info[d]
             \/ d \in told' /\ info'[d].status = "cancelled"
             \/ info'[d].status \in {"completed", "failed"}
      PROVE  OK(d)'
  BY <1>1, <1>3 DEF TaskInfo
<1>4. ASSUME NEW c \in Calls, Register(c)  PROVE OK(d)'
  <2> DEFINE known == tasks \union {c}
  <2>1. info' = Swept(known) /\ now' = now /\ told' = told
    BY <1>4 DEF Register
  <2>2. CASE d \in known /\ IsStale(d)
    <3>1. /\ info[d].status = "running"
          /\ now - info[d].started > StaleAfter
          /\ now - info[d].started > RuntimeOf[d]
      BY <1>1, <2>2 DEF IsStale, StaleLimit, TaskInfo
    <3>2. info'[d].status = "cancelled" /\ info'[d].started = info[d].started
      BY <1>1, <2>1, <2>2 DEF Swept, Cancelled, TaskInfo
    <3>3. info'[d].started # Never
      BY <1>1, <3>1, <3>2 DEF Never
    <3>4. QED
      BY <2>1, <3>1, <3>2, <3>3
  <2>3. CASE ~(d \in known /\ IsStale(d))
    BY <1>3, <1>1, <2>1, <2>3 DEF Swept
  <2>4. QED
    BY <2>2, <2>3
<1>5. ASSUME NEW c \in Calls, Start(c)  PROVE OK(d)'
  <2>1. CASE info[c].cancelled \/ d # c
    BY <1>1, <1>3, <1>5, <2>1 DEF Start, Transition, TypeOK
  <2>2. CASE ~info[c].cancelled /\ d = c
    <3>1. info'[c] = Moved(info[c], "running")
      BY <1>5, <2>2 DEF Start, Transition, TypeOK
    <3>2. info'[c].status = "running" /\ info'[c].started = now
      BY <1>1, <3>1 DEF Moved, TaskInfo
    <3>3. QED
      BY <1>1, <2>2, <3>2
  <2>3. QED
    BY <2>1, <2>2
<1>6. ASSUME NEW c \in Calls, FailWaiting(c) \/ Finish(c)  PROVE OK(d)'
  <2>1. CASE info' = info \/ d # c
    BY <1>1, <1>3, <1>6, <2>1 DEF FailWaiting, Finish, Transition, TypeOK
  <2>2. CASE info' # info /\ d = c
    <3>1. PICK s \in {"completed", "failed"} : info'[c] = Moved(info[c], s)
      BY <1>6, <2>2 DEF FailWaiting, Finish, Transition, TypeOK
    <3>2. info'[c].status \in {"completed", "failed"}
      BY <1>1, <3>1 DEF Moved, TaskInfo
    <3>3. QED
      BY <1>1, <1>3, <1>6, <2>2, <3>2 DEF FailWaiting, Finish
  <2>3. QED
    BY <2>1, <2>2
<1>7. ASSUME NEW c \in Calls, CancelTask(c)  PROVE OK(d)'
  BY <1>1, <1>3, <1>7 DEF CancelTask, Cancelled, TypeOK, TaskInfo
<1>8. ASSUME NEW c \in Calls, Call(c)  PROVE OK(d)'
  <2>1. info'[d].status = info[d].status /\ info'[d].started = info[d].started
    BY <1>1, <1>8 DEF Call, TypeOK, TaskInfo
  <2>2. QED
    BY <1>1, <1>8, <2>1 DEF Call
<1>9. ASSUME NEW c \in Calls, NEW o \in {"value", "error"},
             Acquire(c) \/ LockTimeout(c) \/ Release(c) \/ Return(c, o)
      PROVE  OK(d)'
  BY <1>1, <1>3, <1>9 DEF Acquire, LockTimeout, Release, Return
<1>10. CASE Tick
  BY <1>1, <1>3, <1>10 DEF Tick
<1>11. CASE UNCHANGED vars
  BY <1>1, <1>3, <1>11 DEF vars
<1>12. QED
  BY <1>4, <1>5, <1>6, <1>7, <1>8, <1>9, <1>10, <1>11 DEF Next, WrapperStep

\* The sweep never takes a call that is still inside the stale limit or
\* inside the runtime it declared.
THEOREM SweepCorrect == Spec => []SweptOnlyWhenOverdue
<1>1. Init => SweepInv
  BY DEF Init, SweepInv, SweptOnlyWhenOverdue, NewTask
<1>2. SweepInv => SweptOnlyWhenOverdue
  BY DEF SweepInv
<1>3. QED
  BY <1>1, <1>2, SweepStep, TypeCorrect, LifecycleCorrect, PTL DEF Spec

----------------------------------------------------------------------------

\* Pruning takes finished tasks only, and a call registers its task before it
\* starts to wait, so no step loses the record of a live task.
LEMMA FindableStep ==
    TypeOK /\ LifecycleInv /\ LiveTasksFindable /\ [Next]_vars => LiveTasksFindable'
<1> SUFFICES ASSUME TypeOK, LifecycleInv, LiveTasksFindable, [Next]_vars,
                    NEW d \in Calls, pc'[d] \notin {"idle", "created"},
                    info'[d].status \notin Final
             PROVE  d \in tasks'
  BY DEF LiveTasksFindable
<1>1. pc[d] \notin {"idle", "created"} /\ info[d].status \notin Final => d \in tasks
  BY DEF LiveTasksFindable
<1>2. ASSUME NEW c \in Calls, Register(c)  PROVE d \in tasks'
  <2> DEFINE known == tasks \union {c}
  <2>1. /\ pc' = [pc EXCEPT ![c] = "waiting"]
        /\ info' = Swept(known)
        /\ tasks' = known \ Pruned(known, info')
    BY <1>2 DEF Register
  <2>2. d \notin Pruned(known, info')
    BY DEF Pruned
  <2>3. info[d].status \notin Final
    <3>1. \/ Swept(known)[d] = info[d]
          \/ Swept(known)[d].status = "cancelled"
      BY SweptEffect
    <3>2. QED
      BY <2>1, <3>1 DEF Final
  <2>4. d \in known
    BY <1>1, <2>1, <2>3 DEF TypeOK
  <2>5. QED
    BY <2>1, <2>2, <2>4
<1>3. ASSUME NEW c \in Calls, Start(c)  PROVE d \in tasks'
  <2>1. pc[d] \notin {"idle", "created"} /\ tasks' = tasks
    BY <1>3 DEF Start, TypeOK
  <2>2. info[d].status \notin Final
    <3>1. CASE d # c \/ info[c].cancelled
      BY <1>3, <3>1 DEF Start, Transition, TypeOK
    <3>2. CASE d = c /\ ~info[c].cancelled
      BY <1>3, <3>2 DEF Start, LifecycleInv, StatusesAt, Final
    <3>3. QED
      BY <3>1, <3>2
  <2>3. QED
    BY <1>1, <2>1, <2>2
<1>4. ASSUME NEW c \in Calls, FailWaiting(c) \/ Finish(c)  PROVE d \in tasks'
  <2>1. pc[d] \notin {"idle", "created"} /\ tasks' = tasks
    BY <1>4 DEF FailWaiting, Finish, TypeOK
  <2>2. info[d].status \notin Final
    <3>1. CASE d # c \/ info[c].cancelled
      BY <1>4, <3>1 DEF FailWaiting, Finish, Transition, TypeOK
    <3>2. CASE d = c /\ ~info[c].cancelled
      <4>1. PICK s \in {"completed", "failed"} : info'[c] = Moved(info[c], s)
        BY <1>4, <3>2 DEF FailWaiting, Finish, Transition, TypeOK
      <4>2. info'[c].status \in Final
        BY <4>1 DEF Moved, TypeOK, TaskInfo, Final
      <4>3. QED
        BY <3>2, <4>2
    <3>3. QED
      BY <3>1, <3>2
  <2>3. QED
    BY <1>1, <2>1, <2>2
<1>5. ASSUME NEW c \in Calls, CancelTask(c)  PROVE d \in tasks'
  BY <1>1, <1>5 DEF CancelTask, Cancelled, TypeOK, TaskInfo, Final
<1>6. ASSUME NEW c \in Calls, Call(c)  PROVE d \in tasks'
  BY <1>1, <1>6 DEF Call, TypeOK, TaskInfo
<1>7. ASSUME NEW c \in Calls, NEW o \in {"value", "error"},
             Acquire(c) \/ LockTimeout(c) \/ Release(c) \/ Return(c, o)
      PROVE  d \in tasks'
  BY <1>1, <1>7 DEF Acquire, LockTimeout, Release, Return, TypeOK
<1>8. CASE Tick \/ UNCHANGED vars
  BY <1>1, <1>8 DEF Tick, vars
<1>9. QED
  BY <1>2, <1>3, <1>4, <1>5, <1>6, <1>7, <1>8 DEF Next, WrapperStep

\* The record of a call that is waiting or working is never pruned.
THEOREM FindableCorrect == Spec => []LiveTasksFindable
<1>1. Init => LiveTasksFindable
  BY DEF Init, LiveTasksFindable
<1>2. QED
  BY <1>1, FindableStep, TypeCorrect, LifecycleCorrect, PTL DEF Spec

----------------------------------------------------------------------------

\* The outcome and the answer of a call that a step leaves alone.
LEMMA SameOutcome ==
    ASSUME NEW c \in Calls, info'[c] = info[c]
    PROVE  OutcomeOf(c)' = OutcomeOf(c)
BY DEF OutcomeOf

\* The end of a call that nobody cancelled settles it; that of a cancelled one
\* only tells its client.
LEMMA EndKeepsPromise ==
    ASSUME TypeOK, LifecycleInv, NEW c \in Calls, FailWaiting(c) \/ Start(c) \/ Finish(c)
    PROVE  [Promise!Next]_(Promise!vars)
<1> DEFINE how == StatusOfReply(reply'[c])
<1>1. /\ told' = told
      /\ \A d \in Calls \ {c} : info'[d] = info[d] /\ reply'[d] = reply[d]
  BY DEF FailWaiting, Start, Finish, Transition, TypeOK
<1>2. reply[c] = "none" /\ info[c] \in TaskInfo
  BY DEF FailWaiting, Start, Finish, LifecycleInv, TypeOK
<1>3. CASE info[c].cancelled
  <2>1. info'[c] = info[c] /\ reply'[c] \in {"cancelled_before", "cancelled_during"}
    BY <1>3 DEF FailWaiting, Start, Finish, TypeOK
  <2>2. OutcomeOf(c) = "cancelled" /\ AnswerOf(c) = "none" /\ AnswerOf(c)' = "cancelled"
    BY <1>2, <1>3, <2>1 DEF LifecycleInv, OutcomeOf, AnswerOf, StatusOfReply, Final
  <2>3. Promise!AnswerCancelled(c)
    BY <1>1, <2>1, <2>2 DEF Promise!AnswerCancelled, OutcomeOf, AnswerOf
  <2>4. QED
    BY <2>3 DEF Promise!Next
<1>4. CASE ~info[c].cancelled /\ Start(c)
  <2>1. info'[c].status = "running" /\ reply' = reply
    BY <1>2, <1>4 DEF Start, Transition, Moved, TypeOK, TaskInfo
  <2>2. info[c].status \notin Final
    BY <1>4 DEF Start, LifecycleInv, StatusesAt, Final
  <2>3. \A d \in Calls : OutcomeOf(d)' = OutcomeOf(d) /\ AnswerOf(d)' = AnswerOf(d)
    BY <1>1, <2>1, <2>2 DEF OutcomeOf, AnswerOf, Final
  <2>4. QED
    BY <1>1, <2>3 DEF Promise!vars
<1>5. CASE ~info[c].cancelled /\ ~Start(c)
  <2>1. /\ info'[c].status = how /\ how \in {"completed", "failed"}
        /\ reply'[c] # "none"
    BY <1>2, <1>5 DEF FailWaiting, Finish, Transition, Moved, TypeOK, TaskInfo,
                      StatusOfReply, LifecycleInv
  <2>2. info[c].status \notin Final
    BY <1>5 DEF FailWaiting, Finish, LifecycleInv, StatusesAt, Final
  <2>3. OutcomeOf(c) = "open" /\ OutcomeOf(c)' = how /\ AnswerOf(c)' = how
    BY <2>1, <2>2 DEF OutcomeOf, AnswerOf, Final
  <2>4. Promise!Settle(c, how)
    BY <1>1, <2>3 DEF Promise!Settle, OutcomeOf, AnswerOf
  <2>5. QED
    BY <2>1, <2>4 DEF Promise!Next
<1>6. QED
  BY <1>3, <1>4, <1>5

\* The task manager implements CallPromise: its initial states are initial
\* there, and each of its steps is one step there or none.
THEOREM PromiseKept == Spec => KeepsPromise
<1>1. Init => Promise!Init
  BY DEF Init, Promise!Init, OutcomeOf, AnswerOf, NewTask, Final
<1>2. TypeOK /\ LifecycleInv /\ [Next]_vars => [Promise!Next]_(Promise!vars)
  <2> SUFFICES ASSUME TypeOK, LifecycleInv, [Next]_vars
               PROVE  [Promise!Next]_(Promise!vars)
    OBVIOUS
  <2>1. ASSUME NEW c \in Calls, Register(c)
        PROVE  [Promise!Next]_(Promise!vars)
    <3> DEFINE stale == {d \in Calls : info'[d] # info[d]}
    <3>1. \A d \in stale : info[d].status = "running" /\ info'[d].status = "cancelled"
      BY <2>1, SweptEffect DEF Register
    <3>2. reply' = reply /\ told' = told
      BY <2>1 DEF Register
    <3>3. \A d \in stale : OutcomeOf(d) = "open" /\ OutcomeOf(d)' = "cancelled"
      BY <3>1 DEF OutcomeOf, Final
    <3>4. \A d \in Calls \ stale : OutcomeOf(d)' = OutcomeOf(d)
      BY SameOutcome
    <3>5. \A d \in Calls : AnswerOf(d)' = AnswerOf(d)
      BY <3>2 DEF AnswerOf
    <3>6. Promise!Sweep(stale)
      BY <3>2, <3>3, <3>4, <3>5 DEF Promise!Sweep
    <3>7. QED
      BY <3>6 DEF Promise!Next
  <2>2. ASSUME NEW c \in Calls, CancelTask(c)
        PROVE  [Promise!Next]_(Promise!vars)
    <3>1. OutcomeOf(c) = "open" /\ OutcomeOf(c)' = "cancelled"
      BY <2>2 DEF CancelTask, Cancelled, OutcomeOf, Final, TypeOK, TaskInfo
    <3>2. \A d \in Calls \ {c} : OutcomeOf(d)' = OutcomeOf(d)
      BY <2>2 DEF CancelTask, OutcomeOf, TypeOK
    <3>3. \A d \in Calls : AnswerOf(d)' = AnswerOf(d)
      BY <2>2 DEF CancelTask, AnswerOf
    <3>4. Promise!Cancel(c)
      BY <2>2, <3>1, <3>2, <3>3 DEF Promise!Cancel, CancelTask
    <3>5. QED
      BY <3>4 DEF Promise!Next
  <2>3. ASSUME NEW c \in Calls, FailWaiting(c) \/ Start(c) \/ Finish(c)
        PROVE  [Promise!Next]_(Promise!vars)
    BY <2>3, EndKeepsPromise
  <2>4. ASSUME NEW c \in Calls, NEW o \in {"value", "error"},
               Call(c) \/ Acquire(c) \/ LockTimeout(c) \/ Release(c) \/ Return(c, o)
        PROVE  [Promise!Next]_(Promise!vars)
    <3>1. reply' = reply /\ told' = told
      BY <2>4 DEF Call, Acquire, LockTimeout, Release, Return
    <3>2. \A d \in Calls : info'[d].status = info[d].status
      BY <2>4 DEF Call, Acquire, LockTimeout, Release, Return, TypeOK, TaskInfo
    <3>3. \A d \in Calls : OutcomeOf(d)' = OutcomeOf(d) /\ AnswerOf(d)' = AnswerOf(d)
      BY <3>1, <3>2 DEF OutcomeOf, AnswerOf
    <3>4. QED
      BY <3>1, <3>3 DEF Promise!vars
  <2>5. CASE Tick \/ UNCHANGED vars
    BY <2>5 DEF Tick, vars, Promise!vars, OutcomeOf, AnswerOf
  <2>6. QED
    BY <2>1, <2>2, <2>3, <2>4, <2>5 DEF Next, WrapperStep
<1>3. QED
  BY <1>1, <1>2, TypeCorrect, LifecycleCorrect, PTL DEF Spec, KeepsPromise, Promise!Spec

----------------------------------------------------------------------------
(* The history. *)

\* A set of numbers that is not empty has a least one.
LEMMA LeastStamp == ASSUME NEW S, S \subseteq Nat, S # {} PROVE \E n \in S : \A m \in S : n <= m
<1>1. PICK R : IsWellFoundedOn(R, Nat) /\ \A a, b \in Nat : a < b => <<a, b>> \in R
  <2>1. IsWellFoundedOn(OpToRel(<, Nat), Nat)
    BY NatLessThanWellFounded
  <2>2. \A a, b \in Nat : a < b => <<a, b>> \in OpToRel(<, Nat)
    BY DEF OpToRel
  <2> QED
    BY <2>1, <2>2, Zenon
<1>2. PICK n \in S : \A m \in S : ~(<<m, n>> \in R)
  <2> DEFINE N == Nat
  <2>1. IsWellFoundedOn(R, N) /\ S \subseteq N
    BY <1>1
  <2> HIDE DEF N
  <2> QED
    BY <2>1, WFMin
<1>3. \A m \in S : n <= m
  <2> TAKE m \in S
  <2>1. ~(m < n)
    BY <1>1, <1>2
  <2> QED
    BY <2>1
<1> QED
  BY <1>3

\* Of a finite set whose members have stamps of their own, at most n have fewer than n newer ones:
\* all of them but the oldest are newer than that.
LEMMA NewestFew ==
  ASSUME NEW H, IsFiniteSet(H), NEW stamp, NEW n \in Nat,
         \A c \in H : stamp[c] \in Nat,
         \A c, d \in H : stamp[c] = stamp[d] => c = d
  PROVE  Cardinality({c \in H : Cardinality({d \in H : stamp[d] > stamp[c]}) < n}) <= n
<1> DEFINE Newer(c) == {d \in H : stamp[d] > stamp[c]}
           kept == {c \in H : Cardinality(Newer(c)) < n}
<1>1. kept \subseteq H /\ IsFiniteSet(kept)
  BY FS_Subset
<1>2. SUFFICES Cardinality(kept) <= n
  OBVIOUS
<1>3. CASE kept = {}
  <2> HIDE DEF kept
  <2>1. Cardinality(kept) = 0
    BY <1>3, FS_EmptySet
  <2> QED
    BY <2>1
<1>4. CASE kept # {}
  <2>1. \E oldest \in kept : \A c \in kept : stamp[oldest] <= stamp[c]
    <3> DEFINE held == {stamp[c] : c \in kept}
    <3>1. \A c \in kept : stamp[c] \in Nat
      BY <1>1
    <3> HIDE DEF kept
    <3>2. held \subseteq Nat /\ held # {}
      BY <1>4, <3>1
    <3>3. \A c \in kept : stamp[c] \in held
      OBVIOUS
    <3>4. \A m \in held : \E c \in kept : m = stamp[c]
      OBVIOUS
    <3> HIDE DEF held
    <3>5. PICK m \in held : \A k \in held : m <= k
      BY <3>2, LeastStamp
    <3>6. PICK oldest \in kept : m = stamp[oldest]
      BY <3>4
    <3> QED
      BY <3>3, <3>5, <3>6
  <2>2. PICK oldest \in kept : \A c \in kept : stamp[oldest] <= stamp[c]
    BY <2>1
  <2>3. kept \ {oldest} \subseteq Newer(oldest)
    <3> SUFFICES ASSUME NEW c \in kept, c # oldest  PROVE stamp[c] > stamp[oldest] /\ c \in H
      OBVIOUS
    <3>1. c \in H /\ oldest \in H /\ stamp[oldest] <= stamp[c]
      BY <1>1, <2>2
    <3> HIDE DEF kept
    <3> QED
      BY <3>1
  <2>4. IsFiniteSet(Newer(oldest)) /\ Cardinality(Newer(oldest)) < n
    BY FS_Subset
  <2> HIDE DEF Newer
  <2>5. Cardinality(kept \ {oldest}) <= Cardinality(Newer(oldest))
    BY <2>3, <2>4, FS_Subset
  <2> HIDE DEF kept
  <2>6. /\ Cardinality(kept \ {oldest}) = Cardinality(kept) - 1
        /\ Cardinality(kept \ {oldest}) \in Nat /\ Cardinality(kept) \in Nat
        /\ Cardinality(Newer(oldest)) \in Nat
    BY <1>1, <2>2, <2>4, FS_RemoveElement, FS_CardinalityType
  <2> QED
    BY <2>4, <2>5, <2>6
<1> QED
  BY <1>3, <1>4

\* Every call that began has a stamp of its own.
StampInv ==
  /\ \A c \in Calls : pc[c] # "idle" => info[c].created < stamps
  /\ \A c, d \in Calls :
       pc[c] # "idle" /\ pc[d] # "idle" /\ info[c].created = info[d].created => c = d

LEMMA StampStep == TypeOK /\ StampInv /\ [Next]_vars => StampInv'
<1> SUFFICES ASSUME TypeOK, StampInv, [Next]_vars  PROVE StampInv'
  OBVIOUS
<1>1. stamps \in Nat /\ \A c \in Calls : info[c] \in TaskInfo /\ info[c].created \in Nat
  BY DEF TypeOK, TaskInfo
\* What a later stamp or the same stamps leave true.
<1>2. ASSUME stamps' = stamps, \A c \in Calls : info'[c].created = info[c].created,
             \A c \in Calls : pc'[c] # "idle" => pc[c] # "idle"
      PROVE  StampInv'
  BY <1>2 DEF StampInv
<1>3. ASSUME NEW c \in Calls, Call(c)  PROVE StampInv'
  <2>1. /\ stamps' = stamps + 1 /\ info'[c].created = stamps
        /\ \A d \in Calls : d # c => info'[d] = info[d] /\ pc'[d] = pc[d]
    BY <1>1, <1>3 DEF Call, TypeOK, TaskInfo
  <2> QED
    BY <1>1, <2>1 DEF StampInv
<1>4. ASSUME NEW c \in Calls, Register(c)  PROVE StampInv'
  <2>1. \A d \in Calls : info'[d].created = info[d].created
    BY <1>1, <1>4 DEF Register, Swept, Cancelled, TaskInfo
  <2> QED
    BY <1>2, <1>4, <2>1 DEF Register, TypeOK
<1>5. ASSUME NEW c \in Calls, FailWaiting(c) \/ Start(c) \/ Finish(c)  PROVE StampInv'
  <2>1. \A s : Moved(info[c], s).created = info[c].created
    BY <1>1 DEF Moved, TaskInfo
  <2>2. info' = info \/ \E s : info' = [info EXCEPT ![c] = Moved(info[c], s)]
    BY <1>5 DEF FailWaiting, Start, Finish, Transition
  <2>3. \A d \in Calls : info'[d].created = info[d].created
    BY <2>1, <2>2 DEF TypeOK
  <2>4. stamps' = stamps /\ \A d \in Calls : pc'[d] # "idle" => pc[d] # "idle"
    BY <1>5 DEF FailWaiting, Start, Finish, TypeOK
  <2> QED
    BY <1>2, <2>3, <2>4
<1>6. ASSUME NEW c \in Calls, CancelTask(c)  PROVE StampInv'
  <2>1. \A d \in Calls : info'[d].created = info[d].created
    BY <1>1, <1>6 DEF CancelTask, Cancelled, TaskInfo, TypeOK
  <2> QED
    BY <1>2, <1>6, <2>1 DEF CancelTask
<1>7. ASSUME NEW c \in Calls, NEW o \in {"value", "error"},
             Acquire(c) \/ LockTimeout(c) \/ Release(c) \/ Return(c, o)
      PROVE  StampInv'
  BY <1>2, <1>7 DEF Acquire, LockTimeout, Release, Return, TypeOK
<1>8. CASE Tick \/ UNCHANGED vars
  BY <1>2, <1>8 DEF Tick, vars
<1> QED
  BY <1>3, <1>4, <1>5, <1>6, <1>7, <1>8 DEF Next, WrapperStep

\* A registration leaves of the final tasks those with few newer final ones.
LEMMA HistoryPruned ==
  ASSUME TypeOK, LifecycleInv, StampInv, NEW c \in Calls, Register(c)
  PROVE  Cardinality({d \in tasks' : info'[d].status \in Final}) <= MaxHistory
<1> DEFINE known == tasks \union {c}
           history == {d \in known : info'[d].status \in Final}
           stamp == [d \in Calls |-> info'[d].created]
           Newer(d) == {e \in history : info'[e].created > info'[d].created}
           newer(d) == {e \in history : stamp[e] > stamp[d]}
<1>1. info' = Swept(known) /\ tasks' = known \ Pruned(known, Swept(known)) /\ pc[c] = "created"
  BY DEF Register
<1>2. history \subseteq Calls /\ \A d \in history : pc[d] # "idle"
  BY <1>1 DEF LifecycleInv, TypeOK
<1>3. \A d \in Calls : info'[d].created = info[d].created /\ info[d].created \in Nat
  BY <1>1 DEF TypeOK, TaskInfo, Swept, Cancelled
<1>4. IsFiniteSet(history)
  BY <1>2, CallsAssumption, FS_Subset
<1>5. \A d, e \in history : stamp[d] = stamp[e] => d = e
  BY <1>2, <1>3 DEF StampInv
<1>6. \A d \in history : stamp[d] \in Nat /\ Newer(d) = newer(d) /\ Cardinality(newer(d)) \in Nat
  <2> TAKE d \in history
  <2>1. stamp[d] \in Nat /\ Newer(d) = newer(d)
    BY <1>2, <1>3
  <2>2. IsFiniteSet(newer(d))
    BY <1>4, FS_Subset
  <2> QED
    BY <2>1, <2>2, FS_CardinalityType
<1>7. Pruned(known, Swept(known)) = {d \in history : Cardinality(Newer(d)) >= MaxHistory}
  BY <1>1 DEF Pruned
<1>8. {d \in tasks' : info'[d].status \in Final} = {d \in history : Cardinality(newer(d)) < MaxHistory}
  <2>1. {d \in tasks' : info'[d].status \in Final}
          = {d \in history : ~(Cardinality(Newer(d)) >= MaxHistory)}
    <3> HIDE DEF Newer
    <3> QED
      BY <1>1, <1>7
  <2>2. \A d \in history :
          ~(Cardinality(Newer(d)) >= MaxHistory) <=> Cardinality(newer(d)) < MaxHistory
    <3> TAKE d \in history
    <3>1. PICK few \in Nat : few = Cardinality(newer(d)) /\ few = Cardinality(Newer(d))
      BY <1>6
    <3> HIDE DEF Newer, newer, history
    <3> QED
      BY <3>1, TimeAssumption
  <2> HIDE DEF Newer, newer
  <2> QED
    BY <2>1, <2>2
<1>9. \A d \in history : stamp[d] \in Nat
  BY <1>6
<1> HIDE DEF history, stamp
<1> QED
  BY <1>4, <1>5, <1>8, <1>9, NewestFew, TimeAssumption

\* Each registration leaves at most _max_history final tasks in _tasks, however many calls, cancels
\* and stale sweeps came before it (create_task's _cleanup_old).
THEOREM HistoryCorrect == Spec => HistoryBounded
<1>1. Init => StampInv
  BY DEF Init, StampInv
<1>2. ASSUME TypeOK, LifecycleInv, StampInv, [Next]_vars,
             \E c \in Calls : pc[c] = "created" /\ pc'[c] = "waiting"
      PROVE  \E c \in Calls : Register(c)
  BY <1>2 DEF Next, WrapperStep, vars, Call, Acquire, LockTimeout, FailWaiting, Start, Return, Finish, Release,
     CancelTask, Tick, TypeOK
<1>3. TypeOK /\ LifecycleInv /\ StampInv /\ [Next]_vars =>
        [(\E c \in Calls : pc[c] = "created" /\ pc'[c] = "waiting")
          => Cardinality({c \in tasks' : info'[c].status \in Final}) <= MaxHistory]_vars
  BY <1>2, HistoryPruned
<1> QED
  BY TypeCorrect, LifecycleCorrect, StampStep, <1>1, <1>3, PTL DEF Spec, HistoryBounded

=============================================================================
