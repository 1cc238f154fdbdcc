------------------------------ MODULE UiaWorker ------------------------------
(* UI Automation on Windows (platform/win/uia.py): ElementTree, ClickElement and TypeElement ask one
   dedicated thread, with a timeout.  A call into a hung application cannot be cancelled: the thread is
   abandoned, with the refs it listed, and the next call starts another, which makes the process-wide
   client its own.  The abandoned thread goes on when its call returns, beside the new one.

   A thread is at a call into an application from the step that leads to it on: how long it stays there
   is the application's affair, and every wait for it may time out. *)
EXTENDS Naturals, Sequences, FiniteSets

CONSTANTS
  OpOf,                \* the tool calls in the order they begin: "tree", "click" or "type"
  MaxThreads,          \* bound: worker threads, in the order they are started
  MAX_STUCK_WORKERS

ASSUME UiaAssumption == OpOf \in Seq({"tree", "click", "type"}) /\ MaxThreads \in Nat /\ MAX_STUCK_WORKERS \in Nat

UiaCalls == DOMAIN OpOf
Op(c) == OpOf[c]
Threads == 1..MaxThreads

VARIABLES
  uiaCall,     \* each tool call: what it does, its ref, where it is, its reply
  jobOf,       \* each call's job: where it is on its thread and how it ended
  thread,      \* each thread: where it is, whether it was abandoned, its queue and the job it runs
  current,     \* UiaWorker._current
  overrun,     \* UiaWorker._stuck
  uiaLock,     \* UiaWorker._lock: the call that holds it
  client,      \* whose the process-wide client is
  clientLock,  \* _client_lock: the thread that holds it
  uiaTrees,    \* the number of the latest tree of this process
  table,       \* each thread's RefTable: the number of its latest tree
  known,       \* the refs a client has: the thread that listed each, and its number
  acted,       \* what each call did to the application, and with which thread's element
  belated      \* history: the calls that began an action when their thread was abandoned

uiaVars == <<uiaCall, jobOf, thread, current, overrun, uiaLock, client, clientLock, uiaTrees, table, known, acted, belated>>

None == 0
NoRef == <<None, 0>>
Wake == 0            \* the empty job that wakes an abandoned thread
NoJob == [step |-> "none", result |-> "none", tree |-> NoRef]
Alone == UNCHANGED <<jobOf, thread, current, overrun, client, clientLock, uiaTrees, table, acted, belated>>

-----------------------------------------------------------------------------
(* UiaWorker.call, on the caller's thread.  Each wait ends in time or not; what is found later, after
   the wait ended, no longer matters to the caller. *)

Goto(c, step) == uiaCall' = [uiaCall EXCEPT ![c].at = step]
Leave(c, reply) == uiaCall' = [uiaCall EXCEPT ![c].at = "over", ![c].reply = reply] /\ uiaLock' = None

\* Two tools at once: one of the desktop's slot and an AnnotatedSnapshot, which lists a tree too.
BeginUia(c) ==
  /\ uiaCall[c].at = "new" /\ (c > 1 => uiaCall[c - 1].at # "new") /\ (c > 2 => uiaCall[c - 2].at = "over")
  /\ \E ref \in IF Op(c) = "tree" \/ known = {} THEN {NoRef} ELSE known :
       uiaCall' = [uiaCall EXCEPT ![c].at = "lock", ![c].ref = ref]
  /\ UNCHANGED <<uiaLock, known>> /\ Alone

Busy(c) ==
  /\ uiaCall[c].at = "lock" /\ uiaLock # None
  /\ uiaCall' = [uiaCall EXCEPT ![c].at = "over", ![c].reply = "not_asked"]
  /\ UNCHANGED <<uiaLock, known>> /\ Alone

\* _running: threads that ended are forgotten, and too many that did not are an answer.
Ended(w) == thread[w].at \in {"over", "failed"}
TooManyStuck(stuck) == Cardinality(stuck) >= MAX_STUCK_WORKERS
Running(c) ==
  /\ uiaCall[c].at = "lock" /\ uiaLock = None
  /\ LET stuck == {w \in overrun : ~Ended(w)}
         unborn == {w \in Threads : thread[w].at = "unborn"}
     IN \/ /\ current # None
           /\ uiaCall' = [uiaCall EXCEPT ![c].at = "ready", ![c].worker = current]
           /\ uiaLock' = c /\ UNCHANGED <<thread, current, overrun>>
        \/ /\ current = None /\ TooManyStuck(stuck)
           /\ overrun' = stuck /\ Leave(c, "not_asked") /\ UNCHANGED <<thread, current>>
        \/ /\ current = None /\ ~TooManyStuck(stuck) /\ unborn # {}
           /\ LET w == CHOOSE w \in unborn : \A v \in unborn : w <= v
              IN /\ thread' = [thread EXCEPT ![w].at = "starting"]
                 /\ current' = w
                 /\ uiaCall' = [uiaCall EXCEPT ![c].at = "ready", ![c].worker = w]
           /\ overrun' = stuck /\ uiaLock' = c
  /\ UNCHANGED <<jobOf, client, clientLock, uiaTrees, table, known, acted, belated>>

\* Mutant: the abandoned thread is not woken.
AbandonSilently(w) ==
  /\ thread' = [thread EXCEPT ![w].abandoned = TRUE]
  /\ overrun' = overrun \cup {w} /\ current' = None
Abandon(w) ==
  /\ thread' = [thread EXCEPT ![w].abandoned = TRUE, ![w].jobs = Append(@, Wake)]
  /\ overrun' = overrun \cup {w} /\ current' = None

Ready(w) == thread[w].at \notin {"unborn", "starting", "making"}
Worker(c) == uiaCall[c].worker

\* A start that takes long is not a hung one: it is abandoned only when its own time is over.
NotReady(c) ==
  /\ uiaCall[c].at = "ready" /\ ~Ready(Worker(c))
  /\ Goto(c, "slow")
  /\ UNCHANGED <<uiaLock, known>> /\ Alone
SlowStart(c) ==
  /\ uiaCall[c].at = "slow"
  /\ Leave(c, "not_asked")
  /\ Abandon(Worker(c)) \/ UNCHANGED <<thread, overrun, current>>
  /\ UNCHANGED <<jobOf, client, clientLock, uiaTrees, table, known, acted, belated>>

\* A failed start is the next call's to repeat; a call with too little time left is not begun.
PutJob(c) ==
  /\ uiaCall[c].at = "ready" /\ Ready(Worker(c))
  /\ \/ /\ thread[Worker(c)].at = "failed" /\ Leave(c, "failed") /\ current' = None
        /\ UNCHANGED <<thread, jobOf>>
     \/ /\ thread[Worker(c)].at # "failed" /\ Leave(c, "not_asked")
        /\ UNCHANGED <<thread, current, jobOf>>
     \/ /\ thread[Worker(c)].at # "failed" /\ Goto(c, "wait")
        /\ thread' = [thread EXCEPT ![Worker(c)].jobs = Append(@, c)]
        /\ jobOf' = [jobOf EXCEPT ![c].step = "queued"]
        /\ UNCHANGED <<current, uiaLock>>
  /\ UNCHANGED <<overrun, client, clientLock, uiaTrees, table, known, acted, belated>>

Done(c) == jobOf[c].result # "none"
GetResult(c) ==
  /\ uiaCall[c].at = "wait" /\ Done(c)
  /\ uiaLock' = None
  /\ uiaCall' = [uiaCall EXCEPT ![c].at = IF jobOf[c].result = "yours" THEN "mine" ELSE "over",
                                ![c].reply = IF jobOf[c].result = "yours" THEN @ ELSE jobOf[c].result]
  /\ known' = IF jobOf[c].result = "listed" THEN known \cup {jobOf[c].tree} ELSE known
  /\ Alone
TimesOut(c) ==
  /\ uiaCall[c].at = "wait" /\ ~Done(c)
  /\ Goto(c, "late")
  /\ UNCHANGED <<uiaLock, known>> /\ Alone
\* Mutant: the caller goes on by hand although its job may have acted.
GiveUpClicks(c) ==
  /\ uiaCall[c].at = "late"
  /\ Abandon(Worker(c)) /\ uiaLock' = None
  /\ Goto(c, IF Op(c) = "tree" THEN "over" ELSE "mine")
  /\ UNCHANGED <<jobOf, client, clientLock, uiaTrees, table, known, acted, belated>>
GiveUp(c) ==
  /\ uiaCall[c].at = "late"
  /\ Abandon(Worker(c)) /\ Leave(c, "may_have_happened")
  /\ UNCHANGED <<jobOf, client, clientLock, uiaTrees, table, known, acted, belated>>

\* click_element and type_element go on with the mouse or the keys, on the caller's own thread.
ByHand(c) ==
  /\ uiaCall[c].at = "mine"
  /\ acted' = [acted EXCEPT ![c] = Append(@, [how |-> "hand", on |-> Worker(c)])]
  /\ uiaCall' = [uiaCall EXCEPT ![c].at = "over", ![c].reply = "done"]
  /\ UNCHANGED <<jobOf, thread, current, overrun, uiaLock, client, clientLock, uiaTrees, table, known, belated>>

-----------------------------------------------------------------------------
(* The worker's thread. *)

Callers == UNCHANGED <<uiaCall, current, overrun, uiaLock, known>>

\* Mutant: an abandoned start makes its client all the same.
MakeClientUnasked(w) ==
  /\ thread[w].at = "starting" /\ clientLock = None
  /\ clientLock' = w /\ thread' = [thread EXCEPT ![w].at = "making"]
\* open_session: a start that was abandoned leaves the client to the thread that came after it.
MakeClient(w) ==
  /\ thread[w].at = "starting" /\ clientLock = None
  /\ IF thread[w].abandoned THEN thread' = [thread EXCEPT ![w].at = "failed"] /\ UNCHANGED clientLock
     ELSE clientLock' = w /\ thread' = [thread EXCEPT ![w].at = "making"]
SwapClient(w) ==
  /\ thread[w].at = "making"
  /\ client' = w /\ clientLock' = None /\ thread' = [thread EXCEPT ![w].at = "loop"]
StartThread(w) ==
  /\ \/ MakeClient(w) /\ UNCHANGED client
     \/ SwapClient(w)
     \/ /\ thread[w].at \in {"starting", "making"}
        /\ thread' = [thread EXCEPT ![w].at = "failed"]
        /\ clientLock' = (IF clientLock = w THEN None ELSE clientLock) /\ UNCHANGED client
  /\ Callers /\ UNCHANGED <<jobOf, uiaTrees, table, acted, belated>>

\* It asks whether it was abandoned, then waits for a job: one that is there by then still runs.
Loop(w) ==
  /\ \/ thread[w].at = "loop"
        /\ thread' = [thread EXCEPT ![w].at = IF thread[w].abandoned THEN "over" ELSE "get"]
        /\ UNCHANGED jobOf
     \/ /\ thread[w].at = "get" /\ thread[w].jobs # <<>>
        /\ LET job == Head(thread[w].jobs)
           IN /\ thread' = [thread EXCEPT ![w].jobs = Tail(@), ![w].job = job,
                                          ![w].at = IF job = Wake THEN "loop" ELSE "job"]
              /\ jobOf' = IF job = Wake THEN jobOf
                          ELSE [jobOf EXCEPT ![job].step = IF Op(job) = "tree" THEN "walk" ELSE "live"]
  /\ Callers /\ UNCHANGED <<client, clientLock, uiaTrees, table, acted, belated>>

OnJob(w, step) == thread[w].at = "job" /\ jobOf[thread[w].job].step = step
EndJob(w, result, tree) ==
  /\ jobOf' = [jobOf EXCEPT ![thread[w].job] = [step |-> "done", result |-> result, tree |-> tree]]
  /\ thread' = [thread EXCEPT ![w].at = "loop", ![w].job = None]
\* The job's next call into the application, which acts on it unless it only reads.
NextCallOf(w, step, acts) ==
  /\ jobOf' = [jobOf EXCEPT ![thread[w].job].step = step]
  /\ belated' = IF acts /\ thread[w].abandoned THEN belated \cup {thread[w].job} ELSE belated
  /\ UNCHANGED thread

\* Mutant: every thread numbers its own trees.
NumberOwn(w) == table[w] + 1
Number(w) == uiaTrees + 1
\* A tree's walk, cut short by a deadline or because it was abandoned, is listed as far as it got.
WalkWindow(w) ==
  /\ OnJob(w, "walk")
  /\ \/ EndJob(w, "failed", NoRef) /\ UNCHANGED <<uiaTrees, table>>
     \/ /\ uiaTrees' = uiaTrees + 1 /\ table' = [table EXCEPT ![w] = Number(w)]
        /\ EndJob(w, "listed", <<w, Number(w)>>)
  /\ Callers /\ UNCHANGED <<client, clientLock, acted, belated>>

\* _live: a ref of this thread's latest tree, whose element is there, the same and enabled; then
\* its own pattern, or without one the mouse's point (click) or the focus (type).
LiveElement(w) ==
  /\ OnJob(w, "live")
  /\ \/ EndJob(w, "failed", NoRef) /\ UNCHANGED belated
     \/ /\ table[w] = uiaCall[thread[w].job].ref[2] /\ table[w] # 0
        /\ \/ NextCallOf(w, "own", TRUE)
           \/ NextCallOf(w, "rest", Op(thread[w].job) = "type")
  /\ Callers /\ UNCHANGED <<client, clientLock, uiaTrees, table, acted>>

\* Invoke or SetValue: accepted; plainly refused, which lets the mouse or the keys try unless the
\* caller has gone; or the element went away in the middle, which may have been the action's doing.
\* A refused call is taken never to have acted, as uia.py takes it (COMError is the application's no).
Refused(w) ==
  IF thread[w].abandoned THEN EndJob(w, "may_have_happened", NoRef) /\ UNCHANGED belated
  ELSE NextCallOf(w, "rest", FALSE)
DidOwn(w) ==
  acted' = [acted EXCEPT ![thread[w].job] = Append(@, [how |-> "own", on |-> w])]
OwnPattern(w) ==
  /\ OnJob(w, "own")
  /\ \/ DidOwn(w) /\ EndJob(w, "done", NoRef) /\ UNCHANGED belated
     \/ Refused(w) /\ UNCHANGED acted
     \/ (DidOwn(w) \/ UNCHANGED acted) /\ EndJob(w, "may_have_happened", NoRef) /\ UNCHANGED belated
  /\ Callers /\ UNCHANGED <<client, clientLock, uiaTrees, table>>
RestOfJob(w) ==
  /\ OnJob(w, "rest")
  /\ EndJob(w, "failed", NoRef) \/ EndJob(w, "yours", NoRef)
  /\ Callers /\ UNCHANGED <<client, clientLock, uiaTrees, table, acted, belated>>

ThreadStep(w) == StartThread(w) \/ Loop(w) \/ WalkWindow(w) \/ LiveElement(w) \/ OwnPattern(w) \/ RestOfJob(w)
CallStep(c) ==
  \/ BeginUia(c) \/ Busy(c) \/ Running(c) \/ NotReady(c) \/ SlowStart(c) \/ PutJob(c)
  \/ GetResult(c) \/ TimesOut(c) \/ GiveUp(c) \/ ByHand(c)

-----------------------------------------------------------------------------
UiaIdle(step) ==
  /\ uiaCall = [c \in UiaCalls |-> [ref |-> NoRef, at |-> step, worker |-> None, reply |-> "none"]]
  /\ jobOf = [c \in UiaCalls |-> NoJob]
  /\ thread = [w \in Threads |-> [at |-> "unborn", abandoned |-> FALSE, jobs |-> <<>>, job |-> None]]
  /\ current = None /\ overrun = {} /\ uiaLock = None /\ client = None /\ clientLock = None
  /\ uiaTrees = 0 /\ table = [w \in Threads |-> 0] /\ known = {}
  /\ acted = [c \in UiaCalls |-> <<>>] /\ belated = {}
UiaInit == UiaIdle("new")
UiaNext == (\E c \in UiaCalls : CallStep(c)) \/ (\E w \in Threads : ThreadStep(w))
UiaSpec == UiaInit /\ [][UiaNext]_uiaVars
(* Every call into an application returns in the end. *)
UiaFairness == \A w \in Threads : WF_uiaVars(ThreadStep(w))

-----------------------------------------------------------------------------
(* The types of the calls, the jobs and the threads. *)
UiaTypeOK ==
  /\ current \in Threads \cup {None} /\ overrun \subseteq Threads /\ uiaLock \in UiaCalls \cup {None}
  /\ client \in Threads \cup {None} /\ clientLock \in Threads \cup {None}
  /\ \A w \in Threads : thread[w].at \in {"unborn", "starting", "making", "failed", "loop", "get", "job", "over"}
  /\ known \subseteq Threads \X (1..uiaTrees) /\ belated \subseteq UiaCalls

Replied(c, reply) == uiaCall[c].at = "over" /\ uiaCall[c].reply = reply

(* What the worker promises its callers: a call acts at most once, on the element its ref was listed
   for, and says what it did (a time-out is never followed by the mouse or the keys, and a call that
   was "not asked" or that failed never acted); the thread in use has the process-wide client, whatever
   an abandoned start does later; and no more threads are alive than the limit. *)
ActsOnce ==
  \A c \in UiaCalls :
    /\ Len(acted[c]) <= 1
    /\ acted[c] # <<>> => acted[c][1].on = uiaCall[c].ref[1]
    /\ Replied(c, "not_asked") \/ Replied(c, "failed") => acted[c] = <<>>
    /\ Replied(c, "done") => Len(acted[c]) = 1
ThreadsApart ==
  /\ current # None /\ Ready(current) /\ thread[current].at # "failed" => client = current
  /\ Cardinality({w \in Threads : thread[w].at # "unborn" /\ ~Ended(w)}) <= MAX_STUCK_WORKERS
UiaPromise == ActsOnce /\ ThreadsApart

(* "An abandoned worker's thread ends when its call returns" (uia.py:8), so a hung application costs a
   thread only for as long as it hangs. *)
AbandonedEnds == \A w \in Threads : thread[w].abandoned ~> Ended(w)

(* "an abandoned action stops after the call that hung" (uia.py:17): no action is begun for a call that
   was given up. *)
AbandonedActionStops == belated = {}
==============================================================================
