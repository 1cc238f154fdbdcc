---------------------------- MODULE CallPromise ----------------------------
(***************************************************************************)
(* What the task manager promises of its calls, without threads, slots and *)
(* clocks: a call has one outcome, decided once and in one moment; its     *)
(* client is told that outcome; a CancelTask that reports success is what  *)
(* decided it.                                                             *)
(***************************************************************************)
CONSTANT Calls

VARIABLES
    outcome,     \* of each call, "open" until decided
    answer,      \* the outcome its client was told
    confirmed    \* the calls some CancelTask reported as cancelled

vars == <<outcome, answer, confirmed>>

Init ==
    /\ outcome = [c \in Calls |-> "open"]
    /\ answer = [c \in Calls |-> "none"]
    /\ confirmed = {}

\* The call itself ends, and its client is told so.
Settle(c, how) ==
    /\ outcome[c] = "open"
    /\ outcome' = [outcome EXCEPT ![c] = how]
    /\ answer' = [answer EXCEPT ![c] = how]
    /\ UNCHANGED confirmed

\* CancelTask; the call's client is told later.
Cancel(c) ==
    /\ outcome[c] = "open"
    /\ outcome' = [outcome EXCEPT ![c] = "cancelled"]
    /\ confirmed' = confirmed \union {c}
    /\ UNCHANGED answer

\* The sweep cancels any number of calls, and nobody is told.
Sweep(stale) ==
    /\ \A c \in stale : outcome[c] = "open"
    /\ outcome' = [c \in Calls |-> IF c \in stale THEN "cancelled" ELSE outcome[c]]
    /\ UNCHANGED <<answer, confirmed>>

\* The thread of a cancelled call comes to its end.
AnswerCancelled(c) ==
    /\ outcome[c] = "cancelled"
    /\ answer[c] = "none"
    /\ answer' = [answer EXCEPT ![c] = "cancelled"]
    /\ UNCHANGED <<outcome, confirmed>>

Next ==
    \/ \E c \in Calls, how \in {"completed", "failed"} : Settle(c, how)
    \/ \E c \in Calls : Cancel(c) \/ AnswerCancelled(c)
    \/ \E stale \in SUBSET Calls : Sweep(stale)

Spec == Init /\ [][Next]_vars

=============================================================================
