---------------------------- MODULE FleetServer ----------------------------
(* The fleet server at /fleet/mcp (gateway/fleet.py): every machine of a token behind three tools.
   A request is authenticated, its tool asks whether the token may use the machine, and MachineTools
   and Call then open a session that speaks to the gateway's own handler in-process, round by round
   (initialize, the question); every round is decided again on the configuration of its moment
   (GatewayAdmission models that decision, here it is one read of `access`).

   What a machine replies is buffered until the consumer has its answer.  The bytes are reserved
   from one budget that all requests share, chunk by chunk, and given back when the request ends -
   also when the consumer stops reading, leaves, or the machine goes silent.  One event loop runs
   everything: a handler is interrupted only where it awaits. *)
EXTENDS Integers, FiniteSets

CONSTANTS
  FleetRequests,            \* consumer requests
  MAX_REPLY, MAX_BUFFERED,  \* MAX_REPLY_BYTES and MAX_BUFFERED_BYTES, in units
  ChunkSizes,          \* the sizes a chunk may have
  MaxAccessChanges     \* bound: edits of the configuration

ASSUME FleetAssumption ==
  /\ MAX_REPLY \in Nat /\ MAX_BUFFERED \in Nat /\ MaxAccessChanges \in Nat
  /\ ChunkSizes \subseteq Nat \ {0}

VARIABLES
  access,    \* what the configuration says now: "ok", "unknown", "not_allowed" or "unexposed"
  changes,
  request,   \* by request: its step
  size,      \* by request: bytes of the reply now arriving
  used,      \* _ReplyBudget.used
  held,      \* by request: _Reservation.held
  said       \* by request: what its answer says, "" before it is known

fleetVars == <<access, changes, request, size, used, held, said>>

Refusals == {"unknown", "not_allowed", "unexposed"}

-----------------------------------------------------------------------------
(* FleetEndpoint.__call__: the token first, then the body; a denied request takes nothing. *)
BeginRequest(r) ==
  /\ request[r] = "new"
  /\ \/ /\ access = "unknown"
        /\ said' = [said EXCEPT ![r] = "unknown"] /\ request' = [request EXCEPT ![r] = "over"]
     \/ /\ access # "unknown"
        /\ \/ /\ said' = [said EXCEPT ![r] = "bad_body"] /\ request' = [request EXCEPT ![r] = "over"]
           \/ /\ request' \in {[request EXCEPT ![r] = step] : step \in {"list", "admit"}}
              /\ UNCHANGED said
  /\ UNCHANGED <<access, changes, size, used, held>>

\* ListMachines: the probes run beside each other, each cut off; a late one reads as unreachable.
ListMachines(r) ==
  /\ request[r] = "list"
  /\ said' = [said EXCEPT ![r] = IF access = "unknown" THEN "unknown" ELSE "listing"]
  /\ request' = [request EXCEPT ![r] = "answer"]
  /\ UNCHANGED <<access, changes, size, used, held>>

\* _admit: a clear error without opening a session.
Admit(r) ==
  /\ request[r] = "admit"
  /\ IF access \in Refusals
     THEN /\ said' = [said EXCEPT ![r] = access]
          /\ request' = [request EXCEPT ![r] = "answer"]
     ELSE request' = [request EXCEPT ![r] = "initialize"] /\ UNCHANGED said
  /\ UNCHANGED <<access, changes, size, used, held>>

-----------------------------------------------------------------------------
(* One round of the session. *)

\* The session failed: the refusal of this moment, if there is one, is the text; then what the cap
\* refused, then a rejected key.
FailRequest(r, why) ==
  /\ said' = [said EXCEPT ![r] = IF access \in Refusals THEN access ELSE why]
  /\ request' = [request EXCEPT ![r] = "answer"]
  /\ size' = [size EXCEPT ![r] = 0]

\* Gateway.handle decides and forwards; the machine may reject the gateway's key, or stay silent
\* until the session's own timeout.
Handle(r) ==
  /\ request[r] \in {"initialize", "question"}
  /\ \/ access \in Refusals /\ FailRequest(r, "rejected_key")
     \/ access = "ok" /\ \E why \in {"rejected_key", "timed_out", "unreachable"} : FailRequest(r, why)
     \/ /\ access = "ok"
        /\ request' = [request EXCEPT ![r] = IF @ = "initialize" THEN "initializing" ELSE "answering"]
        /\ UNCHANGED <<said, size>>
  /\ UNCHANGED <<access, changes, used, held>>

Arriving(r) == request[r] \in {"initializing", "answering"}

\* _ReplyCap: the chunk is refused before it is counted.
Reserve(r, chunk) ==
  /\ used' = used + chunk
  /\ held' = [held EXCEPT ![r] = @ + chunk]
Chunk(r) ==
  /\ Arriving(r)
  /\ \E chunk \in ChunkSizes :
       \/ size[r] + chunk > MAX_REPLY /\ FailRequest(r, "too_large") /\ UNCHANGED <<used, held>>
       \/ /\ size[r] + chunk <= MAX_REPLY /\ used + chunk > MAX_BUFFERED
          /\ FailRequest(r, "too_many") /\ UNCHANGED <<used, held>>
       \/ /\ size[r] + chunk <= MAX_REPLY /\ used + chunk <= MAX_BUFFERED
          /\ size' = [size EXCEPT ![r] = @ + chunk]
          /\ Reserve(r, chunk)
          /\ UNCHANGED <<request, said>>
  /\ UNCHANGED <<access, changes>>

\* Mutant: the budget is given back while the answer is still held.
EndReplyFrees(r) ==
  /\ Arriving(r)
  /\ size' = [size EXCEPT ![r] = 0]
  /\ used' = used - size[r]
  /\ IF request[r] = "initializing"
     THEN request' = [request EXCEPT ![r] = "question"] /\ UNCHANGED said
     ELSE request' = [request EXCEPT ![r] = "answer"] /\ said' = [said EXCEPT ![r] = "result"]
  /\ UNCHANGED <<access, changes, held>>
\* The machine's reply ends: the next round, or the result.  Nothing is given back yet.
EndReply(r) ==
  /\ Arriving(r)
  /\ size' = [size EXCEPT ![r] = 0]
  /\ IF request[r] = "initializing"
     THEN request' = [request EXCEPT ![r] = "question"] /\ UNCHANGED said
     ELSE request' = [request EXCEPT ![r] = "answer"] /\ said' = [said EXCEPT ![r] = "result"]
  /\ UNCHANGED <<access, changes, used, held>>

\* It breaks off in the middle, or says nothing more.
BreakReply(r) ==
  /\ Arriving(r)
  /\ FailRequest(r, "timed_out")
  /\ UNCHANGED <<access, changes, used, held>>

-----------------------------------------------------------------------------
(* The answer goes out: each message within its time, or the request ends without it. *)
GiveBack(r) ==
  /\ used' = used - held[r]
  /\ held' = [held EXCEPT ![r] = 0]

Deliver(r) ==
  /\ request[r] = "answer"
  /\ request' = [request EXCEPT ![r] = "over"]
  /\ GiveBack(r)
  /\ UNCHANGED <<access, changes, size, said>>

\* Mutant: the send has no timeout.
SendWaits(r) == request[r] = "stuck" /\ UNCHANGED fleetVars
\* The consumer reads no further, or has left: SEND_TIMEOUT_SECONDS ends the request.
SendTimesOut(r) ==
  /\ request[r] = "stuck"
  /\ request' = [request EXCEPT ![r] = "over"]
  /\ GiveBack(r)
  /\ UNCHANGED <<access, changes, size, said>>

StopReading(r) ==
  /\ request[r] = "answer"
  /\ request' = [request EXCEPT ![r] = "stuck"]
  /\ UNCHANGED <<access, changes, size, used, held, said>>

\* The consumer disconnects while its tool runs: the task is cancelled where it awaits.
Cancel(r) ==
  /\ request[r] \in {"list", "admit", "initialize", "question", "initializing", "answering"}
  /\ request' = [request EXCEPT ![r] = "over"]
  /\ said' = [said EXCEPT ![r] = "disconnect"]
  /\ size' = [size EXCEPT ![r] = 0]
  /\ GiveBack(r)
  /\ UNCHANGED <<access, changes>>

\* The configuration is edited and read again.
Reconfigure ==
  /\ changes < MaxAccessChanges
  /\ access' \in ({"ok"} \cup Refusals) \ {access}
  /\ changes' = changes + 1
  /\ UNCHANGED <<request, size, used, held, said>>

-----------------------------------------------------------------------------
FleetIdle(step) ==
  /\ access = "ok" /\ changes = 0
  /\ request = [r \in FleetRequests |-> step] /\ size = [r \in FleetRequests |-> 0]
  /\ used = 0 /\ held = [r \in FleetRequests |-> 0] /\ said = [r \in FleetRequests |-> ""]
FleetInit == FleetIdle("new")

RequestStep(r) == BeginRequest(r) \/ ListMachines(r) \/ Admit(r) \/ Handle(r) \/ EndReply(r) \/ BreakReply(r)
FleetNext ==
  \/ \E r \in FleetRequests : RequestStep(r) \/ Chunk(r) \/ Deliver(r) \/ SendTimesOut(r) \/ StopReading(r) \/ Cancel(r)
  \/ Reconfigure
FleetSpec == FleetInit /\ [][FleetNext]_fleetVars
(* The loop runs every ready handler, and every wait has its timeout: the session's for a machine,
   SEND_TIMEOUT_SECONDS for a consumer. *)
FleetFairness ==
  \A r \in FleetRequests : WF_fleetVars(RequestStep(r)) /\ WF_fleetVars(Deliver(r) \/ SendTimesOut(r))

-----------------------------------------------------------------------------
(* The types of the requests and the budget. *)
FleetTypeOK ==
  /\ access \in {"ok"} \cup Refusals /\ changes \in 0..MaxAccessChanges
  /\ request \in [FleetRequests -> {"new", "list", "admit", "initialize", "question", "initializing",
                               "answering", "answer", "stuck", "over"}]
  /\ size \in [FleetRequests -> 0..MAX_REPLY]
  /\ used \in Int /\ held \in [FleetRequests -> Nat]

\* The units of the budget that requests hold, each counted with its holder.
Reserved == UNION {{r} \X (1..held[r]) : r \in FleetRequests}

(* The budget is exactly what the unfinished requests hold, never over its limit, and a request
   that is over holds nothing - however its rounds, refusals and cancellation fall together. *)
BudgetExact ==
  /\ used = Cardinality(Reserved)
  /\ used <= MAX_BUFFERED
  /\ \A r \in FleetRequests : request[r] \in {"new", "over"} => held[r] = 0

(* A share of the budget always comes back: a consumer that stops reading, or a machine that stops
   answering, does not keep it. *)
BudgetReturns == \A r \in FleetRequests : (held[r] > 0) ~> (held[r] = 0)
==============================================================================
