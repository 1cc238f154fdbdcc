-------------------------- MODULE GatewayUpstream --------------------------
(***************************************************************************)
(* What the gateway does with a request it has admitted                    *)
(* (gateway/app.py, _send_upstream to _relay): it sends it to the machine  *)
(* on a pooled keep-alive connection or a new one, sends it once more when *)
(* a pooled connection was already dead, relays the stream, and writes one *)
(* access-log line.                                                        *)
(*                                                                         *)
(* The machine and its connections are the environment.  Two things about  *)
(* machines that _send_upstream states it rests on are built in: a request *)
(* that races the closing of an idle connection is discarded, and the      *)
(* headers of an answer leave when the tool starts.  The requests are      *)
(* those to one machine; the requests to other machines share the two      *)
(* connection pools and appear as the connections they hold.               *)
(***************************************************************************)
EXTENDS Naturals, FiniteSets

CONSTANTS
    Requests,
    MaxIdle,      \* max_keepalive_connections
    MaxConnections,  \* max_connections, of either pool
    MaxRestarts   \* bound on machine restarts (model checking only)

ASSUME UpstreamAssumption ==
    /\ MaxIdle \in Nat
    /\ MaxConnections \in Nat \ {0} /\ MaxIdle <= MaxConnections
    /\ MaxRestarts \in Nat

VARIABLES
    idleOpen,   \* pooled connections the machine still holds open
    idleStale,  \* pooled connections the machine has closed
    others,     \* connections to other machines in use, in either pool
    up,         \* the machine listens
    restarts,
    phase,      \* where the request is
    conn,       \* the connection its attempt uses: "reused", "fresh", "retry"
    peerOpen,   \* the machine's end of that connection is open
    queued,     \* copies of the request the machine received and not started
    ran,        \* how often the machine started the tool
    httpStatus, \* the status of the machine's headers: "200", "denied" (401
                \* and 403), "error" (any other), "none" before they came
    outcome,    \* what the access log says
    logged,     \* how many lines it says it in
    trouble,    \* since the first send the machine was away, dropped a
                \* connection it was dialled on, or let the read time out
    crowded     \* the wait for a place in a full pool timed out

machine == <<up, restarts>>
pool == <<idleOpen, idleStale>>
vars == <<pool, others, machine, phase, conn, peerOpen, queued, ran, httpStatus,
          outcome, logged, trouble, crowded>>

Init ==
    /\ idleOpen \in 0..MaxIdle
    /\ idleStale \in 0..(MaxIdle - idleOpen)
    /\ others = [client |-> 0, retry_client |-> 0]
    /\ up = TRUE
    /\ restarts = 0
    /\ phase = [r \in Requests |-> "admitted"]
    /\ conn = [r \in Requests |-> "none"]
    /\ peerOpen = [r \in Requests |-> FALSE]
    /\ queued = [r \in Requests |-> 0]
    /\ ran = [r \in Requests |-> 0]
    /\ httpStatus = [r \in Requests |-> "none"]
    /\ outcome = [r \in Requests |-> "client_disconnect"]
    /\ logged = [r \in Requests |-> 0]
    /\ trouble = [r \in Requests |-> FALSE]
    /\ crowded = [r \in Requests |-> FALSE]

----------------------------------------------------------------------------
(* Building blocks: each says what happens to the request's own fields.    *)

\* The request goes out on a connection of the given kind.
SentOn(r, kind, open) ==
    /\ phase' = [phase EXCEPT ![r] = "sent"]
    /\ conn' = [conn EXCEPT ![r] = kind]
    /\ peerOpen' = [peerOpen EXCEPT ![r] = open]
    /\ queued' = [queued EXCEPT ![r] = IF open THEN @ + 1 ELSE @]

\* The request is over, its line is written, its connection is not kept.
Ended(r, what) ==
    /\ phase' = [phase EXCEPT ![r] = "ended"]
    /\ conn' = [conn EXCEPT ![r] = "none"]
    /\ peerOpen' = [peerOpen EXCEPT ![r] = FALSE]
    /\ outcome' = [outcome EXCEPT ![r] = what]
    /\ logged' = [logged EXCEPT ![r] = @ + 1]

\* A client's pool is full when its connections, in use and idle, reach the
\* limit; the retry client's keeps no idle one.
Clients == {"client", "retry_client"}
Full(client) ==
    LET kinds == IF client = "client" THEN {"reused", "fresh"} ELSE {"retry"}
        idle == IF client = "client" THEN idleOpen + idleStale ELSE 0
        own == Cardinality({r \in Requests : conn[r] \in kinds})
    IN own + others[client] + idle >= MaxConnections

----------------------------------------------------------------------------
(* _send_upstream.                                                         *)

\* The pool hands out an idle connection when it has one.
SendReused(r) ==
    /\ phase[r] = "admitted"
    /\ \/ /\ idleOpen > 0
          /\ idleOpen' = idleOpen - 1
          /\ SentOn(r, "reused", TRUE)
          /\ UNCHANGED idleStale
       \/ /\ idleStale > 0
          /\ idleStale' = idleStale - 1
          /\ SentOn(r, "reused", FALSE)
          /\ UNCHANGED idleOpen
    /\ trouble' = [trouble EXCEPT ![r] = ~up]
    /\ UNCHANGED <<others, machine, ran, httpStatus, outcome, logged, crowded>>

\* Without one it dials, as soon as the pool has a place.
SendFresh(r) ==
    /\ phase[r] = "admitted"
    /\ idleOpen + idleStale = 0
    /\ ~Full("client")
    /\ \/ /\ up
          /\ SentOn(r, "fresh", TRUE)
          /\ UNCHANGED <<outcome, logged>>
       \/ /\ ~up
          /\ Ended(r, "upstream_unreachable")
          /\ UNCHANGED queued
    /\ trouble' = [trouble EXCEPT ![r] = ~up]
    /\ UNCHANGED <<pool, others, machine, ran, httpStatus, crowded>>

\* No place within the pool timeout: 503, whatever the machine does.  It is
\* not one of the errors that earn the retry.
PoolTimeout(r) ==
    /\ \/ phase[r] = "admitted" /\ idleOpen + idleStale = 0 /\ Full("client")
       \/ phase[r] = "retry" /\ Full("retry_client")
    /\ Ended(r, "upstream_unreachable")
    /\ crowded' = [crowded EXCEPT ![r] = TRUE]
    /\ UNCHANGED <<pool, others, machine, queued, ran, httpStatus, trouble>>

\* The connection died before the headers: a reused one earns the one retry,
\* any other failure is the 503.
ConnectionDied(r) ==
    /\ phase[r] = "sent"
    /\ ~peerOpen[r]
    /\ \/ /\ conn[r] = "reused"
          /\ phase' = [phase EXCEPT ![r] = "retry"]
          /\ conn' = [conn EXCEPT ![r] = "none"]
          /\ UNCHANGED <<peerOpen, outcome, logged>>
       \/ /\ conn[r] # "reused"
          /\ Ended(r, "upstream_unreachable")
    /\ UNCHANGED <<pool, others, machine, queued, ran, httpStatus, trouble, crowded>>

\* Mutant: the retry goes through the pool and may meet the next stale one.
RetryPooled(r) ==
    /\ phase[r] = "retry"
    /\ IF idleStale > 0
       THEN idleStale' = idleStale - 1 /\ SentOn(r, "retry", FALSE)
       ELSE up /\ SentOn(r, "retry", TRUE) /\ UNCHANGED idleStale
    /\ UNCHANGED <<idleOpen, others, machine, ran, httpStatus, outcome, logged,
                   trouble, crowded>>

\* The retry client keeps no idle connection: it always dials.
Retry(r) ==
    /\ phase[r] = "retry"
    /\ ~Full("retry_client")
    /\ \/ /\ up
          /\ SentOn(r, "retry", TRUE)
          /\ UNCHANGED <<outcome, logged>>
       \/ /\ ~up
          /\ Ended(r, "upstream_unreachable")
          /\ UNCHANGED queued
    /\ UNCHANGED <<pool, others, machine, ran, httpStatus, trouble, crowded>>

\* Mutant: a read timeout earns the retry too.
ReadTimeoutRetried(r) ==
    /\ phase[r] = "sent"
    /\ peerOpen[r]
    /\ phase' = [phase EXCEPT ![r] = "retry"]
    /\ peerOpen' = [peerOpen EXCEPT ![r] = FALSE]
    /\ conn' = [conn EXCEPT ![r] = "none"]
    /\ trouble' = [trouble EXCEPT ![r] = TRUE]
    /\ UNCHANGED <<pool, others, machine, queued, ran, httpStatus, outcome, logged,
                   crowded>>

\* Mutant: the client waits for the headers without a timeout.
ReadTimeoutNever(r) == FALSE

\* No headers within the read timeout: 503, never retried.
ReadTimeout(r) ==
    /\ phase[r] = "sent"
    /\ peerOpen[r]
    /\ Ended(r, "upstream_unreachable")
    /\ trouble' = [trouble EXCEPT ![r] = TRUE]
    /\ UNCHANGED <<pool, others, machine, queued, ran, httpStatus, crowded>>

----------------------------------------------------------------------------
(* _relay and _UpstreamResponse.                                           *)

\* What the log says of a stream that ended well: the status decides, and any
\* error of the machine but a refused key counts as an answer like the others.
OutcomeOf(status) == IF status = "denied" THEN "upstream_denied" ELSE "ok"

\* Mutant: the pool keeps every connection.
StreamEndsUncapped(r) ==
    /\ phase[r] = "headers"
    /\ peerOpen[r]
    /\ idleOpen' = idleOpen + 1
    /\ Ended(r, OutcomeOf(httpStatus[r]))
    /\ UNCHANGED <<idleStale, others, machine, queued, ran, httpStatus, trouble, crowded>>

\* The stream ended well: the connection may be used again, unless it is the
\* retry client's or the pool keeps enough idle ones.
StreamEnds(r) ==
    /\ phase[r] = "headers"
    /\ peerOpen[r]
    /\ idleOpen' = IF conn[r] # "retry" /\ idleOpen + idleStale < MaxIdle
                   THEN idleOpen + 1 ELSE idleOpen
    /\ Ended(r, OutcomeOf(httpStatus[r]))
    /\ UNCHANGED <<idleStale, others, machine, queued, ran, httpStatus, trouble, crowded>>

\* A break, or a silence past the read timeout, after the headers.
StreamBreaks(r) ==
    /\ phase[r] = "headers"
    /\ Ended(r, "upstream_stream_error")
    /\ UNCHANGED <<pool, others, machine, queued, ran, httpStatus, trouble, crowded>>

\* Mutant: the record is not in a finally.
ConsumerLeavesUnlogged(r) ==
    /\ phase[r] = "headers"
    /\ phase' = [phase EXCEPT ![r] = "ended"]
    /\ peerOpen' = [peerOpen EXCEPT ![r] = FALSE]
    /\ UNCHANGED <<pool, others, machine, conn, queued, ran, httpStatus, outcome, logged,
                   trouble, crowded>>

\* The consumer leaves while its answer streams.
ConsumerLeaves(r) ==
    /\ phase[r] = "headers"
    /\ Ended(r, "client_disconnect")
    /\ UNCHANGED <<pool, others, machine, queued, ran, httpStatus, trouble, crowded>>

----------------------------------------------------------------------------
(* The machine, and the pool's own housekeeping.                           *)

\* The machine's headers reach the gateway if that still waits for them.
HeadersCome(r, status) ==
    IF phase[r] = "sent" /\ peerOpen[r]
    THEN /\ phase' = [phase EXCEPT ![r] = "headers"]
         /\ httpStatus' = [httpStatus EXCEPT ![r] = status]
    ELSE UNCHANGED <<phase, httpStatus>>

\* The machine starts the tool, on whichever copy it has: 200 at once.
MachineStarts(r) ==
    /\ up
    /\ queued[r] > 0
    /\ queued' = [queued EXCEPT ![r] = @ - 1]
    /\ ran' = [ran EXCEPT ![r] = @ + 1]
    /\ HeadersCome(r, "200")
    /\ UNCHANGED <<pool, others, machine, conn, peerOpen, outcome, logged, trouble, crowded>>

\* It answers without running a tool: the key is refused, or the request is.
MachineRefuses(r) ==
    /\ up
    /\ queued[r] > 0
    /\ queued' = [queued EXCEPT ![r] = @ - 1]
    /\ \E status \in {"denied", "error"} : HeadersCome(r, status)
    /\ UNCHANGED <<pool, others, machine, conn, peerOpen, ran, outcome, logged, trouble,
                   crowded>>

\* The keep-alive timer fires as the request arrives: bytes discarded.
KeepAliveRace(r) ==
    /\ phase[r] = "sent"
    /\ conn[r] = "reused"
    /\ peerOpen[r]
    /\ peerOpen' = [peerOpen EXCEPT ![r] = FALSE]
    /\ queued' = [queued EXCEPT ![r] = @ - 1]
    /\ UNCHANGED <<pool, others, machine, phase, conn, ran, httpStatus, outcome, logged,
                   trouble, crowded>>

\* The machine drops a request it accepted on a new connection.
MachineDrops(r) ==
    /\ phase[r] = "sent"
    /\ conn[r] \in {"fresh", "retry"}
    /\ peerOpen[r]
    /\ peerOpen' = [peerOpen EXCEPT ![r] = FALSE]
    /\ queued' = [queued EXCEPT ![r] = @ - 1]
    /\ trouble' = [trouble EXCEPT ![r] = TRUE]
    /\ UNCHANGED <<pool, others, machine, phase, conn, ran, httpStatus, outcome, logged,
                   crowded>>

\* Every connection dies and every request not started is forgotten.
MachineStops ==
    /\ up
    /\ restarts < MaxRestarts
    /\ up' = FALSE
    /\ restarts' = restarts + 1
    /\ idleOpen' = 0
    /\ idleStale' = idleOpen + idleStale
    /\ peerOpen' = [r \in Requests |-> FALSE]
    /\ queued' = [r \in Requests |-> 0]
    /\ trouble' = [r \in Requests |->
                      trouble[r] \/ phase[r] \in {"sent", "retry", "headers"}]
    /\ UNCHANGED <<others, phase, conn, ran, httpStatus, outcome, logged, crowded>>

MachineReturns ==
    /\ ~up
    /\ up' = TRUE
    /\ UNCHANGED <<pool, others, restarts, phase, conn, peerOpen, queued, ran,
                   httpStatus, outcome, logged, trouble, crowded>>

\* The machine's keep-alive timer closes an idle connection.
IdleGoesStale ==
    /\ idleOpen > 0
    /\ idleOpen' = idleOpen - 1
    /\ idleStale' = idleStale + 1
    /\ UNCHANGED <<others, machine, phase, conn, peerOpen, queued, ran, httpStatus,
                   outcome, logged, trouble, crowded>>

\* keepalive_expiry, the pool notices a closed connection, or it gives up an
\* idle one for a request to another machine.
IdleExpires ==
    /\ \/ idleOpen > 0 /\ idleOpen' = idleOpen - 1 /\ UNCHANGED idleStale
       \/ idleStale > 0 /\ idleStale' = idleStale - 1 /\ UNCHANGED idleOpen
    /\ UNCHANGED <<others, machine, phase, conn, peerOpen, queued, ran, httpStatus,
                   outcome, logged, trouble, crowded>>

\* Requests to other machines take and give back connections.
OthersTake(client) ==
    /\ ~Full(client)
    /\ others' = [others EXCEPT ![client] = @ + 1]
    /\ UNCHANGED <<pool, machine, phase, conn, peerOpen, queued, ran, httpStatus,
                   outcome, logged, trouble, crowded>>

OthersReturn(client) ==
    /\ others[client] > 0
    /\ others' = [others EXCEPT ![client] = @ - 1]
    /\ UNCHANGED <<pool, machine, phase, conn, peerOpen, queued, ran, httpStatus,
                   outcome, logged, trouble, crowded>>

----------------------------------------------------------------------------

\* What the gateway does by itself once a request is admitted.
GatewayStep(r) ==
    \/ SendReused(r)
    \/ SendFresh(r)
    \/ PoolTimeout(r)
    \/ ConnectionDied(r)
    \/ Retry(r)
    \/ ReadTimeout(r)
    \/ StreamEnds(r)
    \/ StreamBreaks(r)

Next ==
    \/ \E r \in Requests : GatewayStep(r) \/ ConsumerLeaves(r)
    \/ \E r \in Requests : MachineStarts(r) \/ MachineRefuses(r)
    \/ \E r \in Requests : KeepAliveRace(r) \/ MachineDrops(r)
    \/ MachineStops
    \/ MachineReturns
    \/ IdleGoesStale
    \/ IdleExpires
    \/ \E client \in Clients : OthersTake(client) \/ OthersReturn(client)

\* The event loop runs what is ready, and every wait on the machine has a
\* timeout; the machine owes nothing.
Spec == Init /\ [][Next]_vars /\ \A r \in Requests : WF_vars(GatewayStep(r))

----------------------------------------------------------------------------
(* Properties.                                                             *)

Outcomes == {"client_disconnect", "upstream_unreachable", "ok", "upstream_denied",
             "upstream_stream_error"}
Statuses == {"none", "200", "denied", "error"}

TypeOK ==
    /\ idleOpen \in 0..MaxIdle
    /\ idleStale \in 0..MaxIdle
    /\ others \in [Clients -> Nat]
    /\ up \in BOOLEAN
    /\ restarts \in 0..MaxRestarts
    /\ phase \in [Requests -> {"admitted", "sent", "retry", "headers", "ended"}]
    /\ conn \in [Requests -> {"none", "reused", "fresh", "retry"}]
    /\ peerOpen \in [Requests -> BOOLEAN]
    /\ queued \in [Requests -> Nat]
    /\ ran \in [Requests -> Nat]
    /\ httpStatus \in [Requests -> Statuses]
    /\ outcome \in [Requests -> Outcomes]
    /\ logged \in [Requests -> Nat]
    /\ trouble \in [Requests -> BOOLEAN]
    /\ crowded \in [Requests -> BOOLEAN]

\* The retry of a request never makes the machine run its tool twice, not
\* even when a timed-out copy is started after the gateway gave up on it.
RunsAtMostOnce == \A r \in Requests : ran[r] + queued[r] <= 1

\* Connections the machine closed while they were idle never surface: a
\* request ends "unreachable" only if, after it was first sent, the machine was
\* really away, dropped a new connection or went silent, or if the request had
\* to dial and a pool of the gateway had no place for it in time.
StalePoolHidden ==
    \A r \in Requests :
        phase[r] = "ended" /\ outcome[r] = "upstream_unreachable" =>
            trouble[r] \/ crowded[r]

\* An admitted request that is over has exactly one line, the line of one in
\* progress is not written yet, and a line that rests on the machine's headers
\* is true of the tool, retries and late copies included: under "denied" it
\* never ran and never will; under "ok" and after a broken stream it ran, once,
\* if and only if the machine had said 200.
LogTellsOutcome ==
    \A r \in Requests :
        /\ logged[r] = IF phase[r] = "ended" THEN 1 ELSE 0
        /\ outcome[r] = "upstream_denied" => ran[r] = 0 /\ queued[r] = 0
        /\ outcome[r] \in {"ok", "upstream_stream_error"} =>
              ran[r] = (IF httpStatus[r] = "200" THEN 1 ELSE 0) /\ queued[r] = 0

\* The machine's headers say whether the tool ran, and no copy is left.
HeadersTold(r) ==
    ran[r] = (IF httpStatus[r] = "200" THEN 1 ELSE 0) /\ queued[r] = 0

\* The inductive form of the three: what the phase of a request says of its
\* copies, its connection, its answer and the machine.
RequestInv(r) ==
    /\ phase[r] \in {"admitted", "retry"} => ran[r] = 0 /\ queued[r] = 0
    /\ phase[r] = "sent" =>
          /\ conn[r] # "none"
          /\ ran[r] = 0
          /\ queued[r] = IF peerOpen[r] THEN 1 ELSE 0
          /\ conn[r] # "reused" /\ ~peerOpen[r] => trouble[r]
    /\ phase[r] \in {"sent", "retry"} /\ ~up => trouble[r]
    /\ phase[r] = "headers" => HeadersTold(r)
    /\ phase[r] = "ended" =>
          /\ ran[r] + queued[r] <= 1
          /\ outcome[r] = "upstream_unreachable" => trouble[r] \/ crowded[r]
          /\ outcome[r] \in {"ok", "upstream_denied", "upstream_stream_error"} => HeadersTold(r)
          /\ outcome[r] = "upstream_denied" => httpStatus[r] = "denied"
    /\ phase[r] # "ended" => outcome[r] = "client_disconnect"
    /\ logged[r] = IF phase[r] = "ended" THEN 1 ELSE 0

PoolInv == idleOpen + idleStale <= MaxIdle

UpstreamInv == PoolInv /\ \A r \in Requests : RequestInv(r)

\* Every admitted request is answered, whatever the machine does.
Answered == \A r \in Requests : phase[r] = "admitted" ~> phase[r] \in {"headers", "ended"}

=============================================================================
