-------------------------- MODULE GatewayPartsProofs --------------------------
(***************************************************************************)
(* Proofs about the parts of the gateway host, for all machines, requests, *)
(* files, failures and any number of faults.  The upstream requests, for   *)
(* every pool size and number of machine restarts: one inductive invariant *)
(* per request (RequestInv) and one of the pool (PoolInv); fairness plays  *)
(* no part.  The watchdog: what its status file calls announced is what    *)
(* the owner was told, in the state report (Watchdog) and in the two       *)
(* episode reports (EpisodeReports).  The fleet server: its reply budget   *)
(* is what its open requests hold.  The client: the files of its           *)
(* transfers are whole.  And their composition: every part keeps its       *)
(* types and its promise, whichever of them runs.                          *)
(***************************************************************************)
EXTENDS MCGatewayParts, FiniteSetTheorems, TLAPS

-----------------------------------------------------------------------------
(* The upstream requests: an invariant of each request and one of the pool. *)

Good == TypeOK /\ UpstreamInv

\* Every state the gateway starts in is a good one.
LEMMA InitGood == Init => Good
<1> SUFFICES ASSUME Init PROVE Good
    OBVIOUS
<1> USE UpstreamAssumption DEF Init
<1>1. TypeOK
    BY DEF TypeOK, Outcomes, Statuses, Clients
<1>2. PoolInv
    BY DEF PoolInv
<1>3. ASSUME NEW r \in Requests PROVE RequestInv(r)
    BY DEF RequestInv
<1> QED
    BY <1>1, <1>2, <1>3 DEF Good, UpstreamInv

\* A step of one request leaves the others' invariant alone.
Untouched(q) ==
    /\ phase'[q] = phase[q] /\ conn'[q] = conn[q] /\ peerOpen'[q] = peerOpen[q]
    /\ queued'[q] = queued[q] /\ ran'[q] = ran[q] /\ httpStatus'[q] = httpStatus[q]
    /\ outcome'[q] = outcome[q] /\ logged'[q] = logged[q]
    /\ trouble'[q] = trouble[q] /\ crowded'[q] = crowded[q]

LEMMA Frame ==
    ASSUME NEW q \in Requests, RequestInv(q), Untouched(q), up' = up
    PROVE  RequestInv(q)'
BY DEF Untouched, RequestInv, HeadersTold

\* The steps of _send_upstream on one request keep the state good.
LEMMA SendGood ==
    ASSUME Good, NEW r \in Requests,
           SendReused(r) \/ SendFresh(r) \/ PoolTimeout(r) \/ ConnectionDied(r) \/ Retry(r) \/ ReadTimeout(r)
    PROVE  Good'
<1> USE UpstreamAssumption DEF TypeOK, Outcomes, Statuses, Clients, pool, machine
<1>0. TypeOK /\ PoolInv /\ RequestInv(r)
    BY DEF Good, UpstreamInv
<1>1. CASE SendReused(r)
  <2>1. TypeOK'
    <3>1. phase' \in [Requests -> {"admitted", "sent", "retry", "headers", "ended"}]
        BY <1>0, <1>1 DEF SendReused, SentOn, PoolInv, RequestInv
    <3>2. conn' \in [Requests -> {"none", "reused", "fresh", "retry"}]
        BY <1>0, <1>1 DEF SendReused, SentOn, PoolInv, RequestInv
    <3>3. peerOpen' \in [Requests -> BOOLEAN]
        BY <1>0, <1>1 DEF SendReused, SentOn, PoolInv, RequestInv
    <3>4. queued' \in [Requests -> Nat]
        BY <1>0, <1>1 DEF SendReused, SentOn, PoolInv, RequestInv
    <3>5. ran' \in [Requests -> Nat] /\ logged' \in [Requests -> Nat]
        BY <1>0, <1>1 DEF SendReused, SentOn, PoolInv, RequestInv
    <3>6. httpStatus' \in [Requests -> Statuses]
        BY <1>0, <1>1 DEF SendReused, SentOn, PoolInv, RequestInv
    <3>7. outcome' \in [Requests -> Outcomes]
        BY <1>0, <1>1 DEF SendReused, SentOn, PoolInv, RequestInv
    <3>8. trouble' \in [Requests -> BOOLEAN] /\ crowded' \in [Requests -> BOOLEAN]
        BY <1>0, <1>1 DEF SendReused, SentOn, PoolInv, RequestInv
    <3>9. idleOpen' \in 0..MaxIdle /\ idleStale' \in 0..MaxIdle
        BY <1>0, <1>1 DEF SendReused, SentOn, PoolInv, RequestInv
    <3>10. restarts' \in 0..MaxRestarts
        BY <1>0, <1>1 DEF SendReused, SentOn, PoolInv, RequestInv
    <3>11. others' \in [Clients -> Nat] /\ up' \in BOOLEAN
        BY <1>0, <1>1 DEF SendReused, SentOn, PoolInv, RequestInv
    <3> QED
        BY <3>1, <3>2, <3>3, <3>4, <3>5, <3>6, <3>7, <3>8, <3>9, <3>10, <3>11
  <2>2. PoolInv'
      BY <1>0, <1>1 DEF SendReused, SentOn, PoolInv
  <2>3. ASSUME NEW q \in Requests PROVE RequestInv(q)'
    <3>1. RequestInv(q)
        BY DEF Good, UpstreamInv
    <3>2. CASE q = r
      <4>1. /\ phase'[q] = "sent" /\ conn'[q] = "reused" /\ up' = up
            /\ ran'[q] = ran[q] /\ outcome'[q] = outcome[q] /\ logged'[q] = logged[q]
          BY <1>0, <1>1, <3>2 DEF SendReused, SentOn
      <4>2. /\ phase[q] = "admitted" /\ trouble'[q] = ~up
          BY <1>0, <1>1, <3>2 DEF SendReused
      <4>3. \/ peerOpen'[q] = TRUE /\ queued'[q] = queued[q] + 1
            \/ peerOpen'[q] = FALSE /\ queued'[q] = queued[q]
          BY <1>0, <1>1, <3>2 DEF SendReused, SentOn
      <4>4. ~up => trouble'[q]
          BY <4>2
      <4>5. ran[q] = 0 /\ queued[q] = 0 /\ outcome[q] = "client_disconnect" /\ logged[q] = 0
          BY <3>1, <4>2 DEF RequestInv
      <4> QED
          BY <4>1, <4>3, <4>4, <4>5 DEF RequestInv
    <3>3. CASE q # r
      <4>1. Untouched(q) /\ up' = up
          BY <1>0, <1>1, <3>3 DEF SendReused, SentOn, Untouched
      <4> QED
          BY <3>1, <4>1, Frame
    <3> QED
        BY <3>2, <3>3
  <2> QED
      BY <2>1, <2>2, <2>3 DEF Good, UpstreamInv
<1>2. CASE SendFresh(r)
  <2>1. TypeOK'
    <3>1. phase' \in [Requests -> {"admitted", "sent", "retry", "headers", "ended"}]
        BY <1>0, <1>2 DEF SendFresh, SentOn, Ended, PoolInv, RequestInv
    <3>2. conn' \in [Requests -> {"none", "reused", "fresh", "retry"}]
        BY <1>0, <1>2 DEF SendFresh, SentOn, Ended, PoolInv, RequestInv
    <3>3. peerOpen' \in [Requests -> BOOLEAN]
        BY <1>0, <1>2 DEF SendFresh, SentOn, Ended, PoolInv, RequestInv
    <3>4. queued' \in [Requests -> Nat]
        BY <1>0, <1>2 DEF SendFresh, SentOn, Ended, PoolInv, RequestInv
    <3>5. ran' \in [Requests -> Nat] /\ logged' \in [Requests -> Nat]
        BY <1>0, <1>2 DEF SendFresh, SentOn, Ended, PoolInv, RequestInv
    <3>6. httpStatus' \in [Requests -> Statuses]
        BY <1>0, <1>2 DEF SendFresh, SentOn, Ended, PoolInv, RequestInv
    <3>7. outcome' \in [Requests -> Outcomes]
        BY <1>0, <1>2 DEF SendFresh, SentOn, Ended, PoolInv, RequestInv
    <3>8. trouble' \in [Requests -> BOOLEAN] /\ crowded' \in [Requests -> BOOLEAN]
        BY <1>0, <1>2 DEF SendFresh, SentOn, Ended, PoolInv, RequestInv
    <3>9. idleOpen' \in 0..MaxIdle /\ idleStale' \in 0..MaxIdle
        BY <1>0, <1>2 DEF SendFresh, SentOn, Ended, PoolInv, RequestInv
    <3>10. restarts' \in 0..MaxRestarts
        BY <1>0, <1>2 DEF SendFresh, SentOn, Ended, PoolInv, RequestInv
    <3>11. others' \in [Clients -> Nat] /\ up' \in BOOLEAN
        BY <1>0, <1>2 DEF SendFresh, SentOn, Ended, PoolInv, RequestInv
    <3> QED
        BY <3>1, <3>2, <3>3, <3>4, <3>5, <3>6, <3>7, <3>8, <3>9, <3>10, <3>11
  <2>2. PoolInv'
      BY <1>0, <1>2 DEF SendFresh, SentOn, Ended, PoolInv
  <2>3. ASSUME NEW q \in Requests PROVE RequestInv(q)'
    <3>1. RequestInv(q)
        BY DEF Good, UpstreamInv
    <3>2. CASE q = r
      <4>1. phase[q] = "admitted" /\ trouble'[q] = ~up /\ up' = up /\ ran'[q] = ran[q]
          BY <1>0, <1>2, <3>2 DEF SendFresh
      <4>2. CASE up
        <5>1. /\ phase'[q] = "sent" /\ conn'[q] = "fresh" /\ peerOpen'[q] = TRUE
              /\ queued'[q] = queued[q] + 1 /\ outcome'[q] = outcome[q]
              /\ logged'[q] = logged[q]
            BY <1>0, <1>2, <3>2, <4>2 DEF SendFresh, SentOn
        <5> QED
            BY <3>1, <4>1, <4>2, <5>1 DEF RequestInv
      <4>3. CASE ~up
        <5>1. /\ phase'[q] = "ended" /\ outcome'[q] = "upstream_unreachable"
              /\ queued'[q] = queued[q] /\ logged'[q] = logged[q] + 1
            BY <1>0, <1>2, <3>2, <4>3 DEF SendFresh, Ended
        <5>2. trouble'[q]
            BY <4>1, <4>3
        <5>3. ran[q] = 0 /\ queued[q] = 0 /\ logged[q] = 0
            BY <3>1, <4>1 DEF RequestInv
        <5> QED
            BY <4>1, <5>1, <5>2, <5>3 DEF RequestInv
      <4> QED
          BY <4>2, <4>3
    <3>3. CASE q # r
      <4>1. Untouched(q) /\ up' = up
          BY <1>0, <1>2, <3>3 DEF SendFresh, SentOn, Ended, Untouched
      <4> QED
          BY <3>1, <4>1, Frame
    <3> QED
        BY <3>2, <3>3
  <2> QED
      BY <2>1, <2>2, <2>3 DEF Good, UpstreamInv
<1>3. CASE PoolTimeout(r)
  <2>1. TypeOK'
    <3>1. phase' \in [Requests -> {"admitted", "sent", "retry", "headers", "ended"}]
        BY <1>0, <1>3 DEF PoolTimeout, Ended, PoolInv, RequestInv
    <3>2. conn' \in [Requests -> {"none", "reused", "fresh", "retry"}]
        BY <1>0, <1>3 DEF PoolTimeout, Ended, PoolInv, RequestInv
    <3>3. peerOpen' \in [Requests -> BOOLEAN]
        BY <1>0, <1>3 DEF PoolTimeout, Ended, PoolInv, RequestInv
    <3>4. queued' \in [Requests -> Nat]
        BY <1>0, <1>3 DEF PoolTimeout, Ended, PoolInv, RequestInv
    <3>5. ran' \in [Requests -> Nat] /\ logged' \in [Requests -> Nat]
        BY <1>0, <1>3 DEF PoolTimeout, Ended, PoolInv, RequestInv
    <3>6. httpStatus' \in [Requests -> Statuses]
        BY <1>0, <1>3 DEF PoolTimeout, Ended, PoolInv, RequestInv
    <3>7. outcome' \in [Requests -> Outcomes]
        BY <1>0, <1>3 DEF PoolTimeout, Ended, PoolInv, RequestInv
    <3>8. trouble' \in [Requests -> BOOLEAN] /\ crowded' \in [Requests -> BOOLEAN]
        BY <1>0, <1>3 DEF PoolTimeout, Ended, PoolInv, RequestInv
    <3>9. idleOpen' \in 0..MaxIdle /\ idleStale' \in 0..MaxIdle
        BY <1>0, <1>3 DEF PoolTimeout, Ended, PoolInv, RequestInv
    <3>10. restarts' \in 0..MaxRestarts
        BY <1>0, <1>3 DEF PoolTimeout, Ended, PoolInv, RequestInv
    <3>11. others' \in [Clients -> Nat] /\ up' \in BOOLEAN
        BY <1>0, <1>3 DEF PoolTimeout, Ended, PoolInv, RequestInv
    <3> QED
        BY <3>1, <3>2, <3>3, <3>4, <3>5, <3>6, <3>7, <3>8, <3>9, <3>10, <3>11
  <2>2. PoolInv'
      BY <1>0, <1>3 DEF PoolTimeout, Ended, PoolInv
  <2>3. ASSUME NEW q \in Requests PROVE RequestInv(q)'
    <3>1. RequestInv(q)
        BY DEF Good, UpstreamInv
    <3>2. CASE q = r
        BY <1>0, <1>3, <3>1, <3>2 DEF PoolTimeout, Ended, RequestInv, HeadersTold
    <3>3. CASE q # r
      <4>1. Untouched(q) /\ up' = up
          BY <1>0, <1>3, <3>3 DEF PoolTimeout, Ended, Untouched
      <4> QED
          BY <3>1, <4>1, Frame
    <3> QED
        BY <3>2, <3>3
  <2> QED
      BY <2>1, <2>2, <2>3 DEF Good, UpstreamInv
<1>4. CASE ConnectionDied(r)
  <2>1. TypeOK'
    <3>1. phase' \in [Requests -> {"admitted", "sent", "retry", "headers", "ended"}]
        BY <1>0, <1>4 DEF ConnectionDied, Ended, PoolInv, RequestInv
    <3>2. conn' \in [Requests -> {"none", "reused", "fresh", "retry"}]
        BY <1>0, <1>4 DEF ConnectionDied, Ended, PoolInv, RequestInv
    <3>3. peerOpen' \in [Requests -> BOOLEAN]
        BY <1>0, <1>4 DEF ConnectionDied, Ended, PoolInv, RequestInv
    <3>4. queued' \in [Requests -> Nat]
        BY <1>0, <1>4 DEF ConnectionDied, Ended, PoolInv, RequestInv
    <3>5. ran' \in [Requests -> Nat] /\ logged' \in [Requests -> Nat]
        BY <1>0, <1>4 DEF ConnectionDied, Ended, PoolInv, RequestInv
    <3>6. httpStatus' \in [Requests -> Statuses]
        BY <1>0, <1>4 DEF ConnectionDied, Ended, PoolInv, RequestInv
    <3>7. outcome' \in [Requests -> Outcomes]
        BY <1>0, <1>4 DEF ConnectionDied, Ended, PoolInv, RequestInv
    <3>8. trouble' \in [Requests -> BOOLEAN] /\ crowded' \in [Requests -> BOOLEAN]
        BY <1>0, <1>4 DEF ConnectionDied, Ended, PoolInv, RequestInv
    <3>9. idleOpen' \in 0..MaxIdle /\ idleStale' \in 0..MaxIdle
        BY <1>0, <1>4 DEF ConnectionDied, Ended, PoolInv, RequestInv
    <3>10. restarts' \in 0..MaxRestarts
        BY <1>0, <1>4 DEF ConnectionDied, Ended, PoolInv, RequestInv
    <3>11. others' \in [Clients -> Nat] /\ up' \in BOOLEAN
        BY <1>0, <1>4 DEF ConnectionDied, Ended, PoolInv, RequestInv
    <3> QED
        BY <3>1, <3>2, <3>3, <3>4, <3>5, <3>6, <3>7, <3>8, <3>9, <3>10, <3>11
  <2>2. PoolInv'
      BY <1>0, <1>4 DEF ConnectionDied, Ended, PoolInv
  <2>3. ASSUME NEW q \in Requests PROVE RequestInv(q)'
    <3>1. RequestInv(q)
        BY DEF Good, UpstreamInv
    <3>2. CASE q = r
        BY <1>0, <1>4, <3>1, <3>2 DEF ConnectionDied, Ended, RequestInv, HeadersTold
    <3>3. CASE q # r
      <4>1. Untouched(q) /\ up' = up
          BY <1>0, <1>4, <3>3 DEF ConnectionDied, Ended, Untouched
      <4> QED
          BY <3>1, <4>1, Frame
    <3> QED
        BY <3>2, <3>3
  <2> QED
      BY <2>1, <2>2, <2>3 DEF Good, UpstreamInv
<1>5. CASE Retry(r)
  <2>1. TypeOK'
    <3>1. phase' \in [Requests -> {"admitted", "sent", "retry", "headers", "ended"}]
        BY <1>0, <1>5 DEF Retry, SentOn, Ended, PoolInv, RequestInv
    <3>2. conn' \in [Requests -> {"none", "reused", "fresh", "retry"}]
        BY <1>0, <1>5 DEF Retry, SentOn, Ended, PoolInv, RequestInv
    <3>3. peerOpen' \in [Requests -> BOOLEAN]
        BY <1>0, <1>5 DEF Retry, SentOn, Ended, PoolInv, RequestInv
    <3>4. queued' \in [Requests -> Nat]
        BY <1>0, <1>5 DEF Retry, SentOn, Ended, PoolInv, RequestInv
    <3>5. ran' \in [Requests -> Nat] /\ logged' \in [Requests -> Nat]
        BY <1>0, <1>5 DEF Retry, SentOn, Ended, PoolInv, RequestInv
    <3>6. httpStatus' \in [Requests -> Statuses]
        BY <1>0, <1>5 DEF Retry, SentOn, Ended, PoolInv, RequestInv
    <3>7. outcome' \in [Requests -> Outcomes]
        BY <1>0, <1>5 DEF Retry, SentOn, Ended, PoolInv, RequestInv
    <3>8. trouble' \in [Requests -> BOOLEAN] /\ crowded' \in [Requests -> BOOLEAN]
        BY <1>0, <1>5 DEF Retry, SentOn, Ended, PoolInv, RequestInv
    <3>9. idleOpen' \in 0..MaxIdle /\ idleStale' \in 0..MaxIdle
        BY <1>0, <1>5 DEF Retry, SentOn, Ended, PoolInv, RequestInv
    <3>10. restarts' \in 0..MaxRestarts
        BY <1>0, <1>5 DEF Retry, SentOn, Ended, PoolInv, RequestInv
    <3>11. others' \in [Clients -> Nat] /\ up' \in BOOLEAN
        BY <1>0, <1>5 DEF Retry, SentOn, Ended, PoolInv, RequestInv
    <3> QED
        BY <3>1, <3>2, <3>3, <3>4, <3>5, <3>6, <3>7, <3>8, <3>9, <3>10, <3>11
  <2>2. PoolInv'
      BY <1>0, <1>5 DEF Retry, SentOn, Ended, PoolInv
  <2>3. ASSUME NEW q \in Requests PROVE RequestInv(q)'
    <3>1. RequestInv(q)
        BY DEF Good, UpstreamInv
    <3>2. CASE q = r
        BY <1>0, <1>5, <3>1, <3>2 DEF Retry, SentOn, Ended, RequestInv, HeadersTold
    <3>3. CASE q # r
      <4>1. Untouched(q) /\ up' = up
          BY <1>0, <1>5, <3>3 DEF Retry, SentOn, Ended, Untouched
      <4> QED
          BY <3>1, <4>1, Frame
    <3> QED
        BY <3>2, <3>3
  <2> QED
      BY <2>1, <2>2, <2>3 DEF Good, UpstreamInv
<1>6. CASE ReadTimeout(r)
  <2>1. TypeOK'
    <3>1. phase' \in [Requests -> {"admitted", "sent", "retry", "headers", "ended"}]
        BY <1>0, <1>6 DEF ReadTimeout, Ended, PoolInv, RequestInv
    <3>2. conn' \in [Requests -> {"none", "reused", "fresh", "retry"}]
        BY <1>0, <1>6 DEF ReadTimeout, Ended, PoolInv, RequestInv
    <3>3. peerOpen' \in [Requests -> BOOLEAN]
        BY <1>0, <1>6 DEF ReadTimeout, Ended, PoolInv, RequestInv
    <3>4. queued' \in [Requests -> Nat]
        BY <1>0, <1>6 DEF ReadTimeout, Ended, PoolInv, RequestInv
    <3>5. ran' \in [Requests -> Nat] /\ logged' \in [Requests -> Nat]
        BY <1>0, <1>6 DEF ReadTimeout, Ended, PoolInv, RequestInv
    <3>6. httpStatus' \in [Requests -> Statuses]
        BY <1>0, <1>6 DEF ReadTimeout, Ended, PoolInv, RequestInv
    <3>7. outcome' \in [Requests -> Outcomes]
        BY <1>0, <1>6 DEF ReadTimeout, Ended, PoolInv, RequestInv
    <3>8. trouble' \in [Requests -> BOOLEAN] /\ crowded' \in [Requests -> BOOLEAN]
        BY <1>0, <1>6 DEF ReadTimeout, Ended, PoolInv, RequestInv
    <3>9. idleOpen' \in 0..MaxIdle /\ idleStale' \in 0..MaxIdle
        BY <1>0, <1>6 DEF ReadTimeout, Ended, PoolInv, RequestInv
    <3>10. restarts' \in 0..MaxRestarts
        BY <1>0, <1>6 DEF ReadTimeout, Ended, PoolInv, RequestInv
    <3>11. others' \in [Clients -> Nat] /\ up' \in BOOLEAN
        BY <1>0, <1>6 DEF ReadTimeout, Ended, PoolInv, RequestInv
    <3> QED
        BY <3>1, <3>2, <3>3, <3>4, <3>5, <3>6, <3>7, <3>8, <3>9, <3>10, <3>11
  <2>2. PoolInv'
      BY <1>0, <1>6 DEF ReadTimeout, Ended, PoolInv
  <2>3. ASSUME NEW q \in Requests PROVE RequestInv(q)'
    <3>1. RequestInv(q)
        BY DEF Good, UpstreamInv
    <3>2. CASE q = r
        BY <1>0, <1>6, <3>1, <3>2 DEF ReadTimeout, Ended, RequestInv, HeadersTold
    <3>3. CASE q # r
      <4>1. Untouched(q) /\ up' = up
          BY <1>0, <1>6, <3>3 DEF ReadTimeout, Ended, Untouched
      <4> QED
          BY <3>1, <4>1, Frame
    <3> QED
        BY <3>2, <3>3
  <2> QED
      BY <2>1, <2>2, <2>3 DEF Good, UpstreamInv
<1> QED
    BY <1>1, <1>2, <1>3, <1>4, <1>5, <1>6

\* The steps of the relay keep the state good.
LEMMA RelayGood ==
    ASSUME Good, NEW r \in Requests,
           StreamEnds(r) \/ StreamBreaks(r) \/ ConsumerLeaves(r)
    PROVE  Good'
<1> USE UpstreamAssumption DEF TypeOK, Outcomes, Statuses, Clients, pool, machine
<1>0. TypeOK /\ PoolInv /\ RequestInv(r)
    BY DEF Good, UpstreamInv
<1>1. CASE StreamEnds(r)
  <2>1. TypeOK'
    <3>1. phase' \in [Requests -> {"admitted", "sent", "retry", "headers", "ended"}]
        BY <1>0, <1>1 DEF StreamEnds, Ended, OutcomeOf, PoolInv, RequestInv
    <3>2. conn' \in [Requests -> {"none", "reused", "fresh", "retry"}]
        BY <1>0, <1>1 DEF StreamEnds, Ended, OutcomeOf, PoolInv, RequestInv
    <3>3. peerOpen' \in [Requests -> BOOLEAN]
        BY <1>0, <1>1 DEF StreamEnds, Ended, OutcomeOf, PoolInv, RequestInv
    <3>4. queued' \in [Requests -> Nat]
        BY <1>0, <1>1 DEF StreamEnds, Ended, OutcomeOf, PoolInv, RequestInv
    <3>5. ran' \in [Requests -> Nat] /\ logged' \in [Requests -> Nat]
        BY <1>0, <1>1 DEF StreamEnds, Ended, OutcomeOf, PoolInv, RequestInv
    <3>6. httpStatus' \in [Requests -> Statuses]
        BY <1>0, <1>1 DEF StreamEnds, Ended, OutcomeOf, PoolInv, RequestInv
    <3>7. outcome' \in [Requests -> Outcomes]
        BY <1>0, <1>1 DEF StreamEnds, Ended, OutcomeOf, PoolInv, RequestInv
    <3>8. trouble' \in [Requests -> BOOLEAN] /\ crowded' \in [Requests -> BOOLEAN]
        BY <1>0, <1>1 DEF StreamEnds, Ended, OutcomeOf, PoolInv, RequestInv
    <3>9. idleOpen' \in 0..MaxIdle /\ idleStale' \in 0..MaxIdle
        BY <1>0, <1>1 DEF StreamEnds, Ended, OutcomeOf, PoolInv, RequestInv
    <3>10. restarts' \in 0..MaxRestarts
        BY <1>0, <1>1 DEF StreamEnds, Ended, OutcomeOf, PoolInv, RequestInv
    <3>11. others' \in [Clients -> Nat] /\ up' \in BOOLEAN
        BY <1>0, <1>1 DEF StreamEnds, Ended, OutcomeOf, PoolInv, RequestInv
    <3> QED
        BY <3>1, <3>2, <3>3, <3>4, <3>5, <3>6, <3>7, <3>8, <3>9, <3>10, <3>11
  <2>2. PoolInv'
      BY <1>0, <1>1 DEF StreamEnds, Ended, OutcomeOf, PoolInv
  <2>3. ASSUME NEW q \in Requests PROVE RequestInv(q)'
    <3>1. RequestInv(q)
        BY DEF Good, UpstreamInv
    <3>2. CASE q = r
        BY <1>0, <1>1, <3>1, <3>2 DEF StreamEnds, Ended, OutcomeOf, RequestInv, HeadersTold
    <3>3. CASE q # r
      <4>1. Untouched(q) /\ up' = up
          BY <1>0, <1>1, <3>3 DEF StreamEnds, Ended, OutcomeOf, Untouched
      <4> QED
          BY <3>1, <4>1, Frame
    <3> QED
        BY <3>2, <3>3
  <2> QED
      BY <2>1, <2>2, <2>3 DEF Good, UpstreamInv
<1>2. CASE StreamBreaks(r)
  <2>1. TypeOK'
    <3>1. phase' \in [Requests -> {"admitted", "sent", "retry", "headers", "ended"}]
        BY <1>0, <1>2 DEF StreamBreaks, Ended, PoolInv, RequestInv
    <3>2. conn' \in [Requests -> {"none", "reused", "fresh", "retry"}]
        BY <1>0, <1>2 DEF StreamBreaks, Ended, PoolInv, RequestInv
    <3>3. peerOpen' \in [Requests -> BOOLEAN]
        BY <1>0, <1>2 DEF StreamBreaks, Ended, PoolInv, RequestInv
    <3>4. queued' \in [Requests -> Nat]
        BY <1>0, <1>2 DEF StreamBreaks, Ended, PoolInv, RequestInv
    <3>5. ran' \in [Requests -> Nat] /\ logged' \in [Requests -> Nat]
        BY <1>0, <1>2 DEF StreamBreaks, Ended, PoolInv, RequestInv
    <3>6. httpStatus' \in [Requests -> Statuses]
        BY <1>0, <1>2 DEF StreamBreaks, Ended, PoolInv, RequestInv
    <3>7. outcome' \in [Requests -> Outcomes]
        BY <1>0, <1>2 DEF StreamBreaks, Ended, PoolInv, RequestInv
    <3>8. trouble' \in [Requests -> BOOLEAN] /\ crowded' \in [Requests -> BOOLEAN]
        BY <1>0, <1>2 DEF StreamBreaks, Ended, PoolInv, RequestInv
    <3>9. idleOpen' \in 0..MaxIdle /\ idleStale' \in 0..MaxIdle
        BY <1>0, <1>2 DEF StreamBreaks, Ended, PoolInv, RequestInv
    <3>10. restarts' \in 0..MaxRestarts
        BY <1>0, <1>2 DEF StreamBreaks, Ended, PoolInv, RequestInv
    <3>11. others' \in [Clients -> Nat] /\ up' \in BOOLEAN
        BY <1>0, <1>2 DEF StreamBreaks, Ended, PoolInv, RequestInv
    <3> QED
        BY <3>1, <3>2, <3>3, <3>4, <3>5, <3>6, <3>7, <3>8, <3>9, <3>10, <3>11
  <2>2. PoolInv'
      BY <1>0, <1>2 DEF StreamBreaks, Ended, PoolInv
  <2>3. ASSUME NEW q \in Requests PROVE RequestInv(q)'
    <3>1. RequestInv(q)
        BY DEF Good, UpstreamInv
    <3>2. CASE q = r
        BY <1>0, <1>2, <3>1, <3>2 DEF StreamBreaks, Ended, RequestInv, HeadersTold
    <3>3. CASE q # r
      <4>1. Untouched(q) /\ up' = up
          BY <1>0, <1>2, <3>3 DEF StreamBreaks, Ended, Untouched
      <4> QED
          BY <3>1, <4>1, Frame
    <3> QED
        BY <3>2, <3>3
  <2> QED
      BY <2>1, <2>2, <2>3 DEF Good, UpstreamInv
<1>3. CASE ConsumerLeaves(r)
  <2>1. TypeOK'
    <3>1. phase' \in [Requests -> {"admitted", "sent", "retry", "headers", "ended"}]
        BY <1>0, <1>3 DEF ConsumerLeaves, Ended, PoolInv, RequestInv
    <3>2. conn' \in [Requests -> {"none", "reused", "fresh", "retry"}]
        BY <1>0, <1>3 DEF ConsumerLeaves, Ended, PoolInv, RequestInv
    <3>3. peerOpen' \in [Requests -> BOOLEAN]
        BY <1>0, <1>3 DEF ConsumerLeaves, Ended, PoolInv, RequestInv
    <3>4. queued' \in [Requests -> Nat]
        BY <1>0, <1>3 DEF ConsumerLeaves, Ended, PoolInv, RequestInv
    <3>5. ran' \in [Requests -> Nat] /\ logged' \in [Requests -> Nat]
        BY <1>0, <1>3 DEF ConsumerLeaves, Ended, PoolInv, RequestInv
    <3>6. httpStatus' \in [Requests -> Statuses]
        BY <1>0, <1>3 DEF ConsumerLeaves, Ended, PoolInv, RequestInv
    <3>7. outcome' \in [Requests -> Outcomes]
        BY <1>0, <1>3 DEF ConsumerLeaves, Ended, PoolInv, RequestInv
    <3>8. trouble' \in [Requests -> BOOLEAN] /\ crowded' \in [Requests -> BOOLEAN]
        BY <1>0, <1>3 DEF ConsumerLeaves, Ended, PoolInv, RequestInv
    <3>9. idleOpen' \in 0..MaxIdle /\ idleStale' \in 0..MaxIdle
        BY <1>0, <1>3 DEF ConsumerLeaves, Ended, PoolInv, RequestInv
    <3>10. restarts' \in 0..MaxRestarts
        BY <1>0, <1>3 DEF ConsumerLeaves, Ended, PoolInv, RequestInv
    <3>11. others' \in [Clients -> Nat] /\ up' \in BOOLEAN
        BY <1>0, <1>3 DEF ConsumerLeaves, Ended, PoolInv, RequestInv
    <3> QED
        BY <3>1, <3>2, <3>3, <3>4, <3>5, <3>6, <3>7, <3>8, <3>9, <3>10, <3>11
  <2>2. PoolInv'
      BY <1>0, <1>3 DEF ConsumerLeaves, Ended, PoolInv
  <2>3. ASSUME NEW q \in Requests PROVE RequestInv(q)'
    <3>1. RequestInv(q)
        BY DEF Good, UpstreamInv
    <3>2. CASE q = r
        BY <1>0, <1>3, <3>1, <3>2 DEF ConsumerLeaves, Ended, RequestInv, HeadersTold
    <3>3. CASE q # r
      <4>1. Untouched(q) /\ up' = up
          BY <1>0, <1>3, <3>3 DEF ConsumerLeaves, Ended, Untouched
      <4> QED
          BY <3>1, <4>1, Frame
    <3> QED
        BY <3>2, <3>3
  <2> QED
      BY <2>1, <2>2, <2>3 DEF Good, UpstreamInv
<1> QED
    BY <1>1, <1>2, <1>3

\* What the machine does with one request keeps the state good.
LEMMA MachineGood ==
    ASSUME Good, NEW r \in Requests,
           MachineStarts(r) \/ MachineRefuses(r) \/ KeepAliveRace(r) \/ MachineDrops(r)
    PROVE  Good'
<1> USE UpstreamAssumption DEF TypeOK, Outcomes, Statuses, Clients, pool, machine
<1>0. TypeOK /\ PoolInv /\ RequestInv(r)
    BY DEF Good, UpstreamInv
<1>1. CASE MachineStarts(r)
  <2>1. TypeOK'
    <3>1. phase' \in [Requests -> {"admitted", "sent", "retry", "headers", "ended"}]
        BY <1>0, <1>1 DEF MachineStarts, HeadersCome, PoolInv, RequestInv
    <3>2. conn' \in [Requests -> {"none", "reused", "fresh", "retry"}]
        BY <1>0, <1>1 DEF MachineStarts, HeadersCome, PoolInv, RequestInv
    <3>3. peerOpen' \in [Requests -> BOOLEAN]
        BY <1>0, <1>1 DEF MachineStarts, HeadersCome, PoolInv, RequestInv
    <3>4. queued' \in [Requests -> Nat]
        BY <1>0, <1>1 DEF MachineStarts, HeadersCome, PoolInv, RequestInv
    <3>5. ran' \in [Requests -> Nat] /\ logged' \in [Requests -> Nat]
        BY <1>0, <1>1 DEF MachineStarts, HeadersCome, PoolInv, RequestInv
    <3>6. httpStatus' \in [Requests -> Statuses]
        BY <1>0, <1>1 DEF MachineStarts, HeadersCome, PoolInv, RequestInv
    <3>7. outcome' \in [Requests -> Outcomes]
        BY <1>0, <1>1 DEF MachineStarts, HeadersCome, PoolInv, RequestInv
    <3>8. trouble' \in [Requests -> BOOLEAN] /\ crowded' \in [Requests -> BOOLEAN]
        BY <1>0, <1>1 DEF MachineStarts, HeadersCome, PoolInv, RequestInv
    <3>9. idleOpen' \in 0..MaxIdle /\ idleStale' \in 0..MaxIdle
        BY <1>0, <1>1 DEF MachineStarts, HeadersCome, PoolInv, RequestInv
    <3>10. restarts' \in 0..MaxRestarts
        BY <1>0, <1>1 DEF MachineStarts, HeadersCome, PoolInv, RequestInv
    <3>11. others' \in [Clients -> Nat] /\ up' \in BOOLEAN
        BY <1>0, <1>1 DEF MachineStarts, HeadersCome, PoolInv, RequestInv
    <3> QED
        BY <3>1, <3>2, <3>3, <3>4, <3>5, <3>6, <3>7, <3>8, <3>9, <3>10, <3>11
  <2>2. PoolInv'
      BY <1>0, <1>1 DEF MachineStarts, HeadersCome, PoolInv
  <2>3. ASSUME NEW q \in Requests PROVE RequestInv(q)'
    <3>1. RequestInv(q)
        BY DEF Good, UpstreamInv
    <3>2. CASE q = r
        BY <1>0, <1>1, <3>1, <3>2 DEF MachineStarts, HeadersCome, RequestInv, HeadersTold
    <3>3. CASE q # r
      <4>1. Untouched(q) /\ up' = up
          BY <1>0, <1>1, <3>3 DEF MachineStarts, HeadersCome, Untouched
      <4> QED
          BY <3>1, <4>1, Frame
    <3> QED
        BY <3>2, <3>3
  <2> QED
      BY <2>1, <2>2, <2>3 DEF Good, UpstreamInv
<1>2. CASE MachineRefuses(r)
  <2>1. TypeOK'
    <3>1. phase' \in [Requests -> {"admitted", "sent", "retry", "headers", "ended"}]
        BY <1>0, <1>2 DEF MachineRefuses, HeadersCome, PoolInv, RequestInv
    <3>2. conn' \in [Requests -> {"none", "reused", "fresh", "retry"}]
        BY <1>0, <1>2 DEF MachineRefuses, HeadersCome, PoolInv, RequestInv
    <3>3. peerOpen' \in [Requests -> BOOLEAN]
        BY <1>0, <1>2 DEF MachineRefuses, HeadersCome, PoolInv, RequestInv
    <3>4. queued' \in [Requests -> Nat]
        BY <1>0, <1>2 DEF MachineRefuses, HeadersCome, PoolInv, RequestInv
    <3>5. ran' \in [Requests -> Nat] /\ logged' \in [Requests -> Nat]
        BY <1>0, <1>2 DEF MachineRefuses, HeadersCome, PoolInv, RequestInv
    <3>6. httpStatus' \in [Requests -> Statuses]
        BY <1>0, <1>2 DEF MachineRefuses, HeadersCome, PoolInv, RequestInv
    <3>7. outcome' \in [Requests -> Outcomes]
        BY <1>0, <1>2 DEF MachineRefuses, HeadersCome, PoolInv, RequestInv
    <3>8. trouble' \in [Requests -> BOOLEAN] /\ crowded' \in [Requests -> BOOLEAN]
        BY <1>0, <1>2 DEF MachineRefuses, HeadersCome, PoolInv, RequestInv
    <3>9. idleOpen' \in 0..MaxIdle /\ idleStale' \in 0..MaxIdle
        BY <1>0, <1>2 DEF MachineRefuses, HeadersCome, PoolInv, RequestInv
    <3>10. restarts' \in 0..MaxRestarts
        BY <1>0, <1>2 DEF MachineRefuses, HeadersCome, PoolInv, RequestInv
    <3>11. others' \in [Clients -> Nat] /\ up' \in BOOLEAN
        BY <1>0, <1>2 DEF MachineRefuses, HeadersCome, PoolInv, RequestInv
    <3> QED
        BY <3>1, <3>2, <3>3, <3>4, <3>5, <3>6, <3>7, <3>8, <3>9, <3>10, <3>11
  <2>2. PoolInv'
      BY <1>0, <1>2 DEF MachineRefuses, HeadersCome, PoolInv
  <2>3. ASSUME NEW q \in Requests PROVE RequestInv(q)'
    <3>1. RequestInv(q)
        BY DEF Good, UpstreamInv
    <3>2. CASE q = r
      <4>1. /\ queued[q] > 0 /\ queued'[q] = queued[q] - 1 /\ up' = up
            /\ ran'[q] = ran[q] /\ conn'[q] = conn[q] /\ peerOpen'[q] = peerOpen[q]
            /\ outcome'[q] = outcome[q] /\ logged'[q] = logged[q]
            /\ trouble'[q] = trouble[q] /\ crowded'[q] = crowded[q]
          BY <1>0, <1>2, <3>2 DEF MachineRefuses
      <4>2. CASE phase[q] = "sent" /\ peerOpen[q]
        <5>1. phase'[q] = "headers" /\ httpStatus'[q] \in {"denied", "error"}
            BY <1>0, <1>2, <3>2, <4>2 DEF MachineRefuses, HeadersCome
        <5>2. ran[q] = 0 /\ queued[q] = 1 /\ logged[q] = 0
            BY <3>1, <4>2 DEF RequestInv
        <5>3. ran'[q] = 0 /\ queued'[q] = 0 /\ outcome[q] = "client_disconnect"
            BY <3>1, <4>1, <4>2, <5>2 DEF RequestInv
        <5> QED
            BY <4>1, <5>1, <5>2, <5>3 DEF RequestInv, HeadersTold
      <4>3. CASE ~(phase[q] = "sent" /\ peerOpen[q])
        <5>1. phase'[q] = phase[q] /\ httpStatus'[q] = httpStatus[q]
            BY <1>0, <1>2, <3>2, <4>3 DEF MachineRefuses, HeadersCome
        <5>2. phase[q] = "ended" /\ queued[q] \in Nat /\ ran[q] \in Nat
            BY <1>0, <3>1, <4>1, <4>3 DEF RequestInv, HeadersTold
        <5>3. ~HeadersTold(q) /\ ran'[q] + queued'[q] <= 1
            BY <3>1, <4>1, <5>2 DEF RequestInv, HeadersTold
        <5> QED
            BY <3>1, <4>1, <5>1, <5>2, <5>3 DEF RequestInv
      <4> QED
          BY <4>2, <4>3
    <3>3. CASE q # r
      <4>1. Untouched(q) /\ up' = up
          BY <1>0, <1>2, <3>3 DEF MachineRefuses, HeadersCome, Untouched
      <4> QED
          BY <3>1, <4>1, Frame
    <3> QED
        BY <3>2, <3>3
  <2> QED
      BY <2>1, <2>2, <2>3 DEF Good, UpstreamInv
<1>3. CASE KeepAliveRace(r)
  <2>1. TypeOK'
    <3>1. phase' \in [Requests -> {"admitted", "sent", "retry", "headers", "ended"}]
        BY <1>0, <1>3 DEF KeepAliveRace, PoolInv, RequestInv
    <3>2. conn' \in [Requests -> {"none", "reused", "fresh", "retry"}]
        BY <1>0, <1>3 DEF KeepAliveRace, PoolInv, RequestInv
    <3>3. peerOpen' \in [Requests -> BOOLEAN]
        BY <1>0, <1>3 DEF KeepAliveRace, PoolInv, RequestInv
    <3>4. queued' \in [Requests -> Nat]
        BY <1>0, <1>3 DEF KeepAliveRace, PoolInv, RequestInv
    <3>5. ran' \in [Requests -> Nat] /\ logged' \in [Requests -> Nat]
        BY <1>0, <1>3 DEF KeepAliveRace, PoolInv, RequestInv
    <3>6. httpStatus' \in [Requests -> Statuses]
        BY <1>0, <1>3 DEF KeepAliveRace, PoolInv, RequestInv
    <3>7. outcome' \in [Requests -> Outcomes]
        BY <1>0, <1>3 DEF KeepAliveRace, PoolInv, RequestInv
    <3>8. trouble' \in [Requests -> BOOLEAN] /\ crowded' \in [Requests -> BOOLEAN]
        BY <1>0, <1>3 DEF KeepAliveRace, PoolInv, RequestInv
    <3>9. idleOpen' \in 0..MaxIdle /\ idleStale' \in 0..MaxIdle
        BY <1>0, <1>3 DEF KeepAliveRace, PoolInv, RequestInv
    <3>10. restarts' \in 0..MaxRestarts
        BY <1>0, <1>3 DEF KeepAliveRace, PoolInv, RequestInv
    <3>11. others' \in [Clients -> Nat] /\ up' \in BOOLEAN
        BY <1>0, <1>3 DEF KeepAliveRace, PoolInv, RequestInv
    <3> QED
        BY <3>1, <3>2, <3>3, <3>4, <3>5, <3>6, <3>7, <3>8, <3>9, <3>10, <3>11
  <2>2. PoolInv'
      BY <1>0, <1>3 DEF KeepAliveRace, PoolInv
  <2>3. ASSUME NEW q \in Requests PROVE RequestInv(q)'
    <3>1. RequestInv(q)
        BY DEF Good, UpstreamInv
    <3>2. CASE q = r
        BY <1>0, <1>3, <3>1, <3>2 DEF KeepAliveRace, RequestInv, HeadersTold
    <3>3. CASE q # r
      <4>1. Untouched(q) /\ up' = up
          BY <1>0, <1>3, <3>3 DEF KeepAliveRace, Untouched
      <4> QED
          BY <3>1, <4>1, Frame
    <3> QED
        BY <3>2, <3>3
  <2> QED
      BY <2>1, <2>2, <2>3 DEF Good, UpstreamInv
<1>4. CASE MachineDrops(r)
  <2>1. TypeOK'
    <3>1. phase' \in [Requests -> {"admitted", "sent", "retry", "headers", "ended"}]
        BY <1>0, <1>4 DEF MachineDrops, PoolInv, RequestInv
    <3>2. conn' \in [Requests -> {"none", "reused", "fresh", "retry"}]
        BY <1>0, <1>4 DEF MachineDrops, PoolInv, RequestInv
    <3>3. peerOpen' \in [Requests -> BOOLEAN]
        BY <1>0, <1>4 DEF MachineDrops, PoolInv, RequestInv
    <3>4. queued' \in [Requests -> Nat]
        BY <1>0, <1>4 DEF MachineDrops, PoolInv, RequestInv
    <3>5. ran' \in [Requests -> Nat] /\ logged' \in [Requests -> Nat]
        BY <1>0, <1>4 DEF MachineDrops, PoolInv, RequestInv
    <3>6. httpStatus' \in [Requests -> Statuses]
        BY <1>0, <1>4 DEF MachineDrops, PoolInv, RequestInv
    <3>7. outcome' \in [Requests -> Outcomes]
        BY <1>0, <1>4 DEF MachineDrops, PoolInv, RequestInv
    <3>8. trouble' \in [Requests -> BOOLEAN] /\ crowded' \in [Requests -> BOOLEAN]
        BY <1>0, <1>4 DEF MachineDrops, PoolInv, RequestInv
    <3>9. idleOpen' \in 0..MaxIdle /\ idleStale' \in 0..MaxIdle
        BY <1>0, <1>4 DEF MachineDrops, PoolInv, RequestInv
    <3>10. restarts' \in 0..MaxRestarts
        BY <1>0, <1>4 DEF MachineDrops, PoolInv, RequestInv
    <3>11. others' \in [Clients -> Nat] /\ up' \in BOOLEAN
        BY <1>0, <1>4 DEF MachineDrops, PoolInv, RequestInv
    <3> QED
        BY <3>1, <3>2, <3>3, <3>4, <3>5, <3>6, <3>7, <3>8, <3>9, <3>10, <3>11
  <2>2. PoolInv'
      BY <1>0, <1>4 DEF MachineDrops, PoolInv
  <2>3. ASSUME NEW q \in Requests PROVE RequestInv(q)'
    <3>1. RequestInv(q)
        BY DEF Good, UpstreamInv
    <3>2. CASE q = r
        BY <1>0, <1>4, <3>1, <3>2 DEF MachineDrops, RequestInv, HeadersTold
    <3>3. CASE q # r
      <4>1. Untouched(q) /\ up' = up
          BY <1>0, <1>4, <3>3 DEF MachineDrops, Untouched
      <4> QED
          BY <3>1, <4>1, Frame
    <3> QED
        BY <3>2, <3>3
  <2> QED
      BY <2>1, <2>2, <2>3 DEF Good, UpstreamInv
<1> QED
    BY <1>1, <1>2, <1>3, <1>4

\* A stop or return of the machine, the pool's housekeeping and the requests to
\* other machines keep it good.
LEMMA OutsideGood ==
    ASSUME Good,
           \/ MachineStops \/ MachineReturns \/ IdleGoesStale \/ IdleExpires
           \/ \E client \in Clients : OthersTake(client) \/ OthersReturn(client)
    PROVE  Good'
<1> USE UpstreamAssumption DEF TypeOK, Outcomes, Statuses, pool, machine
<1>0. TypeOK /\ PoolInv
    BY DEF Good, UpstreamInv
<1>1. CASE MachineStops
  <2>1. TypeOK'
    <3>1. phase' \in [Requests -> {"admitted", "sent", "retry", "headers", "ended"}]
        BY <1>0, <1>1 DEF MachineStops, PoolInv, RequestInv
    <3>2. conn' \in [Requests -> {"none", "reused", "fresh", "retry"}]
        BY <1>0, <1>1 DEF MachineStops, PoolInv, RequestInv
    <3>3. peerOpen' \in [Requests -> BOOLEAN]
        BY <1>0, <1>1 DEF MachineStops, PoolInv, RequestInv
    <3>4. queued' \in [Requests -> Nat]
        BY <1>0, <1>1 DEF MachineStops, PoolInv, RequestInv
    <3>5. ran' \in [Requests -> Nat] /\ logged' \in [Requests -> Nat]
        BY <1>0, <1>1 DEF MachineStops, PoolInv, RequestInv
    <3>6. httpStatus' \in [Requests -> Statuses]
        BY <1>0, <1>1 DEF MachineStops, PoolInv, RequestInv
    <3>7. outcome' \in [Requests -> Outcomes]
        BY <1>0, <1>1 DEF MachineStops, PoolInv, RequestInv
    <3>8. trouble' \in [Requests -> BOOLEAN] /\ crowded' \in [Requests -> BOOLEAN]
        BY <1>0, <1>1 DEF MachineStops, PoolInv, RequestInv
    <3>9. idleOpen' \in 0..MaxIdle /\ idleStale' \in 0..MaxIdle
        BY <1>0, <1>1 DEF MachineStops, PoolInv, RequestInv
    <3>10. restarts' \in 0..MaxRestarts
        BY <1>0, <1>1 DEF MachineStops, PoolInv, RequestInv
    <3>11. others' \in [Clients -> Nat] /\ up' \in BOOLEAN
        BY <1>0, <1>1 DEF MachineStops, PoolInv, RequestInv
    <3> QED
        BY <3>1, <3>2, <3>3, <3>4, <3>5, <3>6, <3>7, <3>8, <3>9, <3>10, <3>11
  <2>2. PoolInv'
      BY <1>0, <1>1 DEF MachineStops, PoolInv
  <2>3. ASSUME NEW q \in Requests PROVE RequestInv(q)'
    <3>1. RequestInv(q)
        BY DEF Good, UpstreamInv
    <3>2. /\ phase'[q] = phase[q] /\ conn'[q] = conn[q] /\ peerOpen'[q] = FALSE
          /\ queued'[q] = 0 /\ ran'[q] = ran[q] /\ outcome'[q] = outcome[q]
          /\ logged'[q] = logged[q] /\ up' = FALSE
          /\ httpStatus'[q] = httpStatus[q] /\ crowded'[q] = crowded[q]
          /\ trouble'[q] = (trouble[q] \/ phase[q] \in {"sent", "retry", "headers"})
        BY <1>0, <1>1 DEF MachineStops
    <3> QED
        BY <1>0, <3>1, <3>2 DEF RequestInv, HeadersTold
  <2> QED
      BY <2>1, <2>2, <2>3 DEF Good, UpstreamInv
<1>2. CASE MachineReturns
  <2>1. TypeOK'
      BY <1>0, <1>2 DEF MachineReturns, PoolInv, Clients
  <2>2. PoolInv'
      BY <1>0, <1>2 DEF MachineReturns, PoolInv
  <2>3. ASSUME NEW q \in Requests PROVE RequestInv(q)'
    <3>1. RequestInv(q)
        BY DEF Good, UpstreamInv
    <3> QED
        BY <1>0, <1>2, <3>1 DEF MachineReturns, RequestInv, HeadersTold
  <2> QED
      BY <2>1, <2>2, <2>3 DEF Good, UpstreamInv
<1>3. CASE IdleGoesStale
  <2>1. TypeOK'
      BY <1>0, <1>3 DEF IdleGoesStale, PoolInv, Clients
  <2>2. PoolInv'
      BY <1>0, <1>3 DEF IdleGoesStale, PoolInv
  <2>3. ASSUME NEW q \in Requests PROVE RequestInv(q)'
    <3>1. RequestInv(q)
        BY DEF Good, UpstreamInv
    <3>2. Untouched(q) /\ up' = up
        BY <1>3 DEF IdleGoesStale, Untouched
    <3> QED
        BY <3>1, <3>2, Frame
  <2> QED
      BY <2>1, <2>2, <2>3 DEF Good, UpstreamInv
<1>4. CASE IdleExpires
  <2>1. TypeOK'
      BY <1>0, <1>4 DEF IdleExpires, PoolInv, Clients
  <2>2. PoolInv'
      BY <1>0, <1>4 DEF IdleExpires, PoolInv
  <2>3. ASSUME NEW q \in Requests PROVE RequestInv(q)'
    <3>1. RequestInv(q)
        BY DEF Good, UpstreamInv
    <3>2. Untouched(q) /\ up' = up
        BY <1>4 DEF IdleExpires, Untouched
    <3> QED
        BY <3>1, <3>2, Frame
  <2> QED
      BY <2>1, <2>2, <2>3 DEF Good, UpstreamInv
<1>5. ASSUME NEW client \in Clients, OthersTake(client) PROVE Good'
  <2>1. TypeOK'
      BY <1>0, <1>5 DEF OthersTake, PoolInv, Clients
  <2>2. PoolInv'
      BY <1>0, <1>5 DEF OthersTake, PoolInv
  <2>3. ASSUME NEW q \in Requests PROVE RequestInv(q)'
    <3>1. RequestInv(q)
        BY DEF Good, UpstreamInv
    <3>2. Untouched(q) /\ up' = up
        BY <1>5 DEF OthersTake, Untouched
    <3> QED
        BY <3>1, <3>2, Frame
  <2> QED
      BY <2>1, <2>2, <2>3 DEF Good, UpstreamInv
<1>6. ASSUME NEW client \in Clients, OthersReturn(client) PROVE Good'
  <2>1. TypeOK'
      BY <1>0, <1>6 DEF OthersReturn, PoolInv, Clients
  <2>2. PoolInv'
      BY <1>0, <1>6 DEF OthersReturn, PoolInv
  <2>3. ASSUME NEW q \in Requests PROVE RequestInv(q)'
    <3>1. RequestInv(q)
        BY DEF Good, UpstreamInv
    <3>2. Untouched(q) /\ up' = up
        BY <1>6 DEF OthersReturn, Untouched
    <3> QED
        BY <3>1, <3>2, Frame
  <2> QED
      BY <2>1, <2>2, <2>3 DEF Good, UpstreamInv
<1> QED
    BY <1>1, <1>2, <1>3, <1>4, <1>5, <1>6

LEMMA GoodStep == Good /\ [Next]_vars => Good'
<1> SUFFICES ASSUME Good, [Next]_vars PROVE Good'
    OBVIOUS
<1>1. CASE UNCHANGED vars
    BY <1>1 DEF vars, pool, machine, Good, TypeOK, UpstreamInv, PoolInv, RequestInv, HeadersTold
<1>2. CASE Next
    BY <1>2, SendGood, RelayGood, MachineGood, OutsideGood DEF Next, GatewayStep
<1> QED
    BY <1>1, <1>2

\* What good states are good for.
LEMMA GoodIsSafe == Good => RunsAtMostOnce /\ StalePoolHidden /\ LogTellsOutcome
<1>1. ASSUME Good, NEW r \in Requests PROVE ran[r] + queued[r] <= 1
  <2>1. /\ RequestInv(r) /\ ran[r] \in Nat /\ queued[r] \in Nat
        /\ phase[r] \in {"admitted", "sent", "retry", "headers", "ended"}
      BY <1>1 DEF Good, TypeOK, UpstreamInv
  <2> QED
      BY <2>1 DEF RequestInv, HeadersTold
<1>2. Good => StalePoolHidden
    BY DEF Good, UpstreamInv, RequestInv, StalePoolHidden
<1>3. Good => LogTellsOutcome
    BY DEF Good, TypeOK, UpstreamInv, RequestInv, HeadersTold, LogTellsOutcome
<1> QED
    BY <1>1, <1>2, <1>3 DEF RunsAtMostOnce

\* Good states are all the states there are.
LEMMA GoodAlways == Spec => []Good
<1>1. Spec => Init /\ [][Next]_vars
    BY PTL DEF Spec
<1> QED
    BY InitGood, GoodStep, <1>1, PTL

\* The state always has the shape TypeOK gives it.
THEOREM TypeCorrect == Spec => []TypeOK
<1>1. Good => TypeOK
    BY DEF Good
<1> QED
    BY <1>1, GoodAlways, PTL

\* No tool call is ever started twice by the gateway's retry.
THEOREM AtMostOnceCorrect == Spec => []RunsAtMostOnce
BY GoodIsSafe, GoodAlways, PTL

\* A connection that went stale in the pool never turns into a 503: behind one there is real trouble of
\* the machine, or a pool that had no place for the request in time.
THEOREM StaleHiddenCorrect == Spec => []StalePoolHidden
BY GoodIsSafe, GoodAlways, PTL

\* One access-log line per admitted request, and what it says of the machine's answer is true of its tool.
THEOREM LogCorrect == Spec => []LogTellsOutcome
BY GoodIsSafe, GoodAlways, PTL

-----------------------------------------------------------------------------
(* The episode reports. *)

\* The status being built calls announced only what the file did, or what was just delivered.
EpisodeInv == EpisodesHeard /\ \A b \in Boxes : building[b] = "told" => b \in heard

LEMMA EpisodesBegin == EpisodeInit => EpisodeInv
BY DEF EpisodeInit, EpisodeIdle, NoReport, EpisodeInv, EpisodesHeard

LEMMA EpisodesStep == EpisodeInv /\ [EpisodeNext]_episodeVars => EpisodeInv'
<1> SUFFICES ASSUME EpisodeInv, [EpisodeNext]_episodeVars PROVE EpisodeInv'
    OBVIOUS
<1> USE DEF EpisodeInv, EpisodesHeard
<1>1. ASSUME NEW announces, Judge(announces)
      PROVE  EpisodeInv'
    BY <1>1 DEF Judge, Continue
<1>2. ASSUME NEW G \in SUBSET unsent, NEW result \in {"sent", "lost", "unreported"}, Send(G, result)
      PROVE  EpisodeInv'
    BY <1>2 DEF Send
<1>3. CASE ReportBreaks
    BY <1>3 DEF ReportBreaks
<1>4. CASE WriteReport
    BY <1>4 DEF WriteReport, NoReport
<1>5. CASE ReportLost
    BY <1>5 DEF ReportLost, NoReport
<1>6. CASE UNCHANGED episodeVars
    BY <1>6 DEF episodeVars
<1> QED
    BY <1>1, <1>2, <1>3, <1>4, <1>5, <1>6 DEF EpisodeNext, JudgeAll, NoReleases, SendSome

\* Lost messages, exceptions, unwritable files and crashes (gateway/drift.py, gateway/no_admin.py)
\* never make an announcement count as made that the owner did not get.
THEOREM EpisodesCorrect == EpisodeSpec => []EpisodesHeard
<1>1. EpisodeInv => EpisodesHeard
    BY DEF EpisodeInv
<1> QED
    BY EpisodesBegin, EpisodesStep, <1>1, PTL DEF EpisodeSpec

-----------------------------------------------------------------------------
(* The state report. *)

\* What no property is claimed of: without a fault there is no such thing.
Exempt == IF watchFaults = 0 THEN {} ELSE torn

\* What the file forgot, and all it says while the run in progress has not read it.
Lost == forgotten \cup (IF previous = file THEN {} ELSE Items \cup {Check})

\* What the file and the status being built are claimed to say, and what the owner was told: the
\* file of all that is neither torn nor forgotten, the status being built as the file it replaces;
\* the news that the check runs again is told, or kept owed, before the status may be saved.
FileInv ==
  /\ \A i \in (Items \cup {Check}) \ (torn \cup forgotten) : Settled(file, i)
  /\ \A i \in (Items \cup {Check}) \ torn : OnlyGoodNewsMissed(file, told, toldDown, i)
RunInv ==
  /\ stage # "idle" => /\ previous \in {file, EmptyStatus}
                       /\ watchFaults = 0 => previous = file
  /\ stage = "states" => owed \subseteq Known(work)
  /\ stage \in {"states", "record"} =>
       /\ \A i \in Items \ (Exempt \cup Lost) : Agrees(work, told, toldDown, i)
       /\ \A i \in Items \ Exempt : OnlyGoodNewsMissed(work, told, toldDown, i)
  /\ stage = "states" =>
       /\ work.error = NoError
       /\ Check \notin Exempt \cup Lost /\ toldDown => (back /\ first) \/ work.recovery
  /\ stage = "record" /\ Check \notin Exempt => Agrees(work, told, toldDown, Check)
\* Without a fault only a machine that left is forgotten, and only a run in progress tears.
QuietInv ==
  /\ watchFaults = 0 => /\ forgotten \subseteq Machines
                        /\ stage \in {"idle", "failing"} => torn = {}
                        /\ \A i \in torn \cap Items : /\ stage = "states" /\ i \in Known(work)
                                                     /\ told[i] = work.items[i].state
  /\ stage = "states" => Gateway \in Known(work)
  /\ stage = "record" /\ previous = file => Known(work) = Known(file)
WatchInv == WatchTypeOK /\ FileInv /\ RunInv /\ QuietInv

LEMMA CheckIsNoItem == Check \notin Items
BY WatchdogAssumption DEF Check, Items

LEMMA EmptyIsStatus == EmptyStatus \in Status /\ Known(EmptyStatus) = {}
BY DEF EmptyStatus, Status, Known

\* What a status says of an item, and of the check itself.
LEMMA StatusItem ==
  ASSUME NEW s \in Status, NEW i \in Items
  PROVE  /\ s.items[i] \in Records \cup {NoRecord}
         /\ s.items[i].notified \in BOOLEAN
         /\ i \in Known(s) <=> s.items[i].state # "none"
         /\ i \in Known(s) => s.items[i].state \in ProbeStates
         /\ i \notin Known(s) => ~s.items[i].notified
<1>1. s.items[i] \in Records \cup {NoRecord}
    BY DEF Status
<1>2. CASE s.items[i] \in Records
  <2>1. /\ s.items[i].notified \in BOOLEAN /\ s.items[i].state \in ProbeStates
        /\ s.items[i].state # "none"
      BY <1>2, WatchdogAssumption DEF Records
  <2>2. s.items[i] # NoRecord
      BY <2>1 DEF NoRecord
  <2> QED
      BY <1>1, <2>1, <2>2 DEF Known
<1>3. CASE s.items[i] = NoRecord
  <2>1. s.items[i].notified = FALSE /\ s.items[i].state = "none"
      BY <1>3 DEF NoRecord
  <2> QED
      BY <1>1, <1>3, <2>1 DEF Known
<1> QED
    BY <1>1, <1>2, <1>3

LEMMA StatusCheck ==
  ASSUME NEW s \in Status
  PROVE  s.error.notified \in BOOLEAN /\ s.recovery \in BOOLEAN
<1>1. s.error \in {NoError} \cup [message : Failures \cup {"status"}, notified : BOOLEAN]
      /\ s.recovery \in BOOLEAN
    BY DEF Status
<1>2. NoError.notified = FALSE
    BY DEF NoError
<1> QED
    BY <1>1, <1>2

\* Agreement is more than missing good news only, and is all that counts of what a status knows.
LEMMA Agreement ==
  ASSUME NEW s \in Status, NEW i \in Items \cup {Check}
  PROVE  /\ Agrees(s, told, toldDown, i) => OnlyGoodNewsMissed(s, told, toldDown, i)
         /\ i \in Known(s) \cup {Check} => (Settled(s, i) <=> Agrees(s, told, toldDown, i))
         /\ Settled(s, i) => Agrees(s, told, toldDown, i)
         /\ i \in Items /\ i \notin Known(s) => (Settled(s, i) <=> told[i] = "ok")
<1>1. i = Check => i \notin Items
    BY CheckIsNoItem
<1>2. i \in Items /\ i \notin Known(s) => ~s.items[i].notified
    BY StatusItem
<1> QED
    BY <1>1, <1>2 DEF Settled, Agrees, OnlyGoodNewsMissed

LEMMA WatchBegins == WatchInit => WatchInv
<1> SUFFICES ASSUME WatchInit PROVE WatchInv
    OBVIOUS
<1>1. WatchTypeOK
  <2>1. file \in Status /\ previous \in Status /\ work \in Status
      BY EmptyIsStatus DEF WatchInit
  <2>2. told \in [Items -> ProbeStates]
      BY WatchdogAssumption DEF WatchInit
  <2>3. /\ owed \subseteq Items /\ torn \subseteq Items \cup {Check}
        /\ forgotten \subseteq Items \cup {Check} /\ watchFaults \in 0..MaxFaults
      BY WatchdogAssumption DEF WatchInit
  <2> QED
      BY <2>1, <2>2, <2>3 DEF WatchInit, WatchTypeOK
<1>2. FileInv
  <2>1. \A i \in Items \cup {Check} : Agrees(file, told, toldDown, i)
      BY CheckIsNoItem DEF WatchInit, Agrees, EmptyStatus, NoRecord, NoError
  <2>2. \A i \in Items \cup {Check} : Settled(file, i)
      BY <2>1 DEF WatchInit, Settled
  <2> QED
      BY <1>1, <2>1, <2>2, Agreement DEF FileInv, WatchTypeOK
<1>3. RunInv /\ QuietInv
    BY DEF WatchInit, RunInv, QuietInv
<1> QED
    BY <1>1, <1>2, <1>3 DEF WatchInv

\* What a run reads is the file, or nothing; without a fault it is the file.
LEMMA Reading ==
  ASSUME WatchInv, stage = "idle", LoadStatus
  PROVE  /\ previous' \in {file, EmptyStatus} /\ previous' \in Status
         /\ watchFaults' \in 0..MaxFaults
         /\ watchFaults' = 0 => watchFaults = 0 /\ previous' = file /\ torn = {}
<1>1. file \in Status /\ watchFaults \in 0..MaxFaults
    BY DEF WatchInv, WatchTypeOK
<1>2. watchFaults = 0 => torn = {}
    BY DEF WatchInv, QuietInv
<1>3. CASE previous' = file /\ UNCHANGED watchFaults
    BY <1>1, <1>2, <1>3
<1>4. CASE watchFaults < MaxFaults /\ watchFaults' = watchFaults + 1 /\ previous' = EmptyStatus
  <2>1. watchFaults' \in 0..MaxFaults /\ watchFaults' # 0
      BY <1>1, <1>4, WatchdogAssumption
  <2> QED
      BY <1>4, <2>1, EmptyIsStatus
<1> QED
    BY <1>3, <1>4 DEF LoadStatus

\* A run starts with the marks it read.
LEMMA StartKeeps == WatchInv /\ StartRun => WatchInv'
<1> SUFFICES ASSUME WatchInv, StartRun PROVE WatchInv'
    OBVIOUS
<1>1. PICK obs \in [Items -> Observations \cup {Gone}] :
        /\ obs[Gateway] # Gone
        /\ work' = [EmptyStatus EXCEPT
                   !.items = [i \in Items |-> IF obs[i] = Gone THEN NoRecord
                                              ELSE Advance(previous'.items[i], obs[i])]]
    BY DEF StartRun
<1> DEFINE New(i) == IF obs[i] = Gone THEN NoRecord ELSE Advance(previous'.items[i], obs[i])
<1>2. /\ work'.items = [i \in Items |-> New(i)]
      /\ work'.error = NoError /\ work'.recovery = FALSE
      /\ work' = [items |-> [i \in Items |-> New(i)], error |-> NoError, recovery |-> FALSE]
    BY <1>1 DEF EmptyStatus
<1>3. \A i \in Items : obs[i] # Gone => obs[i].state \in ProbeStates /\ obs[i].repaired \in BOOLEAN
  <2>1. ASSUME NEW o \in Observations
        PROVE  o.state \in ProbeStates /\ o.repaired \in BOOLEAN
    <3>1. CASE o \in [state : ProbeStates, repaired : {FALSE}]
        BY <3>1
    <3>2. CASE o = [state |-> "ok", repaired |-> TRUE]
        BY <3>2, WatchdogAssumption
    <3> QED
        BY <3>1, <3>2 DEF Observations
  <2> QED
      BY <2>1
<1>4. /\ UNCHANGED <<file, reason, told, toldDown, torn, forgotten>> /\ stage = "idle" /\ stage' = "states"
      /\ owed' = Unannounced(work') /\ first' = TRUE
      /\ back' = (previous'.error # NoError \/ previous'.recovery)
    BY DEF StartRun
<1>5. /\ previous' \in {file, EmptyStatus} /\ previous' \in Status /\ watchFaults' \in 0..MaxFaults
      /\ watchFaults' = 0 => watchFaults = 0 /\ previous' = file /\ torn = {}
    BY <1>4, Reading DEF StartRun
<1>6. \A i \in Items : previous'.items[i].notified \in BOOLEAN
    BY <1>5, StatusItem
<1>7. ASSUME NEW i \in Items
      PROVE  New(i) \in Records \cup {NoRecord}
    BY <1>3, <1>6 DEF Advance, Records
<1>8. work' \in Status
    BY <1>2, <1>7 DEF Status
<1>9. WatchTypeOK' /\ owed' \subseteq Known(work')
  <2>1. owed' \subseteq Known(work') /\ Known(work') \subseteq Items
      BY <1>4 DEF Unannounced, Known
  <2>2. back' \in BOOLEAN
      BY <1>4, <1>5, StatusCheck
  <2> QED
      BY <1>4, <1>5, <1>8, <2>1, <2>2 DEF WatchInv, WatchTypeOK
<1>10. FileInv'
    BY <1>4 DEF WatchInv, FileInv, Settled, Agrees, OnlyGoodNewsMissed, Known
<1>11. torn' = torn /\ Exempt' \subseteq torn /\ (watchFaults' = 0 => torn = {}) /\ Exempt' = torn
    BY <1>4, <1>5 DEF Exempt
<1>12. ASSUME NEW i \in Items, i \notin torn \cup Lost'
       PROVE  Agrees(work', told', toldDown', i)
  <2>1. i # Check /\ previous' = file /\ i \notin forgotten
      BY <1>4, <1>12, CheckIsNoItem DEF Lost
  <2>2. /\ file.items[i].notified => told[i] = file.items[i].state
        /\ file.items[i] = NoRecord => told[i] = "ok"
      BY <1>12, <2>1 DEF WatchInv, FileInv, Settled, Agrees, Known
  <2>3. New(i).notified => told[i] = New(i).state
    <3>1. CASE obs[i] = Gone
        BY <3>1 DEF NoRecord
    <3>2. CASE obs[i] # Gone
        BY <3>2, <2>1, <2>2 DEF Advance
    <3> QED
        BY <3>1, <3>2
  <2> HIDE DEF New
  <2> QED
      BY <1>2, <1>4, <2>1, <2>3 DEF Agrees
<1>13. ASSUME NEW i \in Items, i \notin torn
       PROVE  OnlyGoodNewsMissed(work', told', toldDown', i)
  <2>1. i # Check
      BY CheckIsNoItem
  <2>2. /\ previous'.items[i].notified =>
             told[i] = previous'.items[i].state \/ previous'.items[i].state = "ok"
    <3>1. CASE previous' = file
        BY <1>13, <2>1, <3>1 DEF WatchInv, FileInv, OnlyGoodNewsMissed
    <3>2. CASE previous' = EmptyStatus
        BY <3>2, EmptyIsStatus, StatusItem
    <3> QED
        BY <1>5, <3>1, <3>2
  <2>3. New(i).notified => told[i] = New(i).state \/ New(i).state = "ok"
    <3>1. CASE obs[i] = Gone
        BY <3>1 DEF NoRecord
    <3>2. CASE obs[i] # Gone
        BY <3>2, <2>2 DEF Advance
    <3> QED
        BY <3>1, <3>2
  <2> HIDE DEF New
  <2> QED
      BY <1>2, <1>4, <2>1, <2>3 DEF OnlyGoodNewsMissed
<1>14. Check \notin torn \cup Lost' /\ toldDown => back'
  <2>1. SUFFICES ASSUME Check \notin torn \cup Lost', toldDown PROVE back'
      OBVIOUS
  <2>2. previous' = file /\ Check \notin forgotten
      BY <1>4, <2>1 DEF Lost
  <2> QED
      BY <1>4, <2>1, <2>2 DEF WatchInv, FileInv, Settled, Agrees
<1>15. Gateway \in Known(work')
  <2>1. New(Gateway).state # "none"
      BY <1>1, <1>3, WatchdogAssumption DEF Advance, Items
  <2> HIDE DEF New
  <2> QED
      BY <1>2, <1>8, <2>1, StatusItem DEF Items
<1>16. RunInv'
    BY <1>2, <1>4, <1>5, <1>9, <1>11, <1>12, <1>13, <1>14 DEF RunInv
<1>17. watchFaults' = 0 => forgotten' \subseteq Machines
    BY <1>4, <1>5 DEF WatchInv, QuietInv
<1>18. QuietInv'
    BY <1>4, <1>5, <1>15, <1>17 DEF QuietInv
<1> QED
    BY <1>9, <1>10, <1>16, <1>18 DEF WatchInv

\* Marking changes the marks and nothing else.
LEMMA Marking ==
  ASSUME NEW s \in Status, NEW G \in SUBSET Known(s)
  PROVE  /\ Mark(s, G) \in Status /\ Known(Mark(s, G)) = Known(s)
         /\ Mark(s, G).error = s.error /\ Mark(s, G).recovery = s.recovery
         /\ \A i \in Items : /\ Mark(s, G).items[i].state = s.items[i].state
                             /\ Mark(s, G).items[i].notified = (s.items[i].notified \/ i \in G)
<1> DEFINE New(i) == Marked(s.items[i], i \in G)
<1>1. s = [items |-> s.items, error |-> s.error, recovery |-> s.recovery]
    BY DEF Status
<1>2. /\ Mark(s, G) = [items |-> [i \in Items |-> New(i)], error |-> s.error, recovery |-> s.recovery]
      /\ s.error \in {NoError} \cup [message : Failures \cup {"status"}, notified : BOOLEAN]
      /\ s.recovery \in BOOLEAN
  <2>1. Mark(s, G) = [s EXCEPT !.items = [i \in Items |-> New(i)]]
      BY DEF Mark
  <2> HIDE DEF New
  <2> QED
      BY <1>1, <2>1 DEF Status
<1>3. ASSUME NEW i \in Items
      PROVE  /\ New(i) \in Records \cup {NoRecord}
             /\ New(i).state = s.items[i].state
             /\ New(i).notified = (s.items[i].notified \/ i \in G)
  <2>1. CASE i \in Known(s)
    <3>1. s.items[i] \in Records
        BY <2>1, StatusItem DEF Known
    <3> QED
        BY <3>1 DEF Records, Marked
  <2>2. CASE i \notin Known(s)
    <3>1. s.items[i] = NoRecord /\ i \notin G
        BY <2>2 DEF Known
    <3>2. s.items[i].state = "none" /\ (s.items[i].notified \/ i \in G) = FALSE
          /\ s.items[i].notified = FALSE
        BY <3>1 DEF NoRecord
    <3>3. New(i) = NoRecord
        BY <3>2 DEF NoRecord, Marked
    <3>4. New(i).state = "none" /\ New(i).notified = FALSE
        BY <3>2 DEF Marked
    <3> HIDE DEF New
    <3> QED
        BY <3>2, <3>3, <3>4
  <2> QED
      BY <2>1, <2>2
<1> HIDE DEF New
<1>4. Mark(s, G) \in Status
  <2>1. [i \in Items |-> New(i)] \in [Items -> Records \cup {NoRecord}]
      BY <1>3
  <2> QED
      BY <1>2, <2>1 DEF Status
<1>5. \A i \in Items : /\ Mark(s, G).items[i].state = s.items[i].state
                      /\ Mark(s, G).items[i].notified = (s.items[i].notified \/ i \in G)
    BY <1>2, <1>3
<1>6. Known(Mark(s, G)) = Known(s)
  <2>1. \A i \in Items : i \in Known(Mark(s, G)) <=> i \in Known(s)
      BY <1>4, <1>5, StatusItem
  <2> QED
      BY <2>1 DEF Known
<1> QED
    BY <1>2, <1>4, <1>5, <1>6

\* What a message changes on the owner's side is torn until the status is saved.
LEMMA AnnounceKeeps ==
  ASSUME WatchInv, NEW G \in SUBSET owed, NEW result \in NoticeOutcomes, Announce(G, result)
  PROVE  WatchInv'
<1>1. /\ stage = "states" /\ owed' = owed \ G /\ first' = FALSE
      /\ UNCHANGED <<file, previous, stage, back, reason, forgotten, watchFaults>>
      /\ result = "sent" => work' = Mark(work, G)
      /\ result # "sent" => work' = [work EXCEPT !.recovery = @ \/ (first /\ back)]
      /\ result = "lost" => UNCHANGED <<told, toldDown, torn>>
      /\ result # "lost" =>
           /\ told' = [i \in Items |-> IF i \in G THEN work.items[i].state ELSE told[i]]
           /\ toldDown' = (toldDown /\ ~back)
           /\ torn' = torn \cup G \cup (IF back THEN {Check} ELSE {})
    BY Zenon DEF Announce
<1>2. /\ work \in Status /\ G \subseteq Known(work) /\ G \subseteq Items /\ torn \subseteq torn'
      /\ told \in [Items -> ProbeStates] /\ back \in BOOLEAN /\ first \in BOOLEAN
      /\ toldDown \in BOOLEAN /\ torn \subseteq Items \cup {Check}
    BY <1>1 DEF WatchInv, WatchTypeOK, RunInv
<1>3. /\ work' \in Status /\ Known(work') = Known(work) /\ work'.error = work.error
      /\ result = "sent" => work'.recovery = work.recovery
      /\ result # "sent" => work'.recovery = (work.recovery \/ (first /\ back))
      /\ \A i \in Items : /\ work'.items[i].state = work.items[i].state
                          /\ work'.items[i].notified => work.items[i].notified \/ (result = "sent" /\ i \in G)
  <2>1. CASE result = "sent"
      BY <1>1, <1>2, <2>1, Marking, StatusItem
  <2>2. CASE result # "sent"
    <3>1. work = [items |-> work.items, error |-> work.error, recovery |-> work.recovery]
          /\ work.recovery \in BOOLEAN
        BY <1>2 DEF Status
    <3>2. work' = [items |-> work.items, error |-> work.error, recovery |-> work.recovery \/ (first /\ back)]
        BY <1>1, <2>2, <3>1
    <3>3. /\ work'.items = work.items /\ work'.error = work.error
          /\ work'.recovery = (work.recovery \/ (first /\ back))
        BY <3>2
    <3>4. work' \in Status
        BY <1>2, <3>2 DEF Status
    <3> QED
        BY <2>2, <3>3, <3>4 DEF Known
  <2> QED
      BY <2>1, <2>2
<1>4. WatchTypeOK' /\ owed' \subseteq Known(work')
  <2>1. told' \in [Items -> ProbeStates]
    <3>1. \A i \in G : work.items[i].state \in ProbeStates
        BY <1>2, StatusItem
    <3> QED
        BY <1>1, <1>2, <3>1
  <2>2. torn' \subseteq Items \cup {Check} /\ toldDown' \in BOOLEAN
      BY <1>1, <1>2
  <2>3. owed' \subseteq Items /\ owed' \subseteq Known(work')
      BY <1>1, <1>2, <1>3 DEF WatchInv, RunInv, Known
  <2>4. WatchTypeOK'
      BY <1>1, <1>3, <2>1, <2>2, <2>3 DEF WatchInv, WatchTypeOK
  <2> QED
      BY <2>3, <2>4
<1>5. ASSUME NEW i \in Items, i \notin G
      PROVE  told'[i] = told[i]
    BY <1>1, <1>5
<1>6. Check \notin torn' => toldDown' = toldDown
    BY <1>1, <1>2
<1>7. \A i \in Items \ torn' : i \notin G \/ result = "lost"
    BY <1>1
<1>8. \A i \in Items \ torn' : told'[i] = told[i]
    BY <1>1, <1>5, <1>7
<1>9. FileInv'
  <2>1. /\ \A i \in (Items \cup {Check}) \ (torn' \cup forgotten') : Settled(file, i)
        /\ \A i \in (Items \cup {Check}) \ torn' : OnlyGoodNewsMissed(file, told, toldDown, i)
      BY <1>1, <1>2 DEF WatchInv, FileInv
  <2> QED
      BY <1>1, <1>6, <1>8, <2>1, CheckIsNoItem DEF FileInv, Settled, Agrees, OnlyGoodNewsMissed, Known
<1>10. Lost' = Lost
    BY <1>1 DEF Lost
<1>11. Exempt \subseteq Exempt'
    BY <1>1, <1>2 DEF Exempt
<1>12. ASSUME NEW i \in Items \ Exempt'
       PROVE  /\ i \notin Lost => Agrees(work', told', toldDown', i)
              /\ OnlyGoodNewsMissed(work', told', toldDown', i)
  <2>1. i # Check /\ i \in Items \ Exempt
      BY <1>11, <1>12, CheckIsNoItem
  <2>2. /\ i \notin Lost /\ work.items[i].notified => told[i] = work.items[i].state
        /\ work.items[i].notified => told[i] = work.items[i].state \/ work.items[i].state = "ok"
      BY <1>1, <2>1 DEF WatchInv, RunInv, Agrees, OnlyGoodNewsMissed
  <2>3. CASE result # "lost" /\ i \in G
    <3>1. told'[i] = work'.items[i].state
        BY <1>1, <1>3, <2>3
    <3> QED
        BY <2>1, <3>1 DEF Agrees, OnlyGoodNewsMissed
  <2>4. CASE result = "lost" \/ i \notin G
    <3>1. told'[i] = told[i] /\ (work'.items[i].notified => work.items[i].notified)
        BY <1>1, <1>3, <1>5, <2>4
    <3> QED
        BY <1>3, <2>1, <2>2, <3>1 DEF Agrees, OnlyGoodNewsMissed
  <2> QED
      BY <2>3, <2>4
<1>13. Check \notin Exempt' \cup Lost /\ toldDown' => work'.recovery
  <2>1. SUFFICES ASSUME Check \notin Exempt' \cup Lost, toldDown' PROVE work'.recovery
      OBVIOUS
  <2>2. toldDown /\ (result = "lost" \/ ~back)
      BY <1>1, <2>1
  <2>3. (back /\ first) \/ work.recovery
      BY <1>1, <1>11, <2>1, <2>2 DEF WatchInv, RunInv
  <2> QED
      BY <1>3, <2>2, <2>3
<1>14. work'.error = NoError
    BY <1>1, <1>3 DEF WatchInv, RunInv
<1>15. RunInv'
  <2>1. previous' \in {file', EmptyStatus} /\ (watchFaults' = 0 => previous' = file')
      BY <1>1 DEF WatchInv, RunInv
  <2> QED
      BY <1>1, <1>4, <1>10, <1>12, <1>13, <1>14, <2>1 DEF RunInv
<1>16. QuietInv'
  <2>1. Gateway \in Known(work')
      BY <1>1, <1>3 DEF WatchInv, QuietInv
  <2>2. ASSUME watchFaults' = 0
        PROVE  /\ forgotten' \subseteq Machines
               /\ \A i \in torn' \cap Items : i \in Known(work') /\ told'[i] = work'.items[i].state
    <3>1. /\ forgotten \subseteq Machines
          /\ \A i \in torn \cap Items : i \in Known(work) /\ told[i] = work.items[i].state
        BY <1>1, <2>2 DEF WatchInv, QuietInv
    <3>2. ASSUME NEW i \in torn' \cap Items
          PROVE  i \in Known(work') /\ told'[i] = work'.items[i].state
      <4>1. CASE i \in G /\ result # "lost"
          BY <1>1, <1>2, <1>3, <4>1
      <4>2. CASE i \notin G \/ result = "lost"
        <5>1. i \in torn /\ told'[i] = told[i]
            BY <1>1, <1>5, <3>2, <4>2, CheckIsNoItem
        <5> QED
            BY <1>3, <3>1, <3>2, <5>1
      <4> QED
          BY <4>1, <4>2
    <3> QED
        BY <1>1, <3>1, <3>2
  <2> QED
      BY <1>1, <2>1, <2>2 DEF QuietInv
<1> QED
    BY <1>4, <1>9, <1>15, <1>16 DEF WatchInv

-----------------------------------------------------------------------------
(* The end of a run. *)

\* Writing a status leaves torn and forgotten what the owner does not know, and nothing else.
LEMMA SavedKeeps ==
  ASSUME WatchInv, NEW s \in Status, Saved(s), Idle, UNCHANGED <<told, toldDown, watchFaults>>,
         \A i \in Items \ (Exempt \cup Lost) : Agrees(s, told, toldDown, i),
         \A i \in Items \ Exempt : OnlyGoodNewsMissed(s, told, toldDown, i),
         Check \notin Exempt => OnlyGoodNewsMissed(s, told, toldDown, Check),
         Check \notin Exempt \cup Lost => Agrees(s, told, toldDown, Check),
         watchFaults = 0 =>
           /\ previous = file
           /\ \A i \in torn \cap Items : i \in Known(s) /\ told[i] = s.items[i].state
           /\ Gateway \in Known(s) \/ (torn \cap Items = {} /\ Known(s) = Known(file))
  PROVE  WatchInv'
<1> DEFINE dropped == IF previous = file THEN Items \ Known(s) ELSE Items \cup {Check}
<1>1. /\ file' = s
      /\ torn' = {i \in torn : ~Settled(s, i)}
      /\ forgotten' = {i \in forgotten \cup dropped : ~Settled(s, i)}
    BY DEF Saved
<1>2. /\ stage' = "idle" /\ owed' = {} /\ previous' = EmptyStatus /\ work' = EmptyStatus
      /\ back' = FALSE /\ first' = FALSE /\ reason' = "status"
    BY DEF Idle
<1>3. /\ torn \subseteq Items \cup {Check} /\ forgotten \subseteq Items \cup {Check}
      /\ dropped \subseteq Items \cup {Check} /\ Exempt \subseteq torn
    BY DEF WatchInv, WatchTypeOK, Exempt
<1>4. WatchTypeOK'
  <2>1. torn' \subseteq Items \cup {Check} /\ forgotten' \subseteq Items \cup {Check}
      BY <1>1, <1>3
  <2> QED
      BY <1>1, <1>2, <2>1, EmptyIsStatus DEF WatchInv, WatchTypeOK
<1>5. ASSUME NEW i \in Items \cup {Check}
      PROVE  Settled(file, i)' <=> Settled(s, i)
    BY <1>1 DEF Settled, Agrees, Known
<1>6. ASSUME NEW i \in (Items \cup {Check}) \ (torn' \cup forgotten')
      PROVE  Settled(s, i)
  <2>1. CASE i \in torn \/ i \in forgotten \cup dropped
      BY <1>1, <1>6, <2>1
  <2>2. CASE i \notin torn /\ i \notin forgotten \cup dropped
    <3>1. i \notin Exempt \cup Lost /\ i \in Known(s) \cup {Check}
        BY <1>3, <2>2, CheckIsNoItem DEF Lost
    <3>2. Agrees(s, told, toldDown, i)
        BY <3>1
    <3> QED
        BY <3>1, <3>2, Agreement
  <2> QED
      BY <2>1, <2>2
<1>7. ASSUME NEW i \in (Items \cup {Check}) \ torn'
      PROVE  OnlyGoodNewsMissed(s, told, toldDown, i)
  <2>1. CASE i \in torn
    <3>1. Settled(s, i)
        BY <1>1, <1>7, <2>1
    <3> QED
        BY <3>1, Agreement
  <2>2. CASE i \notin torn
      BY <1>3, <2>2
  <2> QED
      BY <2>1, <2>2
<1>8. FileInv'
    BY <1>1, <1>5, <1>6, <1>7 DEF FileInv, OnlyGoodNewsMissed, Settled, Agrees, Known
<1>9. ASSUME watchFaults = 0
      PROVE  torn' = {} /\ forgotten' \subseteq Machines
  <2>1. /\ previous = file /\ forgotten \subseteq Machines /\ Exempt = {}
        /\ \A i \in torn \cap Items : i \in Known(s) /\ told[i] = s.items[i].state
        /\ Gateway \in Known(s) \/ (torn \cap Items = {} /\ Known(s) = Known(file))
      BY <1>9 DEF WatchInv, QuietInv, Exempt
  <2>2. ASSUME NEW i \in torn PROVE Settled(s, i)
    <3>1. CASE i \in Items
      <4>1. i \in Known(s) /\ Agrees(s, told, toldDown, i)
          BY <2>1, <2>2, <3>1, CheckIsNoItem DEF Agrees
      <4> QED
          BY <4>1, Agreement DEF Known
    <3>2. CASE i = Check
      <4>1. Check \notin Exempt \cup Lost
          BY <2>1, CheckIsNoItem DEF Lost, Items
      <4> QED
          BY <3>2, <4>1, Agreement
    <3> QED
        BY <1>3, <2>2, <3>1, <3>2
  <2>3. ASSUME NEW i \in forgotten', i \notin Machines PROVE FALSE
    <3>1. i \in Items \ Known(s) /\ ~Settled(s, i) /\ i = Gateway
        BY <1>1, <2>1, <2>3 DEF Items
    <3>2. i \notin torn /\ i \notin forgotten /\ i \notin Known(file)
        BY <2>1, <2>3, <3>1
    <3>3. file \in Status
        BY DEF WatchInv, WatchTypeOK
    <3>4. Settled(file, i)
        BY <3>1, <3>2 DEF WatchInv, FileInv
    <3>5. told[i] = "ok"
        BY <3>1, <3>2, <3>3, <3>4, Agreement
    <3> QED
        BY <3>1, <3>5, Agreement
  <2> QED
      BY <1>1, <2>2, <2>3
<1>10. RunInv' /\ QuietInv'
    BY <1>2, <1>9 DEF RunInv, QuietInv
<1> QED
    BY <1>4, <1>8, <1>10 DEF WatchInv

LEMMA FailKeeps ==
  ASSUME WatchInv, NEW message \in Failures \cup {"status"}, FailRun(message),
         previous' \in {file, EmptyStatus}, watchFaults' \in 0..MaxFaults,
         watchFaults' = 0 => watchFaults = 0 /\ previous' = file /\ torn = {}
  PROVE  WatchInv'
<1>1. /\ reason' = message /\ stage' = "failing" /\ owed' = {} /\ work' = EmptyStatus
      /\ back' = FALSE /\ first' = FALSE /\ UNCHANGED <<file, told, toldDown, torn, forgotten>>
    BY DEF FailRun
<1>2. WatchTypeOK'
    BY <1>1, EmptyIsStatus DEF WatchInv, WatchTypeOK
<1>3. FileInv'
    BY <1>1 DEF WatchInv, FileInv, Settled, Agrees, OnlyGoodNewsMissed, Known
<1>4. RunInv'
    BY <1>1 DEF RunInv
<1>5. QuietInv'
    BY <1>1 DEF WatchInv, QuietInv
<1> QED
    BY <1>2, <1>3, <1>4, <1>5 DEF WatchInv

\* A failure is recorded beside the states the run has read, which stay as they are.
LEMMA FailureKeeps == WatchInv /\ AnnounceFailure => WatchInv'
<1> SUFFICES ASSUME WatchInv, AnnounceFailure PROVE WatchInv'
    OBVIOUS
<1>1. PICK result \in NoticeOutcomes :
        /\ toldDown' = (toldDown \/ result # "lost")
        /\ torn' = IF result = "lost" THEN torn ELSE torn \cup {Check}
        /\ work' = [previous EXCEPT !.error = [message |-> reason, notified |-> result = "sent"]]
    BY DEF AnnounceFailure
<1>2. /\ stage = "failing" /\ stage' = "record"
      /\ UNCHANGED <<file, previous, owed, back, first, reason, told, forgotten, watchFaults>>
    BY DEF AnnounceFailure
<1>3. /\ file \in Status /\ previous \in Status /\ reason \in Failures \cup {"status"}
      /\ torn \subseteq torn' /\ toldDown \in BOOLEAN /\ reason # "none"
      /\ previous \in {file, EmptyStatus} /\ (watchFaults = 0 => previous = file /\ torn = {})
    BY <1>1, <1>2, WatchdogAssumption DEF WatchInv, WatchTypeOK, RunInv, QuietInv
<1>4. /\ work'.items = previous.items
      /\ work'.error = [message |-> reason, notified |-> result = "sent"]
      /\ work' \in Status /\ work'.error # NoError
  <2>1. previous = [items |-> previous.items, error |-> previous.error, recovery |-> previous.recovery]
      BY <1>3 DEF Status
  <2>2. work' = [items |-> previous.items, error |-> [message |-> reason, notified |-> result = "sent"],
                 recovery |-> previous.recovery]
      BY <1>1, <2>1
  <2>3. [message |-> reason, notified |-> result = "sent"] # NoError
      BY <1>3 DEF NoError
  <2>4. work' \in Status
      BY <1>3, <2>2 DEF Status
  <2> QED
      BY <2>2, <2>3, <2>4
<1>5. WatchTypeOK'
    BY <1>1, <1>2, <1>4 DEF WatchInv, WatchTypeOK
<1>6. FileInv'
  <2>1. Check \notin torn' => toldDown' = toldDown
      BY <1>1, <1>3
  <2>2. /\ \A i \in (Items \cup {Check}) \ (torn' \cup forgotten') : Settled(file, i)
        /\ \A i \in (Items \cup {Check}) \ torn' : OnlyGoodNewsMissed(file, told, toldDown, i)
      BY <1>2, <1>3 DEF WatchInv, FileInv
  <2> QED
      BY <1>2, <2>1, <2>2 DEF FileInv, Settled, Agrees, OnlyGoodNewsMissed, Known
<1>7. ASSUME NEW i \in Items \ Exempt'
      PROVE  /\ i \notin Lost' => Agrees(work', told', toldDown', i)
             /\ OnlyGoodNewsMissed(work', told', toldDown', i)
  <2>1. i \notin torn /\ i # Check
      BY <1>2, <1>3, <1>7, CheckIsNoItem DEF Exempt
  <2>2. CASE previous = file
    <3>1. OnlyGoodNewsMissed(file, told, toldDown, i)
          /\ (i \notin Lost' => Agrees(file, told, toldDown, i))
        BY <1>2, <2>1, <2>2 DEF WatchInv, FileInv, Settled, Lost
    <3> QED
        BY <1>2, <1>4, <2>1, <2>2, <3>1 DEF Agrees, OnlyGoodNewsMissed
  <2>3. CASE previous = EmptyStatus
    <3>1. ~previous.items[i].notified
        BY <2>3, EmptyIsStatus, StatusItem
    <3> QED
        BY <1>4, <2>1, <3>1 DEF Agrees, OnlyGoodNewsMissed
  <2> QED
      BY <1>3, <2>2, <2>3
<1>8. Agrees(work', told', toldDown', Check)
  <2>1. work'.error.notified = (result = "sent")
      BY <1>4
  <2>2. result = "sent" => toldDown'
      BY <1>1
  <2> QED
      BY <1>4, <2>1, <2>2 DEF Agrees
<1>9. RunInv'
    BY <1>2, <1>3, <1>7, <1>8 DEF RunInv
<1>10. QuietInv'
  <2>1. watchFaults' = 0 => torn' \cap Items = {}
      BY <1>1, <1>2, <1>3, CheckIsNoItem
  <2>2. previous = file => Known(work') = Known(file)
      BY <1>4 DEF Known
  <2> QED
      BY <1>2, <2>1, <2>2 DEF WatchInv, QuietInv, Known
<1> QED
    BY <1>5, <1>6, <1>9, <1>10 DEF WatchInv

LEMMA RecordKnownKeeps == WatchInv /\ KnownFailure => WatchInv'
<1> SUFFICES ASSUME WatchInv, KnownFailure PROVE WatchInv'
    OBVIOUS
<1>1. /\ stage = "failing" /\ work' = previous /\ stage' = "record" /\ Same
      /\ UNCHANGED <<file, previous, owed, back, first, reason, told, toldDown, torn, forgotten,
                     watchFaults>>
    BY DEF KnownFailure
<1>2. WatchTypeOK'
    BY <1>1 DEF WatchInv, WatchTypeOK
<1>3. previous = file /\ file.error # NoError
  <2>1. previous.error # NoError
      BY <1>1, WatchdogAssumption DEF Same, NoError, WatchInv, WatchTypeOK
  <2>2. EmptyStatus.error = NoError
      BY DEF EmptyStatus
  <2> QED
      BY <1>1, <2>1, <2>2 DEF WatchInv, RunInv
<1>4. FileInv'
    BY <1>1 DEF WatchInv, FileInv, Settled, Agrees, OnlyGoodNewsMissed, Known
<1>5. watchFaults = 0 => torn = {}
    BY <1>1 DEF WatchInv, QuietInv
<1>6. ASSUME NEW i \in Items \ Exempt'
      PROVE  /\ i \notin Lost' => Agrees(work', told', toldDown', i)
             /\ OnlyGoodNewsMissed(work', told', toldDown', i)
  <2>1. i \notin torn
      BY <1>1, <1>5, <1>6 DEF Exempt
  <2>2. OnlyGoodNewsMissed(file, told, toldDown, i)
        /\ (i \notin Lost' => Agrees(file, told, toldDown, i))
      BY <1>1, <2>1 DEF WatchInv, FileInv, Settled, Lost
  <2> QED
      BY <1>1, <1>3, <2>2
<1>7. Check \notin Exempt' => Agrees(work', told', toldDown', Check)
  <2>1. Check \notin Exempt' => OnlyGoodNewsMissed(file, told, toldDown, Check)
      BY <1>1, <1>5 DEF WatchInv, FileInv, Exempt
  <2> QED
      BY <1>1, <1>3, <2>1 DEF Agrees, OnlyGoodNewsMissed
<1>8. RunInv'
    BY <1>1, <1>3, <1>6, <1>7 DEF RunInv
<1>9. QuietInv'
    BY <1>1, <1>3, <1>5 DEF WatchInv, QuietInv, Known
<1> QED
    BY <1>2, <1>4, <1>8, <1>9 DEF WatchInv

LEMMA LostKeeps == WatchInv /\ RunLost => WatchInv'
<1> SUFFICES ASSUME WatchInv, RunLost PROVE WatchInv'
    OBVIOUS
<1>1. /\ watchFaults' = watchFaults + 1 /\ watchFaults < MaxFaults
      /\ stage' = "idle" /\ owed' = {} /\ previous' = EmptyStatus /\ work' = EmptyStatus
      /\ back' = FALSE /\ first' = FALSE /\ reason' = "status"
      /\ UNCHANGED <<file, told, toldDown, torn, forgotten>>
    BY DEF RunLost, Idle
<1>2. WatchTypeOK' /\ watchFaults' # 0
  <2>1. watchFaults' \in 0..MaxFaults /\ watchFaults' # 0
      BY <1>1, WatchdogAssumption DEF WatchInv, WatchTypeOK
  <2> QED
      BY <1>1, <2>1, EmptyIsStatus DEF WatchInv, WatchTypeOK
<1>3. FileInv'
    BY <1>1 DEF WatchInv, FileInv, Settled, Agrees, OnlyGoodNewsMissed, Known
<1>4. RunInv' /\ QuietInv'
    BY <1>1, <1>2 DEF RunInv, QuietInv
<1> QED
    BY <1>2, <1>3, <1>4 DEF WatchInv

LEMMA WatchStep == WatchInv /\ [WatchNext]_watchVars => WatchInv'
<1> SUFFICES ASSUME WatchInv, [WatchNext]_watchVars PROVE WatchInv'
    OBVIOUS
<1>1. CASE StartRun
    BY <1>1, StartKeeps
<1>2. CASE CannotStart
  <2>1. PICK r \in Failures : FailRun(r)
      BY <1>2 DEF CannotStart
  <2>2. stage = "idle" /\ LoadStatus
      BY <1>2 DEF CannotStart
  <2> QED
      BY <2>1, <2>2, Reading, FailKeeps
<1>3. CASE Save
  <2>1. work \in Status
      BY DEF WatchInv, WatchTypeOK
  <2>2. /\ stage = "states" /\ ~(back /\ first) /\ Saved(work) /\ Idle
        /\ UNCHANGED <<told, toldDown, watchFaults>>
      BY <1>3 DEF Save, StatesReported
  <2>3. /\ work.error = NoError
        /\ Check \notin Exempt \cup Lost => Agrees(work, told, toldDown, Check)
        /\ OnlyGoodNewsMissed(work, told, toldDown, Check)
      BY <2>2 DEF WatchInv, RunInv, Agrees, OnlyGoodNewsMissed, NoError
  <2>4. /\ \A i \in Items \ (Exempt \cup Lost) : Agrees(work, told, toldDown, i)
        /\ \A i \in Items \ Exempt : OnlyGoodNewsMissed(work, told, toldDown, i)
      BY <2>2 DEF WatchInv, RunInv
  <2>5. watchFaults = 0 =>
           /\ previous = file
           /\ \A i \in torn \cap Items : i \in Known(work) /\ told[i] = work.items[i].state
           /\ Gateway \in Known(work)
      BY <2>2 DEF WatchInv, RunInv, QuietInv
  <2> QED
      BY <2>1, <2>2, <2>3, <2>4, <2>5, SavedKeeps
<1>4. ASSUME NEW G \in SUBSET owed, NEW result \in NoticeOutcomes, Announce(G, result)
      PROVE  WatchInv'
    BY <1>4, AnnounceKeeps
<1>5. CASE CannotSave
  <2>1. FailRun("status") /\ watchFaults' \in 0..MaxFaults /\ watchFaults' # 0
      BY <1>5, WatchdogAssumption DEF CannotSave, WatchInv, WatchTypeOK
  <2>2. previous' \in {file, EmptyStatus}
      BY <1>5 DEF CannotSave, StatesReported, WatchInv, RunInv
  <2> QED
      BY <2>1, <2>2, FailKeeps
<1>6. CASE Unexpected
  <2>1. PICK r \in Failures : FailRun(r) /\ watchFaults' = watchFaults + 1 /\ UNCHANGED previous
      BY <1>6 DEF Unexpected
  <2>2. watchFaults' \in 0..MaxFaults /\ watchFaults' # 0
      BY <1>6, <2>1, WatchdogAssumption DEF Unexpected, WatchInv, WatchTypeOK
  <2>3. previous' \in {file, EmptyStatus}
      BY <1>6, <2>1 DEF Unexpected, WatchInv, RunInv
  <2> QED
      BY <2>1, <2>2, <2>3, FailKeeps
<1>7. CASE AnnounceFailure
    BY <1>7, FailureKeeps
<1>8. CASE KnownFailure
    BY <1>8, RecordKnownKeeps
<1>9. CASE RecordFailure
  <2>1. work \in Status /\ file \in Status /\ stage = "record" /\ Saved(work) /\ Idle
        /\ UNCHANGED <<told, toldDown, watchFaults>>
      BY <1>9 DEF RecordFailure, WatchInv, WatchTypeOK
  <2>2. /\ \A i \in Items \ (Exempt \cup Lost) : Agrees(work, told, toldDown, i)
        /\ \A i \in Items \ Exempt : OnlyGoodNewsMissed(work, told, toldDown, i)
        /\ Check \notin Exempt => Agrees(work, told, toldDown, Check)
      BY <2>1 DEF WatchInv, RunInv
  <2>3. watchFaults = 0 => previous = file /\ torn \cap Items = {} /\ Known(work) = Known(file)
      BY <2>1 DEF WatchInv, RunInv, QuietInv
  <2>4. Check \notin Exempt => OnlyGoodNewsMissed(work, told, toldDown, Check)
      BY <2>1, <2>2, Agreement
  <2> QED
      BY <2>1, <2>2, <2>3, <2>4, SavedKeeps
<1>10. CASE RunLost
    BY <1>10, LostKeeps
<1>11. CASE UNCHANGED watchVars
  <2>1. Exempt' = Exempt /\ Lost' = Lost
      BY <1>11 DEF watchVars, Exempt, Lost
  <2>2. WatchTypeOK'
      BY <1>11 DEF watchVars, WatchInv, WatchTypeOK
  <2>3. FileInv'
      BY <1>11 DEF watchVars, WatchInv, FileInv, Settled, Agrees, OnlyGoodNewsMissed, Known
  <2>4. RunInv'
      BY <1>11, <2>1 DEF watchVars, WatchInv, RunInv, Known
  <2>5. QuietInv'
      BY <1>11 DEF watchVars, WatchInv, QuietInv, Known
  <2> QED
      BY <2>2, <2>3, <2>4, <2>5 DEF WatchInv
<1> QED
    BY <1>1, <1>2, <1>3, <1>4, <1>5, <1>6, <1>7, <1>8, <1>9, <1>10, <1>11 DEF WatchNext

\* What follows for the owner.
LEMMA OwnerKnows == WatchInv => OwnerUpToDate
<1> SUFFICES ASSUME WatchInv PROVE OwnerUpToDate
    OBVIOUS
<1>1. forgotten \subseteq Items \cup {Check}
    BY DEF WatchInv, WatchTypeOK
<1> QED
    BY <1>1 DEF WatchInv, FileInv, QuietInv, Settled, OwnerUpToDate

\* However messages are lost, split or reported wrong, files unreadable and runs cut short
\* (gateway/check.py), the status file and the owner agree, but for what a run said that ended before
\* its status was saved; and of what the file forgot the owner misses no bad news.
THEOREM OwnerCorrect == WatchSpec => []OwnerUpToDate
BY WatchBegins, WatchStep, OwnerKnows, PTL DEF WatchSpec

-----------------------------------------------------------------------------
(* The reply budget of the fleet server. *)

FleetInv == FleetTypeOK /\ IsFiniteSet(Reserved) /\ BudgetExact

\* The units of one request.
Units(r, from, to) == {r} \X (from..to)

LEMMA UnitsCounted ==
  ASSUME NEW r, NEW a \in Nat, NEW k \in Nat
  PROVE  IsFiniteSet(Units(r, a + 1, a + k)) /\ Cardinality(Units(r, a + 1, a + k)) = k
<1>1. IsFiniteSet({r}) /\ Cardinality({r}) = 1
  BY FS_Singleton
<1>2. IsFiniteSet((a + 1)..(a + k)) /\ Cardinality((a + 1)..(a + k)) = k
  BY FS_Interval
<1>3. Cardinality({r} \X ((a + 1)..(a + k))) = Cardinality({r}) * Cardinality((a + 1)..(a + k))
  BY <1>1, <1>2, FS_Product
<1>4. IsFiniteSet({r} \X ((a + 1)..(a + k)))
  BY <1>1, <1>2, FS_Product
<1> QED
  BY <1>1, <1>2, <1>3, <1>4 DEF Units

LEMMA FleetBegins == ASSUME NEW step \in {"new", "over"}, FleetIdle(step) PROVE FleetInv
<1>1. /\ access = "ok" /\ changes = 0 /\ used = 0
      /\ request = [r \in FleetRequests |-> step] /\ size = [r \in FleetRequests |-> 0]
      /\ held = [r \in FleetRequests |-> 0]
  BY Zenon DEF FleetIdle
<1>2. FleetTypeOK
  BY <1>1, FleetAssumption DEF FleetTypeOK
<1>3. Reserved = {}
  <2>1. \A r \in FleetRequests : 1..held[r] = {}
    BY <1>1
  <2>2. \A r \in FleetRequests : {r} \X (1..held[r]) = {}
    BY <2>1
  <2> QED
    BY <2>2 DEF Reserved
<1>4. IsFiniteSet(Reserved) /\ Cardinality(Reserved) = 0
  BY <1>3, FS_EmptySet
<1> QED
  BY <1>1, <1>2, <1>4, FleetAssumption DEF FleetInv, BudgetExact

\* A chunk that is taken is counted once, for the request that takes it.
LEMMA ReserveCounts ==
  ASSUME FleetInv, NEW r \in FleetRequests, NEW chunk \in Nat, Reserve(r, chunk)
  PROVE  /\ held' \in [FleetRequests -> Nat] /\ used' \in Int
         /\ IsFiniteSet(Reserved') /\ used' = Cardinality(Reserved')
         /\ \A x \in FleetRequests : x # r => held'[x] = held[x]
<1>1. /\ held \in [FleetRequests -> Nat] /\ used \in Int /\ IsFiniteSet(Reserved) /\ used = Cardinality(Reserved)
      /\ held'[r] = held[r] + chunk
      /\ \A x \in FleetRequests : x # r => held'[x] = held[x]
  BY DEF FleetInv, FleetTypeOK, BudgetExact, Reserve
<1>2. held' \in [FleetRequests -> Nat]
  BY <1>1 DEF Reserve
<1> DEFINE new == Units(r, held[r] + 1, held[r] + chunk)
<1>3. IsFiniteSet(new) /\ Cardinality(new) = chunk
  BY <1>1, UnitsCounted
<1>4. Reserved' = Reserved \cup new
  <2>1. 1..held'[r] = 1..held[r] \cup (held[r] + 1)..(held[r] + chunk)
    BY <1>1
  <2>2. \A x \in FleetRequests : {x} \X (1..held'[x]) = IF x = r THEN ({x} \X (1..held[x])) \cup new
                                                              ELSE {x} \X (1..held[x])
    BY <1>1, <2>1 DEF Units
  <2> HIDE DEF new
  <2> QED
    BY <2>2 DEF Reserved
<1>5. Reserved \cap new = {}
  BY <1>1 DEF Reserved, Units
<1> HIDE DEF new
<1>6. IsFiniteSet(Reserved') /\ Cardinality(Reserved') = Cardinality(Reserved) + chunk
  <2>1. IsFiniteSet(Reserved \cup new)
        /\ Cardinality(Reserved \cup new) = Cardinality(Reserved) + Cardinality(new) - Cardinality(Reserved \cap new)
    BY <1>1, <1>3, FS_Union
  <2>2. Cardinality(Reserved \cap new) = 0 /\ Cardinality(Reserved) \in Nat
    BY <1>1, <1>5, FS_EmptySet, FS_CardinalityType
  <2> QED
    BY <1>3, <1>4, <2>1, <2>2
<1> QED
  BY <1>1, <1>2, <1>6 DEF Reserve

\* What a request gives back is exactly what it holds, and never more than is reserved.
LEMMA GiveBackCounts ==
  ASSUME FleetInv, NEW r \in FleetRequests, GiveBack(r)
  PROVE  /\ held' \in [FleetRequests -> Nat] /\ used' \in Int /\ used' <= used
         /\ IsFiniteSet(Reserved') /\ used' = Cardinality(Reserved')
         /\ held'[r] = 0 /\ \A x \in FleetRequests : x # r => held'[x] = held[x]
<1>1. /\ held \in [FleetRequests -> Nat] /\ used \in Int /\ IsFiniteSet(Reserved) /\ used = Cardinality(Reserved)
      /\ held' \in [FleetRequests -> Nat] /\ held'[r] = 0
      /\ \A x \in FleetRequests : x # r => held'[x] = held[x]
  BY DEF FleetInv, FleetTypeOK, BudgetExact, GiveBack
<1> DEFINE old == Units(r, 1, held[r])
<1>2. IsFiniteSet(old) /\ Cardinality(old) = held[r]
  <2>1. held[r] \in Nat /\ 0 \in Nat
    BY <1>1
  <2>2. IsFiniteSet(Units(r, 0 + 1, 0 + held[r])) /\ Cardinality(Units(r, 0 + 1, 0 + held[r])) = held[r]
    BY <2>1, UnitsCounted
  <2>3. 0 + 1 = 1 /\ 0 + held[r] = held[r]
    BY <2>1
  <2> QED
    BY <2>2, <2>3
<1>3. Reserved' = Reserved \ old /\ old \subseteq Reserved
  <2>1. old = {r} \X (1..held[r])
    BY <1>1 DEF Units
  <2>2. \A x \in FleetRequests : {x} \X (1..held'[x]) = IF x = r THEN {} ELSE {x} \X (1..held[x])
    BY <1>1
  <2> HIDE DEF old
  <2> QED
    BY <2>1, <2>2 DEF Reserved
<1> HIDE DEF old
<1>4. Reserved \cap old = old
  BY <1>3
<1>5. IsFiniteSet(Reserved') /\ Cardinality(Reserved') = Cardinality(Reserved) - held[r]
  <2>1. IsFiniteSet(Reserved \ old)
        /\ Cardinality(Reserved \ old) = Cardinality(Reserved) - Cardinality(Reserved \cap old)
    BY <1>1, FS_Difference
  <2> QED
    BY <1>2, <1>3, <1>4, <2>1
<1> QED
  BY <1>1, <1>5 DEF GiveBack

LEMMA FleetStep == FleetInv /\ [FleetNext]_fleetVars => FleetInv'
<1> SUFFICES ASSUME FleetInv, [FleetNext]_fleetVars PROVE FleetInv'
  OBVIOUS
<1> USE FleetAssumption
<1>1. FleetTypeOK /\ IsFiniteSet(Reserved) /\ BudgetExact
  BY DEF FleetInv
<1>2. UNCHANGED held => Reserved' = Reserved
  BY DEF Reserved
<1>3. ASSUME NEW r \in FleetRequests,
             BeginRequest(r) \/ ListMachines(r) \/ Admit(r) \/ Handle(r) \/ EndReply(r) \/ BreakReply(r) \/ StopReading(r)
      PROVE  FleetInv'
  <2>1. UNCHANGED <<access, changes, used, held>>
    BY <1>3 DEF BeginRequest, ListMachines, Admit, Handle, EndReply, BreakReply, StopReading
  <2>2. \E step \in {"list", "admit", "initialize", "question", "initializing", "answering", "answer", "stuck", "over"} :
           /\ request' = [request EXCEPT ![r] = step]
           /\ step = "over" => request[r] = "new"
    BY <1>1, <1>3 DEF BeginRequest, ListMachines, Admit, Handle, FailRequest, EndReply, BreakReply, StopReading, Arriving,
                      FleetTypeOK
  <2>3. size' = size \/ size' = [size EXCEPT ![r] = 0]
    BY <1>3 DEF BeginRequest, ListMachines, Admit, Handle, FailRequest, EndReply, BreakReply, StopReading
  <2>4. FleetTypeOK'
    BY <1>1, <2>1, <2>2, <2>3 DEF FleetTypeOK
  <2>5. \A x \in FleetRequests : request'[x] \in {"new", "over"} => request[x] \in {"new", "over"}
    BY <1>1, <2>2 DEF FleetTypeOK
  <2> QED
    BY <1>1, <1>2, <2>1, <2>4, <2>5 DEF FleetInv, BudgetExact
<1>4. ASSUME NEW r \in FleetRequests, Chunk(r)
      PROVE  FleetInv'
  <2>1. PICK chunk \in ChunkSizes :
           \/ \E why \in {"too_large", "too_many"} : FailRequest(r, why) /\ UNCHANGED <<used, held>>
           \/ /\ size[r] + chunk <= MAX_REPLY /\ used + chunk <= MAX_BUFFERED
              /\ size' = [size EXCEPT ![r] = @ + chunk]
              /\ Reserve(r, chunk)
              /\ UNCHANGED <<request, said>>
    BY <1>4 DEF Chunk
  <2>2. chunk \in Nat /\ UNCHANGED <<access, changes>> /\ request[r] \notin {"new", "over"}
    BY <1>4 DEF Chunk, Arriving
  <2>3. CASE \E why \in {"too_large", "too_many"} : FailRequest(r, why) /\ UNCHANGED <<used, held>>
    <3>1. FleetTypeOK'
      BY <1>1, <2>2, <2>3 DEF FailRequest, FleetTypeOK
    <3>2. \A x \in FleetRequests : request'[x] \in {"new", "over"} => request[x] \in {"new", "over"}
      BY <1>1, <2>3 DEF FailRequest, FleetTypeOK
    <3> QED
      BY <1>1, <1>2, <2>3, <3>1, <3>2 DEF FleetInv, BudgetExact
  <2>4. CASE /\ size[r] + chunk <= MAX_REPLY /\ used + chunk <= MAX_BUFFERED
             /\ size' = [size EXCEPT ![r] = @ + chunk]
             /\ Reserve(r, chunk)
             /\ UNCHANGED <<request, said>>
    <3>1. /\ held' \in [FleetRequests -> Nat] /\ used' \in Int
          /\ IsFiniteSet(Reserved') /\ used' = Cardinality(Reserved')
          /\ \A x \in FleetRequests : x # r => held'[x] = held[x]
      BY <2>2, <2>4, ReserveCounts
    <3>2. FleetTypeOK'
      <4>1. size[r] + chunk \in 0..MAX_REPLY /\ size' \in [FleetRequests -> 0..MAX_REPLY]
        BY <1>1, <2>2, <2>4 DEF FleetTypeOK
      <4> QED
        BY <1>1, <2>2, <2>4, <3>1, <4>1 DEF FleetTypeOK
    <3>3. used' <= MAX_BUFFERED
      BY <2>4 DEF Reserve
    <3> QED
      BY <1>1, <2>2, <2>4, <3>1, <3>2, <3>3 DEF FleetInv, BudgetExact
  <2> QED
    BY <2>1, <2>3, <2>4
<1>5. ASSUME NEW r \in FleetRequests, Deliver(r) \/ SendTimesOut(r) \/ Cancel(r)
      PROVE  FleetInv'
  <2>1. GiveBack(r) /\ request' = [request EXCEPT ![r] = "over"] /\ UNCHANGED <<access, changes>>
    BY <1>5 DEF Deliver, SendTimesOut, Cancel
  <2>2. size' = size \/ size' = [size EXCEPT ![r] = 0]
    BY <1>5 DEF Deliver, SendTimesOut, Cancel
  <2>3. /\ held' \in [FleetRequests -> Nat] /\ used' \in Int /\ used' <= used
        /\ IsFiniteSet(Reserved') /\ used' = Cardinality(Reserved')
        /\ held'[r] = 0 /\ \A x \in FleetRequests : x # r => held'[x] = held[x]
    BY <2>1, GiveBackCounts
  <2>4. FleetTypeOK'
    <3>1. size' \in [FleetRequests -> 0..MAX_REPLY]
      BY <1>1, <2>2 DEF FleetTypeOK
    <3> QED
      BY <1>1, <2>1, <2>3, <3>1 DEF FleetTypeOK
  <2>5. \A x \in FleetRequests : request'[x] \in {"new", "over"} => held'[x] = 0
    BY <1>1, <2>1, <2>3 DEF FleetTypeOK, BudgetExact
  <2>6. used' <= MAX_BUFFERED
    BY <1>1, <2>3 DEF BudgetExact, FleetTypeOK
  <2> QED
    BY <2>3, <2>4, <2>5, <2>6 DEF FleetInv, BudgetExact
<1>6. CASE Reconfigure
  <2>1. FleetTypeOK' /\ UNCHANGED <<request, used, held>>
    BY <1>1, <1>6 DEF Reconfigure, FleetTypeOK, Refusals
  <2> QED
    BY <1>1, <1>2, <2>1 DEF FleetInv, BudgetExact
<1>7. CASE UNCHANGED fleetVars
  BY <1>1, <1>2, <1>7 DEF fleetVars, FleetInv, FleetTypeOK, BudgetExact
<1> QED
  BY <1>3, <1>4, <1>5, <1>6, <1>7 DEF FleetNext, RequestStep

\* Whatever is refused, cancelled, timed out or left unread, the budget is what the unfinished requests
\* hold, never over MAX_BUFFERED_BYTES (fleet.py _ReplyBudget and _Reservation), and a request that is
\* over holds nothing.
THEOREM BudgetCorrect == FleetSpec => []BudgetExact
<1>1. FleetInit => FleetInv
  BY FleetBegins DEF FleetInit
<1>2. FleetInv => BudgetExact
  BY DEF FleetInv
<1> QED
  BY <1>1, FleetStep, <1>2, PTL DEF FleetSpec

-----------------------------------------------------------------------------
(* The transfers of remoteos-call. *)

\* The call in flight belongs to the step of the put, and its reply to its tool.
CallInv ==
  /\ put.step # "idle" => put.number \in 1..MaxPuts
  /\ call # NoCall =>
        /\ put.step # "idle" /\ call.tool = ToolOf(put.step) /\ call.put = put.number
        /\ call.reply = "match" => put.step = "hash"
        /\ call.reply = "written" => put.step = "upload"

\* Until a call runs late where the documentation excludes it, the part is what was hashed from the good
\* reply to the rename that takes it away, and the target is whole.
PutInv ==
  /\ Whole(target)
  /\ put.step = "rename" => part \in {NoFile, Content(put.number)}
  /\ call # NoCall /\ call.reply = "match" => part = Content(put.number)

GetInv == local # "cut" /\ (get = "replace" => tmp = "whole")

TransferInv == TransferTypeOK /\ CallInv /\ (late \/ PutInv) /\ GetInv

LEMMA TransferBegins == ASSUME NEW state \in {"start", "parked"}, TransferIdle(state) PROVE TransferInv
<1> USE TransferAssumption
<1>1. /\ part = NoFile /\ target = Old /\ put = NoTransfer(0) /\ call = NoCall /\ given = {} /\ exit = <<>>
      /\ late = FALSE /\ get = state /\ local = "old" /\ tmp = "none" /\ transferFaults = 0
  BY DEF TransferIdle
<1>2. TransferTypeOK
  <2>1. part \in Seq(Nat \X Nat) /\ target \in Seq(Nat \X Nat)
    BY <1>1 DEF NoFile, Old
  <2>2. put \in [number : 0..MaxPuts, step : {"idle", "upload", "hash", "rename"}, chunk : 1..Chunks]
    BY <1>1 DEF NoTransfer
  <2>3. exit \in Seq({0, 125, 126})
    BY <1>1
  <2>4. call \in {NoCall} \cup ToolCalls /\ given \subseteq ToolCalls /\ transferFaults \in 0..MaxTransferFaults
    BY <1>1
  <2>5. get \in {"start", "parked"} /\ local = "old" /\ tmp = "none" /\ late = FALSE
    BY <1>1
  <2> QED
    BY <2>1, <2>2, <2>3, <2>4, <2>5 DEF TransferTypeOK
<1> QED
  BY <1>1, <1>2 DEF TransferInv, CallInv, PutInv, GetInv, NoTransfer, Whole

\* A call leaves two files, and one of a transfer leaves a whole target when it takes a whole part.
LEMMA EffectTyped ==
  ASSUME TransferTypeOK, NEW c \in ToolCalls, Files(c)
  PROVE  /\ part' \in Seq(Nat \X Nat) /\ target' \in Seq(Nat \X Nat)
         /\ c.tool # "FileRename" => target' = target
         /\ c.tool = "FileHash" => part' = part
         /\ c.tool = "FileRename" => part' = NoFile /\ target' \in {target, part}
         /\ c.tool = "FileRename" /\ part = NoFile => target' = target
<1> DEFINE chunks == Nat \X Nat
<1>1. part \in Seq(chunks) /\ target \in Seq(chunks)
  BY DEF TransferTypeOK
<1>2. <<c.put, c.chunk>> \in chunks /\ <<c.put, 1>> \in chunks /\ c.tool \in {"FileUpload", "FileHash", "FileRename"}
  BY TransferAssumption DEF ToolCalls
<1> HIDE DEF chunks
<1>3. CASE c.tool = "FileUpload"
  <2>1. target' = target /\ part' \in {<<<<c.put, 1>>>>, Append(part, <<c.put, c.chunk>>)}
    BY <1>3 DEF Files, Effect, Upload
  <2>2. <<<<c.put, 1>>>> \in Seq(chunks) /\ Append(part, <<c.put, c.chunk>>) \in Seq(chunks)
    <3>1. \A S, x : x \in S => <<x>> \in Seq(S)
      OBVIOUS
    <3> QED
      BY <1>1, <1>2, <3>1
  <2> QED
    BY <1>1, <1>3, <2>1, <2>2, Zenon DEF chunks
<1>4. CASE c.tool = "FileHash"
  BY <1>1, <1>4 DEF Files, Effect, chunks
<1>5. CASE c.tool = "FileRename"
  <2>1. part' = NoFile /\ target' \in {target, part} /\ (part = NoFile => target' = target)
    BY <1>5 DEF Files, Effect, Rename
  <2>2. NoFile \in Seq(chunks)
    BY DEF NoFile
  <2> QED
    BY <1>1, <1>5, <2>1, <2>2 DEF chunks
<1> QED
  BY <1>2, <1>3, <1>4, <1>5

LEMMA CallTyped ==
  ASSUME TransferInv, call # NoCall
  PROVE  /\ call \in ToolCalls /\ put.number \in 1..MaxPuts /\ put.step \in {"upload", "hash", "rename"}
         /\ call.tool = ToolOf(put.step) /\ call.put = put.number
BY DEF TransferInv, TransferTypeOK, CallInv

LEMMA ServeKeeps == TransferInv /\ ServeCall => TransferInv'
<1> SUFFICES ASSUME TransferInv, ServeCall PROVE TransferInv'
  OBVIOUS
<1>1. TransferTypeOK /\ CallInv /\ (late \/ PutInv) /\ GetInv
  BY DEF TransferInv
<1>2. call # NoCall /\ call.reply = "none" /\ UNCHANGED <<put, given, exit, late, getVars>>
  BY DEF ServeCall
<1>3. /\ call \in ToolCalls /\ put.number \in 1..MaxPuts /\ put.step \in {"upload", "hash", "rename"}
      /\ call.tool = ToolOf(put.step) /\ call.put = put.number
  BY <1>2, CallTyped
<1>4. GetInv'
  BY <1>1, <1>2 DEF GetInv, getVars
<1>5. PICK reply \in {"written", "match", "mismatch", "done", "error"} :
         /\ call' = [call EXCEPT !.reply = reply]
         /\ reply = "match" => call.tool = "FileHash" /\ part = Content(put.number)
         /\ reply = "written" => call.tool = "FileUpload"
  <2>1. CASE call' = [call EXCEPT !.reply = Reply(call)]
    <3>1. Reply(call) \in {"written", "match", "mismatch", "done", "error"}
      BY DEF Reply
    <3>2. Reply(call) = "match" => call.tool = "FileHash" /\ part = Content(put.number)
      BY <1>3 DEF Reply
    <3>3. Reply(call) = "written" => call.tool = "FileUpload"
      BY <1>3 DEF Reply, ToolCalls
    <3> QED
      BY <2>1, <3>1, <3>2, <3>3
  <2>2. CASE call' = [call EXCEPT !.reply = "error"]
    BY <2>2
  <2> QED
    BY <2>1, <2>2 DEF ServeCall
<1>6. /\ call' \in ToolCalls /\ call' # NoCall /\ call'.reply = reply
      /\ call'.tool = call.tool /\ call'.put = call.put
  BY <1>3, <1>5 DEF ToolCalls, NoCall
<1>7. /\ part' \in Seq(Nat \X Nat) /\ target' \in Seq(Nat \X Nat)
      /\ \/ part' = part /\ target' = target
         \/ call.tool = "FileUpload" /\ target' = target
         \/ call.tool = "FileRename" /\ part' = NoFile /\ target' \in {target, part}
            /\ (part = NoFile => target' = target)
  <2>1. CASE Files(call)
    BY <1>3, <2>1, EffectTyped DEF ToolCalls, TransferInv
  <2>2. CASE UNCHANGED <<part, target>>
    BY <1>1, <2>2 DEF TransferTypeOK
  <2> QED
    BY <2>1, <2>2 DEF ServeCall
<1>8. TransferTypeOK'
  <2>1. transferFaults' \in 0..MaxTransferFaults
    BY <1>1, TransferAssumption DEF ServeCall, Fault, TransferTypeOK
  <2> QED
    BY <1>1, <1>2, <1>6, <1>7, <2>1 DEF TransferTypeOK, getVars
<1>9. CallInv'
  BY <1>1, <1>2, <1>3, <1>5, <1>6 DEF CallInv, ToolOf
<1>10. late \/ PutInv => late' \/ PutInv'
  <2> SUFFICES ASSUME PutInv PROVE PutInv'
    BY <1>2
  <2>1. Whole(Content(put.number))
    BY <1>3 DEF Whole
  <2>2. put.step = "rename" <=> call.tool = "FileRename"
    BY <1>3 DEF ToolOf
  <2>3. Whole(target')
    BY <1>7, <2>1, <2>2 DEF PutInv, Whole
  <2>4. put.step = "rename" => part' \in {NoFile, Content(put.number)}
    BY <1>7, <2>2 DEF PutInv
  <2>5. call'.reply = "match" => part' = Content(put.number)
    BY <1>3, <1>5, <1>6, <1>7
  <2> QED
    BY <1>2, <2>3, <2>4, <2>5 DEF PutInv, Whole, Content
<1> QED
  BY <1>1, <1>4, <1>8, <1>9, <1>10 DEF TransferInv

LEMMA ReceiveKeeps == TransferInv /\ Receive => TransferInv'
<1> SUFFICES ASSUME TransferInv, Receive PROVE TransferInv'
  OBVIOUS
<1>1. TransferTypeOK /\ CallInv /\ (late \/ PutInv) /\ GetInv
  BY DEF TransferInv
<1>2. call # NoCall /\ call.reply # "none" /\ UNCHANGED <<part, target, given, late, getVars, transferFaults>>
  BY DEF Receive
<1>3. /\ call \in ToolCalls /\ put.number \in 1..MaxPuts /\ put.step \in {"upload", "hash", "rename"}
      /\ call.tool = ToolOf(put.step) /\ call.put = put.number
  BY <1>2, CallTyped
<1>4. put \in [number : 0..MaxPuts, step : {"idle", "upload", "hash", "rename"}, chunk : 1..Chunks]
  BY <1>1 DEF TransferTypeOK
<1>5. call' = NoCall
  BY DEF Receive, EndPut
<1>6. \/ /\ GoodReply(call.reply) /\ put' = NextCall /\ exit' = exit
      \/ /\ put' = NoTransfer(put.number)
         /\ \E code \in {0, 125, 126} : exit' = Append(exit, code)
  BY DEF Receive, EndPut, ExitOf
<1>7. /\ put' \in [number : 0..MaxPuts, step : {"idle", "upload", "hash", "rename"}, chunk : 1..Chunks]
      /\ put'.number = put.number
      /\ put'.step = "rename" => call.reply = "match"
  <2>1. CASE GoodReply(call.reply) /\ put' = NextCall
    <3>1. put.step = "hash" => call.reply = "match"
      BY <1>1, <1>2, <1>3, <2>1 DEF CallInv, GoodReply
    <3>2. put.step = "rename" => FALSE
      BY <1>1, <1>2, <1>3, <2>1 DEF CallInv, GoodReply
    <3>3. put.chunk < Chunks => put.chunk + 1 \in 1..Chunks
      BY <1>4, TransferAssumption
    <3> QED
      BY <1>3, <1>4, <2>1, <3>1, <3>2, <3>3 DEF NextCall
  <2>2. CASE put' = NoTransfer(put.number)
    BY <1>4, <2>2, TransferAssumption DEF NoTransfer
  <2> QED
    BY <1>6, <2>1, <2>2
<1>8. TransferTypeOK'
  <2>1. exit' \in Seq({0, 125, 126})
    <3>1. exit' = exit \/ \E code \in {0, 125, 126} : exit' = Append(exit, code)
      BY <1>6
    <3>2. \A S, s, x : s \in Seq(S) /\ x \in S => Append(s, x) \in Seq(S)
      OBVIOUS
    <3>3. exit \in Seq({0, 125, 126})
      BY <1>1 DEF TransferTypeOK
    <3> QED
      BY <3>1, <3>2, <3>3
  <2> QED
    BY <1>1, <1>2, <1>5, <1>7, <2>1 DEF TransferTypeOK, getVars
<1>9. CallInv' /\ GetInv'
  BY <1>1, <1>2, <1>3, <1>5, <1>7 DEF CallInv, GetInv, getVars
<1>10. late \/ PutInv => late' \/ PutInv'
  <2> SUFFICES ASSUME PutInv PROVE PutInv'
    BY <1>2
  <2>1. put'.step = "rename" => part = Content(put.number)
    BY <1>2, <1>7 DEF PutInv
  <2> QED
    BY <1>2, <1>5, <1>7, <2>1 DEF PutInv, Whole, Content
<1> QED
  BY <1>1, <1>8, <1>9, <1>10 DEF TransferInv

LEMMA LateKeeps == TransferInv /\ RunLate => TransferInv'
<1> SUFFICES ASSUME TransferInv, RunLate PROVE TransferInv'
  OBVIOUS
<1>1. TransferTypeOK /\ CallInv /\ (late \/ PutInv) /\ GetInv
  BY DEF TransferInv
<1>2. PICK c \in given :
         /\ Files(c) /\ given' = given \ {c}
         /\ late' = (late \/ c.tool = "FileRename" \/ (c.tool = "FileUpload" /\ put.step = "rename")
                          \/ (c.tool = "FileUpload" /\ call # NoCall /\ call.reply = "match"))
  BY DEF RunLate
<1>3. UNCHANGED <<put, call, exit, getVars, transferFaults>> /\ c \in ToolCalls
  BY <1>1 DEF RunLate, TransferTypeOK
<1>4. /\ part' \in Seq(Nat \X Nat) /\ target' \in Seq(Nat \X Nat)
      /\ c.tool # "FileRename" => target' = target
      /\ c.tool = "FileHash" => part' = part
  BY <1>1, <1>2, <1>3, EffectTyped
<1>5. TransferTypeOK'
  <2>1. late' \in BOOLEAN
    BY <1>2
  <2>2. given' \subseteq ToolCalls
    BY <1>1, <1>2 DEF TransferTypeOK
  <2> QED
    BY <1>1, <1>3, <1>4, <2>1, <2>2 DEF TransferTypeOK, getVars
<1>6. CallInv' /\ GetInv'
  BY <1>1, <1>3 DEF CallInv, GetInv, getVars
<1>7. late' \/ PutInv'
  <2> SUFFICES ASSUME ~late' PROVE PutInv'
    OBVIOUS
  <2>1. /\ ~late /\ c.tool # "FileRename"
        /\ c.tool = "FileUpload" => put.step # "rename" /\ ~(call # NoCall /\ call.reply = "match")
    BY <1>2, Zenon
  <2>2. PutInv /\ c.tool \in {"FileUpload", "FileHash"}
    BY <1>1, <1>3, <2>1 DEF ToolCalls
  <2> QED
    BY <1>3, <1>4, <2>1, <2>2 DEF PutInv, Whole, Content
<1> QED
  BY <1>5, <1>6, <1>7 DEF TransferInv

LEMMA TransferStep == TransferInv /\ [TransferNext]_transferVars => TransferInv'
<1> SUFFICES ASSUME TransferInv, [TransferNext]_transferVars PROVE TransferInv'
  OBVIOUS
<1>1. TransferTypeOK /\ CallInv /\ (late \/ PutInv) /\ GetInv
  BY DEF TransferInv
<1>2. put \in [number : 0..MaxPuts, step : {"idle", "upload", "hash", "rename"}, chunk : 1..Chunks]
  BY <1>1 DEF TransferTypeOK
<1>3. CASE StartPut
  <2>1. /\ call = NoCall /\ put'.number \in 1..MaxPuts /\ put'.step = "upload"
        /\ put' \in [number : 0..MaxPuts, step : {"idle", "upload", "hash", "rename"}, chunk : 1..Chunks]
    BY <1>1, <1>2, <1>3, TransferAssumption DEF StartPut, CallInv
  <2>2. UNCHANGED <<part, target, call, given, exit, late, getVars, transferFaults>>
    BY <1>3 DEF StartPut
  <2>3. TransferTypeOK'
    BY <1>1, <2>1, <2>2 DEF TransferTypeOK, getVars
  <2>4. CallInv' /\ GetInv'
    BY <1>1, <2>1, <2>2 DEF CallInv, GetInv, getVars
  <2>5. PutInv => PutInv'
    BY <2>1, <2>2 DEF PutInv, Whole, Content
  <2> QED
    BY <1>1, <2>2, <2>3, <2>4, <2>5 DEF TransferInv
<1>4. CASE SendCall
  <2>1. /\ put.step \in {"upload", "hash", "rename"} /\ put.number \in 1..MaxPuts
        /\ call' = [tool |-> ToolOf(put.step), put |-> put.number, chunk |-> put.chunk, reply |-> "none"]
    BY <1>1, <1>2, <1>4 DEF SendCall, CallInv
  <2>2. call' \in ToolCalls
    BY <1>2, <2>1 DEF ToolCalls, ToolOf
  <2>3. UNCHANGED <<part, target, put, given, exit, late, getVars, transferFaults>>
    BY <1>4 DEF SendCall
  <2>4. TransferTypeOK'
    BY <1>1, <2>2, <2>3 DEF TransferTypeOK, getVars
  <2>5. CallInv' /\ GetInv'
    BY <1>1, <2>1, <2>3 DEF CallInv, GetInv, getVars, ToolOf
  <2>6. PutInv => PutInv'
    BY <2>1, <2>3 DEF PutInv, Whole, Content
  <2> QED
    BY <1>1, <2>3, <2>4, <2>5, <2>6 DEF TransferInv
<1>5. CASE GiveUp
  <2>1. /\ put' = NoTransfer(put.number) /\ call' = NoCall /\ exit' = Append(exit, 126)
        /\ UNCHANGED <<part, target, late, getVars>>
    BY <1>5 DEF GiveUp, EndPut
  <2>2. given' \subseteq ToolCalls
    BY <1>1, <1>5 DEF GiveUp, TransferTypeOK
  <2>3. transferFaults' \in 0..MaxTransferFaults
    BY <1>1, <1>5, TransferAssumption DEF GiveUp, Fault, TransferTypeOK
  <2>4. put' \in [number : 0..MaxPuts, step : {"idle", "upload", "hash", "rename"}, chunk : 1..Chunks]
    BY <1>2, <2>1, TransferAssumption DEF NoTransfer
  <2>5. exit' \in Seq({0, 125, 126})
    BY <1>1, <2>1 DEF TransferTypeOK
  <2>6. TransferTypeOK'
    BY <1>1, <2>1, <2>2, <2>3, <2>4, <2>5 DEF TransferTypeOK, getVars
  <2>7. CallInv' /\ GetInv' /\ (PutInv => PutInv')
    BY <1>1, <2>1 DEF CallInv, GetInv, PutInv, getVars, NoTransfer, Whole, Content
  <2> QED
    BY <1>1, <2>1, <2>6, <2>7 DEF TransferInv
<1>6. CASE Download \/ WriteTmp \/ SyncTmp \/ Replace \/ CrashGet
  <2>1. UNCHANGED putVars /\ transferFaults' \in 0..MaxTransferFaults
    BY <1>1, <1>6, TransferAssumption DEF Download, WriteTmp, SyncTmp, Replace, CrashGet, Fault, TransferTypeOK
  <2>2. /\ get' \in {"start", "write", "sync", "replace", "done", "failed", "parked"}
        /\ local' \in {"old", "cut", "whole"} /\ tmp' \in {"none", "cut", "whole"}
        /\ GetInv'
    BY <1>1, <1>6 DEF Download, WriteTmp, SyncTmp, Replace, CrashGet, GetInv, TransferTypeOK
  <2>3. TransferTypeOK'
    BY <1>1, <2>1, <2>2 DEF TransferTypeOK, putVars
  <2>4. CallInv' /\ (PutInv => PutInv')
    BY <1>1, <2>1 DEF CallInv, PutInv, putVars, Whole, Content
  <2> QED
    BY <1>1, <2>1, <2>2, <2>3, <2>4 DEF TransferInv, putVars
<1>7. CASE UNCHANGED transferVars
  <2>1. UNCHANGED <<part, target, put, call, given, exit, late, get, local, tmp, transferFaults>>
    BY <1>7 DEF transferVars
  <2>2. TransferTypeOK'
    BY <1>1, <2>1 DEF TransferTypeOK
  <2>3. CallInv' /\ GetInv' /\ (PutInv => PutInv')
    BY <1>1, <2>1 DEF CallInv, GetInv, PutInv, Whole, Content
  <2> QED
    BY <1>1, <2>1, <2>2, <2>3 DEF TransferInv
<1> QED
  BY <1>3, <1>4, <1>5, <1>6, <1>7, ServeKeeps, ReceiveKeeps, LateKeeps DEF TransferNext

\* The target of a put or a get is always a whole file, the old one or one that was sent, through failed
\* puts, leftover parts and calls that outlive their client (cli_call.py run_put and run_get), but for
\* a call that runs late after the part was hashed.
THEOREM TransfersCorrect == TransferSpec => []TransfersWhole
<1>1. TransferInit => TransferInv
  BY TransferBegins DEF TransferInit
<1>2. TransferInv => TransfersWhole
  BY DEF TransferInv, PutInv, GetInv, TransfersWhole
<1> QED
  BY <1>1, TransferStep, <1>2, PTL DEF TransferSpec

-----------------------------------------------------------------------------
(* All parts together, as they are model-checked. *)

EpisodeFull == EpisodeTypeOK /\ EpisodeInv

LEMMA EpisodesAtRest == ASSUME NEW k \in {"drift", "admin"}, NEW step \in {"idle", "parked"}, EpisodeIdle(k, step)
                        PROVE  EpisodeFull
<1>1. EpisodeTypeOK
  BY EpisodeAssumption DEF EpisodeIdle, EpisodeTypeOK, NoReport, Report, Episodes
<1> QED
  BY <1>1 DEF EpisodeIdle, EpisodeFull, EpisodeInv, EpisodesHeard, NoReport

LEMMA EpisodesKeep == EpisodeFull /\ [EpisodeNext]_episodeVars => EpisodeFull'
<1> SUFFICES ASSUME EpisodeFull, [EpisodeNext]_episodeVars PROVE EpisodeTypeOK'
  BY EpisodesStep DEF EpisodeFull
<1> USE EpisodeAssumption
<1>1. EpisodeTypeOK
  BY DEF EpisodeFull
<1>2. ASSUME NEW announces, Judge(announces) PROVE EpisodeTypeOK'
  <2>1. PICK reads \in [Boxes -> Reads] : building' = [b \in Boxes |-> Continue(b, reads[b])]
    BY <1>2 DEF Judge
  <2>2. \A b \in Boxes : Continue(b, reads[b]) \in Episodes
    BY <1>1 DEF Continue, Episodes, EpisodeTypeOK, Report
  <2>3. building' \in Report
    BY <2>1, <2>2 DEF Report
  <2>4. unsent' \subseteq Boxes
    BY <1>2 DEF Judge, Owed
  <2> QED
    BY <1>1, <1>2, <2>3, <2>4 DEF Judge, EpisodeTypeOK
<1>3. ASSUME NEW G \in SUBSET unsent, NEW result \in {"sent", "lost", "unreported"}, Send(G, result)
      PROVE  EpisodeTypeOK'
  <2>1. building' \in Report
    BY <1>1, <1>3 DEF Send, EpisodeTypeOK, Report, Episodes
  <2>2. unsent' \subseteq Boxes /\ heard' \subseteq Boxes
    BY <1>1, <1>3 DEF Send, EpisodeTypeOK
  <2> QED
    BY <1>1, <1>3, <2>1, <2>2 DEF Send, EpisodeTypeOK
<1>4. NoReport \in Report
  BY DEF NoReport, Report, Episodes
<1>5. CASE ReportBreaks \/ WriteReport \/ ReportLost
  <2>1. saved' \in Report /\ building' \in Report
    BY <1>1, <1>4, <1>5 DEF ReportBreaks, WriteReport, ReportLost, EpisodeTypeOK
  <2>2. unsent' \subseteq Boxes /\ heard' \subseteq Boxes /\ reportFaults' \in 0..MaxReportFaults
    BY <1>1, <1>5 DEF ReportBreaks, WriteReport, ReportLost, EpisodeTypeOK
  <2> QED
    BY <1>1, <1>5, <2>1, <2>2 DEF ReportBreaks, WriteReport, ReportLost, EpisodeTypeOK
<1>6. CASE UNCHANGED episodeVars
  BY <1>1, <1>6 DEF episodeVars, EpisodeTypeOK
<1> QED
  BY <1>2, <1>3, <1>5, <1>6 DEF EpisodeNext, JudgeAll, NoReleases, SendSome

LEMMA UpstreamAtRest == UpstreamRests => Good
<1> SUFFICES ASSUME UpstreamRests PROVE Good
  OBVIOUS
<1> USE UpstreamAssumption DEF UpstreamRests
<1>1. TypeOK
  <2>1. idleOpen \in 0..MaxIdle /\ idleStale \in 0..MaxIdle /\ restarts \in 0..MaxRestarts
    OBVIOUS
  <2>2. up \in BOOLEAN /\ peerOpen \in [Requests -> BOOLEAN] /\ trouble \in [Requests -> BOOLEAN]
    OBVIOUS
  <2>3. /\ phase \in [Requests -> {"admitted", "sent", "retry", "headers", "ended"}]
        /\ conn \in [Requests -> {"none", "reused", "fresh", "retry"}]
    OBVIOUS
  <2>4. queued \in [Requests -> Nat] /\ ran \in [Requests -> Nat] /\ logged \in [Requests -> Nat]
    OBVIOUS
  <2>5. /\ outcome \in [Requests -> Outcomes] /\ httpStatus \in [Requests -> Statuses]
        /\ others \in [Clients -> Nat] /\ crowded \in [Requests -> BOOLEAN]
    BY DEF Outcomes, Statuses, Clients
  <2> QED
    BY <2>1, <2>2, <2>3, <2>4, <2>5 DEF TypeOK
<1>2. PoolInv
  BY DEF PoolInv
<1>3. ASSUME NEW r \in Requests PROVE RequestInv(r)
  BY DEF RequestInv
<1> QED
  BY <1>1, <1>2, <1>3 DEF Good, UpstreamInv

PartsInv == Good /\ WatchInv /\ EpisodeFull /\ FleetInv /\ TransferInv

\* Each part at work or at rest, and a step of one leaves the others alone: whatever runs, every part has
\* its shape and keeps its promise.
THEOREM PartsCorrect ==
  PartsSpec => [](PartsTypeOK /\ RunsAtMostOnce /\ StalePoolHidden /\ LogTellsOutcome /\ OwnerUpToDate
                  /\ EpisodesHeard /\ BudgetExact /\ TransfersWhole)
<1>1. PartsInit => PartsInv
  <2> SUFFICES ASSUME PartsInit PROVE PartsInv
    OBVIOUS
  <2>1. Good
    BY InitGood, UpstreamAtRest DEF PartsInit
  <2>2. WatchInv
    BY WatchBegins DEF PartsInit
  <2>3. EpisodeFull
    BY EpisodesAtRest DEF PartsInit, EpisodeInit
  <2>4. FleetInv
    BY FleetBegins DEF PartsInit, FleetInit
  <2>5. TransferInv
    BY TransferBegins DEF PartsInit, TransferInit
  <2> QED
    BY <2>1, <2>2, <2>3, <2>4, <2>5 DEF PartsInv
<1>2. PartsInv /\ [PartsNext]_partsVars => PartsInv'
  <2> SUFFICES ASSUME PartsInv, [PartsNext]_partsVars PROVE PartsInv'
    OBVIOUS
  <2>1. [Next]_vars /\ [WatchNext]_watchVars /\ [EpisodeNext]_episodeVars /\ [FleetNext]_fleetVars
        /\ [TransferNext]_transferVars
    BY DEF PartsNext, UpstreamRuns, WatchdogRuns, EpisodesRun, FleetRuns, TransferRuns, partsVars
  <2> QED
    BY <2>1, GoodStep, WatchStep, EpisodesKeep, FleetStep, TransferStep DEF PartsInv
<1>3. PartsInv => PartsTypeOK /\ RunsAtMostOnce /\ StalePoolHidden /\ LogTellsOutcome /\ OwnerUpToDate
                  /\ EpisodesHeard /\ BudgetExact /\ TransfersWhole
  <2> SUFFICES ASSUME PartsInv
               PROVE  PartsTypeOK /\ RunsAtMostOnce /\ StalePoolHidden /\ LogTellsOutcome /\ OwnerUpToDate
                      /\ EpisodesHeard /\ BudgetExact /\ TransfersWhole
    OBVIOUS
  <2>1. PartsTypeOK
    BY DEF PartsInv, PartsTypeOK, Good, WatchInv, EpisodeFull, FleetInv, TransferInv
  <2>2. RunsAtMostOnce /\ StalePoolHidden /\ LogTellsOutcome
    BY GoodIsSafe DEF PartsInv
  <2>3. OwnerUpToDate
    BY OwnerKnows DEF PartsInv
  <2>4. EpisodesHeard /\ BudgetExact
    BY DEF PartsInv, EpisodeFull, EpisodeInv, FleetInv
  <2>5. TransfersWhole
    BY DEF PartsInv, TransferInv, PutInv, GetInv, TransfersWhole
  <2> QED
    BY <2>1, <2>2, <2>3, <2>4, <2>5
<1> QED
  BY <1>1, <1>2, <1>3, PTL DEF PartsSpec
=============================================================================
