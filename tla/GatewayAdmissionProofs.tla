---------------------- MODULE GatewayAdmissionProofs ----------------------
(***************************************************************************)
(* Proofs about LiveConfig and the gateway's decisions, for every set of   *)
(* requests, registries and machine sources and any number of writes.      *)
(* Both freshness properties follow from AdmissionInv: the signature is    *)
(* read before the content, so equal signatures mean equal contents, and   *)
(* what was read after the request came was in the file after it came.     *)
(***************************************************************************)
EXTENDS GatewayAdmission, TLAPS

\* The initial copies are what the files hold.
LEMMA InitInv == Init => TypeOK /\ AdmissionInv
<1> SUFFICES ASSUME Init PROVE TypeOK /\ AdmissionInv
    OBVIOUS
<1> USE AdmissionAssumption DEF Init, Nobody, Sighup
<1>1. PICK g \in Registries :
         /\ registryFile = [sig |-> 0, good |-> TRUE, data |-> g]
         /\ registry = [sig |-> 0, data |-> g, failed |-> FALSE]
    OBVIOUS
<1>2. PICK s \in Sources :
         /\ machinesFile = [sig |-> 0, good |-> TRUE, data |-> s]
         /\ machines = [sig |-> 0, data |-> s, failed |-> FALSE]
    OBVIOUS
<1>3. TypeOK
    BY <1>1, <1>2 DEF TypeOK, Verdicts, Unseen
<1>4. AdmissionInv
    BY <1>1, <1>2 DEF AdmissionInv, Fresh
<1> QED
    BY <1>3, <1>4

\* Every step of the system keeps every variable in its type.
LEMMA TypeStep == TypeOK /\ [Next]_vars => TypeOK'
<1> SUFFICES ASSUME TypeOK, [Next]_vars PROVE TypeOK'
    OBVIOUS
<1> USE AdmissionAssumption DEF TypeOK, Verdicts, files, config
<1>1. ASSUME NEW g \in Registries, NEW good \in BOOLEAN, WriteRegistry(g, good)
      PROVE  TypeOK'
    BY <1>1 DEF WriteRegistry, Written, Noted
<1>2. ASSUME NEW s \in Sources, NEW good \in BOOLEAN, WriteMachines(s, good)
      PROVE  TypeOK'
    BY <1>2 DEF WriteMachines, Written, Noted
<1>3. ASSUME NEW r \in Requests, Arrive(r)
      PROVE  TypeOK'
    BY <1>3 DEF Arrive, Current
<1>4. CASE ReceiveSighup
    BY <1>4 DEF ReceiveSighup
<1>5. CASE StatRegistry
    BY <1>5 DEF StatRegistry, Stat
<1>6. ASSUME NEW readable \in BOOLEAN, LoadRegistry(readable)
      PROVE  TypeOK'
    BY <1>6 DEF LoadRegistry, Loaded
<1>7. CASE StatMachines
    BY <1>7 DEF StatMachines, Stat
<1>8. ASSUME NEW readable \in BOOLEAN, LoadMachines(readable)
      PROVE  TypeOK'
    BY <1>8 DEF LoadMachines, Loaded
<1>9. CASE EndSighup
    BY <1>9 DEF EndSighup
<1>10. ASSUME NEW r \in Requests, Decide(r)
       PROVE  TypeOK'
    BY <1>10 DEF Decide, Verdict, Unseen
<1>11. ASSUME NEW r \in Requests, BodyRead(r) \/ BodyTooLarge(r) \/ BodyAbandoned(r)
       PROVE  TypeOK'
    BY <1>11 DEF BodyRead, BodyTooLarge, BodyAbandoned
<1>12. CASE UNCHANGED vars
    BY <1>12 DEF vars
<1> QED
    BY <1>1, <1>2, <1>3, <1>4, <1>5, <1>6, <1>7, <1>8, <1>9, <1>10, <1>11, <1>12 DEF Next

\* Writers bump the signature, reload reads it first: AdmissionInv holds on.
LEMMA AdmissionStep == TypeOK /\ AdmissionInv /\ [Next]_vars => AdmissionInv'
<1> SUFFICES ASSUME TypeOK, AdmissionInv, [Next]_vars PROVE AdmissionInv'
    OBVIOUS
<1> USE AdmissionAssumption DEF TypeOK, AdmissionInv, Fresh, files, config, Nobody, Sighup
<1>1. ASSUME NEW g \in Registries, NEW good \in BOOLEAN, WriteRegistry(g, good)
      PROVE  AdmissionInv'
    BY <1>1 DEF WriteRegistry, Written, Noted
<1>2. ASSUME NEW s \in Sources, NEW good \in BOOLEAN, WriteMachines(s, good)
      PROVE  AdmissionInv'
    BY <1>2 DEF WriteMachines, Written, Noted
<1>3. ASSUME NEW r \in Requests, Arrive(r)
      PROVE  AdmissionInv'
  <2>1. /\ at # "load_registry" /\ at # "load_machines"
        /\ at' = "stat_registry"
      BY <1>3 DEF Arrive
  <2>2. Fresh(registry, registryFile, "load_registry")' /\ Fresh(machines, machinesFile, "load_machines")'
      BY <1>3, <2>1 DEF Arrive
  <2>3. registry'.sig <= registryFile'.sig /\ machines'.sig <= machinesFile'.sig
      BY <1>3 DEF Arrive
  <2>4. /\ registryFile'.good => registryFile'.data \in seen'.registries
        /\ machinesFile'.good => machinesFile'.data \in seen'.sources
      BY <1>3 DEF Arrive, Current
  <2>5. \A q \in Requests : phase'[q] = "body" => verdict'[q] = "admitted"
      BY <1>3 DEF Arrive
  <2>6. (loop = Nobody => at = "decide")'
      BY <1>3, <2>1 DEF Arrive
  <2>7. ~(at' \in {"stat_machines", "load_machines", "decide"}) /\ at' # "decide"
      BY <2>1
  <2> HIDE DEF TypeOK, Fresh
  <2> QED
      BY <2>2, <2>3, <2>4, <2>5, <2>6, <2>7
<1>4. CASE ReceiveSighup
  <2>1. /\ at # "load_registry" /\ at # "load_machines"
        /\ at' = "stat_registry" /\ loop' \notin Requests
      BY <1>4 DEF ReceiveSighup
  <2>2. Fresh(registry, registryFile, "load_registry")' /\ Fresh(machines, machinesFile, "load_machines")'
      BY <1>4, <2>1 DEF ReceiveSighup
  <2> QED
      BY <1>4, <2>1, <2>2 DEF ReceiveSighup
<1>5. CASE StatRegistry
    BY <1>5 DEF StatRegistry, Stat
<1>6. ASSUME NEW readable \in BOOLEAN, LoadRegistry(readable)
      PROVE  AdmissionInv'
    BY <1>6 DEF LoadRegistry, Loaded
<1>7. CASE StatMachines
    BY <1>7 DEF StatMachines, Stat
<1>8. ASSUME NEW readable \in BOOLEAN, LoadMachines(readable)
      PROVE  AdmissionInv'
    BY <1>8 DEF LoadMachines, Loaded
<1>9. CASE EndSighup
    BY <1>9 DEF EndSighup
<1>10. ASSUME NEW r \in Requests, Decide(r)
       PROVE  AdmissionInv'
    BY <1>10 DEF Decide
<1>11. ASSUME NEW r \in Requests, BodyRead(r) \/ BodyTooLarge(r) \/ BodyAbandoned(r)
       PROVE  AdmissionInv'
    BY <1>11 DEF BodyRead, BodyTooLarge, BodyAbandoned
<1>12. CASE UNCHANGED vars
    BY <1>12 DEF vars
<1> QED
    BY <1>1, <1>2, <1>3, <1>4, <1>5, <1>6, <1>7, <1>8, <1>9, <1>10, <1>11, <1>12 DEF Next

\* Every variable keeps its type.
THEOREM TypeCorrect == Spec => []TypeOK
<1> QED
    BY InitInv, TypeStep, PTL DEF Spec

\* A copy whose load did not fail is what its file held when it was read, and
\* no older than the request being decided.
THEOREM AdmissionCorrect == Spec => [](TypeOK /\ AdmissionInv)
<1> QED
    BY InitInv, TypeStep, AdmissionStep, PTL DEF Spec

\* A verdict is only ever given by Decide, on the copy reload left.
LEMMA DecideOnly ==
    ASSUME TypeOK, AdmissionInv, Next, NEW r \in Requests,
           verdict[r] = "none", verdict'[r] # "none"
    PROVE  Decide(r)
<1> USE AdmissionAssumption DEF TypeOK, AdmissionInv, files, config
<1>1. ASSUME NEW q \in Requests, Decide(q)
      PROVE  q = r
    BY <1>1 DEF Decide
<1>2. ASSUME NEW q \in Requests, BodyRead(q) \/ BodyTooLarge(q) \/ BodyAbandoned(q)
      PROVE  FALSE
    BY <1>2 DEF BodyRead, BodyTooLarge, BodyAbandoned
<1>3. \E q \in Requests : Decide(q)
    BY <1>2 DEF Next, WriteRegistry, WriteMachines, Arrive, ReceiveSighup, StatRegistry,
       LoadRegistry, StatMachines, LoadMachines, EndSighup
<1> QED
    BY <1>1, <1>3

\* What a request is told about its token and its machine is true of a
\* registry that was in the file after the request came.
THEOREM DecisionCorrect == Spec => DecisionIsCurrent
<1>1. ASSUME TypeOK, AdmissionInv, [Next]_vars, NEW r \in Requests,
             verdict[r] = "none", verdict'[r] # "none", ~registry.failed
      PROVE  \E g \in seen.registries : Verdict(g, r) = verdict'[r]
    <2>1. Next
        BY <1>1 DEF vars
    <2>2. Decide(r)
        BY <1>1, <2>1, DecideOnly
    <2>3. registry.data \in seen.registries
        BY <1>1, <2>2 DEF Decide, AdmissionInv
    <2>4. verdict'[r] = Verdict(registry.data, r)
        BY <1>1, <2>2 DEF Decide, TypeOK
    <2> QED
        BY <2>3, <2>4
<1>2. TypeOK /\ AdmissionInv /\ [Next]_vars
         => [\A r \in Requests :
                verdict[r] = "none" /\ verdict'[r] # "none" /\ ~registry.failed
                => \E g \in seen.registries : Verdict(g, r) = verdict'[r]]_vars
    BY <1>1
<1> QED
    BY <1>2, AdmissionCorrect, PTL DEF Spec, DecisionIsCurrent

\* A request is forwarded by a machine source that was in the file after it
\* came.
THEOREM UpstreamCorrect == Spec => UpstreamIsCurrent
<1>1. ASSUME TypeOK, AdmissionInv, [Next]_vars, NEW r \in Requests,
             verdict[r] = "none", verdict'[r] = "admitted", ~machines.failed
      PROVE  upstreams'[r] \in seen.sources
    <2>1. Next
        BY <1>1 DEF vars
    <2>2. Decide(r)
        BY <1>1, <2>1, DecideOnly
    <2>3. machines.data \in seen.sources
        BY <1>1, <2>2 DEF Decide, AdmissionInv
    <2>4. upstreams'[r] = machines.data
        BY <1>1, <2>2 DEF Decide, TypeOK
    <2> QED
        BY <2>3, <2>4
<1>2. TypeOK /\ AdmissionInv /\ [Next]_vars
         => [\A r \in Requests :
                verdict[r] = "none" /\ verdict'[r] = "admitted" /\ ~machines.failed
                => upstreams'[r] \in seen.sources]_vars
    BY <1>1
<1> QED
    BY <1>2, AdmissionCorrect, PTL DEF Spec, UpstreamIsCurrent
=============================================================================
