-------------------------- MODULE GatewayAdmission --------------------------
(***************************************************************************)
(* How the gateway decides a request of /{machine}/mcp: LiveConfig         *)
(* (gateway/registry.py) follows two files that the CLI, sync-configs and  *)
(* hand edits replace at any moment, and Gateway.handle (gateway/app.py)   *)
(* takes a snapshot, decides, and then waits for the request body before   *)
(* it looks up the machine.                                                *)
(*                                                                         *)
(* The event loop runs one reload or decision at a time, but writers are   *)
(* other processes: they act between any two of its system calls.  A       *)
(* file signature is modelled by the number of the write.                  *)
(***************************************************************************)
EXTENDS Naturals, FiniteSets

CONSTANTS
    Requests,
    Tokens,
    Machines,
    TokenOf,     \* [Requests -> Tokens]
    MachineOf,   \* [Requests -> Machines]
    Registries,  \* the registry contents writers choose from
    Sources,     \* the machine sources writers choose from
    MaxRegistryWrites, MaxSourceWrites  \* bounds on the writes (model checking only)

Nobody == "nobody"
Sighup == "sighup"

(* A registry: the machines of each known token's consumer, and the        *)
(* exposed machines.  A machine source: the machines it has an entry for.  *)
ASSUME AdmissionAssumption ==
    /\ Requests \cap {Nobody, Sighup} = {}
    /\ TokenOf \in [Requests -> Tokens]
    /\ MachineOf \in [Requests -> Machines]
    /\ \A g \in Registries :
          /\ DOMAIN g.allowed \subseteq Tokens
          /\ \A t \in DOMAIN g.allowed : g.allowed[t] \subseteq Machines
          /\ g.exposed \subseteq Machines
    /\ Sources \subseteq SUBSET Machines
    /\ MaxRegistryWrites \in Nat /\ MaxSourceWrites \in Nat

VARIABLES
    registryFile,  \* [sig, good, data]: registry.json
    machinesFile,  \* [sig, good, data]: the machine source
    registry,      \* [sig, data, failed]: _registry, _registry_sig, last load
    machines,      \* [sig, data, failed]: _machines, _machines_sig, last load
    loop,          \* whom the event loop works for: a request, SIGHUP, nobody
    at,            \* the next system call of reload, or "decide"
    phase,         \* where the request is
    verdict,       \* the decision on the request
    upstreams,     \* the machine source the request took its snapshot of
    logged,        \* how many access-log lines the request has
    seen           \* what the two files held since the request in the loop came

files == <<registryFile, machinesFile>>
config == <<registry, machines>>
vars == <<files, config, loop, at, phase, verdict, upstreams, logged, seen>>

Unseen == [registries |-> {}, sources |-> {}]

\* LiveConfig.__init__: construction refuses invalid files.
Init ==
    /\ \E g \in Registries :
          /\ registryFile = [sig |-> 0, good |-> TRUE, data |-> g]
          /\ registry = [sig |-> 0, data |-> g, failed |-> FALSE]
    /\ \E s \in Sources :
          /\ machinesFile = [sig |-> 0, good |-> TRUE, data |-> s]
          /\ machines = [sig |-> 0, data |-> s, failed |-> FALSE]
    /\ loop = Nobody
    /\ at = "decide"
    /\ phase = [r \in Requests |-> "unsent"]
    /\ verdict = [r \in Requests |-> "none"]
    /\ upstreams = [r \in Requests |-> {}]
    /\ logged = [r \in Requests |-> 0]
    /\ seen = Unseen

----------------------------------------------------------------------------
(* The decision, as handle makes it: steps 1 to 3, then the key store.     *)

Verdict(g, r) ==
    CASE TokenOf[r] \notin DOMAIN g.allowed -> "unknown_token"
      [] TokenOf[r] \in DOMAIN g.allowed
         /\ MachineOf[r] \notin g.allowed[TokenOf[r]] -> "not_allowed"
      [] TokenOf[r] \in DOMAIN g.allowed
         /\ MachineOf[r] \in g.allowed[TokenOf[r]]
         /\ MachineOf[r] \notin g.exposed -> "unexposed"
      [] OTHER -> "admitted"

----------------------------------------------------------------------------
(* The writers.  A write is an atomic replace, or leaves the file invalid. *)

Written(file, data, good) == [sig |-> file.sig + 1, good |-> good, data |-> data]

\* Only a request that is being decided can still read the new content.
Noted(contents, data, good) ==
    IF good /\ loop \in Requests THEN contents \union {data} ELSE contents

WriteRegistry(g, good) ==
    /\ registryFile.sig < MaxRegistryWrites
    /\ good \/ g = registryFile.data
    /\ registryFile' = Written(registryFile, g, good)
    /\ seen' = [seen EXCEPT !.registries = Noted(@, g, good)]
    /\ UNCHANGED <<machinesFile, config, loop, at, phase, verdict, upstreams, logged>>

WriteMachines(s, good) ==
    /\ machinesFile.sig < MaxSourceWrites
    /\ good \/ s = machinesFile.data
    /\ machinesFile' = Written(machinesFile, s, good)
    /\ seen' = [seen EXCEPT !.sources = Noted(@, s, good)]
    /\ UNCHANGED <<registryFile, config, loop, at, phase, verdict, upstreams, logged>>

----------------------------------------------------------------------------
(* LiveConfig.reload, one system call per step.                            *)

Current(file) == IF file.good THEN {file.data} ELSE {}

\* A request comes in, its machine name is valid, and snapshot() begins.
Arrive(r) ==
    /\ loop = Nobody
    /\ phase[r] = "unsent"
    /\ phase' = [phase EXCEPT ![r] = "arrived"]
    /\ seen' = [registries |-> Current(registryFile), sources |-> Current(machinesFile)]
    /\ loop' = r
    /\ at' = "stat_registry"
    /\ UNCHANGED <<files, config, verdict, upstreams, logged>>

\* SIGHUP: reload(force=True) between two callbacks of the loop.
ReceiveSighup ==
    /\ loop = Nobody
    /\ loop' = Sighup
    /\ at' = "stat_registry"
    /\ UNCHANGED <<files, config, phase, verdict, upstreams, logged, seen>>

\* The signature is stored before the file is read.
Stat(file, copy) == [copy EXCEPT !.sig = file.sig]

\* Mutant: the registry is read again on SIGHUP only.
StatRegistryOnSighup ==
    /\ at = "stat_registry"
    /\ registry' = Stat(registryFile, registry)
    /\ at' = IF loop = Sighup THEN "load_registry" ELSE "stat_machines"
    /\ UNCHANGED <<files, machines, loop, phase, verdict, upstreams, logged, seen>>

\* Mutant: an unchanged registry ends the reload before the machine source.
StatRegistryReturns ==
    /\ at = "stat_registry"
    /\ registry' = Stat(registryFile, registry)
    /\ at' = IF loop = Sighup \/ registryFile.sig # registry.sig
             THEN "load_registry" ELSE "decide"
    /\ UNCHANGED <<files, machines, loop, phase, verdict, upstreams, logged, seen>>

StatRegistry ==
    /\ at = "stat_registry"
    /\ registry' = Stat(registryFile, registry)
    /\ at' = IF loop = Sighup \/ registryFile.sig # registry.sig
             THEN "load_registry" ELSE "stat_machines"
    /\ UNCHANGED <<files, machines, loop, phase, verdict, upstreams, logged,
                   seen>>

\* A file that cannot be read or is invalid keeps the last good copy.
Loaded(file, copy, readable) ==
    IF readable /\ file.good THEN [copy EXCEPT !.data = file.data, !.failed = FALSE]
                             ELSE [copy EXCEPT !.failed = TRUE]

LoadRegistry(readable) ==
    /\ at = "load_registry"
    /\ registry' = Loaded(registryFile, registry, readable)
    /\ at' = "stat_machines"
    /\ UNCHANGED <<files, machines, loop, phase, verdict, upstreams, logged,
                   seen>>

StatMachines ==
    /\ at = "stat_machines"
    /\ machines' = Stat(machinesFile, machines)
    /\ at' = IF loop = Sighup \/ machinesFile.sig # machines.sig
             THEN "load_machines" ELSE "decide"
    /\ UNCHANGED <<files, registry, loop, phase, verdict, upstreams, logged,
                   seen>>

LoadMachines(readable) ==
    /\ at = "load_machines"
    /\ machines' = Loaded(machinesFile, machines, readable)
    /\ at' = "decide"
    /\ UNCHANGED <<files, registry, loop, phase, verdict, upstreams, logged,
                   seen>>

EndSighup ==
    /\ loop = Sighup
    /\ at = "decide"
    /\ loop' = Nobody
    /\ UNCHANGED <<files, config, at, phase, verdict, upstreams, logged,
                   seen>>

----------------------------------------------------------------------------
(* Gateway.handle.                                                         *)

\* Steps 1 to 3 on the snapshot; a refusal is answered and recorded at once.
Decide(r) ==
    /\ loop = r
    /\ at = "decide"
    /\ LET v == Verdict(registry.data, r)
       IN  /\ verdict' = [verdict EXCEPT ![r] = v]
           /\ phase' = [phase EXCEPT ![r] = IF v = "admitted" THEN "body" ELSE "ended"]
           /\ logged' = [logged EXCEPT ![r] = IF v = "admitted" THEN @ ELSE @ + 1]
    /\ upstreams' = [upstreams EXCEPT ![r] = machines.data]
    /\ seen' = Unseen
    /\ loop' = Nobody
    /\ UNCHANGED <<files, config, at>>

\* The whole body is there: forward it, or 503 when the snapshot has no entry.
BodyRead(r) ==
    /\ loop = Nobody
    /\ phase[r] = "body"
    /\ \/ /\ MachineOf[r] \in upstreams[r]
          /\ phase' = [phase EXCEPT ![r] = "forwarded"]
          /\ UNCHANGED <<verdict, logged>>
       \/ /\ MachineOf[r] \notin upstreams[r]
          /\ phase' = [phase EXCEPT ![r] = "ended"]
          /\ verdict' = [verdict EXCEPT ![r] = "not_configured"]
          /\ logged' = [logged EXCEPT ![r] = @ + 1]
    /\ UNCHANGED <<files, config, loop, at, upstreams, seen>>

\* Step 4: 413 as soon as the body passes the cap.
BodyTooLarge(r) ==
    /\ loop = Nobody
    /\ phase[r] = "body"
    /\ phase' = [phase EXCEPT ![r] = "ended"]
    /\ verdict' = [verdict EXCEPT ![r] = "too_large"]
    /\ logged' = [logged EXCEPT ![r] = @ + 1]
    /\ UNCHANGED <<files, config, loop, at, upstreams, seen>>

\* The consumer goes away during its upload: request.stream() raises out of
\* handle, past every _record.
BodyAbandoned(r) ==
    /\ loop = Nobody
    /\ phase[r] = "body"
    /\ phase' = [phase EXCEPT ![r] = "ended"]
    /\ verdict' = [verdict EXCEPT ![r] = "abandoned"]
    /\ UNCHANGED <<files, config, loop, at, upstreams, logged, seen>>

----------------------------------------------------------------------------

Next ==
    \/ \E g \in Registries, good \in BOOLEAN : WriteRegistry(g, good)
    \/ \E s \in Sources, good \in BOOLEAN : WriteMachines(s, good)
    \/ \E r \in Requests : Arrive(r)
    \/ ReceiveSighup
    \/ StatRegistry
    \/ \E readable \in BOOLEAN : LoadRegistry(readable)
    \/ StatMachines
    \/ \E readable \in BOOLEAN : LoadMachines(readable)
    \/ EndSighup
    \/ \E r \in Requests :
          Decide(r) \/ BodyRead(r) \/ BodyTooLarge(r) \/ BodyAbandoned(r)

Spec == Init /\ [][Next]_vars

----------------------------------------------------------------------------
(* Properties.                                                             *)

Verdicts == {"none", "unknown_token", "not_allowed", "unexposed", "admitted",
             "not_configured", "too_large", "abandoned"}

\* The copies the gateway decides on are always whole contents some writer
\* wrote, and every request is in one of the phases of handle.
TypeOK ==
    /\ registryFile \in [sig : Nat, good : BOOLEAN, data : Registries]
    /\ machinesFile \in [sig : Nat, good : BOOLEAN, data : Sources]
    /\ registry \in [sig : Nat, data : Registries, failed : BOOLEAN]
    /\ machines \in [sig : Nat, data : Sources, failed : BOOLEAN]
    /\ loop \in Requests \union {Nobody, Sighup}
    /\ at \in {"stat_registry", "load_registry", "stat_machines",
               "load_machines", "decide"}
    /\ phase \in [Requests -> {"unsent", "arrived", "body", "forwarded", "ended"}]
    /\ verdict \in [Requests -> Verdicts]
    /\ upstreams \in [Requests -> Sources \union {{}}]
    /\ logged \in [Requests -> Nat]
    /\ seen \in [registries : SUBSET Registries, sources : SUBSET Sources]

\* The decision on a request is the one of a registry that was in the file
\* after the request came: a revoked token, a denied machine or the kill
\* switch bites the very next request, and a new grant serves it.  Only a
\* file that could not be loaded, and did not change since, is an excuse.
DecisionIsCurrent ==
    [][\A r \in Requests :
          verdict[r] = "none" /\ verdict'[r] # "none" /\ ~registry.failed
          => \E g \in seen.registries : Verdict(g, r) = verdict'[r]]_vars

\* The same for the machine source: a request is forwarded, or answered "not
\* configured", by a content that was in the file after it came.
UpstreamIsCurrent ==
    [][\A r \in Requests :
          verdict[r] = "none" /\ verdict'[r] = "admitted" /\ ~machines.failed
          => upstreams'[r] \in seen.sources]_vars

\* Why both hold.  A copy that loaded well is the file's content as long as
\* the signatures agree; what the file holds while a request is being decided
\* is in `seen`, and so is each copy once reload is past its file.
Fresh(copy, file, loading) ==
    ~copy.failed /\ copy.sig = file.sig /\ at # loading => file.good /\ copy.data = file.data

AdmissionInv ==
    /\ loop = Nobody => at = "decide"
    /\ Fresh(registry, registryFile, "load_registry")
    /\ Fresh(machines, machinesFile, "load_machines")
    /\ registry.sig <= registryFile.sig
    /\ machines.sig <= machinesFile.sig
    /\ loop \in Requests =>
          /\ registryFile.good => registryFile.data \in seen.registries
          /\ machinesFile.good => machinesFile.data \in seen.sources
          /\ ~registry.failed /\ at \in {"stat_machines", "load_machines", "decide"}
             => registry.data \in seen.registries
          /\ ~machines.failed /\ at = "decide" => machines.data \in seen.sources
    /\ \A r \in Requests : phase[r] = "body" => verdict[r] = "admitted"

\* "one line per request": every request whose handling is over is logged.
OneLinePerRequest == \A r \in Requests : phase[r] = "ended" => logged[r] = 1

=============================================================================
