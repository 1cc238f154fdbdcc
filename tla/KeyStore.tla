----------------------------- MODULE KeyStore -----------------------------
(***************************************************************************)
(* The key store entry of one machine (gateway/keystore.py), its exposure  *)
(* in the registry, and everyone who edits them: `machine set-key`,        *)
(* `machine import`, `machine repair-recipe`, the repair of `check` after  *)
(* a 401, and `enroll-finish`.                                             *)
(*                                                                         *)
(* Each run reads the store without the lock, probes the machine for up to *)
(* minutes, and only then edits under the lock.  Meanwhile the others go   *)
(* on, keys change on the boxes, and any run can die.                      *)
(*                                                                         *)
(* One machine is enough: the edits of one run to several machines are     *)
(* independent of each other.  An edit is one step, as it is made under    *)
(* the lock and saved by one rename.                                       *)
(***************************************************************************)
EXTENDS Naturals, FiniteSets

CONSTANTS
    Urls, Keys,
    Runs,                            \* processes on the gateway's host
    MaxCommands, MaxRotations,       \* bounds (model checking only)
    MaxCopies

None == [url |-> "none", key |-> "none", recipe |-> FALSE]

ASSUME KeyAssumption == "none" \notin Urls /\ "none" \notin Keys

VARIABLES
    entry,      \* the machine's MachineEntry: url, key, has it a repair recipe; or None
    exposed,    \* registry: the machine is exposed
    allowed,    \* registry: some consumer's allow-list has it
    box,        \* [Urls -> Keys]: the key that the box at a url accepts
    run,        \* [Runs -> what each run is at]
    commands, rotations

registry == <<exposed, allowed>>
vars == <<entry, registry, box, run, commands, rotations>>

Copies == [url : Urls, key : Keys]

Pair(e) == [url |-> e.url, key |-> e.key]
With(pair, e) == [url |-> pair.url, key |-> pair.key, recipe |-> e.recipe]

\* seen: the entry when the run read the store; pair: what it means to store;
\* calm: no key changed on a box since it read the store (for the properties).
Idle == [pair |-> Pair(None), op |-> "none", at |-> "idle", seen |-> None,
         candidates |-> {}, force |-> FALSE, calm |-> TRUE]

Init ==
    /\ entry \in {None} \union [url : Urls, key : Keys, recipe : BOOLEAN]
    /\ exposed \in BOOLEAN /\ allowed \in BOOLEAN
    /\ box \in [Urls -> Keys]
    /\ run = [r \in Runs |-> Idle]
    /\ commands = 0 /\ rotations = 0

----------------------------------------------------------------------------

\* A command starts by reading the store.
Begin(r, op, at, pair, candidates, force) ==
    /\ run[r].at = "idle"
    /\ commands < MaxCommands
    /\ commands' = commands + 1
    /\ run' = [run EXCEPT ![r] = [op |-> op, at |-> at, seen |-> entry, pair |-> pair,
                                  candidates |-> candidates, force |-> force, calm |-> TRUE]]
    /\ UNCHANGED <<entry, registry, box, rotations>>

Goes(r, to) == run' = [run EXCEPT ![r].at = to]

Ends(r) == run' = [run EXCEPT ![r] = Idle]

Unedited == UNCHANGED <<entry, registry, box, commands, rotations>>

\* What a probe can answer: the box's verdict, or nothing in time.
Answers(pair) == {"unreachable", IF box[pair.url] = pair.key THEN "ok" ELSE "401"}

Accepted(e) == e # None /\ box[e.url] = e.key

----------------------------------------------------------------------------
(* set-key, and enroll-finish, which ends in the same set_key.             *)

\* Without --url the machine must be known, and keeps its url.
SetKey(r, key, force) ==
    /\ entry # None
    /\ Begin(r, "set", "probing", [url |-> entry.url, key |-> key], {}, force)

SetKeyAndUrl(r, pair, force) == Begin(r, "set", "probing", pair, {}, force)

\* _check_request; a machine of the store is enrolled again with --replace only.
Enroll(r, pair, replace) ==
    /\ entry = None \/ replace
    /\ Begin(r, "enroll", "choosing", pair, {}, FALSE)

\* _choose_url found the box; set_key reads the store anew.
ChooseUrl(r) ==
    /\ run[r].at = "choosing"
    /\ \/ /\ "ok" \in Answers(run[r].pair)
          /\ run' = [run EXCEPT ![r].at = "probing", ![r].seen = entry, ![r].calm = TRUE]
       \/ Ends(r)
    /\ Unedited

\* A key that the machine rejects is refused, unless forced.
Probe(r) ==
    /\ run[r].at = "probing"
    /\ \E answer \in Answers(run[r].pair) :
          IF answer = "401" /\ ~run[r].force THEN Ends(r) ELSE Goes(r, "editing")
    /\ Unedited

\* What comes after the edit: a machine new to the store is exposed; then an
\* enrollment lists it in projects.
AfterEdit(r) == IF run[r].seen = None THEN "exposing"
            ELSE IF run[r].op = "enroll" THEN "listing" ELSE "idle"

\* Mutant: the recipe is the one of the entry that was read before the probe.
StoreSeenRecipe(r) ==
    /\ run[r].at = "editing"
    /\ entry' = With(run[r].pair, run[r].seen)
    /\ IF AfterEdit(r) = "idle" THEN Ends(r) ELSE Goes(r, AfterEdit(r))
    /\ UNCHANGED <<registry, box, commands, rotations>>

\* set_key's edit: the pair it probed, with the recipe that is there now.
StoreKey(r) ==
    /\ run[r].at = "editing"
    /\ entry' = With(run[r].pair, entry)
    /\ IF AfterEdit(r) = "idle" THEN Ends(r) ELSE Goes(r, AfterEdit(r))
    /\ UNCHANGED <<registry, box, commands, rotations>>

\* _expose_new: never one that a consumer is allowed already (a kill switch).
Expose(r) ==
    /\ run[r].at = "exposing"
    /\ exposed' = (exposed \/ ~allowed)
    /\ IF run[r].op = "enroll" THEN Goes(r, "listing") ELSE Ends(r)
    /\ UNCHANGED <<entry, allowed, box, commands, rotations>>

\* add_machine, and the sync-configs after it.
List(r) ==
    /\ run[r].at = "listing"
    /\ allowed' = TRUE
    /\ Ends(r)
    /\ UNCHANGED <<entry, exposed, box, commands, rotations>>

----------------------------------------------------------------------------
(* import.                                                                 *)

\* Copies at another url than the store's count only with --accept-url-change.
Import(r, copies, accept) ==
    /\ copies # {} /\ Cardinality(copies) <= MaxCopies
    /\ LET known == entry # None
           own == IF known THEN {Pair(entry)} ELSE {}
           counted == {c \in copies : ~known \/ accept \/ c.url = entry.url}
       IN  Begin(r, "import", "resolving", Pair(None), own \union counted, FALSE)

\* resolve_import: a copy that answers; else the store's own; else any.
\* (Which of several is the most common one is left open.)
Resolve(r) ==
    /\ run[r].at = "resolving"
    /\ LET candidates == run[r].candidates
       IN  \E ok \in SUBSET {c \in candidates : "ok" \in Answers(c)} :
           \E chosen \in IF ok # {} THEN ok
                         ELSE IF run[r].seen # None THEN {Pair(run[r].seen)} ELSE candidates :
              run' = [run EXCEPT ![r].at = "applying", ![r].pair = chosen]
    /\ Unedited

AfterImport(r) == IF run[r].seen = None THEN Goes(r, "exposing") ELSE Ends(r)

\* Mutant: the decision is written, whatever the entry is now.
ApplyBlindly(r) ==
    /\ run[r].at = "applying"
    /\ entry' = With(run[r].pair, entry)
    /\ AfterImport(r)
    /\ UNCHANGED <<registry, box, commands, rotations>>

\* apply_import: an entry that changed since the snapshot is left as it is.
Apply(r) ==
    /\ run[r].at = "applying"
    /\ entry' = IF Pair(entry) = Pair(run[r].seen) THEN With(run[r].pair, entry) ELSE entry
    /\ AfterImport(r)
    /\ UNCHANGED <<registry, box, commands, rotations>>

----------------------------------------------------------------------------
(* check: the repair after a 401.                                          *)

Check(r) == entry # None /\ Begin(r, "check", "checking", Pair(entry), {}, FALSE)

\* Only a 401 of a machine with a recipe is repaired: the key is read over ssh
\* from the host the recipe names, which may hold any key.
ReadKey(r) ==
    /\ run[r].at = "checking"
    /\ \/ /\ run[r].seen.recipe /\ "401" \in Answers(run[r].pair)
          /\ \E key \in Keys : run' = [run EXCEPT ![r].at = "verifying", ![r].pair.key = key]
       \/ Ends(r)
    /\ Unedited

\* Mutant: the key that was read is stored without a probe.
VerifyForgotten(r) == run[r].at = "verifying" /\ Goes(r, "repairing") /\ Unedited

Verify(r) ==
    /\ run[r].at = "verifying"
    /\ \E answer \in Answers(run[r].pair) : IF answer = "ok" THEN Goes(r, "repairing") ELSE Ends(r)
    /\ Unedited

\* Mutant: only the key is compared; set-key may have changed the url.
RepairAtNewUrl(r) ==
    /\ run[r].at = "repairing"
    /\ entry' = IF entry # None /\ entry.key = run[r].seen.key
                THEN [entry EXCEPT !.key = run[r].pair.key] ELSE entry
    /\ Ends(r)
    /\ UNCHANGED <<registry, box, commands, rotations>>

\* A set-key that won the race is left alone.
Repair(r) ==
    /\ run[r].at = "repairing"
    /\ entry' = IF entry # None /\ Pair(entry) = Pair(run[r].seen)
                THEN [entry EXCEPT !.key = run[r].pair.key] ELSE entry
    /\ Ends(r)
    /\ UNCHANGED <<registry, box, commands, rotations>>

----------------------------------------------------------------------------
(* Everyone else.                                                          *)

\* machine repair-recipe
SetRecipe(recipe) ==
    /\ entry # None /\ commands < MaxCommands
    /\ commands' = commands + 1
    /\ entry' = [entry EXCEPT !.recipe = recipe]
    /\ UNCHANGED <<registry, box, run, rotations>>

\* expose, unexpose (the kill switch), allow, deny
EditRegistry(isExposed, isAllowed) ==
    /\ commands < MaxCommands
    /\ commands' = commands + 1
    /\ exposed' = isExposed /\ allowed' = isAllowed
    /\ (exposed' = exposed) # (allowed' = allowed)
    /\ UNCHANGED <<entry, box, run, rotations>>

\* Another key on a box: a reinstall, a rotation, another box at that address.
Rotate(url, key) ==
    /\ rotations < MaxRotations
    /\ key # box[url]
    /\ rotations' = rotations + 1
    /\ box' = [box EXCEPT ![url] = key]
    /\ run' = [r \in Runs |-> [run[r] EXCEPT !.calm = run[r].at = "idle"]]
    /\ UNCHANGED <<entry, registry, commands>>

\* Killed, or failed: a full disk, a registry that does not load.
Die(r) == run[r].at # "idle" /\ Ends(r) /\ Unedited

----------------------------------------------------------------------------

Owner ==
    \/ \E recipe \in BOOLEAN : SetRecipe(recipe)
    \/ \E isExposed, isAllowed \in BOOLEAN : EditRegistry(isExposed, isAllowed)
    \/ \E url \in Urls, key \in Keys : Rotate(url, key)

Next ==
    \/ \E r \in Runs :
        \/ \E key \in Keys, force \in BOOLEAN : SetKey(r, key, force)
        \/ \E pair \in Copies, force \in BOOLEAN : SetKeyAndUrl(r, pair, force)
        \/ \E pair \in Copies, replace \in BOOLEAN : Enroll(r, pair, replace)
        \/ ChooseUrl(r)
        \/ Probe(r)
        \/ StoreKey(r)
        \/ Expose(r)
        \/ List(r)
        \/ \E copies \in SUBSET Copies, accept \in BOOLEAN : Import(r, copies, accept)
        \/ Resolve(r)
        \/ Apply(r)
        \/ Check(r)
        \/ ReadKey(r)
        \/ Verify(r)
        \/ Repair(r)
        \/ Die(r)
    \/ Owner

Spec == Init /\ [][Next]_vars

----------------------------------------------------------------------------
(* Properties.                                                             *)

Steps == {"idle", "choosing", "probing", "editing", "exposing", "listing",
          "resolving", "applying", "checking", "verifying", "repairing"}

Entries == [url : Urls, key : Keys, recipe : BOOLEAN]

RunStates ==
    [op : {"none", "set", "enroll", "import", "check"}, at : Steps,
     seen : {None} \union Entries, pair : {Pair(None)} \union Copies,
     candidates : SUBSET Copies, force : BOOLEAN, calm : BOOLEAN]

\* The types.  An entry once made is never half an entry, and a run that is
\* about to store has a url and a key to store.
TypeOK ==
    /\ entry \in {None} \union Entries
    /\ exposed \in BOOLEAN /\ allowed \in BOOLEAN
    /\ box \in [Urls -> Keys]
    /\ run \in [Runs -> RunStates]
    /\ commands \in Nat /\ rotations \in Nat
    /\ \A r \in Runs :
          run[r].at \in {"choosing", "probing", "editing", "applying", "checking", "verifying",
                        "repairing"} => run[r].pair \in Copies

\* What import and check are about to store, when no key has changed on a box
\* since they read the store: a pair that its box accepts, or what was there.
Proven(state) ==
    /\ state.at = "applying" /\ state.calm /\ state.seen # None =>
          \/ box[state.pair.url] = state.pair.key
          \/ state.pair = Pair(state.seen)
    /\ state.at \in {"checking", "verifying", "repairing"} =>
          /\ state.seen # None
          /\ state.pair.url = state.seen.url
    /\ state.at = "repairing" /\ state.calm => box[state.pair.url] = state.pair.key

PairProven == \A r \in Runs : Proven(run[r])

\* An import and a repair rest on a store they read minutes ago.  As long as
\* no box changed its key meanwhile, they put only a pair that its box accepts
\* in the place of another, whatever set-key or another run has stored since.
AutomaticStoresProven ==
    [][\A r \in Runs :
         run[r].at \in {"applying", "repairing"} /\ run'[r] # run[r] /\ run[r].calm
             /\ entry # None /\ Pair(entry') # Pair(entry) => Accepted(entry')]_vars

\* Only the owner sets, changes or clears a machine's repair recipe: no edit
\* of the key or the url loses one that was set while the machine was probed.
RecipeKept ==
    [][entry # None /\ entry'.recipe # entry.recipe => commands' = commands + 1]_vars

----------------------------------------------------------------------------
(* Enrollment alone, of a machine nobody has touched before.               *)

EnrollInit ==
    /\ Init
    /\ entry = None /\ ~exposed /\ ~allowed

EnrollNext ==
    \E r \in Runs :
        \/ \E pair \in Copies, replace \in BOOLEAN : Enroll(r, pair, replace)
        \/ ChooseUrl(r)
        \/ Probe(r)
        \/ StoreKey(r)
        \/ Expose(r)
        \/ List(r)
        \/ Die(r)

EnrollSpec == EnrollInit /\ [][EnrollNext]_vars

\* A failed enrollment is run again with --replace and "must end usable": a
\* machine whose enrollment got to the projects is exposed to them.
EnrolledIsExposed == allowed => exposed

=============================================================================
