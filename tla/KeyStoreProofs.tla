-------------------------- MODULE KeyStoreProofs --------------------------
(***************************************************************************)
(* Proofs about the key store, for every set of urls, keys and runs and    *)
(* any number of commands and rotations.  Both action properties follow    *)
(* from TypeOK and PairProven: what import and check carry through their   *)
(* probes is proven for the url and the entry that they compare again      *)
(* under the lock.                                                         *)
(***************************************************************************)
EXTENDS KeyStore, TLAPS

\* No run has begun, the store is empty or has a whole entry.
LEMMA InitInv == Init => TypeOK /\ PairProven
<1> SUFFICES ASSUME Init PROVE TypeOK /\ PairProven
    OBVIOUS
<1>1. TypeOK
    BY DEF Init, TypeOK, Idle, RunStates, Steps, Entries, Copies
<1>2. PairProven
    BY DEF Init, PairProven, Proven, Idle
<1> QED
    BY <1>1, <1>2

\* The pair of an entry, and an entry with another pair, are whole.
LEMMA EntryTypes ==
    /\ None.recipe \in BOOLEAN
    /\ \A e \in Entries : e.recipe \in BOOLEAN /\ Pair(e) \in Copies
    /\ \A pair \in Copies : \A e : e.recipe \in BOOLEAN => With(pair, e) \in Entries
    /\ None \notin Entries
<1>1. None.recipe \in BOOLEAN
    BY DEF None
<1>2. \A e \in Entries : e.recipe \in BOOLEAN /\ Pair(e) \in Copies
    BY DEF Entries, Copies, Pair
<1>3. \A pair \in Copies : \A e : e.recipe \in BOOLEAN => With(pair, e) \in Entries
    BY DEF Entries, Copies, With
<1>4. None \notin Entries
    BY KeyAssumption DEF Entries, None
<1> QED
    BY <1>1, <1>2, <1>3, <1>4

----------------------------------------------------------------------------

Stores == {"choosing", "probing", "editing", "applying", "checking", "verifying", "repairing"}

\* A run's new state is legal and proven if it has a pair where it needs one.
Legal(state) ==
    /\ state \in RunStates
    /\ state.at \in Stores => state.pair \in Copies
    /\ Proven(state)

\* The state in which a run waits for its next command is a legal one.
LEMMA IdleLegal == Legal(Idle)
    BY DEF Legal, Idle, RunStates, Steps, Stores, Proven

\* One run moves to a legal state, the entry stays whole, the boxes as they are.
LEMMA MoveStep ==
    ASSUME TypeOK, PairProven, NEW r \in Runs, NEW new, Legal(new),
           run' = [run EXCEPT ![r] = new],
           entry' \in {None} \union Entries, exposed' \in BOOLEAN, allowed' \in BOOLEAN,
           commands' \in Nat, UNCHANGED <<box, rotations>>
    PROVE  TypeOK' /\ PairProven'
<1>1. run' \in [Runs -> RunStates]
    BY DEF TypeOK, Legal
<1>2. \A s \in Runs : run'[s] = IF s = r THEN new ELSE run[s]
    BY DEF TypeOK
<1>3. TypeOK'
    BY <1>1, <1>2 DEF TypeOK, Legal, Stores
<1>4. PairProven'
    BY <1>2 DEF PairProven, Legal, Proven
<1> QED
    BY <1>3, <1>4

\* A run ends, after an edit or without one.
LEMMA EndStep ==
    ASSUME TypeOK, PairProven, NEW r \in Runs, Ends(r),
           entry' \in {None} \union Entries, exposed' \in BOOLEAN, allowed' \in BOOLEAN,
           UNCHANGED <<box, commands, rotations>>
    PROVE  TypeOK' /\ PairProven'
<1>1. commands' \in Nat
    BY DEF TypeOK
<1> QED
    BY <1>1, IdleLegal, MoveStep DEF Ends

\* A run goes on with what it has to a step that asks for no more proof.
LEMMA GoStep ==
    ASSUME TypeOK, PairProven, NEW r \in Runs, NEW to \in Steps, Goes(r, to),
           to \in {"idle", "exposing", "listing"} \/ (to = "editing" /\ run[r].at = "probing"),
           entry' \in {None} \union Entries, exposed' \in BOOLEAN, allowed' \in BOOLEAN,
           UNCHANGED <<box, commands, rotations>>
    PROVE  TypeOK' /\ PairProven'
<1> DEFINE new == [run[r] EXCEPT !.at = to]
<1>1. run[r] \in RunStates /\ (run[r].at \in Stores => run[r].pair \in Copies)
    BY DEF TypeOK, Stores
<1>2. new \in RunStates /\ new.at = to /\ new.pair = run[r].pair
    BY <1>1 DEF RunStates
<1>3. Legal(new)
    BY <1>1, <1>2 DEF Legal, Stores, Proven
<1>4. run' = [run EXCEPT ![r] = new]
    BY DEF Goes
<1>5. commands' \in Nat
    BY DEF TypeOK
<1> QED
    BY <1>3, <1>4, <1>5, MoveStep

\* A command begins, with a pair to store or with copies to choose from.
LEMMA BeginStep ==
    ASSUME TypeOK, PairProven, NEW r \in Runs,
           NEW op \in {"set", "enroll", "import", "check"},
           NEW at \in {"choosing", "probing", "resolving", "checking"},
           NEW pair, NEW candidates \in SUBSET Copies, NEW force \in BOOLEAN,
           Begin(r, op, at, pair, candidates, force),
           pair \in Copies \/ (pair = Pair(None) /\ at = "resolving"),
           at = "checking" => entry # None /\ pair = Pair(entry)
    PROVE  TypeOK' /\ PairProven'
<1> DEFINE new == [op |-> op, at |-> at, seen |-> entry, pair |-> pair,
                   candidates |-> candidates, force |-> force, calm |-> TRUE]
<1>1. new \in RunStates
    BY DEF TypeOK, RunStates, Steps
<1>2. Legal(new)
    BY <1>1 DEF Legal, Stores, Proven, Pair
<1>3. run' = [run EXCEPT ![r] = new] /\ commands' \in Nat
    BY DEF Begin, TypeOK
<1>4. /\ entry' \in {None} \union Entries /\ exposed' \in BOOLEAN /\ allowed' \in BOOLEAN
      /\ UNCHANGED <<box, rotations>>
    BY DEF Begin, TypeOK, registry
<1> QED
    BY <1>2, <1>3, <1>4, MoveStep

----------------------------------------------------------------------------

\* The steps of set-key and enroll-finish.
LEMMA SetStep ==
    ASSUME TypeOK, PairProven, NEW r \in Runs,
           \/ \E key \in Keys, force \in BOOLEAN : SetKey(r, key, force)
           \/ \E pair \in Copies, force \in BOOLEAN : SetKeyAndUrl(r, pair, force)
           \/ \E pair \in Copies, replace \in BOOLEAN : Enroll(r, pair, replace)
           \/ ChooseUrl(r) \/ Probe(r) \/ StoreKey(r) \/ Expose(r) \/ List(r)
    PROVE  TypeOK' /\ PairProven'
<1> USE EntryTypes
<1>t. /\ run[r] \in RunStates /\ (run[r].at \in Stores => run[r].pair \in Copies)
      /\ entry \in {None} \union Entries /\ exposed \in BOOLEAN /\ allowed \in BOOLEAN
      /\ commands \in Nat
    BY DEF TypeOK, Stores
<1>1. ASSUME NEW key \in Keys, NEW force \in BOOLEAN, SetKey(r, key, force)
      PROVE  TypeOK' /\ PairProven'
    <2> DEFINE pair == [url |-> entry.url, key |-> key]
    <2>1. Begin(r, "set", "probing", pair, {}, force)
        BY <1>1 DEF SetKey
    <2>2. pair \in Copies
        BY <1>1, <1>t DEF SetKey, Entries, Copies
    <2> QED
        BY <2>1, <2>2, BeginStep
<1>2. ASSUME NEW pair \in Copies, NEW force \in BOOLEAN, SetKeyAndUrl(r, pair, force)
      PROVE  TypeOK' /\ PairProven'
    BY <1>2, BeginStep DEF SetKeyAndUrl
<1>3. ASSUME NEW pair \in Copies, NEW replace \in BOOLEAN, Enroll(r, pair, replace)
      PROVE  TypeOK' /\ PairProven'
    BY <1>3, BeginStep DEF Enroll
<1>4. CASE ChooseUrl(r)
    <2> DEFINE new == [run[r] EXCEPT !.at = "probing", !.seen = entry, !.calm = TRUE]
    <2>1. CASE Ends(r)
        BY <1>4, <1>t, <2>1, EndStep DEF ChooseUrl, Unedited, registry
    <2>2. CASE run' = [run EXCEPT ![r].at = "probing", ![r].seen = entry, ![r].calm = TRUE]
        <3>1. run' = [run EXCEPT ![r] = new]
            BY <2>2
        <3>2. new \in RunStates /\ new.at = "probing" /\ new.pair = run[r].pair
            BY <1>t DEF RunStates, Steps
        <3>3. Legal(new)
            BY <1>4, <1>t, <3>2 DEF ChooseUrl, Legal, Stores, Proven
        <3> QED
            BY <1>4, <1>t, <3>1, <3>3, MoveStep DEF ChooseUrl, Unedited, registry
    <2> QED
        BY <1>4, <2>1, <2>2 DEF ChooseUrl
<1>5. CASE Probe(r)
    <2>1. Ends(r) \/ Goes(r, "editing")
        BY <1>5 DEF Probe
    <2> QED
        BY <1>5, <1>t, <2>1, EndStep, GoStep DEF Probe, Unedited, registry, Steps
<1>6. CASE StoreKey(r)
    <2>1. entry' \in Entries
        BY <1>6, <1>t DEF StoreKey, Stores
    <2>2. Ends(r) \/ \E to \in {"listing", "exposing"} : Goes(r, to)
        BY <1>6 DEF StoreKey, AfterEdit
    <2> QED
        BY <1>6, <1>t, <2>1, <2>2, EndStep, GoStep DEF StoreKey, registry, Steps
<1>7. CASE Expose(r)
    <2>1. Ends(r) \/ Goes(r, "listing")
        BY <1>7 DEF Expose
    <2> QED
        BY <1>7, <1>t, <2>1, EndStep, GoStep DEF Expose, Steps
<1>8. CASE List(r)
    BY <1>8, <1>t, EndStep DEF List
<1> QED
    BY <1>1, <1>2, <1>3, <1>4, <1>5, <1>6, <1>7, <1>8

\* The steps of import: what it chooses was accepted, or is the store's own.
LEMMA ImportStep ==
    ASSUME TypeOK, PairProven, NEW r \in Runs,
           \/ \E copies \in SUBSET Copies, accept \in BOOLEAN : Import(r, copies, accept)
           \/ Resolve(r) \/ Apply(r)
    PROVE  TypeOK' /\ PairProven'
<1> USE EntryTypes
<1>t. /\ run[r] \in RunStates /\ (run[r].at \in Stores => run[r].pair \in Copies)
      /\ entry \in {None} \union Entries /\ exposed \in BOOLEAN /\ allowed \in BOOLEAN
      /\ commands \in Nat
    BY DEF TypeOK, Stores
<1>1. ASSUME NEW copies \in SUBSET Copies, NEW accept \in BOOLEAN, Import(r, copies, accept)
      PROVE  TypeOK' /\ PairProven'
    <2> DEFINE own == IF entry # None THEN {Pair(entry)} ELSE {}
               counted == {c \in copies : entry = None \/ accept \/ c.url = entry.url}
    <2>1. own \union counted \in SUBSET Copies
        BY <1>t
    <2>2. Begin(r, "import", "resolving", Pair(None), own \union counted, FALSE)
        BY <1>1 DEF Import
    <2> QED
        BY <2>1, <2>2, BeginStep
<1>2. CASE Resolve(r)
    <2>1. PICK ok \in SUBSET {c \in run[r].candidates : "ok" \in Answers(c)} :
             \E chosen \in IF ok # {} THEN ok
                           ELSE IF run[r].seen # None THEN {Pair(run[r].seen)}
                           ELSE run[r].candidates :
                run' = [run EXCEPT ![r].at = "applying", ![r].pair = chosen]
        BY <1>2 DEF Resolve
    <2>2. PICK chosen \in IF ok # {} THEN ok
                          ELSE IF run[r].seen # None THEN {Pair(run[r].seen)}
                          ELSE run[r].candidates :
             run' = [run EXCEPT ![r].at = "applying", ![r].pair = chosen]
        BY <2>1
    <2>3. run[r].candidates \in SUBSET Copies /\ run[r].seen \in {None} \union Entries
        BY <1>t DEF RunStates
    <2>4. chosen \in Copies
        BY <2>2, <2>3
    <2>5. run[r].seen # None => box[chosen.url] = chosen.key \/ chosen = Pair(run[r].seen)
        BY <2>2 DEF Answers
    <2> DEFINE new == [run[r] EXCEPT !.at = "applying", !.pair = chosen]
    <2>6. /\ new \in RunStates /\ new.at = "applying" /\ new.pair = chosen
          /\ new.seen = run[r].seen
        BY <1>t, <2>4 DEF RunStates, Steps
    <2>7. Legal(new)
        BY <2>4, <2>5, <2>6 DEF Legal, Stores, Proven
    <2>8. run' = [run EXCEPT ![r] = new]
        BY <2>2
    <2> QED
        BY <1>2, <1>t, <2>7, <2>8, MoveStep DEF Resolve, Unedited, registry
<1>3. CASE Apply(r)
    <2>1. entry' \in {None} \union Entries
        BY <1>3, <1>t DEF Apply, Stores
    <2>2. Ends(r) \/ Goes(r, "exposing")
        BY <1>3 DEF Apply, AfterImport
    <2> QED
        BY <1>3, <1>t, <2>1, <2>2, EndStep, GoStep DEF Apply, registry, Steps
<1> QED
    BY <1>1, <1>2, <1>3

\* The steps of check: the key it read fits the box at the url it knows.
LEMMA CheckStep ==
    ASSUME TypeOK, PairProven, NEW r \in Runs,
           Check(r) \/ ReadKey(r) \/ Verify(r) \/ Repair(r)
    PROVE  TypeOK' /\ PairProven'
<1> USE EntryTypes
<1>t. /\ run[r] \in RunStates /\ (run[r].at \in Stores => run[r].pair \in Copies)
      /\ entry \in {None} \union Entries /\ exposed \in BOOLEAN /\ allowed \in BOOLEAN
      /\ commands \in Nat /\ Proven(run[r])
    BY DEF TypeOK, Stores, PairProven
<1>1. CASE Check(r)
    <2>1. entry # None /\ Begin(r, "check", "checking", Pair(entry), {}, FALSE)
        BY <1>1 DEF Check
    <2>2. Pair(entry) \in Copies
        BY <1>t, <2>1
    <2> QED
        BY <2>1, <2>2, BeginStep
<1>2. CASE ReadKey(r)
    <2>1. CASE Ends(r)
        BY <1>2, <1>t, <2>1, EndStep DEF ReadKey, Unedited, registry
    <2>2. ASSUME NEW key \in Keys,
                 run' = [run EXCEPT ![r].at = "verifying", ![r].pair.key = key]
          PROVE  TypeOK' /\ PairProven'
        <3> DEFINE new == [run[r] EXCEPT !.at = "verifying", !.pair.key = key]
        <3>1. run' = [run EXCEPT ![r] = new]
            BY <2>2
        <3>2. run[r].at = "checking" /\ run[r].pair \in Copies
            BY <1>2, <1>t DEF ReadKey, Stores
        <3>3. [run[r].pair EXCEPT !.key = key] \in Copies
            BY <3>2 DEF Copies
        <3>4. /\ new \in RunStates /\ new.at = "verifying" /\ new.seen = run[r].seen
              /\ new.pair = [run[r].pair EXCEPT !.key = key]
            BY <1>t, <3>3 DEF RunStates, Steps
        <3>5. new.pair.url = run[r].pair.url
            BY <3>2, <3>4 DEF Copies
        <3>6. Legal(new)
            BY <1>t, <3>2, <3>3, <3>4, <3>5 DEF Legal, Stores, Proven
        <3> QED
            BY <1>2, <1>t, <3>1, <3>6, MoveStep DEF ReadKey, Unedited, registry
    <2> QED
        BY <1>2, <2>1, <2>2 DEF ReadKey
<1>3. CASE Verify(r)
    <2>1. CASE Ends(r)
        BY <1>3, <1>t, <2>1, EndStep DEF Verify, Unedited, registry
    <2>2. CASE "ok" \in Answers(run[r].pair) /\ Goes(r, "repairing")
        <3> DEFINE new == [run[r] EXCEPT !.at = "repairing"]
        <3>1. run' = [run EXCEPT ![r] = new]
            BY <2>2 DEF Goes
        <3>2. box[run[r].pair.url] = run[r].pair.key
            BY <2>2 DEF Answers
        <3>3. /\ new \in RunStates /\ new.at = "repairing"
              /\ new.seen = run[r].seen /\ new.pair = run[r].pair
            BY <1>t DEF RunStates, Steps
        <3>4. Legal(new)
            BY <1>3, <1>t, <3>2, <3>3 DEF Verify, Legal, Stores, Proven
        <3> QED
            BY <1>3, <1>t, <3>1, <3>4, MoveStep DEF Verify, Unedited, registry
    <2> QED
        BY <1>3, <2>1, <2>2 DEF Verify
<1>4. CASE Repair(r)
    <2>1. entry' \in {None} \union Entries
        BY <1>4, <1>t DEF Repair, Stores, Entries, Copies
    <2> QED
        BY <1>4, <1>t, <2>1, EndStep DEF Repair, registry
<1> QED
    BY <1>1, <1>2, <1>3, <1>4

\* What the owner does, and a key that changes on a box, which ends all calm.
LEMMA OwnerStep ==
    ASSUME TypeOK, PairProven, Owner
    PROVE  TypeOK' /\ PairProven'
<1>1. ASSUME NEW recipe \in BOOLEAN, SetRecipe(recipe)
      PROVE  TypeOK' /\ PairProven'
    <2>1. entry' \in Entries
        BY <1>1 DEF SetRecipe, TypeOK, Entries
    <2> QED
        BY <1>1, <2>1 DEF SetRecipe, TypeOK, PairProven, Proven, registry
<1>2. ASSUME NEW isExposed \in BOOLEAN, NEW isAllowed \in BOOLEAN,
             EditRegistry(isExposed, isAllowed)
      PROVE  TypeOK' /\ PairProven'
    BY <1>2 DEF EditRegistry, TypeOK, PairProven, Proven
<1>3. ASSUME NEW url \in Urls, NEW key \in Keys, Rotate(url, key)
      PROVE  TypeOK' /\ PairProven'
    <2>1. \A r \in Runs :
             /\ run'[r] \in RunStates
             /\ run'[r].at = run[r].at /\ run'[r].pair = run[r].pair
             /\ run'[r].seen = run[r].seen /\ (run'[r].calm => run[r].at = "idle")
        BY <1>3 DEF Rotate, TypeOK, RunStates
    <2>2. run' \in [Runs -> RunStates]
        BY <1>3, <2>1 DEF Rotate
    <2>3. /\ box' \in [Urls -> Keys] /\ rotations' \in Nat
          /\ UNCHANGED <<entry, exposed, allowed, commands>>
        BY <1>3 DEF Rotate, TypeOK, registry
    <2>4. TypeOK'
        BY <2>1, <2>2, <2>3 DEF TypeOK
    <2>5. PairProven'
        BY <2>1 DEF PairProven, Proven
    <2> QED
        BY <2>4, <2>5
<1> QED
    BY <1>1, <1>2, <1>3 DEF Owner

\* Every step keeps the types and the proofs that the runs carry.
LEMMA NextInv == TypeOK /\ PairProven /\ [Next]_vars => TypeOK' /\ PairProven'
<1> SUFFICES ASSUME TypeOK, PairProven, [Next]_vars PROVE TypeOK' /\ PairProven'
    OBVIOUS
<1>1. ASSUME NEW r \in Runs, Die(r)
      PROVE  TypeOK' /\ PairProven'
    BY <1>1, EndStep DEF Die, Unedited, registry, TypeOK
<1>2. CASE UNCHANGED vars
    BY <1>2 DEF vars, registry, TypeOK, PairProven, Proven
<1> QED
    BY <1>1, <1>2, SetStep, ImportStep, CheckStep, OwnerStep DEF Next

\* Types: no entry is ever half an entry, no run stores what is not a pair.
THEOREM TypeCorrect == Spec => []TypeOK
<1>1. Spec => [](TypeOK /\ PairProven)
    BY InitInv, NextInv, PTL DEF Spec
<1> QED
    BY <1>1, PTL

\* What import and check are about to store fits the box, or was there.
THEOREM ProvenCorrect == Spec => []PairProven
<1>1. Spec => [](TypeOK /\ PairProven)
    BY InitInv, NextInv, PTL DEF Spec
<1> QED
    BY <1>1, PTL

----------------------------------------------------------------------------

\* A step that changes a machine's url or key is the edit of one run, and only
\* that run moves in it.
LEMMA OneEditor ==
    ASSUME TypeOK, Next, NEW r \in Runs, run'[r] # run[r],
           entry # None, Pair(entry') # Pair(entry)
    PROVE  StoreKey(r) \/ Apply(r) \/ Repair(r)
<1>1. ASSUME NEW s \in Runs, StoreKey(s) \/ Apply(s) \/ Repair(s)
      PROVE  s = r
    BY <1>1 DEF TypeOK, StoreKey, Apply, AfterImport, Repair, Ends, Goes
<1>2. ~Owner
    <2>1. \A recipe \in BOOLEAN : ~SetRecipe(recipe)
        BY DEF SetRecipe, TypeOK, Entries, Pair
    <2> QED
        BY <2>1 DEF Owner, EditRegistry, Rotate
<1>3. \A s \in Runs :
         /\ \A key, force : ~SetKey(s, key, force)
         /\ \A pair, force : ~SetKeyAndUrl(s, pair, force) /\ ~Enroll(s, pair, force)
         /\ \A copies, accept : ~Import(s, copies, accept)
         /\ ~Check(s)
    BY DEF SetKey, SetKeyAndUrl, Enroll, Import, Check, Begin
<1>4. \A s \in Runs :
         /\ ~ChooseUrl(s) /\ ~Probe(s) /\ ~Expose(s) /\ ~List(s)
         /\ ~Resolve(s) /\ ~ReadKey(s) /\ ~Verify(s) /\ ~Die(s)
    BY DEF ChooseUrl, Probe, Expose, List, Resolve, ReadKey, Verify, Die, Unedited
<1> QED
    BY <1>1, <1>2, <1>3, <1>4 DEF Next

\* While no box changes its key, import and check replace an entry only by a
\* pair that its box accepts, whoever else edits the store meanwhile.
THEOREM AutomaticCorrect == Spec => AutomaticStoresProven
<1> DEFINE Step(r) ==
        run[r].at \in {"applying", "repairing"} /\ run'[r] # run[r] /\ run[r].calm
            /\ entry # None /\ Pair(entry') # Pair(entry) => Accepted(entry')
<1>1. ASSUME TypeOK, PairProven, [Next]_vars PROVE [\A r \in Runs : Step(r)]_vars
    <2> SUFFICES ASSUME Next, NEW r \in Runs, run[r].at \in {"applying", "repairing"},
                        run'[r] # run[r], run[r].calm, entry # None,
                        Pair(entry') # Pair(entry)
                 PROVE  Accepted(entry')
        BY <1>1
    <2>1. /\ run[r] \in RunStates /\ run[r].pair \in Copies /\ Proven(run[r])
          /\ entry \in Entries
        BY <1>1 DEF TypeOK, PairProven
    <2>2. Apply(r) \/ Repair(r)
        BY <1>1, OneEditor DEF StoreKey
    <2>3. CASE Apply(r)
        <3>1. Pair(entry) = Pair(run[r].seen) /\ entry' = With(run[r].pair, entry)
            BY <2>3 DEF Apply
        <3>2. Pair(entry') = run[r].pair
            BY <2>1, <3>1 DEF Pair, With, Copies
        <3>3. run[r].seen # None
            BY <2>1, <3>1, KeyAssumption DEF Pair, None, Entries
        <3>4. box[run[r].pair.url] = run[r].pair.key
            BY <2>1, <2>3, <3>1, <3>2, <3>3 DEF Apply, Proven
        <3>5. entry' # None
            BY <2>1, <3>1, EntryTypes
        <3> QED
            BY <3>1, <3>4, <3>5 DEF Accepted, With
    <2>4. CASE Repair(r)
        <3>1. /\ Pair(entry) = Pair(run[r].seen)
              /\ entry' = [entry EXCEPT !.key = run[r].pair.key]
            BY <2>4 DEF Repair
        <3>2. entry.url = run[r].pair.url
            BY <2>1, <2>4, <3>1 DEF Repair, Proven, Pair
        <3>3. box[run[r].pair.url] = run[r].pair.key
            BY <2>1, <2>4 DEF Repair, Proven
        <3>4. entry'.url = entry.url /\ entry'.key = run[r].pair.key /\ entry' \in Entries
            BY <2>1, <3>1 DEF Entries, Copies
        <3> QED
            BY <3>2, <3>3, <3>4, EntryTypes DEF Accepted
    <2> QED
        BY <2>2, <2>3, <2>4
<1>2. Spec => [][\A r \in Runs : Step(r)]_vars
    BY <1>1, TypeCorrect, ProvenCorrect, PTL DEF Spec
<1> QED
    BY <1>2 DEF AutomaticStoresProven

\* No edit of a machine's key or url loses the recipe its owner set.
THEOREM RecipeCorrect == Spec => RecipeKept
<1> DEFINE Step == entry # None /\ entry'.recipe # entry.recipe => commands' = commands + 1
<1>1. ASSUME TypeOK, [Next]_vars PROVE [Step]_vars
    <2> SUFFICES ASSUME Next, entry # None, entry'.recipe # entry.recipe
                 PROVE  commands' = commands + 1
        BY <1>1
    <2>1. entry \in Entries
        BY <1>1 DEF TypeOK
    <2>2. ASSUME NEW r \in Runs PROVE ~StoreKey(r) /\ ~Apply(r) /\ ~Repair(r)
        BY <2>1 DEF StoreKey, Apply, Repair, With, Entries
    <2>3. ASSUME NEW r \in Runs
          PROVE  /\ ~ChooseUrl(r) /\ ~Probe(r) /\ ~Expose(r) /\ ~List(r)
                 /\ ~Resolve(r) /\ ~ReadKey(r) /\ ~Verify(r) /\ ~Die(r)
        BY DEF ChooseUrl, Probe, Expose, List, Resolve, ReadKey, Verify, Die, Unedited
    <2>4. ASSUME NEW r \in Runs
          PROVE  /\ \A key, force : ~SetKey(r, key, force)
                 /\ \A pair, force : ~SetKeyAndUrl(r, pair, force) /\ ~Enroll(r, pair, force)
                 /\ \A copies, accept : ~Import(r, copies, accept)
                 /\ ~Check(r)
        BY DEF SetKey, SetKeyAndUrl, Enroll, Import, Check, Begin
    <2>5. Owner
        BY <2>2, <2>3, <2>4 DEF Next
    <2> QED
        BY <2>5 DEF Owner, SetRecipe, EditRegistry, Rotate
<1>2. Spec => [][Step]_vars
    BY <1>1, TypeCorrect, PTL DEF Spec
<1> QED
    BY <1>2 DEF RecipeKept

=============================================================================
