---------------------------- MODULE SyncConfigs ----------------------------
(***************************************************************************)
(* `remoteos-gateway sync-configs` (gateway/sync.py): from the manifest it *)
(* gives every project a consumer in the registry, with one token and the  *)
(* manifest's machines, and writes that token into the project's config    *)
(* file, which lies on another account or another host.  The registry and  *)
(* the file cannot change together, a write may land although it reports   *)
(* failure, the run may die anywhere, and the owner edits the manifest and *)
(* the configs meanwhile.                                                  *)
(*                                                                         *)
(* A run reads the manifest BEFORE it takes the registry lock.  Under the  *)
(* lock its in-memory registry is saved after every change, so one         *)
(* variable stands for both; a save that raises is the run's death.        *)
(* Token hashes are modelled by their tokens, which are numbered as they   *)
(* are minted.                                                             *)
(***************************************************************************)
EXTENDS Naturals, Sequences, FiniteSets

CONSTANTS
    Runs,        \* invocations of sync-configs
    Projects,
    Machines,
    Urls,        \* gateway urls a manifest may name
    Manifests,   \* the manifests the owner may write
    MaxTokens, MaxManifestEdits, MaxOwnerActs   \* bounds (model checking only)

Fleet == "fleet"       \* FLEET_SERVER
Names == Machines \union {Fleet}
Modes == {"gateway", "direct"}

\* parse_manifest: every project lists machines, a manifest lists projects.
ASSUME ManifestAssumption ==
    /\ IsFiniteSet(Projects)
    /\ Fleet \notin Machines
    /\ "nobody" \notin Runs \union Projects
    /\ {"none", "keystore"} \cap Urls = {}
    /\ MaxTokens \in Nat
    /\ \A m \in Manifests :
          /\ m.url \in Urls
          /\ DOMAIN m.projects \subseteq Projects /\ DOMAIN m.projects # {}
          /\ \A p \in DOMAIN m.projects :
                /\ m.projects[p].mode \in Modes
                /\ m.projects[p].machines \in (SUBSET Machines) \ {{}}

VARIABLES
    manifest,   \* projects.toml
    registry,   \* the consumer of each project, in the registry file
    files,      \* each project's config: its server entries
    minted,     \* tokens minted so far
    gone,       \* tokens taken away on purpose: revoked or pruned
    loaded,     \* the manifest each run works from
    options,    \* each run's --dry-run and --prune
    phase,      \* where each run is
    holder,     \* the run that holds the registry lock
    todo,       \* the projects it has not handled yet
    draft,      \* the project it is writing, its token and new text
    failed,     \* one of its projects failed
    synced,     \* a run of the manifest as it stands has succeeded
    manifestEdits, ownerActs

run == <<holder, todo, draft, failed>>
bounds == <<manifestEdits, ownerActs>>
vars == <<manifest, registry, files, minted, gone, loaded, options, phase, run,
          synced, bounds>>

Nobody == "nobody"
NoEntry == [url |-> "none", token |-> 0]
DirectEntry == [url |-> "keystore", token |-> 0]
NoConsumer == [machines |-> {}, kind |-> "none", hashes |-> <<>>]
NoFile == [n \in Names |-> NoEntry]
NoDraft == [token |-> 0, project |-> Nobody, text |-> NoFile, changes |-> FALSE]

\* plan_project's entries for a project.
Desired(m, p, token) ==
    IF m.projects[p].mode = "gateway"
    THEN [n \in m.projects[p].machines \union {Fleet} |-> [url |-> m.url, token |-> token]]
    ELSE [n \in m.projects[p].machines |-> DirectEntry]

Granted(m, p) == IF p \in DOMAIN m.projects /\ m.projects[p].mode = "gateway"
                 THEN m.projects[p].machines ELSE {}

\* The whole file that has these entries.
Filled(entries) == [n \in Names |-> IF n \in DOMAIN entries THEN entries[n] ELSE NoEntry]

FirstTokens == CHOOSE f \in [Projects -> 1..Cardinality(Projects)] :
                  \A x, y \in Projects : f[x] = f[y] => x = y

\* What earlier runs left: every project of the manifest is in place, one
\* that is not listed has never been.
Init ==
    /\ manifest \in Manifests
    /\ registry = [p \in Projects |->
          IF Granted(manifest, p) = {} THEN NoConsumer
          ELSE [kind |-> "managed", hashes |-> <<FirstTokens[p]>>,
                machines |-> Granted(manifest, p)]]
    /\ files = [p \in Projects |->
          IF p \notin DOMAIN manifest.projects THEN NoFile
          ELSE Filled(Desired(manifest, p, FirstTokens[p]))]
    /\ minted = Cardinality(Projects)
    /\ gone = {}
    /\ loaded = [r \in Runs |-> manifest]
    /\ options \in [Runs -> [dry : BOOLEAN, prune : BOOLEAN]]
    /\ phase = [r \in Runs |-> "unstarted"]
    /\ holder = Nobody
    /\ todo = {}
    /\ draft = NoDraft
    /\ failed = FALSE
    /\ synced = FALSE
    /\ manifestEdits = 0
    /\ ownerActs = 0

----------------------------------------------------------------------------
(* plan_project.                                                           *)

SetOf(s) == {s[i] : i \in DOMAIN s}

First(s) == IF s = <<>> THEN <<>> ELSE <<Head(s)>>

Managed(p) == registry[p].kind = "managed"

\* owned: sync wrote this entry.  A gateway url of any age with a token of
\* the project's consumer counts, but a direct project has no consumer.
Owned(m, p, e) ==
    LET direct == m.projects[p].mode = "direct"
    IN  \/ e.url = m.url
        \/ direct /\ e = DirectEntry
        \/ ~direct /\ Managed(p) /\ e.url \in Urls /\ e.token \in SetOf(registry[p].hashes)

NewEntries(m, p, token) ==
    LET desired == Desired(m, p, token)
        old == files[p]
    IN  [n \in Names |-> CASE n \in DOMAIN desired -> desired[n]
                           [] n \notin DOMAIN desired /\ Owned(m, p, old[n]) -> NoEntry
                           [] OTHER -> old[n]]

\* Mutant: only the consumer's first hash is compared.
ReusableFirst(m, p) ==
    {t \in SetOf(First(registry[p].hashes)) :
        \E n \in Names : files[p][n] = [url |-> m.url, token |-> t]}

\* _reusable_token: tokens of the file that the consumer still has.
Reusable(m, p) ==
    {t \in SetOf(registry[p].hashes) :
        \E n \in Names : files[p][n] = [url |-> m.url, token |-> t]}

Held(p) == {files[p][n].token : n \in Names}

\* Mutant: the previous hash kept is the first, whatever the file holds.
WithTokenFirst(p, t) ==
    LET hashes == registry[p].hashes
    IN  IF t \in SetOf(hashes) THEN hashes ELSE First(hashes) \o <<t>>

\* _apply: the new token next to the one previous hash the file holds, else the first one.
WithToken(p, t) ==
    LET hashes == registry[p].hashes
        held == {i \in DOMAIN hashes : hashes[i] \in Held(p)}
        kept == IF held = {} THEN 1 ELSE CHOOSE i \in held : \A j \in held : i <= j
    IN  IF t \in SetOf(hashes) THEN hashes
        ELSE IF hashes = <<>> THEN <<t>>
        ELSE <<hashes[kept], t>>

\* _Saver.commit: a dry run saves nothing.
Commit(consumers) == registry' = IF options[holder].dry THEN registry ELSE consumers

----------------------------------------------------------------------------
(* The owner.  The CLI's own edits of the registry take the lock.          *)

EditManifest(m) ==
    /\ manifestEdits < MaxManifestEdits
    /\ m # manifest
    /\ manifest' = m
    /\ synced' = FALSE
    /\ manifestEdits' = manifestEdits + 1
    /\ UNCHANGED <<registry, files, minted, gone, loaded, options, phase, run, ownerActs>>

OwnerAct == ownerActs < MaxOwnerActs /\ ownerActs' = ownerActs + 1

DeleteConfig(p) ==
    /\ OwnerAct
    /\ files' = [files EXCEPT ![p] = NoFile]
    /\ UNCHANGED <<manifest, registry, minted, gone, loaded, options, phase, run,
                   synced, manifestEdits>>

\* `consumer revoke`
Revoke(p) ==
    /\ holder = Nobody
    /\ registry[p].kind # "none"
    /\ OwnerAct
    /\ registry' = [registry EXCEPT ![p] = NoConsumer]
    /\ gone' = gone \union SetOf(registry[p].hashes)
    /\ synced' = FALSE
    /\ UNCHANGED <<manifest, files, minted, loaded, options, phase, run, manifestEdits>>

\* `consumer add`: the owner takes the name for a consumer of their own.
AddByHand(p) ==
    /\ holder = Nobody
    /\ registry[p].kind = "none"
    /\ OwnerAct
    /\ registry' = [registry EXCEPT ![p].kind = "hand"]
    /\ synced' = FALSE
    /\ UNCHANGED <<manifest, files, minted, gone, loaded, options, phase, run, manifestEdits>>

----------------------------------------------------------------------------
(* A run.                                                                  *)

LoadManifest(r) ==
    /\ phase[r] = "unstarted"
    /\ phase' = [phase EXCEPT ![r] = "loaded"]
    /\ loaded' = [loaded EXCEPT ![r] = manifest]
    /\ UNCHANGED <<manifest, registry, files, minted, gone, options, run, synced, bounds>>

Lock(r) ==
    /\ phase[r] = "loaded"
    /\ holder = Nobody
    /\ phase' = [phase EXCEPT ![r] = "projects"]
    /\ holder' = r
    /\ todo' = DOMAIN loaded[r].projects
    /\ failed' = FALSE
    /\ UNCHANGED <<manifest, registry, files, minted, gone, loaded, options, draft,
                   synced, bounds>>

\* The config cannot be read, or a hand-made consumer has the project's name:
\* the project fails and its allow-list only shrinks (_narrow_allow_list).
FailProject(r, p) ==
    /\ phase[r] = "projects"
    /\ p \in todo
    /\ todo' = todo \ {p}
    /\ failed' = TRUE
    /\ Commit(IF Managed(p)
              THEN [registry EXCEPT ![p].machines = @ \cap loaded[r].projects[p].machines]
              ELSE registry)
    /\ UNCHANGED <<manifest, files, minted, gone, loaded, options, phase, holder, draft,
                   synced, bounds>>

\* plan_project on what the file holds now, then the first half of _apply:
\* the registry learns the token before any file carries it.
RegisterToken(r, p, token, fresh) ==
    LET m == loaded[r]
        gateway == m.projects[p].mode = "gateway"
        entries == NewEntries(m, p, token)
        changes == entries # files[p]
        consumer == [kind |-> "managed", hashes |-> WithToken(p, token),
                     machines |-> m.projects[p].machines]
        done == /\ ~changes
                /\ gateway => registry[p] = [consumer EXCEPT !.hashes = <<token>>]
    IN  /\ phase[r] = "projects"
        /\ p \in todo
        /\ \/ /\ done \/ options[r].dry
              /\ todo' = todo \ {p}
              /\ UNCHANGED <<registry, minted, phase, draft>>
           \/ /\ ~done /\ ~options[r].dry
              /\ minted' = IF fresh THEN token ELSE minted
              /\ Commit(IF gateway THEN [registry EXCEPT ![p] = consumer] ELSE registry)
              /\ draft' = [project |-> p, token |-> token, changes |-> changes,
                           text |-> entries]
              /\ phase' = [phase EXCEPT ![r] = IF changes THEN "write" ELSE "confirm"]
              /\ UNCHANGED todo
        /\ UNCHANGED <<manifest, files, gone, loaded, options, holder, failed, synced, bounds>>

PlanProject(r, p) ==
    /\ phase[r] = "projects"
    /\ p \in todo
    /\ LET m == loaded[r]
       IN  \/ /\ m.projects[p].mode = "direct"
              /\ RegisterToken(r, p, 0, FALSE)
           \/ /\ m.projects[p].mode = "gateway"
              /\ registry[p].kind # "hand"
              /\ \/ \E t \in Reusable(m, p) : RegisterToken(r, p, t, FALSE)
                 \/ /\ Reusable(m, p) = {}
                    /\ minted < MaxTokens
                    /\ RegisterToken(r, p, minted + 1, TRUE)

\* target.write replaces the whole file by the text planned from the old one.
WriteConfig(r) ==
    /\ phase[r] = "write"
    /\ files' = [files EXCEPT ![draft.project] = draft.text]
    /\ phase' = [phase EXCEPT ![r] = "confirm"]
    /\ UNCHANGED <<manifest, registry, minted, gone, loaded, options, run, synced, bounds>>

\* TargetError from the write, whether it landed or not; nothing is undone.
FailWrite(r, landed) ==
    /\ phase[r] = "write"
    /\ files' = IF landed THEN [files EXCEPT ![draft.project] = draft.text] ELSE files
    /\ phase' = [phase EXCEPT ![r] = "projects"]
    /\ todo' = todo \ {draft.project}
    /\ draft' = NoDraft
    /\ failed' = TRUE
    /\ UNCHANGED <<manifest, registry, minted, gone, loaded, options, holder, synced, bounds>>

\* The last step of _apply: only the token the file now holds stays known.
ConfirmToken(r) ==
    /\ phase[r] = "confirm"
    /\ Commit(IF loaded[r].projects[draft.project].mode = "gateway"
              THEN [registry EXCEPT ![draft.project].hashes = <<draft.token>>]
              ELSE registry)
    /\ phase' = [phase EXCEPT ![r] = "projects"]
    /\ todo' = todo \ {draft.project}
    /\ draft' = NoDraft
    /\ UNCHANGED <<manifest, files, minted, gone, loaded, options, holder, failed, synced, bounds>>

\* Mutant: a project that became direct does not count as a leaver.
LeaversUnlisted(m) ==
    {p \in Projects : Managed(p) /\ p \notin DOMAIN m.projects}

\* Consumers of projects that left the manifest lose their machines, or go.
Leavers(m) ==
    {p \in Projects : Managed(p) /\ Granted(m, p) = {}}

Withdraw(r) ==
    /\ phase[r] = "projects"
    /\ todo = {}
    /\ LET left == Leavers(loaded[r])
       IN  /\ Commit([p \in Projects |->
                  IF p \notin left THEN registry[p]
                  ELSE IF options[r].prune THEN NoConsumer
                  ELSE [registry[p] EXCEPT !.machines = {}]])
           /\ gone' = IF options[r].prune /\ ~options[r].dry
                      THEN gone \union UNION {SetOf(registry[p].hashes) : p \in left}
                      ELSE gone
    /\ phase' = [phase EXCEPT ![r] = "finished"]
    /\ holder' = Nobody
    /\ synced' = (synced \/ (loaded[r] = manifest /\ ~failed /\ ~options[r].dry))
    /\ UNCHANGED <<manifest, files, minted, loaded, options, todo, draft, failed, bounds>>

\* Killed, or a save of the registry raised: what was saved stays.
Die(r) ==
    /\ holder = r
    /\ phase' = [phase EXCEPT ![r] = "dead"]
    /\ holder' = Nobody
    /\ todo' = {}
    /\ draft' = NoDraft
    /\ synced' = FALSE
    /\ UNCHANGED <<manifest, registry, files, minted, gone, loaded, options, failed,
                   bounds>>

RunStep(r) ==
    \/ LoadManifest(r)
    \/ Lock(r)
    \/ \E p \in Projects : FailProject(r, p) \/ PlanProject(r, p)
    \/ WriteConfig(r)
    \/ \E landed \in BOOLEAN : FailWrite(r, landed)
    \/ ConfirmToken(r)
    \/ Withdraw(r)
    \/ Die(r)

Next ==
    \/ \E m \in Manifests : EditManifest(m)
    \/ \E p \in Projects : DeleteConfig(p) \/ Revoke(p) \/ AddByHand(p)
    \/ \E r \in Runs : RunStep(r)

Spec == Init /\ [][Next]_vars

----------------------------------------------------------------------------
(* Properties.                                                             *)

Entries == [url : Urls \union {"none", "keystore"}, token : 0..minted]

Texts == [Names -> Entries]

Consumers == [machines : SUBSET Machines, kind : {"none", "managed", "hand"}, hashes : Seq(1..minted)]

\* The shapes; nothing carries a token that was never minted, and a consumer never piles up more
\* than two token hashes.
TypeOK ==
    /\ manifest \in Manifests
    /\ registry \in [Projects -> Consumers]
    /\ \A p \in Projects : Len(registry[p].hashes) <= 2
    /\ files \in [Projects -> Texts]
    /\ minted \in Nat
    /\ gone \subseteq 1..minted
    /\ loaded \in [Runs -> Manifests]
    /\ options \in [Runs -> [dry : BOOLEAN, prune : BOOLEAN]]
    /\ phase \in [Runs -> {"unstarted", "loaded", "projects", "write", "confirm",
                           "finished", "dead"}]
    /\ holder \in Runs \union {Nobody}
    /\ todo \subseteq Projects
    /\ draft \in [token : 0..minted, project : Projects \union {Nobody}, text : Texts, changes : BOOLEAN]
    /\ failed \in BOOLEAN /\ synced \in BOOLEAN
    /\ manifestEdits \in Nat /\ ownerActs \in Nat

\* No file ever carries a token its project's consumer does not have, unless
\* the owner revoked or pruned it: not after a write that landed and reported
\* failure, not after a death between any two steps, not after a url change.
FileTokenKnown ==
    \A p \in Projects, n \in Names :
        LET t == files[p][n].token
        IN  t # 0 => t \in SetOf(registry[p].hashes) \union gone

\* A project keeps its token, so its sessions need no restart: an entry gets
\* another token only with another url, or when the owner took the token away.
TokenStable ==
    [][\A p \in Projects, n \in Names :
          LET e == files[p][n]
              f == files'[p][n]
          IN  /\ e.token # f.token
              /\ 0 \notin {e.token, f.token}
              => e.url # f.url \/ e.token \in gone]_vars

\* A run that comes to its end leaves no consumer of its own broader than the
\* manifest it read, whatever failed, and if nothing failed every project has
\* exactly the machines of that manifest and a single token.
RunInstallsManifest ==
    [][\A r \in Runs :
          phase[r] # "finished" /\ phase'[r] = "finished" /\ ~options[r].dry
          => \A p \in Projects :
                LET c == registry'[p]
                    granted == Granted(loaded[r], p)
                IN  /\ c.kind = "managed" => c.machines \subseteq granted
                    /\ ~failed /\ granted # {}
                       => c.kind = "managed" /\ c.machines = granted /\ Len(c.hashes) = 1]_vars

\* "an allow-list EXACTLY equal to the manifest's machines", whenever a run of
\* the manifest as it stands has succeeded and no run is going on.
AllowListsExact ==
    synced /\ holder = Nobody
        => \A p \in Projects : Managed(p) => registry[p].machines = Granted(manifest, p)

=============================================================================
