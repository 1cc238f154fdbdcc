------------------------- MODULE SyncConfigsProofs -------------------------
(* Proofs about SyncConfigs: no file carries an unknown token, a project    *)
(* keeps its token, and a run installs the manifest it read.                *)
EXTENDS SyncConfigs, FiniteSetTheorems, FunctionTheorems, TLAPS

Tokens(p) == SetOf(registry[p].hashes)

\* The project's registry entry and its file agree: every token of the text is known or was taken away,
\* at most one of those it holds is known, and only gateway entries carry tokens.
TextKnown(p, text) == \A n \in Names : text[n].token # 0 => text[n].token \in Tokens(p) \union gone
TextSingle(p, text) ==
    \A n, k \in Names : {text[n].token, text[k].token} \subseteq Tokens(p) => text[n].token = text[k].token
TextGateway(text) == \A n \in Names : text[n].token # 0 => text[n].url \in Urls
TextSound(p, text) == TextKnown(p, text) /\ TextSingle(p, text) /\ TextGateway(text)

\* Only the holder of the lock is at work, and only managed consumers have hashes.
HolderInv == \A r \in Runs : phase[r] \in {"projects", "write", "confirm"} <=> holder = r
HashesInv == \A p \in Projects : registry[p].kind # "managed" => registry[p].hashes = <<>>
FilesInv == \A p \in Projects : TextSound(p, files[p])

\* Of the project being written: it has its consumer already, the text holds no other known token, and
\* keeps every token of the file that is not taken away.
Mode(r) == loaded[r].projects[draft.project].mode
OnlyDraft(text) == \A n \in Names : text[n].token \in {0, draft.token} \union gone
Keeps(old, text) ==
    \A n \in Names :
        old[n].token # text[n].token /\ 0 \notin {old[n].token, text[n].token}
        => old[n].url # text[n].url \/ old[n].token \in gone
DraftSound(r) ==
    /\ draft.project \in todo /\ ~options[r].dry
    /\ phase[r] = "write" => TextSound(draft.project, draft.text) /\ Keeps(files[draft.project], draft.text)
    /\ Mode(r) = "gateway" =>
          /\ draft.token \in Tokens(draft.project)
          /\ registry[draft.project].kind = "managed"
          /\ registry[draft.project].machines = loaded[r].projects[draft.project].machines
          /\ OnlyDraft(IF phase[r] = "write" THEN draft.text ELSE files[draft.project])
DraftInv == \A r \in Runs : phase[r] \in {"write", "confirm"} => DraftSound(r)

\* What a run has done so far of its manifest.
Installed(p, granted) ==
    /\ Managed(p) => registry[p].machines \subseteq granted
    /\ ~failed => Managed(p) /\ registry[p].machines = granted /\ Len(registry[p].hashes) = 1
DoneSound(r) ==
    /\ todo \subseteq DOMAIN loaded[r].projects
    /\ ~options[r].dry => \A p \in DOMAIN loaded[r].projects \ todo :
          Granted(loaded[r], p) # {} => Installed(p, Granted(loaded[r], p))
DoneInv == \A r \in Runs : holder = r => DoneSound(r)

SyncInv == TypeOK /\ HolderInv /\ HashesInv /\ FilesInv /\ DraftInv /\ DoneInv

-----------------------------------------------------------------------------
(* What the operators return.                                               *)

LEMMA ManifestTyped ==
  ASSUME NEW m \in Manifests, NEW p \in DOMAIN m.projects
  PROVE  /\ p \in Projects /\ m.url \in Urls /\ m.projects[p].mode \in Modes
         /\ m.projects[p].machines \subseteq Machines /\ m.projects[p].machines # {}
BY ManifestAssumption DEF Modes

LEMMA UrlsApart == Urls \cap {"none", "keystore"} = {} /\ Nobody \notin Runs \union Projects
BY ManifestAssumption DEF Nobody

\* An entry of plan_project is the gateway's with the project's token, or a direct one without.
LEMMA DesiredTyped ==
  ASSUME NEW m \in Manifests, NEW p \in DOMAIN m.projects, NEW token
  PROVE  /\ DOMAIN Desired(m, p, token) \subseteq Names
         /\ \A n \in DOMAIN Desired(m, p, token) :
               Desired(m, p, token)[n] = IF m.projects[p].mode = "gateway" THEN [url |-> m.url, token |-> token]
                                                                          ELSE DirectEntry
BY ManifestTyped DEF Desired, Names

LEMMA SeqMonotone == ASSUME NEW S, NEW T, S \subseteq T PROVE Seq(S) \subseteq Seq(T)
OBVIOUS

\* Whatever the file of a project holds, each of its names gets the new entry, none, or what it had.
LEMMA NewEntriesTyped ==
  ASSUME TypeOK, NEW m \in Manifests, NEW p \in DOMAIN m.projects, NEW token \in Nat, NEW k \in Nat,
         minted <= k, token <= k
  PROVE  NewEntries(m, p, token) \in [Names -> [url : Urls \union {"none", "keystore"}, token : 0..k]]
<1>1. p \in Projects /\ m.url \in Urls
  BY ManifestTyped
<1>2. \A n \in Names : files[p][n] \in Entries
  BY <1>1 DEF TypeOK, Texts
<1>3. \A n \in DOMAIN Desired(m, p, token) :
         Desired(m, p, token)[n] \in [url : Urls \union {"none", "keystore"}, token : 0..k]
  BY <1>1, DesiredTyped DEF DirectEntry
<1>4. NoEntry \in [url : Urls \union {"none", "keystore"}, token : 0..k]
  BY DEF NoEntry
<1>5. \A n \in Names : files[p][n] \in [url : Urls \union {"none", "keystore"}, token : 0..k]
  BY <1>2 DEF Entries, TypeOK
<1>6. \A n \in Names : NewEntries(m, p, token)[n] \in [url : Urls \union {"none", "keystore"}, token : 0..k]
  BY <1>3, <1>4, <1>5 DEF NewEntries
<1> QED
  BY <1>6 DEF NewEntries

\* The token is known afterwards, no other becomes known, and there are never more than two.
LEMMA WithTokenTyped ==
  ASSUME TypeOK, NEW p \in Projects, NEW t \in Nat, NEW k \in Nat, minted <= k, t \in 1..k
  PROVE  /\ WithToken(p, t) \in Seq(1..k) /\ Len(WithToken(p, t)) <= 2
         /\ t \in SetOf(WithToken(p, t))
         /\ SetOf(WithToken(p, t)) \subseteq Tokens(p) \union {t}
<1> DEFINE hashes == registry[p].hashes
           held == {i \in DOMAIN hashes : hashes[i] \in Held(p)}
           kept == IF held = {} THEN 1 ELSE CHOOSE i \in held : \A j \in held : i <= j
<1>1. hashes \in Seq(1..k) /\ Len(hashes) <= 2
  <2>1. hashes \in Seq(1..minted) /\ Len(hashes) <= 2
    BY DEF TypeOK, Consumers
  <2> QED
    BY <2>1 DEF TypeOK
<1>2. held # {} => kept \in held
  <2>1. DOMAIN hashes \subseteq {1, 2}
    BY <1>1
  <2>2. held # {} => \E i \in held : \A j \in held : i <= j
    BY <2>1
  <2> QED
    BY <2>2
<1>3. hashes # <<>> => kept \in DOMAIN hashes
  BY <1>1, <1>2
<1> HIDE DEF held, kept
<1>4. CASE t \in SetOf(hashes)
  BY <1>1, <1>4 DEF WithToken, Tokens, SetOf
<1>5. CASE t \notin SetOf(hashes) /\ hashes = <<>>
  BY <1>5 DEF WithToken, Tokens, SetOf
<1>6. CASE t \notin SetOf(hashes) /\ hashes # <<>>
  <2>1. WithToken(p, t) = <<hashes[kept], t>>
    BY <1>6 DEF WithToken, held, kept
  <2> HIDE DEF hashes
  <2>2. hashes[kept] \in 1..k /\ hashes[kept] \in SetOf(hashes)
    BY <1>1, <1>3, <1>6 DEF SetOf
  <2> QED
    BY <2>1, <2>2 DEF Tokens, SetOf, hashes
<1> QED
  BY <1>4, <1>5, <1>6

-----------------------------------------------------------------------------
(* The beginning.                                                           *)

LEMMA FirstTokensTyped == FirstTokens \in [Projects -> 1..Cardinality(Projects)] /\ Cardinality(Projects) \in Nat
<1>1. IsFiniteSet(Projects)
  BY ManifestAssumption
<1>2. Cardinality(Projects) \in Nat /\ ExistsBijection(1..Cardinality(Projects), Projects)
  BY <1>1, FS_CardinalityType
<1>3. PICK f : f \in Bijection(Projects, 1..Cardinality(Projects))
  <2>1. ExistsBijection(Projects, 1..Cardinality(Projects))
    BY <1>2, Fun_ExistsBijSymmetric
  <2> QED
    BY <2>1 DEF ExistsBijection
<1>4. f \in [Projects -> 1..Cardinality(Projects)] /\ \A x, y \in Projects : f[x] = f[y] => x = y
  BY <1>3 DEF Bijection, Injection, IsInjective
<1> QED
  BY <1>2, <1>4 DEF FirstTokens

LEMMA SyncInit == Init => SyncInv
<1> SUFFICES ASSUME Init PROVE SyncInv
  OBVIOUS
<1>0. manifest \in Manifests /\ manifest.url \in Urls
  BY ManifestAssumption DEF Init
<1> USE DEF Init
<1>1. \A p \in Projects : FirstTokens[p] \in 1..minted /\ minted \in Nat
  BY FirstTokensTyped
<1>2. \A p \in Projects : Granted(manifest, p) # {} =>
        p \in DOMAIN manifest.projects /\ Granted(manifest, p) \subseteq Machines
  BY ManifestTyped DEF Granted
<1>3. \A p \in Projects : registry[p] \in Consumers /\ Len(registry[p].hashes) <= 2
  BY <1>1, <1>2 DEF Consumers, NoConsumer
<1>4. \A p \in Projects : Granted(manifest, p) # {} => Tokens(p) = {FirstTokens[p]}
  BY DEF Tokens, SetOf
<1>5. ASSUME NEW p \in Projects, p \in DOMAIN manifest.projects, NEW n \in Names
      PROVE  \/ files[p][n] = NoEntry
             \/ files[p][n] = DirectEntry
             \/ files[p][n] = [url |-> manifest.url, token |-> FirstTokens[p]] /\ Granted(manifest, p) # {}
  <2>1. files[p][n] = IF n \in DOMAIN Desired(manifest, p, FirstTokens[p])
                      THEN Desired(manifest, p, FirstTokens[p])[n] ELSE NoEntry
    BY <1>5 DEF Filled
  <2>2. manifest.projects[p].mode = "gateway" => Granted(manifest, p) # {}
    BY <1>5, ManifestTyped DEF Granted
  <2> QED
    BY <1>5, <2>1, <2>2, DesiredTyped
<1>6. \A p \in Projects : p \notin DOMAIN manifest.projects => files[p] = NoFile
  OBVIOUS
<1>7. \A p \in Projects : files[p] \in [Names -> [url : Urls \union {"none", "keystore"}, token : 0..minted]]
  <2> SUFFICES ASSUME NEW p \in Projects
               PROVE  files[p] \in [Names -> [url : Urls \union {"none", "keystore"}, token : 0..minted]]
    OBVIOUS
  <2>1. ASSUME NEW n \in Names
        PROVE  files[p][n] \in [url : Urls \union {"none", "keystore"}, token : 0..minted]
    <3>1. files[p][n] \in {NoEntry, DirectEntry, [url |-> manifest.url, token |-> FirstTokens[p]]}
      BY <1>5, <1>6 DEF NoFile
    <3> HIDE DEF Init
    <3>2. 0 \in 0..minted /\ FirstTokens[p] \in 0..minted
      BY <1>1
    <3> QED
      BY <1>0, <3>1, <3>2 DEF NoEntry, DirectEntry
  <2>2. files[p] = [n \in Names |-> files[p][n]]
    BY DEF Filled, NoFile
  <2> QED
    BY <2>1, <2>2
<1>8. TypeOK
  <2>1. NoFile \in Texts
    BY <1>1, FirstTokensTyped DEF NoFile, NoEntry, Texts, Entries
  <2>2. draft \in [token : 0..minted, project : Projects \union {Nobody}, text : Texts, changes : BOOLEAN]
    BY <2>1, FirstTokensTyped DEF NoDraft
  <2>3. files \in [Projects -> Texts]
    BY <1>7 DEF Texts, Entries
  <2>4. QED
    <3>1. minted \in Nat /\ gone = {} /\ todo = {} /\ holder = Nobody
      BY FirstTokensTyped
    <3>2. loaded \in [Runs -> Manifests] /\ options \in [Runs -> [dry : BOOLEAN, prune : BOOLEAN]]
      BY <1>0
    <3>3. registry \in [Projects -> Consumers] /\ \A p \in Projects : Len(registry[p].hashes) <= 2
      BY <1>3
    <3>4. phase \in [Runs -> {"unstarted", "loaded", "projects", "write", "confirm", "finished", "dead"}]
      OBVIOUS
    <3>5. failed = FALSE /\ synced = FALSE /\ manifestEdits = 0 /\ ownerActs = 0
      OBVIOUS
    <3> HIDE DEF Init
    <3> QED
      BY <1>0, <2>2, <2>3, <3>1, <3>2, <3>3, <3>4, <3>5 DEF TypeOK
<1> HIDE DEF Init
<1>9. FilesInv
  <2> SUFFICES ASSUME NEW p \in Projects PROVE TextSound(p, files[p])
    BY DEF FilesInv
  <2>1. ASSUME NEW n \in Names, files[p][n].token # 0
        PROVE  /\ files[p][n].url \in Urls /\ Granted(manifest, p) # {}
               /\ files[p][n].token = FirstTokens[p]
    <3>1. p \in DOMAIN manifest.projects
      BY <1>6, <2>1 DEF NoFile, NoEntry
    <3>2. \/ files[p][n] \in {NoEntry, DirectEntry}
          \/ files[p][n] = [url |-> manifest.url, token |-> FirstTokens[p]] /\ Granted(manifest, p) # {}
      BY <1>5, <3>1
    <3> QED
      BY <1>0, <2>1, <3>2 DEF NoEntry, DirectEntry
  <2>2. registry[p].hashes \in Seq(1..minted)
    BY <1>3 DEF Consumers
  <2>3. 0 \notin Tokens(p)
    BY <1>8, <2>2 DEF Tokens, SetOf, TypeOK
  <2> QED
    BY <2>1, <2>3, <1>4 DEF TextSound, TextKnown, TextSingle, TextGateway
<1>10. HolderInv /\ HashesInv /\ DraftInv /\ DoneInv
  BY UrlsApart DEF Init, HolderInv, HashesInv, DraftInv, DoneInv, NoConsumer
<1> QED
  BY <1>8, <1>9, <1>10 DEF SyncInv

-----------------------------------------------------------------------------
(* The owner's steps.                                                       *)

LEMMA RegistryTyped ==
  ASSUME TypeOK, NEW p \in Projects
  PROVE  /\ registry[p] \in Consumers /\ registry[p].hashes \in Seq(1..minted)
         /\ registry[p].machines \subseteq Machines /\ registry[p].kind \in {"none", "managed", "hand"}
         /\ Tokens(p) \subseteq 1..minted
<1>1. registry[p] \in Consumers
  BY DEF TypeOK
<1>2. registry[p].hashes \in Seq(1..minted)
  BY <1>1 DEF Consumers
<1>3. Tokens(p) \subseteq 1..minted
  <2> DEFINE minting == 1..minted
  <2>1. registry[p].hashes \in Seq(minting)
    BY <1>2
  <2> HIDE DEF minting
  <2>2. \A i \in DOMAIN registry[p].hashes : registry[p].hashes[i] \in minting
    BY <2>1
  <2> QED
    BY <2>2 DEF Tokens, SetOf, minting
<1> QED
  BY <1>1, <1>2, <1>3 DEF Consumers

\* What a step leaves alone keeps its invariant.
LEMMA Undisturbed ==
  ASSUME SyncInv
  PROVE  /\ UNCHANGED <<phase, holder>> => HolderInv'
         /\ UNCHANGED registry => HashesInv'
         /\ UNCHANGED <<registry, files, gone>> => FilesInv'
         /\ UNCHANGED <<registry, files, gone, loaded, options, phase, todo, draft>> => DraftInv'
         /\ UNCHANGED <<registry, loaded, options, holder, todo, failed>> => DoneInv'
<1>1. HolderInv /\ HashesInv /\ FilesInv /\ DraftInv /\ DoneInv
  BY DEF SyncInv
<1>2. UNCHANGED <<registry, files, gone>> => FilesInv'
  BY <1>1 DEF FilesInv, TextSound, TextKnown, TextSingle, TextGateway, Tokens
<1>3. UNCHANGED <<registry, files, gone, loaded, options, phase, todo, draft>> => DraftInv'
  BY <1>1 DEF DraftInv, DraftSound, Mode, OnlyDraft, Keeps, TextSound, TextKnown, TextSingle, TextGateway, Tokens
<1>4. UNCHANGED <<registry, loaded, options, holder, todo, failed>> => DoneInv'
  BY <1>1 DEF DoneInv, DoneSound, Installed, Managed
<1> QED
  BY <1>1, <1>2, <1>3, <1>4 DEF HolderInv, HashesInv

LEMMA EditManifestStep == ASSUME SyncInv, NEW m \in Manifests, EditManifest(m) PROVE SyncInv'
<1> USE DEF EditManifest, run
<1>1. TypeOK
  BY DEF SyncInv
<1>2. TypeOK'
  <2>1. manifest' \in Manifests /\ manifestEdits' \in Nat
    BY <1>1 DEF TypeOK
  <2>2. (registry \in [Projects -> Consumers])' /\ (files \in [Projects -> Texts])'
    BY <1>1 DEF TypeOK, Texts, Entries, Consumers
  <2>3. (draft \in [token : 0..minted, project : Projects \union {Nobody}, text : Texts, changes : BOOLEAN])'
    BY <1>1 DEF TypeOK, Texts, Entries
  <2>4. (failed \in BOOLEAN /\ synced \in BOOLEAN)'
    BY <1>1 DEF TypeOK
  <2> QED
    BY <1>1, <2>1, <2>2, <2>3, <2>4 DEF TypeOK
<1> QED
  BY <1>2, Undisturbed DEF SyncInv

LEMMA DeleteConfigStep == ASSUME SyncInv, NEW p \in Projects, DeleteConfig(p) PROVE SyncInv'
<1> USE DEF DeleteConfig, OwnerAct, run
<1>1. TypeOK /\ HolderInv /\ HashesInv /\ FilesInv /\ DraftInv /\ DoneInv
  BY DEF SyncInv
<1>2. NoFile \in Texts
  BY <1>1 DEF NoFile, NoEntry, Texts, Entries, TypeOK
<1>3. TypeOK'
  BY <1>1, <1>2 DEF TypeOK, Texts, Entries, Consumers
<1>4. HolderInv' /\ HashesInv' /\ DoneInv'
  BY Undisturbed
<1>5. \A x \in Projects : files'[x] = files[x] \/ \A n \in Names : files'[x][n].token = 0
  BY <1>1 DEF TypeOK, NoFile, NoEntry
<1>6. FilesInv'
  <2>1. \A x \in Projects : 0 \notin Tokens(x)
    BY <1>1, RegistryTyped
  <2> QED
    BY <1>1, <1>5, <2>1 DEF FilesInv, TextSound, TextKnown, TextSingle, TextGateway, Tokens
<1>7. DraftInv'
  <2> SUFFICES ASSUME NEW r \in Runs, phase'[r] \in {"write", "confirm"} PROVE DraftSound(r)'
    BY DEF DraftInv
  <2>1. DraftSound(r) /\ draft.project \in Projects
    BY <1>1 DEF DraftInv, DraftSound, TypeOK
  <2>2. phase[r] = "write" => Keeps(files[draft.project], draft.text)'
    BY <1>5, <2>1 DEF DraftSound, Keeps
  <2>3. phase[r] = "write" => TextSound(draft.project, draft.text)'
    BY <2>1 DEF DraftSound, TextSound, TextKnown, TextSingle, TextGateway, Tokens
  <2>4. Mode(r) = "gateway" => OnlyDraft(IF phase[r] = "write" THEN draft.text ELSE files[draft.project])'
    BY <1>5, <2>1 DEF DraftSound, OnlyDraft
  <2> QED
    BY <2>1, <2>2, <2>3, <2>4 DEF DraftSound, Mode, Tokens
<1> QED
  BY <1>3, <1>4, <1>6, <1>7 DEF SyncInv

\* Who is at work holds the lock, and a managed or free name says what its hashes are.
LEMMA AtWork ==
  ASSUME SyncInv
  PROVE  /\ holder = Nobody => \A r \in Runs : phase[r] \notin {"projects", "write", "confirm"}
         /\ \A r, x \in Runs : phase[r] \in {"projects", "write", "confirm"} =>
               holder = r /\ (x # r => phase[x] \notin {"projects", "write", "confirm"})
BY UrlsApart DEF SyncInv, HolderInv

LEMMA RevokeStep == ASSUME SyncInv, NEW p \in Projects, Revoke(p) PROVE SyncInv'
<1> USE DEF Revoke, OwnerAct, run
<1>1. TypeOK /\ HolderInv /\ HashesInv /\ FilesInv /\ DraftInv /\ DoneInv
  BY DEF SyncInv
<1>2. registry' \in [Projects -> Consumers] /\ Tokens(p)' = {} /\ registry'[p].hashes = <<>>
  BY <1>1 DEF TypeOK, Consumers, NoConsumer, Tokens, SetOf
<1>3. gone' = gone \union Tokens(p) /\ Tokens(p) \subseteq 1..minted
  BY <1>1, RegistryTyped DEF Tokens
<1>4. \A x \in Projects : x # p => registry'[x] = registry[x] /\ Tokens(x)' = Tokens(x)
  BY <1>1 DEF TypeOK, Tokens
<1>5. TypeOK'
  <2>1. \A x \in Projects : Len(registry'[x].hashes) <= 2
    BY <1>1, <1>2, <1>4 DEF TypeOK
  <2>2. gone' \subseteq 1..minted
    <3>1. gone \subseteq 1..minted
      BY <1>1 DEF TypeOK
    <3> HIDE DEF Revoke
    <3> QED
      BY <1>3, <3>1
  <2>3. (failed \in BOOLEAN /\ synced \in BOOLEAN)'
    BY <1>1 DEF TypeOK
  <2>4. ownerActs' \in Nat
    BY <1>1 DEF TypeOK
  <2> QED
    BY <1>1, <1>2, <2>1, <2>2, <2>3, <2>4 DEF TypeOK, Texts, Entries, Consumers
<1>6. HolderInv' /\ HashesInv'
  BY <1>1, <1>2, <1>4 DEF HolderInv, HashesInv
<1>7. FilesInv'
  <2>1. \A x \in Projects : Tokens(x) \union gone \subseteq Tokens(x)' \union gone'
    BY <1>3, <1>4
  <2>2. \A x \in Projects : Tokens(x)' \subseteq Tokens(x)
    BY <1>2, <1>4
  <2> QED
    BY <1>1, <2>1, <2>2 DEF FilesInv, TextSound, TextKnown, TextSingle, TextGateway
<1>8. DraftInv' /\ DoneInv'
  BY AtWork, UrlsApart DEF DraftInv, DoneInv
<1> QED
  BY <1>5, <1>6, <1>7, <1>8 DEF SyncInv

LEMMA AddByHandStep == ASSUME SyncInv, NEW p \in Projects, AddByHand(p) PROVE SyncInv'
<1> USE DEF AddByHand, OwnerAct, run
<1>1. TypeOK /\ HolderInv /\ HashesInv /\ FilesInv /\ DraftInv /\ DoneInv
  BY DEF SyncInv
<1>2. registry' \in [Projects -> Consumers]
  <2>1. [registry[p] EXCEPT !.kind = "hand"] \in Consumers
    <3> HIDE DEF AddByHand
    <3> QED
      BY <1>1, RegistryTyped DEF Consumers
  <2> QED
    BY <1>1, <2>1 DEF TypeOK
<1>3. \A x \in Projects : registry'[x].hashes = registry[x].hashes /\ Tokens(x)' = Tokens(x)
  BY <1>1 DEF TypeOK, Consumers, Tokens
<1>4. TypeOK'
  <2>1. \A x \in Projects : Len(registry'[x].hashes) <= 2
    BY <1>1, <1>3 DEF TypeOK
  <2>2. (failed \in BOOLEAN /\ synced \in BOOLEAN)'
    BY <1>1 DEF TypeOK
  <2>3. ownerActs' \in Nat
    BY <1>1 DEF TypeOK
  <2> QED
    BY <1>1, <1>2, <2>1, <2>2, <2>3 DEF TypeOK, Texts, Entries, Consumers
<1>5. HolderInv' /\ HashesInv'
  <2>1. HashesInv'
    BY <1>1, <1>3 DEF HashesInv, TypeOK, Consumers
  <2> QED
    BY <1>1, <2>1 DEF HolderInv
<1>6. FilesInv'
  BY <1>1, <1>3 DEF FilesInv, TextSound, TextKnown, TextSingle, TextGateway
<1>7. DraftInv' /\ DoneInv'
  BY AtWork, UrlsApart DEF DraftInv, DoneInv
<1> QED
  BY <1>4, <1>5, <1>6, <1>7 DEF SyncInv

-----------------------------------------------------------------------------
(* The steps of a run.                                                      *)

LEMMA LoadManifestStep == ASSUME SyncInv, NEW r \in Runs, LoadManifest(r) PROVE SyncInv'
<1> USE DEF LoadManifest, run, bounds
<1>1. TypeOK /\ HolderInv /\ HashesInv /\ FilesInv /\ DraftInv /\ DoneInv
  BY DEF SyncInv
<1>2. holder # r /\ HolderInv'
  BY <1>1 DEF HolderInv, TypeOK
<1>3. TypeOK'
  <2>1. (failed \in BOOLEAN /\ synced \in BOOLEAN)'
    BY <1>1 DEF TypeOK
  <2>2. phase' \in [Runs -> {"unstarted", "loaded", "projects", "write", "confirm", "finished", "dead"}]
    BY <1>1 DEF TypeOK
  <2>3. loaded' \in [Runs -> Manifests]
    BY <1>1 DEF TypeOK
  <2> QED
    BY <1>1, <2>1, <2>2, <2>3 DEF TypeOK, Texts, Entries, Consumers
<1>4. HashesInv' /\ FilesInv'
  BY Undisturbed
<1>5. \A x \in Runs : x # r => phase'[x] = phase[x] /\ loaded'[x] = loaded[x]
  BY <1>1 DEF TypeOK
<1>6. DraftInv'
  <2> SUFFICES ASSUME NEW x \in Runs, phase'[x] \in {"write", "confirm"} PROVE DraftSound(x)'
    BY DEF DraftInv
  <2>1. x # r /\ DraftSound(x)
    BY <1>1, <1>5 DEF DraftInv, TypeOK
  <2> QED
    BY <2>1, <1>5 DEF DraftSound, Mode, OnlyDraft, Keeps, TextSound, TextKnown, TextSingle, TextGateway, Tokens
<1>7. DoneInv'
  BY <1>1, <1>2, <1>5 DEF DoneInv, DoneSound, Installed, Managed
<1> QED
  BY <1>2, <1>3, <1>4, <1>6, <1>7 DEF SyncInv

LEMMA LockStep == ASSUME SyncInv, NEW r \in Runs, Lock(r) PROVE SyncInv'
<1> USE DEF Lock, bounds
<1>1. TypeOK /\ HolderInv /\ HashesInv /\ FilesInv /\ DraftInv /\ DoneInv
  BY DEF SyncInv
<1>2. loaded[r] \in Manifests /\ \A x \in Runs : x # r => phase'[x] = phase[x]
  BY <1>1 DEF TypeOK
<1>3. phase'[r] = "projects" /\ HolderInv'
  BY <1>1, <1>2, AtWork, UrlsApart DEF HolderInv, TypeOK
<1>4. TypeOK'
  <2>1. failed' \in BOOLEAN /\ synced' \in BOOLEAN
    BY <1>1 DEF TypeOK
  <2>2. todo' \subseteq Projects /\ holder' \in Runs
    BY <1>2, ManifestTyped
  <2>3. phase' \in [Runs -> {"unstarted", "loaded", "projects", "write", "confirm", "finished", "dead"}]
    BY <1>1 DEF TypeOK
  <2> QED
    BY <1>1, <2>1, <2>2, <2>3 DEF TypeOK, Texts, Entries, Consumers
<1>5. HashesInv' /\ FilesInv'
  BY Undisturbed
<1>6. DraftInv'
  BY <1>2, <1>3, AtWork DEF DraftInv
<1>7. DoneInv'
  BY DEF DoneInv, DoneSound
<1> QED
  BY <1>3, <1>4, <1>5, <1>6, <1>7 DEF SyncInv

LEMMA FailProjectStep == ASSUME SyncInv, NEW r \in Runs, NEW p \in Projects, FailProject(r, p) PROVE SyncInv'
<1> USE DEF FailProject, bounds
<1>1. TypeOK /\ HolderInv /\ HashesInv /\ FilesInv /\ DraftInv /\ DoneInv
  BY DEF SyncInv
<1>2. holder = r /\ loaded[r] \in Manifests /\ p \in DOMAIN loaded[r].projects /\ DoneSound(r)
  BY <1>1, AtWork DEF DoneInv, DoneSound, TypeOK
<1>3. \/ registry' = registry /\ (options[r].dry \/ ~Managed(p))
      \/ registry' = [registry EXCEPT ![p].machines = @ \cap loaded[r].projects[p].machines]
  BY <1>2 DEF Commit
<1>4. /\ registry' \in [Projects -> Consumers]
      /\ \A x \in Projects : /\ registry'[x].hashes = registry[x].hashes /\ registry'[x].kind = registry[x].kind
                             /\ registry'[x].machines \subseteq registry[x].machines
  <2>1. CASE registry' = registry
    BY <1>1, <2>1 DEF TypeOK
  <2>2. CASE registry' = [registry EXCEPT ![p].machines = @ \cap loaded[r].projects[p].machines]
    <3>1. [registry[p] EXCEPT !.machines = @ \cap loaded[r].projects[p].machines] \in Consumers
      <4> HIDE DEF FailProject
      <4> QED
        BY <1>1, RegistryTyped DEF Consumers
    <3>2. registry' \in [Projects -> Consumers]
      BY <1>1, <2>2, <3>1 DEF TypeOK
    <3>3. registry[p] \in Consumers
      BY <1>1, RegistryTyped
    <3>4. \A x \in Projects : x # p => registry'[x] = registry[x]
      BY <1>1, <2>2 DEF TypeOK
    <3>5. registry'[p] = [registry[p] EXCEPT !.machines = @ \cap loaded[r].projects[p].machines]
      BY <1>1, <2>2 DEF TypeOK
    <3> HIDE DEF FailProject
    <3> QED
      BY <3>2, <3>3, <3>4, <3>5 DEF Consumers
  <2> QED
    BY <1>3, <2>1, <2>2
<1>5. \A x \in Projects : Tokens(x)' = Tokens(x)
  BY <1>4 DEF Tokens
<1>6. ~options[r].dry /\ Managed(p)' => registry'[p].machines \subseteq loaded[r].projects[p].machines
  BY <1>1, <1>3, <1>4 DEF TypeOK, Consumers, Managed
<1>7. TypeOK'
  <2>1. failed' \in BOOLEAN /\ synced' \in BOOLEAN
    BY <1>1 DEF TypeOK
  <2>2. \A x \in Projects : Len(registry'[x].hashes) <= 2
    BY <1>1, <1>4 DEF TypeOK
  <2>3. todo' \subseteq Projects
    BY <1>1 DEF TypeOK
  <2> QED
    BY <1>1, <1>4, <2>1, <2>2, <2>3 DEF TypeOK, Texts, Entries, Consumers
<1>8. HolderInv' /\ HashesInv' /\ FilesInv'
  BY <1>1, <1>4, <1>5 DEF HolderInv, HashesInv, FilesInv, TextSound, TextKnown, TextSingle, TextGateway
<1>9. DraftInv'
  BY AtWork DEF DraftInv
<1>10. DoneInv'
  <2> SUFFICES DoneSound(r)'
    BY <1>2 DEF DoneInv
  <2>1. ASSUME NEW x \in DOMAIN loaded[r].projects \ todo', Granted(loaded[r], x) # {}, ~options[r].dry
        PROVE  Managed(x)' => registry'[x].machines \subseteq Granted(loaded[r], x)
    <3>1. x \in Projects /\ (x = p => Granted(loaded[r], x) = loaded[r].projects[p].machines)
      BY <1>2, <2>1, ManifestTyped DEF Granted
    <3>2. x # p /\ Managed(x) => registry[x].machines \subseteq Granted(loaded[r], x)
      BY <1>2, <2>1 DEF DoneSound, Installed
    <3>3. Managed(x)' <=> Managed(x)
      BY <1>4, <3>1 DEF Managed
    <3>4. registry'[x].machines \subseteq registry[x].machines
      BY <1>4, <3>1
    <3>5. CASE x = p
      BY <1>6, <2>1, <3>1, <3>5
    <3>6. CASE x # p
      BY <3>2, <3>3, <3>4, <3>6
    <3> QED
      BY <3>5, <3>6
  <2> QED
    BY <1>2, <2>1 DEF DoneSound, Installed
<1> QED
  BY <1>7, <1>8, <1>9, <1>10 DEF SyncInv

\* The one previous hash that is kept is the one the file holds: no session loses its token.
LEMMA WithTokenKeeps ==
  ASSUME TypeOK, FilesInv, NEW p \in Projects, NEW t, NEW n \in Names, files[p][n].token \in Tokens(p)
  PROVE  files[p][n].token \in SetOf(WithToken(p, t))
<1> DEFINE hashes == registry[p].hashes
           held == {i \in DOMAIN hashes : hashes[i] \in Held(p)}
           kept == IF held = {} THEN 1 ELSE CHOOSE i \in held : \A j \in held : i <= j
<1>1. DOMAIN hashes \subseteq {1, 2} /\ hashes # <<>>
  <2>1. hashes \in Seq(1..minted) /\ Len(hashes) <= 2
    BY RegistryTyped DEF TypeOK
  <2>2. hashes # <<>>
    BY <2>1 DEF Tokens, SetOf
  <2> QED
    BY <2>1, <2>2
<1>2. held # {}
  BY DEF Tokens, SetOf, Held
<1>3. kept \in held
  BY <1>1, <1>2
<1>4. hashes[kept] \in Held(p) /\ hashes[kept] \in Tokens(p)
  BY <1>3 DEF Tokens, SetOf
<1> HIDE DEF held, kept
<1>5. hashes[kept] = files[p][n].token
  <2>1. PICK k \in Names : hashes[kept] = files[p][k].token
    BY <1>4 DEF Held
  <2> QED
    BY <1>4, <2>1 DEF FilesInv, TextSound, TextSingle
<1>6. CASE t \in SetOf(hashes)
  BY <1>6 DEF WithToken, Tokens
<1>7. CASE t \notin SetOf(hashes)
  <2>1. WithToken(p, t) = <<hashes[kept], t>>
    BY <1>1, <1>7 DEF WithToken, held, kept
  <2> QED
    BY <1>5, <2>1 DEF SetOf
<1> QED
  BY <1>6, <1>7

\* The token plan_project may choose: none for a direct project, else one of the file that is still
\* known, and a fresh one only when there is none.
Offered(r, p, token, fresh) ==
    IF loaded[r].projects[p].mode = "gateway"
    THEN IF fresh THEN token = minted + 1 /\ Reusable(loaded[r], p) = {}
                  ELSE token \in Reusable(loaded[r], p)
    ELSE token = 0 /\ fresh = FALSE

\* Where a name of the new text comes from.
LEMMA NewEntryFrom ==
  ASSUME SyncInv, NEW r \in Runs, NEW p \in DOMAIN loaded[r].projects, NEW token, NEW n \in Names
  PROVE  LET m == loaded[r] e == NewEntries(m, p, token)[n]
         IN  \/ m.projects[p].mode = "gateway" /\ e = [url |-> m.url, token |-> token]
             \/ e.token = 0
             \/ e = files[p][n] /\ (m.projects[p].mode = "gateway" => files[p][n].token \notin Tokens(p))
<1> DEFINE m == loaded[r]
           desired == Desired(m, p, token)
           old == files[p]
<1>1. TypeOK /\ HashesInv /\ FilesInv /\ m \in Manifests /\ p \in Projects
  BY ManifestTyped DEF SyncInv, TypeOK
<1>2. CASE n \in DOMAIN desired
  BY <1>1, <1>2, DesiredTyped DEF NewEntries, DirectEntry
<1>3. CASE n \notin DOMAIN desired /\ Owned(m, p, old[n])
  BY <1>3 DEF NewEntries, NoEntry
<1>4. CASE n \notin DOMAIN desired /\ ~Owned(m, p, old[n])
  <2>1. NewEntries(m, p, token)[n] = old[n]
    BY <1>4 DEF NewEntries
  <2>2. ASSUME m.projects[p].mode = "gateway", old[n].token \in Tokens(p)
        PROVE  FALSE
    <3>1. registry[p].hashes # <<>>
      BY <2>2 DEF Tokens, SetOf
    <3>2. Managed(p)
      BY <1>1, <3>1 DEF HashesInv, Managed
    <3>3. old[n].token # 0
      <4>1. old[n].token \in 1..minted /\ minted \in Nat
        BY <1>1, <2>2, RegistryTyped DEF TypeOK
      <4> QED
        BY <4>1
    <3>4. old[n].url \in Urls
      BY <1>1, <3>3 DEF FilesInv, TextSound, TextGateway
    <3> QED
      BY <1>4, <2>2, <3>2, <3>4 DEF Owned, Tokens
  <2> QED
    BY <2>1, <2>2
<1> QED
  BY <1>2, <1>3, <1>4

LEMMA OfferedTyped ==
  ASSUME SyncInv, NEW r \in Runs, NEW p \in DOMAIN loaded[r].projects, NEW token, NEW fresh \in BOOLEAN,
         Offered(r, p, token, fresh)
  PROVE  /\ token \in Nat /\ p \in Projects /\ loaded[r] \in Manifests
         /\ fresh => token = minted + 1 /\ loaded[r].projects[p].mode = "gateway"
         /\ ~fresh => token <= minted
         /\ loaded[r].projects[p].mode = "gateway" => token > 0 /\ (~fresh => token \in Tokens(p))
<1>1. TypeOK /\ loaded[r] \in Manifests /\ p \in Projects /\ minted \in Nat
  BY ManifestTyped DEF SyncInv, TypeOK
<1>2. \A t \in Reusable(loaded[r], p) : t \in Tokens(p)
  BY DEF Reusable, Tokens
<1>3. Tokens(p) \subseteq 1..minted
  BY <1>1, RegistryTyped
<1> QED
  BY <1>1, <1>2, <1>3 DEF Offered

\* The planned text: nothing of the project's own but the offered token, which replaces no other one
\* that is still good.
LEMMA PlannedText ==
  ASSUME SyncInv, NEW r \in Runs, NEW p \in DOMAIN loaded[r].projects, NEW token, NEW fresh \in BOOLEAN,
         Offered(r, p, token, fresh)
  PROVE  LET text == NewEntries(loaded[r], p, token)
         IN  /\ TextGateway(text) /\ Keeps(files[p], text)
             /\ \A n \in Names :
                   IF loaded[r].projects[p].mode = "gateway"
                   THEN text[n].token \in {0, token} \union (gone \ Tokens(p))
                   ELSE text[n].token # 0 => text[n] = files[p][n]
<1> DEFINE m == loaded[r]
           text == NewEntries(m, p, token)
           old == files[p]
<1>1. TypeOK /\ FilesInv /\ m \in Manifests /\ p \in Projects /\ m.url \in Urls
  BY ManifestTyped DEF SyncInv, TypeOK
<1>2. \A n \in Names : \/ m.projects[p].mode = "gateway" /\ text[n] = [url |-> m.url, token |-> token]
                       \/ text[n].token = 0
                       \/ text[n] = old[n] /\ (m.projects[p].mode = "gateway" => old[n].token \notin Tokens(p))
  BY NewEntryFrom
<1> HIDE DEF text
<1>3. TextGateway(old) /\ TextKnown(p, old) /\ TextSingle(p, old)
  BY <1>1 DEF FilesInv, TextSound
<1>4. TextGateway(text)
  BY <1>1, <1>2, <1>3 DEF TextGateway
<1>5. ASSUME NEW n \in Names
      PROVE  IF m.projects[p].mode = "gateway" THEN text[n].token \in {0, token} \union (gone \ Tokens(p))
                                               ELSE text[n].token # 0 => text[n] = old[n]
  BY <1>2, <1>3 DEF TextKnown
<1>6. Keeps(old, text)
  <2> SUFFICES ASSUME NEW n \in Names, old[n].token # text[n].token, old[n].token # 0, text[n].token # 0,
                      old[n].url = text[n].url, old[n].token \notin gone
               PROVE  FALSE
    BY DEF Keeps
  <2>1. m.projects[p].mode = "gateway" /\ text[n] = [url |-> m.url, token |-> token]
    BY <1>2
  <2>2. old[n].token \in Tokens(p)
    BY <1>3 DEF TextKnown
  <2>3. old[n] \in Entries
    BY <1>1 DEF TypeOK, Texts
  <2>4. old[n].token \in Reusable(m, p)
    <3>1. old[n] = [url |-> m.url, token |-> old[n].token]
      BY <2>1, <2>3 DEF Entries
    <3> QED
      BY <2>2, <3>1 DEF Reusable, Tokens
  <2>5. token \in Reusable(m, p)
    BY <2>1, <2>4 DEF Offered
  <2>6. PICK k \in Names : token = old[k].token
    BY <2>5 DEF Reusable
  <2>7. token \in Tokens(p)
    BY <2>5 DEF Reusable, Tokens
  <2>8. token = old[n].token
    BY <1>3, <2>2, <2>6, <2>7 DEF TextSingle
  <2> QED
    BY <2>1, <2>8
<1> QED
  BY <1>4, <1>5, <1>6 DEF text

\* Nothing to do, or a dry run: the project is done.
LEMMA KeepProjectStep ==
  ASSUME SyncInv, NEW r \in Runs, NEW p \in Projects, phase[r] = "projects", p \in todo, todo' = todo \ {p},
         ~options[r].dry /\ loaded[r].projects[p].mode = "gateway" =>
            registry[p].kind = "managed" /\ registry[p].machines = loaded[r].projects[p].machines
            /\ Len(registry[p].hashes) = 1,
         UNCHANGED <<manifest, registry, files, minted, gone, loaded, options, phase, holder, draft, failed,
                     synced, bounds>>
  PROVE  SyncInv'
<1> USE DEF bounds
<1>1. TypeOK /\ DoneInv
  BY DEF SyncInv
<1>2. holder = r /\ loaded[r] \in Manifests /\ p \in DOMAIN loaded[r].projects /\ DoneSound(r)
  BY <1>1, AtWork DEF DoneInv, DoneSound, TypeOK
<1>3. TypeOK'
  <2>1. failed' \in BOOLEAN /\ synced' \in BOOLEAN
    BY <1>1 DEF TypeOK
  <2>2. todo' \subseteq Projects
    BY <1>1 DEF TypeOK
  <2> QED
    BY <1>1, <2>1, <2>2 DEF TypeOK, Texts, Entries, Consumers
<1>4. HolderInv' /\ HashesInv' /\ FilesInv'
  BY Undisturbed
<1>5. DraftInv'
  BY AtWork DEF DraftInv
<1>6. DoneInv'
  <2>1. Granted(loaded[r], p) # {} /\ ~options[r].dry => Installed(p, Granted(loaded[r], p))
    BY DEF Granted, Installed, Managed
  <2> QED
    BY <1>2, <2>1 DEF DoneInv, DoneSound, Installed, Managed
<1> QED
  BY <1>3, <1>4, <1>5, <1>6 DEF SyncInv

\* The registry learns the token, the file is planned.
LEMMA RegisterStep ==
  ASSUME SyncInv, NEW r \in Runs, NEW p \in Projects, NEW token, NEW fresh \in BOOLEAN,
         phase[r] = "projects", p \in todo, Offered(r, p, token, fresh), ~options[r].dry,
         minted' = IF fresh THEN token ELSE minted,
         registry' = IF loaded[r].projects[p].mode = "gateway"
                     THEN [registry EXCEPT ![p] = [kind |-> "managed", hashes |-> WithToken(p, token),
                                                   machines |-> loaded[r].projects[p].machines]]
                     ELSE registry,
         draft' = [project |-> p, token |-> token, changes |-> NewEntries(loaded[r], p, token) # files[p],
                   text |-> NewEntries(loaded[r], p, token)],
         phase' = [phase EXCEPT ![r] = IF NewEntries(loaded[r], p, token) # files[p] THEN "write" ELSE "confirm"],
         UNCHANGED <<manifest, files, gone, loaded, options, holder, todo, failed, synced, bounds>>
  PROVE  SyncInv'
<1> DEFINE m == loaded[r]
           gateway == m.projects[p].mode = "gateway"
           text == NewEntries(m, p, token)
<1> USE DEF bounds
<1>1. TypeOK /\ HolderInv /\ HashesInv /\ FilesInv /\ DraftInv /\ DoneInv
  BY DEF SyncInv
<1>2. holder = r /\ m \in Manifests /\ p \in DOMAIN m.projects /\ DoneSound(r)
  BY <1>1, AtWork DEF DoneInv, DoneSound, TypeOK
<1>3. /\ minted \in Nat /\ minted' \in Nat /\ minted <= minted' /\ token \in 0..minted'
      /\ gateway => token \in 1..minted'
  BY <1>1, <1>2, OfferedTyped DEF TypeOK
<1>4. m.projects[p].machines \subseteq Machines /\ token \in Nat /\ (fresh => token = minted + 1)
  BY <1>2, <1>3, ManifestTyped, OfferedTyped
<1>5. text \in Texts'
  <2>1. text \in [Names -> [url : Urls \union {"none", "keystore"}, token : 0..minted']]
    BY <1>1, <1>2, <1>3, <1>4, NewEntriesTyped
  <2> QED
    BY <2>1 DEF Texts, Entries
<1>6. ASSUME gateway
      PROVE  /\ WithToken(p, token) \in Seq(1..minted') /\ Len(WithToken(p, token)) <= 2
             /\ token \in SetOf(WithToken(p, token))
             /\ SetOf(WithToken(p, token)) \subseteq Tokens(p) \union {token}
  BY <1>1, <1>3, <1>4, <1>6, WithTokenTyped
<1> HIDE DEF m, text, gateway
<1>7. /\ registry' = IF gateway THEN [registry EXCEPT ![p] = [kind |-> "managed", hashes |-> WithToken(p, token),
                                                              machines |-> m.projects[p].machines]] ELSE registry
      /\ phase' = [phase EXCEPT ![r] = IF text # files[p] THEN "write" ELSE "confirm"]
      /\ draft' = [project |-> p, token |-> token, changes |-> text # files[p], text |-> text]
  BY DEF m, text, gateway
<1>8. \A x \in Projects : x # p => registry'[x] = registry[x] /\ Tokens(x)' = Tokens(x)
  BY <1>1, <1>7 DEF TypeOK, Tokens
<1>9. /\ gateway => /\ registry'[p] = [kind |-> "managed", hashes |-> WithToken(p, token),
                                       machines |-> m.projects[p].machines]
                    /\ Tokens(p)' = SetOf(WithToken(p, token))
      /\ ~gateway => registry'[p] = registry[p] /\ Tokens(p)' = Tokens(p)
  BY <1>1, <1>7 DEF TypeOK, Tokens
<1>10. \A n \in Names : files[p][n].token \in Tokens(p) => files[p][n].token \in Tokens(p)'
  BY <1>1, <1>9, WithTokenKeeps
<1>11. \A n \in Names : files[p][n].token \in Tokens(p)' => files[p][n].token \in Tokens(p)
  <2> SUFFICES ASSUME NEW n \in Names, files[p][n].token \in Tokens(p)', gateway
               PROVE  files[p][n].token \in Tokens(p)
    BY <1>9
  <2>1. files[p][n] \in Entries
    BY <1>1 DEF TypeOK, Texts
  <2>2. files[p][n].token <= minted
    BY <1>3, <2>1 DEF Entries
  <2>3. fresh => token > minted
    BY <1>3, <1>4
  <2>4. ~fresh => token \in Tokens(p)
    BY <1>2, OfferedTyped DEF gateway, m
  <2> QED
    BY <1>3, <1>6, <1>9, <2>2, <2>3, <2>4
<1>12. 0 \notin Tokens(p)'
  <2>1. 0 \notin Tokens(p)
    BY <1>1, <1>3, RegistryTyped
  <2>2. gateway => token # 0
    BY <1>3
  <2> QED
    BY <1>6, <1>9, <2>1, <2>2
<1>13. /\ TextGateway(text) /\ Keeps(files[p], text)
       /\ \A n \in Names : IF gateway THEN text[n].token \in {0, token} \union (gone \ Tokens(p))
                                      ELSE text[n].token # 0 => text[n] = files[p][n]
  BY <1>2, PlannedText DEF text, gateway, m
<1>14. TypeOK'
  <2>1. registry' \in [Projects -> Consumers']
    <3>1. Consumers \subseteq Consumers'
      <4>1. 1..minted \subseteq 1..minted'
        BY <1>3
      <4> QED
        BY <4>1, SeqMonotone DEF Consumers
    <3>2. registry' \in [Projects -> Consumers'] \/ gateway
      BY <1>1, <1>7, <3>1 DEF TypeOK
    <3>3. gateway => [kind |-> "managed", hashes |-> WithToken(p, token), machines |-> m.projects[p].machines]
                        \in Consumers'
      BY <1>4, <1>6 DEF Consumers, m
    <3>4. gateway => registry' \in [Projects -> Consumers']
      BY <1>1, <1>7, <3>1, <3>3 DEF TypeOK
    <3> QED
      BY <3>2, <3>4
  <2>2. \A x \in Projects : Len(registry'[x].hashes) <= 2
    BY <1>1, <1>6, <1>8, <1>9 DEF TypeOK
  <2>3. files' \in [Projects -> Texts']
    <3>1. Texts \subseteq Texts'
      BY <1>3 DEF Texts, Entries
    <3> QED
      BY <1>1, <3>1 DEF TypeOK
  <2>4. gone' \subseteq 1..minted'
    BY <1>1, <1>3 DEF TypeOK
  <2>5. phase' \in [Runs -> {"unstarted", "loaded", "projects", "write", "confirm", "finished", "dead"}]
    BY <1>1, <1>7 DEF TypeOK
  <2>6. draft' \in [token : 0..minted', project : Projects \union {Nobody}, text : Texts', changes : BOOLEAN]
    BY <1>3, <1>5, <1>7
  <2>7. failed' \in BOOLEAN /\ synced' \in BOOLEAN
    BY <1>1 DEF TypeOK
  <2> QED
    BY <1>1, <1>3, <2>1, <2>2, <2>3, <2>4, <2>5, <2>6, <2>7 DEF TypeOK
<1>15. HolderInv'
  BY <1>1, <1>2, <1>7 DEF HolderInv, TypeOK
<1>16. HashesInv'
  BY <1>1, <1>8, <1>9 DEF HashesInv
<1>17. FilesInv'
  <2>1. TextSound(p, files[p])'
    BY <1>1, <1>10, <1>11 DEF FilesInv, TextSound, TextKnown, TextSingle, TextGateway
  <2>2. ASSUME NEW x \in Projects, x # p PROVE TextSound(x, files[x])'
    BY <1>1, <1>8, <2>2 DEF FilesInv, TextSound, TextKnown, TextSingle, TextGateway
  <2> QED
    BY <2>1, <2>2 DEF FilesInv
<1>18. TextKnown(p, draft.text)' /\ TextSingle(p, draft.text)'
  <2>0. draft'.text = text
    BY <1>7
  <2>1. CASE gateway
    <3>1. token \in Tokens(p)' /\ Tokens(p)' \subseteq Tokens(p) \union {token}
      BY <1>6, <1>9, <2>1
    <3> QED
      BY <1>12, <1>13, <2>0, <2>1, <3>1 DEF TextKnown, TextSingle
  <2>2. CASE ~gateway
    <3>1. TextKnown(p, files[p]) /\ TextSingle(p, files[p]) /\ Tokens(p)' = Tokens(p)
      BY <1>1, <1>9, <2>2 DEF FilesInv, TextSound
    <3> QED
      BY <1>12, <1>13, <2>0, <2>2, <3>1 DEF TextKnown, TextSingle
  <2> QED
    BY <2>1, <2>2
<1>19. DraftInv'
  <2>1. phase'[r] = IF text # files[p] THEN "write" ELSE "confirm"
    BY <1>1, <1>7 DEF TypeOK
  <2>2. ASSUME NEW x \in Runs, phase'[x] \in {"write", "confirm"} PROVE x = r
    BY <1>1, <1>7, <2>2, AtWork DEF TypeOK
  <2>3. /\ draft'.project = p /\ draft'.token = token /\ draft'.text = text
    BY <1>7
  <2>4. (TextSound(draft.project, draft.text) /\ Keeps(files[draft.project], draft.text))'
    BY <1>13, <1>18, <2>3 DEF TextSound, TextGateway, Keeps
  <2>5. (Mode(r) = "gateway")' => gateway
    BY <2>3 DEF Mode, gateway, m
  <2>6. gateway => /\ token \in Tokens(p)' /\ registry'[p].kind = "managed"
                   /\ registry'[p].machines = m.projects[p].machines
    BY <1>6, <1>9
  <2>7. gateway => OnlyDraft(draft.text)' /\ (text = files[p] => OnlyDraft(files[p])')
    BY <1>13, <2>3 DEF OnlyDraft
  <2>8. DraftSound(r)'
    BY <2>1, <2>3, <2>4, <2>5, <2>6, <2>7 DEF DraftSound, m
  <2> QED
    BY <2>2, <2>8 DEF DraftInv
<1>20. DoneInv'
  <2>1. ASSUME NEW x \in DOMAIN m.projects \ todo, NEW granted
        PROVE  Installed(x, granted) => Installed(x, granted)'
    BY <1>2, <1>8, ManifestTyped DEF Installed, Managed, m
  <2>2. DoneSound(r)'
    BY <1>2, <2>1 DEF DoneSound, m
  <2> QED
    BY <1>2, <2>2 DEF DoneInv
<1> QED
  BY <1>14, <1>15, <1>16, <1>17, <1>19, <1>20 DEF SyncInv

LEMMA PlanProjectStep == ASSUME SyncInv, NEW r \in Runs, NEW p \in Projects, PlanProject(r, p) PROVE SyncInv'
<1> DEFINE m == loaded[r]
           gateway == m.projects[p].mode = "gateway"
<1>1. /\ phase[r] = "projects" /\ p \in todo /\ holder = r /\ m \in Manifests /\ p \in DOMAIN m.projects
      /\ m.projects[p].mode \in Modes
  <2>1. phase[r] = "projects" /\ p \in todo /\ holder = r /\ m \in Manifests
    BY AtWork DEF PlanProject, SyncInv, TypeOK
  <2>2. p \in DOMAIN m.projects
    BY <2>1 DEF SyncInv, DoneInv, DoneSound
  <2> QED
    BY <2>1, <2>2, ManifestTyped
<1>2. PICK token \in Nat, fresh \in BOOLEAN : Offered(r, p, token, fresh) /\ RegisterToken(r, p, token, fresh)
  <2>1. CASE m.projects[p].mode = "direct"
    <3>1. RegisterToken(r, p, 0, FALSE) /\ Offered(r, p, 0, FALSE)
      BY <2>1 DEF PlanProject, Offered
    <3> QED
      BY <3>1
  <2>2. CASE gateway
    <3>1. \/ \E t \in Reusable(m, p) : RegisterToken(r, p, t, FALSE)
          \/ Reusable(m, p) = {} /\ RegisterToken(r, p, minted + 1, TRUE)
      BY <2>2 DEF PlanProject
    <3>2. CASE \E t \in Reusable(m, p) : RegisterToken(r, p, t, FALSE)
      <4>1. PICK t \in Reusable(m, p) : RegisterToken(r, p, t, FALSE)
        BY <3>2
      <4>2. Offered(r, p, t, FALSE)
        BY <2>2 DEF Offered
      <4> QED
        BY <1>1, <4>1, <4>2, OfferedTyped
    <3>3. CASE Reusable(m, p) = {} /\ RegisterToken(r, p, minted + 1, TRUE)
      <4>1. Offered(r, p, minted + 1, TRUE)
        BY <2>2, <3>3 DEF Offered
      <4> QED
        BY <1>1, <3>3, <4>1, OfferedTyped
    <3> QED
      BY <3>1, <3>2, <3>3
  <2> QED
    BY <1>1, <2>1, <2>2 DEF Modes
<1> DEFINE entries == NewEntries(m, p, token)
           consumer == [kind |-> "managed", hashes |-> WithToken(p, token), machines |-> m.projects[p].machines]
           done == entries = files[p] /\ (gateway => registry[p] = [consumer EXCEPT !.hashes = <<token>>])
<1>3. /\ \/ /\ done \/ options[r].dry
            /\ todo' = todo \ {p}
            /\ UNCHANGED <<registry, minted, phase, draft>>
         \/ /\ ~options[r].dry
            /\ minted' = IF fresh THEN token ELSE minted
            /\ registry' = IF gateway THEN [registry EXCEPT ![p] = consumer] ELSE registry
            /\ draft' = [project |-> p, token |-> token, changes |-> entries # files[p], text |-> entries]
            /\ phase' = [phase EXCEPT ![r] = IF entries # files[p] THEN "write" ELSE "confirm"]
            /\ UNCHANGED todo
      /\ UNCHANGED <<manifest, files, gone, loaded, options, holder, failed, synced, bounds>>
  <2> HIDE DEF entries
  <2> QED
    BY <1>1, <1>2 DEF RegisterToken, Commit, entries
<1>4. CASE (done \/ options[r].dry) /\ todo' = todo \ {p} /\ UNCHANGED <<registry, minted, phase, draft>>
  <2>1. ~options[r].dry /\ gateway =>
           registry[p].kind = "managed" /\ registry[p].machines = m.projects[p].machines
           /\ Len(registry[p].hashes) = 1
    BY <1>4
  <2>2. UNCHANGED <<manifest, registry, files, minted, gone, loaded, options, phase, holder, draft, failed,
                     synced, bounds>>
    BY <1>3, <1>4
  <2> QED
    BY <1>1, <1>4, <2>1, <2>2, KeepProjectStep
<1>5. CASE /\ ~options[r].dry
           /\ minted' = IF fresh THEN token ELSE minted
           /\ registry' = IF gateway THEN [registry EXCEPT ![p] = consumer] ELSE registry
           /\ draft' = [project |-> p, token |-> token, changes |-> entries # files[p], text |-> entries]
           /\ phase' = [phase EXCEPT ![r] = IF entries # files[p] THEN "write" ELSE "confirm"]
           /\ UNCHANGED todo
  <2>1. UNCHANGED <<manifest, files, gone, loaded, options, holder, todo, failed, synced, bounds>>
    BY <1>3, <1>5
  <2> QED
    BY <1>1, <1>2, <1>5, <2>1, RegisterStep
<1> QED
  BY <1>3, <1>4, <1>5

LEMMA WriteConfigStep == ASSUME SyncInv, NEW r \in Runs, WriteConfig(r) PROVE SyncInv'
<1> USE DEF WriteConfig, run, bounds
<1>1. TypeOK /\ HolderInv /\ HashesInv /\ FilesInv /\ DraftInv /\ DoneInv
  BY DEF SyncInv
<1>2. DraftSound(r) /\ draft.project \in Projects /\ draft.text \in Texts
  BY <1>1 DEF DraftInv, DraftSound, TypeOK
<1>3. /\ files' \in [Projects -> Texts] /\ files'[draft.project] = draft.text
      /\ \A x \in Projects : x # draft.project => files'[x] = files[x]
  BY <1>1, <1>2 DEF TypeOK
<1>4. TypeOK'
  <2>1. failed' \in BOOLEAN /\ synced' \in BOOLEAN
    BY <1>1 DEF TypeOK
  <2>2. phase' \in [Runs -> {"unstarted", "loaded", "projects", "write", "confirm", "finished", "dead"}]
    BY <1>1 DEF TypeOK
  <2> QED
    BY <1>1, <1>3, <2>1, <2>2 DEF TypeOK, Texts, Entries, Consumers
<1>5. HolderInv' /\ HashesInv' /\ DoneInv'
  <2>1. HolderInv'
    BY <1>1 DEF HolderInv, TypeOK
  <2> QED
    BY <2>1, Undisturbed
<1>6. FilesInv'
  <2>1. TextSound(draft.project, draft.text)
    BY <1>2 DEF DraftSound
  <2>2. ASSUME NEW x \in Projects PROVE TextSound(x, files'[x])
    BY <1>1, <1>3, <2>1 DEF FilesInv
  <2> QED
    BY <2>2 DEF FilesInv, TextSound, TextKnown, TextSingle, TextGateway, Tokens
<1>7. DraftInv'
  <2>1. ASSUME NEW x \in Runs, phase'[x] \in {"write", "confirm"} PROVE x = r /\ phase'[r] = "confirm"
    BY <1>1, <2>1, AtWork DEF TypeOK
  <2>2. (Mode(r) = "gateway")' => OnlyDraft(files[draft.project])'
    BY <1>2, <1>3 DEF DraftSound, OnlyDraft, Mode
  <2>3. phase'[r] = "confirm" => DraftSound(r)'
    BY <1>2, <2>2 DEF DraftSound, Mode, Tokens
  <2> QED
    BY <2>1, <2>3 DEF DraftInv
<1> QED
  BY <1>4, <1>5, <1>6, <1>7 DEF SyncInv

LEMMA FailWriteStep ==
  ASSUME SyncInv, NEW r \in Runs, NEW landed \in BOOLEAN, FailWrite(r, landed) PROVE SyncInv'
<1> USE DEF FailWrite, bounds
<1>1. TypeOK /\ HolderInv /\ HashesInv /\ FilesInv /\ DraftInv /\ DoneInv
  BY DEF SyncInv
<1>2. /\ DraftSound(r) /\ draft.project \in Projects /\ draft.text \in Texts
      /\ holder = r /\ DoneSound(r) /\ loaded[r] \in Manifests
  BY <1>1, AtWork DEF DraftInv, DraftSound, TypeOK, DoneInv
<1>3. /\ files' \in [Projects -> Texts] /\ files'[draft.project] \in {draft.text, files[draft.project]}
      /\ \A x \in Projects : x # draft.project => files'[x] = files[x]
  <2>1. files' = [files EXCEPT ![draft.project] = draft.text] \/ files' = files
    BY Zenon
  <2> QED
    BY <1>1, <1>2, <2>1 DEF TypeOK
<1>4. TypeOK'
  <2>1. failed' \in BOOLEAN /\ synced' \in BOOLEAN
    BY <1>1 DEF TypeOK
  <2>2. phase' \in [Runs -> {"unstarted", "loaded", "projects", "write", "confirm", "finished", "dead"}]
    BY <1>1 DEF TypeOK
  <2>3. NoDraft \in [token : 0..minted, project : Projects \union {Nobody}, text : Texts, changes : BOOLEAN]
    BY <1>1 DEF NoDraft, NoFile, NoEntry, Texts, Entries, TypeOK
  <2>4. todo' \subseteq Projects /\ draft' = NoDraft
    BY <1>1 DEF TypeOK
  <2> HIDE DEF FailWrite
  <2>5. UNCHANGED <<manifest, registry, minted, gone, loaded, options, holder, manifestEdits, ownerActs>>
    BY DEF FailWrite
  <2> QED
    BY <1>1, <1>3, <2>1, <2>2, <2>3, <2>4, <2>5 DEF TypeOK, Texts, Entries, Consumers
<1>5. HolderInv' /\ HashesInv'
  BY <1>1 DEF HolderInv, HashesInv, TypeOK
<1>6. FilesInv'
  <2>1. TextSound(draft.project, draft.text)
    BY <1>2 DEF DraftSound
  <2>2. ASSUME NEW x \in Projects PROVE TextSound(x, files'[x])
    BY <1>1, <1>3, <2>1 DEF FilesInv
  <2> QED
    BY <2>2 DEF FilesInv, TextSound, TextKnown, TextSingle, TextGateway, Tokens
<1>7. DraftInv'
  BY <1>1, AtWork DEF DraftInv, TypeOK
<1>8. DoneInv'
  <2>1. ASSUME NEW x \in DOMAIN loaded[r].projects \ todo', Granted(loaded[r], x) # {}, ~options[r].dry
        PROVE  Managed(x) => registry[x].machines \subseteq Granted(loaded[r], x)
    <3>1. CASE x = draft.project
      BY <1>2, <2>1, <3>1 DEF DraftSound, Mode, Granted
    <3>2. CASE x # draft.project
      BY <1>2, <2>1, <3>2 DEF DoneSound, Installed
    <3> QED
      BY <3>1, <3>2
  <2>2. DoneSound(r)'
    BY <1>2, <2>1 DEF DoneSound, Installed, Managed
  <2> QED
    BY <1>2, <2>2 DEF DoneInv
<1> QED
  BY <1>4, <1>5, <1>6, <1>7, <1>8 DEF SyncInv

LEMMA ConfirmTokenStep == ASSUME SyncInv, NEW r \in Runs, ConfirmToken(r) PROVE SyncInv'
<1> DEFINE gateway == Mode(r) = "gateway"
<1> USE DEF ConfirmToken, bounds
<1>1. TypeOK /\ HolderInv /\ HashesInv /\ FilesInv /\ DraftInv /\ DoneInv
  BY DEF SyncInv
<1>2. PICK dp \in Projects :
         /\ dp = draft.project /\ DraftSound(r) /\ ~options[r].dry
         /\ holder = r /\ DoneSound(r) /\ loaded[r] \in Manifests
  BY <1>1, AtWork DEF DraftInv, DraftSound, TypeOK, DoneInv
<1>3. registry' = IF gateway THEN [registry EXCEPT ![dp].hashes = <<draft.token>>] ELSE registry
  BY <1>2 DEF Commit, Mode
<1>4. gateway => draft.token \in Tokens(dp) /\ draft.token \in 1..minted
  BY <1>1, <1>2, RegistryTyped DEF DraftSound
<1>5. gateway => [registry[dp] EXCEPT !.hashes = <<draft.token>>] \in Consumers
  <2> HIDE DEF ConfirmToken, gateway
  <2>1. \A S, t : t \in S => <<t>> \in Seq(S)
    OBVIOUS
  <2>2. gateway => <<draft.token>> \in Seq(1..minted)
    BY <1>4, <2>1
  <2>3. registry[dp] \in Consumers
    BY <1>1, <1>2, RegistryTyped
  <2> QED
    BY <2>2, <2>3 DEF Consumers
<1>6. /\ registry' \in [Projects -> Consumers]
      /\ \A x \in Projects : x # dp => registry'[x] = registry[x] /\ Tokens(x)' = Tokens(x)
      /\ ~gateway => registry'[dp] = registry[dp] /\ Tokens(dp)' = Tokens(dp)
      /\ gateway => registry'[dp] = [registry[dp] EXCEPT !.hashes = <<draft.token>>]
  <2> HIDE DEF ConfirmToken
  <2> QED
    BY <1>1, <1>2, <1>3, <1>5 DEF TypeOK, Tokens
<1>7. gateway => /\ registry'[dp].hashes = <<draft.token>> /\ Tokens(dp)' = {draft.token}
                 /\ registry'[dp].kind = registry[dp].kind /\ registry'[dp].machines = registry[dp].machines
  <2> HIDE DEF ConfirmToken, gateway
  <2>1. registry[dp] \in Consumers
    BY <1>1, <1>2, RegistryTyped
  <2>2. gateway => registry'[dp].hashes = <<draft.token>>
    BY <1>6, <2>1 DEF Consumers
  <2>3. gateway => Tokens(dp)' = {draft.token}
    BY <2>2 DEF Tokens, SetOf
  <2> QED
    BY <1>6, <2>1, <2>2, <2>3 DEF Consumers
<1> HIDE DEF gateway
<1>8. TypeOK'
  <2>1. failed' \in BOOLEAN /\ synced' \in BOOLEAN
    BY <1>1 DEF TypeOK
  <2>2. phase' \in [Runs -> {"unstarted", "loaded", "projects", "write", "confirm", "finished", "dead"}]
    BY <1>1 DEF TypeOK
  <2>3. NoDraft \in [token : 0..minted, project : Projects \union {Nobody}, text : Texts, changes : BOOLEAN]
    BY <1>1 DEF NoDraft, NoFile, NoEntry, Texts, Entries, TypeOK
  <2>4. todo' \subseteq Projects /\ draft' = NoDraft
    BY <1>1 DEF TypeOK
  <2>5. UNCHANGED <<manifest, files, minted, gone, loaded, options, holder, manifestEdits, ownerActs>>
    OBVIOUS
  <2> HIDE DEF ConfirmToken
  <2>6. \A x \in Projects : Len(registry'[x].hashes) <= 2
    <3>1. \A x \in Projects : registry'[x].hashes = registry[x].hashes \/ registry'[x].hashes = <<draft.token>>
      BY <1>6, <1>7
    <3>2. \A x \in Projects : Len(registry[x].hashes) <= 2
      BY <1>1 DEF TypeOK
    <3>3. Len(<<draft.token>>) <= 2
      OBVIOUS
    <3> QED
      BY <3>1, <3>2, <3>3, Zenon
  <2> QED
    BY <1>1, <1>6, <2>1, <2>2, <2>3, <2>4, <2>5, <2>6 DEF TypeOK, Texts, Entries, Consumers
<1>9. HolderInv' /\ HashesInv'
  <2>1. HashesInv'
    BY <1>1, <1>2, <1>6, <1>7 DEF HashesInv, DraftSound, gateway
  <2> QED
    BY <1>1, <1>2, <2>1 DEF HolderInv, TypeOK
<1>10. FilesInv'
  <2>1. ASSUME NEW x \in Projects, x # dp \/ ~gateway PROVE TextSound(x, files[x])'
    BY <1>1, <1>6, <2>1 DEF FilesInv, TextSound, TextKnown, TextSingle, TextGateway
  <2>2. ASSUME gateway PROVE TextSound(dp, files[dp])'
    <3>1. OnlyDraft(files[dp]) /\ TextGateway(files[dp])
      BY <1>1, <1>2, <2>2 DEF DraftSound, FilesInv, TextSound, gateway
    <3>2. Tokens(dp)' = {draft.token} /\ files' = files /\ gone' = gone
      BY <1>7, <2>2
    <3> HIDE DEF ConfirmToken
    <3> QED
      BY <1>2, <3>1, <3>2 DEF OnlyDraft, TextSound, TextKnown, TextSingle, TextGateway
  <2>3. ASSUME NEW x \in Projects PROVE TextSound(x, files[x])'
    BY <2>1, <2>2
  <2> QED
    BY <2>3 DEF FilesInv
<1>11. DraftInv'
  BY <1>1, AtWork DEF DraftInv, TypeOK
<1>12. DoneInv'
  <2>1. ASSUME NEW x \in DOMAIN loaded[r].projects \ todo', Granted(loaded[r], x) # {}
        PROVE  Installed(x, Granted(loaded[r], x))'
    <3>1. CASE x = dp
      <4>1. gateway /\ Granted(loaded[r], x) = loaded[r].projects[dp].machines
        BY <1>2, <2>1, <3>1 DEF Granted, gateway, Mode
      <4>2. /\ registry'[x].kind = "managed" /\ registry'[x].machines = Granted(loaded[r], x)
            /\ Len(registry'[x].hashes) = 1
        BY <1>2, <1>7, <3>1, <4>1 DEF DraftSound, gateway
      <4> QED
        BY <4>2 DEF Installed, Managed
    <3>2. CASE x # dp
      <4>1. Installed(x, Granted(loaded[r], x)) /\ x \in Projects
        BY <1>2, <2>1, <3>2, ManifestTyped DEF DoneSound
      <4> QED
        BY <1>6, <3>2, <4>1 DEF Installed, Managed
    <3> QED
      BY <3>1, <3>2
  <2>2. DoneSound(r)'
    BY <1>2, <2>1 DEF DoneSound
  <2> QED
    BY <1>2, <2>2 DEF DoneInv
<1> QED
  BY <1>8, <1>9, <1>10, <1>11, <1>12 DEF SyncInv

LEMMA WithdrawStep == ASSUME SyncInv, NEW r \in Runs, Withdraw(r) PROVE SyncInv'
<1> DEFINE left == Leavers(loaded[r])
           pruned == options[r].prune /\ ~options[r].dry
<1>1. TypeOK /\ HolderInv /\ HashesInv /\ FilesInv /\ DraftInv /\ DoneInv
  BY DEF SyncInv
<1>2. phase[r] = "projects" /\ holder = r
  BY AtWork DEF Withdraw
<1>3. /\ registry' = IF options[r].dry THEN registry
                     ELSE [p \in Projects |-> IF p \notin left THEN registry[p]
                                              ELSE IF options[r].prune THEN NoConsumer
                                              ELSE [registry[p] EXCEPT !.machines = {}]]
      /\ gone' = IF pruned THEN gone \union UNION {SetOf(registry[p].hashes) : p \in left} ELSE gone
      /\ phase' = [phase EXCEPT ![r] = "finished"] /\ holder' = Nobody
      /\ UNCHANGED <<manifest, files, minted, loaded, options, todo, draft, failed, manifestEdits, ownerActs>>
  BY <1>2 DEF Withdraw, Commit, bounds
<1>4. /\ \A p \in left : p \in Projects /\ Managed(p)
      /\ pruned \in BOOLEAN
  BY DEF Leavers
<1> HIDE DEF left, pruned
<1>5. ASSUME NEW x \in Projects
      PROVE  \/ registry'[x] = registry[x]
             \/ x \in left /\ registry'[x] = NoConsumer /\ pruned
             \/ x \in left /\ registry'[x] = [registry[x] EXCEPT !.machines = {}]
  BY <1>1, <1>3 DEF TypeOK, pruned
<1>6. ASSUME NEW x \in Projects
      PROVE  /\ registry'[x] \in Consumers /\ Len(registry'[x].hashes) <= 2
             /\ registry'[x].kind # "managed" => registry'[x].hashes = <<>>
             /\ Tokens(x)' \subseteq Tokens(x) /\ Tokens(x) \union gone \subseteq Tokens(x)' \union gone'
  <2>1. registry[x] \in Consumers /\ Len(registry[x].hashes) <= 2 /\ gone \subseteq gone'
    BY <1>1, <1>3 DEF TypeOK
  <2>2. CASE registry'[x] = registry[x]
    BY <1>1, <2>1, <2>2 DEF HashesInv, Tokens
  <2>3. CASE x \in left /\ registry'[x] = NoConsumer /\ pruned
    <3>1. Tokens(x) \subseteq gone'
      BY <1>3, <2>3 DEF Tokens
    <3> QED
      BY <2>1, <2>3, <3>1 DEF NoConsumer, Consumers, Tokens, SetOf
  <2>4. CASE x \in left /\ registry'[x] = [registry[x] EXCEPT !.machines = {}]
    <3>1. registry'[x] \in Consumers /\ registry'[x].hashes = registry[x].hashes /\ registry'[x].kind = "managed"
      BY <1>4, <2>1, <2>4 DEF Consumers, Managed
    <3> QED
      BY <2>1, <3>1 DEF Tokens
  <2> QED
    BY <1>5, <2>2, <2>3, <2>4
<1>7. TypeOK'
  <2>1. synced' = (synced \/ (loaded[r] = manifest /\ ~failed /\ ~options[r].dry))
    BY DEF Withdraw
  <2>2. synced' \in BOOLEAN
    BY <2>1
  <2>3. failed' \in BOOLEAN
    BY <1>1, <1>3 DEF TypeOK
  <2>4. phase' \in [Runs -> {"unstarted", "loaded", "projects", "write", "confirm", "finished", "dead"}]
    BY <1>1, <1>3 DEF TypeOK
  <2>5. registry' \in [Projects -> Consumers]
    <3>1. registry' = [x \in Projects |-> registry'[x]]
      BY <1>1, <1>3 DEF TypeOK
    <3> QED
      BY <1>6, <3>1
  <2>6. gone' \subseteq 1..minted
    <3>1. \A p \in left : SetOf(registry[p].hashes) \subseteq 1..minted
      BY <1>1, <1>4, RegistryTyped DEF Tokens
    <3>2. gone \subseteq 1..minted
      BY <1>1 DEF TypeOK
    <3> QED
      BY <1>3, <3>1, <3>2
  <2> QED
    BY <1>1, <1>3, <1>6, <2>2, <2>3, <2>4, <2>5, <2>6 DEF TypeOK, Texts, Entries, Consumers
<1>8. HolderInv' /\ HashesInv'
  <2>1. HolderInv'
    BY <1>1, <1>2, <1>3, UrlsApart DEF HolderInv, TypeOK
  <2> QED
    BY <1>6, <2>1 DEF HashesInv
<1>9. FilesInv'
  <2> SUFFICES ASSUME NEW x \in Projects PROVE TextSound(x, files[x])'
    BY DEF FilesInv
  <2>1. TextSound(x, files[x]) /\ files' = files
    BY <1>1, <1>3 DEF FilesInv
  <2> QED
    BY <1>6, <2>1 DEF TextSound, TextKnown, TextSingle, TextGateway
<1>10. DraftInv'
  BY <1>1, <1>2, <1>3, AtWork DEF DraftInv, TypeOK
<1>11. DoneInv'
  BY <1>3, UrlsApart DEF DoneInv
<1> QED
  BY <1>7, <1>8, <1>9, <1>10, <1>11 DEF SyncInv

LEMMA DieStep == ASSUME SyncInv, NEW r \in Runs, Die(r) PROVE SyncInv'
<1> USE DEF Die, bounds
<1>1. TypeOK /\ HolderInv /\ HashesInv /\ FilesInv /\ DraftInv /\ DoneInv
  BY DEF SyncInv
<1>2. TypeOK'
  <2>1. failed' \in BOOLEAN /\ synced' \in BOOLEAN
    BY <1>1 DEF TypeOK
  <2>2. phase' \in [Runs -> {"unstarted", "loaded", "projects", "write", "confirm", "finished", "dead"}]
    BY <1>1 DEF TypeOK
  <2>3. NoDraft \in [token : 0..minted, project : Projects \union {Nobody}, text : Texts, changes : BOOLEAN]
    BY <1>1 DEF NoDraft, NoFile, NoEntry, Texts, Entries, TypeOK
  <2>4. todo' \subseteq Projects /\ holder' \in Runs \union {Nobody} /\ draft' = NoDraft
    OBVIOUS
  <2> QED
    BY <1>1, <2>1, <2>2, <2>3, <2>4 DEF TypeOK, Texts, Entries, Consumers
<1>3. HolderInv'
  BY <1>1, UrlsApart DEF HolderInv, TypeOK
<1>4. HashesInv' /\ FilesInv'
  BY Undisturbed
<1>5. DraftInv' /\ DoneInv'
  <2>1. \A x \in Runs : phase'[x] \notin {"projects", "write", "confirm"}
    BY <1>3, UrlsApart DEF HolderInv
  <2> QED
    BY <2>1, UrlsApart DEF DraftInv, DoneInv
<1> QED
  BY <1>2, <1>3, <1>4, <1>5 DEF SyncInv

LEMMA SyncStep == SyncInv /\ [Next]_vars => SyncInv'
<1> SUFFICES ASSUME SyncInv, [Next]_vars PROVE SyncInv'
  OBVIOUS
<1>1. ASSUME NEW m \in Manifests, EditManifest(m) PROVE SyncInv'
  BY <1>1, EditManifestStep
<1>2. ASSUME NEW p \in Projects, DeleteConfig(p) \/ Revoke(p) \/ AddByHand(p) PROVE SyncInv'
  BY <1>2, DeleteConfigStep, RevokeStep, AddByHandStep
<1>3. ASSUME NEW r \in Runs, RunStep(r) PROVE SyncInv'
  BY <1>3, LoadManifestStep, LockStep, FailProjectStep, PlanProjectStep, WriteConfigStep, FailWriteStep,
     ConfirmTokenStep, WithdrawStep, DieStep DEF RunStep
<1>4. CASE UNCHANGED vars
  <2>1. HolderInv' /\ HashesInv' /\ FilesInv' /\ DraftInv' /\ DoneInv'
    BY <1>4, Undisturbed DEF vars, run, bounds
  <2>2. TypeOK'
    BY <1>4 DEF SyncInv, TypeOK, Texts, Entries, Consumers, vars, run, bounds
  <2> QED
    BY <2>1, <2>2 DEF SyncInv
<1> QED
  BY <1>1, <1>2, <1>3, <1>4 DEF Next

LEMMA SyncInvariant == Spec => []SyncInv
BY SyncInit, SyncStep, PTL DEF Spec

-----------------------------------------------------------------------------
(* Theorems.                                                                *)

\* Every file, token and consumer keeps its shape, and a consumer never has more than two hashes.
THEOREM TypeCorrect == Spec => []TypeOK
BY SyncInvariant, PTL DEF SyncInv

\* Whatever fails, dies or is edited by hand, no project's file carries a token that its consumer does
\* not have, unless the owner took that token away.
THEOREM FileTokensKnown == Spec => []FileTokenKnown
<1>1. SyncInv => FileTokenKnown
  BY DEF SyncInv, FilesInv, TextSound, TextKnown, FileTokenKnown, Tokens
<1> QED
  BY <1>1, SyncInvariant, PTL

LEMMA FilesStep ==
  ASSUME SyncInv, [Next]_vars, NEW p \in Projects
  PROVE  \/ files'[p] = files[p]
         \/ \A n \in Names : files'[p][n].token = 0
         \/ Keeps(files[p], files'[p])
<1>1. files \in [Projects -> Texts]
  BY DEF SyncInv, TypeOK
<1>2. ASSUME NEW x \in Projects, DeleteConfig(x)
      PROVE  files'[p] = files[p] \/ \A n \in Names : files'[p][n].token = 0
  BY <1>1, <1>2 DEF DeleteConfig, NoFile, NoEntry
<1>3. ASSUME NEW r \in Runs, phase[r] = "write",
             files' = [files EXCEPT ![draft.project] = draft.text] \/ files' = files
      PROVE  files'[p] = files[p] \/ Keeps(files[p], files'[p])
  <2>1. Keeps(files[draft.project], draft.text)
    BY <1>3 DEF SyncInv, DraftInv, DraftSound
  <2> QED
    BY <1>1, <1>3, <2>1
<1>4. ASSUME NEW r \in Runs, RunStep(r)
      PROVE  files' = files \/ (phase[r] = "write" /\ files' = [files EXCEPT ![draft.project] = draft.text])
  <2>1. ASSUME NEW x \in Projects, FailProject(r, x) \/ PlanProject(r, x) PROVE files' = files
    BY <2>1 DEF FailProject, PlanProject, RegisterToken
  <2>2. ASSUME NEW landed \in BOOLEAN, FailWrite(r, landed)
        PROVE  files' = files \/ (phase[r] = "write" /\ files' = [files EXCEPT ![draft.project] = draft.text])
    <3>1. files' = files \/ files' = [files EXCEPT ![draft.project] = draft.text]
      BY <2>2, Zenon DEF FailWrite
    <3>2. phase[r] = "write"
      BY <2>2 DEF FailWrite
    <3> QED
      BY <3>1, <3>2
  <2> QED
    BY <1>4, <2>1, <2>2 DEF RunStep, LoadManifest, Lock, WriteConfig, ConfirmToken, Withdraw, Die
<1>5. ASSUME NEW r \in Runs, RunStep(r) PROVE files'[p] = files[p] \/ Keeps(files[p], files'[p])
  BY <1>3, <1>4, <1>5
<1>6. CASE UNCHANGED vars
  BY <1>6 DEF vars
<1> QED
  BY <1>2, <1>5, <1>6 DEF Next, EditManifest, Revoke, AddByHand

\* In no step does an entry that carried a token get another one under the same url, unless the owner had
\* taken the first away: a project keeps its token across url changes elsewhere, failed writes and deaths.
THEOREM TokensStable == Spec => TokenStable
<1>1. ASSUME SyncInv, [Next]_vars, NEW p \in Projects, NEW n \in Names,
             files[p][n].token # files'[p][n].token, 0 \notin {files[p][n].token, files'[p][n].token}
      PROVE  files[p][n].url # files'[p][n].url \/ files[p][n].token \in gone
  BY <1>1, FilesStep DEF Keeps
<1>2. SyncInv /\ [Next]_vars
         => [\A p \in Projects, n \in Names :
                LET e == files[p][n]
                    f == files'[p][n]
                IN  /\ e.token # f.token
                    /\ 0 \notin {e.token, f.token}
                    => e.url # f.url \/ e.token \in gone]_vars
  BY <1>1
<1> QED
  BY <1>2, SyncInvariant, PTL DEF Spec, TokenStable

\* A run that finishes leaves no consumer of its own broader than its manifest; if nothing failed, each
\* project has exactly the manifest's machines and one token.
THEOREM RunsInstallManifest == Spec => RunInstallsManifest
<1>1. ASSUME SyncInv, [Next]_vars, NEW r \in Runs, phase[r] # "finished", phase'[r] = "finished", ~options[r].dry,
             NEW p \in Projects
      PROVE  LET c == registry'[p]
                 granted == Granted(loaded[r], p)
             IN  /\ c.kind = "managed" => c.machines \subseteq granted
                 /\ ~failed /\ granted # {} => c.kind = "managed" /\ c.machines = granted /\ Len(c.hashes) = 1
  <2>1. TypeOK /\ DoneInv
    BY <1>1 DEF SyncInv
  <2>2. Withdraw(r)
    <3>1. phase \in [Runs -> {"unstarted", "loaded", "projects", "write", "confirm", "finished", "dead"}]
      BY <2>1 DEF TypeOK
    <3>2. ASSUME NEW x \in Runs, RunStep(x), ~Withdraw(x) PROVE phase'[r] # "finished"
      <4>1. ASSUME NEW q \in Projects, FailProject(x, q) \/ PlanProject(x, q) PROVE phase'[r] # "finished"
        BY <1>1, <3>1, <4>1 DEF FailProject, PlanProject, RegisterToken
      <4>2. ASSUME NEW landed \in BOOLEAN, FailWrite(x, landed) PROVE phase'[r] # "finished"
        BY <1>1, <3>1, <4>2 DEF FailWrite
      <4> QED
        BY <1>1, <3>1, <3>2, <4>1, <4>2 DEF RunStep, LoadManifest, Lock, WriteConfig, ConfirmToken, Die
    <3>3. ASSUME NEW x \in Runs, Withdraw(x) PROVE x = r
      BY <1>1, <3>1, <3>3 DEF Withdraw
    <3>4. ~UNCHANGED phase
      BY <1>1
    <3>5. \E x \in Runs : RunStep(x)
      BY <1>1, <3>4 DEF Next, vars, EditManifest, DeleteConfig, Revoke, AddByHand
    <3> QED
      BY <1>1, <3>2, <3>3, <3>5
  <2>3. holder = r /\ phase[r] = "projects" /\ todo = {} /\ DoneSound(r)
    BY <1>1, <2>1, <2>2, AtWork DEF Withdraw, DoneInv
  <2>4. registry' = [x \in Projects |->
                        IF x \notin Leavers(loaded[r]) THEN registry[x]
                        ELSE IF options[r].prune THEN NoConsumer ELSE [registry[x] EXCEPT !.machines = {}]]
    BY <1>1, <2>2, <2>3 DEF Withdraw, Commit
  <2>5. registry[p] \in Consumers
    BY <2>1 DEF TypeOK
  <2>6. CASE Granted(loaded[r], p) # {}
    <3>1. registry'[p] = registry[p]
      BY <2>4, <2>6 DEF Leavers
    <3>2. p \in DOMAIN loaded[r].projects
      BY <2>6 DEF Granted
    <3>3. Installed(p, Granted(loaded[r], p))
      BY <1>1, <2>3, <2>6, <3>2 DEF DoneSound
    <3> QED
      BY <3>1, <3>3 DEF Installed, Managed
  <2>7. CASE Granted(loaded[r], p) = {} /\ Managed(p)
    <3>1. p \in Leavers(loaded[r])
      BY <2>7 DEF Leavers
    <3>2. registry'[p] \in {NoConsumer, [registry[p] EXCEPT !.machines = {}]}
      BY <2>4, <3>1
    <3>3. registry'[p].machines = {}
      BY <2>5, <3>2 DEF NoConsumer, Consumers
    <3> QED
      BY <2>7, <3>3
  <2>8. CASE Granted(loaded[r], p) = {} /\ ~Managed(p)
    BY <2>4, <2>8 DEF Leavers, Managed
  <2> QED
    BY <2>6, <2>7, <2>8
<1>2. SyncInv /\ [Next]_vars
         => [\A r \in Runs :
                phase[r] # "finished" /\ phase'[r] = "finished" /\ ~options[r].dry
                => \A p \in Projects :
                      LET c == registry'[p]
                          granted == Granted(loaded[r], p)
                      IN  /\ c.kind = "managed" => c.machines \subseteq granted
                          /\ ~failed /\ granted # {}
                             => c.kind = "managed" /\ c.machines = granted /\ Len(c.hashes) = 1]_vars
  BY <1>1
<1> QED
  BY <1>2, SyncInvariant, PTL DEF Spec, RunInstallsManifest
=============================================================================
