---------------------------- MODULE MachineProofs ----------------------------
(***************************************************************************)
(* Proofs about the parts of the machine server: its start, whatever the   *)
(* platform and the tool lists; its OAuth endpoints, for all clients, uris *)
(* and lifetimes; its updater, for all release histories; its child        *)
(* processes, for all process tables; its Linux session, for all sessions  *)
(* that end and begin anew; the coordinates of its screenshots, for all    *)
(* monitors; its UI Automation worker threads, for any number of callers,  *)
(* threads and hung COM calls; the clicks and keys it sends to listed      *)
(* elements, for any desktop that changes meanwhile; its walks over the    *)
(* elements, for any tree and whatever vanishes on the way; and its input  *)
(* tools, for any keys, texts and failures.  They share no state; each     *)
(* part has an inductive invariant of its own.                             *)
(***************************************************************************)
EXTENDS Startup, OAuthServer, Updater, ChildProcesses, LinuxSession, Coordinates, UiaWorker,
        InputTools, ElementActions, ElementLists, FiniteSetTheorems, WellFoundedInduction, TLAPS

-----------------------------------------------------------------------------
(* The start. *)

Options == [network : BOOLEAN, stdio : BOOLEAN, key : BOOLEAN, tls : BOOLEAN,
            oauth : {"none", "open", "secret"}, tier3 : BOOLEAN, noTier2 : BOOLEAN, all : BOOLEAN,
            named : SUBSET AllTools, excluded : SUBSET AllTools, list : BOOLEAN]

\* A server that serves the network without a key has no tool of tier 3, whoever asks.
StartInv ==
  /\ options \in Options
  /\ boot = "serving" /\ options.network /\ ~options.stdio => options.key \/ tools \cap Tier3 = {}
  /\ ShellNeverOpen

LEMMA StartBegins == StartInit => StartInv
BY DEF StartInit, StartIdle, StartInv, NoOptions, NoResponse, ShellNeverOpen, Options

\* The guard of Serve is the only way to "serving", and a request changes neither options nor tools.
LEMMA StartStep == StartInv /\ [StartNext]_startVars => StartInv'
<1> SUFFICES ASSUME StartInv, [StartNext]_startVars PROVE StartInv'
    OBVIOUS
<1> USE DEF StartInv, ShellNeverOpen
<1>0. NoOptions \in Options
    BY DEF NoOptions, Options
<1>1. CASE Boot
    BY <1>1 DEF Boot
<1>2. CASE BadConfig
    BY <1>2, <1>0 DEF BadConfig, Refuse
<1>3. CASE ServerValues
  <2>1. CASE Refuse
      BY <2>1, <1>0 DEF Refuse
  <2>2. CASE ~Refuse
    <3>1. PICK cliHost, fileHost \in {Unset, "127.0.0.1", "0.0.0.0"}, cliKey \in {Unset, "k"},
               fileKey \in {Unset, "", "k"}, cert, certKey \in BOOLEAN, stdio \in BOOLEAN :
            IF cert # certKey THEN Refuse
            ELSE /\ options' = [options EXCEPT
                      !.network = Chosen(cliHost, fileHost, "127.0.0.1") # "127.0.0.1",
                      !.stdio = stdio, !.tls = cert,
                      !.key = Chosen(cliKey, fileKey, "") # ""]
                 /\ boot' = "tools" /\ UNCHANGED <<tools, response>>
        BY <1>3, Zenon DEF ServerValues
    <3>2. options' \in Options /\ boot' = "tools" /\ UNCHANGED response
        BY <3>1, <2>2 DEF Options
    <3> QED
        BY <3>2
  <2> QED
      BY <2>1, <2>2
<1>4. CASE ToolValues
  <2>1. CASE Refuse
      BY <2>1, <1>0 DEF Refuse
  <2>2. CASE ~Refuse
    <3>1. PICK cliTier3, fileTier3 \in Booleans, cliNo2 \in Booleans \ {"false"}, all \in BOOLEAN,
               cliNamed, cliExcluded \in Named \cup {NoList}, fileNamed, fileExcluded \in Named,
               mode \in {"x11", "wayland", "headless"} :
            LET o == [options EXCEPT
                        !.tier3 = ReadBoolean(Chosen(cliTier3, fileTier3, "false")),
                        !.noTier2 = ReadBoolean(Chosen(cliNo2, Unset, "false")),
                        !.all = all,
                        !.named = ChosenList(cliNamed, fileNamed),
                        !.excluded = ChosenList(cliExcluded, fileExcluded)]
            IN IF o.named \cup o.excluded \subseteq AllTools
               THEN /\ options' = [o EXCEPT !.named = {}, !.excluded = {}, !.noTier2 = FALSE]
                    /\ tools' = Resolve(o, mode) \cap Registered
                    /\ boot' = "gates" /\ UNCHANGED response
               ELSE Refuse
        BY <1>4, Zenon DEF ToolValues
    <3> DEFINE tier3 == ReadBoolean(Chosen(cliTier3, fileTier3, "false"))
    <3>2. options' = [options EXCEPT !.tier3 = tier3, !.noTier2 = FALSE, !.all = all,
                                     !.named = {}, !.excluded = {}]
        BY <3>1, <2>2 DEF Options
    <3>3. tier3 \in BOOLEAN
        BY DEF ReadBoolean
    <3>4. options' \in Options
      <4> HIDE DEF tier3
      <4> QED
          BY <3>2, <3>3 DEF Options
    <3> QED
        BY <3>1, <2>2, <3>4
  <2> QED
      BY <2>1, <2>2
<1>5. CASE Serve
  <2>1. CASE Refuse
      BY <2>1, <1>0 DEF Refuse
  <2>2. CASE ~Refuse
    <3>1. PICK oauth \in {"none", "open", "secret"}, list \in BOOLEAN :
            /\ options.stdio \/ ~OpenShell(options)
            /\ options' = [options EXCEPT !.oauth = oauth, !.list = list]
            /\ UNCHANGED <<tools, response>>
        BY <1>5, <2>2 DEF Serve
    <3>2. /\ options' \in Options
          /\ options'.network = options.network /\ options'.stdio = options.stdio
          /\ options'.key = options.key
        BY <3>1 DEF Options
    <3>3. options'.network /\ ~options'.stdio => options'.key \/ tools' \cap Tier3 = {}
        BY <3>1, <3>2 DEF OpenShell
    <3> QED
        BY <3>1, <3>2, <3>3
  <2> QED
      BY <2>1, <2>2
<1>6. CASE StopServer
    BY <1>6, <1>0 DEF StopServer, NoResponse
<1>7. CASE Request
  <2>1. PICK listed \in BOOLEAN, credential \in {"none", "key", "token"}, asked \in {"Ping", "Shell"} :
          response' = [tool |-> asked, credential |-> credential,
                       remote |-> options.network /\ ~options.stdio,
                       ran |-> Admitted(options, listed, credential) /\ asked \in tools]
      BY <1>7 DEF Request
  <2>2. boot = "serving" /\ UNCHANGED <<boot, options, tools>>
      BY <1>7 DEF Request
  <2>3. CASE options.network /\ ~options.stdio /\ credential = "none"
             /\ Admitted(options, listed, credential) /\ asked \in tools
    <3>1. ~options.key
        BY <2>3 DEF Admitted
    <3>2. asked \notin Tier3
        BY <2>2, <2>3, <3>1
    <3> QED
        BY <2>1, <2>2, <3>2
  <2>4. CASE ~(options.network /\ ~options.stdio /\ credential = "none"
               /\ Admitted(options, listed, credential) /\ asked \in tools)
    <3>1. ~(response'.remote /\ response'.credential = "none" /\ response'.ran)
        BY <2>1, <2>4
    <3> QED
        BY <2>2, <3>1
  <2> QED
      BY <2>3, <2>4
<1>8. CASE UNCHANGED startVars
    BY <1>8 DEF startVars
<1> QED
    BY <1>1, <1>2, <1>3, <1>4, <1>5, <1>6, <1>7, <1>8 DEF StartNext

\* However options, environment, file and tool lists combine (__main__.py's bind guard), nobody on
\* the network runs a tool of tier 3 without a key or a token.
THEOREM ShellClosed == StartSpec => []ShellNeverOpen
<1>1. StartInv => ShellNeverOpen
    BY DEF StartInv
<1> QED
    BY StartBegins, StartStep, <1>1, PTL DEF StartSpec

-----------------------------------------------------------------------------
(* The OAuth endpoints. *)

\* What a code stands for; a redeemed one is no longer in the store, and numbers are never reused.
CodesInv ==
  /\ issued \in Nat /\ clock \in Nat
  /\ \A k \in codes : /\ k.id \in Nat /\ k.id <= issued
                       /\ \E a \in approved : a.id = k.id /\ a.client = k.client /\ a.until = k.expires
  /\ \A k, l \in codes : k.id = l.id => k = l
  /\ \A t \in tokens : /\ t.code \in Nat /\ t.code <= issued
                        /\ \A k \in codes : k.id # t.code
OAuthInv == CodesInv /\ TokensProven

LEMMA OAuthBegins == OAuthInit => OAuthInv
BY DEF OAuthInit, OAuthIdle, OAuthInv, CodesInv, TokensProven, Nobody, Served

\* An authorisation hands out a code with a number of its own.
LEMMA AuthorizeKeeps ==
  ASSUME OAuthInv, NEW c, NEW uri, NEW verifier, Authorize(c, uri, verifier)
  PROVE  OAuthInv'
<1> DEFINE new == [id |-> issued + 1, client |-> c, uri |-> uri, verifier |-> verifier,
                   expires |-> clock + CODE_LIFETIME]
           a0 == [id |-> issued + 1, client |-> c, until |-> clock + CODE_LIFETIME]
<1>1. /\ codes' = codes \cup {new} /\ approved' = approved \cup {a0}
      /\ issued' = issued + 1 /\ UNCHANGED <<tokens, served, clock>>
    BY DEF Authorize
<1>2. /\ new.id = issued + 1 /\ new.client = c /\ new.expires = clock + CODE_LIFETIME
      /\ a0.id = issued + 1 /\ a0.client = c /\ a0.until = clock + CODE_LIFETIME
    OBVIOUS
<1> HIDE DEF new, a0
<1>3. CodesInv'
  <2>1. issued' \in Nat /\ clock' \in Nat
      BY <1>1 DEF OAuthInv, CodesInv
  <2>2. ASSUME NEW k \in codes'
        PROVE  /\ k.id \in Nat /\ k.id <= issued'
               /\ \E a \in approved' : a.id = k.id /\ a.client = k.client /\ a.until = k.expires
      BY <1>1, <1>2 DEF OAuthInv, CodesInv
  <2>3. ASSUME NEW k \in codes', NEW l \in codes', k.id = l.id
        PROVE  k = l
      BY <1>1, <1>2, <2>3 DEF OAuthInv, CodesInv
  <2>4. ASSUME NEW t \in tokens'
        PROVE  /\ t.code \in Nat /\ t.code <= issued'
               /\ \A k \in codes' : k.id # t.code
      BY <1>1, <1>2 DEF OAuthInv, CodesInv
  <2> QED
      BY <2>1, <2>2, <2>3, <2>4 DEF CodesInv
<1>4. TokensProven'
    BY <1>1 DEF OAuthInv, TokensProven
<1> QED
    BY <1>3, <1>4 DEF OAuthInv

\* An exchange takes its code away, whatever comes of it.
LEMMA ExchangeKeeps ==
  ASSUME OAuthInv, NEW code, NEW c, NEW uri, NEW verifier, NEW secret,
         Exchange(code, c, uri, verifier, secret)
  PROVE  OAuthInv'
<1>1. /\ code \in codes /\ code.client = c /\ codes' = codes \ {code}
      /\ UNCHANGED <<issued, approved, served, clock>>
    BY DEF Exchange, Matches, Consumed
<1>2. CASE UNCHANGED tokens
    BY <1>1, <1>2 DEF OAuthInv, CodesInv, TokensProven
<1>3. CASE ~UNCHANGED tokens
  <2> DEFINE new == [code |-> code.id, serial |-> Cardinality(tokens), client |-> c,
                     proven |-> secret, since |-> clock, expires |-> clock + TOKEN_LIFETIME]
  <2>1. /\ Fresh(code) /\ SecretAccepted(c, secret) /\ tokens' = tokens \cup {new}
      BY <1>3 DEF Exchange
  <2>2. new.code = code.id /\ new.client = c /\ new.proven = secret /\ new.since = clock
      OBVIOUS
  <2> HIDE DEF new
  <2>3. CodesInv'
      BY <1>1, <2>1, <2>2 DEF OAuthInv, CodesInv
  <2>4. PICK a \in approved : a.id = code.id /\ a.client = code.client /\ a.until = code.expires
      BY <1>1 DEF OAuthInv, CodesInv
  <2>5. new.since <= a.until
      BY <2>1, <2>2, <2>4 DEF Fresh
  <2>6. NeedsSecret => new.proven = "right"
      BY <2>1, <2>2 DEF SecretAccepted
  <2>7. \A t \in tokens : t.code # new.code
      BY <1>1, <2>2 DEF OAuthInv, CodesInv
  <2>8. TokensProven'
    <3>1. ASSUME NEW t \in tokens'
          PROVE  /\ \E b \in approved' : b.id = t.code /\ b.client = t.client /\ t.since <= b.until
                 /\ NeedsSecret => t.proven = "right"
        BY <1>1, <2>1, <2>2, <2>4, <2>5, <2>6 DEF OAuthInv, TokensProven
    <3>2. ASSUME NEW t \in tokens', NEW u \in tokens', u.code = t.code
          PROVE  u = t
        BY <2>1, <2>7, <3>2 DEF OAuthInv, TokensProven
    <3>3. (served.by = "token" => served.at <= served.until)'
        BY <1>1 DEF OAuthInv, TokensProven
    <3> QED
        BY <3>1, <3>2, <3>3 DEF TokensProven
  <2> QED
      BY <2>3, <2>8 DEF OAuthInv
<1> QED
    BY <1>2, <1>3

LEMMA OAuthStep == OAuthInv /\ [OAuthNext]_oauthVars => OAuthInv'
<1> SUFFICES ASSUME OAuthInv, [OAuthNext]_oauthVars PROVE OAuthInv'
    OBVIOUS
<1>1. ASSUME NEW c \in Clients, NEW uris \in SUBSET Uris, RegisterClient(c, uris)
      PROVE  OAuthInv'
    BY <1>1 DEF RegisterClient, OAuthInv, CodesInv, TokensProven
<1>2. ASSUME NEW c \in Clients, NEW uri \in Uris, NEW v \in Verifiers, Authorize(c, uri, v)
      PROVE  OAuthInv'
    BY <1>2, AuthorizeKeeps
<1>3. ASSUME NEW code \in codes, NEW c \in Clients, NEW uri \in Uris, NEW v \in Verifiers,
             NEW s \in {"right", "wrong", "none"}, Exchange(code, c, uri, v, s)
      PROVE  OAuthInv'
    BY <1>3, ExchangeKeeps
<1>4. CASE ServeKey
    BY <1>4 DEF ServeKey, Served, OAuthInv, CodesInv, TokensProven
<1>5. CASE ServeToken
    BY <1>5 DEF ServeToken, TokenAlive, Served, Nobody, OAuthInv, CodesInv, TokensProven
<1>6. CASE ServeNobody
    BY <1>6 DEF ServeNobody, Nobody, Served, OAuthInv, CodesInv, TokensProven
<1>7. CASE TimePasses
    BY <1>7 DEF TimePasses, OAuthInv, CodesInv, TokensProven
<1>8. CASE Restart
    BY <1>8 DEF Restart, Nobody, Served, OAuthInv, CodesInv, TokensProven
<1>9. CASE UNCHANGED oauthVars
    BY <1>9 DEF oauthVars, OAuthInv, CodesInv, TokensProven
<1> QED
    BY <1>1, <1>2, <1>3, <1>4, <1>5, <1>6, <1>7, <1>8, <1>9 DEF OAuthNext

\* A token stands for one approval, redeemed once, by its client, in time and with the secret that is
\* asked for (oauth.py's token endpoint), and no request is served on a dead token (auth.py).
THEOREM TokensStandForApprovals == OAuthSpec => []TokensProven
<1>1. OAuthInv => TokensProven
    BY DEF OAuthInv
<1> QED
    BY OAuthBegins, OAuthStep, <1>1, PTL DEF OAuthSpec
-----------------------------------------------------------------------------
(* The updater. *)

\* The order of the naturals is well-founded, and the library has the least element of such an order.
LEMMA LeastNat == ASSUME NEW S, S \subseteq Nat, S # {} PROVE \E n \in S : \A m \in S : n <= m
<1>1. PICK R : IsWellFoundedOn(R, Nat) /\ \A a, b \in Nat : a < b => <<a, b>> \in R
  <2>1. IsWellFoundedOn(OpToRel(<, Nat), Nat)
    BY NatLessThanWellFounded
  <2>2. \A a, b \in Nat : a < b => <<a, b>> \in OpToRel(<, Nat)
    BY DEF OpToRel
  <2> QED BY <2>1, <2>2, Zenon
<1>3. PICK n \in S : \A m \in S : ~(<<m, n>> \in R)
  <2> DEFINE N == Nat
  <2>1. IsWellFoundedOn(R, N) /\ S \subseteq N
    BY <1>1
  <2> HIDE DEF N
  <2>2. \E n \in S : \A m \in S : ~(<<m, n>> \in R)
    BY <2>1, WFMin
  <2> QED BY <2>2
<1>4. \A m \in S : n <= m
  <2> TAKE m \in S
  <2>1. ~(m < n)
    BY <1>1, <1>3
  <2> QED BY <2>1
<1> QED BY <1>4

\* While an attempt is on disk and not yet started, the count before it is the one to go back to.
AttemptsInv ==
  /\ started \in Nat /\ hidden \in Nat /\ attempts.attempts \in Nat
  /\ updater = [at |-> updater.at, installed |-> updater.installed, tag |-> updater.tag,
                attempts |-> updater.attempts]
  /\ started <= attempts.attempts + hidden /\ attempts.attempts <= MAX_ATTEMPTS
  /\ updater.at = "recorded" =>
       /\ updater.attempts \in Nat /\ attempts.attempts = updater.attempts + 1
       /\ attempts.tag = updater.tag
       /\ started <= updater.attempts + hidden

LEMMA UpdaterBegins == UpdaterInit => AttemptsInv
BY UpdaterAssumption DEF UpdaterInit, UpdaterIdle, NoRun, AttemptsInv

\* A release tried for the first time starts with a count of its own.
LEMMA RecordKeeps == AttemptsInv /\ RecordAttempt => AttemptsInv'
<1> SUFFICES ASSUME AttemptsInv, RecordAttempt PROVE AttemptsInv'
    OBVIOUS
<1> DEFINE n == AttemptsAt(Target)
<1>1. /\ updater' = [updater EXCEPT !.at = "recorded", !.tag = Target, !.attempts = n]
      /\ attempts' = [tag |-> Target, attempts |-> n + 1]
      /\ started' = IF attempts.tag = Target THEN started ELSE 0
      /\ hidden' = IF attempts.tag = Target THEN hidden ELSE 0
      /\ n < MAX_ATTEMPTS
    BY DEF RecordAttempt
<1>2. n = IF attempts.tag = Target THEN attempts.attempts ELSE 0
    BY DEF AttemptsAt
<1> HIDE DEF n
<1>3. n \in Nat /\ n + 1 <= MAX_ATTEMPTS
    BY <1>1, <1>2, UpdaterAssumption DEF AttemptsInv
<1>4. started' \in Nat /\ hidden' \in Nat /\ started' <= n + hidden'
    BY <1>1, <1>2 DEF AttemptsInv
<1>5. /\ updater' = [at |-> "recorded", installed |-> updater.installed, tag |-> Target,
                     attempts |-> n]
      /\ attempts'.tag = Target /\ attempts'.attempts = n + 1
    BY <1>1 DEF AttemptsInv
<1> QED
    BY <1>3, <1>4, <1>5 DEF AttemptsInv

LEMMA UpdaterKeeps == AttemptsInv /\ [UpdaterNext]_updaterVars => AttemptsInv'
<1> SUFFICES ASSUME AttemptsInv, [UpdaterNext]_updaterVars PROVE AttemptsInv'
    OBVIOUS
<1> USE UpdaterAssumption DEF AttemptsInv, NoRun
<1>1. CASE NextDay
    BY <1>1 DEF NextDay
<1>2. CASE PublishRelease
    BY <1>2 DEF PublishRelease
<1>3. CASE Hold
    BY <1>3 DEF Hold
<1>4. CASE SelfUpgrade
    BY <1>4 DEF SelfUpgrade
<1>5. CASE InstallerEnds
    BY <1>5 DEF InstallerEnds
<1>6. CASE BeginRun
    BY <1>6 DEF BeginRun
<1>7. CASE NothingToDo
    BY <1>7 DEF NothingToDo
<1>8. CASE RecordAttempt
    BY <1>8, RecordKeeps
<1>9. CASE StartUpgrade
    BY <1>9 DEF StartUpgrade
<1>10. CASE StartFails
    BY <1>10 DEF StartFails
<1>11. CASE StartTimesOut
  <2>1. /\ updater.at = "recorded" /\ started' = started + 1 /\ hidden' = hidden + 1
        /\ attempts' = [tag |-> updater.tag, attempts |-> updater.attempts] /\ updater' = NoRun
      BY <1>11 DEF StartTimesOut
  <2>2. attempts'.attempts = updater.attempts /\ updater.attempts \in Nat
        /\ updater.attempts <= MAX_ATTEMPTS
      BY <2>1
  <2>3. started' <= attempts'.attempts + hidden'
      BY <2>1, <2>2
  <2> QED
      BY <2>1, <2>2, <2>3
<1>12. CASE RunKilled
    BY <1>12 DEF RunKilled
<1>13. CASE UNCHANGED updaterVars
    BY <1>13 DEF updaterVars
<1> QED
    BY <1>1, <1>2, <1>3, <1>4, <1>5, <1>6, <1>7, <1>8, <1>9, <1>10, <1>11, <1>12, <1>13
    DEF UpdaterNext, UpdaterStep

\* However runs die and starts fail or time out (updater.py's run), no release is started more often
\* than the attempts file says.
THEOREM AttemptsCorrect == UpdaterSpec => []AttemptsCounted
<1>1. AttemptsInv => AttemptsCounted
    BY DEF AttemptsInv, AttemptsCounted
<1> QED
    BY UpdaterBegins, UpdaterKeeps, <1>1, PTL DEF UpdaterSpec

ReleaseItems == [version : Nat, day : Nat, held : BOOLEAN]

LEMMA ItemOfReleases ==
  ASSUME NEW list \in Seq(ReleaseItems)
  PROVE  /\ Len(list) \in Nat /\ DOMAIN list = 1..Len(list)
         /\ \A i \in 1..Len(list) : list[i] \in ReleaseItems /\ list[i].day \in Nat /\ list[i].version \in Nat
<1>1. Len(list) \in Nat /\ DOMAIN list = 1..Len(list) /\ \A i \in 1..Len(list) : list[i] \in ReleaseItems
    OBVIOUS
<1>2. \A r \in ReleaseItems : r.day \in Nat /\ r.version \in Nat
    BY DEF ReleaseItems
<1> QED
    BY <1>1, <1>2

\* Releases have days and versions, none is of a later day, and what is installed is one of them.
ReleasesInv ==
  /\ releases \in Seq(ReleaseItems) /\ today \in Nat /\ installed \in Nat
  /\ \A i \in 1..Len(releases) : releases[i].day <= today
  /\ installer \in 0..Len(releases)
  /\ updater.at = "recorded" => updater.tag \in 1..Len(releases)

LEMMA LeastIsMin ==
  ASSUME NEW S, S \subseteq Nat, S # {}  PROVE Min(S) \in S /\ \A m \in S : Min(S) <= m
BY LeastNat DEF Min

\* Of releases that have soaked one is the newest: the latest day, and of that day the first in the list.
LEMMA StableIsSoaked ==
  ASSUME NEW list \in Seq(ReleaseItems), NEW now \in Nat, NEW soak \in Nat,
         Stable(list, now, soak) # NoRelease
  PROVE  Stable(list, now, soak) \in Soaked(list, now, soak)
<1> DEFINE S == Soaked(list, now, soak)
<1>1. /\ S # {}
      /\ Stable(list, now, soak) = CHOOSE i \in S : \A j \in S : \/ list[i].day > list[j].day
                                                                 \/ (list[i].day = list[j].day /\ i <= j)
    BY DEF Stable, Newest
<1>2. \A i \in S : i \in Nat /\ list[i].day \in Nat /\ now - list[i].day \in Nat
  <2> SUFFICES ASSUME NEW i \in S  PROVE i \in Nat /\ list[i].day \in Nat /\ now - list[i].day \in Nat
      OBVIOUS
  <2>1. i \in DOMAIN list /\ now - list[i].day >= soak
      BY DEF Soaked, Usable
  <2>2. i \in 1..Len(list) /\ list[i].day \in Nat
      BY <2>1, ItemOfReleases
  <2>3. i \in Nat
      BY <2>2
  <2>4. now - list[i].day >= 0
      BY <2>1, <2>2
  <2> QED
      BY <2>2, <2>3, <2>4
<1> HIDE DEF S
<1>3. PICK d \in {now - list[i].day : i \in S} : \A e \in {now - list[i].day : i \in S} : d <= e
  <2>1. {now - list[i].day : i \in S} \subseteq Nat /\ {now - list[i].day : i \in S} # {}
      BY <1>1, <1>2
  <2> QED
      BY <2>1, LeastNat
<1>4. PICK k \in {i \in S : now - list[i].day = d} : \A j \in {i \in S : now - list[i].day = d} : k <= j
  <2>1. {i \in S : now - list[i].day = d} \subseteq Nat /\ {i \in S : now - list[i].day = d} # {}
      BY <1>2, <1>3
  <2> QED
      BY <2>1, LeastNat
<1>5. \A j \in S : \/ list[k].day > list[j].day
                   \/ (list[k].day = list[j].day /\ k <= j)
  <2> SUFFICES ASSUME NEW j \in S  PROVE list[k].day > list[j].day \/ (list[k].day = list[j].day /\ k <= j)
      OBVIOUS
  <2>1. k \in S /\ now - list[k].day = d /\ d <= now - list[j].day
      BY <1>3, <1>4
  <2>2. list[k].day \in Nat /\ list[j].day \in Nat
      BY <1>2, <2>1
  <2>3. now - list[j].day = d => k <= j
      BY <1>4
  <2> QED
    <3>1. list[j].day <= list[k].day
        BY <2>1, <2>2
    <3>2. CASE list[j].day = list[k].day
        BY <2>1, <2>3, <3>2
    <3>3. CASE list[j].day # list[k].day
        BY <2>2, <3>1, <3>3
    <3> QED
        BY <3>2, <3>3
<1> QED
    BY <1>1, <1>4, <1>5 DEF S

\* What a run wants to install is a release of the list.
LEMMA TargetListed == ASSUME ReleasesInv, Target # NoRelease  PROVE Target \in 1..Len(releases)
<1>1. DOMAIN releases = 1..Len(releases)
    BY DEF ReleasesInv
<1>2. \A soak \in Nat : Stable(releases, today, soak) # NoRelease => Stable(releases, today, soak) \in 1..Len(releases)
  <2> SUFFICES ASSUME NEW soak \in Nat, Stable(releases, today, soak) # NoRelease
               PROVE  Stable(releases, today, soak) \in 1..Len(releases)
      OBVIOUS
  <2>1. Stable(releases, today, soak) \in Soaked(releases, today, soak)
      BY StableIsSoaked DEF ReleasesInv
  <2> QED
      BY <1>1, <2>1 DEF Soaked, Usable
<1>3. Canary(releases) = Stable(releases, today, 0)
  <2>1. ASSUME NEW i \in 1..Len(releases)  PROVE today - releases[i].day >= 0
    <3>1. releases[i].day \in Nat /\ releases[i].day <= today /\ today \in Nat
        BY ItemOfReleases DEF ReleasesInv
    <3> QED
        BY <3>1
  <2>2. Soaked(releases, today, 0) = Usable(releases)
      BY <1>1, <2>1 DEF Soaked, Usable
  <2> QED
      BY <2>2 DEF Canary, Stable
<1>4. SoakDays \in Nat /\ 0 \in Nat
    BY UpdaterAssumption
<1> QED
    BY <1>2, <1>3, <1>4 DEF Target

LEMMA ReleasesBegin == UpdaterInit => ReleasesInv
<1> SUFFICES ASSUME UpdaterInit PROVE ReleasesInv
    OBVIOUS
<1>1. /\ releases = <<>> /\ today = 0 /\ installed = 1 /\ installer = 0 /\ updater.at = "idle"
    BY DEF UpdaterInit, UpdaterIdle, NoRun, NoRelease
<1>2. Len(<<>>) = 0 /\ <<>> \in Seq(ReleaseItems) /\ \A i : i \notin 1..0
    OBVIOUS
<1> QED
    BY <1>1, <1>2 DEF ReleasesInv

LEMMA ReleasesKeep == AttemptsInv /\ ReleasesInv /\ [UpdaterNext]_updaterVars => ReleasesInv'
<1> SUFFICES ASSUME AttemptsInv, ReleasesInv, [UpdaterNext]_updaterVars PROVE ReleasesInv'
    OBVIOUS
<1>0. /\ releases \in Seq(ReleaseItems) /\ Len(releases) \in Nat /\ \A i \in 1..Len(releases) : releases[i] \in ReleaseItems
      /\ DOMAIN releases = 1..Len(releases)
    BY ItemOfReleases DEF ReleasesInv
<1>d. \A i \in 1..Len(releases) : releases[i].day \in Nat /\ releases[i].version \in Nat /\ releases[i].day <= today
    BY ItemOfReleases DEF ReleasesInv
<1>t. today \in Nat /\ installed \in Nat
    BY DEF ReleasesInv
<1>1. CASE NextDay
  <2>1. today' = today + 1 /\ UNCHANGED <<releases, installed, installer, updater>>
      BY <1>1 DEF NextDay
  <2>2. today' \in Nat /\ \A i \in 1..Len(releases) : releases[i].day <= today'
      BY <1>d, <1>t, <2>1
  <2> QED
      BY <2>1, <2>2 DEF ReleasesInv
<1>2. CASE PublishRelease
  <2> DEFINE r == [version |-> Published[Len(releases) + 1], day |-> today, held |-> FALSE]
  <2>1. Len(releases) + 1 \in DOMAIN Published
      BY <1>0, <1>2, UpdaterAssumption DEF PublishRelease
  <2>2. Published[Len(releases) + 1] \in Nat
      BY <2>1, UpdaterAssumption
  <2>3. r \in ReleaseItems /\ r.day = today
      BY <1>t, <2>2 DEF ReleaseItems
  <2>4. releases' = Append(releases, r) /\ UNCHANGED <<today, installed, installer, updater>>
      BY <1>2 DEF PublishRelease
  <2> HIDE DEF r
  <2>5. /\ releases' \in Seq(ReleaseItems) /\ Len(releases') = Len(releases) + 1 /\ releases'[Len(releases) + 1] = r
        /\ \A i \in 1..Len(releases) : releases'[i] = releases[i]
      BY <1>0, <2>3, <2>4
  <2>6. \A i \in 1..Len(releases') : releases'[i].day <= today
    <3>1. \A i \in 1..Len(releases') : i \in 1..Len(releases) \/ i = Len(releases) + 1
        BY <1>0, <2>5
    <3>2. today <= today
        BY <1>t
    <3> QED
        BY <1>d, <2>3, <2>5, <3>1, <3>2
  <2>7. 0..Len(releases) \subseteq 0..Len(releases') /\ 1..Len(releases) \subseteq 1..Len(releases')
      BY <1>0, <2>5
  <2> QED
      BY <2>4, <2>5, <2>6, <2>7 DEF ReleasesInv
<1>3. CASE Hold
  <2>1. PICK i \in DOMAIN releases : releases' = [releases EXCEPT ![i].held = ~@]
      BY <1>3 DEF Hold
  <2> DEFINE r == [releases[i] EXCEPT !.held = ~@]
  <2>2. r \in ReleaseItems /\ r.day = releases[i].day
    <3>1. releases[i] \in ReleaseItems
        BY <1>0
    <3> QED
        BY <3>1 DEF ReleaseItems
  <2>3. releases' = [releases EXCEPT ![i] = r]
      BY <2>1
  <2> HIDE DEF r
  <2>4. /\ releases' \in Seq(ReleaseItems) /\ Len(releases') = Len(releases)
        /\ \A j \in 1..Len(releases) : releases'[j] = IF j = i THEN r ELSE releases[j]
      BY <1>0, <2>2, <2>3
  <2>5. \A j \in 1..Len(releases) : releases'[j].day <= today
      BY <1>d, <1>0, <2>2, <2>4
  <2>6. UNCHANGED <<today, installed, installer, updater>>
      BY <1>3 DEF Hold
  <2> QED
      BY <2>4, <2>5, <2>6 DEF ReleasesInv
<1>4. CASE SelfUpgrade
  <2>1. installer' \in 0..Len(releases)
      BY <1>0, <1>4 DEF SelfUpgrade
  <2> QED
      BY <1>4, <2>1 DEF SelfUpgrade, ReleasesInv
<1>5. CASE InstallerEnds
  <2>1. installer \in 1..Len(releases)
      BY <1>0, <1>5 DEF InstallerEnds, NoRelease, ReleasesInv
  <2>2. installed' \in Nat /\ installer' \in 0..Len(releases)
      BY <1>0, <1>d, <1>t, <1>5, <2>1 DEF InstallerEnds, NoRelease
  <2> QED
      BY <1>5, <2>2 DEF InstallerEnds, ReleasesInv
<1>6. CASE BeginRun \/ NothingToDo
  <2>1. updater'.at # "recorded"
    <3>1. BeginRun => updater'.at = "begun"
        BY DEF BeginRun, NoRun
    <3>2. NothingToDo => updater'.at = "idle"
        BY DEF NothingToDo, NoRun
    <3> QED
        BY <1>6, <3>1, <3>2
  <2>2. UNCHANGED <<releases, today, installed, installer>>
      BY <1>6 DEF BeginRun, NothingToDo
  <2> QED
      BY <2>1, <2>2 DEF ReleasesInv
<1>7. CASE RecordAttempt
  <2>1. Target \in 1..Len(releases)
      BY <1>7, TargetListed DEF RecordAttempt, Wants
  <2>2. updater'.tag = Target
      BY <1>7 DEF RecordAttempt, AttemptsInv
  <2> QED
      BY <1>7, <2>1, <2>2 DEF RecordAttempt, ReleasesInv
<1>8. CASE StartUpgrade \/ StartFails \/ StartTimesOut \/ RunKilled
  <2>1. updater'.at = "idle" /\ UNCHANGED <<releases, today, installed>>
      BY <1>8 DEF StartUpgrade, StartFails, StartTimesOut, RunKilled, NoRun
  <2>2. installer' = installer \/ (updater.at = "recorded" /\ installer' = updater.tag)
      BY <1>8 DEF StartUpgrade, StartFails, StartTimesOut, RunKilled, Launch
  <2>3. installer' \in 0..Len(releases)
      BY <1>0, <2>2 DEF ReleasesInv
  <2> QED
      BY <2>1, <2>3 DEF ReleasesInv
<1>9. CASE UNCHANGED updaterVars
    BY <1>9 DEF updaterVars, ReleasesInv
<1> QED
    BY <1>1, <1>2, <1>3, <1>4, <1>5, <1>6, <1>7, <1>8, <1>9 DEF UpdaterNext, UpdaterStep

\* The days on which the releases newer than a machine finished their soak: none is after today.
LEMMA BehindDays ==
  ASSUME NEW list \in Seq(ReleaseItems), NEW now \in Nat, NEW soak \in Nat,
         NEW version \in Nat,
         BehindSince(version, list, now, soak) # NeverReady
  PROVE  LET days == {list[i].day + soak : i \in NewerSoaked(version, list, now, soak)}
         IN /\ days \subseteq Nat /\ days # {} /\ BehindSince(version, list, now, soak) = Min(days)
            /\ \A d \in days : d <= now
<1> DEFINE s == Stable(list, now, soak)
           newer == NewerSoaked(version, list, now, soak)
<1>1. /\ s # NoRelease /\ ~(list[s].version <= version)
      /\ BehindSince(version, list, now, soak) = Min({list[i].day + soak : i \in newer})
    BY DEF BehindSince
<1>2. \A i \in newer : list[i].day + soak \in Nat /\ list[i].day + soak <= now
  <2> SUFFICES ASSUME NEW i \in newer  PROVE list[i].day + soak \in Nat /\ list[i].day + soak <= now
      OBVIOUS
  <2>1. i \in DOMAIN list /\ now - list[i].day >= soak
      BY DEF NewerSoaked, Soaked, Usable
  <2>2. list[i].day \in Nat
      BY <2>1, ItemOfReleases
  <2> QED
      BY <2>1, <2>2
<1>3. s \in newer
  <2>1. s \in Soaked(list, now, soak)
      BY <1>1, StableIsSoaked
  <2>2. list[s].version \in Nat
      BY <2>1, ItemOfReleases DEF Soaked, Usable
  <2>3. list[s].version > version
      BY <1>1, <2>2
  <2> QED
      BY <2>1, <2>3 DEF NewerSoaked
<1> HIDE DEF newer
<1>4. {list[i].day + soak : i \in newer} # {}
    BY <1>3
<1> QED
    BY <1>1, <1>2, <1>4 DEF newer

\* A day passes, or a release of that day appears: the days of before stay, and others come no earlier than today.
LEMMA DaysOnlyGrow ==
  ASSUME ReleasesInv, NextDay \/ PublishRelease
  PROVE  LET was == NewerSoaked(installed, releases, today, SoakDays)
             is == NewerSoaked(installed', releases', today', SoakDays)
         IN /\ \A i \in was : i \in is /\ releases'[i] = releases[i]
            /\ \A i \in is : (i \in was /\ releases'[i] = releases[i]) \/ today <= releases'[i].day + SoakDays
<1> DEFINE was == NewerSoaked(installed, releases, today, SoakDays)
           is == NewerSoaked(installed', releases', today', SoakDays)
<1>0. SoakDays \in Nat /\ today \in Nat /\ releases \in Seq(ReleaseItems)
    BY UpdaterAssumption DEF ReleasesInv
<1>1. Len(releases) \in Nat /\ DOMAIN releases = 1..Len(releases)
      /\ \A i \in 1..Len(releases) : releases[i].day \in Nat
    BY <1>0, ItemOfReleases
<1>2. CASE NextDay
  <2>1. today' = today + 1 /\ releases' = releases /\ installed' = installed
      BY <1>2 DEF NextDay
  <2>2. ASSUME NEW i \in 1..Len(releases), today - releases[i].day >= SoakDays
        PROVE  today' - releases[i].day >= SoakDays
      BY <1>0, <1>1, <2>1, <2>2
  <2>3. ASSUME NEW i \in 1..Len(releases), ~(today - releases[i].day >= SoakDays)
        PROVE  today <= releases[i].day + SoakDays
      BY <1>0, <1>1, <2>3
  <2>4. \A i \in was : i \in is
      BY <1>1, <2>1, <2>2 DEF NewerSoaked, Soaked, Usable
  <2>5. \A i \in is : i \in was \/ today <= releases[i].day + SoakDays
      BY <1>1, <2>1, <2>3 DEF NewerSoaked, Soaked, Usable
  <2> QED
      BY <2>1, <2>4, <2>5
<1>3. CASE PublishRelease
  <2> DEFINE r == [version |-> Published[Len(releases) + 1], day |-> today, held |-> FALSE]
  <2>1. releases' = Append(releases, r) /\ today' = today /\ installed' = installed /\ r.day = today
      BY <1>3 DEF PublishRelease
  <2> HIDE DEF r
  <2>2. /\ DOMAIN releases' = 1..(Len(releases) + 1) /\ releases'[Len(releases) + 1] = r
        /\ \A i \in 1..Len(releases) : releases'[i] = releases[i] /\ i \in 1..(Len(releases) + 1)
      BY <1>0, <1>1, <2>1
  <2>3. \A i \in 1..(Len(releases) + 1) : i \in 1..Len(releases) \/ i = Len(releases) + 1
      BY <1>1
  <2>4. today <= today + SoakDays
      BY <1>0
  <2>5. \A i \in was : i \in is /\ releases'[i] = releases[i]
      BY <1>1, <2>1, <2>2 DEF NewerSoaked, Soaked, Usable
  <2>6. ASSUME NEW i \in is  PROVE (i \in was /\ releases'[i] = releases[i]) \/ today <= releases'[i].day + SoakDays
    <3>1. i \in 1..(Len(releases) + 1)
        BY <2>2 DEF NewerSoaked, Soaked, Usable
    <3>2. CASE i \in 1..Len(releases)
        BY <1>1, <2>1, <2>2, <2>6, <3>2 DEF NewerSoaked, Soaked, Usable
    <3>3. CASE i = Len(releases) + 1
        BY <2>1, <2>2, <2>4, <3>3
    <3> QED
        BY <2>3, <3>1, <3>2, <3>3
  <2> QED
      BY <2>5, <2>6
<1> QED
    BY <1>2, <1>3

LEMMA DriftClockSteps ==
  ASSUME ReleasesInv, ReleasesInv', NextDay \/ PublishRelease
  PROVE  LET since == BehindSince(installed, releases, today, SoakDays)
             next == BehindSince(installed', releases', today', SoakDays)
         IN /\ since # NeverReady /\ next # NeverReady => next = since
            /\ next <= today'
<1> DEFINE since == BehindSince(installed, releases, today, SoakDays)
           next == BehindSince(installed', releases', today', SoakDays)
           was == {releases[i].day + SoakDays : i \in NewerSoaked(installed, releases, today, SoakDays)}
           is == {releases'[i].day + SoakDays : i \in NewerSoaked(installed', releases', today', SoakDays)}
<1>0. today \in Nat /\ today' \in Nat /\ SoakDays \in Nat /\ NeverReady <= today'
    BY UpdaterAssumption DEF ReleasesInv, NeverReady
<1>1. since # NeverReady => was \subseteq Nat /\ was # {} /\ since = Min(was) /\ \A d \in was : d <= today
    BY <1>0, BehindDays DEF ReleasesInv
<1>2. next # NeverReady => is \subseteq Nat /\ is # {} /\ next = Min(is) /\ \A d \in is : d <= today'
    BY <1>0, BehindDays DEF ReleasesInv
<1>3. was \subseteq is /\ \A d \in is : d \in was \/ today <= d
    BY DaysOnlyGrow
<1> HIDE DEF since, next, was, is
<1>4. next <= today'
    BY <1>0, <1>2, LeastIsMin
<1>5. ASSUME since # NeverReady, next # NeverReady  PROVE next = since
  <2>1. since \in was /\ \A d \in was : since <= d
      BY <1>1, <1>5, LeastIsMin
  <2>2. next \in is /\ \A d \in is : next <= d
      BY <1>2, <1>5, LeastIsMin
  <2>3. since \in Nat /\ next \in Nat /\ since <= today /\ next <= since
      BY <1>1, <1>2, <1>3, <1>5, <2>1, <2>2
  <2>4. next \in was \/ today <= next
      BY <1>3, <2>2
  <2> QED
      BY <1>0, <2>1, <2>3, <2>4
<1> QED
    BY <1>4, <1>5 DEF since, next

\* "A new stable while the box is still behind does not restart the count" (release_channel.py, behind_since):
\* for all releases and soak times, the day a machine fell behind stays what it was, and is never in the future.
THEOREM DriftClockSteady == UpdaterSpec => DriftClockRuns
<1>1. ReleasesInv /\ ReleasesInv' /\ [UpdaterNext]_updaterVars =>
        [ LET since == BehindSince(installed, releases, today, SoakDays)
              next == BehindSince(installed', releases', today', SoakDays)
          IN NextDay \/ PublishRelease =>
               /\ since # NeverReady /\ next # NeverReady => next = since
               /\ next <= today' ]_updaterVars
    BY DriftClockSteps
<1>2. AttemptsInv /\ ReleasesInv /\ [UpdaterNext]_updaterVars => (AttemptsInv /\ ReleasesInv)'
    BY UpdaterKeeps, ReleasesKeep
<1> QED
    BY UpdaterBegins, ReleasesBegin, <1>1, <1>2, PTL DEF UpdaterSpec, DriftClockRuns

-----------------------------------------------------------------------------
(* The child processes. *)

\* Until the server reaps the child, its id is taken: a stranger's group bears a stranger's own id.
ChildInv ==
  /\ ChildTypeOK
  /\ \A p \in Pids : proc[p].owner = "stranger" => proc[p].group = p
  /\ server \in {"waiting", "term", "grace", "kill"} =>
       proc[Leader].owner = "call" /\ proc[Leader].state # "free" /\ proc[Leader].group = Leader
  /\ StrangersSpared

LEMMA ChildBegins == ChildInit => ChildInv
<1> SUFFICES ASSUME ChildInit PROVE ChildInv
    OBVIOUS
<1>1. /\ Free \in [state : {"free", "running", "zombie"}, owner : {"nobody", "call", "stranger"},
                   group : Pids, pipe : BOOLEAN, stubborn : BOOLEAN]
      /\ Free.owner = "nobody"
    BY ChildAssumption DEF Free
<1>2. /\ proc = [p \in Pids |-> Free] /\ server = "ready" /\ members = {}
      /\ answer = "none" /\ struck = FALSE
    BY DEF ChildInit, ChildIdle
<1>3. ChildTypeOK
    BY <1>1, <1>2 DEF ChildTypeOK
<1> QED
    BY <1>1, <1>2, <1>3 DEF ChildInv, StrangersSpared

\* A new process takes an id nobody bears; a dead one keeps its entry or leaves it free.
LEMMA RunKeeps ==
  ASSUME ChildInv, NEW p \in Pids, NEW owner \in {"call", "stranger"}, NEW group \in Pids,
         NEW pipe \in BOOLEAN, NEW stubborn \in BOOLEAN, Unused(p),
         owner = "stranger" => group = p,
         Run(p, owner, group, pipe, stubborn), UNCHANGED <<server, members, answer, struck>>
  PROVE  ChildInv'
BY DEF ChildInv, ChildTypeOK, StrangersSpared, Run, Unused

LEMMA DeadKeeps ==
  ASSUME ChildInv, NEW p \in Pids
  PROVE  /\ Dead(p) \in [state : {"free", "running", "zombie"}, owner : {"nobody", "call", "stranger"},
                         group : Pids, pipe : BOOLEAN, stubborn : BOOLEAN]
         /\ Dead(p).owner # "stranger"
         /\ p = Leader /\ proc[p].owner = "call" =>
              Dead(p).owner = "call" /\ Dead(p).state # "free" /\ Dead(p).group = proc[p].group
BY ChildAssumption DEF ChildInv, ChildTypeOK, Dead, Free

\* The signal goes to the group of the id that is still the child's.
LEMMA SignalKeeps ==
  ASSUME ChildInv, NEW mortals, server \in {"term", "kill"}, Signalled(mortals),
         server' \in {"grace", "reap"}, UNCHANGED <<members, answer>>
  PROVE  ChildInv'
<1>1. proc' = [p \in Pids |-> IF p \in Group \cap mortals THEN Dead(p) ELSE proc[p]]
    BY DEF Signalled
<1>2. \A p \in Group : p \in Pids /\ proc[p].group = Leader /\ proc[p].owner # "stranger"
    BY DEF Group, Bears, ChildInv
<1>3. ~struck'
    BY <1>2 DEF Signalled, ChildInv, StrangersSpared
<1>4. ChildTypeOK'
  <2>1. \A p \in Pids : (IF p \in Group \cap mortals THEN Dead(p) ELSE proc[p])
          \in [state : {"free", "running", "zombie"}, owner : {"nobody", "call", "stranger"},
              group : Pids, pipe : BOOLEAN, stubborn : BOOLEAN]
      BY DeadKeeps DEF ChildInv, ChildTypeOK
  <2>2. proc' \in [Pids -> [state : {"free", "running", "zombie"}, owner : {"nobody", "call", "stranger"},
                            group : Pids, pipe : BOOLEAN, stubborn : BOOLEAN]]
      BY <1>1, <2>1
  <2>3. struck' \in BOOLEAN
      BY DEF Signalled
  <2> QED
      BY <2>2, <2>3 DEF ChildInv, ChildTypeOK
<1>5. \A p \in Pids : proc'[p].owner = "stranger" => proc'[p].group = p
    BY <1>1, DeadKeeps DEF ChildInv
<1>6. proc'[Leader].owner = "call" /\ proc'[Leader].state # "free" /\ proc'[Leader].group = Leader
    BY <1>1, DeadKeeps, ChildAssumption DEF ChildInv
<1> QED
    BY <1>3, <1>4, <1>5, <1>6 DEF ChildInv, StrangersSpared

LEMMA ChildStep == ChildInv /\ [ChildNext]_childVars => ChildInv'
<1> SUFFICES ASSUME ChildInv, [ChildNext]_childVars PROVE ChildInv'
    OBVIOUS
<1>1. CASE Fork
  <2>1. PICK parent, p \in Pids :
          /\ Alive(parent) /\ proc[parent].owner = "call" /\ Unused(p)
          /\ \E group \in {proc[parent].group, p}, pipe \in {proc[parent].pipe, FALSE},
                stubborn \in BOOLEAN : Run(p, "call", group, pipe, stubborn)
      BY <1>1 DEF Fork
  <2>2. proc[parent].group \in Pids /\ proc[parent].pipe \in BOOLEAN
      BY DEF ChildInv, ChildTypeOK
  <2> QED
      BY <1>1, <2>1, <2>2, RunKeeps DEF Fork
<1>2. CASE Stranger
    BY <1>2, RunKeeps DEF Stranger
<1>3. CASE Exit
  <2>1. PICK p \in Pids : Alive(p) /\ proc' = [proc EXCEPT ![p] = Dead(p)]
      BY <1>3 DEF Exit
  <2> QED
      BY <1>3, <2>1, DeadKeeps DEF Exit, ChildInv, ChildTypeOK, StrangersSpared
<1>4. CASE Spawn
    BY <1>4, ChildAssumption DEF Spawn, Run, ChildInv, ChildTypeOK, StrangersSpared
<1>5. CASE RefuseShell
    BY <1>5 DEF RefuseShell, ChildInv, ChildTypeOK, StrangersSpared
<1>6. CASE Finished
    BY <1>6, ChildAssumption DEF Finished, Reaped, Free, ChildInv, ChildTypeOK, StrangersSpared
<1>7. CASE TimeOut
    BY <1>7 DEF TimeOut, Bears, ChildInv, ChildTypeOK, StrangersSpared
<1>8. CASE Terminate
    BY <1>8, SignalKeeps DEF Terminate
<1>9. CASE Grace
    BY <1>9 DEF Grace, ChildInv, ChildTypeOK, StrangersSpared
<1>10. CASE Kill
    BY <1>10, SignalKeeps DEF Kill
<1>11. CASE Reap
    BY <1>11, ChildAssumption DEF Reap, Reaped, Free, ChildInv, ChildTypeOK, StrangersSpared
<1>12. CASE KillProcess
  <2>1. PICK p \in Pids : Alive(p) /\ proc' = [proc EXCEPT ![p] = Dead(p)]
      BY <1>12 DEF KillProcess
  <2> QED
      BY <1>12, <2>1, DeadKeeps DEF KillProcess, ChildInv, ChildTypeOK, StrangersSpared
<1>13. CASE UNCHANGED childVars
    BY <1>13 DEF childVars, ChildInv, ChildTypeOK, StrangersSpared
<1> QED
    BY <1>1, <1>2, <1>3, <1>4, <1>5, <1>6, <1>7, <1>8, <1>9, <1>10, <1>11, <1>12, <1>13
    DEF ChildNext, ServerStep

\* The order of command.py's kill - the group first, its leader reaped last - keeps every signal
\* from processes the call did not start, whatever ids the kernel hands out meanwhile.
THEOREM StrangersSafe == ChildSpec => []StrangersSpared
<1>1. ChildInv => StrangersSpared
    BY DEF ChildInv
<1> QED
    BY ChildBegins, ChildStep, <1>1, PTL DEF ChildSpec

\* Once the group was killed its leader is a zombie, so nobody is left in the group who could fork.
GroupInv ==
  ChildInv /\ (server = "reap" =>
                 /\ proc[Leader].state = "zombie" /\ proc[Leader].owner = "call"
                 /\ \A p \in Pids : proc[p].state = "running" => proc[p].group # Leader)

LEMMA GroupStep == GroupInv /\ [ChildNext]_childVars => GroupInv'
<1> SUFFICES ASSUME GroupInv, [ChildNext]_childVars PROVE GroupInv'
    OBVIOUS
<1>0. ChildInv'
    BY ChildStep DEF GroupInv
<1>1. CASE server # "reap" /\ server # "kill"
  <2>1. server' # "reap"
      BY <1>1 DEF ChildNext, ServerStep, childVars, Fork, Stranger, Exit, Spawn, RefuseShell, Finished, TimeOut,
                  Terminate, Grace, Kill, Reap, KillProcess
  <2> QED
      BY <1>0, <2>1 DEF GroupInv
<1>2. CASE server' # "reap"
    BY <1>0, <1>2 DEF GroupInv
<1>3. CASE Kill
  <2>1. server = "kill" /\ proc' = [p \in Pids |-> IF p \in Group \cap Pids THEN Dead(p) ELSE proc[p]]
      BY <1>3 DEF Kill, Signalled
  <2>2. proc[Leader].owner = "call" /\ proc[Leader].state # "free" /\ proc[Leader].group = Leader /\ Leader \in Pids
      BY <2>1, ChildAssumption DEF GroupInv, ChildInv
  <2>3. \A p \in Pids : proc[p].state \in {"free", "running", "zombie"} /\ DOMAIN proc[p] = DOMAIN Free
      BY DEF GroupInv, ChildInv, ChildTypeOK, Free
  <2>4. \A p \in Pids : Dead(p).state # "running"
    <3>1. ASSUME NEW p \in Pids  PROVE [proc[p] EXCEPT !.state = "zombie"].state = "zombie"
        BY <2>3 DEF Free
    <3> QED
        BY <3>1 DEF Dead, Free
  <2>5. \A p \in Pids : proc'[p].state = "running" => proc'[p].group # Leader
      BY <2>1, <2>4 DEF Group, Bears, Alive
  <2>6. proc'[Leader].state = "zombie" /\ proc'[Leader].owner = "call"
    <3>1. CASE proc[Leader].state = "running"
      <4>1. Leader \in Group
          BY <2>2, <3>1 DEF Group, Bears, Alive
      <4>2. proc'[Leader] = [proc[Leader] EXCEPT !.state = "zombie"]
          BY <2>1, <2>2, <4>1 DEF Dead
      <4> QED
          BY <2>2, <2>3, <4>2 DEF Free
    <3>2. CASE proc[Leader].state = "zombie"
        BY <2>1, <2>2, <3>2 DEF Group, Alive
    <3> QED
        BY <2>2, <2>3, <3>1, <3>2
  <2> QED
      BY <1>0, <2>5, <2>6 DEF GroupInv
<1>4. CASE server = "reap" /\ server' = "reap"
  <2>0. /\ proc[Leader].state = "zombie" /\ proc[Leader].owner = "call" /\ Leader \in Pids
        /\ \A p \in Pids : proc[p].state = "running" => proc[p].group # Leader
        /\ proc = [p \in Pids |-> proc[p]]
      BY <1>4, ChildAssumption DEF GroupInv, ChildInv, ChildTypeOK
  <2>1. CASE Fork
    <3>1. PICK parent, p \in Pids :
            /\ Alive(parent) /\ proc[parent].owner = "call" /\ Unused(p)
            /\ \E group \in {proc[parent].group, p}, pipe \in {proc[parent].pipe, FALSE},
                  stubborn \in BOOLEAN : Run(p, "call", group, pipe, stubborn)
        BY <2>1 DEF Fork
    <3>2. PICK group \in {proc[parent].group, p} : \E pipe \in {proc[parent].pipe, FALSE}, stubborn \in BOOLEAN :
            Run(p, "call", group, pipe, stubborn)
        BY <3>1
    <3>3. p # Leader /\ group # Leader
        BY <2>0, <3>1, <3>2 DEF Unused, Alive
    <3> QED
        BY <1>0, <1>4, <2>0, <3>2, <3>3 DEF Run, GroupInv
  <2>2. CASE Stranger
    <3>1. PICK p \in Pids : Unused(p) /\ Run(p, "stranger", p, FALSE, FALSE)
        BY <2>2 DEF Stranger
    <3>2. p # Leader
        BY <2>0, <3>1 DEF Unused
    <3> QED
        BY <1>0, <2>0, <3>1, <3>2 DEF Run, GroupInv
  <2>3. CASE Exit
    <3>1. PICK p \in Pids : Alive(p) /\ proc' = [proc EXCEPT ![p] = Dead(p)]
        BY <2>3 DEF Exit
    <3>2. p # Leader /\ Dead(p) = Free
        BY <2>0, <3>1 DEF Alive, Dead
    <3> QED
        BY <1>0, <2>0, <3>1, <3>2 DEF Free, GroupInv
  <2>4. CASE UNCHANGED childVars
      BY <1>0, <2>0, <2>4 DEF childVars, GroupInv
  <2> QED
      BY <1>4, <2>1, <2>2, <2>3, <2>4
      DEF ChildNext, ServerStep, Spawn, RefuseShell, Finished, TimeOut, Terminate, Grace, Kill, Reap, KillProcess
<1>5. server = "kill" /\ server' = "reap" => Kill
    BY DEF ChildNext, ServerStep, childVars, Fork, Stranger, Exit, Spawn, RefuseShell, Finished, TimeOut,
           Terminate, Grace, Reap, KillProcess
<1> QED
    BY <1>1, <1>2, <1>3, <1>4, <1>5

\* When a call ends at its timeout (command.py's kill and reap), whatever was forked meanwhile and whoever ignored
\* SIGTERM, nothing of it runs in its group.
THEOREM GroupsEnd == ChildSpec => GroupGone
<1>1. ChildInit => GroupInv
    BY ChildBegins DEF GroupInv, ChildInit, ChildIdle
<1>2. ASSUME GroupInv, [ChildNext]_childVars, server = "reap", server' = "over"
      PROVE  \A p \in Pids : proc'[p].state = "running" /\ proc'[p].group = Leader => proc'[p].owner = "stranger"
  <2>1. Reap
      BY <1>2 DEF ChildNext, ServerStep, childVars, Fork, Stranger, Exit, Spawn, RefuseShell, Finished, TimeOut,
                  Terminate, Grace, Kill, KillProcess
  <2>2. /\ \A p \in Pids : proc[p].state = "running" => proc[p].group # Leader
        /\ proc = [p \in Pids |-> proc[p]] /\ Leader \in Pids
      BY <1>2, ChildAssumption DEF GroupInv, ChildInv, ChildTypeOK
  <2> QED
      BY <2>1, <2>2 DEF Reap, Reaped, Free
<1> QED
    BY <1>1, GroupStep, <1>2, PTL DEF ChildSpec, GroupGone

-----------------------------------------------------------------------------
(* The Linux session. *)

\* A command whose world stands still runs again in a session that is there, or at a seat that is
\* not its user's, or in one that a process left over from a dead session told of; and it fails only
\* then, or when the lookup, which did not go wrong, found no X11 session.
DeadDisplay == \E display \in procs : ~\E l \in OwnAt(display) : Kind(l) = "x11"

\* One login is active, none shares its display with another, and each of the server's user has a process.
SeatInv ==
  /\ \A k \in Logins, l \in Logins : seat[k] = "active" /\ seat[l] = "active" => k = l
  /\ \A k \in Logins, l \in Logins : seat[k] # "gone" /\ seat[l] # "gone" /\ On(k) = On(l) => k = l
  /\ \A l \in Logins : seat[l] # "gone" /\ Who(l) = Me => On(l) \in procs

Excused == ~OwnX11AtSeat \/ DeadDisplay

SessionInv ==
  /\ SessionTypeOK
  /\ DOMAIN using = Commands /\ socket = [d \in Displays |-> socket[d]]
  /\ SeatInv
  /\ \A c \in Commands : command[c] = "rerun" /\ steady[c] => Serves(using[c]) \/ Excused
  /\ StaleSessionHeals

LEMMA SessionBegins == SessionInit => SessionInv
BY SessionAssumption
DEF SessionInit, SessionIdle, SessionInv, SeatInv, SessionTypeOK, StaleSessionHeals, Displays, Empty

\* What a truthful lookup finds is a login at the seat; X11 comes first.
LEMMA DetectedServes ==
  ASSUME SessionTypeOK, SeatInv, NEW detected \in Detected
  PROVE  /\ detected.mode \in {"headless", "x11", "wayland"} /\ detected.display \in Displays
         /\ detected.mode = "x11" => Serves(detected) \/ Excused
         /\ detected.mode # "x11" => Excused
<1>1. CASE Candidates = {}
    BY <1>1 DEF Detected, Candidates, Active, Headless, Displays, Excused, OwnX11AtSeat
<1>2. CASE Candidates # {}
  <2>0. PICK l \in Candidates : detected \in Sightings(l)
      BY <1>2 DEF Detected
  <2>1. PICK d \in DisplaysFound(l) : detected = Session(l, d)
      BY <2>0 DEF Sightings
  <2>2. /\ l \in Logins /\ seat[l] = "active" /\ Kind(l) \in {"x11", "wayland"}
        /\ Kind(l) = "wayland" => Active("x11") = {}
      BY DEF Candidates, Active
  <2>3. /\ detected.mode = Kind(l) /\ detected.display = d /\ detected.user = Who(l) /\ d \in Displays
      BY <2>1, <2>2 DEF Session, DisplaysFound, SessionTypeOK, Displays
  <2>4. CASE Who(l) = Me
    <3>1. d \in procs
        BY <2>2, <2>4 DEF DisplaysFound, SeatInv
    <3>2. (\E k \in OwnAt(d) : Kind(k) = "x11") \/ DeadDisplay
        BY <3>1 DEF DeadDisplay
    <3> QED
        BY <2>2, <2>3, <2>4, <3>2 DEF Excused, OwnX11AtSeat, Serves
  <2>5. CASE Who(l) # Me
      BY <2>2, <2>3, <2>5 DEF Excused, OwnX11AtSeat, SeatInv, Active
  <2> QED
      BY <2>4, <2>5
<1> QED
    BY <1>1, <1>2

LEMMA MisdetectedTypes ==
  ASSUME NEW detected \in Misdetected
  PROVE  detected.mode \in {"headless", "x11", "wayland"} /\ detected.display \in Displays
BY DEF Misdetected, Candidates, Active, Session, Headless, Displays

LEMMA FoundTypes ==
  ASSUME SessionTypeOK, SeatInv, NEW detected \in Detected \cup Misdetected
  PROVE  detected.mode \in {"headless", "x11", "wayland"} /\ detected.display \in Displays
BY DetectedServes, MisdetectedTypes

LEMMA SpendKeeps == SessionTypeOK /\ Spend => sessionFaults' \in 0..MaxSessionFaults
BY SessionAssumption DEF SessionTypeOK, Spend

LEMMA DetectKeeps ==
  ASSUME SessionTypeOK, NEW detected, Detect(detected)
  PROVE  /\ sessionFaults' \in 0..MaxSessionFaults /\ steady' \in [Commands -> BOOLEAN]
         /\ \A c \in Commands : steady'[c] => steady[c] /\ detected \in Detected
<1>1. CASE detected \in Detected /\ UNCHANGED <<steady, sessionFaults>>
    BY <1>1 DEF SessionTypeOK
<1>2. CASE detected \in Misdetected /\ Spend /\ steady' = [c \in Commands |-> FALSE]
    BY <1>2, SpendKeeps
<1> QED
    BY <1>1, <1>2 DEF Detect

\* The cache may be filled by any call; it does not touch a command.
LEMMA GetSessionKeeps ==
  ASSUME SessionTypeOK, SeatInv, GetSession
  PROVE  /\ sessionFaults' \in 0..MaxSessionFaults /\ steady' \in [Commands -> BOOLEAN]
         /\ \A c \in Commands : steady'[c] => steady[c]
         /\ cache'.mode \in {"unknown", "headless", "x11", "wayland"} /\ cache'.display \in Displays
<1>1. CASE cache = Empty
  <2>1. PICK detected \in Detected \cup Misdetected : Detect(detected) /\ cache' = detected
      BY <1>1 DEF GetSession
  <2> QED
      BY <2>1, DetectKeeps, FoundTypes
<1>2. CASE cache # Empty
    BY <1>2 DEF GetSession, SessionTypeOK
<1> QED
    BY <1>1, <1>2

\* Whatever the users do starts every command's waiting over.
LEMMA DisturbKeeps ==
  ASSUME SessionInv, Disturb, seat' \in [Logins -> {"gone", "background", "active"}], SeatInv', procs' \subseteq Displays,
         socket' \in [Displays -> {"none", "root", "other"} \cup {Who(l) : l \in Logins}]
  PROVE  SessionInv'
<1>1. /\ sessionFaults' \in 0..MaxSessionFaults
      /\ steady' = [c \in Commands |-> FALSE] /\ UNCHANGED <<cache, command, using>>
    BY SpendKeeps DEF SessionInv, Disturb
<1> QED
    BY <1>1 DEF SessionInv, SessionTypeOK, StaleSessionHeals

\* While nobody touches the seat, what excuses a failure goes on excusing it.
LEMMA SeatRests ==
  ASSUME UNCHANGED <<seat, socket, procs>>
  PROVE  /\ SeatInv' = SeatInv /\ Excused' = Excused
         /\ \A s : Serves(s)' = Serves(s)
BY DEF SeatInv, Excused, OwnX11AtSeat, DeadDisplay, Active, OwnAt, Serves

LEMMA HealsExcused == StaleSessionHeals <=> \A c \in Commands : command[c] = "failed" /\ steady[c] => Excused
BY DEF StaleSessionHeals, Excused, DeadDisplay

\* A step of a command, while nobody touches the seat: it must only account for the commands it moved.
LEMMA CommandMoves ==
  ASSUME SessionInv, SessionTypeOK', UNCHANGED <<seat, socket, procs>>, DOMAIN using' = Commands,
         \A c \in Commands : command'[c] = "rerun" /\ steady'[c] => Serves(using'[c]) \/ Excused,
         \A c \in Commands : command'[c] = "failed" /\ steady'[c] => Excused
  PROVE  SessionInv'
<1>1. StaleSessionHeals'
    BY HealsExcused, SeatRests DEF StaleSessionHeals, Excused, DeadDisplay, OwnX11AtSeat, Active, OwnAt
<1>2. SeatInv' /\ (socket = [d \in Displays |-> socket[d]])'
    BY SeatRests DEF SessionInv
<1>3. (\A c \in Commands : command[c] = "rerun" /\ steady[c] => Serves(using[c]) \/ Excused)'
    BY SeatRests DEF Serves, OwnAt
<1> QED
    BY <1>1, <1>2, <1>3 DEF SessionInv, Serves, OwnAt

LEMMA AskKeeps == ASSUME SessionInv, NEW c \in Commands, Ask(c) PROVE SessionInv'
<1>0. \A d \in Commands : command[d] = "failed" /\ steady[d] => Excused
    BY HealsExcused DEF SessionInv
<1>1. CASE cache = Empty /\ GetSession /\ UNCHANGED <<command, seat, socket, procs, using, shell>>
  <2>1. SessionTypeOK'
      BY <1>1, GetSessionKeeps DEF SessionInv, SessionTypeOK
  <2>2. \A d \in Commands : steady'[d] => steady[d]
      BY <1>1, GetSessionKeeps DEF SessionInv
  <2> QED
      BY <1>0, <1>1, <2>1, <2>2, CommandMoves DEF SessionInv
<1>2. CASE /\ cache # Empty
           /\ command' = [command EXCEPT ![c] = IF cache.mode = "x11" THEN "begin" ELSE "refused"]
           /\ steady' = [steady EXCEPT ![c] = TRUE]
           /\ UNCHANGED <<cache, sessionFaults, seat, socket, procs, using, shell>>
  <2>1. SessionTypeOK'
      BY <1>2 DEF SessionInv, SessionTypeOK
  <2>2. \A d \in Commands : command'[d] \in {"rerun", "failed"} => d # c /\ command'[d] = command[d] /\ steady'[d] = steady[d]
      BY <1>2 DEF SessionInv, SessionTypeOK
  <2> QED
      BY <1>0, <1>2, <2>1, <2>2, CommandMoves DEF SessionInv
<1> QED
    BY <1>1, <1>2 DEF Ask

\* A command that fails in the session it runs in did not have it, or is no longer steady.
LEMMA AttemptKeeps ==
  ASSUME SessionInv, NEW c \in Commands, NEW onFailure \in {"redetect", "failed"},
         (command[c] = "run" /\ onFailure = "redetect") \/ command[c] = "rerun",
         Attempt(c, onFailure), UNCHANGED <<seat, socket, procs, cache, using, shell>>
  PROVE  SessionInv'
<1>0. \A d \in Commands : command[d] = "failed" /\ steady[d] => Excused
    BY HealsExcused DEF SessionInv
<1>1. CASE command' = [command EXCEPT ![c] = "done"] /\ UNCHANGED <<steady, sessionFaults>>
  <2>1. SessionTypeOK'
      BY <1>1 DEF SessionInv, SessionTypeOK
  <2> QED
      BY <1>0, <1>1, <2>1, CommandMoves DEF SessionInv, SessionTypeOK
<1>2. CASE ~Serves(using[c]) /\ command' = [command EXCEPT ![c] = onFailure]
             /\ UNCHANGED <<steady, sessionFaults>>
  <2>1. SessionTypeOK'
      BY <1>2 DEF SessionInv, SessionTypeOK
  <2> QED
      BY <1>0, <1>2, <2>1, CommandMoves DEF SessionInv, SessionTypeOK
<1>3. CASE /\ Spend /\ steady' = [steady EXCEPT ![c] = FALSE]
           /\ command' \in {[command EXCEPT ![c] = onFailure], [command EXCEPT ![c] = "failed"]}
  <2>1. SessionTypeOK'
      BY <1>3, SpendKeeps DEF SessionInv, SessionTypeOK
  <2> QED
      BY <1>0, <1>3, <2>1, CommandMoves DEF SessionInv, SessionTypeOK
<1> QED
    BY <1>1, <1>2, <1>3 DEF Attempt

LEMMA RedetectLooksAgain == ASSUME SessionInv, NEW c \in Commands, Redetect(c) PROVE SessionInv'
<1>1. PICK detected \in Detected \cup Misdetected :
        /\ Detect(detected)
        /\ cache' = detected
        /\ using' = [using EXCEPT ![c] = detected]
        /\ command' = [command EXCEPT ![c] = IF detected.mode = "x11" THEN "rerun" ELSE "failed"]
    BY DEF Redetect
<1>2. UNCHANGED <<seat, socket, procs, shell>>
    BY DEF Redetect
<1>3. SessionTypeOK'
    BY <1>1, <1>2, DetectKeeps, FoundTypes DEF SessionInv, SessionTypeOK
<1>4. \A d \in Commands : steady'[d] => steady[d] /\ detected \in Detected
    BY <1>1, DetectKeeps DEF SessionInv
<1>5. \A d \in Commands : command[d] = "failed" /\ steady[d] => Excused
    BY HealsExcused DEF SessionInv
<1>6. detected \in Detected => (detected.mode = "x11" => Serves(detected) \/ Excused) /\ (detected.mode # "x11" => Excused)
    BY DetectedServes DEF SessionInv
<1>7. ASSUME NEW d \in Commands, command'[d] = "rerun", steady'[d] PROVE Serves(using'[d]) \/ Excused
    BY <1>1, <1>4, <1>6, <1>7 DEF SessionInv, SessionTypeOK
<1>8. ASSUME NEW d \in Commands, command'[d] = "failed", steady'[d] PROVE Excused
    BY <1>1, <1>4, <1>5, <1>6, <1>8 DEF SessionInv, SessionTypeOK
<1> QED
    BY <1>1, <1>2, <1>3, <1>7, <1>8, CommandMoves DEF SessionInv

\* The users' steps keep one login active, displays apart and every login of the server's user with a process.
LEMMA UsersKeepSeats == ASSUME SessionInv, UserStep PROVE SeatInv' /\ procs' \subseteq Displays
<1> USE DEF SessionInv, SessionTypeOK, SeatInv
<1>1. ASSUME NEW l \in Logins, LogIn(l) PROVE SeatInv' /\ procs' \subseteq Displays
    BY <1>1 DEF LogIn, Displays
<1>2. ASSUME NEW l \in Logins, LogOut(l) PROVE SeatInv' /\ procs' \subseteq Displays
    BY <1>2 DEF LogOut
<1>3. ASSUME NEW l \in Logins, Switch(l) PROVE SeatInv' /\ procs' \subseteq Displays
    BY <1>3 DEF Switch
<1>4. ASSUME NEW d \in Displays, Plant(d) \/ LeftoverEnds(d) PROVE SeatInv' /\ procs' \subseteq Displays
    BY <1>4 DEF Plant, LeftoverEnds, OwnAt
<1> QED
    BY <1>1, <1>2, <1>3, <1>4 DEF UserStep

LEMMA UsersKeep == ASSUME SessionInv, UserStep PROVE SessionInv'
<1>1. Disturb
    BY DEF UserStep, LogIn, LogOut, Switch, Plant, LeftoverEnds
<1>2. seat' \in [Logins -> {"gone", "background", "active"}]
    BY DEF UserStep, LogIn, LogOut, Switch, Plant, LeftoverEnds, SessionInv, SessionTypeOK
<1>3. socket \in [Displays -> {"none", "root", "other"} \cup {Who(k) : k \in Logins}]
    BY DEF SessionInv, SessionTypeOK
<1>4. \/ socket' = socket
      \/ \E l \in Logins : \E owner \in {"none", "root", Who(l)} : socket' = [socket EXCEPT ![On(l)] = owner]
      \/ \E d \in Displays : socket' = [socket EXCEPT ![d] = "other"]
    BY DEF UserStep, LogIn, LogOut, Switch, Plant, LeftoverEnds
<1>5. socket' \in [Displays -> {"none", "root", "other"} \cup {Who(k) : k \in Logins}]
    BY <1>3, <1>4
<1> QED
    BY <1>1, <1>2, <1>5, UsersKeepSeats, DisturbKeeps

LEMMA SessionStep == SessionInv /\ [SessionNext]_sessionVars => SessionInv'
<1> SUFFICES ASSUME SessionInv, [SessionNext]_sessionVars PROVE SessionInv'
    OBVIOUS
<1>0. \A d \in Commands : command[d] = "failed" /\ steady[d] => Excused
    BY HealsExcused DEF SessionInv
<1>1. ASSUME NEW c \in Commands, CommandStep(c) PROVE SessionInv'
  <2>1. CASE Ask(c)
      BY <2>1, AskKeeps
  <2>2. CASE BeginCommand(c)
    <3>1. SessionTypeOK'
        BY <2>2 DEF BeginCommand, SessionInv, SessionTypeOK
    <3> QED
        BY <1>0, <2>2, <3>1, CommandMoves DEF BeginCommand, SessionInv, SessionTypeOK
  <2>3. CASE RunCommand(c)
      BY <2>3, AttemptKeeps DEF RunCommand
  <2>4. CASE Redetect(c)
      BY <2>4, RedetectLooksAgain
  <2>5. CASE Rerun(c)
      BY <2>5, AttemptKeeps DEF Rerun
  <2>6. CASE Answered(c)
    <3>1. SessionTypeOK'
        BY <2>6 DEF Answered, Empty, Displays, SessionInv, SessionTypeOK
    <3> QED
        BY <1>0, <2>6, <3>1, CommandMoves DEF Answered, SessionInv, SessionTypeOK
  <2> QED
      BY <1>1, <2>1, <2>2, <2>3, <2>4, <2>5, <2>6 DEF CommandStep
<1>2. CASE ShellCall
  <2>1. SessionTypeOK'
      BY <1>2, GetSessionKeeps DEF ShellCall, OwnSession, SessionInv, SessionTypeOK
  <2>2. \A d \in Commands : steady'[d] => steady[d]
      BY <1>2, GetSessionKeeps DEF ShellCall, OwnSession, SessionInv
  <2> QED
      BY <1>0, <1>2, <2>1, <2>2, CommandMoves DEF ShellCall, SessionInv
<1>3. CASE UserStep
    BY <1>3, UsersKeep
<1>4. CASE UNCHANGED sessionVars
  <2>1. SessionTypeOK'
      BY <1>4 DEF sessionVars, SessionInv, SessionTypeOK
  <2> QED
      BY <1>0, <1>4, <2>1, CommandMoves DEF sessionVars, SessionInv
<1> QED
    BY <1>1, <1>2, <1>3, <1>4 DEF SessionNext

\* With an X11 session of the server's user at the seat all along, nothing else failing and no process
\* left over with a display that is no X11 session of that user any more, a command that found a stale
\* session in session.py's one cache does not fail, whatever other commands do to the cache meanwhile.
THEOREM StaleSessionsHeal == SessionSpec => []StaleSessionHeals
<1>1. SessionInv => StaleSessionHeals
    BY DEF SessionInv
<1> QED
    BY SessionBegins, SessionStep, <1>1, PTL DEF SessionSpec

-----------------------------------------------------------------------------
(* The coordinates of pictures and clicks. *)

\* What a quotient is, and how far a rounded one is from it, as products: half a divisor.
LEMMA DivBounds ==
  ASSUME NEW n \in Int, NEW d \in Nat, d > 0
  PROVE  n \div d \in Int /\ d * (n \div d) <= n /\ n < d * (n \div d) + d
OBVIOUS

LEMMA ModIsRest ==
  ASSUME NEW n \in Int, NEW d \in Nat, d > 0
  PROVE  n = d * (n \div d) + (n % d)
OBVIOUS

LEMMA RoundsBounds ==
  ASSUME NEW n \in Int, NEW d \in Nat, d > 0, NEW m \in Rounds(n, d)
  PROVE  m \in Int /\ 2 * n - d <= 2 * (d * m) /\ 2 * (d * m) <= 2 * n + d
<1>1. 2 * n \in Int /\ 2 * n + d \in Int /\ 2 * d \in Nat /\ 2 * d > 0
    OBVIOUS
<1> DEFINE q == Round(n, d)
<1>2. q \in Int /\ (2 * d) * q <= 2 * n + d /\ 2 * n + d < (2 * d) * q + 2 * d
    BY <1>1, DivBounds DEF Round
<1>3. (2 * d) * q = 2 * (d * q) /\ (2 * d) * (q - 1) = 2 * (d * (q - 1))
    BY <1>2
<1>4. CASE m = q
    BY <1>2, <1>3, <1>4
<1>5. CASE (2 * n) % (2 * d) = d /\ m = q - 1
  <2>1. 2 * n = (2 * d) * ((2 * n) \div (2 * d)) + d
      BY <1>1, <1>5, ModIsRest
  <2> DEFINE h == (2 * n) \div (2 * d)
  <2>2. h \in Int
      BY <1>1, DivBounds
  <2> HIDE DEF h, q
  <2>3. 2 * n = (2 * d) * h + d
      BY <2>1 DEF h
  <2>4. (2 * d) * q <= (2 * d) * (h + 1) /\ (2 * d) * (h + 1) < (2 * d) * (q + 1)
      BY <1>2, <2>2, <2>3
  <2>5. q <= h + 1 /\ h + 1 < q + 1
      BY <1>1, <1>2, <2>2, <2>4
  <2>6. q = h + 1
      BY <1>2, <2>2, <2>5
  <2>7. 2 * (d * m) = 2 * n - d /\ m \in Int
      BY <1>2, <1>5, <2>2, <2>3, <2>6
  <2> QED
      BY <2>7
<1> QED
    BY <1>4, <1>5 DEF Rounds

LEMMA RoundTypes == \A a, b \in Int, d \in Nat \ {0} : Round(a * b, d) \in Int
<1> SUFFICES ASSUME NEW a \in Int, NEW b \in Int, NEW d \in Nat \ {0} PROVE Round(a * b, d) \in Int
    OBVIOUS
<1>1. 2 * (a * b) + d \in Int /\ 2 * d \in Nat /\ 2 * d > 0
    OBVIOUS
<1> QED
    BY <1>1, DivBounds DEF Round

LEMMA ClampBounds ==
  ASSUME NEW v \in Int, NEW low \in Int, NEW high \in Int, low <= high
  PROVE  /\ Clamp(v, low, high) \in low..high
         /\ v \in low..high => Clamp(v, low, high) = v
         /\ v < low => Clamp(v, low, high) = low
         /\ v > high => Clamp(v, low, high) = high
BY DEF Clamp, Larger

\* One axis of a click: a frame of w units from x on, a picture of k pixels, a thing from l to h.
AxisClick(x, w, k, l, h, p, a) ==
  /\ x \in Int /\ w \in Nat /\ w > 0 /\ k \in Nat /\ k > 0 /\ l \in Int /\ h \in Int
  /\ p \in Rounds(((l + h) \div 2 - x) * k, w) /\ p >= 0 /\ p <= k - 1
  /\ a \in Rounds(p * w, k)
AxisLanded(x, w, k, l, h, p, a) ==
  /\ (h - l - 2) * k >= w => Clamp(x + a, x, x + w - 1) \in l..(h - 1)
  /\ k <= w => \A b \in Rounds((Clamp(x + a, x, x + w - 1) - x) * k, w) : b = p

LEMMA AxisLands ==
  ASSUME NEW x, NEW w, NEW k, NEW l, NEW h, NEW p, NEW a, AxisClick(x, w, k, l, h, p, a)
  PROVE  AxisLanded(x, w, k, l, h, p, a)
<1>a. /\ x \in Int /\ w \in Nat /\ w > 0 /\ k \in Nat /\ k > 0 /\ l \in Int /\ h \in Int
      /\ p \in Rounds(((l + h) \div 2 - x) * k, w) /\ p >= 0 /\ p <= k - 1
      /\ a \in Rounds(p * w, k)
    BY DEF AxisClick
<1> USE <1>a
<1> DEFINE m == (l + h) \div 2
           e == a + x - m
           to == Clamp(x + a, x, x + w - 1)
<1>1. m \in Int /\ 2 * m <= l + h /\ l + h <= 2 * m + 1
    BY DivBounds
<1>2. p \in Int /\ 2 * ((m - x) * k) - w <= 2 * (w * p) /\ 2 * (w * p) <= 2 * ((m - x) * k) + w
    BY <1>1, RoundsBounds
<1>3. a \in Int /\ 2 * (p * w) - k <= 2 * (k * a) /\ 2 * (k * a) <= 2 * (p * w) + k
    BY <1>2, RoundsBounds
<1>0. a \in Int /\ x + a \in Int /\ x + w - 1 \in Int /\ x <= x + w - 1
    BY <1>3
<1>4. e \in Int /\ to \in x..(x + w - 1)
  <2>2. to \in x..(x + w - 1)
    <3> DEFINE v == x + a
               high == x + w - 1
    <3>1. v \in Int /\ high \in Int /\ x <= high
        BY <1>0
    <3> HIDE DEF v, high
    <3>2. Clamp(v, x, high) \in x..high
        BY <3>1, ClampBounds
    <3> QED
        BY <3>2 DEF v, high
  <2>3. e \in Int
      BY <1>1, <1>3
  <2> QED
      BY <2>2, <2>3
<1> HIDE DEF m
<1>5. 2 * (k * e) <= w + k /\ -(w + k) <= 2 * (k * e)
  <2>1. k * e = k * a - (m - x) * k
      BY <1>1, <1>3
  <2> QED
      BY <1>1, <1>2, <1>3, <1>4, <2>1
<1>6. a >= 0 /\ a <= w
  <2>1. p * w >= 0 /\ p * w <= (k - 1) * w
      BY <1>2
  <2>2. 2 * (k * a) >= -k
      BY <1>2, <1>3, <2>1
  <2>3. a >= 0
    <3>1. ASSUME a <= -1 PROVE FALSE
      <4>1. k * a <= -k
          BY <1>3, <3>1
      <4> QED
          BY <1>3, <2>2, <4>1
    <3> QED
        BY <1>3, <3>1
  <2>4. 2 * (k * a) <= 2 * (k * w) - 2 * w + k
      BY <1>2, <1>3, <2>1
  <2>5. ASSUME a >= w + 1 PROVE FALSE
    <3>1. k * a >= k * w + k
        BY <1>3, <2>5
    <3> QED
        BY <1>3, <2>4, <3>1
  <2> QED
      BY <1>3, <2>3, <2>5
<1>7. 2 * (k * a) <= 2 * (k * w) - 2 * w + k
  <2>1. p * w <= (k - 1) * w
      BY <1>2
  <2> QED
      BY <1>2, <1>3, <2>1
<1> HIDE DEF e, to
<1>8. ASSUME (h - l - 2) * k >= w PROVE to \in l..(h - 1)
  <2> DEFINE H == h - l
  <2>1. H \in Int /\ (H - 2) * k >= w
      BY <1>8
  <2> HIDE DEF H
  <2>2. H >= 3
    <3>1. ASSUME H <= 2 PROVE FALSE
      <4>1. (H - 2) * k <= 0
          BY <2>1, <3>1
      <4> QED
          BY <2>1, <4>1
    <3> QED
        BY <2>1, <3>1
  <2>3. w + k <= k * (H - 1)
      BY <2>1
  <2>4. k * (2 * e) <= k * (H - 1) /\ k * (-(H - 1)) <= k * (2 * e)
      BY <1>4, <1>5, <2>1, <2>3
  <2>5. 2 * e <= H - 1 /\ -(H - 1) <= 2 * e
      BY <1>4, <2>1, <2>4
  <2>6. x + a = m + e
      BY <1>1, <1>3 DEF e
  <2>7. l <= x + a /\ x + a <= h - 1
      BY <1>1, <1>3, <1>4, <2>1, <2>5, <2>6 DEF H
  <2>8. CASE a <= w - 1
    <3>1. to = x + a
        BY <1>0, <1>6, <2>8, ClampBounds DEF to
    <3> QED
        BY <1>3, <2>7, <3>1
  <2>9. CASE a = w
    <3>1. to = x + w - 1
        BY <1>0, <2>9, ClampBounds DEF to
    <3>2. 2 * w <= k
        BY <1>7, <2>9
    <3>3. e >= 0
      <4>1. ASSUME e <= -1 PROVE FALSE
        <5>1. k * e <= -k
            BY <1>4, <4>1
        <5> QED
            BY <1>4, <1>5, <3>2, <5>1
      <4> QED
          BY <1>4, <4>1
    <3>4. m >= l + 1
        BY <1>1, <2>2 DEF H
    <3>5. x + w >= l + 1
        BY <1>1, <1>4, <2>6, <2>9, <3>3, <3>4
    <3> QED
        BY <2>7, <2>9, <3>1, <3>5
  <2> QED
      BY <1>3, <1>6, <2>8, <2>9
<1>9. ASSUME k <= w, NEW b \in Rounds((to - x) * k, w) PROVE b = p
  <2>1. a <= w - 1
    <3>1. ASSUME a = w PROVE FALSE
        BY <1>7, <1>9, <3>1
    <3> QED
        BY <1>3, <1>6, <3>1
  <2>2. to = x + a
      BY <1>0, <1>6, <2>1, ClampBounds DEF to
  <2>3. (to - x) * k = k * a
      BY <1>3, <2>2
  <2>4. b \in Int /\ 2 * (k * a) - w <= 2 * (w * b) /\ 2 * (w * b) <= 2 * (k * a) + w
    <3>1. (to - x) * k \in Int
        BY <1>3, <2>3
    <3> QED
        BY <2>3, <3>1, RoundsBounds
  <2>5. 2 * (w * (b - p)) <= w + k /\ -(w + k) <= 2 * (w * (b - p))
    <3>1. w * (b - p) = w * b - p * w
        BY <1>2, <2>4
    <3> QED
        BY <1>2, <1>3, <2>4, <3>1
  <2>6. CASE k < w
    <3>1. ASSUME b - p >= 1 PROVE FALSE
      <4>1. w * (b - p) >= w
          BY <1>2, <2>4, <3>1
      <4> QED
          BY <1>2, <2>4, <2>5, <2>6, <4>1
    <3>2. ASSUME b - p <= -1 PROVE FALSE
      <4>1. w * (b - p) <= -w
          BY <1>2, <2>4, <3>2
      <4> QED
          BY <1>2, <2>4, <2>5, <2>6, <4>1
    <3> QED
        BY <1>2, <2>4, <3>1, <3>2
  <2>7. CASE k = w
    <3>1. ASSUME NEW u \in Int, NEW v \in Int,
                 2 * (w * v) - w <= 2 * (w * u), 2 * (w * u) <= 2 * (w * v) + w
          PROVE  u = v
      <4>1. w * (u - v) = w * u - w * v
          OBVIOUS
      <4>2. ASSUME u - v >= 1 PROVE FALSE
        <5>1. w * (u - v) >= w
            BY <4>2
        <5> QED
            BY <3>1, <4>1, <5>1
      <4>3. ASSUME u - v <= -1 PROVE FALSE
        <5>1. w * (u - v) <= -w
            BY <4>3
        <5> QED
            BY <3>1, <4>1, <5>1
      <4> QED
          BY <4>2, <4>3
    <3>2. a = p
        BY <1>2, <1>3, <2>7, <3>1
    <3>3. b = a
        BY <1>3, <2>4, <2>7, <3>1
    <3> QED
        BY <3>2, <3>3
  <2> QED
      BY <1>9, <2>6, <2>7
<1> QED
    BY <1>8, <1>9 DEF AxisLanded, to

\* One axis of a zoom: of the pixels from l to h, those of the picture are inside what is captured.
LEMMA AxisCovers ==
  ASSUME NEW x \in Int, NEW w \in Nat, w > 0, NEW k \in Nat, k > 0, NEW l \in Int, NEW h \in Int
  PROVE  LET low == Clamp(x + (l * w) \div k, x, x + w)
             high == Clamp(x + Up(h * w, k), x, x + w)
         IN /\ low \in x..(x + w) /\ high \in x..(x + w)
            /\ \A i \in 0..(k - 1) : i >= l /\ i <= h - 1 =>
                 (low - x) * k <= i * w /\ (i + 1) * w <= (high - x) * k
<1> DEFINE u == (l * w) \div k
           v == Up(h * w, k)
           low == Clamp(x + u, x, x + w)
           high == Clamp(x + v, x, x + w)
<1>1. u \in Int /\ k * u <= l * w
    BY DivBounds
<1>2. v \in Int /\ h * w <= k * v
  <2>1. -(h * w) \in Int
      OBVIOUS
  <2>2. (-(h * w)) \div k \in Int /\ k * ((-(h * w)) \div k) <= -(h * w)
      BY <2>1, DivBounds
  <2>3. v = -((-(h * w)) \div k)
      BY DEF Up
  <2> DEFINE t == (-(h * w)) \div k
  <2> HIDE DEF t, v
  <2>4. t \in Int /\ k * t <= -(h * w) /\ v = -t
      BY <2>2, <2>3 DEF t
  <2>5. k * v = -(k * t)
      BY <2>4
  <2> QED
      BY <2>4, <2>5
<1> HIDE DEF u, v
<1>3. low \in x..(x + w) /\ high \in x..(x + w)
    BY <1>1, <1>2, ClampBounds
<1>4. ASSUME NEW i \in 0..(k - 1), i >= l, i <= h - 1
      PROVE  (low - x) * k <= i * w /\ (i + 1) * w <= (high - x) * k
  <2>1. i * w >= 0 /\ i * w >= l * w /\ (i + 1) * w <= h * w /\ (i + 1) * w <= k * w
      BY <1>4
  <2>2. low = x \/ low = x + u \/ (low = x + w /\ u > w)
      BY <1>1, ClampBounds
  <2>3. high = x + w \/ high = x + v \/ (high = x /\ v < 0)
      BY <1>2, ClampBounds
  <2>4. (low - x) * k <= i * w
    <3>1. CASE low = x
        BY <2>1, <3>1
    <3>2. CASE low = x + u
      <4>1. (low - x) * k = k * u
          BY <1>1, <3>2
      <4> QED
          BY <1>1, <2>1, <4>1
    <3>3. CASE low = x + w /\ u > w
      <4>1. (low - x) * k = k * w /\ k * w <= k * u
          BY <1>1, <3>3
      <4> QED
          BY <1>1, <2>1, <4>1
    <3> QED
        BY <2>2, <3>1, <3>2, <3>3
  <2>5. (i + 1) * w <= (high - x) * k
    <3>1. CASE high = x + w
      <4>1. (high - x) * k = k * w
          BY <3>1
      <4> QED
          BY <2>1, <4>1
    <3>2. CASE high = x + v
      <4>1. (high - x) * k = k * v
          BY <1>2, <3>2
      <4> QED
          BY <1>2, <2>1, <4>1
    <3>3. CASE high = x /\ v < 0
      <4>1. k * v < 0
          BY <1>2, <3>3
      <4>2. (i + 1) * w >= 0
          OBVIOUS
      <4> QED
          BY <1>2, <2>1, <4>1, <4>2
    <3> QED
        BY <2>3, <3>1, <3>2, <3>3
  <2> QED
      BY <2>4, <2>5
<1> QED
    BY <1>3, <1>4 DEF u, v

Frames == [x : Int, y : Int, width : Nat \ {0}, height : Nat \ {0},
           imageWidth : Nat \ {0}, imageHeight : Nat \ {0}]

LEMMA LargerIsPositive == ASSUME NEW n \in Int PROVE Larger(1, n) \in Nat \ {0}
BY DEF Larger

LEMMA FrameTypes ==
  ASSUME NEW g \in Geometries, NEW maxWidth \in Int
  PROVE  FrameFor(g, maxWidth) \in Frames
<1> DEFINE size == ImageSize(g.pixelWidth, g.pixelHeight, maxWidth)
<1>1. g.pixelWidth \in Nat \ {0} /\ g.pixelHeight \in Nat \ {0}
    BY DEF Geometries
<1>2. size[1] \in Nat \ {0} /\ size[2] \in Nat \ {0}
  <2>1. CASE maxWidth > 0 /\ g.pixelWidth > maxWidth
    <3>1. Round(g.pixelHeight * maxWidth, g.pixelWidth) \in Int
        BY <1>1, RoundTypes
    <3>2. size = <<maxWidth, Larger(1, Round(g.pixelHeight * maxWidth, g.pixelWidth))>>
        BY <2>1 DEF ImageSize
    <3> QED
        BY <2>1, <3>1, <3>2, LargerIsPositive
  <2>2. CASE ~(maxWidth > 0 /\ g.pixelWidth > maxWidth)
      BY <1>1, <2>2 DEF ImageSize
  <2> QED
      BY <2>1, <2>2
<1> HIDE DEF size
<1>3. FrameFor(g, maxWidth) = [x |-> g.x, y |-> g.y, width |-> g.width, height |-> g.height,
                               imageWidth |-> size[1], imageHeight |-> size[2]]
    BY DEF FrameFor, size
<1> QED
    BY <1>2, <1>3 DEF Frames, Geometries

\* With the frame of the picture a click lands on its thing, and the way back is the way there.
LEMMA ClickLands ==
  ASSUME NEW f \in Frames, NEW r \in Int \X Int \X Int \X Int,
         NEW p \in ScreenToImage(f, Middle(r)), InImage(f, p),
         NEW to \in ImageToScreen(f, p), NEW back \in ScreenToImage(f, to)
  PROVE  /\ Visible(r, f) => Within(to, r)
         /\ f.imageWidth <= f.width /\ f.imageHeight <= f.height => back = p
<1>1. /\ f.x \in Int /\ f.y \in Int /\ f.width \in Nat /\ f.width > 0 /\ f.height \in Nat /\ f.height > 0
      /\ f.imageWidth \in Nat /\ f.imageWidth > 0 /\ f.imageHeight \in Nat /\ f.imageHeight > 0
    BY DEF Frames
<1>2. r[1] \in Int /\ r[2] \in Int /\ r[3] \in Int /\ r[4] \in Int
    OBVIOUS
<1>3. /\ p[1] \in Rounds(((r[1] + r[3]) \div 2 - f.x) * f.imageWidth, f.width)
      /\ p[2] \in Rounds(((r[2] + r[4]) \div 2 - f.y) * f.imageHeight, f.height)
      /\ p = <<p[1], p[2]>>
    BY DEF ScreenToImage, Middle
<1>4. p[1] >= 0 /\ p[1] <= f.imageWidth - 1 /\ p[2] >= 0 /\ p[2] <= f.imageHeight - 1
    BY <1>1 DEF InImage
<1>5. PICK a \in Rounds(p[1] * f.width, f.imageWidth), b \in Rounds(p[2] * f.height, f.imageHeight) :
        to = <<Clamp(f.x + a, f.x, f.x + f.width - 1), Clamp(f.y + b, f.y, f.y + f.height - 1)>>
    BY DEF ImageToScreen
<1>6. /\ to[1] = Clamp(f.x + a, f.x, f.x + f.width - 1)
      /\ to[2] = Clamp(f.y + b, f.y, f.y + f.height - 1)
    BY <1>5
<1>7. /\ back[1] \in Rounds((to[1] - f.x) * f.imageWidth, f.width)
      /\ back[2] \in Rounds((to[2] - f.y) * f.imageHeight, f.height)
      /\ back = <<back[1], back[2]>>
    BY DEF ScreenToImage
<1>8. /\ (r[3] - r[1] - 2) * f.imageWidth >= f.width => to[1] \in r[1]..(r[3] - 1)
      /\ f.imageWidth <= f.width => back[1] = p[1]
  <2>1. AxisClick(f.x, f.width, f.imageWidth, r[1], r[3], p[1], a)
      BY <1>1, <1>2, <1>3, <1>4 DEF AxisClick
  <2>2. AxisLanded(f.x, f.width, f.imageWidth, r[1], r[3], p[1], a)
      BY <2>1, AxisLands
  <2> QED
      BY <1>6, <1>7, <2>2 DEF AxisLanded
<1>9. /\ (r[4] - r[2] - 2) * f.imageHeight >= f.height => to[2] \in r[2]..(r[4] - 1)
      /\ f.imageHeight <= f.height => back[2] = p[2]
  <2>1. AxisClick(f.y, f.height, f.imageHeight, r[2], r[4], p[2], b)
      BY <1>1, <1>2, <1>3, <1>4 DEF AxisClick
  <2>2. AxisLanded(f.y, f.height, f.imageHeight, r[2], r[4], p[2], b)
      BY <2>1, AxisLands
  <2> QED
      BY <1>6, <1>7, <2>2 DEF AxisLanded
<1> QED
    BY <1>3, <1>7, <1>8, <1>9 DEF Visible, Within

\* What Zoom captures, and where a point of its image goes.
LEMMA RegionCovers ==
  ASSUME NEW f \in Frames, NEW r \in Int \X Int \X Int \X Int, RegionToScreen(f, r) # Nothing
  PROVE  LET box == RegionToScreen(f, r)
         IN /\ \A i \in 0..(f.imageWidth - 1), j \in 0..(f.imageHeight - 1) :
                 Within(<<i, j>>, r) =>
                   /\ (box[1] - f.x) * f.imageWidth <= i * f.width
                   /\ (box[2] - f.y) * f.imageHeight <= j * f.height
                   /\ (i + 1) * f.width <= (box[3] - f.x) * f.imageWidth
                   /\ (j + 1) * f.height <= (box[4] - f.y) * f.imageHeight
            /\ box[1] >= f.x /\ box[2] >= f.y /\ box[3] <= f.x + f.width /\ box[4] <= f.y + f.height
            /\ box[1] \in Int /\ box[2] \in Int /\ box[3] \in Int /\ box[4] \in Int
            /\ box[1] < box[3] /\ box[2] < box[4]
<1> DEFINE left == Clamp(f.x + (r[1] * f.width) \div f.imageWidth, f.x, f.x + f.width)
           right == Clamp(f.x + Up(r[3] * f.width, f.imageWidth), f.x, f.x + f.width)
           top == Clamp(f.y + (r[2] * f.height) \div f.imageHeight, f.y, f.y + f.height)
           bottom == Clamp(f.y + Up(r[4] * f.height, f.imageHeight), f.y, f.y + f.height)
<1>1. /\ f.x \in Int /\ f.y \in Int /\ f.width \in Nat /\ f.width > 0 /\ f.height \in Nat /\ f.height > 0
      /\ f.imageWidth \in Nat /\ f.imageWidth > 0 /\ f.imageHeight \in Nat /\ f.imageHeight > 0
    BY DEF Frames
<1>2. r[1] \in Int /\ r[2] \in Int /\ r[3] \in Int /\ r[4] \in Int
    OBVIOUS
<1>3. /\ left \in f.x..(f.x + f.width) /\ right \in f.x..(f.x + f.width)
      /\ \A i \in 0..(f.imageWidth - 1) : i >= r[1] /\ i <= r[3] - 1 =>
           /\ (left - f.x) * f.imageWidth <= i * f.width
           /\ (i + 1) * f.width <= (right - f.x) * f.imageWidth
    BY <1>1, <1>2, AxisCovers
<1>4. /\ top \in f.y..(f.y + f.height) /\ bottom \in f.y..(f.y + f.height)
      /\ \A i \in 0..(f.imageHeight - 1) : i >= r[2] /\ i <= r[4] - 1 =>
           /\ (top - f.y) * f.imageHeight <= i * f.height
           /\ (i + 1) * f.height <= (bottom - f.y) * f.imageHeight
    BY <1>1, <1>2, AxisCovers
<1>5. /\ RegionToScreen(f, r) = <<left, top, right, bottom>>
      /\ ~(right <= left \/ bottom <= top)
    BY DEF RegionToScreen, Cut
<1> HIDE DEF left, right, top, bottom
<1>6. left < right /\ top < bottom
    BY <1>1, <1>3, <1>4, <1>5
<1>7. ASSUME NEW i \in 0..(f.imageWidth - 1), NEW j \in 0..(f.imageHeight - 1), Within(<<i, j>>, r)
      PROVE  i >= r[1] /\ i <= r[3] - 1 /\ j >= r[2] /\ j <= r[4] - 1
    BY <1>2, <1>7 DEF Within
<1> QED
    BY <1>1, <1>3, <1>4, <1>5, <1>6, <1>7

LEMMA PartTypes ==
  ASSUME NEW g \in Geometries, NEW l \in Int, NEW t \in Int, NEW r \in Int, NEW b \in Int, l < r, t < b
  PROVE  RegionGeometry(g, <<l, t, r, b>>) \in Geometries
<1>1. r - l \in Nat \ {0} /\ b - t \in Nat \ {0}
    OBVIOUS
<1>2. /\ g.width \in Nat /\ g.width > 0 /\ g.height \in Nat /\ g.height > 0
      /\ g.pixelWidth \in Nat /\ g.pixelHeight \in Nat
    BY DEF Geometries
<1>3. /\ Round((r - l) * g.pixelWidth, g.width) \in Int
      /\ Round((b - t) * g.pixelHeight, g.height) \in Int
  <2> DEFINE width == r - l
             height == b - t
  <2>1. width \in Int /\ height \in Int
      OBVIOUS
  <2> HIDE DEF width, height
  <2>2. /\ Round(width * g.pixelWidth, g.width) \in Int
        /\ Round(height * g.pixelHeight, g.height) \in Int
      BY <1>2, <2>1, RoundTypes
  <2> QED
      BY <2>2 DEF width, height
<1> QED
    BY <1>1, <1>3, LargerIsPositive DEF RegionGeometry, Geometries

LEMMA PartPoints ==
  ASSUME NEW f \in Frames, NEW p, p[1] \in Int, p[2] \in Int, NEW to \in ImageToScreen(f, p)
  PROVE  to[1] \in f.x..(f.x + f.width - 1) /\ to[2] \in f.y..(f.y + f.height - 1)
<1>1. /\ f.x \in Int /\ f.y \in Int /\ f.width \in Nat /\ f.width > 0 /\ f.height \in Nat /\ f.height > 0
      /\ f.imageWidth \in Nat /\ f.imageWidth > 0 /\ f.imageHeight \in Nat /\ f.imageHeight > 0
    BY DEF Frames
<1>2. PICK a \in Rounds(p[1] * f.width, f.imageWidth), b \in Rounds(p[2] * f.height, f.imageHeight) :
        to = <<Clamp(f.x + a, f.x, f.x + f.width - 1), Clamp(f.y + b, f.y, f.y + f.height - 1)>>
    BY DEF ImageToScreen
<1>3. p[1] * f.width \in Int /\ p[2] * f.height \in Int
    BY <1>1
<1>4. a \in Int /\ b \in Int
    BY <1>1, <1>3, RoundsBounds
<1>5. /\ f.x + a \in Int /\ f.x + f.width - 1 \in Int /\ f.x <= f.x + f.width - 1
      /\ f.y + b \in Int /\ f.y + f.height - 1 \in Int /\ f.y <= f.y + f.height - 1
    BY <1>1, <1>4
<1>6. /\ Clamp(f.x + a, f.x, f.x + f.width - 1) \in f.x..(f.x + f.width - 1)
      /\ Clamp(f.y + b, f.y, f.y + f.height - 1) \in f.y..(f.y + f.height - 1)
  <2> DEFINE v == f.x + a
             high == f.x + f.width - 1
             v2 == f.y + b
             high2 == f.y + f.height - 1
  <2>1. v \in Int /\ high \in Int /\ f.x <= high /\ v2 \in Int /\ high2 \in Int /\ f.y <= high2
      BY <1>5
  <2> HIDE DEF v, high, v2, high2
  <2>2. Clamp(v, f.x, high) \in f.x..high /\ Clamp(v2, f.y, high2) \in f.y..high2
      BY <1>1, <2>1, ClampBounds
  <2> QED
      BY <2>2 DEF v, high, v2, high2
<1> QED
    BY <1>2, <1>6

CoordInv ==
  /\ screen \in Geometries
  /\ picture = NoPicture \/ (picture.maxWidth \in Int /\ picture.frame \in Frames)
  /\ PointsLand

LEMMA CoordBegins == CoordInit => CoordInv
BY CoordAssumption
DEF CoordInit, CoordIdle, CoordInv, PointsLand, ClicksLand, ZoomCovers, AsPictured, NotDone

LEMMA ZoomKeeps == ASSUME CoordInv, NEW r \in Things, Zoom(r) PROVE CoordInv'
<1> DEFINE now == FrameFor(screen, picture.maxWidth)
           box == RegionToScreen(now, r)
           part == FrameFor(RegionGeometry(screen, box), picture.maxWidth)
<1>1. /\ picture # NoPicture /\ box # Nothing /\ UNCHANGED <<screen, picture>>
      /\ \E p \in {0, part.imageWidth - 1} \X {0, part.imageHeight - 1} :
            \E to \in ImageToScreen(part, p) :
              done' = [tool |-> "Zoom", asked |-> r, frame |-> now, box |-> box,
                       point |-> p, pointer |-> to, cursor |-> NoPoint]
    BY DEF Zoom
<1>2. now \in Frames /\ picture.maxWidth \in Int /\ screen \in Geometries
    BY <1>1, FrameTypes DEF CoordInv
<1>3. r \in Int \X Int \X Int \X Int
    BY CoordAssumption
<1> HIDE DEF now
<1>4. /\ \A i \in 0..(now.imageWidth - 1), j \in 0..(now.imageHeight - 1) :
           Within(<<i, j>>, r) =>
             /\ (box[1] - now.x) * now.imageWidth <= i * now.width
             /\ (box[2] - now.y) * now.imageHeight <= j * now.height
             /\ (i + 1) * now.width <= (box[3] - now.x) * now.imageWidth
             /\ (j + 1) * now.height <= (box[4] - now.y) * now.imageHeight
      /\ box[1] >= now.x /\ box[2] >= now.y /\ box[3] <= now.x + now.width /\ box[4] <= now.y + now.height
      /\ box[1] \in Int /\ box[2] \in Int /\ box[3] \in Int /\ box[4] \in Int
      /\ box[1] < box[3] /\ box[2] < box[4]
    BY <1>1, <1>2, <1>3, RegionCovers
<1>5. box = <<box[1], box[2], box[3], box[4]>>
    BY <1>1 DEF RegionToScreen, Cut
<1> HIDE DEF box
<1>6. RegionGeometry(screen, box) \in Geometries
    BY <1>2, <1>4, <1>5, PartTypes
<1>7. /\ part \in Frames /\ part.x = box[1] /\ part.y = box[2]
      /\ part.width = box[3] - box[1] /\ part.height = box[4] - box[2]
    BY <1>2, <1>6, FrameTypes DEF FrameFor, RegionGeometry
<1> HIDE DEF part
<1>8. PICK p \in {0, part.imageWidth - 1} \X {0, part.imageHeight - 1} :
        \E to \in ImageToScreen(part, p) :
          done' = [tool |-> "Zoom", asked |-> r, frame |-> now, box |-> box,
                   point |-> p, pointer |-> to, cursor |-> NoPoint]
    BY <1>1
<1>9. PICK to \in ImageToScreen(part, p) :
        done' = [tool |-> "Zoom", asked |-> r, frame |-> now, box |-> box,
                 point |-> p, pointer |-> to, cursor |-> NoPoint]
    BY <1>8
<1>10. p[1] \in Int /\ p[2] \in Int
    BY <1>7 DEF Frames
<1>11. to[1] \in box[1]..(box[3] - 1) /\ to[2] \in box[2]..(box[4] - 1)
    BY <1>4, <1>7, <1>10, PartPoints
<1>12. ZoomCovers'
    BY <1>4, <1>9, <1>11 DEF ZoomCovers, Within
<1>13. ClicksLand'
    BY <1>9 DEF ClicksLand, AsPictured
<1> QED
    BY <1>1, <1>12, <1>13 DEF CoordInv, PointsLand

LEMMA ClickKeeps == ASSUME CoordInv, NEW r \in Things, Click(r) PROVE CoordInv'
<1> DEFINE now == FrameFor(screen, picture.maxWidth)
<1>1. /\ picture # NoPicture /\ UNCHANGED <<screen, picture>>
      /\ \E p \in ScreenToImage(picture.frame, Middle(r)) :
            /\ InImage(picture.frame, p)
            /\ \E to \in ImageToScreen(now, p) : \E back \in ScreenToImage(now, to) :
                 done' = [tool |-> "Click", asked |-> r, frame |-> now, box |-> Nothing,
                          point |-> p, pointer |-> to, cursor |-> back]
    BY DEF Click
<1>2. picture.frame \in Frames /\ r \in Int \X Int \X Int \X Int
    BY <1>1, CoordAssumption DEF CoordInv
<1> HIDE DEF now
<1>3. PICK p \in ScreenToImage(picture.frame, Middle(r)) :
        /\ InImage(picture.frame, p)
        /\ \E to \in ImageToScreen(now, p) : \E back \in ScreenToImage(now, to) :
             done' = [tool |-> "Click", asked |-> r, frame |-> now, box |-> Nothing,
                      point |-> p, pointer |-> to, cursor |-> back]
    BY <1>1
<1> PICK to \in ImageToScreen(now, p) :
      \E back \in ScreenToImage(now, to) :
        done' = [tool |-> "Click", asked |-> r, frame |-> now, box |-> Nothing,
                 point |-> p, pointer |-> to, cursor |-> back]
    BY <1>3
<1>4. PICK back \in ScreenToImage(now, to) :
        done' = [tool |-> "Click", asked |-> r, frame |-> now, box |-> Nothing,
                 point |-> p, pointer |-> to, cursor |-> back]
    OBVIOUS
<1>5. ASSUME now = picture.frame
      PROVE  /\ Visible(r, now) => Within(to, r)
             /\ now.imageWidth <= now.width /\ now.imageHeight <= now.height => back = p
    BY <1>2, <1>3, <1>5, ClickLands
<1>6. ClicksLand'
    BY <1>1, <1>4, <1>5 DEF ClicksLand, AsPictured, Visible, Within
<1>7. ZoomCovers'
    BY <1>4 DEF ZoomCovers, AsPictured
<1> QED
    BY <1>1, <1>6, <1>7 DEF CoordInv, PointsLand

LEMMA CoordStep == CoordInv /\ [CoordNext]_coordVars => CoordInv'
<1> SUFFICES ASSUME CoordInv, [CoordNext]_coordVars PROVE CoordInv'
    OBVIOUS
<1>1. ASSUME NEW maxWidth \in MaxWidths, Snapshot(maxWidth) PROVE CoordInv'
  <2>1. /\ picture' = [maxWidth |-> maxWidth, frame |-> FrameFor(screen, maxWidth)]
        /\ done' = NotDone /\ screen' = screen
      BY <1>1 DEF Snapshot
  <2>2. maxWidth \in Int /\ FrameFor(screen, maxWidth) \in Frames
      BY CoordAssumption, FrameTypes DEF CoordInv
  <2>3. done'.tool = "none"
      BY <2>1 DEF NotDone
  <2>4. picture'.maxWidth \in Int /\ picture'.frame \in Frames
      BY <2>1, <2>2
  <2> QED
      BY <2>1, <2>3, <2>4 DEF CoordInv, PointsLand, ClicksLand, ZoomCovers, AsPictured
<1>2. ASSUME NEW r \in Things, Click(r) PROVE CoordInv'
    BY <1>2, ClickKeeps
<1>3. ASSUME NEW r \in Things, Zoom(r) PROVE CoordInv'
    BY <1>3, ZoomKeeps
<1>4. CASE ChangeDisplay
    BY <1>4, CoordAssumption DEF ChangeDisplay, CoordInv, PointsLand, ClicksLand, ZoomCovers, AsPictured
<1>5. CASE UNCHANGED coordVars
    BY <1>5 DEF coordVars, CoordInv, PointsLand, ClicksLand, ZoomCovers, AsPictured
<1> QED
    BY <1>1, <1>2, <1>3, <1>4, <1>5 DEF CoordNext

\* On every display, at every scale and whichever way a half is rounded (coords.py), what a picture
\* prints is where a click goes, and a part zoomed into is the part asked for.
THEOREM PointsAlwaysLand == CoordSpec => []PointsLand
<1>1. CoordInv => PointsLand
    BY DEF CoordInv
<1> QED
    BY CoordBegins, CoordStep, <1>1, PTL DEF CoordSpec

-----------------------------------------------------------------------------
(* The thread that asks Windows for elements. *)

Refs == Nat \X Nat
CallRecords ==
  [ref : Refs, worker : Nat, at : {"new", "lock", "ready", "slow", "wait", "late", "mine", "over"},
   reply : {"none", "not_asked", "failed", "listed", "done", "may_have_happened"}]
JobRecords ==
  [step : {"none", "queued", "walk", "live", "own", "rest", "done"}, tree : Refs,
   result : {"none", "failed", "listed", "done", "yours", "may_have_happened"}]
ThreadRecords ==
  [at : {"unborn", "starting", "making", "failed", "loop", "get", "job", "over"},
   abandoned : BOOLEAN, jobs : Seq(UiaCalls \cup {Wake}), job : UiaCalls \cup {Wake}]
UiaTypes ==
  /\ uiaCall \in [UiaCalls -> CallRecords] /\ jobOf \in [UiaCalls -> JobRecords]
  /\ thread \in [Threads -> ThreadRecords]
  /\ current \in Threads \cup {None} /\ overrun \subseteq Threads
  /\ uiaLock \in UiaCalls \cup {None} /\ clientLock \in Threads \cup {None}
  /\ uiaTrees \in Nat /\ table \in [Threads -> Nat] /\ known \subseteq Refs
  /\ DOMAIN acted = UiaCalls

\* The lock is held by the one call that waits for a thread, and that thread is the current one.
LockInv ==
  \A c \in UiaCalls :
    /\ uiaCall[c].at \in {"ready", "slow", "wait", "late"} <=> uiaLock = c
    /\ uiaLock = c => uiaCall[c].worker = current /\ current # None

\* A thread that is not the current one was abandoned before the current one was started; so once the
\* current one has made its client nobody else is making one.
ClientInv ==
  /\ \A w \in Threads :
       /\ thread[w].at = "making" <=> clientLock = w
       /\ thread[w].at = "unborn" => ~thread[w].abandoned /\ thread[w].jobs = <<>> /\ w \notin overrun
       /\ thread[w].at \notin {"unborn", "failed", "over"} /\ w # current => thread[w].abandoned /\ w \in overrun
  /\ current # None =>
       /\ ~thread[current].abandoned /\ thread[current].at # "unborn"
       /\ Ready(current) /\ thread[current].at # "failed" => client = current /\ clientLock = None

AliveThreads == {w \in Threads : thread[w].at # "unborn" /\ ~Ended(w)}
AliveInv == Cardinality(AliveThreads) <= MAX_STUCK_WORKERS

\* A job is in the queue of its call's thread, once, until that thread takes it.
QueueInv ==
  \A w \in Threads :
    /\ \A i \in DOMAIN thread[w].jobs : thread[w].jobs[i] # Wake =>
         uiaCall[thread[w].jobs[i]].worker = w /\ jobOf[thread[w].jobs[i]].step = "queued"
    /\ \A i, j \in DOMAIN thread[w].jobs : thread[w].jobs[i] = thread[w].jobs[j] /\ thread[w].jobs[i] # Wake => i = j
    /\ thread[w].at = "job" =>
         /\ thread[w].job # Wake /\ uiaCall[thread[w].job].worker = w
         /\ jobOf[thread[w].job].step \in {"walk", "live", "own", "rest"}

\* A tree's number is in the table of the thread that listed it, and in no other.
Lists(ref) == ref[2] <= uiaTrees /\ \A w \in Threads : table[w] = ref[2] /\ ref[2] # 0 => w = ref[1]
RefInv ==
  /\ \A w \in Threads : table[w] <= uiaTrees
  /\ \A ref \in known : Lists(ref)
  /\ \A c \in UiaCalls : Lists(uiaCall[c].ref) /\ Lists(jobOf[c].tree)

\* What a call did, by how far its job is; a job that has ended does nothing more.
JobFine(c) ==
  /\ uiaCall[c].at \in {"new", "lock", "ready", "slow"} => jobOf[c].step = "none"
  /\ jobOf[c].result = "none" <=> jobOf[c].step # "done"
  /\ jobOf[c].step # "done" => acted[c] = <<>>
  /\ jobOf[c].step \in {"own", "rest"} \/ jobOf[c].result = "yours" => uiaCall[c].worker = uiaCall[c].ref[1]
  /\ jobOf[c].result = "failed" => acted[c] = <<>>
  /\ jobOf[c].result = "done" => acted[c] # <<>>
  /\ jobOf[c].result = "yours" /\ acted[c] # <<>> => Replied(c, "done")
  /\ acted[c] # <<>> => \E how \in {"own", "hand"} : acted[c] = <<[how |-> how, on |-> uiaCall[c].ref[1]]>>
  /\ uiaCall[c].at = "mine" => jobOf[c].result = "yours" /\ acted[c] = <<>>
  /\ Replied(c, "not_asked") => jobOf[c].step = "none"
  /\ Replied(c, "failed") => acted[c] = <<>> /\ jobOf[c].step \in {"none", "done"}
  /\ Replied(c, "done") => acted[c] # <<>>
JobInv == \A c \in UiaCalls : JobFine(c)

UiaInv == UiaTypes /\ LockInv /\ ClientInv /\ AliveInv /\ QueueInv /\ RefInv /\ JobInv

LEMMA UiaBegins == UiaInit => UiaInv
<1> SUFFICES ASSUME UiaInit PROVE UiaInv
    OBVIOUS
<1> USE UiaAssumption DEF UiaInit, UiaIdle, None, NoRef, NoJob, Refs, Wake
<1>1. UiaTypes
  <2>1. <<>> \in Seq(UiaCalls \cup {0})
      OBVIOUS
  <2>2. <<0, 0>> \in Nat \X Nat
      OBVIOUS
  <2> QED
      BY <2>1, <2>2 DEF UiaTypes, CallRecords, JobRecords, ThreadRecords
<1>2. LockInv /\ QueueInv /\ RefInv /\ JobInv
    BY DEF LockInv, QueueInv, RefInv, Lists, JobInv, JobFine, Replied, UiaCalls
<1>3. ClientInv
    BY DEF ClientInv, Ready, Threads
<1>4. AliveInv
  <2>1. AliveThreads = {}
      BY DEF AliveThreads
  <2> QED
      BY <2>1, FS_EmptySet DEF AliveInv
<1> QED
    BY <1>1, <1>2, <1>3, <1>4 DEF UiaInv
LEMMA CallNumbers == UiaCalls \subseteq Nat \ {0} /\ Threads \subseteq Nat \ {0}
BY UiaAssumption DEF UiaCalls, Threads

LEMMA AppendShape ==
  ASSUME NEW S, NEW s \in Seq(S), NEW x \in S
  PROVE  /\ Append(s, x) \in Seq(S) /\ DOMAIN Append(s, x) = 1..(Len(s) + 1) /\ DOMAIN s = 1..Len(s)
         /\ Len(s) \in Nat
         /\ \A i \in DOMAIN s : Append(s, x)[i] = s[i]
         /\ Append(s, x)[Len(s) + 1] = x
OBVIOUS

\* A step that leaves the threads alone.
LEMMA ThreadsStay ==
  ASSUME UiaInv, UNCHANGED <<thread, current, overrun, client, clientLock>>
  PROVE  ClientInv' /\ AliveInv'
BY DEF UiaInv, ClientInv, AliveInv, AliveThreads, Ready, Ended

LEMMA QueuesStay ==
  ASSUME UiaInv, UNCHANGED thread,
         \A c \in UiaCalls : jobOf[c].step # "none" =>
           uiaCall'[c].worker = uiaCall[c].worker /\ jobOf'[c].step = jobOf[c].step
  PROVE  QueueInv'
<1>1. ASSUME NEW w \in Threads, NEW i \in DOMAIN thread[w].jobs, thread[w].jobs[i] # Wake
      PROVE  thread[w].jobs[i] \in UiaCalls
    BY <1>1 DEF UiaInv, UiaTypes, ThreadRecords
<1>2. ASSUME NEW w \in Threads, thread[w].at = "job"
      PROVE  thread[w].job \in UiaCalls
    BY <1>2 DEF UiaInv, UiaTypes, ThreadRecords, QueueInv
<1> QED
    BY <1>1, <1>2 DEF UiaInv, QueueInv

\* A thread is given up: it was the current one.
LEMMA AbandonShape ==
  ASSUME UiaTypes, NEW w \in Threads, Abandon(w)
  PROVE  /\ thread' \in [Threads -> ThreadRecords]
         /\ \A v \in Threads : /\ thread'[v].at = thread[v].at /\ thread'[v].job = thread[v].job
                               /\ v # w => thread'[v] = thread[v]
         /\ thread'[w].abandoned = TRUE /\ thread'[w].jobs = Append(thread[w].jobs, Wake)
         /\ overrun' = overrun \cup {w} /\ current' = None
<1>1. thread[w].jobs \in Seq(UiaCalls \cup {Wake})
    BY DEF UiaTypes, ThreadRecords
<1>2. Append(thread[w].jobs, Wake) \in Seq(UiaCalls \cup {Wake})
    BY <1>1
<1>3. thread' = [thread EXCEPT ![w].abandoned = TRUE, ![w].jobs = Append(@, Wake)]
    BY DEF Abandon
<1>4. /\ thread'[w].jobs = Append(thread[w].jobs, Wake) /\ thread'[w].at = thread[w].at
      /\ thread'[w].job = thread[w].job
    BY <1>3 DEF UiaTypes, ThreadRecords
<1>5. thread'[w].abandoned = TRUE
    BY <1>3 DEF UiaTypes, ThreadRecords
<1>6. \A v \in Threads : v # w => thread'[v] = thread[v]
    BY <1>3 DEF UiaTypes
<1>7. thread'[w] \in ThreadRecords
    BY <1>2, <1>3 DEF UiaTypes, ThreadRecords
<1>8. thread' \in [Threads -> ThreadRecords]
    BY <1>3, <1>6, <1>7 DEF UiaTypes
<1> QED
    BY <1>4, <1>5, <1>6, <1>8 DEF Abandon

LEMMA AbandonKeeps ==
  ASSUME UiaInv, current # None, Abandon(current), UNCHANGED <<client, clientLock>>,
         \A c \in UiaCalls : uiaCall'[c].worker = uiaCall[c].worker /\ jobOf'[c].step = jobOf[c].step
  PROVE  ClientInv' /\ AliveInv' /\ QueueInv'
<1>1. current \in Threads
    BY DEF UiaInv, UiaTypes
<1>2. /\ \A v \in Threads : /\ thread'[v].at = thread[v].at /\ thread'[v].job = thread[v].job
                            /\ v # current => thread'[v] = thread[v]
      /\ thread'[current].abandoned = TRUE /\ thread'[current].jobs = Append(thread[current].jobs, Wake)
      /\ overrun' = overrun \cup {current} /\ current' = None
    BY <1>1, AbandonShape DEF UiaInv
<1>3. ClientInv'
    BY <1>1, <1>2 DEF UiaInv, ClientInv, Ready
<1>4. AliveInv'
    BY <1>2 DEF UiaInv, AliveInv, AliveThreads, Ended
<1>5. QueueInv'
  <2> PICK v \in Threads : v = current
      BY <1>1
  <2>1. /\ Append(thread[v].jobs, Wake) \in Seq(UiaCalls \cup {Wake})
        /\ DOMAIN Append(thread[v].jobs, Wake) = 1..(Len(thread[v].jobs) + 1)
        /\ DOMAIN thread[v].jobs = 1..Len(thread[v].jobs)
        /\ Len(thread[v].jobs) \in Nat
        /\ \A i \in DOMAIN thread[v].jobs : Append(thread[v].jobs, Wake)[i] = thread[v].jobs[i]
        /\ Append(thread[v].jobs, Wake)[Len(thread[v].jobs) + 1] = Wake
    <3>1. thread[v].jobs \in Seq(UiaCalls \cup {Wake})
        BY DEF UiaInv, UiaTypes, ThreadRecords
    <3> QED
        BY <3>1, AppendShape
  <2>2. ASSUME NEW i \in DOMAIN thread'[v].jobs, thread'[v].jobs[i] # Wake
        PROVE  i \in DOMAIN thread[v].jobs /\ thread'[v].jobs[i] = thread[v].jobs[i]
      BY <1>2, <2>1, <2>2
  <2>3. \A w \in Threads : \A i \in DOMAIN thread[w].jobs : thread[w].jobs[i] # Wake => thread[w].jobs[i] \in UiaCalls
      BY DEF UiaInv, UiaTypes, ThreadRecords
  <2>4. \A w \in Threads : thread[w].at = "job" => thread[w].job \in UiaCalls
      BY DEF UiaInv, UiaTypes, ThreadRecords, QueueInv
  <2>5. ASSUME NEW w \in Threads, NEW i \in DOMAIN thread'[w].jobs, thread'[w].jobs[i] # Wake
        PROVE  /\ i \in DOMAIN thread[w].jobs /\ thread'[w].jobs[i] = thread[w].jobs[i]
               /\ uiaCall'[thread[w].jobs[i]].worker = w /\ jobOf'[thread[w].jobs[i]].step = "queued"
      BY <1>2, <2>2, <2>3, <2>5 DEF UiaInv, QueueInv
  <2> QED
      BY <1>2, <2>4, <2>5 DEF UiaInv, QueueInv
<1> QED
    BY <1>3, <1>4, <1>5

\* What a call's own record says, whatever becomes of the threads.
LEMMA CallKeeps ==
  ASSUME UiaInv, NEW c \in UiaCalls, NEW new \in CallRecords,
         uiaCall' = [uiaCall EXCEPT ![c] = new], UNCHANGED <<jobOf, uiaTrees, table, acted>>,
         uiaLock' # uiaLock => uiaLock \in {c, None} /\ uiaLock' \in {c, None},
         current' # current => uiaLock \in {c, None}, known' \subseteq Refs,
         new.at \in {"ready", "slow", "wait", "late"} <=> uiaLock' = c,
         uiaLock' = c => new.worker = current' /\ current' # None,
         new.worker = uiaCall[c].worker \/ jobOf[c].step = "none",
         new.ref = uiaCall[c].ref \/ jobOf[c].step = "none",
         Lists(new.ref), \A ref \in known' : Lists(ref),
         LET r == jobOf[c].result
         IN /\ new.at \in {"new", "lock", "ready", "slow"} => jobOf[c].step = "none"
            /\ r = "yours" /\ acted[c] # <<>> => new.at = "over" /\ new.reply = "done"
            /\ new.at = "mine" => r = "yours" /\ acted[c] = <<>>
            /\ new.at = "over" /\ new.reply = "not_asked" => jobOf[c].step = "none"
            /\ new.at = "over" /\ new.reply = "failed" => acted[c] = <<>> /\ jobOf[c].step \in {"none", "done"}
            /\ new.at = "over" /\ new.reply = "done" => acted[c] # <<>>
  PROVE  uiaCall' \in [UiaCalls -> CallRecords] /\ LockInv' /\ RefInv' /\ JobInv'
<1>1. /\ uiaCall'[c] = new /\ \A d \in UiaCalls : d # c => uiaCall'[d] = uiaCall[d]
      /\ uiaCall' \in [UiaCalls -> CallRecords]
    BY DEF UiaInv, UiaTypes
<1>2. LockInv'
    BY <1>1, CallNumbers DEF UiaInv, LockInv, None
<1>3. RefInv'
    BY <1>1 DEF UiaInv, RefInv, Lists
<1>4. JobInv'
  <2>1. ASSUME NEW d \in UiaCalls, d # c PROVE JobFine(d)'
      BY <1>1, <2>1 DEF UiaInv, JobInv, JobFine, Replied
  <2>2. JobFine(c)'
    <3>1. CASE new.ref = uiaCall[c].ref /\ new.worker = uiaCall[c].worker
        BY <1>1, <3>1 DEF UiaInv, JobInv, JobFine, Replied
    <3>2. CASE jobOf[c].step = "none"
        BY <1>1, <3>2 DEF UiaInv, JobInv, JobFine, Replied
    <3> QED
        BY <3>1, <3>2
  <2> QED
      BY <2>1, <2>2 DEF JobInv
<1> QED
    BY <1>1, <1>2, <1>3, <1>4

\* A step of a call that moves itself only.
LEMMA CallMoves ==
  ASSUME UiaInv, NEW c \in UiaCalls, NEW new \in CallRecords,
         uiaCall' = [uiaCall EXCEPT ![c] = new], Alone, uiaLock' \in {uiaLock, None}, known' \subseteq Refs,
         new.at \in {"ready", "slow", "wait", "late"} <=> uiaLock' = c,
         uiaLock' # uiaLock => uiaLock = c,
         new.worker = uiaCall[c].worker,
         Lists(new.ref), \A ref \in known' : Lists(ref),
         LET r == jobOf[c].result
         IN /\ new.at \in {"new", "lock", "ready", "slow"} => jobOf[c].step = "none"
            /\ new.ref = uiaCall[c].ref \/ jobOf[c].step = "none"
            /\ r = "yours" /\ acted[c] # <<>> => new.at = "over" /\ new.reply = "done"
            /\ new.at = "mine" => r = "yours" /\ acted[c] = <<>>
            /\ new.at = "over" /\ new.reply = "not_asked" => jobOf[c].step = "none"
            /\ new.at = "over" /\ new.reply = "failed" => acted[c] = <<>> /\ jobOf[c].step \in {"none", "done"}
            /\ new.at = "over" /\ new.reply = "done" => acted[c] # <<>>
  PROVE  UiaInv'
<1>1. /\ UNCHANGED <<jobOf, thread, current, overrun, client, clientLock, uiaTrees, table, acted>>
      /\ uiaCall'[c] = new /\ \A d \in UiaCalls : d # c => uiaCall'[d] = uiaCall[d]
    BY DEF Alone, UiaInv, UiaTypes
<1>2. UiaTypes'
    BY <1>1 DEF UiaInv, UiaTypes
<1>3. LockInv' /\ RefInv' /\ JobInv'
  <2>1. c # None /\ (uiaLock = c => uiaCall[c].worker = current /\ current # None)
      BY CallNumbers DEF None, UiaInv, LockInv
  <2> QED
      BY <1>1, <2>1, CallKeeps
<1>4. ClientInv' /\ AliveInv'
    BY <1>1, ThreadsStay
<1>5. QueueInv'
    BY <1>1, QueuesStay
<1> QED
    BY <1>2, <1>3, <1>4, <1>5 DEF UiaInv

LEMMA BeginKeeps == ASSUME UiaInv, NEW c \in UiaCalls, BeginUia(c) PROVE UiaInv'
<1>1. PICK ref \in IF Op(c) = "tree" \/ known = {} THEN {NoRef} ELSE known :
        uiaCall' = [uiaCall EXCEPT ![c].at = "lock", ![c].ref = ref]
    BY DEF BeginUia
<1> DEFINE new == [uiaCall[c] EXCEPT !.at = "lock", !.ref = ref]
<1>2. uiaCall' = [uiaCall EXCEPT ![c] = new] /\ new \in CallRecords
  <2>1. ref \in Refs
      BY DEF UiaInv, UiaTypes, NoRef, None, Refs
  <2>2. uiaCall[c] \in CallRecords
      BY DEF UiaInv, UiaTypes
  <2>3. new \in CallRecords
      BY <2>1, <2>2 DEF CallRecords
  <2>4. uiaCall' = [uiaCall EXCEPT ![c] = new]
      BY <1>1
  <2> QED
      BY <2>3, <2>4
<1>3. new.at = "lock" /\ new.ref = ref /\ new.worker = uiaCall[c].worker
    BY DEF UiaInv, UiaTypes, CallRecords
<1>4. Lists(ref)
    BY DEF UiaInv, UiaTypes, RefInv, Lists, NoRef
<1>5. uiaCall[c].at = "new" /\ Alone /\ UNCHANGED <<uiaLock, known>>
    BY DEF BeginUia
<1>6. uiaLock # c /\ jobOf[c].step = "none" /\ acted[c] = <<>>
    BY <1>5 DEF UiaInv, LockInv, JobInv, JobFine
<1> HIDE DEF new
<1>7. known' \subseteq Refs /\ \A r \in known' : Lists(r)
    BY <1>5 DEF UiaInv, UiaTypes, RefInv
<1> QED
    BY <1>2, <1>3, <1>4, <1>5, <1>6, <1>7, CallMoves

LEMMA MoveKeeps ==
  ASSUME UiaInv, NEW c \in UiaCalls, Busy(c) \/ NotReady(c) \/ TimesOut(c)
  PROVE  UiaInv'
<1>1. PICK new \in CallRecords :
        /\ uiaCall' = [uiaCall EXCEPT ![c] = new]
        /\ new.ref = uiaCall[c].ref /\ new.worker = uiaCall[c].worker
        /\ Alone /\ UNCHANGED <<uiaLock, known>>
        /\ \/ uiaCall[c].at = "lock" /\ new.at = "over" /\ new.reply = "not_asked"
           \/ uiaCall[c].at = "ready" /\ new.at = "slow"
           \/ uiaCall[c].at = "wait" /\ new.at = "late"
  <2>0. uiaCall[c] \in CallRecords
      BY DEF UiaInv, UiaTypes
  <2>1. CASE Busy(c)
    <3> DEFINE new == [uiaCall[c] EXCEPT !.at = "over", !.reply = "not_asked"]
    <3>1. new \in CallRecords /\ new.ref = uiaCall[c].ref /\ new.worker = uiaCall[c].worker
          /\ new.at = "over" /\ new.reply = "not_asked"
        BY <2>0 DEF CallRecords
    <3>2. /\ uiaCall' = [uiaCall EXCEPT ![c] = new]
          /\ Alone /\ UNCHANGED <<uiaLock, known>> /\ uiaCall[c].at = "lock"
        BY <2>1 DEF Busy
    <3> QED
        BY <3>1, <3>2
  <2>2. CASE NotReady(c) \/ TimesOut(c)
    <3>1. PICK step \in {"slow", "late"} :
            /\ uiaCall' = [uiaCall EXCEPT ![c].at = step]
            /\ Alone /\ UNCHANGED <<uiaLock, known>>
            /\ uiaCall[c].at = (IF step = "slow" THEN "ready" ELSE "wait")
        BY <2>2 DEF NotReady, TimesOut, Goto
    <3> DEFINE new == [uiaCall[c] EXCEPT !.at = step]
    <3>2. new \in CallRecords /\ new.ref = uiaCall[c].ref /\ new.worker = uiaCall[c].worker
          /\ new.at = step
        BY <2>0 DEF CallRecords
    <3>3. uiaCall' = [uiaCall EXCEPT ![c] = new]
        BY <3>1
    <3> QED
        BY <3>1, <3>2, <3>3
  <2> QED
      BY <2>1, <2>2
<1>2. /\ uiaCall[c].at \in {"ready", "slow", "wait", "late"} <=> uiaLock = c
      /\ uiaCall[c].at \in {"lock", "ready"} => jobOf[c].step = "none"
      /\ jobOf[c].result = "yours" /\ acted[c] # <<>> => uiaCall[c].at = "over"
    BY <1>1 DEF UiaInv, LockInv, JobInv, JobFine, Replied
<1>3. Lists(new.ref) /\ known' \subseteq Refs /\ \A r \in known' : Lists(r)
    BY <1>1 DEF UiaInv, UiaTypes, RefInv
<1>4. jobOf[c].step = "none" => acted[c] = <<>>
    BY DEF UiaInv, JobInv, JobFine
<1> QED
    BY <1>1, <1>2, <1>3, <1>4, CallMoves

LEMMA GetResultKeeps == ASSUME UiaInv, NEW c \in UiaCalls, GetResult(c) PROVE UiaInv'
<1> DEFINE r == jobOf[c].result
           new == [uiaCall[c] EXCEPT !.at = IF r = "yours" THEN "mine" ELSE "over",
                                     !.reply = IF r = "yours" THEN uiaCall[c].reply ELSE r]
<1>1. uiaCall[c].at = "wait" /\ r # "none" /\ Alone /\ uiaLock' = None
    BY DEF GetResult, Done
<1>2. uiaCall' = [uiaCall EXCEPT ![c] = new]
    BY DEF GetResult, UiaInv, UiaTypes, CallRecords
<1>3. r \in {"failed", "listed", "done", "yours", "may_have_happened"}
    BY <1>1 DEF UiaInv, UiaTypes, JobRecords
<1>4. /\ new \in CallRecords /\ new.ref = uiaCall[c].ref /\ new.worker = uiaCall[c].worker
      /\ new.at = (IF r = "yours" THEN "mine" ELSE "over")
      /\ r # "yours" => new.reply = r
    BY <1>3 DEF UiaInv, UiaTypes, CallRecords
<1>5. uiaLock = c
    BY <1>1 DEF UiaInv, LockInv
<1>6. known' \subseteq Refs /\ \A ref \in known' : Lists(ref)
  <2>1. known' \subseteq known \cup {jobOf[c].tree}
      BY DEF GetResult
  <2>2. jobOf[c].tree \in Refs /\ Lists(jobOf[c].tree)
      BY DEF UiaInv, UiaTypes, JobRecords, RefInv
  <2> QED
      BY <2>1, <2>2 DEF UiaInv, UiaTypes, RefInv
<1>7. /\ jobOf[c].step = "done" /\ (r = "failed" => acted[c] = <<>>) /\ (r = "done" => acted[c] # <<>>)
      /\ r = "yours" => acted[c] = <<>>
    BY <1>1 DEF UiaInv, JobInv, JobFine, Replied
<1>8. Lists(uiaCall[c].ref)
    BY DEF UiaInv, RefInv
<1> HIDE DEF new, r
<1>9. c # None
    BY CallNumbers DEF None
<1> QED
  <2>1. new.at \in {"mine", "over"}
      BY <1>4
  <2> QED
      BY <1>1, <1>2, <1>3, <1>4, <1>5, <1>6, <1>7, <1>8, <1>9, <2>1, CallMoves DEF r

LEMMA LeaveShape ==
  ASSUME UiaInv, NEW c \in UiaCalls, NEW reply \in {"not_asked", "failed", "may_have_happened"}, Leave(c, reply)
  PROVE  \E new \in CallRecords :
           /\ uiaCall' = [uiaCall EXCEPT ![c] = new] /\ new.ref = uiaCall[c].ref
           /\ new.worker = uiaCall[c].worker /\ new.at = "over" /\ new.reply = reply
           /\ uiaLock' = None
<1> DEFINE new == [uiaCall[c] EXCEPT !.at = "over", !.reply = reply]
<1>1. uiaCall[c] \in CallRecords
    BY DEF UiaInv, UiaTypes
<1>2. new \in CallRecords /\ new.ref = uiaCall[c].ref /\ new.worker = uiaCall[c].worker
      /\ new.at = "over" /\ new.reply = reply
    BY <1>1 DEF CallRecords
<1>3. uiaCall' = [uiaCall EXCEPT ![c] = new] /\ uiaLock' = None
    BY DEF Leave
<1> QED
    BY <1>2, <1>3

\* A call that leaves with a reply gives the lock back.
LEMMA LeaveKeeps ==
  ASSUME UiaInv, NEW c \in UiaCalls, NEW reply \in {"not_asked", "failed", "may_have_happened"}, Leave(c, reply),
         uiaLock \in {c, None}, reply # "may_have_happened" => jobOf[c].step = "none",
         uiaCall[c].at \in {"lock", "ready", "slow", "late"},
         UNCHANGED <<jobOf, uiaTrees, table, acted, known>>
  PROVE  uiaCall' \in [UiaCalls -> CallRecords] /\ LockInv' /\ RefInv' /\ JobInv'
<1>1. PICK new \in CallRecords :
        /\ uiaCall' = [uiaCall EXCEPT ![c] = new] /\ new.ref = uiaCall[c].ref
        /\ new.worker = uiaCall[c].worker /\ new.at = "over" /\ new.reply = reply
        /\ uiaLock' = None
    BY LeaveShape
<1>2. /\ c # None /\ (jobOf[c].step = "none" => acted[c] = <<>>)
      /\ jobOf[c].result = "yours" => acted[c] = <<>>
    BY CallNumbers DEF None, UiaInv, JobInv, JobFine, Replied
<1>3. Lists(new.ref) /\ known' \subseteq Refs /\ \A r \in known' : Lists(r)
    BY <1>1 DEF UiaInv, UiaTypes, RefInv
<1> QED
    BY <1>1, <1>2, <1>3, CallKeeps

LEMMA LeaveWorkers ==
  ASSUME UiaInv, NEW c \in UiaCalls, NEW reply \in {"not_asked", "failed", "may_have_happened"}, Leave(c, reply)
  PROVE  \A d \in UiaCalls : uiaCall'[d].worker = uiaCall[d].worker
BY LeaveShape DEF UiaInv, UiaTypes

LEMMA GiveUpKeeps == ASSUME UiaInv, NEW c \in UiaCalls, SlowStart(c) \/ GiveUp(c) PROVE UiaInv'
<1>1. PICK reply \in {"not_asked", "may_have_happened"} :
        /\ Leave(c, reply) /\ (reply = "not_asked" => uiaCall[c].at = "slow")
        /\ uiaCall[c].at \in {"slow", "late"}
        /\ Abandon(Worker(c)) \/ UNCHANGED <<thread, overrun, current>>
        /\ UNCHANGED <<jobOf, client, clientLock, uiaTrees, table, known, acted, belated>>
    BY DEF SlowStart, GiveUp
<1>2. uiaLock = c /\ Worker(c) = current /\ current # None /\ current \in Threads
      /\ (uiaCall[c].at = "slow" => jobOf[c].step = "none")
    BY <1>1 DEF UiaInv, UiaTypes, LockInv, JobInv, JobFine, Worker
<1>3. uiaCall' \in [UiaCalls -> CallRecords] /\ LockInv' /\ RefInv' /\ JobInv'
    BY <1>1, <1>2, LeaveKeeps
<1>4. \A d \in UiaCalls : uiaCall'[d].worker = uiaCall[d].worker
    BY <1>1, LeaveWorkers
<1>5. uiaLock' = None
    BY <1>1 DEF Leave
<1>6. CASE Abandon(Worker(c))
  <2>1. ClientInv' /\ AliveInv' /\ QueueInv'
      BY <1>1, <1>2, <1>4, <1>6, AbandonKeeps
  <2>2. UiaTypes'
    <3>1. Abandon(current)
        BY <1>2, <1>6
    <3>2. thread' \in [Threads -> ThreadRecords] /\ overrun' = overrun \cup {current} /\ current' = None
        BY <1>2, <3>1, AbandonShape DEF UiaInv
    <3> QED
        BY <1>1, <1>2, <1>3, <1>5, <3>2 DEF UiaInv, UiaTypes
  <2> QED
      BY <1>3, <2>1, <2>2 DEF UiaInv
<1>7. CASE UNCHANGED <<thread, overrun, current>>
  <2>1. ClientInv' /\ AliveInv' /\ QueueInv'
      BY <1>1, <1>4, <1>7, ThreadsStay, QueuesStay
  <2>2. UiaTypes'
      BY <1>1, <1>3, <1>5, <1>7 DEF UiaInv, UiaTypes
  <2> QED
      BY <1>3, <2>1, <2>2 DEF UiaInv
<1> QED
    BY <1>1, <1>6, <1>7

\* By hand, once: the job that left it to the caller has ended.
LEMMA ByHandKeeps == ASSUME UiaInv, NEW c \in UiaCalls, ByHand(c) PROVE UiaInv'
<1>1. /\ uiaCall[c].at = "mine" /\ jobOf[c].result = "yours" /\ acted[c] = <<>> /\ jobOf[c].step = "done"
      /\ uiaCall[c].worker = uiaCall[c].ref[1] /\ uiaLock # c
    BY DEF ByHand, UiaInv, JobInv, JobFine, LockInv
<1>2. UNCHANGED <<jobOf, thread, current, overrun, uiaLock, client, clientLock, uiaTrees, table, known, belated>>
    BY DEF ByHand
<1> DEFINE new == [uiaCall[c] EXCEPT !.at = "over", !.reply = "done"]
<1>3. /\ uiaCall' = [uiaCall EXCEPT ![c] = new] /\ new \in CallRecords
      /\ new.ref = uiaCall[c].ref /\ new.worker = uiaCall[c].worker /\ new.at = "over" /\ new.reply = "done"
  <2>1. uiaCall[c] \in CallRecords
      BY DEF UiaInv, UiaTypes
  <2> QED
      BY <2>1 DEF ByHand, CallRecords
<1> HIDE DEF new
<1>4. acted' = [acted EXCEPT ![c] = <<[how |-> "hand", on |-> uiaCall[c].ref[1]]>>]
  <2>1. acted' = [acted EXCEPT ![c] = Append(acted[c], [how |-> "hand", on |-> Worker(c)])]
      BY DEF ByHand
  <2>2. Append(<<>>, [how |-> "hand", on |-> Worker(c)]) = <<[how |-> "hand", on |-> Worker(c)]>>
      OBVIOUS
  <2> QED
      BY <1>1, <2>1, <2>2 DEF Worker
<1>5. /\ uiaCall'[c] = new /\ \A d \in UiaCalls : d # c => uiaCall'[d] = uiaCall[d] /\ acted'[d] = acted[d]
      /\ acted'[c] = <<[how |-> "hand", on |-> uiaCall[c].ref[1]]>> /\ DOMAIN acted' = UiaCalls
    BY <1>3, <1>4 DEF UiaInv, UiaTypes
<1>6. UiaTypes'
    BY <1>2, <1>3, <1>5 DEF UiaInv, UiaTypes
<1>7. LockInv'
    BY <1>1, <1>2, <1>3, <1>5 DEF UiaInv, LockInv
<1>8. ClientInv' /\ AliveInv' /\ QueueInv'
  <2>1. \A d \in UiaCalls : uiaCall'[d].worker = uiaCall[d].worker
      BY <1>3, <1>5
  <2> QED
      BY <1>2, <2>1, ThreadsStay, QueuesStay
<1>9. RefInv'
    BY <1>2, <1>3, <1>5 DEF UiaInv, RefInv, Lists
<1>10. JobInv'
  <2>1. ASSUME NEW d \in UiaCalls, d # c PROVE JobFine(d)'
    <3>1. uiaCall'[d] = uiaCall[d] /\ acted'[d] = acted[d] /\ jobOf'[d] = jobOf[d]
        BY <1>2, <1>5, <2>1
    <3>2. JobFine(d)
        BY DEF UiaInv, JobInv
    <3> QED
        BY <3>1, <3>2 DEF JobFine, Replied
  <2>2. acted'[c] # <<>>
      BY <1>5
  <2>3. JobFine(c)'
      BY <1>1, <1>2, <1>3, <1>5, <2>2 DEF JobFine, Replied
  <2> QED
      BY <2>1, <2>3 DEF JobInv
<1> QED
    BY <1>6, <1>7, <1>8, <1>9, <1>10 DEF UiaInv

\* A job is put into the queue of the current thread.
LEMMA PutShape ==
  ASSUME UiaInv, NEW c \in UiaCalls, uiaCall[c].at = "ready",
         Goto(c, "wait"), thread' = [thread EXCEPT ![Worker(c)].jobs = Append(@, c)],
         jobOf' = [jobOf EXCEPT ![c].step = "queued"]
  PROVE  /\ Worker(c) = current /\ current \in Threads /\ uiaLock = c /\ jobOf[c].step = "none"
         /\ thread' \in [Threads -> ThreadRecords] /\ uiaCall' \in [UiaCalls -> CallRecords]
         /\ jobOf' \in [UiaCalls -> JobRecords]
         /\ \A v \in Threads : /\ thread'[v].at = thread[v].at /\ thread'[v].job = thread[v].job
                               /\ thread'[v].abandoned = thread[v].abandoned
                               /\ v # current => thread'[v] = thread[v]
         /\ thread'[current].jobs = Append(thread[current].jobs, c)
         /\ \A d \in UiaCalls : /\ d # c => uiaCall'[d] = uiaCall[d] /\ jobOf'[d] = jobOf[d]
                                /\ uiaCall'[d].worker = uiaCall[d].worker /\ uiaCall'[d].ref = uiaCall[d].ref
                                /\ jobOf'[d].tree = jobOf[d].tree
         /\ uiaCall'[c].at = "wait" /\ jobOf'[c].step = "queued" /\ jobOf'[c].result = jobOf[c].result
<1>1. Worker(c) = current /\ current \in Threads /\ uiaLock = c /\ jobOf[c].step = "none"
    BY DEF UiaInv, UiaTypes, LockInv, JobInv, JobFine, Worker
<1>2. /\ uiaCall' \in [UiaCalls -> CallRecords] /\ uiaCall'[c].at = "wait"
      /\ uiaCall'[c].worker = uiaCall[c].worker /\ uiaCall'[c].ref = uiaCall[c].ref
      /\ \A d \in UiaCalls : d # c => uiaCall'[d] = uiaCall[d]
    BY DEF Goto, UiaInv, UiaTypes, CallRecords
<1>3. /\ jobOf' \in [UiaCalls -> JobRecords] /\ jobOf'[c].step = "queued" /\ jobOf'[c].tree = jobOf[c].tree
      /\ jobOf'[c].result = jobOf[c].result
      /\ \A d \in UiaCalls : d # c => jobOf'[d] = jobOf[d]
    BY DEF UiaInv, UiaTypes, JobRecords
<1>4. thread' = [thread EXCEPT ![current].jobs = Append(thread[current].jobs, c)]
    BY <1>1
<1>5. thread[current] \in ThreadRecords /\ thread[current].jobs \in Seq(UiaCalls \cup {Wake})
    BY <1>1 DEF UiaInv, UiaTypes, ThreadRecords
<1>6. Append(thread[current].jobs, c) \in Seq(UiaCalls \cup {Wake})
    BY <1>5
<1>7. /\ thread'[current].jobs = Append(thread[current].jobs, c)
      /\ thread'[current].at = thread[current].at /\ thread'[current].job = thread[current].job
    BY <1>1, <1>4, <1>5 DEF UiaInv, UiaTypes, ThreadRecords
<1>8. thread'[current].abandoned = thread[current].abandoned
    BY <1>1, <1>4, <1>5 DEF UiaInv, UiaTypes, ThreadRecords
<1>9. \A v \in Threads : v # current => thread'[v] = thread[v]
    BY <1>4 DEF UiaInv, UiaTypes
<1>10. thread'[current] \in ThreadRecords
  <2>1. thread'[current] = [thread[current] EXCEPT !.jobs = Append(thread[current].jobs, c)]
      BY <1>1, <1>4 DEF UiaInv, UiaTypes
  <2> QED
      BY <1>5, <1>6, <2>1 DEF ThreadRecords
<1>11. thread' \in [Threads -> ThreadRecords]
    BY <1>4, <1>9, <1>10 DEF UiaInv, UiaTypes
<1> QED
    BY <1>1, <1>2, <1>3, <1>7, <1>8, <1>9, <1>11

LEMMA PutKeeps ==
  ASSUME UiaInv, NEW c \in UiaCalls, uiaCall[c].at = "ready", thread[Worker(c)].at # "failed",
         Goto(c, "wait"), thread' = [thread EXCEPT ![Worker(c)].jobs = Append(@, c)],
         jobOf' = [jobOf EXCEPT ![c].step = "queued"], Ready(Worker(c)),
         UNCHANGED <<current, uiaLock, overrun, client, clientLock, uiaTrees, table, known, acted, belated>>
  PROVE  UiaInv'
<1> DEFINE w == current
<1>1. /\ Worker(c) = w /\ w \in Threads /\ uiaLock = c /\ jobOf[c].step = "none"
      /\ thread' \in [Threads -> ThreadRecords] /\ uiaCall' \in [UiaCalls -> CallRecords]
      /\ jobOf' \in [UiaCalls -> JobRecords]
      /\ \A v \in Threads : /\ thread'[v].at = thread[v].at /\ thread'[v].job = thread[v].job
                            /\ thread'[v].abandoned = thread[v].abandoned
                            /\ v # w => thread'[v] = thread[v]
      /\ thread'[w].jobs = Append(thread[w].jobs, c)
      /\ \A d \in UiaCalls : /\ d # c => uiaCall'[d] = uiaCall[d] /\ jobOf'[d] = jobOf[d]
                             /\ uiaCall'[d].worker = uiaCall[d].worker /\ uiaCall'[d].ref = uiaCall[d].ref
                             /\ jobOf'[d].tree = jobOf[d].tree
      /\ uiaCall'[c].at = "wait" /\ jobOf'[c].step = "queued" /\ jobOf'[c].result = jobOf[c].result
    BY PutShape
<1> HIDE DEF w
<1>2. UiaTypes'
    BY <1>1 DEF UiaInv, UiaTypes
<1>3. LockInv'
    BY <1>1 DEF UiaInv, LockInv
<1>4. ClientInv'
  <2>1. thread[w].at # "unborn" /\ w = current
      BY <1>1 DEF w, Ready
  <2>2. \A v \in Threads :
          /\ thread'[v].at = "making" <=> clientLock' = v
          /\ thread'[v].at = "unborn" => ~thread'[v].abandoned /\ thread'[v].jobs = <<>> /\ v \notin overrun'
          /\ thread'[v].at \notin {"unborn", "failed", "over"} /\ v # current' => thread'[v].abandoned /\ v \in overrun'
      BY <1>1, <2>1 DEF UiaInv, ClientInv
  <2>3. current' # None =>
          /\ ~thread'[current'].abandoned /\ thread'[current'].at # "unborn"
          /\ Ready(current)' /\ thread'[current'].at # "failed" => client' = current' /\ clientLock' = None
      BY <1>1, <2>1 DEF UiaInv, ClientInv, Ready
  <2> QED
      BY <2>2, <2>3 DEF ClientInv
<1>5. AliveInv'
  <2>1. AliveThreads' = AliveThreads
      BY <1>1 DEF AliveThreads, Ended
  <2> QED
      BY <2>1 DEF UiaInv, AliveInv
<1>6. QueueInv'
  <2> DEFINE jobs == thread[w].jobs
             n == Len(jobs) + 1
  <2>1. jobs \in Seq(UiaCalls \cup {Wake}) /\ c \in UiaCalls \cup {Wake}
      BY <1>1 DEF UiaInv, UiaTypes, ThreadRecords
  <2>2. /\ DOMAIN thread'[w].jobs = 1..n /\ DOMAIN jobs = 1..Len(jobs) /\ Len(jobs) \in Nat
        /\ \A i \in DOMAIN jobs : thread'[w].jobs[i] = jobs[i]
        /\ thread'[w].jobs[n] = c
      BY <1>1, <2>1, AppendShape
  <2>3. \A v \in Threads : \A i \in DOMAIN thread[v].jobs : thread[v].jobs[i] # Wake =>
          /\ thread[v].jobs[i] \in UiaCalls /\ thread[v].jobs[i] # c
      BY <1>1 DEF UiaInv, UiaTypes, ThreadRecords, QueueInv
  <2>4. \A v \in Threads : thread[v].at = "job" => thread[v].job \in UiaCalls /\ thread[v].job # c
      BY <1>1 DEF UiaInv, UiaTypes, ThreadRecords, QueueInv
  <2>5. uiaCall[c].worker = w
      BY <1>1 DEF Worker
  <2>6. n \in Nat /\ \A i \in 1..n : i \in DOMAIN jobs \/ i = n
      BY <2>2
  <2> HIDE DEF n, jobs
  <2>7. ASSUME NEW i \in DOMAIN thread'[w].jobs, thread'[w].jobs[i] # Wake
        PROVE  \/ i \in DOMAIN jobs /\ thread'[w].jobs[i] = jobs[i]
               \/ i = n /\ thread'[w].jobs[i] = c
      BY <2>2, <2>6, <2>7
  <2>8. ASSUME NEW v \in Threads, NEW i \in DOMAIN thread'[v].jobs, thread'[v].jobs[i] # Wake
        PROVE  uiaCall'[thread'[v].jobs[i]].worker = v /\ jobOf'[thread'[v].jobs[i]].step = "queued"
    <3>1. CASE v = w
        BY <1>1, <2>3, <2>5, <2>7, <2>8, <3>1 DEF UiaInv, QueueInv, jobs
    <3>2. CASE v # w
        BY <1>1, <2>3, <2>8, <3>2 DEF UiaInv, QueueInv
    <3> QED
        BY <3>1, <3>2
  <2>9. ASSUME NEW v \in Threads, NEW i \in DOMAIN thread'[v].jobs, NEW j \in DOMAIN thread'[v].jobs,
               thread'[v].jobs[i] = thread'[v].jobs[j], thread'[v].jobs[i] # Wake
        PROVE  i = j
    <3>1. CASE v = w
        BY <1>1, <2>3, <2>7, <2>9, <3>1 DEF UiaInv, QueueInv, jobs
    <3>2. CASE v # w
        BY <1>1, <2>9, <3>2 DEF UiaInv, QueueInv
    <3> QED
        BY <3>1, <3>2
  <2>10. ASSUME NEW v \in Threads, thread'[v].at = "job"
         PROVE  /\ thread'[v].job # Wake /\ uiaCall'[thread'[v].job].worker = v
                /\ jobOf'[thread'[v].job].step \in {"walk", "live", "own", "rest"}
      BY <1>1, <2>4, <2>10 DEF UiaInv, QueueInv
  <2> QED
      BY <2>8, <2>9, <2>10 DEF QueueInv
<1>7. RefInv'
    BY <1>1 DEF UiaInv, RefInv, Lists
<1>8. JobInv'
    BY <1>1 DEF UiaInv, JobInv, JobFine, Replied
<1> QED
    BY <1>2, <1>3, <1>4, <1>5, <1>6, <1>7, <1>8 DEF UiaInv

LEMMA PutJobKeeps == ASSUME UiaInv, NEW c \in UiaCalls, PutJob(c) PROVE UiaInv'
<1>1. uiaCall[c].at = "ready" /\ Ready(Worker(c))
      /\ UNCHANGED <<overrun, client, clientLock, uiaTrees, table, known, acted, belated>>
    BY DEF PutJob
<1>2. uiaLock = c /\ Worker(c) = current /\ current # None /\ jobOf[c].step = "none"
    BY <1>1 DEF UiaInv, LockInv, JobInv, JobFine, Worker
<1>3. CASE \E reply \in {"failed", "not_asked"} :
             /\ Leave(c, reply) /\ UNCHANGED <<thread, jobOf>>
             /\ (thread[Worker(c)].at = "failed" /\ current' = None) \/ UNCHANGED current
  <2>1. PICK reply \in {"failed", "not_asked"} :
          /\ Leave(c, reply) /\ UNCHANGED <<thread, jobOf>>
          /\ (thread[Worker(c)].at = "failed" /\ current' = None) \/ UNCHANGED current
      BY <1>3
  <2>2. uiaCall' \in [UiaCalls -> CallRecords] /\ LockInv' /\ RefInv' /\ JobInv'
      BY <1>1, <1>2, <2>1, LeaveKeeps
  <2>3. \A d \in UiaCalls : uiaCall'[d].worker = uiaCall[d].worker
      BY <2>1, LeaveWorkers
  <2>4. uiaLock' = None
      BY <2>1 DEF Leave
  <2>5. UiaTypes'
      BY <1>1, <2>1, <2>2, <2>4 DEF UiaInv, UiaTypes
  <2>6. ClientInv' /\ AliveInv'
    <3>1. CASE UNCHANGED current
        BY <1>1, <2>1, <3>1, ThreadsStay
    <3>2. CASE thread[Worker(c)].at = "failed" /\ current' = None
        BY <1>1, <1>2, <2>1, <3>2 DEF UiaInv, ClientInv, AliveInv, AliveThreads, Ended, Ready
    <3> QED
        BY <2>1, <3>1, <3>2
  <2>7. QueueInv'
      BY <2>1, <2>3, QueuesStay
  <2> QED
      BY <2>2, <2>5, <2>6, <2>7 DEF UiaInv
<1>4. CASE /\ thread[Worker(c)].at # "failed" /\ Goto(c, "wait")
           /\ thread' = [thread EXCEPT ![Worker(c)].jobs = Append(@, c)]
           /\ jobOf' = [jobOf EXCEPT ![c].step = "queued"]
           /\ UNCHANGED <<current, uiaLock>>
    BY <1>1, <1>4, PutKeeps
<1> QED
    BY <1>3, <1>4 DEF PutJob

LEMMA ThreadsFinite == IsFiniteSet(Threads) /\ \A S \in SUBSET Threads : IsFiniteSet(S) /\ Cardinality(S) \in Nat
<1>1. IsFiniteSet(Threads)
    BY FS_Interval, UiaAssumption DEF Threads
<1> QED
    BY <1>1, FS_Subset, FS_CardinalityType

\* A call that found the lock free takes it, with the thread it will wait for.
LEMMA TakeKeeps ==
  ASSUME UiaInv, NEW c \in UiaCalls, NEW w \in Threads, uiaCall[c].at = "lock", uiaLock = None,
         uiaCall' = [uiaCall EXCEPT ![c].at = "ready", ![c].worker = w], uiaLock' = c, current' = w,
         UNCHANGED <<jobOf, uiaTrees, table, known, acted>>
  PROVE  /\ uiaCall' \in [UiaCalls -> CallRecords] /\ LockInv' /\ RefInv' /\ JobInv'
         /\ \A d \in UiaCalls : d # c => uiaCall'[d] = uiaCall[d]
         /\ jobOf[c].step = "none"
<1> DEFINE new == [uiaCall[c] EXCEPT !.at = "ready", !.worker = w]
<1>1. uiaCall[c] \in CallRecords /\ w \in Nat /\ w # None /\ c # None
    BY CallNumbers DEF UiaInv, UiaTypes, None
<1>2. /\ uiaCall' = [uiaCall EXCEPT ![c] = new] /\ new \in CallRecords
      /\ new.ref = uiaCall[c].ref /\ new.worker = w /\ new.at = "ready"
    BY <1>1 DEF CallRecords
<1> HIDE DEF new
<1>3. jobOf[c].step = "none" /\ acted[c] = <<>> /\ jobOf[c].result = "none"
    BY DEF UiaInv, JobInv, JobFine
<1>4. Lists(new.ref) /\ known' \subseteq Refs /\ \A r \in known' : Lists(r)
    BY <1>2 DEF UiaInv, UiaTypes, RefInv
<1>5. uiaCall' \in [UiaCalls -> CallRecords] /\ LockInv' /\ RefInv' /\ JobInv'
    BY <1>1, <1>2, <1>3, <1>4, CallKeeps
<1>6. \A d \in UiaCalls : d # c => uiaCall'[d] = uiaCall[d]
    BY DEF UiaInv, UiaTypes
<1> QED
    BY <1>3, <1>5, <1>6

\* A new thread: every other one that is alive is among the stuck ones, which are fewer than the limit.
LEMMA BirthKeeps ==
  ASSUME UiaInv, NEW w \in Threads, thread[w].at = "unborn", current = None,
         overrun' = {v \in overrun : ~Ended(v)}, ~TooManyStuck(overrun'),
         thread' = [thread EXCEPT ![w].at = "starting"], current' = w, UNCHANGED <<client, clientLock>>
  PROVE  thread' \in [Threads -> ThreadRecords] /\ ClientInv' /\ AliveInv'
<1>1. /\ thread' \in [Threads -> ThreadRecords] /\ thread'[w].at = "starting"
      /\ thread'[w].jobs = thread[w].jobs /\ thread'[w].job = thread[w].job
      /\ \A v \in Threads : v # w => thread'[v] = thread[v]
    BY DEF UiaInv, UiaTypes, ThreadRecords
<1>2. thread'[w].abandoned = thread[w].abandoned
    BY DEF UiaInv, UiaTypes, ThreadRecords
<1>3. w \notin overrun /\ ~thread[w].abandoned /\ clientLock # w /\ w # None /\ overrun \subseteq Threads
    BY CallNumbers DEF UiaInv, UiaTypes, ClientInv, None
<1>4. ClientInv'
  <2>1. \A v \in Threads :
          /\ thread'[v].at = "making" <=> clientLock' = v
          /\ thread'[v].at = "unborn" => ~thread'[v].abandoned /\ thread'[v].jobs = <<>> /\ v \notin overrun'
    <3> TAKE v \in Threads
    <3>1. CASE v = w
        BY <1>1, <1>3, <3>1
    <3>2. CASE v # w
        BY <1>1, <3>2 DEF UiaInv, ClientInv
    <3> QED
        BY <3>1, <3>2
  <2>2. \A v \in Threads :
          thread'[v].at \notin {"unborn", "failed", "over"} /\ v # current' => thread'[v].abandoned /\ v \in overrun'
      BY <1>1, <1>3, CallNumbers DEF UiaInv, ClientInv, Ended, None
  <2>3. current' # None =>
          /\ ~thread'[current'].abandoned /\ thread'[current'].at # "unborn"
          /\ Ready(current)' /\ thread'[current'].at # "failed" => client' = current' /\ clientLock' = None
      BY <1>1, <1>2, <1>3 DEF Ready
  <2> QED
      BY <2>1, <2>2, <2>3 DEF ClientInv
<1>5. AliveInv'
  <2>1. overrun' \in SUBSET Threads /\ AliveThreads' \in SUBSET Threads
      BY <1>3 DEF AliveThreads
  <2>2. AliveThreads' \subseteq overrun' \cup {w}
      BY <1>1, <1>3, CallNumbers DEF AliveThreads, Ended, UiaInv, ClientInv, None
  <2>3. IsFiniteSet(overrun') /\ Cardinality(overrun') \in Nat /\ Cardinality(AliveThreads') \in Nat
      BY <2>1, ThreadsFinite
  <2>4. /\ IsFiniteSet(overrun' \cup {w}) 
        /\ Cardinality(overrun' \cup {w}) = Cardinality(overrun') \/ Cardinality(overrun' \cup {w}) = Cardinality(overrun') + 1
      BY <2>3, FS_AddElement
  <2>5. Cardinality(AliveThreads') <= Cardinality(overrun' \cup {w})
      BY <2>2, <2>4, FS_Subset
  <2>6. Cardinality(overrun') < MAX_STUCK_WORKERS
      BY <2>3, UiaAssumption DEF TooManyStuck
  <2> QED
      BY <2>3, <2>4, <2>5, <2>6, UiaAssumption DEF AliveInv
<1> QED
    BY <1>1, <1>4, <1>5

LEMMA RunningKeeps == ASSUME UiaInv, NEW c \in UiaCalls, Running(c) PROVE UiaInv'
<1> DEFINE stuckOnes == {w \in overrun : ~Ended(w)}
           unborn == {w \in Threads : thread[w].at = "unborn"}
<1>1. /\ uiaCall[c].at = "lock" /\ uiaLock = None
      /\ UNCHANGED <<jobOf, client, clientLock, uiaTrees, table, known, acted, belated>>
      /\ jobOf[c].step = "none"
    BY DEF Running, UiaInv, JobInv, JobFine
<1>2. CASE /\ current # None
           /\ uiaCall' = [uiaCall EXCEPT ![c].at = "ready", ![c].worker = current]
           /\ uiaLock' = c /\ UNCHANGED <<thread, current, overrun>>
  <2>1. current \in Threads
      BY <1>2 DEF UiaInv, UiaTypes
  <2>2. /\ uiaCall' \in [UiaCalls -> CallRecords] /\ LockInv' /\ RefInv' /\ JobInv'
        /\ \A d \in UiaCalls : d # c => uiaCall'[d] = uiaCall[d]
      BY <1>1, <1>2, <2>1, TakeKeeps
  <2>3. ClientInv' /\ AliveInv' /\ QueueInv'
      BY <1>1, <1>2, <2>2, ThreadsStay, QueuesStay
  <2>4. UiaTypes'
      BY <1>1, <1>2, <2>2 DEF UiaInv, UiaTypes
  <2> QED
      BY <2>2, <2>3, <2>4 DEF UiaInv
<1>3. CASE /\ current = None /\ TooManyStuck(stuckOnes)
           /\ overrun' = stuckOnes /\ Leave(c, "not_asked") /\ UNCHANGED <<thread, current>>
  <2>1. uiaCall' \in [UiaCalls -> CallRecords] /\ LockInv' /\ RefInv' /\ JobInv'
      BY <1>1, <1>3, LeaveKeeps
  <2>2. \A d \in UiaCalls : uiaCall'[d].worker = uiaCall[d].worker
      BY <1>3, LeaveWorkers
  <2>3. UiaTypes'
      BY <1>1, <1>3, <2>1 DEF UiaInv, UiaTypes, Leave
  <2>4. ClientInv' /\ AliveInv'
      BY <1>1, <1>3 DEF UiaInv, ClientInv, AliveInv, AliveThreads, Ended, Ready
  <2>5. QueueInv'
      BY <1>1, <1>3, <2>2, QueuesStay
  <2> QED
      BY <2>1, <2>3, <2>4, <2>5 DEF UiaInv
<1>4. CASE /\ current = None /\ ~TooManyStuck(stuckOnes) /\ unborn # {}
           /\ LET w == CHOOSE w \in unborn : \A v \in unborn : w <= v
              IN /\ thread' = [thread EXCEPT ![w].at = "starting"]
                 /\ current' = w
                 /\ uiaCall' = [uiaCall EXCEPT ![c].at = "ready", ![c].worker = w]
           /\ overrun' = stuckOnes /\ uiaLock' = c
  <2>1. PICK w \in unborn :
          /\ thread' = [thread EXCEPT ![w].at = "starting"] /\ current' = w
          /\ uiaCall' = [uiaCall EXCEPT ![c].at = "ready", ![c].worker = w]
    <3>1. unborn \subseteq Nat
        BY CallNumbers
    <3>2. \E w \in unborn : \A v \in unborn : w <= v
        BY <1>4, <3>1, LeastNat
    <3> QED
        BY <1>4, <3>2
  <2>2. w \in Threads /\ thread[w].at = "unborn"
      BY <2>1
  <2>3. /\ uiaCall' \in [UiaCalls -> CallRecords] /\ LockInv' /\ RefInv' /\ JobInv'
        /\ \A d \in UiaCalls : d # c => uiaCall'[d] = uiaCall[d]
      BY <1>1, <1>4, <2>1, <2>2, TakeKeeps
  <2>4. thread' \in [Threads -> ThreadRecords] /\ ClientInv' /\ AliveInv'
      BY <1>1, <1>4, <2>1, <2>2, BirthKeeps
  <2>5. UiaTypes'
      BY <1>1, <1>4, <2>1, <2>2, <2>3, <2>4 DEF UiaInv, UiaTypes
  <2>6. QueueInv'
    <3>1. /\ \A v \in Threads : v # w => thread'[v] = thread[v]
          /\ thread'[w].at = "starting" /\ thread'[w].jobs = thread[w].jobs
        BY <2>1, <2>2 DEF UiaInv, UiaTypes, ThreadRecords
    <3>2. \A v \in Threads : \A i \in DOMAIN thread[v].jobs : thread[v].jobs[i] # Wake =>
            thread[v].jobs[i] \in UiaCalls /\ thread[v].jobs[i] # c
        BY <1>1 DEF UiaInv, UiaTypes, ThreadRecords, QueueInv
    <3>3. \A v \in Threads : thread[v].at = "job" => thread[v].job \in UiaCalls /\ thread[v].job # c
        BY <1>1 DEF UiaInv, UiaTypes, ThreadRecords, QueueInv
    <3> QED
        BY <1>1, <2>2, <2>3, <3>1, <3>2, <3>3 DEF UiaInv, QueueInv
  <2> QED
      BY <2>3, <2>4, <2>5, <2>6 DEF UiaInv
<1> QED
  <2>1. \/ /\ current # None
           /\ uiaCall' = [uiaCall EXCEPT ![c].at = "ready", ![c].worker = current]
           /\ uiaLock' = c /\ UNCHANGED <<thread, current, overrun>>
        \/ /\ current = None /\ TooManyStuck(stuckOnes)
           /\ overrun' = stuckOnes /\ Leave(c, "not_asked") /\ UNCHANGED <<thread, current>>
        \/ /\ current = None /\ ~TooManyStuck(stuckOnes) /\ unborn # {}
           /\ LET w == CHOOSE w \in unborn : \A v \in unborn : w <= v
              IN /\ thread' = [thread EXCEPT ![w].at = "starting"]
                 /\ current' = w
                 /\ uiaCall' = [uiaCall EXCEPT ![c].at = "ready", ![c].worker = w]
           /\ overrun' = stuckOnes /\ uiaLock' = c
      BY DEF Running
  <2> QED
      BY <1>2, <1>3, <1>4, <2>1

\* A thread's own step: the client is its own while it makes it, and only the current one begins to.
LEMMA ThreadKeeps ==
  ASSUME UiaInv, NEW w \in Threads, thread[w].at \notin {"unborn", "failed", "over"},
         NEW new \in ThreadRecords, new.at # "unborn", new.abandoned = thread[w].abandoned,
         thread' = [thread EXCEPT ![w] = new], UNCHANGED <<current, overrun>>,
         new.at = "making" <=> clientLock' = w,
         clientLock' # clientLock => clientLock \in {w, None} /\ clientLock' \in {w, None},
         clientLock' = w => w = current,
         client' # client => client' = w /\ clientLock = w,
         new.at \notin {"starting", "making", "failed"} /\ w = current => client' = current /\ clientLock' = None
  PROVE  ClientInv' /\ AliveInv' /\ thread' \in [Threads -> ThreadRecords]
<1>1. thread'[w] = new /\ \A v \in Threads : v # w => thread'[v] = thread[v]
    BY DEF UiaInv, UiaTypes
<1>2. thread' \in [Threads -> ThreadRecords]
    BY DEF UiaInv, UiaTypes
<1>3. ClientInv'
  <2>1. \A v \in Threads :
          /\ thread'[v].at = "making" <=> clientLock' = v
          /\ thread'[v].at = "unborn" => ~thread'[v].abandoned /\ thread'[v].jobs = <<>> /\ v \notin overrun'
    <3> TAKE v \in Threads
    <3>0. v # None
        BY CallNumbers DEF None
    <3>1. CASE v = w
        BY <1>1, <3>1
    <3>2. CASE v # w
        BY <1>1, <3>0, <3>2 DEF UiaInv, ClientInv
    <3> QED
        BY <3>1, <3>2
  <2>2. \A v \in Threads :
          thread'[v].at \notin {"unborn", "failed", "over"} /\ v # current' => thread'[v].abandoned /\ v \in overrun'
      BY <1>1 DEF UiaInv, ClientInv
  <2>3. ASSUME current' # None
        PROVE  /\ ~thread'[current'].abandoned /\ thread'[current'].at # "unborn"
               /\ Ready(current)' /\ thread'[current'].at # "failed" => client' = current' /\ clientLock' = None
    <3>0. current \in Threads /\ current' = current /\ w # None
        BY <2>3, CallNumbers DEF UiaInv, UiaTypes, None
    <3>1. CASE w = current
        BY <1>1, <2>3, <3>0, <3>1 DEF UiaInv, ClientInv, Ready
    <3>2. CASE w # current
        BY <1>1, <2>3, <3>0, <3>2 DEF UiaInv, ClientInv, Ready
    <3> QED
        BY <3>1, <3>2
  <2> QED
      BY <2>1, <2>2, <2>3 DEF ClientInv
<1>4. AliveInv'
  <2>1. AliveThreads' \subseteq AliveThreads /\ AliveThreads \in SUBSET Threads /\ AliveThreads' \in SUBSET Threads
      BY <1>1 DEF AliveThreads, Ended
  <2>2. /\ Cardinality(AliveThreads') \in Nat /\ Cardinality(AliveThreads) \in Nat
        /\ Cardinality(AliveThreads') <= Cardinality(AliveThreads)
      BY <2>1, ThreadsFinite, FS_Subset
  <2> QED
      BY <2>2, UiaAssumption DEF UiaInv, AliveInv
<1> QED
    BY <1>2, <1>3, <1>4

LEMMA StartShape ==
  ASSUME UiaInv, NEW w \in Threads, StartThread(w)
  PROVE  \E at \in {"making", "loop", "failed"} :
           /\ thread' = [thread EXCEPT ![w].at = at]
           /\ thread[w].at \in {"starting", "making"}
           /\ at = "making" <=> clientLock' = w
           /\ clientLock' # clientLock => clientLock \in {w, None} /\ clientLock' \in {w, None}
           /\ clientLock' = w => w = current
           /\ client' # client => client' = w /\ clientLock = w
           /\ at = "loop" => client' = w /\ clientLock' = None
<1>1. w # None /\ (thread[w].at = "making" <=> clientLock = w)
    BY CallNumbers DEF None, UiaInv, ClientInv
<1>2. CASE MakeClient(w) /\ UNCHANGED client
    BY <1>1, <1>2 DEF MakeClient, UiaInv, ClientInv
<1>3. CASE SwapClient(w)
    BY <1>1, <1>3 DEF SwapClient
<1>4. CASE /\ thread[w].at \in {"starting", "making"}
           /\ thread' = [thread EXCEPT ![w].at = "failed"]
           /\ clientLock' = (IF clientLock = w THEN None ELSE clientLock) /\ UNCHANGED client
    BY <1>1, <1>4
<1> QED
    BY <1>2, <1>3, <1>4 DEF StartThread

\* Steps of the threads that change no call and no job.
LEMMA CallsStay ==
  ASSUME UiaInv, UNCHANGED <<uiaCall, jobOf, current, uiaLock, known, uiaTrees, table, acted>>
  PROVE  LockInv' /\ RefInv' /\ JobInv'
BY DEF UiaInv, LockInv, RefInv, Lists, JobInv, JobFine, Replied

LEMMA StartKeeps == ASSUME UiaInv, NEW w \in Threads, StartThread(w) PROVE UiaInv'
<1>1. PICK at \in {"making", "loop", "failed"} :
        /\ thread' = [thread EXCEPT ![w].at = at]
        /\ thread[w].at \in {"starting", "making"}
        /\ at = "making" <=> clientLock' = w
        /\ clientLock' # clientLock => clientLock \in {w, None} /\ clientLock' \in {w, None}
        /\ clientLock' = w => w = current
        /\ client' # client => client' = w /\ clientLock = w
        /\ at = "loop" => client' = w /\ clientLock' = None
    BY StartShape
<1>2. /\ UNCHANGED <<uiaCall, current, overrun, uiaLock, known, jobOf, uiaTrees, table, acted, belated>>
      /\ clientLock' \in Threads \cup {None}
    BY <1>1 DEF StartThread, Callers, UiaInv, UiaTypes
<1> DEFINE new == [thread[w] EXCEPT !.at = at]
<1>3. thread[w] \in ThreadRecords
    BY DEF UiaInv, UiaTypes
<1>4. /\ thread' = [thread EXCEPT ![w] = new] /\ new \in ThreadRecords
      /\ new.at = at /\ new.jobs = thread[w].jobs /\ new.abandoned = thread[w].abandoned
    BY <1>1, <1>3 DEF ThreadRecords
<1> HIDE DEF new
<1>5. ClientInv' /\ AliveInv' /\ thread' \in [Threads -> ThreadRecords]
    BY <1>1, <1>2, <1>4, ThreadKeeps
<1>6. UiaTypes'
    BY <1>2, <1>5 DEF UiaInv, UiaTypes
<1>7. LockInv' /\ RefInv' /\ JobInv'
    BY <1>2, CallsStay
<1>8. QueueInv'
  <2>1. thread'[w] = new /\ \A v \in Threads : v # w => thread'[v] = thread[v]
      BY <1>4 DEF UiaInv, UiaTypes
  <2> QED
      BY <1>1, <1>2, <1>4, <2>1 DEF UiaInv, QueueInv
<1> QED
    BY <1>5, <1>6, <1>7, <1>8 DEF UiaInv

\* A thread takes the first job of its queue.
LEMMA TailShape ==
  ASSUME NEW S, NEW s \in Seq(S), s # <<>>
  PROVE  /\ Head(s) \in S /\ Tail(s) \in Seq(S) /\ Head(s) = s[1] /\ 1 \in DOMAIN s
         /\ \A i \in DOMAIN Tail(s) : i \in Nat /\ i + 1 \in DOMAIN s /\ i + 1 # 1 /\ Tail(s)[i] = s[i + 1]
OBVIOUS

LEMMA TakeJobKeeps ==
  ASSUME UiaInv, NEW w \in Threads, thread[w].at = "get", thread[w].jobs # <<>>,
         NEW job, job = Head(thread[w].jobs),
         NEW new \in ThreadRecords, thread' = [thread EXCEPT ![w] = new],
         new.jobs = Tail(thread[w].jobs), new.job = job, new.abandoned = thread[w].abandoned,
         new.at = (IF job = Wake THEN "loop" ELSE "job"),
         jobOf' = IF job = Wake THEN jobOf
                  ELSE [jobOf EXCEPT ![job].step = IF Op(job) = "tree" THEN "walk" ELSE "live"],
         Callers, UNCHANGED <<client, clientLock, uiaTrees, table, acted, belated>>
  PROVE  UiaInv'
<1>1. /\ thread[w].jobs \in Seq(UiaCalls \cup {Wake})
      /\ thread'[w] = new /\ \A v \in Threads : v # w => thread'[v] = thread[v]
    BY DEF UiaInv, UiaTypes, ThreadRecords
<1>2. /\ job \in UiaCalls \cup {Wake} /\ job = thread[w].jobs[1] /\ 1 \in DOMAIN thread[w].jobs
      /\ \A i \in DOMAIN new.jobs : i \in Nat /\ i + 1 \in DOMAIN thread[w].jobs /\ i + 1 # 1
                                    /\ new.jobs[i] = thread[w].jobs[i + 1]
    BY <1>1, TailShape
<1>3. /\ UNCHANGED <<uiaCall, current, overrun, uiaLock, known, client, clientLock, uiaTrees, table, acted>>
      /\ job # Wake => /\ job \in UiaCalls /\ uiaCall[job].worker = w /\ jobOf[job].step = "queued"
    BY <1>2 DEF Callers, UiaInv, QueueInv
<1>4. ClientInv' /\ AliveInv' /\ thread' \in [Threads -> ThreadRecords]
  <2>1. clientLock # w /\ (w = current => client = current /\ clientLock = None)
      BY CallNumbers DEF UiaInv, ClientInv, Ready, None
  <2>2. new.at \in {"loop", "job"}
      OBVIOUS
  <2>3. UNCHANGED <<current, overrun, client, clientLock>>
      BY <1>3
  <2> QED
      BY <2>1, <2>2, <2>3, ThreadKeeps
<1>5. /\ jobOf' \in [UiaCalls -> JobRecords]
      /\ \A c \in UiaCalls : /\ c # job => jobOf'[c] = jobOf[c]
                             /\ jobOf'[c].tree = jobOf[c].tree /\ jobOf'[c].result = jobOf[c].result
      /\ job # Wake => jobOf'[job].step \in {"walk", "live"}
    BY <1>3 DEF UiaInv, UiaTypes, JobRecords
<1>6. UiaTypes'
    BY <1>3, <1>4, <1>5 DEF UiaInv, UiaTypes
<1>7. LockInv' /\ RefInv'
    BY <1>3, <1>5 DEF UiaInv, LockInv, RefInv, Lists
<1>8. JobInv'
  <2> SUFFICES ASSUME NEW c \in UiaCalls PROVE JobFine(c)'
      BY DEF JobInv
  <2>1. JobFine(c)
      BY DEF UiaInv, JobInv
  <2>2. CASE c # job
      BY <1>3, <1>5, <2>1, <2>2 DEF JobFine, Replied
  <2>3. CASE c = job
    <3>1. job # Wake /\ jobOf[c].step = "queued" /\ jobOf'[c].step \in {"walk", "live"}
        BY <1>3, <1>5, <2>3, CallNumbers DEF Wake
    <3> QED
        BY <1>3, <1>5, <2>1, <3>1 DEF JobFine, Replied
  <2> QED
      BY <2>2, <2>3
<1>9. QueueInv'
  <2>1. \A v \in Threads : \A i \in DOMAIN thread[v].jobs : thread[v].jobs[i] # Wake =>
          thread[v].jobs[i] \in UiaCalls /\ uiaCall[thread[v].jobs[i]].worker = v
      BY DEF UiaInv, UiaTypes, ThreadRecords, QueueInv
  <2>2. \A v \in Threads : thread[v].at = "job" => thread[v].job \in UiaCalls /\ uiaCall[thread[v].job].worker = v
      BY DEF UiaInv, UiaTypes, ThreadRecords, QueueInv
  <2>3. ASSUME NEW i \in DOMAIN new.jobs, new.jobs[i] # Wake PROVE new.jobs[i] # job
      BY <1>2, <2>3 DEF UiaInv, QueueInv
  <2>4. ASSUME NEW v \in Threads, NEW i \in DOMAIN thread'[v].jobs, thread'[v].jobs[i] # Wake
        PROVE  uiaCall'[thread'[v].jobs[i]].worker = v /\ jobOf'[thread'[v].jobs[i]].step = "queued"
    <3>1. CASE v = w
      <4>1. i \in DOMAIN new.jobs /\ thread'[v].jobs[i] = new.jobs[i] /\ new.jobs[i] # Wake
          BY <1>1, <2>4, <3>1
      <4>2. new.jobs[i] \in UiaCalls /\ uiaCall[new.jobs[i]].worker = w /\ jobOf[new.jobs[i]].step = "queued"
          BY <1>2, <2>1, <4>1 DEF UiaInv, QueueInv
      <4> QED
          BY <1>3, <1>5, <2>3, <3>1, <4>1, <4>2
    <3>2. CASE v # w
      <4>1. i \in DOMAIN thread[v].jobs /\ thread'[v].jobs[i] = thread[v].jobs[i]
          BY <1>1, <2>4, <3>2
      <4>2. thread[v].jobs[i] # job
          BY <1>3, <2>1, <2>4, <3>2, <4>1
      <4> QED
          BY <1>3, <1>5, <2>1, <2>4, <4>1, <4>2 DEF UiaInv, QueueInv
    <3> QED
        BY <3>1, <3>2
  <2>5. ASSUME NEW v \in Threads, NEW i \in DOMAIN thread'[v].jobs, NEW j \in DOMAIN thread'[v].jobs,
               thread'[v].jobs[i] = thread'[v].jobs[j], thread'[v].jobs[i] # Wake
        PROVE  i = j
    <3>1. CASE v = w
      <4>0. i \in DOMAIN new.jobs /\ j \in DOMAIN new.jobs /\ new.jobs[i] = new.jobs[j] /\ new.jobs[i] # Wake
          BY <1>1, <2>5, <3>1
      <4>1. PICK a \in DOMAIN thread[w].jobs : a = i + 1 /\ thread[w].jobs[a] = new.jobs[i]
          BY <1>2, <4>0
      <4>2. PICK b \in DOMAIN thread[w].jobs : b = j + 1 /\ thread[w].jobs[b] = new.jobs[j]
          BY <1>2, <4>0
      <4>3. a = b
          BY <4>0, <4>1, <4>2 DEF UiaInv, QueueInv
      <4> QED
          BY <1>2, <4>0, <4>1, <4>2, <4>3
    <3>2. CASE v # w
        BY <1>1, <2>5, <3>2 DEF UiaInv, QueueInv
    <3> QED
        BY <3>1, <3>2
  <2>6. ASSUME NEW v \in Threads, thread'[v].at = "job"
        PROVE  /\ thread'[v].job # Wake /\ uiaCall'[thread'[v].job].worker = v
               /\ jobOf'[thread'[v].job].step \in {"walk", "live", "own", "rest"}
    <3>1. CASE v = w
        BY <1>1, <1>3, <1>5, <2>6, <3>1
    <3>2. CASE v # w
      <4>1. thread'[v] = thread[v] /\ thread[v].at = "job"
          BY <1>1, <2>6, <3>2
      <4>2. thread[v].job # job
          BY <1>3, <2>2, <3>2, <4>1 DEF UiaInv, QueueInv
      <4> QED
          BY <1>3, <1>5, <2>2, <4>1, <4>2 DEF UiaInv, QueueInv
    <3> QED
        BY <3>1, <3>2
  <2> QED
      BY <2>4, <2>5, <2>6 DEF QueueInv
<1> QED
    BY <1>4, <1>6, <1>7, <1>8, <1>9 DEF UiaInv

LEMMA LoopKeeps == ASSUME UiaInv, NEW w \in Threads, Loop(w) PROVE UiaInv'
<1>1. Callers /\ UNCHANGED <<client, clientLock, uiaTrees, table, acted, belated>>
    BY DEF Loop
<1>2. thread[w] \in ThreadRecords
    BY DEF UiaInv, UiaTypes
<1>3. CASE /\ thread[w].at = "loop"
           /\ thread' = [thread EXCEPT ![w].at = IF thread[w].abandoned THEN "over" ELSE "get"]
           /\ UNCHANGED jobOf
  <2> DEFINE new == [thread[w] EXCEPT !.at = IF thread[w].abandoned THEN "over" ELSE "get"]
  <2>1. /\ thread' = [thread EXCEPT ![w] = new] /\ new \in ThreadRecords
        /\ new.at \in {"over", "get"} /\ new.jobs = thread[w].jobs /\ new.abandoned = thread[w].abandoned
      BY <1>2, <1>3 DEF ThreadRecords
  <2> HIDE DEF new
  <2>2. UNCHANGED <<uiaCall, jobOf, current, overrun, uiaLock, known, client, clientLock, uiaTrees, table, acted>>
      BY <1>1, <1>3 DEF Callers
  <2>3. ClientInv' /\ AliveInv' /\ thread' \in [Threads -> ThreadRecords]
    <3>1. clientLock # w /\ (w = current => client = current /\ clientLock = None)
        BY <1>3, CallNumbers DEF UiaInv, ClientInv, Ready, None
    <3> QED
        BY <1>3, <2>1, <2>2, <3>1, ThreadKeeps
  <2>4. UiaTypes'
      BY <2>2, <2>3 DEF UiaInv, UiaTypes
  <2>5. LockInv' /\ RefInv' /\ JobInv'
      BY <2>2, CallsStay
  <2>6. QueueInv'
    <3>1. thread'[w] = new /\ \A v \in Threads : v # w => thread'[v] = thread[v]
        BY <2>1 DEF UiaInv, UiaTypes
    <3> QED
        BY <2>1, <2>2, <3>1 DEF UiaInv, QueueInv
  <2> QED
      BY <2>3, <2>4, <2>5, <2>6 DEF UiaInv
<1>4. CASE /\ thread[w].at = "get" /\ thread[w].jobs # <<>>
           /\ LET job == Head(thread[w].jobs)
              IN /\ thread' = [thread EXCEPT ![w].jobs = Tail(@), ![w].job = job,
                                             ![w].at = IF job = Wake THEN "loop" ELSE "job"]
                 /\ jobOf' = IF job = Wake THEN jobOf
                             ELSE [jobOf EXCEPT ![job].step = IF Op(job) = "tree" THEN "walk" ELSE "live"]
  <2> DEFINE job == Head(thread[w].jobs)
             new == [thread[w] EXCEPT !.jobs = Tail(thread[w].jobs), !.job = job,
                                      !.at = IF job = Wake THEN "loop" ELSE "job"]
  <2>1. job \in UiaCalls \cup {Wake} /\ Tail(thread[w].jobs) \in Seq(UiaCalls \cup {Wake})
    <3>1. thread[w].jobs \in Seq(UiaCalls \cup {Wake})
        BY <1>2 DEF ThreadRecords
    <3> QED
        BY <1>4, <3>1, TailShape
  <2>2. /\ new \in ThreadRecords /\ new.jobs = Tail(thread[w].jobs) /\ new.job = job
        /\ new.at = (IF job = Wake THEN "loop" ELSE "job")
      BY <1>2, <2>1 DEF ThreadRecords
  <2>3. new.abandoned = thread[w].abandoned
      BY <1>2 DEF ThreadRecords
  <2>4. thread' = [thread EXCEPT ![w] = new]
      BY <1>4 DEF UiaInv, UiaTypes
  <2>5. jobOf' = IF job = Wake THEN jobOf
                 ELSE [jobOf EXCEPT ![job].step = IF Op(job) = "tree" THEN "walk" ELSE "live"]
      BY <1>4
  <2>6. job = Head(thread[w].jobs) /\ thread[w].at = "get" /\ thread[w].jobs # <<>>
      BY <1>4
  <2> HIDE DEF new, job
  <2> QED
      BY <1>1, <2>2, <2>3, <2>4, <2>5, <2>6, TakeJobKeeps
<1> QED
    BY <1>3, <1>4 DEF Loop

\* A step of the job a thread runs: it goes on, or it ends and leaves its thread.
JobRuns(w, new) ==
  \/ new.step \in {"walk", "live", "own", "rest"} /\ UNCHANGED thread
  \/ new.step = "done" /\ thread' = [thread EXCEPT ![w].at = "loop", ![w].job = None]

LEMMA JobKeeps ==
  ASSUME UiaInv, NEW w \in Threads, thread[w].at = "job", NEW j, j = thread[w].job, NEW new \in JobRecords,
         jobOf' = [jobOf EXCEPT ![j] = new], JobRuns(w, new),
         Callers, UNCHANGED <<client, clientLock>>, uiaTrees' \in Nat, table' \in [Threads -> Nat],
         DOMAIN acted' = UiaCalls, \A c \in UiaCalls : c # j => acted'[c] = acted[c],
         JobFine(j)', RefInv'
  PROVE  UiaInv'
<1>1. /\ j \in UiaCalls /\ uiaCall[j].worker = w /\ jobOf[j].step \in {"walk", "live", "own", "rest"}
      /\ w # None
    BY CallNumbers DEF UiaInv, UiaTypes, ThreadRecords, QueueInv, None
<1>2. /\ jobOf' \in [UiaCalls -> JobRecords] /\ jobOf'[j] = new
      /\ \A c \in UiaCalls : c # j => jobOf'[c] = jobOf[c]
    BY <1>1 DEF UiaInv, UiaTypes
<1>3. UNCHANGED <<uiaCall, current, overrun, uiaLock, known, client, clientLock>>
    BY DEF Callers
<1>4. /\ ClientInv' /\ AliveInv' /\ thread' \in [Threads -> ThreadRecords]
      /\ \A v \in Threads : v # w => thread'[v] = thread[v]
      /\ thread'[w].jobs = thread[w].jobs
      /\ thread'[w].at = "job" => thread'[w] = thread[w] /\ new.step \in {"walk", "live", "own", "rest"}
  <2>1. CASE new.step \in {"walk", "live", "own", "rest"} /\ UNCHANGED thread
      BY <1>3, <2>1, ThreadsStay DEF UiaInv, UiaTypes
  <2>2. CASE new.step = "done" /\ thread' = [thread EXCEPT ![w].at = "loop", ![w].job = None]
    <3> DEFINE rec == [thread[w] EXCEPT !.at = "loop", !.job = None]
    <3>1. thread[w] \in ThreadRecords
        BY DEF UiaInv, UiaTypes
    <3>2. /\ thread' = [thread EXCEPT ![w] = rec] /\ rec \in ThreadRecords
          /\ rec.at = "loop" /\ rec.jobs = thread[w].jobs /\ rec.abandoned = thread[w].abandoned
        BY <2>2, <3>1 DEF ThreadRecords, None, Wake
    <3> HIDE DEF rec
    <3>3. clientLock # w /\ (w = current => client = current /\ clientLock = None)
        BY <1>1 DEF UiaInv, ClientInv, Ready
    <3>4. ClientInv' /\ AliveInv' /\ thread' \in [Threads -> ThreadRecords]
        BY <1>3, <3>2, <3>3, ThreadKeeps
    <3>5. thread'[w] = rec /\ \A v \in Threads : v # w => thread'[v] = thread[v]
        BY <3>2 DEF UiaInv, UiaTypes
    <3> QED
        BY <3>2, <3>4, <3>5
  <2> QED
      BY <2>1, <2>2 DEF JobRuns
<1>5. UiaTypes'
    BY <1>2, <1>3, <1>4 DEF UiaInv, UiaTypes
<1>6. LockInv'
    BY <1>3 DEF UiaInv, LockInv
<1>7. JobInv'
  <2> SUFFICES ASSUME NEW c \in UiaCalls, c # j PROVE JobFine(c)'
      BY DEF JobInv
  <2>1. uiaCall'[c] = uiaCall[c] /\ jobOf'[c] = jobOf[c] /\ acted'[c] = acted[c]
      BY <1>2, <1>3
  <2>2. JobFine(c)
      BY DEF UiaInv, JobInv
  <2> QED
      BY <2>1, <2>2 DEF JobFine, Replied
<1>8. QueueInv'
  <2>1. \A v \in Threads : \A i \in DOMAIN thread[v].jobs : thread[v].jobs[i] # Wake =>
          /\ thread[v].jobs[i] \in UiaCalls /\ thread[v].jobs[i] # j
          /\ uiaCall[thread[v].jobs[i]].worker = v /\ jobOf[thread[v].jobs[i]].step = "queued"
      BY <1>1 DEF UiaInv, UiaTypes, ThreadRecords, QueueInv
  <2>2. \A v \in Threads : thread[v].at = "job" =>
          /\ thread[v].job # Wake /\ thread[v].job \in UiaCalls /\ uiaCall[thread[v].job].worker = v
          /\ jobOf[thread[v].job].step \in {"walk", "live", "own", "rest"}
      BY DEF UiaInv, UiaTypes, ThreadRecords, QueueInv
  <2>3. \A v \in Threads : thread[v].at = "job" /\ v # w => thread[v].job # j
      BY <1>1, <2>2
  <2>4. ASSUME NEW v \in Threads
        PROVE  /\ thread'[v].jobs = thread[v].jobs
               /\ thread'[v].at = "job" => /\ thread'[v].job = thread[v].job /\ thread[v].at = "job"
                                           /\ thread[v].job = j => new.step \in {"walk", "live", "own", "rest"}
    <3>1. CASE v = w
        BY <1>4, <3>1
    <3>2. CASE v # w
        BY <1>4, <2>3, <3>2
    <3> QED
        BY <3>1, <3>2
  <2>5. ASSUME NEW v \in Threads, NEW i \in DOMAIN thread'[v].jobs, thread'[v].jobs[i] # Wake
        PROVE  uiaCall'[thread'[v].jobs[i]].worker = v /\ jobOf'[thread'[v].jobs[i]].step = "queued"
      BY <1>2, <1>3, <2>1, <2>4, <2>5
  <2>6. ASSUME NEW v \in Threads, NEW i \in DOMAIN thread'[v].jobs, NEW k \in DOMAIN thread'[v].jobs,
               thread'[v].jobs[i] = thread'[v].jobs[k], thread'[v].jobs[i] # Wake
        PROVE  i = k
      BY <2>4, <2>6 DEF UiaInv, QueueInv
  <2>7. ASSUME NEW v \in Threads, thread'[v].at = "job"
        PROVE  /\ thread'[v].job # Wake /\ uiaCall'[thread'[v].job].worker = v
               /\ jobOf'[thread'[v].job].step \in {"walk", "live", "own", "rest"}
      BY <1>2, <1>3, <2>2, <2>4, <2>7
  <2> QED
      BY <2>5, <2>6, <2>7 DEF QueueInv
<1> QED
    BY <1>4, <1>5, <1>6, <1>7, <1>8 DEF UiaInv

\* A job that runs has done nothing yet, and its call has not been answered as if it had.
LEMMA RunningJob ==
  ASSUME UiaInv, NEW w \in Threads, NEW step, OnJob(w, step), NEW j, j = thread[w].job
  PROVE  /\ j \in UiaCalls /\ thread[w].at = "job" /\ uiaCall[j].worker = w /\ jobOf[j].step = step
         /\ step \in {"walk", "live", "own", "rest"}
         /\ acted[j] = <<>> /\ jobOf[j].result = "none" /\ jobOf[j] \in JobRecords
         /\ uiaCall[j].at \notin {"new", "lock", "ready", "slow", "mine"}
         /\ ~Replied(j, "not_asked") /\ ~Replied(j, "failed") /\ ~Replied(j, "done")
         /\ step \in {"own", "rest"} => uiaCall[j].ref[1] = w
<1>1. /\ j \in UiaCalls /\ thread[w].at = "job" /\ uiaCall[j].worker = w /\ jobOf[j].step = step
      /\ step \in {"walk", "live", "own", "rest"}
    BY DEF OnJob, UiaInv, UiaTypes, ThreadRecords, QueueInv
<1>2. JobFine(j) /\ jobOf[j] \in JobRecords
    BY <1>1 DEF UiaInv, UiaTypes, JobInv
<1> QED
    BY <1>1, <1>2 DEF JobFine

LEMMA NextKeeps ==
  ASSUME UiaInv, NEW w \in Threads, NEW step, OnJob(w, step), NEW next \in {"own", "rest"},
         jobOf' = [jobOf EXCEPT ![thread[w].job].step = next], UNCHANGED thread,
         Callers, UNCHANGED <<client, clientLock, uiaTrees, table, acted>>, uiaCall[thread[w].job].ref[1] = w
  PROVE  UiaInv'
<1> PICK j : j = thread[w].job
    OBVIOUS
<1>1. /\ j \in UiaCalls /\ thread[w].at = "job" /\ uiaCall[j].worker = w
      /\ acted[j] = <<>> /\ jobOf[j].result = "none" /\ jobOf[j] \in JobRecords
      /\ uiaCall[j].at \notin {"new", "lock", "ready", "slow", "mine"}
      /\ ~Replied(j, "not_asked") /\ ~Replied(j, "failed") /\ ~Replied(j, "done")
    BY RunningJob
<1> DEFINE new == [jobOf[j] EXCEPT !.step = next]
<1>2. /\ new \in JobRecords /\ new.step = next /\ new.result = "none" /\ new.tree = jobOf[j].tree
    BY <1>1 DEF JobRecords
<1>3. jobOf' = [jobOf EXCEPT ![j] = new]
    OBVIOUS
<1> HIDE DEF new
<1>4. jobOf'[j] = new /\ \A c \in UiaCalls : c # j => jobOf'[c] = jobOf[c]
    BY <1>1, <1>3 DEF UiaInv, UiaTypes
<1>5. UNCHANGED <<uiaCall, known, uiaTrees, table, acted>>
    BY DEF Callers
<1>6. JobFine(j)'
    BY <1>1, <1>2, <1>4, <1>5 DEF JobFine, Replied
<1>7. RefInv'
    BY <1>2, <1>4, <1>5 DEF UiaInv, RefInv, Lists
<1>8. uiaTrees' \in Nat /\ table' \in [Threads -> Nat] /\ DOMAIN acted' = UiaCalls
    BY <1>5 DEF UiaInv, UiaTypes
<1> QED
    BY <1>1, <1>2, <1>3, <1>5, <1>6, <1>7, <1>8, JobKeeps DEF JobRuns

\* The refs of a new tree are those of the thread that listed it.
LEMMA RefsKeep ==
  ASSUME UiaInv, NEW w \in Threads, NEW j \in UiaCalls, NEW made \in Refs,
         jobOf'[j].tree = made, \A c \in UiaCalls : c # j => jobOf'[c] = jobOf[c],
         UNCHANGED <<uiaCall, known>>,
         \/ UNCHANGED <<uiaTrees, table>> /\ made = NoRef
         \/ /\ uiaTrees' = uiaTrees + 1 /\ table' = [table EXCEPT ![w] = uiaTrees + 1]
            /\ made = <<w, uiaTrees + 1>>
  PROVE  RefInv' /\ uiaTrees' \in Nat /\ table' \in [Threads -> Nat]
<1>1. uiaTrees \in Nat /\ table \in [Threads -> Nat]
    BY DEF UiaInv, UiaTypes
<1>2. CASE UNCHANGED <<uiaTrees, table>> /\ made = NoRef
  <2>1. Lists(made)'
      BY <1>1, <1>2 DEF Lists, NoRef
  <2> QED
      BY <1>1, <1>2, <2>1 DEF UiaInv, RefInv, Lists
<1>3. CASE /\ uiaTrees' = uiaTrees + 1 /\ table' = [table EXCEPT ![w] = uiaTrees + 1]
           /\ made = <<w, uiaTrees + 1>>
  <2> PICK n \in Nat : n = uiaTrees + 1
      BY <1>1
  <2>1. /\ n > uiaTrees /\ uiaTrees' = n /\ table'[w] = n /\ made[1] = w /\ made[2] = n
        /\ \A v \in Threads : v # w => table'[v] = table[v]
        /\ \A v \in Threads : table[v] <= uiaTrees
      BY <1>1, <1>3 DEF UiaInv, RefInv
  <2>2. ASSUME NEW ref \in Refs, Lists(ref) PROVE Lists(ref)'
    <3>1. ref[2] \in Nat
        BY DEF Refs
    <3> QED
        BY <1>1, <2>1, <2>2, <3>1 DEF Lists
  <2>3. Lists(made)'
      BY <1>1, <2>1 DEF Lists
  <2>4. \A c \in UiaCalls : uiaCall[c].ref \in Refs /\ jobOf[c].tree \in Refs
      BY DEF UiaInv, UiaTypes, CallRecords, JobRecords
  <2>5. \A v \in Threads : table'[v] <= uiaTrees'
      BY <1>1, <2>1
  <2>6. known \subseteq Refs /\ (\A ref \in known : Lists(ref))
        /\ \A c \in UiaCalls : Lists(uiaCall[c].ref) /\ Lists(jobOf[c].tree)
      BY DEF UiaInv, UiaTypes, RefInv
  <2>7. \A ref \in known' : Lists(ref)'
      BY <2>2, <2>6
  <2>8. \A c \in UiaCalls : Lists(uiaCall[c].ref)' /\ Lists(jobOf[c].tree)'
    <3> TAKE c \in UiaCalls
    <3>1. uiaCall'[c].ref = uiaCall[c].ref /\ jobOf'[c].tree \in {made, jobOf[c].tree}
        OBVIOUS
    <3>2. Lists(uiaCall[c].ref)'
        BY <1>1, <2>1, <2>4, <2>6 DEF Lists, Refs
    <3>3. Lists(jobOf[c].tree)'
      <4>1. CASE c = j
          BY <2>3, <4>1 DEF Lists
      <4>2. CASE c # j
          BY <1>1, <2>1, <2>4, <2>6, <4>2 DEF Lists, Refs
      <4> QED
          BY <4>1, <4>2
    <3> QED
        BY <3>2, <3>3
  <2>9. RefInv'
      BY <2>5, <2>7, <2>8 DEF RefInv
  <2> QED
      BY <1>1, <1>3, <2>9
<1> QED
    BY <1>2, <1>3

LEMMA EndKeeps ==
  ASSUME UiaInv, NEW w \in Threads, NEW step, OnJob(w, step),
         NEW result \in {"failed", "listed", "done", "yours", "may_have_happened"}, NEW made \in Refs,
         EndJob(w, result, made), Callers, UNCHANGED <<client, clientLock>>,
         \/ UNCHANGED <<uiaTrees, table>> /\ made = NoRef
         \/ /\ uiaTrees' = uiaTrees + 1 /\ table' = [table EXCEPT ![w] = uiaTrees + 1]
            /\ made = <<w, uiaTrees + 1>>,
         \/ UNCHANGED acted /\ result # "done"
         \/ DidOwn(w) /\ step = "own" /\ result \in {"done", "may_have_happened"},
         result = "yours" => step = "rest"
  PROVE  UiaInv'
<1> PICK j : j = thread[w].job
    OBVIOUS
<1>1. /\ j \in UiaCalls /\ thread[w].at = "job" /\ uiaCall[j].worker = w
      /\ acted[j] = <<>> /\ jobOf[j].result = "none"
      /\ uiaCall[j].at \notin {"new", "lock", "ready", "slow", "mine"}
      /\ ~Replied(j, "not_asked") /\ ~Replied(j, "failed") /\ ~Replied(j, "done")
      /\ step \in {"own", "rest"} => uiaCall[j].ref[1] = w
    BY RunningJob
<1> DEFINE new == [step |-> "done", result |-> result, tree |-> made]
<1>2. new \in JobRecords /\ new.step = "done" /\ new.result = result /\ new.tree = made
    BY DEF JobRecords
<1>3. jobOf' = [jobOf EXCEPT ![j] = new] /\ thread' = [thread EXCEPT ![w].at = "loop", ![w].job = None]
    BY DEF EndJob
<1> HIDE DEF new
<1>4. jobOf'[j] = new /\ \A c \in UiaCalls : c # j => jobOf'[c] = jobOf[c]
    BY <1>1, <1>3 DEF UiaInv, UiaTypes
<1>5. UNCHANGED <<uiaCall, known>>
    BY DEF Callers
<1>6. /\ \A c \in UiaCalls : c # j => acted'[c] = acted[c]
      /\ DOMAIN acted' = UiaCalls
      /\ acted'[j] # <<>> => acted'[j] = <<[how |-> "own", on |-> uiaCall[j].ref[1]]>>
      /\ acted'[j] # <<>> => result \in {"done", "may_have_happened"}
      /\ result = "done" => acted'[j] # <<>>
  <2>1. CASE UNCHANGED acted /\ result # "done"
      BY <1>1, <2>1 DEF UiaInv, UiaTypes
  <2>2. CASE DidOwn(w) /\ step = "own" /\ result \in {"done", "may_have_happened"}
    <3>1. acted' = [acted EXCEPT ![j] = Append(acted[j], [how |-> "own", on |-> w])]
        BY <2>2 DEF DidOwn
    <3>2. Append(<<>>, [how |-> "own", on |-> w]) = <<[how |-> "own", on |-> w]>>
        OBVIOUS
    <3>3. acted' = [acted EXCEPT ![j] = <<[how |-> "own", on |-> uiaCall[j].ref[1]]>>]
        BY <1>1, <2>2, <3>1, <3>2
    <3> QED
        BY <1>1, <2>2, <3>3 DEF UiaInv, UiaTypes
  <2> QED
      BY <2>1, <2>2
<1>7. JobFine(j)'
    BY <1>1, <1>2, <1>4, <1>5, <1>6 DEF JobFine, Replied
<1>8. RefInv' /\ uiaTrees' \in Nat /\ table' \in [Threads -> Nat]
  <2>1. jobOf'[j].tree = made
      BY <1>2, <1>4
  <2> QED
      BY <1>1, <1>4, <1>5, <2>1, RefsKeep
<1> QED
    BY <1>1, <1>2, <1>3, <1>6, <1>7, <1>8, JobKeeps DEF JobRuns

LEMMA JobStepKeeps ==
  ASSUME UiaInv, NEW w \in Threads, WalkWindow(w) \/ LiveElement(w) \/ OwnPattern(w) \/ RestOfJob(w)
  PROVE  UiaInv'
<1>1. NoRef \in Refs /\ uiaTrees \in Nat /\ w \in Nat
    BY CallNumbers DEF NoRef, None, Refs, UiaInv, UiaTypes
<1>2. CASE WalkWindow(w)
  <2>1. OnJob(w, "walk") /\ Callers /\ UNCHANGED <<client, clientLock, acted, belated>>
      BY <1>2 DEF WalkWindow
  <2>2. PICK result \in {"failed", "listed"}, made \in {NoRef, <<w, uiaTrees + 1>>} :
          /\ EndJob(w, result, made)
          /\ \/ UNCHANGED <<uiaTrees, table>> /\ made = NoRef
             \/ /\ uiaTrees' = uiaTrees + 1 /\ table' = [table EXCEPT ![w] = uiaTrees + 1]
                /\ made = <<w, uiaTrees + 1>>
      BY <1>2 DEF WalkWindow, Number
  <2>3. made \in Refs
      BY <1>1 DEF Refs
  <2> QED
      BY <2>1, <2>2, <2>3, EndKeeps
<1>3. CASE LiveElement(w)
  <2>1. OnJob(w, "live") /\ Callers /\ UNCHANGED <<client, clientLock, uiaTrees, table, acted>>
      BY <1>3 DEF LiveElement
  <2>2. CASE EndJob(w, "failed", NoRef)
      BY <1>1, <2>1, <2>2, EndKeeps
  <2>3. CASE /\ table[w] = uiaCall[thread[w].job].ref[2] /\ table[w] # 0
             /\ \/ NextCallOf(w, "own", TRUE)
                \/ NextCallOf(w, "rest", Op(thread[w].job) = "type")
    <3>1. PICK next \in {"own", "rest"} :
            jobOf' = [jobOf EXCEPT ![thread[w].job].step = next] /\ UNCHANGED thread
        BY <2>3 DEF NextCallOf
    <3>2. thread[w].job \in UiaCalls
        BY <2>1, RunningJob
    <3>3. uiaCall[thread[w].job].ref[1] = w
        BY <2>3, <3>2 DEF UiaInv, RefInv, Lists
    <3> QED
        BY <2>1, <3>1, <3>3, NextKeeps
  <2> QED
      BY <1>3, <2>2, <2>3 DEF LiveElement
<1>4. CASE OwnPattern(w)
  <2>1. OnJob(w, "own") /\ Callers /\ UNCHANGED <<client, clientLock, uiaTrees, table>>
      BY <1>4 DEF OwnPattern
  <2>2. CASE DidOwn(w) /\ EndJob(w, "done", NoRef)
      BY <1>1, <2>1, <2>2, EndKeeps
  <2>3. CASE (DidOwn(w) \/ UNCHANGED acted) /\ EndJob(w, "may_have_happened", NoRef)
      BY <1>1, <2>1, <2>3, EndKeeps
  <2>4. CASE NextCallOf(w, "rest", FALSE) /\ UNCHANGED acted
    <3>1. jobOf' = [jobOf EXCEPT ![thread[w].job].step = "rest"] /\ UNCHANGED thread
        BY <2>4 DEF NextCallOf
    <3>2. uiaCall[thread[w].job].ref[1] = w
        BY <2>1, RunningJob
    <3> QED
        BY <2>1, <2>4, <3>1, <3>2, NextKeeps
  <2> QED
      BY <1>4, <2>2, <2>3, <2>4 DEF OwnPattern, Refused
<1>5. CASE RestOfJob(w)
  <2>1. /\ OnJob(w, "rest") /\ Callers /\ UNCHANGED <<client, clientLock, uiaTrees, table, acted, belated>>
        /\ \E result \in {"failed", "yours"} : EndJob(w, result, NoRef)
      BY <1>5 DEF RestOfJob
  <2> QED
      BY <1>1, <2>1, EndKeeps
<1> QED
    BY <1>2, <1>3, <1>4, <1>5

LEMMA UiaStep == UiaInv /\ [UiaNext]_uiaVars => UiaInv'
<1> SUFFICES ASSUME UiaInv, [UiaNext]_uiaVars PROVE UiaInv'
    OBVIOUS
<1>1. ASSUME NEW c \in UiaCalls, CallStep(c) PROVE UiaInv'
    BY <1>1, BeginKeeps, MoveKeeps, RunningKeeps, GiveUpKeeps, PutJobKeeps, GetResultKeeps, ByHandKeeps DEF CallStep
<1>2. ASSUME NEW w \in Threads, ThreadStep(w) PROVE UiaInv'
    BY <1>2, StartKeeps, LoopKeeps, JobStepKeeps DEF ThreadStep
<1>3. CASE UNCHANGED uiaVars
  <2>1. UiaTypes'
      BY <1>3 DEF uiaVars, UiaInv, UiaTypes
  <2>2. LockInv' /\ RefInv' /\ JobInv'
      BY <1>3, CallsStay DEF uiaVars
  <2>3. ClientInv' /\ AliveInv' /\ QueueInv'
      BY <1>3, ThreadsStay, QueuesStay DEF uiaVars
  <2> QED
      BY <2>1, <2>2, <2>3 DEF UiaInv
<1> QED
    BY <1>1, <1>2, <1>3 DEF UiaNext

LEMMA UiaInvIsPromise == UiaInv => UiaPromise
<1> SUFFICES ASSUME UiaInv PROVE UiaPromise
    OBVIOUS
<1>1. ActsOnce
  <2> SUFFICES ASSUME NEW c \in UiaCalls
               PROVE  /\ Len(acted[c]) <= 1
                      /\ acted[c] # <<>> => acted[c][1].on = uiaCall[c].ref[1]
                      /\ Replied(c, "not_asked") \/ Replied(c, "failed") => acted[c] = <<>>
                      /\ Replied(c, "done") => Len(acted[c]) = 1
      BY DEF ActsOnce
  <2>1. JobFine(c)
      BY DEF UiaInv, JobInv
  <2>2. CASE acted[c] = <<>>
      BY <2>1, <2>2 DEF JobFine
  <2>3. CASE acted[c] # <<>>
    <3>1. PICK how \in {"own", "hand"} : acted[c] = <<[how |-> how, on |-> uiaCall[c].ref[1]]>>
        BY <2>1, <2>3 DEF JobFine
    <3>2. Len(acted[c]) = 1 /\ acted[c][1].on = uiaCall[c].ref[1]
        BY <3>1
    <3> QED
        BY <2>1, <2>3, <3>2 DEF JobFine
  <2> QED
      BY <2>2, <2>3
<1>2. ThreadsApart
    BY DEF UiaInv, ClientInv, AliveInv, AliveThreads, ThreadsApart
<1> QED
    BY <1>1, <1>2 DEF UiaPromise

(* A call to UI Automation acts at most once, on the element its ref was listed for, and tells what it
   did, however many threads were given up in hung applications; the thread in use has the process-wide
   client, and no more threads are alive than MAX_STUCK_WORKERS (platform/win/uia.py, UiaWorker). *)
THEOREM UiaPromiseKept == UiaSpec => []UiaPromise
<1>1. UiaInv => UiaPromise
    BY UiaInvIsPromise
<1> QED
    BY UiaBegins, UiaStep, <1>1, PTL DEF UiaSpec

-----------------------------------------------------------------------------
(* Acting on elements. *)

Desktops ==
  [title : [Windows -> Titles \cup {"closed"}], active : Windows \cup {NoWindow}, shows : [Nodes -> Names],
   focus : Nodes \cup {"none"}]
ListingInv ==
  /\ tree \in Nat /\ listing \in Seq({listing[t] : t \in DOMAIN listing}) /\ Len(listing) = tree
  /\ entries = (IF tree = 0 THEN <<>> ELSE listing[tree])

Acts == tool.op \in {"click", "type"}
Acting == {"act", "center", "mouse", "focus", "wait", "keys"}

\* The ref was listed, and once its element was found the entry at work is what the ref was listed for;
\* while the desktop keeps still the element shows what it did, where the mouse or the keys go is where it
\* is, and nothing was done before the call ends.
RefKnown == tool.ref[1] \in DOMAIN listing /\ tool.ref[2] \in DOMAIN listing[tool.ref[1]]
ActFits(deed, entry) ==
  /\ deed.how = "own" => deed.node = entry.node
  /\ calm /\ InItsWindow(entry) => OnAsked(deed, entry)
ActsWithin ==
  /\ tool.step # "over" => did = <<>>
  /\ tool.step = "over" => (tool.reply = "done" => did # <<>>) /\ (tool.reply = "nothing" => did = <<>>)
  /\ tool.step \in Acting =>
       /\ tool.entry = ListedAs(tool.ref) /\ tool.entry.node \in Nodes
       /\ calm => desktop.shows[tool.entry.node] = tool.entry.name
  /\ tool.step = "mouse" =>
       tool.place = PlaceOf(tool.entry.node) /\ (calm => desktop.active = tool.entry.window)
  /\ tool.step = "keys" => (calm => desktop.focus = tool.entry.node)
  /\ did # <<>> => did = <<did[1]>> /\ ActFits(did[1], ListedAs(tool.ref))
ElementInv ==
  /\ desktop \in Desktops /\ ListingInv /\ DOMAIN tool = DOMAIN NoTool
  /\ tool.step \in Acting \cup {"live"} => Acts
  /\ tool.step \in {"target", "walk"} => ~Acts
  /\ Acts => RefKnown /\ ActsWithin

LEMMA ElementBegins == ElementInit => ElementInv
<1> SUFFICES ASSUME ElementInit PROVE ElementInv
    OBVIOUS
<1>1. PICK titles \in [Windows -> Titles], active \in Windows \cup {NoWindow}, name \in Names :
        ElementIdle(titles, active, [n \in Nodes |-> name])
    BY DEF ElementInit
<1>2. desktop \in Desktops
    BY <1>1, ElementAssumption DEF ElementIdle, Desktops
<1>3. ListingInv
    BY <1>1 DEF ElementIdle, ListingInv
<1>4. tool = NoTool /\ ~Acts
    BY <1>1 DEF ElementIdle, Acts, NoTool
<1> QED
    BY <1>2, <1>3, <1>4 DEF ElementInv, NoTool, Acting

\* A tree is added to those listed before, which stay as they were.
ListingStays == \A t \in DOMAIN listing : t \in DOMAIN listing' /\ listing'[t] = listing[t]

LEMMA ListingKeeps ==
  ASSUME ListingInv,
         \/ UNCHANGED <<tree, entries, listing>>
         \/ tree' = tree + 1 /\ listing' = Append(listing, entries')
  PROVE  ListingInv' /\ ListingStays
<1>1. CASE UNCHANGED <<tree, entries, listing>>
    BY <1>1 DEF ListingInv, ListingStays
<1>2. CASE tree' = tree + 1 /\ listing' = Append(listing, entries')
  <2> PICK S : S = {listing[t] : t \in DOMAIN listing} \cup {entries'}
      OBVIOUS
  <2>1. listing \in Seq(S) /\ entries' \in S /\ tree \in Nat /\ Len(listing) = tree
      BY DEF ListingInv
  <2>2. /\ listing' \in Seq(S) /\ Len(listing') = tree + 1 /\ DOMAIN listing' = 1..(tree + 1)
        /\ DOMAIN listing = 1..tree /\ listing'[tree + 1] = entries'
        /\ \A t \in 1..tree : listing'[t] = listing[t]
      BY <1>2, <2>1
  <2>3. listing' \in Seq({listing'[t] : t \in DOMAIN listing'})
      BY <2>1, <2>2
  <2>4. tree' # 0 /\ tree' \in Nat /\ 1..tree \subseteq 1..(tree + 1)
      BY <1>2, <2>1
  <2> QED
      BY <1>2, <2>2, <2>3, <2>4 DEF ListingInv, ListingStays
<1> QED
    BY <1>1, <1>2

LEMMA RefStays ==
  ASSUME RefKnown, ListingStays, tool'.ref = tool.ref
  PROVE  RefKnown' /\ ListedAs(tool.ref)' = ListedAs(tool.ref)
BY DEF RefKnown, ListingStays, ListedAs

\* What happens beside the tool: another tree, or a change of the desktop, which ends the calm.
LEMMA BesideKeeps ==
  ASSUME ElementInv, UNCHANGED <<tool, did>>, desktop' \in Desktops, ListingInv', ListingStays,
         UNCHANGED <<desktop, calm>> \/ calm' = FALSE
  PROVE  ElementInv'
<1>1. ASSUME Acts PROVE RefKnown' /\ ActsWithin'
  <2>1. RefKnown /\ ActsWithin /\ RefKnown' /\ ListedAs(tool.ref)' = ListedAs(tool.ref)
      BY <1>1, RefStays DEF ElementInv
  <2>2. CASE UNCHANGED <<desktop, calm>>
      BY <2>1, <2>2 DEF ActsWithin, ActFits, OnAsked, InItsWindow
  <2>3. CASE calm' = FALSE
      BY <2>1, <2>3 DEF ActsWithin, ActFits
  <2> QED
      BY <2>1, <2>2, <2>3
<1> QED
    BY <1>1 DEF ElementInv, Acts

LEMMA PublishGrows ==
  ASSUME NEW root, NEW target, PublishTree(root, target)
  PROVE  tree' = tree + 1 /\ listing' = Append(listing, entries')
BY DEF PublishTree

LEMMA BesideSteps ==
  ASSUME ElementInv, ShotBegins \/ ShotEnds \/ WorldStep \/ RestartServer \/ UNCHANGED elementVars
  PROVE  ElementInv'
<1>1. CASE ShotBegins \/ ShotEnds \/ RestartServer \/ UNCHANGED elementVars
  <2>1. UNCHANGED <<tool, did, desktop, calm>>
      BY <1>1 DEF ShotBegins, ShotEnds, RestartServer, elementVars
  <2>2. \/ UNCHANGED <<tree, entries, listing>>
        \/ tree' = tree + 1 /\ listing' = Append(listing, entries')
      BY <1>1, PublishGrows DEF ShotBegins, ShotEnds, RestartServer, elementVars
  <2> QED
      BY <2>1, <2>2, ListingKeeps, BesideKeeps DEF ElementInv
<1>2. CASE WorldStep
  <2>1. UNCHANGED <<tool, did, tree, entries, listing>> /\ calm' = FALSE
      BY <1>2 DEF WorldStep, Raise, Close, Retitle, Reuse, MoveFocus, World
  <2>2. desktop' \in Desktops
    <3>1. desktop \in Desktops
        BY DEF ElementInv
    <3>2. CASE Raise
      <4>1. PICK w \in Windows : desktop' = [desktop EXCEPT !.active = w, !.focus = "none"]
          BY <3>2 DEF Raise, Open
      <4> QED
          BY <3>1, <4>1 DEF Desktops
    <3>3. CASE Close
      <4>1. PICK w \in Open : desktop' = [desktop EXCEPT !.title[w] = "closed",
                 !.active = IF @ = w THEN NoWindow ELSE @, !.focus = "none"]
          BY <3>3 DEF Close
      <4>2. desktop' = [desktop EXCEPT !.title = [desktop.title EXCEPT ![w] = "closed"],
                 !.active = IF desktop.active = w THEN NoWindow ELSE desktop.active, !.focus = "none"]
          BY <3>1, <4>1 DEF Desktops
      <4>3. [desktop.title EXCEPT ![w] = "closed"] \in [Windows -> Titles \cup {"closed"}]
          BY <3>1 DEF Desktops
      <4> QED
          BY <3>1, <4>2, <4>3 DEF Desktops
    <3>4. CASE Retitle
      <4>1. PICK w \in Open, t \in Titles : desktop' = [desktop EXCEPT !.title[w] = t]
          BY <3>4 DEF Retitle
      <4>2. [desktop.title EXCEPT ![w] = t] \in [Windows -> Titles \cup {"closed"}]
          BY <3>1 DEF Desktops
      <4> QED
          BY <3>1, <4>1, <4>2 DEF Desktops
    <3>5. CASE Reuse
      <4>1. PICK n \in Nodes, name \in Names : desktop' = [desktop EXCEPT !.shows[n] = name]
          BY <3>5 DEF Reuse
      <4>2. [desktop.shows EXCEPT ![n] = name] \in [Nodes -> Names]
          BY <3>1 DEF Desktops
      <4> QED
          BY <3>1, <4>1, <4>2 DEF Desktops
    <3>6. CASE MoveFocus
        BY <3>1, <3>6 DEF MoveFocus, Desktops
    <3> QED
        BY <1>2, <3>2, <3>3, <3>4, <3>5, <3>6 DEF WorldStep
  <2> QED
      BY <2>1, <2>2, ListingKeeps, BesideKeeps DEF ElementInv
<1> QED
    BY <1>1, <1>2

\* A tool that begins, or ends without having done anything.
LEMMA ToolBegins == ASSUME ElementInv, BeginTool \/ NextElementTool PROVE ElementInv'
<1>1. UNCHANGED <<desktop, tree, entries, listing>> /\ did' = <<>>
    BY DEF BeginTool, NextElementTool
<1>2. desktop' \in Desktops /\ ListingInv' /\ ListingStays
    BY <1>1, ListingKeeps DEF ElementInv
<1>3. CASE tool' = NoTool \/ tool' = [NoTool EXCEPT !.op = "tree", !.step = "target"]
  <2>1. DOMAIN tool' = DOMAIN NoTool
    <3>1. DOMAIN [NoTool EXCEPT !.op = "tree", !.step = "target"] = DOMAIN NoTool
        BY DEF NoTool
    <3> QED
        BY <1>3, <3>1
  <2>2. tool'.op \in {"none", "tree"} /\ tool'.step \in {"idle", "target"}
    <3>1. /\ NoTool.op = "none" /\ [NoTool EXCEPT !.op = "tree", !.step = "target"].op = "tree"
          /\ NoTool.step = "idle" /\ [NoTool EXCEPT !.op = "tree", !.step = "target"].step = "target"
        BY DEF NoTool
    <3> QED
        BY <1>3, <3>1
  <2> QED
      BY <1>2, <2>1, <2>2 DEF ElementInv, Acts, Acting
<1>4. CASE \E t \in DOMAIN listing : \E i \in DOMAIN listing[t], op \in {"click", "type"} :
          tool' = [NoTool EXCEPT !.op = op, !.step = "live", !.ref = <<t, i>>]
  <2>1. PICK t \in DOMAIN listing :
          \E i \in DOMAIN listing[t], op \in {"click", "type"} :
            tool' = [NoTool EXCEPT !.op = op, !.step = "live", !.ref = <<t, i>>]
      BY <1>4
  <2>2. PICK i \in DOMAIN listing[t], op \in {"click", "type"} :
            tool' = [NoTool EXCEPT !.op = op, !.step = "live", !.ref = <<t, i>>]
      BY <2>1
  <2>3. /\ DOMAIN tool' = DOMAIN NoTool /\ tool'.op = op /\ tool'.step = "live"
        /\ tool'.ref[1] = t /\ tool'.ref[2] = i
      BY <2>2 DEF NoTool
  <2> QED
      BY <1>1, <1>2, <2>3 DEF ElementInv, Acts, RefKnown, ActsWithin, Acting
<1> QED
    BY <1>3, <1>4 DEF BeginTool, NextElementTool

\* What the end of a call leaves of the tool.
LEMMA EndedTool ==
  ASSUME DOMAIN tool = DOMAIN NoTool, NEW reply, EndTool(reply)
  PROVE  /\ DOMAIN tool' = DOMAIN NoTool /\ tool'.step = "over" /\ tool'.reply = reply
         /\ UNCHANGED <<tool.op, tool.ref>>
BY DEF EndTool, NoTool

\* A step of the tool after which nothing was done yet.
LEMMA StepKeeps ==
  ASSUME ElementInv, Acts, UNCHANGED <<desktop, did, calm>>, did = <<>>,
         \/ UNCHANGED <<tree, entries, listing>>
         \/ tree' = tree + 1 /\ listing' = Append(listing, entries'),
         DOMAIN tool' = DOMAIN NoTool, UNCHANGED <<tool.op, tool.ref>>,
         tool'.step = "over" => tool'.reply # "done", tool'.step \notin {"target", "walk"},
         tool'.step \in Acting =>
           /\ tool'.entry = ListedAs(tool.ref) /\ tool'.entry.node \in Nodes
           /\ calm => desktop.shows[tool'.entry.node] = tool'.entry.name,
         tool'.step = "mouse" =>
           tool'.place = PlaceOf(tool'.entry.node) /\ (calm => desktop.active = tool'.entry.window),
         tool'.step = "keys" => (calm => desktop.focus = tool'.entry.node)
  PROVE  ElementInv'
<1>1. ListingInv' /\ ListingStays
    BY ListingKeeps DEF ElementInv
<1>2. RefKnown' /\ ListedAs(tool.ref)' = ListedAs(tool.ref)
    BY <1>1, RefStays DEF ElementInv
<1>3. ActsWithin'
    BY <1>2 DEF ActsWithin
<1> QED
    BY <1>1, <1>2, <1>3 DEF ElementInv, Acts

LEMMA LiveKeeps == ASSUME ElementInv, Acts, CheckLive PROVE ElementInv'
<1>1. tool.step = "live" /\ did = <<>> /\ UNCHANGED <<tree, entries, listing, did, desktop, calm>>
      /\ DOMAIN tool = DOMAIN NoTool
    BY DEF CheckLive, Unchanged, ElementInv, ActsWithin
<1>2. CASE EndTool("nothing")
  <2>1. /\ DOMAIN tool' = DOMAIN NoTool /\ tool'.step = "over" /\ UNCHANGED <<tool.op, tool.ref>>
        /\ tool'.reply = "nothing"
      BY <1>1, <1>2, EndedTool
  <2> QED
      BY <1>1, <2>1, StepKeeps DEF Acting
<1>3. CASE /\ tool.ref[1] = tree /\ tool.ref[2] \in DOMAIN entries
           /\ \E list \in {Open, {}} : Same(entries[tool.ref[2]], list)
           /\ tool' = [tool EXCEPT !.step = "act", !.entry = entries[tool.ref[2]]]
  <2>1. /\ DOMAIN tool' = DOMAIN NoTool /\ tool'.step = "act" /\ UNCHANGED <<tool.op, tool.ref>>
        /\ tool'.entry = entries[tool.ref[2]]
      BY <1>1, <1>3 DEF NoTool
  <2>2. entries[tool.ref[2]] = ListedAs(tool.ref)
    <3>1. tree # 0
        BY <1>3 DEF ElementInv, ListingInv
    <3> QED
        BY <1>3, <3>1 DEF ElementInv, ListingInv, ListedAs
  <2> QED
      BY <1>1, <1>3, <2>1, <2>2, StepKeeps DEF Same, Answering
<1> QED
    BY <1>2, <1>3 DEF CheckLive

\* What is known when an element that was found is worked on.
LEMMA AtWork ==
  ASSUME ElementInv, Acts, tool.step \in Acting
  PROVE  /\ did = <<>> /\ DOMAIN tool = DOMAIN NoTool
         /\ tool.entry = ListedAs(tool.ref) /\ tool.entry.node \in Nodes
         /\ calm => desktop.shows[tool.entry.node] = tool.entry.name
BY DEF ElementInv, ActsWithin, Acting

\* The step that does something ends the call.
LEMMA DidKeeps ==
  ASSUME ElementInv, Acts, tool.step \in Acting, NEW how \in {"own", "mouse", "keys"}, NEW node,
         Did(how, node), NEW reply, EndTool(reply), reply # "nothing",
         UNCHANGED <<desktop, calm, tree, entries, listing>>,
         how = "own" => node = tool.entry.node,
         calm /\ InItsWindow(tool.entry) /\ node # tool.entry.node =>
           /\ how = "mouse" /\ node \in Nodes
           /\ WindowOf(node) = tool.entry.window /\ PlaceOf(node) = PlaceOf(tool.entry.node)
  PROVE  ElementInv'
<1>1. /\ did = <<>> /\ DOMAIN tool = DOMAIN NoTool
      /\ tool.entry = ListedAs(tool.ref) /\ tool.entry.node \in Nodes
      /\ calm => desktop.shows[tool.entry.node] = tool.entry.name
    BY AtWork
<1>2. /\ DOMAIN tool' = DOMAIN NoTool /\ tool'.step = "over" /\ UNCHANGED <<tool.op, tool.ref>>
      /\ tool'.reply = reply
    BY <1>1, EndedTool
<1>3. ListingInv' /\ ListingStays
    BY ListingKeeps DEF ElementInv
<1>4. RefKnown' /\ ListedAs(tool.ref)' = ListedAs(tool.ref)
    BY <1>2, <1>3, RefStays DEF ElementInv
<1> DEFINE shown == IF node \in Nodes THEN desktop.shows[node] ELSE ""
           act == [how |-> how, node |-> node, shows |-> shown]
<1>5. did' = <<act>> /\ act.how = how /\ act.node = node /\ (node \in Nodes => act.shows = desktop.shows[node])
  <2>1. did' = Append(<<>>, act)
      BY <1>1 DEF Did
  <2>2. Append(<<>>, act) = <<act>>
      OBVIOUS
  <2>3. act.how = how /\ act.node = node /\ act.shows = shown /\ (node \in Nodes => shown = desktop.shows[node])
      OBVIOUS
  <2> QED
      BY <2>1, <2>2, <2>3
<1> HIDE DEF act
<1>6. did'[1] = act /\ did' = <<did'[1]>> /\ did' # <<>>
    BY <1>5
<1>7. ActFits(act, tool.entry)
    BY <1>1, <1>5 DEF ActFits, OnAsked
<1>8. (ActFits(did[1], ListedAs(tool.ref)))'
    BY <1>1, <1>4, <1>6, <1>7 DEF ActFits, OnAsked, InItsWindow
<1>9. ActsWithin'
  <2>1. tool'.step \notin Acting /\ tool'.step # "mouse" /\ tool'.step # "keys"
      BY <1>2 DEF Acting
  <2> QED
      BY <1>2, <1>6, <1>8, <2>1 DEF ActsWithin
<1> QED
    BY <1>2, <1>3, <1>4, <1>9 DEF ElementInv, Acts

LEMMA ActKeeps == ASSUME ElementInv, Acts, Act PROVE ElementInv'
<1>1. /\ tool.step = "act" /\ tool.step \in Acting
      /\ UNCHANGED <<tree, entries, listing, desktop, calm>>
    BY DEF Act, Unchanged, Acting
<1>2. /\ did = <<>> /\ DOMAIN tool = DOMAIN NoTool
      /\ tool.entry = ListedAs(tool.ref) /\ tool.entry.node \in Nodes
      /\ calm => desktop.shows[tool.entry.node] = tool.entry.name
    BY <1>1, AtWork
<1>3. CASE Otherwise /\ UNCHANGED did
  <2>1. PICK step \in {"center", "focus"} : tool' = [tool EXCEPT !.step = step]
      BY <1>3 DEF Otherwise
  <2>2. DOMAIN tool' = DOMAIN NoTool /\ tool'.step = step /\ UNCHANGED <<tool.op, tool.ref, tool.entry>>
      BY <1>2, <2>1 DEF NoTool
  <2> QED
      BY <1>1, <1>2, <1>3, <2>2, StepKeeps
<1>4. CASE \E reply \in {"done", "may_have_happened"} : Did("own", tool.entry.node) /\ EndTool(reply)
    BY <1>1, <1>4, DidKeeps
<1>5. CASE \E reply \in {"may_have_happened", "nothing"} : EndTool(reply) /\ UNCHANGED did
  <2>1. /\ DOMAIN tool' = DOMAIN NoTool /\ tool'.step = "over" /\ UNCHANGED <<tool.op, tool.ref>>
        /\ tool'.reply # "done"
      BY <1>2, <1>5, EndedTool
  <2> QED
      BY <1>1, <1>2, <1>5, <2>1, StepKeeps DEF Acting
<1> QED
    BY <1>3, <1>4, <1>5 DEF Act

\* The steps of a reading.
LEMMA ReadingKeeps == ASSUME ElementInv, ReadTarget \/ WalkTree PROVE ElementInv'
<1>1. /\ tool.step \in {"target", "walk"} /\ UNCHANGED <<did, desktop, calm>> /\ DOMAIN tool = DOMAIN NoTool
      /\ desktop \in Desktops
    BY DEF ReadTarget, WalkTree, Unchanged, ElementInv
<1>2. \/ UNCHANGED <<tree, entries, listing>>
      \/ tree' = tree + 1 /\ listing' = Append(listing, entries')
    BY PublishGrows DEF ReadTarget, WalkTree
<1>3. DOMAIN tool' = DOMAIN NoTool /\ tool'.step \in {"over", "walk"} /\ UNCHANGED <<tool.op, tool.ref>>
  <2>1. CASE \E reply \in {"nothing", "done"} : EndTool(reply)
      BY <1>1, <2>1, EndedTool
  <2>2. CASE \E target : tool' = [tool EXCEPT !.step = "walk", !.target = target]
      BY <1>1, <2>2 DEF NoTool
  <2> QED
      BY <2>1, <2>2 DEF ReadTarget, WalkTree
<1>4. ~Acts
    BY <1>1 DEF ElementInv
<1>5. ListingInv'
    BY <1>2, ListingKeeps DEF ElementInv
<1> QED
    BY <1>1, <1>3, <1>4, <1>5 DEF ElementInv, Acts, Acting

LEMMA CenterKeeps == ASSUME ElementInv, Acts, Center \/ NoFocus \/ WaitFocus PROVE ElementInv'
<1>1. /\ tool.step \in Acting
      /\ UNCHANGED <<tree, entries, listing, did, desktop, calm>>
    BY DEF Center, NoFocus, WaitFocus, Unchanged, Acting
<1>2. /\ did = <<>> /\ DOMAIN tool = DOMAIN NoTool
      /\ tool.entry = ListedAs(tool.ref) /\ tool.entry.node \in Nodes
      /\ calm => desktop.shows[tool.entry.node] = tool.entry.name
    BY <1>1, AtWork
<1>3. CASE EndTool("nothing")
  <2>1. /\ DOMAIN tool' = DOMAIN NoTool /\ tool'.step = "over" /\ UNCHANGED <<tool.op, tool.ref>>
        /\ tool'.reply = "nothing"
      BY <1>2, <1>3, EndedTool
  <2> QED
      BY <1>1, <1>2, <2>1, StepKeeps DEF Acting
<1>4. CASE /\ desktop.active = tool.entry.window
           /\ tool' = [tool EXCEPT !.step = "mouse", !.place = PlaceOf(tool.entry.node)]
  <2>1. /\ DOMAIN tool' = DOMAIN NoTool /\ tool'.step = "mouse" /\ UNCHANGED <<tool.op, tool.ref, tool.entry>>
        /\ tool'.place = PlaceOf(tool.entry.node)
      BY <1>2, <1>4 DEF NoTool
  <2> QED
      BY <1>1, <1>2, <1>4, <2>1, StepKeeps
<1>5. CASE Focused /\ tool' = [tool EXCEPT !.step = "keys"]
  <2>1. DOMAIN tool' = DOMAIN NoTool /\ tool'.step = "keys" /\ UNCHANGED <<tool.op, tool.ref, tool.entry>>
      BY <1>2, <1>5 DEF NoTool
  <2> QED
      BY <1>1, <1>2, <1>5, <2>1, StepKeeps DEF Focused
<1> QED
    BY <1>3, <1>4, <1>5 DEF Center, NoFocus, WaitFocus

\* Raising the window and giving the focus are the tool's own doing: nothing the entry was compared with
\* changes.
LEMMA FocusKeeps == ASSUME ElementInv, Acts, GiveFocus PROVE ElementInv'
<1>1. /\ tool.step = "focus" /\ tool.step \in Acting /\ tool' = [tool EXCEPT !.step = "wait"]
      /\ UNCHANGED <<tree, entries, listing, did, calm>> /\ tool.entry.window \in Open
      /\ desktop \in Desktops
    BY DEF GiveFocus, Acting, ElementInv
<1>2. /\ did = <<>> /\ DOMAIN tool = DOMAIN NoTool
      /\ tool.entry = ListedAs(tool.ref) /\ tool.entry.node \in Nodes
      /\ calm => desktop.shows[tool.entry.node] = tool.entry.name
    BY <1>1, AtWork
<1>3. desktop' \in Desktops /\ desktop'.title = desktop.title /\ desktop'.shows = desktop.shows
  <2>1. tool.entry.window \in Windows
      BY <1>1 DEF Open
  <2>2. CASE desktop' = desktop
      BY <1>1, <2>2
  <2>3. CASE desktop' = [desktop EXCEPT !.active = tool.entry.window]
      BY <1>1, <2>1, <2>3 DEF Desktops
  <2>4. CASE desktop' = [desktop EXCEPT !.active = tool.entry.window, !.focus = tool.entry.node]
      BY <1>1, <1>2, <2>1, <2>4 DEF Desktops
  <2> QED
      BY <2>2, <2>3, <2>4 DEF GiveFocus
<1>4. DOMAIN tool' = DOMAIN NoTool /\ tool'.step = "wait" /\ UNCHANGED <<tool.op, tool.ref, tool.entry>>
    BY <1>1, <1>2 DEF NoTool
<1>5. ListingInv' /\ ListingStays
    BY <1>1, ListingKeeps DEF ElementInv
<1>6. RefKnown' /\ ListedAs(tool.ref)' = ListedAs(tool.ref)
    BY <1>4, <1>5, RefStays DEF ElementInv
<1>7. ActsWithin'
    BY <1>1, <1>2, <1>3, <1>4, <1>6 DEF ActsWithin, Acting
<1> QED
    BY <1>3, <1>4, <1>5, <1>6, <1>7 DEF ElementInv, Acts

\* While the desktop keeps still what the mouse meets is the listed element or lies at its place in its
\* window, and the focus is where it was seen.
LEMMA InputKeeps == ASSUME ElementInv, Acts, Mouse \/ TypeText PROVE ElementInv'
<1>1. /\ tool.step \in {"mouse", "keys"} /\ tool.step \in Acting
      /\ UNCHANGED <<tree, entries, listing, desktop, calm>>
    BY DEF Mouse, TypeText, Unchanged, Acting
<1>2. /\ tool.entry.node \in Nodes
      /\ tool.step = "mouse" =>
           tool.place = PlaceOf(tool.entry.node) /\ (calm => desktop.active = tool.entry.window)
      /\ tool.step = "keys" => (calm => desktop.focus = tool.entry.node)
    BY <1>1 DEF ElementInv, ActsWithin
<1>3. CASE Mouse
  <2>1. PICK node \in Nodes \cup {"elsewhere"} :
          /\ Did("mouse", node) /\ EndTool("done")
          /\ IF Hit(tool.place) = {} THEN node = "elsewhere" ELSE node \in Hit(tool.place)
    <3>1. CASE Hit(tool.place) = {}
        BY <1>3, <3>1 DEF Mouse
    <3>2. CASE Hit(tool.place) # {}
        BY <1>3, <3>2 DEF Mouse, Hit
    <3> QED
        BY <3>1, <3>2
  <2>2. ASSUME calm, InItsWindow(tool.entry)
        PROVE  node \in Nodes /\ WindowOf(node) = tool.entry.window /\ PlaceOf(node) = PlaceOf(tool.entry.node)
    <3>1. tool.entry.node \in Hit(tool.place)
        BY <1>2, <1>3, <2>2 DEF Mouse, Hit, InItsWindow
    <3>2. node \in Nodes /\ WindowOf(node) = desktop.active /\ PlaceOf(node) = tool.place
        BY <2>1, <3>1 DEF Hit
    <3> QED
        BY <1>2, <1>3, <2>2, <3>2 DEF Mouse
  <2> QED
      BY <1>1, <2>1, <2>2, DidKeeps
<1>4. CASE TypeText
  <2>1. Did("keys", desktop.focus) /\ EndTool("done") /\ (calm => desktop.focus = tool.entry.node)
      BY <1>2, <1>4 DEF TypeText
  <2> QED
      BY <1>1, <2>1, DidKeeps
<1> QED
    BY <1>3, <1>4

LEMMA ElementStep == ElementInv /\ [ElementNext]_elementVars => ElementInv'
<1> SUFFICES ASSUME ElementInv, [ElementNext]_elementVars PROVE ElementInv'
    OBVIOUS
<1>1. CASE ShotBegins \/ ShotEnds \/ WorldStep \/ RestartServer \/ UNCHANGED elementVars
    BY <1>1, BesideSteps
<1>2. CASE BeginTool \/ NextElementTool
    BY <1>2, ToolBegins
<1>3. CASE ReadTarget \/ WalkTree
    BY <1>3, ReadingKeeps
<1>4. CASE CheckLive \/ Act \/ Center \/ Mouse \/ GiveFocus \/ NoFocus \/ WaitFocus \/ TypeText
  <2>1. tool.step \in Acting \cup {"live"}
      BY <1>4 DEF CheckLive, Act, Center, Mouse, GiveFocus, NoFocus, WaitFocus, TypeText, Acting
  <2>2. Acts
      BY <2>1 DEF ElementInv
  <2> QED
      BY <1>4, <2>2, LiveKeeps, ActKeeps, CenterKeeps, FocusKeeps, InputKeeps
<1> QED
    BY <1>1, <1>2, <1>3, <1>4 DEF ElementNext

LEMMA ElementTold == ElementInv => ElementActs
<1> SUFFICES ASSUME ElementInv, Acts
             PROVE  /\ Len(did) <= 1
                    /\ tool.step = "over" => (tool.reply = "done" => did # <<>>) /\ (tool.reply = "nothing" => did = <<>>)
                    /\ \A i \in DOMAIN did : ActFits(did[i], ListedAs(tool.ref))
    BY DEF ElementActs, Acts, ActFits
<1>1. CASE did = <<>>
    BY <1>1 DEF ElementInv, ActsWithin
<1>2. CASE did # <<>>
  <2>1. did = <<did[1]>> /\ ActFits(did[1], ListedAs(tool.ref))
      BY <1>2 DEF ElementInv, ActsWithin
  <2>2. Len(did) = 1 /\ DOMAIN did = {1}
    <3>1. \A x : Len(<<x>>) = 1 /\ DOMAIN <<x>> = {1}
        OBVIOUS
    <3> QED
        BY <2>1, <3>1
  <2> QED
      BY <1>2, <2>1, <2>2 DEF ElementInv, ActsWithin
<1> QED
    BY <1>1, <1>2

(* ClickElement and TypeElement do at most one thing to the application and reply truly whether they did;
   they act through an element's own interface only on the element the ref was listed for; and while the
   desktop keeps still - if the tree was of the window it was asked for - they reach that element as it was
   listed, or with the mouse one that lies at its place in its window (platform/linux/windows.py,
   click_element and type_element). *)
THEOREM ElementsActedOnAsListed == ElementSpec => []ElementActs
BY ElementBegins, ElementStep, ElementTold, PTL DEF ElementSpec

-----------------------------------------------------------------------------
(* Input. *)

KeyNames == Modifiers \cup {"a", "f20", "bad"}
HoldSteps == {"press", "release"}
Dragging == {"drag", "walk", "drop"}
TypeSteps == {"prepare", "type", "save", "set", "paste", "restore"}

\* What step a call is at says which tool it is; nothing is answered before the call is over, but what
\* a paste says of the clipboard.
TaskShape ==
  /\ DOMAIN task = DOMAIN NoTask /\ task.keys \in Seq(KeyNames) /\ task.held \in Seq(KeyNames)
  /\ task.step \in HoldSteps => task.tool \in {"HoldKey", "Click", "Scroll"}
  /\ task.step \in HoldSteps /\ task.tool = "Click" => task.button \in Buttons /\ task.action \in ClickActions
  /\ task.step \in {"move", "dragged"} \cup Dragging => task.tool = "Move"
  /\ task.step = "move" => task.action = "move"
  /\ task.step \in {"dragged"} \cup Dragging => task.action = "drag"
  /\ task.step \in Dragging => os = "x11"
  /\ task.step = "shortcut" => task.tool = "Shortcut"
  /\ task.step \in TypeSteps \cup {"enter"} => task.tool = "Type"
  /\ task.step \notin {"over", "enter"} => task.reply = "none"
  /\ task.step = "press" => ~task.failed /\ task.saved = ""
  /\ task.tool = "none" => task.step = "over"

\* A call holds the first of its keys, and what is down was down before it, or is one of those, or is
\* what the call was to press, or is known to have been left.
KeysOf(held) == {held[i] : i \in 1..Len(held)}
HeldNow == KeysOf(task.held)
HoldingInv ==
  /\ task.step = "press" =>
       /\ Len(task.held) <= Len(task.keys)
       /\ \A i \in 1..Len(task.held) : task.held[i] = task.keys[i]
       /\ HeldNow \subseteq down /\ (os = "macos" => HeldNow \subseteq marked)
  /\ task.step \in HoldSteps =>
       /\ down \subseteq task.before \cup HeldNow \cup Asked \cup stuck
       /\ ~task.failed /\ task.saved # "stuck" => down \subseteq task.before \cup HeldNow \cup Asked
  /\ task.step \in {"walk", "drop"} => down \subseteq task.before \cup {"left"}
  /\ task.step \in {"move", "drag", "dragged", "shortcut"} => down = task.before
  /\ task.step \in {"enter"} \cup TypeSteps => down \subseteq task.before

\* The button pressed last is the one macOS's provider holds; what was pressed saw the keys held.
GripInv ==
  /\ "none" \notin down /\ lastDown \in Buttons \cup {"none"}
  /\ os = "macos" /\ lastDown \in down => grip = lastDown
  /\ task.tool = "none" \/ task.step \in {"move", "dragged"} => lastDown \in down \cup {"none"}
SeenInv ==
  /\ task.step \in HoldSteps /\ task.tool \in {"Click", "Scroll"} => Held \subseteq Modifiers
  /\ /\ task.step = "release" /\ ~task.failed /\ task.tool \in {"Click", "Scroll"}
     /\ task.tool = "Click" => task.action # "hover"
     => Held \subseteq out.flags

\* What paste_text saved is what was there; until it writes, and once it has restored, the clipboard is that.
ClipInv ==
  /\ task.step \in {"prepare", "type", "save"} => clip = task.clipBefore
  /\ task.step \in {"set", "paste", "restore"} =>
       /\ task.saved # "" => task.saved = task.clipBefore
       /\ task.clipBefore \in {"text", "typed"} /\ "clipboard" \notin stuck => task.saved = task.clipBefore
                                                                               /\ task.saved # ""
  /\ task.step = "enter" =>
       /\ task.reply = "restored" => clip = task.clipBefore
       /\ task.clipBefore \in {"text", "typed"} /\ "clipboard" \notin stuck => clip = task.clipBefore

InputInv ==
  TaskShape /\ HoldingInv /\ GripInv /\ SeenInv /\ ClipInv /\ NothingLeftDown /\ HeldThroughout /\ ClipboardBack

LEMMA InputBegins == InputInit => InputInv
<1> SUFFICES ASSUME InputInit PROVE InputInv
    OBVIOUS
<1>1. task = NoTask /\ down = {} /\ lastDown = "none"
    BY DEF InputInit, InputIdle, DriverIdle
<1>2. DOMAIN task = DOMAIN NoTask /\ task.keys \in Seq(KeyNames) /\ task.held \in Seq(KeyNames)
  <2>1. task.keys = <<>> /\ task.held = <<>>
      BY <1>1 DEF NoTask
  <2>2. <<>> \in Seq(KeyNames)
      OBVIOUS
  <2> QED
      BY <1>1, <2>1, <2>2
<1>3. task.step = "over" /\ task.tool = "none"
    BY <1>1 DEF NoTask
<1>4. TaskShape
    BY <1>2, <1>3 DEF TaskShape, HoldSteps, Dragging, TypeSteps
<1>5. HoldingInv /\ SeenInv /\ ClipInv
    BY <1>3 DEF HoldingInv, SeenInv, ClipInv, HoldSteps, TypeSteps
<1>6. GripInv
    BY <1>1, <1>3 DEF GripInv
<1> QED
    BY <1>3, <1>4, <1>5, <1>6 DEF InputInv, NothingLeftDown, HeldThroughout, ClipboardBack, Over

\* What the operators that move a call on leave of it.
SameCall == 
  /\ task'.tool = task.tool /\ task'.keys = task.keys /\ task'.text = task.text /\ task'.button = task.button
  /\ task'.action = task.action /\ task'.clear = task.clear /\ task'.before = task.before
  /\ task'.clipBefore = task.clipBefore
LEMMA StepFields ==
  ASSUME DOMAIN task = DOMAIN NoTask, NEW step, Step(step)
  PROVE  /\ DOMAIN task' = DOMAIN NoTask /\ SameCall /\ task'.step = step
         /\ task'.held = task.held /\ task'.saved = task.saved /\ task'.failed = task.failed /\ task'.reply = task.reply
BY DEF Step, NoTask, SameCall
LEMMA FailFields ==
  ASSUME DOMAIN task = DOMAIN NoTask, NEW step, FailTo(step)
  PROVE  /\ DOMAIN task' = DOMAIN NoTask /\ SameCall /\ task'.step = step
         /\ task'.held = task.held /\ task'.saved = task.saved /\ task'.failed /\ task'.reply = task.reply
BY DEF FailTo, NoTask, SameCall
LEMMA AnswerFields ==
  ASSUME DOMAIN task = DOMAIN NoTask, NEW reply, Answer(reply)
  PROVE  /\ DOMAIN task' = DOMAIN NoTask /\ SameCall /\ task'.step = "over" /\ task'.reply = reply
         /\ task'.held = task.held /\ task'.saved = task.saved /\ task'.failed = task.failed
BY DEF Answer, NoTask, SameCall

\* A press puts down its key at most, and does when it succeeds; a release takes its key away, or fails.
LEMMA PressEffect ==
  ASSUME NEW key, NEW works \in BOOLEAN, PressKey(key, works)
  PROVE  /\ grip' = grip /\ down \subseteq down' /\ down' \subseteq down \cup {key} /\ marked \subseteq marked'
         /\ works => key \in down' /\ (os = "macos" => key \in marked')
BY DEF PressKey, KeyX11, KeyWindows, KeyMac, After, SendOne
LEMMA ReleaseEffect ==
  ASSUME NEW key, NEW works \in BOOLEAN, ReleaseKey(key, works)
  PROVE  grip' = grip /\ down' \subseteq down /\ (works => key \notin down')
BY DEF ReleaseKey, KeyX11, KeyWindows, KeyMac, After, SendOne
LEMMA ClickEffect ==
  ASSUME NEW button \in Buttons, NEW action \in ClickActions, NEW works \in BOOLEAN, ClickAt(button, action, works)
  PROVE  /\ down' \subseteq down \cup {button} /\ marked' = marked
         /\ works => down' \subseteq down \cup (IF action = "down" THEN {button} ELSE {})
         /\ os = "macos" =>
              /\ ~works => grip' = grip /\ down' \subseteq down
              /\ works => /\ down' = AfterClick(button, action)
                         /\ grip' = CASE action = "down" -> button
                                      [] action = "up" /\ button = grip -> "none"
                                      [] OTHER -> grip
<1> USE DEF ClickActions
<1>1. AfterClick(button, action) \subseteq down \cup (IF action = "down" THEN {button} ELSE {})
    BY DEF AfterClick
<1>2. CASE ClickX11(button, action, works)
    BY <1>1, <1>2 DEF ClickX11
<1>3. CASE ClickWindows(button, action, works)
    BY <1>1, <1>3 DEF ClickWindows, SendOne
<1>4. CASE ClickMac(button, action, works)
    BY <1>1, <1>4 DEF ClickMac, ByQuartz
<1> QED
    BY <1>2, <1>3, <1>4 DEF ClickAt

\* The last of what is held, and the rest.
LEMMA FrontKeeps ==
  ASSUME NEW S, NEW held \in Seq(S), held # <<>>
  PROVE  /\ Front(held) \in Seq(S) /\ Last(held) \in S
         /\ KeysOf(held) = KeysOf(Front(held)) \cup {Last(held)}
<1>1. PICK n \in Nat : Len(held) = n + 1
    OBVIOUS
<1>2. Front(held) = SubSeq(held, 1, n) /\ Last(held) = held[n + 1]
    BY <1>1 DEF Front, Last
<1>3. Front(held) \in Seq(S) /\ Len(Front(held)) = n /\ \A i \in 1..n : Front(held)[i] = held[i]
    BY <1>1, <1>2
<1> QED
    BY <1>1, <1>2, <1>3 DEF KeysOf

LEMMA LenNat == ASSUME NEW S, NEW s \in Seq(S) PROVE Len(s) \in Nat
OBVIOUS

LEMMA NoneHeld == ASSUME NEW n \in Nat PROVE 0 <= n /\ \A i \in 1..0 : FALSE
OBVIOUS

LEMMA NoneKept == KeysOf(<<>>) = {}
BY DEF KeysOf

LEMMA AppendKeeps ==
  ASSUME NEW S, NEW held \in Seq(S), NEW key \in S
  PROVE  /\ Append(held, key) \in Seq(S) /\ Len(Append(held, key)) = Len(held) + 1
         /\ \A i \in 1..Len(held) : Append(held, key)[i] = held[i]
         /\ Append(held, key)[Len(held) + 1] = key
         /\ KeysOf(Append(held, key)) = KeysOf(held) \cup {key}
<1>1. PICK n \in Nat : Len(held) = n
    OBVIOUS
<1>2. /\ Append(held, key) \in Seq(S) /\ Len(Append(held, key)) = n + 1
      /\ \A i \in 1..n : Append(held, key)[i] = held[i]
      /\ Append(held, key)[n + 1] = key
    BY <1>1
<1> QED
    BY <1>1, <1>2 DEF KeysOf

\* A call begins with nothing held, of a tool that says how it goes on.
LEMMA InputBeginKeeps ==
  ASSUME InputInv, task.tool = "none", UNCHANGED <<os, down, marked, grip, clip, stuck, lastDown>>,
         TaskShape', task'.before = down, task'.clipBefore = clip, task'.held = <<>>, ~task'.failed,
         task'.saved = "", task'.reply \in {"none", "refused"}, task'.tool # "none",
         task'.step \in {"over", "press", "move", "drag", "dragged", "shortcut", "prepare"},
         task'.step = "press" /\ task'.tool \in {"Click", "Scroll"} => Held' \subseteq Modifiers
  PROVE  InputInv'
<1> USE DEF InputInv
<1>1. HeldNow' = {} /\ Len(task'.held) = 0
  <2>1. Len(<<>>) = 0
      OBVIOUS
  <2> QED
      BY <2>1, NoneKept DEF HeldNow
<1>2. Len(task'.keys) \in Nat
  <2>1. task'.keys \in Seq(KeyNames)
      BY DEF TaskShape
  <2> QED
      BY <2>1, LenNat
<1>3. HoldingInv'
  <2>1. Len(task'.held) <= Len(task'.keys) /\ \A i \in 1..Len(task'.held) : FALSE
    <3>1. 0 <= Len(task'.keys) /\ \A i \in 1..0 : FALSE
        BY <1>2, NoneHeld
    <3> QED
        BY <1>1, <3>1
  <2>2. down' = task'.before
      OBVIOUS
  <2>3. task'.step \notin {"walk", "drop"}
      OBVIOUS
  <2> QED
      BY <1>1, <2>1, <2>2, <2>3 DEF HoldingInv
<1>4. GripInv'
    BY DEF GripInv
<1>5. SeenInv' /\ ClipInv'
    BY DEF SeenInv, ClipInv, HoldSteps
<1>6. (NothingLeftDown /\ HeldThroughout /\ ClipboardBack)'
    BY DEF NothingLeftDown, HeldThroughout, ClipboardBack, Over
<1> QED
    BY <1>3, <1>4, <1>5, <1>6

\* The fields of a call that begins.
FreshTask(record) ==
  /\ DOMAIN record = DOMAIN NoTask /\ record.keys \in Seq(KeyNames) /\ record.held = <<>>
  /\ ~record.failed /\ record.saved = "" /\ record.reply \in {"none", "refused"} /\ record.tool # "none"
  /\ record.step \in {"over", "press", "move", "drag", "dragged", "shortcut", "prepare"}
  /\ record.step # "over" => record.reply = "none"
  /\ record.step = "press" => record.tool \in {"HoldKey", "Click", "Scroll"}
  /\ record.step = "press" /\ record.tool = "Click" => record.button \in Buttons /\ record.action \in ClickActions
  /\ record.step = "press" /\ record.tool \in {"Click", "Scroll"} =>
       {record.keys[i] : i \in DOMAIN record.keys} \subseteq Modifiers
  /\ record.step \in {"move", "drag", "dragged"} => record.tool = "Move"
  /\ record.step = "move" => record.action = "move"
  /\ record.step \in {"drag", "dragged"} => record.action = "drag"
  /\ record.step = "drag" => os = "x11"
  /\ record.step = "shortcut" => record.tool = "Shortcut"
  /\ record.step = "prepare" => record.tool = "Type"
LEMMA FreshBegins == ASSUME InputInv, NEW record, FreshTask(record), Begin(record) PROVE InputInv'
<1>1. task' = [record EXCEPT !.before = down, !.clipBefore = clip]
    BY DEF Begin
<1>2. /\ DOMAIN task' = DOMAIN NoTask /\ task'.before = down /\ task'.clipBefore = clip
      /\ task'.tool = record.tool /\ task'.step = record.step /\ task'.keys = record.keys
      /\ task'.held = record.held /\ task'.failed = record.failed /\ task'.saved = record.saved
      /\ task'.reply = record.reply /\ task'.action = record.action /\ task'.button = record.button
    BY <1>1 DEF FreshTask, NoTask
<1>3. TaskShape'
  <2>1. os' = os /\ <<>> \in Seq(KeyNames)
      BY DEF Begin
  <2> QED
      BY <1>2, <2>1 DEF FreshTask, TaskShape, HoldSteps, TypeSteps, Dragging
<1>4. Held' = {record.keys[i] : i \in DOMAIN record.keys}
    BY <1>2 DEF Held
<1> QED
    BY <1>2, <1>3, <1>4, InputBeginKeeps DEF Begin, FreshTask

LEMMA ToolsBegin ==
  ASSUME InputInv, StartHoldKey \/ StartClick \/ StartScroll \/ StartMove \/ StartShortcut \/ StartType
  PROVE  InputInv'
<1>0. <<>> \in Seq(KeyNames) /\ \A keys \in KeyLists : keys \in Seq(KeyNames)
    BY InputAssumption DEF KeyNames
<1>1. CASE StartHoldKey
  <2>1. PICK keys \in KeyLists :
          \/ Begin([NoTask EXCEPT !.tool = "HoldKey", !.step = "press", !.keys = keys])
          \/ Begin([NoTask EXCEPT !.tool = "HoldKey", !.reply = "refused"])
      BY <1>1 DEF StartHoldKey
  <2>2. /\ FreshTask([NoTask EXCEPT !.tool = "HoldKey", !.step = "press", !.keys = keys])
        /\ FreshTask([NoTask EXCEPT !.tool = "HoldKey", !.reply = "refused"])
      BY <1>0 DEF FreshTask, NoTask
  <2> QED
      BY <2>1, <2>2, FreshBegins
<1>2. CASE StartClick
  <2>1. PICK keys \in KeyLists, button \in Buttons, action \in ClickActions \cup {"unknown"} :
          \/ /\ CheckModifiers(keys) /\ action \in ClickActions
             /\ Begin([NoTask EXCEPT !.tool = "Click", !.step = "press", !.keys = keys, !.button = button,
                                     !.action = action])
          \/ Begin([NoTask EXCEPT !.tool = "Click", !.reply = "refused"])
      BY <1>2 DEF StartClick
  <2>2. /\ CheckModifiers(keys) /\ action \in ClickActions =>
             FreshTask([NoTask EXCEPT !.tool = "Click", !.step = "press", !.keys = keys, !.button = button,
                                  !.action = action])
        /\ FreshTask([NoTask EXCEPT !.tool = "Click", !.reply = "refused"])
      BY <1>0 DEF FreshTask, NoTask, CheckModifiers
  <2> QED
      BY <2>1, <2>2, FreshBegins
<1>3. CASE StartScroll
  <2>1. PICK keys \in KeyLists :
          \/ /\ CheckModifiers(keys)
             /\ Begin([NoTask EXCEPT !.tool = "Scroll", !.step = "press", !.keys = keys])
          \/ Begin([NoTask EXCEPT !.tool = "Scroll", !.reply = "refused"])
      BY <1>3 DEF StartScroll
  <2>2. /\ CheckModifiers(keys) => FreshTask([NoTask EXCEPT !.tool = "Scroll", !.step = "press", !.keys = keys])
        /\ FreshTask([NoTask EXCEPT !.tool = "Scroll", !.reply = "refused"])
      BY <1>0 DEF FreshTask, NoTask, CheckModifiers
  <2> QED
      BY <2>1, <2>2, FreshBegins
<1>4. CASE StartMove
  <2>1. PICK drag \in BOOLEAN :
          Begin([NoTask EXCEPT !.tool = "Move", !.button = "left", !.action = IF drag THEN "drag" ELSE "move",
                               !.step = IF ~drag THEN "move" ELSE IF os = "x11" THEN "drag" ELSE "dragged"])
      BY <1>4 DEF StartMove
  <2> DEFINE action == IF drag THEN "drag" ELSE "move"
             step == IF ~drag THEN "move" ELSE IF os = "x11" THEN "drag" ELSE "dragged"
  <2>2. /\ step \in {"move", "drag", "dragged"} /\ (step = "move" => action = "move")
        /\ (step \in {"drag", "dragged"} => action = "drag") /\ (step = "drag" => os = "x11")
      OBVIOUS
  <2>3. Begin([NoTask EXCEPT !.tool = "Move", !.button = "left", !.action = action, !.step = step])
      BY <2>1
  <2> HIDE DEF action, step
  <2>4. FreshTask([NoTask EXCEPT !.tool = "Move", !.button = "left", !.action = action, !.step = step])
      BY <1>0, <2>2 DEF FreshTask, NoTask
  <2> QED
      BY <2>3, <2>4, FreshBegins
<1>5. CASE StartShortcut
  <2>1. PICK repeat \in Repeats :
          \/ /\ repeat \in 1..MAX_REPEAT
             /\ Begin([NoTask EXCEPT !.tool = "Shortcut", !.step = "shortcut", !.keys = [i \in 1..repeat |-> "a"]])
          \/ Begin([NoTask EXCEPT !.tool = "Shortcut", !.reply = "refused"])
      BY <1>5 DEF StartShortcut
  <2> DEFINE keys == [i \in 1..repeat |-> "a"]
  <2>2. repeat \in 1..MAX_REPEAT => keys \in Seq(KeyNames)
      BY InputAssumption DEF KeyNames
  <2>3. repeat \in 1..MAX_REPEAT => Begin([NoTask EXCEPT !.tool = "Shortcut", !.step = "shortcut", !.keys = keys])
                                    \/ Begin([NoTask EXCEPT !.tool = "Shortcut", !.reply = "refused"])
      BY <2>1
  <2> HIDE DEF keys
  <2>4. /\ repeat \in 1..MAX_REPEAT =>
             FreshTask([NoTask EXCEPT !.tool = "Shortcut", !.step = "shortcut", !.keys = keys])
        /\ FreshTask([NoTask EXCEPT !.tool = "Shortcut", !.reply = "refused"])
      BY <1>0, <2>2 DEF FreshTask, NoTask
  <2> QED
      BY <2>1, <2>3, <2>4, FreshBegins
<1>6. CASE StartType
  <2>1. PICK text \in Texts, method \in {"keys", "paste"}, clear \in BOOLEAN :
          Begin([NoTask EXCEPT !.tool = "Type", !.step = "prepare", !.text = text, !.action = method,
                               !.clear = clear])
      BY <1>6 DEF StartType
  <2>2. FreshTask([NoTask EXCEPT !.tool = "Type", !.step = "prepare", !.text = text, !.action = method,
                             !.clear = clear])
      BY <1>0 DEF FreshTask, NoTask
  <2> QED
      BY <2>1, <2>2, FreshBegins
<1> QED
    BY <1>1, <1>2, <1>3, <1>4, <1>5, <1>6

\* The tools that hold keys.
LEMMA HoldingSteps ==
  ASSUME InputInv, KeyDown \/ HoldBody \/ ClickBody \/ ScrollBody \/ KeyUp \/ EndHeld
  PROVE  InputInv'
<1>0. DOMAIN task = DOMAIN NoTask /\ task.keys \in Seq(KeyNames) /\ task.held \in Seq(KeyNames)
    BY DEF InputInv, TaskShape
<1>1. CASE KeyDown
  <2> DEFINE key == task.keys[Len(task.held) + 1]
  <2>0. /\ task.step = "press" /\ Len(task.held) < Len(task.keys) /\ key \in KeyNames
        /\ UNCHANGED <<os, clip, out, lastDown>>
      BY <1>0, <1>1 DEF KeyDown
  <2>1. CASE PressKey(key, TRUE) /\ task' = [task EXCEPT !.held = Append(task.held, key)] /\ stuck' = stuck
    <3> HIDE DEF key
    <3>1. /\ DOMAIN task' = DOMAIN NoTask /\ SameCall /\ task'.held = Append(task.held, key)
          /\ task'.step = task.step /\ task'.saved = task.saved /\ task'.failed = task.failed /\ task'.reply = task.reply
        BY <1>0, <2>1 DEF SameCall, NoTask
    <3>2. /\ grip' = grip /\ down \subseteq down' /\ down' \subseteq down \cup {key} /\ marked \subseteq marked'
          /\ key \in down' /\ (os = "macos" => key \in marked')
        BY <2>1, PressEffect
    <3>3. /\ HeldNow' = HeldNow \cup {key} /\ task'.held \in Seq(KeyNames)
          /\ Len(task'.held) = Len(task.held) + 1
          /\ \A i \in 1..Len(task.held) : task'.held[i] = task.held[i]
          /\ task'.held[Len(task.held) + 1] = key
        BY <1>0, <2>0, <3>1, AppendKeeps DEF HeldNow
    <3>4. /\ Len(task'.held) <= Len(task.keys)
          /\ \A i \in 1..Len(task'.held) : task'.held[i] = task.keys[i]
      <4>1. PICK n \in Nat : Len(task.held) = n
          BY <1>0
      <4>2. PICK k \in Nat : Len(task.keys) = k
          BY <1>0
      <4>3. n < k /\ Len(task'.held) = n + 1
          BY <2>0, <3>3, <4>1, <4>2
      <4>4. ASSUME NEW i \in 1..n + 1  PROVE task'.held[i] = task.keys[i]
        <5>1. CASE i = n + 1
            BY <3>3, <4>1, <5>1 DEF key
        <5>2. CASE i # n + 1
          <6>1. i \in 1..n
              BY <4>1, <5>2
          <6> QED
              BY <2>0, <3>3, <4>1, <6>1 DEF InputInv, HoldingInv
        <5> QED
            BY <5>1, <5>2
      <4> QED
          BY <4>1, <4>2, <4>3, <4>4
    <3>5. HoldingInv' /\ TaskShape'
        BY <2>0, <2>1, <3>1, <3>2, <3>3, <3>4 DEF SameCall, Asked, InputInv, TaskShape, HoldingInv, HoldSteps, TypeSteps, Dragging
    <3>6. key \notin Buttons \cup {"none"}
        BY <2>0 DEF KeyNames, Modifiers, Buttons
    <3>7. GripInv'
        BY <2>0, <3>1, <3>2, <3>6 DEF SameCall, InputInv, GripInv, TaskShape, HoldSteps
    <3>8. SeenInv' /\ ClipInv'
      <4>1. Held' = Held /\ (task.tool \in {"Click", "Scroll"} => Held \subseteq Modifiers)
          BY <2>0, <3>1 DEF SameCall, Held, InputInv, SeenInv, HoldSteps
      <4> QED
          BY <2>0, <3>1, <4>1 DEF SameCall, SeenInv, ClipInv, TypeSteps
    <3>9. (NothingLeftDown /\ HeldThroughout /\ ClipboardBack)'
        BY <2>0, <3>1 DEF NothingLeftDown, HeldThroughout, ClipboardBack, Over
    <3> QED
        BY <3>5, <3>7, <3>8, <3>9 DEF InputInv
  <2>2. CASE PressKey(key, FALSE) /\ FailTo("release") /\ Lingers({})
    <3> HIDE DEF key
    <3>1. /\ DOMAIN task' = DOMAIN NoTask /\ SameCall /\ task'.step = "release"
          /\ task'.held = task.held /\ task'.saved = task.saved /\ task'.failed /\ task'.reply = task.reply
        BY <1>0, <2>2, FailFields
    <3>2. grip' = grip /\ down \subseteq down' /\ down' \subseteq down \cup {key}
        BY <2>2, PressEffect
    <3>3. HeldNow' = HeldNow /\ stuck' = stuck \cup (down' \ down)
        BY <2>2, <3>1 DEF HeldNow, Lingers
    <3>4. HoldingInv' /\ TaskShape'
        BY <2>0, <3>1, <3>2, <3>3 DEF SameCall, Asked, InputInv, TaskShape, HoldingInv, HoldSteps, TypeSteps, Dragging
    <3>5. key \notin Buttons \cup {"none"}
        BY <2>0 DEF KeyNames, Modifiers, Buttons
    <3>6. GripInv'
        BY <2>0, <3>1, <3>2, <3>5 DEF SameCall, InputInv, GripInv, TaskShape, HoldSteps
    <3>7. SeenInv' /\ ClipInv'
      <4>1. Held' = Held /\ (task.tool \in {"Click", "Scroll"} => Held \subseteq Modifiers)
          BY <2>0, <3>1 DEF SameCall, Held, InputInv, SeenInv, HoldSteps
      <4> QED
          BY <3>1, <4>1 DEF SameCall, SeenInv, ClipInv
    <3>8. (NothingLeftDown /\ HeldThroughout /\ ClipboardBack)'
        BY <2>0, <3>1 DEF NothingLeftDown, HeldThroughout, ClipboardBack, Over
    <3> QED
        BY <3>4, <3>6, <3>7, <3>8 DEF InputInv
  <2> QED
      BY <1>1, <2>1, <2>2 DEF KeyDown
<1>2. CASE HoldBody
  <2>1. /\ DOMAIN task' = DOMAIN NoTask /\ SameCall /\ task'.step = "release" /\ task'.tool = "HoldKey"
        /\ task'.held = task.held /\ task'.saved = task.saved /\ task'.failed = task.failed /\ task'.reply = task.reply
        /\ task.step = "press" /\ UNCHANGED <<driverVars, stuck, lastDown>>
      BY <1>0, <1>2, StepFields DEF InputInv, TaskShape, HoldSteps, HoldBody, AllHeld, SameCall
  <2>2. HeldNow' = HeldNow
      BY <2>1 DEF HeldNow
  <2>3. HoldingInv' /\ TaskShape'
      BY <2>1, <2>2 DEF SameCall, Asked, driverVars, InputInv, TaskShape, HoldingInv, HoldSteps, TypeSteps, Dragging
  <2> QED
      BY <2>1, <2>3 DEF SameCall, Held, driverVars, InputInv, SeenInv, ClipInv, GripInv, TaskShape, NothingLeftDown, HeldThroughout, ClipboardBack, HoldSteps, TypeSteps, Over
<1>3. CASE KeyUp
  <2> DEFINE key == Last(task.held)
  <2>0. /\ task.step = "release" /\ task.held # <<>> /\ key \in KeyNames /\ Front(task.held) \in Seq(KeyNames)
        /\ UNCHANGED <<os, clip, out, lastDown>>
      BY <1>0, <1>3, FrontKeeps DEF KeyUp
  <2>1. PICK works \in BOOLEAN :
          /\ ReleaseKey(key, works)
          /\ \/ works /\ task' = [task EXCEPT !.held = Front(task.held)] /\ UNCHANGED stuck
             \/ ~works /\ task' = [task EXCEPT !.held = Front(task.held), !.saved = "stuck"] /\ Lingers({key})
      BY <1>3 DEF KeyUp
  <2>2. /\ DOMAIN task' = DOMAIN NoTask /\ SameCall /\ task'.held = Front(task.held) /\ task'.step = "release"
        /\ task'.saved = (IF works THEN task.saved ELSE "stuck") /\ task'.failed = task.failed
        /\ task'.reply = task.reply
      BY <1>0, <2>0, <2>1 DEF SameCall, NoTask
  <2>3. HeldNow = HeldNow' \cup {key}
      BY <1>0, <2>0, <2>2, FrontKeeps DEF HeldNow
  <2> HIDE DEF key
  <2>4. grip' = grip /\ down' \subseteq down /\ (works => key \notin down')
      BY <2>1, ReleaseEffect
  <2>5. stuck \subseteq stuck' /\ (~works => key \in stuck')
      BY <2>1 DEF Lingers
  <2>6. HoldingInv' /\ TaskShape'
      BY <2>0, <2>2, <2>3, <2>4, <2>5 DEF SameCall, Asked, InputInv, TaskShape, HoldingInv, HoldSteps, TypeSteps, Dragging
  <2>7. GripInv'
      BY <2>0, <2>2, <2>4 DEF SameCall, InputInv, GripInv, TaskShape, HoldSteps
  <2> QED
      BY <2>0, <2>2, <2>6, <2>7 DEF SameCall, Held, InputInv, SeenInv, ClipInv, GripInv, TaskShape, NothingLeftDown, HeldThroughout, ClipboardBack, HoldSteps, TypeSteps, Over
<1>4. CASE EndHeld
  <2> DEFINE reply == IF task.failed THEN "failed" ELSE IF task.saved = "stuck" THEN "not_released" ELSE "ok"
  <2>1. /\ DOMAIN task' = DOMAIN NoTask /\ SameCall /\ task'.step = "over" /\ task'.reply = reply
        /\ task'.held = task.held /\ task'.saved = task.saved /\ task'.failed = task.failed
        /\ task.step = "release" /\ task.held = <<>> /\ UNCHANGED <<driverVars, stuck, lastDown>>
      BY <1>0, <1>4, AnswerFields DEF EndHeld
  <2>2. HeldNow = {}
      BY <2>1, NoneKept DEF HeldNow
  <2>3. /\ reply = "ok" => ~task.failed /\ task.saved # "stuck"
        /\ reply # "restored"
      OBVIOUS
  <2> HIDE DEF reply
  <2>4. HoldingInv' /\ TaskShape' /\ GripInv' /\ SeenInv' /\ ClipInv'
      BY <2>1 DEF SameCall, driverVars, InputInv, TaskShape, HoldingInv, GripInv, SeenInv, ClipInv, HoldSteps, TypeSteps, Dragging
  <2>5. NothingLeftDown'
      BY <2>1, <2>2, <2>3 DEF SameCall, Asked, driverVars, InputInv, HoldingInv, HoldSteps, NothingLeftDown, Over
  <2>6. HeldThroughout' /\ ClipboardBack'
      BY <2>1, <2>3 DEF SameCall, Held, driverVars, InputInv, SeenInv, ClipInv, GripInv, TaskShape, NothingLeftDown, HeldThroughout, ClipboardBack, HoldSteps, TypeSteps, Over
  <2> QED
      BY <2>4, <2>5, <2>6 DEF InputInv
<1>H. ASSUME AllHeld  PROVE HeldNow = Held
  <2>1. PICK n \in Nat : Len(task.keys) = n
      BY <1>0
  <2>2. DOMAIN task.keys = 1..n /\ Len(task.held) = n /\ \A i \in 1..n : task.held[i] = task.keys[i]
      BY <1>0, <1>H, <2>1 DEF AllHeld, InputInv, HoldingInv
  <2> QED
      BY <2>2 DEF HeldNow, KeysOf, Held
<1>5. CASE ClickBody
  <2>0. /\ task.step = "press" /\ task.tool = "Click" /\ AllHeld /\ os' = os /\ clip' = clip
        /\ task.button \in Buttons /\ task.action \in ClickActions
        /\ HeldNow = Held /\ Held \subseteq Modifiers /\ Held \subseteq down /\ (os = "macos" => Held \subseteq marked)
        /\ ~task.failed /\ task.saved = ""
      BY <1>5, <1>H DEF ClickBody, AllHeld, InputInv, TaskShape, HoldingInv, SeenInv, HoldSteps
  <2>1. PICK works \in BOOLEAN :
          /\ ClickAt(task.button, task.action, works)
          /\ \/ works /\ Step("release") /\ stuck' = stuck
             \/ ~works /\ FailTo("release") /\ Lingers(IF task.action = "up" THEN {task.button} ELSE {})
      BY <1>5 DEF ClickBody
  <2>2. /\ DOMAIN task' = DOMAIN NoTask /\ SameCall /\ task'.step = "release" /\ task'.held = task.held
        /\ task'.saved = "" /\ (works => task'.failed = task.failed) /\ (~works => task'.failed) /\ task'.reply = task.reply
      BY <1>0, <2>0, <2>1, StepFields, FailFields
  <2>3. /\ down' \subseteq down \cup {task.button}
        /\ works => down' \subseteq down \cup Asked
        /\ os = "macos" =>
             /\ ~works => grip' = grip /\ down' \subseteq down
             /\ works => /\ down' = AfterClick(task.button, task.action)
                        /\ grip' = CASE task.action = "down" -> task.button
                                     [] task.action = "up" /\ task.button = grip -> "none"
                                     [] OTHER -> grip
      BY <2>0, <2>1, ClickEffect DEF Asked
  <2>4. HeldNow' = HeldNow /\ Held' = Held /\ Asked' = Asked
      BY <2>2 DEF HeldNow, Held, Asked, SameCall
  <2>5. stuck \subseteq stuck' /\ (~works => down' \ down \subseteq stuck')
      BY <2>1 DEF Lingers
  <2>6. HoldingInv'
    <3>1. /\ down \subseteq task.before \cup HeldNow \cup Asked \cup stuck
          /\ down \subseteq task.before \cup HeldNow \cup Asked
        BY <2>0 DEF InputInv, HoldingInv, HoldSteps
    <3>2. /\ down' \subseteq task.before \cup HeldNow \cup Asked \cup stuck'
          /\ ~task'.failed => down' \subseteq task.before \cup HeldNow \cup Asked
        BY <2>2, <2>3, <2>5, <3>1
    <3> QED
        BY <2>2, <2>4, <3>2 DEF SameCall, HoldingInv, HoldSteps, TypeSteps
  <2>7. TaskShape'
      BY <1>0, <2>0, <2>2 DEF SameCall, TaskShape, InputInv, HoldSteps, TypeSteps, Dragging
  <2>8. lastDown' = IF task.action = "down" /\ ~task'.failed THEN task.button ELSE lastDown
      BY <1>5 DEF ClickBody
  <2>9. GripInv'
    <3>1. /\ "none" \notin down /\ lastDown \in Buttons \cup {"none"}
          /\ (os = "macos" /\ lastDown \in down => grip = lastDown)
        BY DEF InputInv, GripInv
    <3>2. "none" \notin down' /\ lastDown' \in Buttons \cup {"none"}
        BY <2>0, <2>3, <2>8, <3>1 DEF Buttons
    <3>3. ASSUME os = "macos", lastDown' \in down'  PROVE grip' = lastDown'
      <4>1. CASE ~works
          BY <2>2, <2>3, <2>8, <3>1, <3>3, <4>1
      <4>2. CASE works /\ task.action = "down"
          BY <2>0, <2>2, <2>3, <2>8, <3>3, <4>2
      <4>3. CASE works /\ task.action # "down"
        <5>1. lastDown' = lastDown /\ down' \subseteq down
            BY <2>3, <2>8, <3>3, <4>3 DEF AfterClick
        <5>2. grip = lastDown
            BY <3>1, <3>3, <5>1
        <5>3. task.action = "up" => task.button \notin down'
            BY <2>3, <3>3, <4>3 DEF AfterClick
        <5> QED
            BY <2>3, <3>3, <4>3, <5>1, <5>2, <5>3
      <4> QED
          BY <4>1, <4>2, <4>3
    <3> QED
        BY <2>0, <2>2, <3>2, <3>3 DEF GripInv, SameCall
  <2>10. SeenInv'
    <3>1. out'.flags = IF os = "macos" /\ ~ByQuartz(task.action) THEN {} ELSE Flags
        BY <1>5 DEF ClickBody, Seen
    <3>2. task.action # "hover" => Held \subseteq out'.flags
      <4>1. Held \subseteq Flags
          BY <2>0 DEF Flags
      <4>2. os = "macos" /\ ~ByQuartz(task.action) /\ task.action # "hover" => Held = {}
          BY <2>0 DEF ByQuartz, ClickActions
      <4> QED
          BY <3>1, <4>1, <4>2
    <3> QED
        BY <2>0, <2>2, <2>4, <3>2 DEF SeenInv, SameCall
  <2>11. (ClipInv /\ NothingLeftDown /\ HeldThroughout /\ ClipboardBack)'
      BY <2>2 DEF ClipInv, TypeSteps, NothingLeftDown, HeldThroughout, ClipboardBack, Over
  <2> QED
      BY <2>6, <2>7, <2>9, <2>10, <2>11 DEF InputInv
<1>6. CASE ScrollBody
  <2>0. /\ task.step = "press" /\ task.tool = "Scroll" /\ AllHeld
        /\ UNCHANGED <<os, down, marked, grip, clip, stuck, lastDown>>
        /\ HeldNow = Held /\ Held \subseteq Modifiers /\ Held \subseteq down /\ (os = "macos" => Held \subseteq marked)
      BY <1>6, <1>H DEF ScrollBody, AllHeld, InputInv, HoldingInv, SeenInv, HoldSteps
  <2>1. PICK failing \in BOOLEAN :
          /\ failing => FailTo("release")
          /\ ~failing => Step("release") /\ out'.flags = Flags
    <3>1. CASE FailTo("release")
        BY <3>1
    <3>2. ASSUME Step("release"), NEW wheel, NEW events, out' = [wheel |-> wheel, events |-> events, flags |-> Flags]
          PROVE  Step("release") /\ out'.flags = Flags
        BY <3>2
    <3> QED
        BY <1>6, <3>1, <3>2 DEF ScrollBody
  <2>2. /\ DOMAIN task' = DOMAIN NoTask /\ SameCall /\ task'.step = "release" /\ task'.held = task.held
        /\ task'.saved = task.saved /\ (~failing => task'.failed = task.failed) /\ (failing => task'.failed)
        /\ task'.reply = task.reply
      BY <1>0, <2>1, StepFields, FailFields
  <2>4. HeldNow' = HeldNow /\ Held' = Held /\ Asked' = Asked
      BY <2>2 DEF HeldNow, Held, Asked, SameCall
  <2>5. HoldingInv'
    <3>1. /\ down \subseteq task.before \cup HeldNow \cup Asked \cup stuck
          /\ ~task'.failed /\ task'.saved # "stuck" => down \subseteq task.before \cup HeldNow \cup Asked
        BY <2>0, <2>2 DEF InputInv, HoldingInv, HoldSteps
    <3> QED
        BY <2>0, <2>2, <2>4, <3>1 DEF SameCall, HoldingInv, HoldSteps, TypeSteps
  <2>6. TaskShape'
      BY <1>0, <2>0, <2>2 DEF SameCall, TaskShape, InputInv, HoldSteps, TypeSteps, Dragging
  <2>7. GripInv'
      BY <2>0, <2>2 DEF SameCall, InputInv, GripInv
  <2>8. SeenInv'
    <3>1. Held \subseteq Flags
        BY <2>0 DEF Flags
    <3> QED
        BY <2>0, <2>1, <2>2, <2>4, <3>1 DEF SeenInv, SameCall
  <2>9. (ClipInv /\ NothingLeftDown /\ HeldThroughout /\ ClipboardBack)'
      BY <2>2 DEF ClipInv, TypeSteps, NothingLeftDown, HeldThroughout, ClipboardBack, Over
  <2> QED
      BY <2>5, <2>6, <2>7, <2>8, <2>9 DEF InputInv
<1> QED
    BY <1>1, <1>2, <1>3, <1>4, <1>5, <1>6

\* A call of another tool that ends, and one that goes on.
LEMMA EndingKeeps ==
  ASSUME InputInv, DOMAIN task' = DOMAIN NoTask, SameCall, task'.held = task.held, task'.step = "over",
         task.tool \notin {"none", "HoldKey", "Click", "Scroll"}, os' = os, grip' = grip, lastDown' = lastDown,
         "none" \notin down', os = "macos" /\ lastDown \in down' => lastDown \in down,
         (NothingLeftDown /\ HeldThroughout /\ ClipboardBack)'
  PROVE  InputInv'
<1>1. TaskShape'
    BY DEF InputInv, TaskShape, SameCall, HoldSteps, Dragging, TypeSteps
<1>2. GripInv'
    BY DEF InputInv, GripInv, SameCall
<1>3. (HoldingInv /\ SeenInv /\ ClipInv)'
    BY DEF HoldingInv, SeenInv, ClipInv, HoldSteps, TypeSteps
<1> QED
    BY <1>1, <1>2, <1>3 DEF InputInv
LEMMA GoingOnKeeps ==
  ASSUME InputInv, DOMAIN task' = DOMAIN NoTask, SameCall, task'.held = task.held,
         task'.step \notin {"over", "press", "release", "move", "dragged"}, task.tool # "none",
         os' = os, grip' = grip, lastDown' = lastDown,
         "none" \notin down', os = "macos" /\ lastDown \in down' => lastDown \in down,
         TaskShape', HoldingInv', ClipInv'
  PROVE  InputInv'
<1>1. GripInv'
    BY DEF InputInv, GripInv, SameCall
<1>2. SeenInv' /\ (NothingLeftDown /\ HeldThroughout /\ ClipboardBack)'
    BY DEF SeenInv, HoldSteps, NothingLeftDown, HeldThroughout, ClipboardBack, Over
<1> QED
    BY <1>1, <1>2 DEF InputInv

\* What a press of a drag or a walk leaves.
LEMMA MoveSteps ==
  ASSUME InputInv, MovePointer \/ DragElsewhere \/ DragPress \/ DragWalk \/ DragDrop
  PROVE  InputInv'
<1>0. DOMAIN task = DOMAIN NoTask /\ "none" \notin down
    BY DEF InputInv, TaskShape, GripInv
<1>1. CASE MovePointer
  <2>0. /\ task.step = "move" /\ task.tool = "Move" /\ task.action = "move" /\ down = task.before
        /\ task.reply = "none"
        /\ UNCHANGED <<os, down, marked, grip, clip, stuck, lastDown>>
      BY <1>1 DEF MovePointer, InputInv, TaskShape, HoldingInv
  <2>1. PICK reply \in {"ok", "failed"} : Answer(reply) /\ (reply = "ok" => out'.motion = Motion)
      BY <1>1 DEF MovePointer
  <2>2. /\ DOMAIN task' = DOMAIN NoTask /\ SameCall /\ task'.step = "over" /\ task'.reply = reply
        /\ task'.held = task.held
      BY <1>0, <2>1, AnswerFields
  <2>3. lastDown \in down => Motion = "drag"
    <3>1. lastDown \in down => lastDown \in Buttons /\ (os = "macos" => grip = lastDown)
        BY DEF InputInv, GripInv
    <3> QED
        BY <3>1 DEF Motion, MoveMac, Buttons
  <2>4. NothingLeftDown' /\ HeldThroughout'
      BY <2>0, <2>1, <2>2, <2>3 DEF SameCall, NothingLeftDown, HeldThroughout, Over
  <2>5. ClipboardBack'
      BY <2>0, <2>1, <2>2 DEF SameCall, ClipboardBack, Over
  <2> QED
      BY <1>0, <2>0, <2>2, <2>4, <2>5, EndingKeeps
<1>2. CASE DragElsewhere
  <2>0. /\ task.step = "dragged" /\ task.tool = "Move" /\ task.action = "drag" /\ down = task.before
        /\ UNCHANGED <<os, marked, grip, clip, lastDown>> /\ lastDown \in down \cup {"none"}
      BY <1>2 DEF DragElsewhere, InputInv, TaskShape, HoldingInv, GripInv
  <2>1. PICK reply \in {"ok", "failed"} :
          /\ Answer(reply) /\ down' \in {down, down \cup {"left"}, down \ {"left"}}
          /\ reply = "ok" => down' \subseteq down
          /\ down' \subseteq down \cup stuck'
      BY <1>2 DEF DragElsewhere, Lingers
  <2>2. /\ DOMAIN task' = DOMAIN NoTask /\ SameCall /\ task'.step = "over" /\ task'.reply = reply
        /\ task'.held = task.held
      BY <1>0, <2>1, AnswerFields
  <2>3. NothingLeftDown' /\ HeldThroughout'
      BY <2>0, <2>1, <2>2 DEF SameCall, NothingLeftDown, HeldThroughout, Over
  <2>4. ClipboardBack'
      BY <2>0, <2>1, <2>2 DEF SameCall, ClipboardBack, Over
  <2>5. "none" \notin down' /\ (lastDown \in down' => lastDown \in down)
      BY <1>0, <2>0, <2>1
  <2> QED
      BY <2>0, <2>2, <2>3, <2>4, <2>5, EndingKeeps
<1>3. CASE DragPress
  <2>0. /\ task.step = "drag" /\ task.tool = "Move" /\ task.action = "drag" /\ down = task.before /\ os = "x11"
        /\ task.reply = "none" /\ UNCHANGED <<os, marked, grip, clip, lastDown>>
      BY <1>3 DEF DragPress, InputInv, TaskShape, HoldingInv, Dragging, TypeSteps
  <2>1. CASE Step("walk") /\ down' = down \cup {"left"}
    <3>1. /\ DOMAIN task' = DOMAIN NoTask /\ SameCall /\ task'.step = "walk" /\ task'.reply = "none"
          /\ task'.held = task.held
        BY <1>0, <2>0, <2>1, StepFields
    <3>2. TaskShape'
        BY <2>0, <3>1 DEF InputInv, TaskShape, SameCall, HoldSteps, Dragging, TypeSteps
    <3>3. HoldingInv'
        BY <2>0, <2>1, <3>1 DEF HoldingInv, SameCall, HoldSteps, TypeSteps
    <3>4. ClipInv' /\ "none" \notin down'
        BY <1>0, <2>1, <3>1 DEF ClipInv
    <3> QED
        BY <2>0, <3>1, <3>2, <3>3, <3>4, GoingOnKeeps
  <2>2. CASE Answer("failed") /\ down' \in {down, down \cup {"left"}} /\ Lingers({})
    <3>1. /\ DOMAIN task' = DOMAIN NoTask /\ SameCall /\ task'.step = "over" /\ task'.reply = "failed"
          /\ task'.held = task.held
        BY <1>0, <2>2, AnswerFields
    <3>2. down' \subseteq down \cup stuck'
        BY <2>2 DEF Lingers
    <3>3. (NothingLeftDown /\ HeldThroughout /\ ClipboardBack)'
        BY <2>0, <3>1, <3>2 DEF SameCall, NothingLeftDown, HeldThroughout, ClipboardBack, Over
    <3>4. "none" \notin down'
        BY <1>0, <2>2
    <3> QED
        BY <2>0, <3>1, <3>3, <3>4, EndingKeeps
  <2> QED
      BY <1>3, <2>1, <2>2 DEF DragPress
<1>4. CASE DragWalk
  <2>0. /\ task.step = "walk" /\ task.tool = "Move" /\ task.action = "drag" /\ os = "x11"
        /\ down \subseteq task.before \cup {"left"}
        /\ task.reply = "none" /\ UNCHANGED <<os, down, marked, grip, clip, stuck, lastDown>>
      BY <1>4 DEF DragWalk, InputInv, TaskShape, HoldingInv, Dragging
  <2>1. /\ DOMAIN task' = DOMAIN NoTask /\ SameCall /\ task'.step \in {"walk", "drop"} /\ task'.reply = "none"
        /\ task'.held = task.held
    <3>1. Step("walk") \/ Step("drop") \/ FailTo("drop")
        BY <1>4 DEF DragWalk
    <3> QED
        BY <1>0, <2>0, <3>1, StepFields, FailFields
  <2>2. TaskShape'
      BY <2>0, <2>1 DEF InputInv, TaskShape, SameCall, HoldSteps, Dragging, TypeSteps
  <2>3. HoldingInv' /\ ClipInv'
      BY <2>0, <2>1 DEF HoldingInv, ClipInv, SameCall, HoldSteps, TypeSteps
  <2> QED
      BY <1>0, <2>0, <2>1, <2>2, <2>3, GoingOnKeeps
<1>5. CASE DragDrop
  <2>0. /\ task.step = "drop" /\ task.tool = "Move" /\ task.action = "drag" /\ os = "x11"
        /\ down \subseteq task.before \cup {"left"} /\ UNCHANGED <<os, marked, grip, clip, lastDown>>
      BY <1>5 DEF DragDrop, InputInv, TaskShape, HoldingInv, Dragging
  <2>1. PICK reply \in {"ok", "failed"} :
          /\ Answer(reply) /\ down' \in {down, down \ {"left"}}
          /\ reply = "ok" => down' = down \ {"left"}
          /\ down' = down \ {"left"} \/ "left" \in stuck'
      BY <1>5 DEF DragDrop, Lingers
  <2>2. /\ DOMAIN task' = DOMAIN NoTask /\ SameCall /\ task'.step = "over" /\ task'.reply = reply
        /\ task'.held = task.held
      BY <1>0, <2>1, AnswerFields
  <2>3. NothingLeftDown' /\ HeldThroughout'
      BY <2>0, <2>1, <2>2 DEF SameCall, NothingLeftDown, HeldThroughout, Over
  <2>4. ClipboardBack'
      BY <2>0, <2>1, <2>2 DEF SameCall, ClipboardBack, Over
  <2>5. "none" \notin down'
      BY <1>0, <2>1
  <2> QED
      BY <2>0, <2>2, <2>3, <2>4, <2>5, EndingKeeps
<1> QED
    BY <1>1, <1>2, <1>3, <1>4, <1>5

\* Typed text presses nothing that stays down, but a Windows key whose release was refused.
LEMMA TypingStays ==
  ASSUME NEW text, NEW works \in BOOLEAN, TypeUnicode(text, works), "none" \notin down
  PROVE  /\ (works => down' = down) /\ (os = "macos" => down' = down)
         /\ "none" \notin down'
<1>1. CASE TypeX11(text, works)
    BY <1>1 DEF TypeX11
<1>2. CASE TypeMac(text, works)
    BY <1>2 DEF TypeMac
<1>3. CASE TypeWindows(text, works)
  <2> DEFINE strokes == Plan(text, 1)
  <2>1. CASE works
      BY <1>3, <2>1 DEF TypeWindows
  <2>2. CASE ~works
    <3>1. PICK n \in 0..(Len(strokes) - 1) :
            UNCHANGED down \/ (strokes[n + 1].key # "none" /\ down' = down \cup {strokes[n + 1].key})
        BY <1>3, <2>2 DEF TypeWindows
    <3>2. os = "windows"
        BY <1>3 DEF TypeWindows
    <3> QED
        BY <2>2, <3>1, <3>2
  <2> QED
      BY <2>1, <2>2
<1> QED
    BY <1>1, <1>2, <1>3 DEF TypeUnicode

LEMMA ShortcutSteps == ASSUME InputInv, ShortcutX11 \/ ShortcutElsewhere PROVE InputInv'
<1>0. /\ DOMAIN task = DOMAIN NoTask /\ "none" \notin down /\ task.step = "shortcut" /\ task.tool = "Shortcut"
      /\ down = task.before /\ task.reply = "none" /\ UNCHANGED <<os, down, marked, grip, clip, stuck, lastDown>>
    BY DEF InputInv, TaskShape, GripInv, HoldingInv, ShortcutX11, ShortcutElsewhere
<1>1. CASE UNCHANGED task
  <2>1. /\ DOMAIN task' = DOMAIN NoTask /\ SameCall /\ task'.step = "shortcut" /\ task'.held = task.held
        /\ task'.reply = "none"
      BY <1>0, <1>1 DEF SameCall
  <2>2. TaskShape' /\ HoldingInv' /\ ClipInv'
      BY <1>0, <2>1 DEF InputInv, TaskShape, HoldingInv, ClipInv, SameCall, HoldSteps, Dragging, TypeSteps
  <2> QED
      BY <1>0, <2>1, <2>2, GoingOnKeeps
<1>2. ASSUME NEW reply \in {"ok", "failed"}, Answer(reply)  PROVE InputInv'
  <2>1. /\ DOMAIN task' = DOMAIN NoTask /\ SameCall /\ task'.step = "over" /\ task'.held = task.held
        /\ task'.reply = reply
      BY <1>0, <1>2, AnswerFields
  <2>2. (NothingLeftDown /\ HeldThroughout /\ ClipboardBack)'
      BY <1>0, <2>1 DEF SameCall, NothingLeftDown, HeldThroughout, ClipboardBack, Over
  <2> QED
      BY <1>0, <2>1, <2>2, EndingKeeps
<1>3. UNCHANGED task \/ \E reply \in {"ok", "failed"} : Answer(reply)
    BY DEF ShortcutX11, ShortcutElsewhere
<1> QED
    BY <1>1, <1>2, <1>3

\* Type: down is what it was before the call or less, but for a key or button whose release failed.
LEMMA TypeKeySteps == ASSUME InputInv, Prepare \/ TypeKeys \/ PressEnter PROVE InputInv'
<1>0. DOMAIN task = DOMAIN NoTask /\ "none" \notin down
    BY DEF InputInv, TaskShape, GripInv
<1>1. CASE Prepare
  <2>0. /\ task.step = "prepare" /\ task.tool = "Type" /\ down \subseteq task.before /\ clip = task.clipBefore
        /\ task.reply = "none" /\ UNCHANGED <<os, marked, grip, clip, lastDown>>
      BY <1>1 DEF Prepare, InputInv, TaskShape, HoldingInv, ClipInv, TypeSteps
  <2>1. CASE PrepareField(task.clear, FALSE) /\ Answer("failed") /\ Lingers({})
    <3>1. /\ DOMAIN task' = DOMAIN NoTask /\ SameCall /\ task'.step = "over" /\ task'.held = task.held
          /\ task'.reply = "failed"
        BY <1>0, <2>1, AnswerFields
    <3>2. down' \subseteq down \cup {"left"} /\ (os = "macos" => down' \subseteq down)
        BY <2>1 DEF PrepareField, ClickedFirst, AfterClick
    <3>3. down' \subseteq down \cup stuck'
        BY <2>1 DEF Lingers
    <3>4. (NothingLeftDown /\ HeldThroughout /\ ClipboardBack)'
        BY <2>0, <3>1, <3>3 DEF SameCall, NothingLeftDown, HeldThroughout, ClipboardBack, Over
    <3>5. "none" \notin down'
        BY <1>0, <3>2
    <3> QED
        BY <2>0, <3>1, <3>2, <3>4, <3>5, EndingKeeps
  <2>2. ASSUME NEW step \in {"type", "save"}, PrepareField(task.clear, TRUE), Step(step), UNCHANGED stuck
        PROVE  InputInv'
    <3>1. /\ DOMAIN task' = DOMAIN NoTask /\ SameCall /\ task'.step = step /\ task'.held = task.held
          /\ task'.reply = "none"
        BY <1>0, <2>0, <2>2, StepFields
    <3>2. down' \subseteq down
        BY <2>2 DEF PrepareField, ClickedFirst, AfterClick
    <3>3. TaskShape'
        BY <2>0, <3>1 DEF InputInv, TaskShape, SameCall, HoldSteps, Dragging, TypeSteps
    <3>4. HoldingInv' /\ ClipInv'
        BY <2>0, <3>1, <3>2 DEF HoldingInv, ClipInv, SameCall, HoldSteps, TypeSteps
    <3>5. "none" \notin down'
        BY <1>0, <3>2
    <3> QED
        BY <2>0, <3>1, <3>2, <3>3, <3>4, <3>5, GoingOnKeeps
  <2>3. \/ PrepareField(task.clear, FALSE) /\ Answer("failed") /\ Lingers({})
        \/ \E step \in {"type", "save"} : PrepareField(task.clear, TRUE) /\ Step(step) /\ UNCHANGED stuck
      BY <1>1 DEF Prepare
  <2> QED
      BY <2>1, <2>2, <2>3
<1>2. CASE TypeKeys
  <2>0. /\ task.step = "type" /\ task.tool = "Type" /\ down \subseteq task.before /\ clip = task.clipBefore
        /\ task.reply = "none" /\ UNCHANGED <<os, marked, grip, clip, lastDown>>
      BY <1>2 DEF TypeKeys, InputInv, TaskShape, HoldingInv, ClipInv, TypeSteps
  <2>1. CASE TypeUnicode(task.text, FALSE) /\ Answer("failed") /\ Lingers({})
    <3>1. /\ DOMAIN task' = DOMAIN NoTask /\ SameCall /\ task'.step = "over" /\ task'.held = task.held
          /\ task'.reply = "failed"
        BY <1>0, <2>1, AnswerFields
    <3>2. (os = "macos" => down' = down) /\ "none" \notin down'
        BY <1>0, <2>1, TypingStays
    <3>3. down' \subseteq down \cup stuck'
        BY <2>1 DEF Lingers
    <3>4. (NothingLeftDown /\ HeldThroughout /\ ClipboardBack)'
        BY <2>0, <3>1, <3>3 DEF SameCall, NothingLeftDown, HeldThroughout, ClipboardBack, Over
    <3> QED
        BY <2>0, <3>1, <3>2, <3>4, EndingKeeps
  <2>2. CASE TypeUnicode(task.text, TRUE) /\ Step("enter") /\ UNCHANGED stuck
    <3>1. /\ DOMAIN task' = DOMAIN NoTask /\ SameCall /\ task'.step = "enter" /\ task'.held = task.held
          /\ task'.reply = "none"
        BY <1>0, <2>0, <2>2, StepFields
    <3>2. down' = down
        BY <1>0, <2>2, TypingStays
    <3>3. TaskShape'
        BY <2>0, <3>1 DEF InputInv, TaskShape, SameCall, HoldSteps, Dragging, TypeSteps
    <3>4. HoldingInv' /\ ClipInv'
        BY <2>0, <3>1, <3>2 DEF HoldingInv, ClipInv, SameCall, HoldSteps, TypeSteps
    <3> QED
        BY <1>0, <2>0, <3>1, <3>2, <3>3, <3>4, GoingOnKeeps
  <2> QED
      BY <1>2, <2>1, <2>2 DEF TypeKeys
<1>3. CASE PressEnter
  <2>0. /\ task.step = "enter" /\ task.tool = "Type" /\ down \subseteq task.before
        /\ task.reply = "restored" => clip = task.clipBefore
        /\ task.clipBefore \in {"text", "typed"} /\ "clipboard" \notin stuck => clip = task.clipBefore
        /\ UNCHANGED <<os, down, marked, grip, clip, stuck, lastDown>>
      BY <1>3 DEF PressEnter, InputInv, TaskShape, HoldingInv, ClipInv, TypeSteps
  <2>1. PICK reply : Answer(reply) /\ reply \in {"ok", "failed", task.reply}
      BY <1>3 DEF PressEnter
  <2>2. /\ DOMAIN task' = DOMAIN NoTask /\ SameCall /\ task'.step = "over" /\ task'.held = task.held
        /\ task'.reply = reply
      BY <1>0, <2>1, AnswerFields
  <2>3. NothingLeftDown' /\ HeldThroughout'
      BY <2>0, <2>2 DEF SameCall, NothingLeftDown, HeldThroughout, Over
  <2>4. ClipboardBack'
      BY <2>0, <2>1, <2>2 DEF SameCall, ClipboardBack, Over
  <2> QED
      BY <1>0, <2>0, <2>2, <2>3, <2>4, EndingKeeps
<1> QED
    BY <1>1, <1>2, <1>3

\* A paste: the clipboard is saved, written, and put back whatever came in between.
LEMMA SetTextEffect == ASSUME NEW to, SetText(to, TRUE) PROVE clip' = to
BY DEF SetText, SetX11, SetWindows, SetMac
LEMMA PasteSteps == ASSUME InputInv, SaveClipboard \/ SetClipboard \/ Paste \/ Restore PROVE InputInv'
<1>0. /\ DOMAIN task = DOMAIN NoTask /\ "none" \notin down /\ task.tool = "Type" /\ task.reply = "none"
      /\ down \subseteq task.before /\ UNCHANGED <<os, down, marked, grip, lastDown>>
    BY DEF InputInv, TaskShape, GripInv, HoldingInv, TypeSteps, SaveClipboard, SetClipboard, Paste, Restore
<1>1. CASE SaveClipboard
  <2>0. task.step = "save" /\ clip = task.clipBefore
      BY <1>1 DEF SaveClipboard, InputInv, ClipInv
  <2>1. /\ DOMAIN task' = DOMAIN NoTask /\ SameCall /\ task'.step = "set" /\ task'.held = task.held
        /\ task'.reply = "none" /\ task'.saved \in {ClipText, ""}
        /\ task'.saved = ClipText \/ "clipboard" \in stuck'
      BY <1>0, <1>1 DEF SaveClipboard, SameCall, NoTask
  <2>2. TaskShape' /\ HoldingInv'
      BY <1>0, <2>1 DEF InputInv, TaskShape, HoldingInv, SameCall, HoldSteps, Dragging, TypeSteps
  <2>3. ClipInv'
      BY <2>0, <2>1 DEF ClipInv, SameCall, ClipText
  <2> QED
      BY <1>0, <2>1, <2>2, <2>3, GoingOnKeeps
<1>2. CASE SetClipboard \/ Paste
  <2>0. task.step \in {"set", "paste"} /\ UNCHANGED stuck
      BY <1>2 DEF SetClipboard, Paste
  <2>1. PICK step \in {"paste", "restore"} : Step(step) \/ FailTo(step)
      BY <1>2 DEF SetClipboard, Paste
  <2>2. /\ DOMAIN task' = DOMAIN NoTask /\ SameCall /\ task'.step = step /\ task'.held = task.held
        /\ task'.reply = "none" /\ task'.saved = task.saved
      BY <1>0, <2>1, StepFields, FailFields
  <2>3. TaskShape' /\ HoldingInv'
      BY <1>0, <2>2 DEF InputInv, TaskShape, HoldingInv, SameCall, HoldSteps, Dragging, TypeSteps
  <2>4. ClipInv'
      BY <2>0, <2>2 DEF InputInv, ClipInv, SameCall
  <2> QED
      BY <1>0, <2>2, <2>3, <2>4, GoingOnKeeps
<1>3. CASE Restore
  <2>0. /\ task.step = "restore" /\ (task.saved # "" => task.saved = task.clipBefore)
        /\ task.clipBefore \in {"text", "typed"} /\ "clipboard" \notin stuck => task.saved # ""
      BY <1>3 DEF Restore, InputInv, ClipInv
  <2>1. PICK reply \in {"not_restored", "restored", "restore_failed"} :
          /\ AfterRestore(reply)
          /\ reply = "not_restored" => task.saved = "" /\ UNCHANGED stuck
          /\ reply = "restored" => task.saved # "" /\ SetText(task.saved, TRUE) /\ UNCHANGED stuck
          /\ reply = "restore_failed" => "clipboard" \in stuck'
      BY <1>3 DEF Restore
  <2>2. reply = "restored" => clip' = task.saved
      BY <2>1, SetTextEffect
  <2>3. /\ DOMAIN task' = DOMAIN NoTask /\ SameCall /\ task'.step = (IF task.failed THEN "over" ELSE "enter")
        /\ task'.held = task.held /\ task'.reply = IF task.failed THEN "failed" ELSE reply
      BY <1>0, <2>1 DEF AfterRestore, SameCall, NoTask
  <2>4. /\ task'.reply = "restored" => clip' = task.clipBefore
        /\ task.clipBefore \in {"text", "typed"} /\ "clipboard" \notin stuck' => clip' = task.clipBefore
      BY <2>0, <2>1, <2>2, <2>3
  <2>5. CASE task.failed
    <3>1. (NothingLeftDown /\ HeldThroughout)'
        BY <1>0, <2>3, <2>5 DEF SameCall, NothingLeftDown, HeldThroughout, Over
    <3>2. ClipboardBack'
        BY <2>3, <2>4, <2>5 DEF SameCall, ClipboardBack, Over
    <3> QED
        BY <1>0, <2>3, <2>5, <3>1, <3>2, EndingKeeps
  <2>6. CASE ~task.failed
    <3>1. TaskShape' /\ HoldingInv'
        BY <1>0, <2>3, <2>6 DEF InputInv, TaskShape, HoldingInv, SameCall, HoldSteps, Dragging, TypeSteps
    <3>2. ClipInv'
        BY <2>3, <2>4, <2>6 DEF ClipInv, SameCall
    <3> QED
        BY <1>0, <2>3, <2>6, <3>1, <3>2, GoingOnKeeps
  <2> QED
      BY <2>5, <2>6
<1> QED
    BY <1>1, <1>2, <1>3

\* Between two calls the user may press what is down, and copy something else.
LEMMA NextToolKeeps == ASSUME InputInv, NextTool PROVE InputInv'
<1>1. /\ task' = NoTask /\ os' = os /\ down' \in {down, {}} /\ grip' = grip
      /\ lastDown' = IF lastDown \in down' THEN lastDown ELSE "none"
    BY DEF NextTool, UserActs
<1>2. task'.step = "over" /\ task'.tool = "none" /\ task'.keys = <<>> /\ task'.held = <<>>
    BY <1>1 DEF NoTask
<1>3. <<>> \in Seq(KeyNames)
    OBVIOUS
<1>4. TaskShape'
    BY <1>1, <1>2, <1>3 DEF TaskShape, HoldSteps, Dragging, TypeSteps
<1>5. GripInv'
    BY <1>1 DEF InputInv, GripInv
<1> QED
    BY <1>2, <1>4, <1>5 DEF InputInv, HoldingInv, SeenInv, ClipInv, HoldSteps, TypeSteps,
                            NothingLeftDown, HeldThroughout, ClipboardBack, Over

LEMMA InputStep == ASSUME InputInv, [InputNext]_inputVars PROVE InputInv'
<1>1. CASE UNCHANGED inputVars
  <2>1. HoldingInv'
      BY <1>1 DEF inputVars, driverVars, InputInv, HoldingInv, HeldNow, KeysOf, Asked
  <2>3. TaskShape'
      BY <1>1 DEF inputVars, driverVars, InputInv, TaskShape
  <2>4. (GripInv /\ SeenInv /\ ClipInv)'
      BY <1>1 DEF inputVars, driverVars, InputInv, GripInv, SeenInv, Held, ClipInv
  <2>2. (NothingLeftDown /\ HeldThroughout /\ ClipboardBack)'
      BY <1>1 DEF inputVars, driverVars, InputInv, NothingLeftDown, HeldThroughout, ClipboardBack, Over, Asked, Held
  <2> QED
      BY <2>1, <2>2, <2>3, <2>4 DEF InputInv
<1> QED
    BY <1>1, ToolsBegin, HoldingSteps, MoveSteps, ShortcutSteps, TypeKeySteps, PasteSteps, NextToolKeeps DEF InputNext

(* Whatever step fails, a call of an input tool leaves down only what it could not release or was asked
   to press, holds what it was asked to hold while it acts, and has the clipboard back. *)
THEOREM InputHandedBack == InputSpec => []InputAccounted
<1>1. InputInit => InputInv
    BY InputBegins
<1>2. InputInv /\ [InputNext]_inputVars => InputInv'
    BY InputStep
<1>3. InputInv => InputAccounted
    BY DEF InputInv, InputAccounted
<1> QED
    BY <1>1, <1>2, <1>3, PTL DEF InputSpec

-----------------------------------------------------------------------------
(* The lists of elements. *)

\* The order of the tree, level by level: one path leads above another, or turns off before it.
Above(m, n) == Len(m) <= Len(n) /\ \A i \in 1..Len(m) : m[i] = n[i]
TurnsBefore(m, n) ==
  \E i \in 1..Len(m) : i <= Len(n) /\ m[i] < n[i] /\ \A j \in 1..(i - 1) : m[j] = n[j]
Precedes(m, n) == TurnsBefore(m, n) \/ (Above(m, n) /\ Len(m) < Len(n))

LEMMA EarlierPrecedes ==
  ASSUME NEW m \in Seq(Nat), NEW n \in Seq(Nat) PROVE Earlier(m, n) <=> Precedes(m, n)
<1>0. PICK a \in Nat, b \in Nat : Len(m) = a /\ Len(n) = b /\ DOMAIN m = 1..a /\ DOMAIN n = 1..b
    OBVIOUS
<1>1. Len(m) < Len(n) => (SubSeq(n, 1, Len(m)) = m <=> Above(m, n))
    BY <1>0 DEF Above
<1>2. ASSUME NEW i \in 1..a, i <= b
      PROVE  SubSeq(m, 1, i - 1) = SubSeq(n, 1, i - 1) <=> \A j \in 1..(i - 1) : m[j] = n[j]
  <2>1. i - 1 \in Nat /\ i - 1 <= a /\ i - 1 <= b
      BY <1>2
  <2>2. /\ SubSeq(m, 1, i - 1) = [j \in 1..(i - 1) |-> m[j]]
        /\ SubSeq(n, 1, i - 1) = [j \in 1..(i - 1) |-> n[j]]
      BY <1>0, <2>1
  <2> QED
      BY <2>2
<1>3. 1..a \cap 1..b = {i \in 1..a : i <= b}
    OBVIOUS
<1> QED
    BY <1>0, <1>1, <1>2, <1>3 DEF Earlier, Precedes, TurnsBefore

LEMMA PrecedesStrict ==
  ASSUME NEW m \in Seq(Nat), NEW n \in Seq(Nat)
  PROVE  /\ Precedes(m, n) => ~Precedes(n, m) /\ ~Above(n, m)
         /\ TurnsBefore(m, n) => ~Above(m, n)
<1>0. PICK a \in Nat, b \in Nat : Len(m) = a /\ Len(n) = b
    OBVIOUS
<1>1. \A i \in 1..a : m[i] \in Nat
    BY <1>0
<1>2. \A i \in 1..b : n[i] \in Nat
    BY <1>0
<1>3. ASSUME TurnsBefore(m, n)  PROVE ~Above(m, n) /\ ~Above(n, m) /\ ~TurnsBefore(n, m)
  <2>1. PICK i \in 1..a : i <= b /\ m[i] < n[i] /\ \A j \in 1..(i - 1) : m[j] = n[j]
      BY <1>0, <1>3 DEF TurnsBefore
  <2>2. ~Above(m, n) /\ ~Above(n, m)
      BY <1>0, <1>1, <1>2, <2>1 DEF Above
  <2>3. ASSUME NEW k \in 1..b, k <= a, n[k] < m[k], \A j \in 1..(k - 1) : n[j] = m[j]  PROVE FALSE
    <3>1. CASE k < i
        BY <1>1, <1>2, <2>1, <2>3, <3>1
    <3>2. CASE i < k
        BY <1>1, <1>2, <2>1, <2>3, <3>2
    <3>3. CASE k = i
        BY <1>1, <1>2, <2>1, <2>3, <3>3
    <3> QED
        BY <2>1, <2>3, <3>1, <3>2, <3>3
  <2> QED
      BY <1>0, <2>2, <2>3 DEF TurnsBefore
<1>4. ASSUME Above(m, n), Len(m) < Len(n)  PROVE ~Above(n, m) /\ ~TurnsBefore(n, m)
    BY <1>0, <1>1, <1>2, <1>4 DEF Above, TurnsBefore
<1> QED
    BY <1>0, <1>3, <1>4 DEF Precedes, Above

LEMMA PrecedesOn ==
  ASSUME NEW l \in Seq(Nat), NEW m \in Seq(Nat), NEW n \in Seq(Nat), Precedes(l, m),
         Precedes(m, n) \/ Above(m, n)
  PROVE  Precedes(l, n)
<1>0. PICK a \in Nat, b \in Nat, c \in Nat : Len(l) = a /\ Len(m) = b /\ Len(n) = c
    OBVIOUS
<1>1. /\ \A i \in 1..a : l[i] \in Nat
      /\ \A i \in 1..b : m[i] \in Nat
      /\ \A i \in 1..c : n[i] \in Nat
    BY <1>0
<1>2. CASE TurnsBefore(l, m)
  <2>1. PICK i \in 1..a : i <= b /\ l[i] < m[i] /\ \A j \in 1..(i - 1) : l[j] = m[j]
      BY <1>0, <1>2 DEF TurnsBefore
  <2>2. CASE Above(m, n)
    <3>1. b <= c /\ \A j \in 1..b : m[j] = n[j]
        BY <1>0, <2>2 DEF Above
    <3>2. i <= c /\ l[i] < n[i] /\ \A j \in 1..(i - 1) : l[j] = n[j]
        BY <2>1, <3>1
    <3> QED
        BY <1>0, <2>1, <3>2 DEF TurnsBefore, Precedes
  <2>3. CASE TurnsBefore(m, n)
    <3>1. PICK k \in 1..b : k <= c /\ m[k] < n[k] /\ \A j \in 1..(k - 1) : m[j] = n[j]
        BY <1>0, <2>3 DEF TurnsBefore
    <3>2. CASE k < i
      <4>1. k \in 1..a /\ l[k] < n[k] /\ \A j \in 1..(k - 1) : l[j] = n[j]
          BY <2>1, <3>1, <3>2
      <4> QED
          BY <1>0, <3>1, <4>1 DEF TurnsBefore, Precedes
    <3>3. CASE i <= k
      <4>1. i <= c /\ m[i] <= n[i] /\ \A j \in 1..(i - 1) : m[j] = n[j]
        <5>1. m[i] \in Nat /\ n[i] \in Nat /\ i <= c
            BY <1>1, <2>1, <3>1, <3>3
        <5>2. i < k => m[i] = n[i]
            BY <2>1, <3>1
        <5> QED
            BY <2>1, <3>1, <3>3, <5>1, <5>2
      <4>2. l[i] < n[i] /\ \A j \in 1..(i - 1) : l[j] = n[j]
          BY <1>1, <2>1, <4>1
      <4> QED
          BY <1>0, <2>1, <4>1, <4>2 DEF TurnsBefore, Precedes
    <3> QED
        BY <2>1, <3>1, <3>2, <3>3
  <2> QED
      BY <2>2, <2>3 DEF Precedes
<1>3. CASE Above(l, m) /\ Len(l) < Len(m)
  <2>1. CASE Above(m, n)
      BY <1>0, <1>1, <1>3, <2>1 DEF Above, Precedes
  <2>2. CASE TurnsBefore(m, n)
    <3>1. PICK k \in 1..b : k <= c /\ m[k] < n[k] /\ \A j \in 1..(k - 1) : m[j] = n[j]
        BY <1>0, <2>2 DEF TurnsBefore
    <3>2. CASE k <= a
      <4>1. \A j \in 1..a : l[j] = m[j]
          BY <1>0, <1>3 DEF Above
      <4>2. k \in 1..a /\ l[k] < n[k] /\ \A j \in 1..(k - 1) : l[j] = n[j]
          BY <3>1, <3>2, <4>1
      <4> QED
          BY <1>0, <3>1, <4>2 DEF TurnsBefore, Precedes
    <3>3. CASE a < k
        BY <1>0, <1>1, <1>3, <3>1, <3>3 DEF Above, Precedes
    <3> QED
        BY <1>0, <3>1, <3>2, <3>3
  <2> QED
      BY <2>1, <2>2 DEF Precedes
<1> QED
    BY <1>2, <1>3 DEF Precedes

LEMMA TurnsOn ==
  ASSUME NEW l \in Seq(Nat), NEW m \in Seq(Nat), NEW n \in Seq(Nat), TurnsBefore(l, m), Above(m, n)
  PROVE  TurnsBefore(l, n)
<1>0. PICK a \in Nat, b \in Nat, c \in Nat : Len(l) = a /\ Len(m) = b /\ Len(n) = c
    OBVIOUS
<1>1. PICK i \in 1..a : i <= b /\ l[i] < m[i] /\ \A j \in 1..(i - 1) : l[j] = m[j]
    BY <1>0 DEF TurnsBefore
<1>2. b <= c /\ \A j \in 1..b : m[j] = n[j]
    BY <1>0 DEF Above
<1>3. i <= c /\ l[i] < n[i] /\ \A j \in 1..(i - 1) : l[j] = n[j]
    BY <1>1, <1>2
<1> QED
    BY <1>0, <1>3 DEF TurnsBefore

\* A child comes after its parent and after all that comes before that, and before all its parent turns before.
LEMMA ChildPlace ==
  ASSUME NEW h \in Seq(Nat), NEW c \in Seq(Nat), NEW m \in Seq(Nat), c # <<>>, Front(c) = h
  PROVE  /\ Len(c) = Len(h) + 1 /\ Above(h, c) /\ Precedes(h, c)
         /\ TurnsBefore(h, m) => TurnsBefore(c, m)
         /\ Above(c, m) => Above(h, m)
<1>0. PICK a \in Nat, b \in Nat : Len(h) = a /\ Len(m) = b
    OBVIOUS
<1>1. Len(c) = a + 1 /\ \A i \in 1..a : c[i] = h[i]
  <2>1. PICK k \in Nat : Len(c) = k + 1
      OBVIOUS
  <2>2. h = SubSeq(c, 1, k)
      BY <2>1 DEF Front
  <2>3. Len(h) = k /\ \A i \in 1..k : c[i] = h[i]
      BY <2>1, <2>2
  <2> QED
      BY <1>0, <2>1, <2>3
<1>2. Above(h, c) /\ Precedes(h, c) /\ (Above(c, m) => Above(h, m))
    BY <1>0, <1>1 DEF Above, Precedes
<1>3. ASSUME TurnsBefore(h, m)  PROVE TurnsBefore(c, m)
  <2>1. PICK i \in 1..a : i <= b /\ h[i] < m[i] /\ \A j \in 1..(i - 1) : h[j] = m[j]
      BY <1>0, <1>3 DEF TurnsBefore
  <2>2. i \in 1..(a + 1) /\ c[i] < m[i] /\ \A j \in 1..(i - 1) : c[j] = m[j]
      BY <1>1, <2>1
  <2> QED
      BY <1>0, <1>1, <2>1, <2>2 DEF TurnsBefore
<1> QED
    BY <1>0, <1>1, <1>2, <1>3

LEMMA AtMostTrans == \A a, b, c \in Nat : a <= b /\ b <= c => a <= c
OBVIOUS

LEMMA AnyLen == ASSUME NEW S, NEW s \in Seq(S) PROVE Len(s) \in Nat
OBVIOUS

LEMMA AnyItem == ASSUME NEW S, NEW s \in Seq(S), NEW i \in 1..Len(s) PROVE s[i] \in S
OBVIOUS

LEMMA SomeLen == ASSUME NEW S, NEW s \in Seq(S), s # <<>> PROVE \E k \in Nat : Len(s) = k + 1
OBVIOUS

\* Of two children of one parent the earlier turns before the later.
LEMMA SiblingsTurn ==
  ASSUME NEW c \in Seq(Nat), NEW d \in Seq(Nat), c # <<>>, d # <<>>, Front(c) = Front(d), Last(c) < Last(d)
  PROVE  TurnsBefore(c, d)
<1>a. PICK k \in Nat : Len(c) = k + 1
    BY SomeLen
<1>b. PICK l \in Nat : Len(d) = l + 1
    BY SomeLen
<1>1. Len(c) = k + 1 /\ Len(d) = l + 1
    BY <1>a, <1>b
<1>2. Front(c) = SubSeq(c, 1, k) /\ Front(d) = SubSeq(d, 1, l) /\ c[k + 1] < d[l + 1]
    BY <1>1 DEF Front, Last
<1>3. k = l /\ \A j \in 1..k : c[j] = d[j]
  <2>1. /\ Len(SubSeq(c, 1, k)) = k /\ Len(SubSeq(d, 1, l)) = l
        /\ \A j \in 1..k : SubSeq(c, 1, k)[j] = c[j]
        /\ \A j \in 1..l : SubSeq(d, 1, l)[j] = d[j]
      BY <1>1
  <2> QED
      BY <1>2, <2>1
<1> QED
    BY <1>1, <1>2, <1>3 DEF TurnsBefore

\* A path below another goes on to a child of it.
LEMMA BelowByChild ==
  ASSUME NEW h \in Elements \cup {<<>>}, NEW n \in Elements, Above(h, n)
  PROVE  \/ h = n
         \/ \E i \in 1..Len(Children(h)) : Above(Children(h)[i], n)
<1>0. h \in Seq(Nat) /\ n \in Seq(Nat) /\ Children(h) \in Seq(Elements)
  <2>1. <<>> \in Seq(Nat)
      OBVIOUS
  <2> QED
      BY <2>1, ListAssumption
<1>1. PICK a \in Nat, b \in Nat : Len(h) = a /\ Len(n) = b /\ a <= b /\ \A i \in 1..a : h[i] = n[i]
    BY <1>0 DEF Above
<1>2. CASE a = b
  <2>1. h = [i \in 1..a |-> h[i]] /\ n = [i \in 1..a |-> n[i]]
      BY <1>0, <1>1, <1>2
  <2> QED
      BY <1>1, <2>1
<1>3. CASE a < b
  <2>1. a + 1 \in 1..Len(n) /\ (a + 1) - 1 = a
      BY <1>1, <1>3
  <2>2. SubSeq(n, 1, a + 1) \in ToSet(Children(SubSeq(n, 1, a)))
      BY <2>1, ListAssumption
  <2>3. SubSeq(n, 1, a) = h
    <3>1. SubSeq(n, 1, a) = [i \in 1..a |-> n[i]] /\ h = [i \in 1..a |-> h[i]]
        BY <1>0, <1>1
    <3> QED
        BY <1>1, <3>1
  <2>4. PICK i \in 1..Len(Children(h)) : Children(h)[i] = SubSeq(n, 1, a + 1)
    <3>1. DOMAIN Children(h) = 1..Len(Children(h))
        BY <1>0
    <3>2. PICK i \in DOMAIN Children(h) : Children(h)[i] = SubSeq(n, 1, a + 1)
        BY <2>2, <2>3 DEF ToSet
    <3> QED
        BY <3>1, <3>2
  <2>5. Above(SubSeq(n, 1, a + 1), n)
      BY <1>0, <1>1, <1>3 DEF Above
  <2> QED
      BY <2>4, <2>5
<1> QED
    BY <1>1, <1>2, <1>3

\* The elements that the iterators on a stack still give.
Waiting(s) == {n \in Elements : \E k \in 1..Len(s) : \E i \in 1..Len(s[k]) : s[k][i] = n}

\* A level deeper on the stack is a level deeper in the tree, its elements turn before all that wait above,
\* and an iterator gives its elements in order.
StackInv(s) ==
  /\ s \in Seq(Seq(Elements))
  /\ \A k \in 1..Len(s) : \A i \in 1..Len(s[k]) : Len(s[k][i]) = k
  /\ \A k \in 1..Len(s) : \A i, j \in 1..Len(s[k]) : i < j => TurnsBefore(s[k][i], s[k][j])
  /\ \A k, l \in 1..Len(s) : k < l =>
       \A i \in 1..Len(s[k]), j \in 1..Len(s[l]) : TurnsBefore(s[l][j], s[k][i])

LEMMA StackAdvances ==
  ASSUME StackInv(stack), stack # <<>>, stack[Len(stack)] # <<>>
  PROVE  /\ StackInv(Advance) /\ Len(Advance) = Len(stack)
         /\ NextElement \in Elements /\ Len(NextElement) = Len(stack)
         /\ Waiting(stack) = Waiting(Advance) \cup {NextElement}
         /\ \A m \in Waiting(Advance) : TurnsBefore(NextElement, m)
<1>1. PICK n \in Nat : Len(stack) = n /\ n > 0
    BY DEF StackInv
<1>2. stack \in Seq(Seq(Elements)) /\ stack[n] \in Seq(Elements) /\ stack[n] # <<>>
    BY <1>1 DEF StackInv
<1>3. PICK t \in Nat : Len(stack[n]) = t + 1
    BY <1>2, SomeLen
<1>4. /\ Tail(stack[n]) \in Seq(Elements) /\ Len(Tail(stack[n])) = t
      /\ \A i \in 1..t : Tail(stack[n])[i] = stack[n][i + 1]
    BY <1>2, <1>3
<1>5. NextElement = stack[n][1] /\ NextElement \in Elements /\ 1 \in 1..(t + 1)
    BY <1>1, <1>2, <1>3 DEF NextElement
<1> DEFINE s == Advance
<1>6. /\ s \in Seq(Seq(Elements)) /\ Len(s) = n
      /\ s[n] = Tail(stack[n]) /\ \A k \in 1..n : k # n => s[k] = stack[k]
    BY <1>1, <1>2, <1>4 DEF Advance
<1> HIDE DEF s
\* Each element that waits in the new stack has a place in the old one.
<1> DEFINE Was(k, i) == IF k = n THEN i + 1 ELSE i
<1>7. \A k \in 1..n : \A i \in 1..Len(s[k]) :
        Was(k, i) \in 1..Len(stack[k]) /\ s[k][i] = stack[k][Was(k, i)]
  <2> TAKE k \in 1..n
  <2> TAKE i \in 1..Len(s[k])
  <2>1. CASE k = n
    <3>1. s[k] = Tail(stack[n]) /\ Len(s[k]) = t /\ Len(stack[k]) = t + 1
        BY <1>3, <1>4, <1>6, <2>1
    <3>2. i \in 1..t /\ i + 1 \in 1..(t + 1)
        BY <3>1
    <3>3. s[k][i] = stack[k][i + 1]
        BY <1>4, <2>1, <3>1, <3>2
    <3> QED
        BY <2>1, <3>1, <3>2, <3>3
  <2>2. CASE k # n
      BY <1>6, <2>2
  <2> QED
      BY <2>1, <2>2
<1>8. \A k \in 1..n : Len(s[k]) \in Nat
  <2> TAKE k \in 1..n
  <2>1. s[k] \in Seq(Elements)
      BY <1>6
  <2> QED
      BY <2>1
<1>m. \A k \in 1..n : \A i, j \in 1..Len(s[k]) : i < j => Was(k, i) < Was(k, j)
    BY <1>8
<1>t. /\ \A k \in 1..n : \A i \in 1..Len(stack[k]) : Len(stack[k][i]) = k
      /\ \A k \in 1..n : \A i, j \in 1..Len(stack[k]) : i < j => TurnsBefore(stack[k][i], stack[k][j])
      /\ \A k, l \in 1..n : k < l =>
           \A i \in 1..Len(stack[k]), j \in 1..Len(stack[l]) : TurnsBefore(stack[l][j], stack[k][i])
    BY <1>1 DEF StackInv
<1>w. /\ \A m \in Waiting(stack) : \E k \in 1..n : \E i \in 1..Len(stack[k]) : stack[k][i] = m
      /\ \A m \in Waiting(s) : \E k \in 1..n : \E i \in 1..Len(s[k]) : s[k][i] = m
      /\ \A k \in 1..n : \A i \in 1..Len(stack[k]) : stack[k][i] \in Elements => stack[k][i] \in Waiting(stack)
      /\ \A k \in 1..n : \A i \in 1..Len(s[k]) : s[k][i] \in Elements => s[k][i] \in Waiting(s)
      /\ Waiting(s) \subseteq Elements /\ Waiting(stack) \subseteq Elements
    BY <1>1, <1>6 DEF Waiting
<1>9. StackInv(s)
  <2> HIDE DEF Was
  <2>1. \A k \in 1..n : \A i \in 1..Len(s[k]) : Len(s[k][i]) = k
    <3> TAKE k \in 1..n
    <3> TAKE i \in 1..Len(s[k])
    <3>1. Was(k, i) \in 1..Len(stack[k]) /\ s[k][i] = stack[k][Was(k, i)]
        BY <1>7
    <3> QED
        BY <1>t, <3>1
  <2>2. \A k \in 1..n : \A i, j \in 1..Len(s[k]) : i < j => TurnsBefore(s[k][i], s[k][j])
    <3> SUFFICES ASSUME NEW k \in 1..n, NEW i \in 1..Len(s[k]), NEW j \in 1..Len(s[k]), i < j
                 PROVE  TurnsBefore(s[k][i], s[k][j])
        OBVIOUS
    <3>1. Was(k, i) < Was(k, j)
        BY <1>m
    <3> QED
        BY <1>7, <1>t, <3>1
  <2>3. \A k, l \in 1..n : k < l =>
          \A i \in 1..Len(s[k]), j \in 1..Len(s[l]) : TurnsBefore(s[l][j], s[k][i])
    <3> SUFFICES ASSUME NEW k \in 1..n, NEW l \in 1..n, k < l, NEW i \in 1..Len(s[k]), NEW j \in 1..Len(s[l])
                 PROVE  TurnsBefore(s[l][j], s[k][i])
        OBVIOUS
    <3>1. /\ Was(k, i) \in 1..Len(stack[k]) /\ s[k][i] = stack[k][Was(k, i)]
          /\ Was(l, j) \in 1..Len(stack[l]) /\ s[l][j] = stack[l][Was(l, j)]
        BY <1>7
    <3> QED
        BY <1>t, <3>1
  <2> QED
      BY <1>6, <2>1, <2>2, <2>3 DEF StackInv
<1>10. Waiting(stack) = Waiting(s) \cup {NextElement}
  <2>1. Waiting(s) \subseteq Waiting(stack)
    <3> HIDE DEF Was
    <3> SUFFICES ASSUME NEW m \in Waiting(s)  PROVE m \in Waiting(stack)
        OBVIOUS
    <3>1. PICK k \in 1..n : \E i \in 1..Len(s[k]) : s[k][i] = m
        BY <1>w
    <3>2. PICK i \in 1..Len(s[k]) : s[k][i] = m
        BY <3>1
    <3>3. Was(k, i) \in 1..Len(stack[k]) /\ m = stack[k][Was(k, i)] /\ m \in Elements
        BY <1>7, <1>w, <3>2
    <3> QED
        BY <1>w, <3>3
  <2>2. NextElement \in Waiting(stack)
      BY <1>1, <1>3, <1>5 DEF Waiting
  <2>3. ASSUME NEW m \in Waiting(stack), m # NextElement  PROVE m \in Waiting(s)
    <3>0. PICK k \in 1..n : \E i \in 1..Len(stack[k]) : stack[k][i] = m
        BY <1>1 DEF Waiting
    <3>1. PICK i \in 1..Len(stack[k]) : stack[k][i] = m
        BY <3>0
    <3>2. CASE k # n
        BY <1>6, <2>3, <3>1, <3>2 DEF Waiting
    <3>3. CASE k = n
      <4>1. i # 1 /\ i \in 1..(t + 1)
          BY <1>3, <1>5, <2>3, <3>1, <3>3
      <4>2. i - 1 \in 1..t /\ (i - 1) + 1 = i
          BY <4>1
      <4>3. s[n][i - 1] = m /\ Len(s[n]) = t
          BY <1>4, <1>6, <3>1, <3>3, <4>2
      <4> QED
          BY <1>1, <1>6, <2>3, <4>2, <4>3 DEF Waiting
    <3> QED
        BY <3>2, <3>3
  <2> QED
      BY <2>1, <2>2, <2>3
<1>11. \A m \in Waiting(s) : TurnsBefore(NextElement, m)
  <2> TAKE m \in Waiting(s)
  <2>0. PICK k \in 1..n : \E i \in 1..Len(s[k]) : s[k][i] = m
      BY <1>6 DEF Waiting
  <2>1. PICK i \in 1..Len(s[k]) : s[k][i] = m
      BY <2>0
  <2>2. m = stack[k][Was(k, i)] /\ Was(k, i) \in 1..Len(stack[k])
      BY <1>7, <2>1
  <2>3. CASE k = n
    <3>1. 1 < Was(k, i)
        BY <1>8, <2>1, <2>3
    <3> QED
        BY <1>1, <1>3, <1>5, <2>2, <2>3, <3>1 DEF StackInv
  <2>4. CASE k # n
    <3>1. k < n /\ n \in 1..n
        BY <1>1, <2>1, <2>4
    <3> QED
        BY <1>1, <1>3, <1>5, <2>2, <3>1 DEF StackInv
  <2> QED
      BY <2>3, <2>4
<1>12. Len(NextElement) = n
    BY <1>1, <1>3, <1>5 DEF StackInv
<1> QED
    BY <1>1, <1>5, <1>6, <1>9, <1>10, <1>11, <1>12 DEF s

LEMMA StackShrinks ==
  ASSUME NEW s, StackInv(s), s # <<>>, s[Len(s)] = <<>>
  PROVE  StackInv(Front(s)) /\ Waiting(Front(s)) = Waiting(s) /\ Len(Front(s)) < Len(s) /\ Len(Front(s)) \in Nat
<1>1. PICK n \in Nat : Len(s) = n + 1
    BY SomeLen DEF StackInv
<1>2. /\ Front(s) \in Seq(Seq(Elements)) /\ Len(Front(s)) = n /\ \A k \in 1..n : Front(s)[k] = s[k]
      /\ Len(s[n + 1]) = 0
  <2>1. Front(s) = SubSeq(s, 1, n) /\ s \in Seq(Seq(Elements))
      BY <1>1 DEF Front, StackInv
  <2>2. Len(<<>>) = 0
      OBVIOUS
  <2> QED
      BY <1>1, <2>1, <2>2
<1>3. StackInv(Front(s))
  <2> DEFINE f == Front(s)
  <2>1. /\ \A k \in 1..(n + 1) : \A i \in 1..Len(s[k]) : Len(s[k][i]) = k
        /\ \A k \in 1..(n + 1) : \A i, j \in 1..Len(s[k]) : i < j => TurnsBefore(s[k][i], s[k][j])
        /\ \A k, l \in 1..(n + 1) : k < l =>
             \A i \in 1..Len(s[k]), j \in 1..Len(s[l]) : TurnsBefore(s[l][j], s[k][i])
      BY <1>1 DEF StackInv
  <2>2. f \in Seq(Seq(Elements)) /\ Len(f) = n /\ \A k \in 1..n : f[k] = s[k] /\ k \in 1..(n + 1)
      BY <1>2
  <2> HIDE DEF f
  <2>3. StackInv(f)
    <3>1. \A k \in 1..n : \A i \in 1..Len(f[k]) : Len(f[k][i]) = k
        BY <2>1, <2>2
    <3>2. \A k \in 1..n : \A i, j \in 1..Len(f[k]) : i < j => TurnsBefore(f[k][i], f[k][j])
        BY <2>1, <2>2
    <3>3. \A k, l \in 1..n : k < l =>
            \A i \in 1..Len(f[k]), j \in 1..Len(f[l]) : TurnsBefore(f[l][j], f[k][i])
        BY <2>1, <2>2
    <3> QED
        BY <2>2, <3>1, <3>2, <3>3 DEF StackInv
  <2> QED
      BY <2>3 DEF f
<1>4. Waiting(Front(s)) = Waiting(s)
  <2> DEFINE f == Front(s)
  <2>1. /\ \A k \in 1..(n + 1) : k \in 1..n \/ k = n + 1
        /\ \A k \in 1..n : k \in 1..(n + 1)
        /\ \A i : i \notin 1..0
      OBVIOUS
  <2>2. Len(f) = n /\ \A k \in 1..n : f[k] = s[k]
      BY <1>2
  <2> HIDE DEF f
  <2>3. ASSUME NEW m \in Waiting(s)  PROVE m \in Waiting(f)
    <3>1. PICK k \in 1..(n + 1) : \E i \in 1..Len(s[k]) : s[k][i] = m
        BY <1>1 DEF Waiting
    <3>2. k \in 1..n
        BY <1>2, <2>1, <3>1
    <3>3. m \in Elements
        BY DEF Waiting
    <3> QED
        BY <2>2, <3>1, <3>2, <3>3 DEF Waiting
  <2>4. ASSUME NEW m \in Waiting(f)  PROVE m \in Waiting(s)
    <3>1. PICK k \in 1..n : \E i \in 1..Len(f[k]) : f[k][i] = m
        BY <2>2 DEF Waiting
    <3>2. k \in 1..(n + 1) /\ f[k] = s[k] /\ m \in Elements
        BY <2>1, <2>2 DEF Waiting
    <3> QED
        BY <1>1, <3>1, <3>2 DEF Waiting
  <2>5. Waiting(f) = Waiting(s)
      BY <2>3, <2>4
  <2> QED
      BY <2>5 DEF f
<1> QED
    BY <1>1, <1>2, <1>3, <1>4

\* What children() gives of an element: the next level, in order, right below it.
LEMMA ChildrenInOrder ==
  ASSUME NEW h \in Elements \cup {<<>>}, NEW below \in {<<>>, Children(h)}
  PROVE  /\ below \in Seq(Elements)
         /\ \A i \in 1..Len(below) :
              /\ below[i] \in Elements /\ Len(below[i]) = Len(h) + 1 /\ Above(h, below[i]) /\ Precedes(h, below[i])
              /\ \A m \in Elements : (TurnsBefore(h, m) => TurnsBefore(below[i], m)) /\ (Above(below[i], m) => Above(h, m))
         /\ \A i, j \in 1..Len(below) : i < j => TurnsBefore(below[i], below[j])
<1>0. <<>> \in Seq(Elements) /\ <<>> \in Seq(Nat) /\ Children(h) \in Seq(Elements)
    BY ListAssumption
<1>1. below \in Seq(Elements) /\ h \in Seq(Nat) /\ \A n \in Elements : n \in Seq(Nat) /\ n # <<>>
    BY <1>0, ListAssumption
<1>2. PICK k \in Nat : Len(below) = k /\ DOMAIN below = 1..k
    BY <1>1
<1>3. \A i \in 1..k : below[i] \in Elements /\ below[i] \in Seq(Nat) /\ below[i] # <<>>
    BY <1>1, <1>2
<1>4. CASE below = <<>>
  <2>1. Len(<<>>) = 0 /\ \A i : i \notin 1..0
      OBVIOUS
  <2> QED
      BY <1>1, <1>4, <2>1
<1>5. CASE below = Children(h)
  <2>1. \A i \in 1..k : Front(below[i]) = h
      BY <1>2, <1>5, ListAssumption
  <2>2. \A i, j \in 1..k : i < j => Last(below[i]) < Last(below[j])
      BY <1>2, <1>5, ListAssumption
  <2>3. \A i, j \in 1..k : i < j => TurnsBefore(below[i], below[j])
      BY <1>3, <2>1, <2>2, SiblingsTurn
  <2>4. ASSUME NEW i \in 1..k
        PROVE  /\ Len(below[i]) = Len(h) + 1 /\ Above(h, below[i]) /\ Precedes(h, below[i])
               /\ \A m \in Elements : (TurnsBefore(h, m) => TurnsBefore(below[i], m)) /\ (Above(below[i], m) => Above(h, m))
      BY <1>1, <1>3, <2>1, ChildPlace
  <2> QED
      BY <1>1, <1>2, <1>3, <2>3, <2>4
<1> QED
    BY <1>4, <1>5

LEMMA StackGrows ==
  ASSUME NEW s, StackInv(s), NEW h \in Elements \cup {<<>>}, Len(h) = Len(s),
         \A m \in Waiting(s) : TurnsBefore(h, m), NEW below \in {<<>>, Children(h)}
  PROVE  /\ StackInv(Append(s, below)) /\ Len(Append(s, below)) = Len(s) + 1
         /\ Waiting(Append(s, below)) = Waiting(s) \cup ToSet(below)
<1>1. PICK n \in Nat : Len(s) = n /\ s \in Seq(Seq(Elements))
    BY DEF StackInv
<1>b. below \in Seq(Elements)
    BY ChildrenInOrder
<1>2. PICK k \in Nat : Len(below) = k /\ DOMAIN below = 1..k /\ below \in Seq(Elements)
    BY <1>b
<1> DEFINE t == Append(s, below)
<1>3. /\ t \in Seq(Seq(Elements)) /\ Len(t) = n + 1 /\ t[n + 1] = below
      /\ \A l \in 1..n : t[l] = s[l]
    BY <1>1, <1>2
<1> HIDE DEF t
<1>4. /\ \A l \in 1..n : \A i \in 1..Len(s[l]) : Len(s[l][i]) = l
      /\ \A l \in 1..n : \A i, j \in 1..Len(s[l]) : i < j => TurnsBefore(s[l][i], s[l][j])
      /\ \A l, p \in 1..n : l < p =>
           \A i \in 1..Len(s[l]), j \in 1..Len(s[p]) : TurnsBefore(s[p][j], s[l][i])
    BY <1>1 DEF StackInv
<1>5. \A l \in 1..n : \A i \in 1..Len(s[l]) : s[l][i] \in Elements /\ s[l][i] \in Waiting(s)
  <2> TAKE l \in 1..n
  <2>1. s[l] \in Seq(Elements)
      BY <1>1
  <2>2. \A i \in 1..Len(s[l]) : s[l][i] \in Elements
      BY <2>1
  <2> QED
      BY <1>1, <2>2 DEF Waiting
<1>6. /\ \A i \in 1..k : below[i] \in Elements /\ Len(below[i]) = n + 1
      /\ \A i \in 1..k : \A m \in Waiting(s) : TurnsBefore(below[i], m)
      /\ \A i, j \in 1..k : i < j => TurnsBefore(below[i], below[j])
  <2>1. Waiting(s) \subseteq Elements
      BY DEF Waiting
  <2> QED
      BY <1>1, <1>2, <2>1, ChildrenInOrder
<1>7. StackInv(t)
  <2>0. \A l \in 1..(n + 1) : l = n + 1 \/ l \in 1..n
      OBVIOUS
  <2>1. \A l \in 1..(n + 1) : \A i \in 1..Len(t[l]) : Len(t[l][i]) = l
    <3> TAKE l \in 1..(n + 1)
    <3>1. CASE l = n + 1
        BY <1>2, <1>3, <1>6, <3>1
    <3>2. CASE l \in 1..n
        BY <1>3, <1>4, <3>2
    <3> QED
        BY <2>0, <3>1, <3>2
  <2>2. \A l \in 1..(n + 1) : \A i, j \in 1..Len(t[l]) : i < j => TurnsBefore(t[l][i], t[l][j])
    <3> TAKE l \in 1..(n + 1)
    <3>1. CASE l = n + 1
        BY <1>2, <1>3, <1>6, <3>1
    <3>2. CASE l \in 1..n
        BY <1>3, <1>4, <3>2
    <3> QED
        BY <2>0, <3>1, <3>2
  <2>3. \A l, p \in 1..(n + 1) : l < p =>
          \A i \in 1..Len(t[l]), j \in 1..Len(t[p]) : TurnsBefore(t[p][j], t[l][i])
    <3> SUFFICES ASSUME NEW l \in 1..(n + 1), NEW p \in 1..(n + 1), l < p,
                        NEW i \in 1..Len(t[l]), NEW j \in 1..Len(t[p])
                 PROVE  TurnsBefore(t[p][j], t[l][i])
        OBVIOUS
    <3>1. l \in 1..n /\ t[l] = s[l] /\ t[l][i] \in Waiting(s)
        BY <1>3, <1>5
    <3>2. CASE p = n + 1
        BY <1>2, <1>3, <1>6, <3>1, <3>2
    <3>3. CASE p \in 1..n
      <4>1. t[p] = s[p] /\ i \in 1..Len(s[l]) /\ j \in 1..Len(s[p])
          BY <1>3, <3>1, <3>3
      <4> QED
          BY <1>4, <3>1, <3>3, <4>1
    <3> QED
        BY <2>0, <3>2, <3>3
  <2> QED
      BY <1>3, <2>1, <2>2, <2>3 DEF StackInv
<1>8. Waiting(t) = Waiting(s) \cup ToSet(below)
  <2>1. ToSet(below) = {below[i] : i \in 1..k}
      BY <1>2 DEF ToSet
  <2>2. ASSUME NEW m \in Waiting(t)  PROVE m \in Waiting(s) \cup ToSet(below)
    <3>1. PICK l \in 1..(n + 1) : \E i \in 1..Len(t[l]) : t[l][i] = m
        BY <1>3 DEF Waiting
    <3>2. PICK i \in 1..Len(t[l]) : t[l][i] = m
        BY <3>1
    <3>3. CASE l = n + 1
        BY <1>2, <1>3, <2>1, <3>2, <3>3
    <3>4. CASE l # n + 1
        BY <1>3, <1>5, <3>2, <3>4
    <3> QED
        BY <3>3, <3>4
  <2>3. Waiting(s) \subseteq Waiting(t)
    <3>1. 1..n \subseteq 1..(n + 1)
        OBVIOUS
    <3> QED
        BY <1>1, <1>3, <3>1 DEF Waiting
  <2>4. ASSUME NEW i \in 1..k  PROVE below[i] \in Waiting(t)
    <3>1. n + 1 \in 1..Len(t) /\ i \in 1..Len(t[n + 1]) /\ t[n + 1][i] = below[i] /\ below[i] \in Elements
        BY <1>1, <1>2, <1>3, <1>6
    <3> QED
        BY <3>1 DEF Waiting
  <2>5. ToSet(below) \subseteq Waiting(t)
      BY <2>1, <2>4
  <2> QED
      BY <2>2, <2>3, <2>5
<1> QED
    BY <1>1, <1>3, <1>7, <1>8 DEF t

\* What the walk has listed is in order and before all that waits, what is gone turned before it, and each
\* element to list is listed, or gone, or below one that waits, or left out below the last level.
Reached(n) ==
  \/ \E i \in 1..Len(found) : found[i] = n
  \/ \E v \in vanished : Above(v, n)
  \/ \E m \in Waiting(stack) : Above(m, n)
  \/ clipped /\ bounds.depth < Len(n)
WalkStates == {"yes", "no", "listed", "failed", "marked"}
WalkTypes ==
  /\ bounds \in [limit : Limits, depth : Depths, visits : Visits] /\ visited \in Nat /\ visited <= bounds.visits
  /\ clipped \in BOOLEAN /\ walking \in WalkStates /\ cut \in {"", "visits", "time", "limit", "depth"}
  /\ found \in Seq(Elements) /\ Len(found) <= bounds.limit /\ vanished \subseteq Elements
  /\ refless \subseteq Elements /\ (walking # "listed" => refless = {})
StackPart == StackInv(stack) /\ Len(stack) <= bounds.depth
FoundPart ==
  /\ \A i, j \in 1..Len(found) : i < j => Precedes(found[i], found[j])
  /\ \A i \in 1..Len(found) : Interactive(found[i])
  /\ \A i \in 1..Len(found) : \A m \in Waiting(stack) : Precedes(found[i], m)
GonePart ==
  /\ \A v \in vanished : \A m \in Waiting(stack) : TurnsBefore(v, m)
  /\ \A v \in vanished : \A i \in 1..Len(found) : ~Above(v, found[i])
ReachedPart == walking \in {"yes", "no", "listed"} => \A n \in Elements : Interactive(n) => Reached(n)
StoppedPart == walking \in {"no", "listed"} /\ cut = "" => stack = <<>> /\ ~clipped
WalkInv == WalkTypes /\ StackPart /\ FoundPart /\ GonePart /\ ReachedPart /\ StoppedPart

LEMMA PathsAreSequences == \A n \in Elements : n \in Seq(Nat) /\ n # <<>>
BY ListAssumption

LEMMA WalkStarts == ListInit => WalkInv
<1> SUFFICES ASSUME ListInit  PROVE WalkInv
    OBVIOUS
<1>0. PICK limit \in Limits : \E depth \in Depths, visits \in Visits, read \in Readings :
        ListIdle([limit |-> limit, depth |-> depth, visits |-> visits], read, "yes")
    BY DEF ListInit
<1>1. PICK depth \in Depths : \E visits \in Visits, read \in Readings :
        ListIdle([limit |-> limit, depth |-> depth, visits |-> visits], read, "yes")
    BY <1>0
<1>2. PICK visits \in Visits : \E read \in Readings :
        ListIdle([limit |-> limit, depth |-> depth, visits |-> visits], read, "yes")
    BY <1>1
<1>3. /\ bounds = [limit |-> limit, depth |-> depth, visits |-> visits] /\ walking = "yes"
      /\ stack = <<Children(<<>>)>> /\ found = <<>> /\ visited = 0 /\ clipped = FALSE
      /\ cut = "" /\ vanished = {} /\ refless = {}
    BY <1>2 DEF ListIdle
<1>4. limit \in Nat /\ depth \in Nat \ {0} /\ visits \in Nat
    BY ListAssumption
<1>5. Len(found) = 0 /\ found \in Seq(Elements) /\ \A i : i \notin 1..0
  <2>1. Len(<<>>) = 0 /\ <<>> \in Seq(Elements) /\ \A i : i \notin 1..0
      OBVIOUS
  <2> QED
      BY <1>3, <2>1
<1>6. WalkTypes
  <2>1. bounds \in [limit : Limits, depth : Depths, visits : Visits] /\ bounds.limit = limit /\ bounds.visits = visits
      BY <1>3
  <2>2. 0 \in Nat /\ 0 <= limit /\ 0 <= visits
      BY <1>4
  <2> QED
      BY <1>3, <1>5, <2>1, <2>2 DEF WalkTypes, WalkStates
<1>7. StackInv(stack) /\ Len(stack) = 1 /\ Waiting(stack) = ToSet(Children(<<>>))
  <2> DEFINE none == <<>>
  <2>1. none \in Seq(Seq(Elements)) /\ Len(none) = 0 /\ none = <<>>
      OBVIOUS
  <2>2. StackInv(none) /\ Waiting(none) = {}
    <3> HIDE DEF none
    <3> QED
        BY <2>1, <1>5 DEF StackInv, Waiting
  <2> DEFINE top == Children(<<>>)
  <2>3. stack = <<top>>
      BY <1>3
  <2> HIDE DEF top
  <2>6. Append(<<>>, top) = <<top>> /\ none = <<>>
      OBVIOUS
  <2> HIDE DEF none
  <2>4. /\ top \in {<<>>, Children(<<>>)} /\ <<>> \in Elements \cup {<<>>} /\ Len(<<>>) = 0
      BY DEF top
  <2>5. /\ StackInv(Append(none, top)) /\ Len(Append(none, top)) = Len(none) + 1
        /\ Waiting(Append(none, top)) = Waiting(none) \cup ToSet(top)
      BY <2>1, <2>2, <2>4, StackGrows
  <2> QED
    <3>1. stack = Append(none, top)
        BY <2>3, <2>6
    <3> QED
        BY ONLY <2>1, <2>2, <2>5, <3>1, 0 + 1 = 1, {} \cup ToSet(top) = ToSet(top) DEF top
<1>8. StackPart
  <2>1. bounds.depth = depth /\ 1 <= depth /\ depth \in Nat
    <3>1. bounds.depth = depth
        BY <1>3
    <3>2. 1 <= depth /\ depth \in Nat
        BY <1>4
    <3> QED
        BY <3>1, <3>2
  <2> QED
      BY <1>7, <2>1 DEF StackPart
<1>9. FoundPart /\ GonePart /\ StoppedPart
    BY <1>3, <1>5 DEF FoundPart, GonePart, StoppedPart
<1>10. ReachedPart
  <2> SUFFICES ASSUME NEW n \in Elements  PROVE \E m \in Waiting(stack) : Above(m, n)
      BY DEF ReachedPart, Reached
  <2>1. Len(<<>>) = 0 /\ <<>> # n /\ Len(n) \in Nat
      BY ListAssumption
  <2>2. Above(<<>>, n)
      BY <1>5, <2>1 DEF Above
  <2>3. PICK i \in 1..Len(Children(<<>>)) : Above(Children(<<>>)[i], n)
      BY <2>1, <2>2, BelowByChild
  <2>4. Children(<<>>)[i] \in ToSet(Children(<<>>))
    <3>1. Children(<<>>) \in Seq(Elements)
        BY ListAssumption
    <3> QED
        BY <3>1 DEF ToSet
  <2> QED
      BY <1>7, <2>3, <2>4
<1> QED
    BY <1>6, <1>8, <1>9, <1>10 DEF WalkInv

\* A step that leaves the lists and what waits alone keeps all that is said of them.
LEMMA WalkRests ==
  ASSUME WalkInv, UNCHANGED <<bounds, found, clipped, vanished, refless>>, StackInv(stack'),
         walking # "listed", walking' # "listed", walking' \in {"yes", "no"} => walking \in {"yes", "no"}, Len(stack') <= Len(stack),
         Len(stack') \in Nat, Waiting(stack') = Waiting(stack), visited' \in Nat, visited' <= bounds.visits,
         walking' \in WalkStates, cut' \in {"", "visits", "time", "limit", "depth"}, StoppedPart'
  PROVE  WalkInv'
<1>1. WalkTypes'
    BY DEF WalkInv, WalkTypes
<1>2. StackPart'
  <2>1. bounds.depth \in Nat
      BY ListAssumption DEF WalkInv, WalkTypes
  <2>2. stack \in Seq(Seq(Elements)) /\ Len(stack) <= bounds.depth
      BY DEF WalkInv, StackPart, StackInv
  <2>3. Len(stack) \in Nat
      BY <2>2, AnyLen
  <2>4. Len(stack') <= bounds.depth
      BY <2>1, <2>2, <2>3, AtMostTrans
  <2> QED
      BY <2>4 DEF StackPart
<1>3. FoundPart' /\ GonePart' /\ ReachedPart'
    BY DEF WalkInv, FoundPart, GonePart, ReachedPart, Reached
<1> QED
    BY <1>1, <1>2, <1>3 DEF WalkInv

\* What a visit has at hand: the element comes after all that is listed or gone and before all that still waits.
LEMMA AtHand ==
  ASSUME WalkInv, AtElement
  PROVE  /\ StackInv(Advance) /\ Len(Advance) = Len(stack) /\ Len(stack) \in Nat \ {0}
         /\ NextElement \in Elements /\ Len(NextElement) = Len(stack)
         /\ Waiting(stack) = Waiting(Advance) \cup {NextElement}
         /\ \A m \in Waiting(Advance) : TurnsBefore(NextElement, m)
         /\ \A i \in 1..Len(found) : Precedes(found[i], NextElement)
         /\ \A v \in vanished : TurnsBefore(v, NextElement)
         /\ bounds.depth \in Nat /\ bounds.limit \in Nat /\ bounds.visits \in Nat
<1>1. StackInv(stack) /\ stack # <<>> /\ stack[Len(stack)] # <<>>
    BY DEF WalkInv, StackPart, AtElement
<1>2. /\ StackInv(Advance) /\ Len(Advance) = Len(stack) /\ NextElement \in Elements /\ Len(NextElement) = Len(stack)
      /\ Waiting(stack) = Waiting(Advance) \cup {NextElement}
      /\ \A m \in Waiting(Advance) : TurnsBefore(NextElement, m)
    BY <1>1, StackAdvances
<1>3. Len(stack) \in Nat \ {0}
    BY <1>1 DEF StackInv
<1>4. NextElement \in Waiting(stack)
    BY <1>2
<1>5. /\ \A i \in 1..Len(found) : Precedes(found[i], NextElement)
      /\ \A v \in vanished : TurnsBefore(v, NextElement)
    BY <1>4 DEF WalkInv, FoundPart, GonePart
<1>6. bounds.depth \in Nat /\ bounds.limit \in Nat /\ bounds.visits \in Nat
    BY ListAssumption DEF WalkInv, WalkTypes
<1> QED
    BY <1>2, <1>3, <1>5, <1>6

\* The element at hand is gone, or it is listed or passed by and its children wait, are gone, or are left out.
LEMMA WalkVisits ==
  ASSUME WalkInv, Visit, UNCHANGED <<bounds, refless>>  PROVE WalkInv'
<1> DEFINE h == NextElement
           s == Advance
           kept == ToSet(Children(h))
<1>0. AtElement /\ ~LimitReached /\ visited < bounds.visits /\ walking = "yes"
    BY DEF Visit, CanVisit, AtElement
<1>1. /\ StackInv(s) /\ Len(s) = Len(stack) /\ Len(stack) \in Nat \ {0}
      /\ h \in Elements /\ Len(h) = Len(stack)
      /\ Waiting(stack) = Waiting(s) \cup {h}
      /\ \A m \in Waiting(s) : TurnsBefore(h, m)
      /\ \A i \in 1..Len(found) : Precedes(found[i], h)
      /\ \A v \in vanished : TurnsBefore(v, h)
      /\ bounds.depth \in Nat /\ bounds.limit \in Nat /\ bounds.visits \in Nat
    BY <1>0, AtHand
<1>2. /\ visited' = visited + 1 /\ UNCHANGED <<bounds, cut, walking, refless>>
      /\ found' = IF Interactive(h) THEN Append(found, h) ELSE found
    BY DEF Visit
<1>3. PICK below \in {<<>>, Children(h)} :
        /\ Descend(h, below)
        /\ \/ below = Children(h) /\ vanished' = vanished
           \/ below = <<>> /\ vanished' = vanished \cup kept
    BY DEF Visit
<1> HIDE DEF h, s, kept
\* The children.
<1>4. /\ Children(h) \in Seq(Elements) /\ kept = {Children(h)[i] : i \in 1..Len(Children(h))} /\ kept \subseteq Elements
      /\ \A c \in kept : Len(c) = Len(h) + 1 /\ Above(h, c) /\ Precedes(h, c)
      /\ \A c \in kept, m \in Elements :
           (TurnsBefore(h, m) => TurnsBefore(c, m)) /\ (Above(c, m) => Above(h, m))
  <2>1. Children(h) \in Seq(Elements)
      BY <1>1, ChildrenInOrder
  <2>2. kept = {Children(h)[i] : i \in 1..Len(Children(h))}
      BY <2>1 DEF kept, ToSet
  <2>3. /\ \A i \in 1..Len(Children(h)) :
             /\ Children(h)[i] \in Elements /\ Len(Children(h)[i]) = Len(h) + 1 /\ Above(h, Children(h)[i])
             /\ Precedes(h, Children(h)[i])
             /\ \A m \in Elements : (TurnsBefore(h, m) => TurnsBefore(Children(h)[i], m))
                                   /\ (Above(Children(h)[i], m) => Above(h, m))
    <3>1. h \in Elements \cup {<<>>} /\ Children(h) \in {<<>>, Children(h)}
        BY <1>1
    <3> QED
        BY <3>1, ChildrenInOrder
  <2>4. \A c \in kept : \E i \in 1..Len(Children(h)) : c = Children(h)[i]
      BY <2>2
  <2> QED
      BY <2>1, <2>2, <2>3, <2>4
<1>5. below \in Seq(Elements) /\ ToSet(below) \subseteq kept /\ (below = <<>> => ToSet(below) = {})
  <2>1. ToSet(<<>>) = {} /\ <<>> \in Seq(Elements)
      BY DEF ToSet
  <2> QED
      BY <1>3, <1>4, <2>1 DEF kept
<1>6. \A m \in Waiting(stack) : m \in Elements
    BY DEF Waiting
<1>7. /\ found \in Seq(Elements) /\ Len(found) \in Nat /\ \A i \in 1..Len(found) : found[i] \in Elements
      /\ vanished \subseteq Elements
  <2>1. found \in Seq(Elements) /\ vanished \subseteq Elements
      BY DEF WalkInv, WalkTypes
  <2> QED
      BY <2>1, AnyLen, AnyItem
\* The stack, what is new on it, and what of below is not.
<1>8. PICK new \in {{}, ToSet(below)} :
        /\ StackInv(stack') /\ Len(stack') <= bounds.depth /\ Waiting(stack') = Waiting(s) \cup new
        /\ clipped => clipped'
        /\ clipped' \in BOOLEAN
        /\ \A c \in ToSet(below) : c \in new \/ (clipped' /\ bounds.depth <= Len(h))
  <2>0. clipped \in BOOLEAN /\ Len(stack) <= bounds.depth
      BY DEF WalkInv, WalkTypes, StackPart
  <2>1. CASE Len(stack) < bounds.depth
    <3>1. stack' = Append(s, below) /\ clipped' = clipped
        BY <1>3, <2>1 DEF Descend, s
    <3>2. /\ StackInv(Append(s, below)) /\ Len(Append(s, below)) = Len(s) + 1
          /\ Waiting(Append(s, below)) = Waiting(s) \cup ToSet(below)
        BY <1>1, <1>3, StackGrows
    <3>3. Len(stack') <= bounds.depth
        BY <1>1, <2>1, <3>1, <3>2
    <3> QED
        BY <2>0, <3>1, <3>2, <3>3
  <2>2. CASE ~(Len(stack) < bounds.depth)
    <3>1. stack' = s /\ clipped' = (clipped \/ below # <<>>)
        BY <1>3, <2>2 DEF Descend, s
    <3>2. bounds.depth <= Len(h) /\ Len(stack') <= bounds.depth
        BY <1>1, <2>0, <2>2, <3>1
    <3>3. \A c \in ToSet(below) : below # <<>>
        BY <1>5
    <3> QED
        BY <1>1, <2>0, <3>1, <3>2, <3>3
  <2> QED
      BY <2>1, <2>2
<1>9. new \subseteq kept /\ new \subseteq Elements
    BY <1>4, <1>5, <1>8
\* The list.
<1>10. /\ found' \in Seq(Elements) /\ Len(found') \in Nat /\ Len(found') <= bounds.limit
       /\ \A i \in 1..Len(found') : \/ i \in 1..Len(found) /\ found'[i] = found[i]
                                    \/ i = Len(found') /\ i = Len(found) + 1 /\ found'[i] = h /\ Interactive(h)
       /\ \A i \in 1..Len(found) : i \in 1..Len(found') /\ found'[i] = found[i]
       /\ Interactive(h) => Len(found') \in 1..Len(found') /\ found'[Len(found')] = h
  <2>1. CASE Interactive(h)
    <3>1. found' = Append(found, h)
        BY <1>2, <2>1
    <3>2. /\ found' \in Seq(Elements) /\ Len(found') = Len(found) + 1 /\ found'[Len(found) + 1] = h
          /\ \A i \in 1..Len(found) : found'[i] = found[i]
        BY <1>1, <1>7, <3>1
    <3>3. ~(Len(found) >= bounds.limit)
        BY <1>0, <2>1 DEF LimitReached, CanVisit, h
    <3>4. Len(found) + 1 <= bounds.limit
        BY <1>1, <1>7, <3>3
    <3>5. \A i \in 1..(Len(found) + 1) : i \in 1..Len(found) \/ i = Len(found) + 1
        BY <1>7
    <3> QED
        BY <1>7, <2>1, <3>2, <3>4, <3>5
  <2>2. CASE ~Interactive(h)
      BY <1>2, <1>7, <2>2 DEF WalkInv, WalkTypes
  <2> QED
      BY <2>1, <2>2
<1>11. WalkTypes'
  <2>1. visited \in Nat /\ vanished' \subseteq Elements
      BY <1>3, <1>4, <1>7 DEF WalkInv, WalkTypes
  <2>2. visited' \in Nat /\ visited' <= bounds.visits
      BY <1>0, <1>1, <1>2, <2>1
  <2> QED
      BY <1>2, <1>8, <1>10, <2>1, <2>2 DEF WalkInv, WalkTypes
<1>12. StackPart'
    BY <1>2, <1>8 DEF StackPart
<1>13. FoundPart'
  <2>1. ASSUME NEW i \in 1..Len(found'), NEW j \in 1..Len(found'), i < j  PROVE Precedes(found'[i], found'[j])
    <3>1. i \in 1..Len(found) /\ found'[i] = found[i]
        BY <1>7, <1>10, <2>1
    <3>2. CASE j \in 1..Len(found) /\ found'[j] = found[j]
        BY <2>1, <3>1, <3>2 DEF WalkInv, FoundPart
    <3>3. CASE found'[j] = h
        BY <1>1, <3>1, <3>3
    <3> QED
        BY <1>10, <3>2, <3>3
  <2>2. ASSUME NEW i \in 1..Len(found')  PROVE Interactive(found'[i])
      BY <1>10 DEF WalkInv, FoundPart
  <2>3. ASSUME NEW i \in 1..Len(found'), NEW m \in Waiting(stack')  PROVE Precedes(found'[i], m)
    <3>1. m \in Waiting(s) \/ m \in new
        BY <1>8
    <3>2. m \in Waiting(s) => Precedes(h, m) /\ m \in Waiting(stack)
        BY <1>1 DEF Precedes
    <3>3. m \in new => Precedes(h, m) /\ Above(h, m) /\ m \in Elements
        BY <1>4, <1>9
    <3>4. CASE found'[i] = h
        BY <3>1, <3>2, <3>3, <3>4
    <3>5. CASE i \in 1..Len(found) /\ found'[i] = found[i]
      <4>1. CASE m \in Waiting(s)
          BY <3>2, <3>5, <4>1 DEF WalkInv, FoundPart
      <4>2. CASE m \in new
          BY <1>1, <1>7, <3>3, <3>5, <4>2, PrecedesOn, PathsAreSequences
      <4> QED
          BY <3>1, <4>1, <4>2
    <3> QED
        BY <1>10, <3>4, <3>5
  <2> QED
      BY <2>1, <2>2, <2>3 DEF FoundPart
<1>14. GonePart'
  <2>1. ASSUME NEW v \in vanished', NEW m \in Waiting(stack')  PROVE TurnsBefore(v, m)
    <3>1. CASE v \in vanished /\ m \in Waiting(s)
        BY <1>1, <3>1 DEF WalkInv, GonePart
    <3>2. CASE v \in vanished /\ m \in new
      <4>1. TurnsBefore(v, h) /\ Above(h, m)
          BY <1>1, <1>4, <1>9, <3>2
      <4> QED
          BY <1>1, <1>7, <1>9, <3>2, <4>1, TurnsOn, PathsAreSequences
    <3>3. CASE below = <<>> /\ v \in kept
      <4>1. m \in Waiting(s) /\ m \in Elements
          BY <1>1, <1>5, <1>6, <1>8, <3>3
      <4> QED
          BY <1>1, <1>4, <3>3, <4>1
    <3> QED
        BY <1>3, <1>8, <3>1, <3>2, <3>3
  <2>2. ASSUME NEW v \in vanished', NEW i \in 1..Len(found')  PROVE ~Above(v, found'[i])
    <3>1. CASE v \in vanished /\ i \in 1..Len(found) /\ found'[i] = found[i]
        BY <3>1 DEF WalkInv, GonePart
    <3>2. CASE v \in vanished /\ found'[i] = h
        BY <1>1, <1>7, <3>2, PrecedesStrict, PathsAreSequences
    <3>3. CASE v \in kept /\ found'[i] = h
        BY <1>1, <1>4, <3>3, PrecedesStrict, PathsAreSequences
    <3>4. CASE v \in kept /\ i \in 1..Len(found) /\ found'[i] = found[i]
      <4>1. ~Above(h, found[i])
          BY <1>1, <1>7, <3>4, PrecedesStrict, PathsAreSequences
      <4> QED
          BY <1>4, <1>7, <3>4, <4>1
    <3> QED
        BY <1>3, <1>10, <3>1, <3>2, <3>3, <3>4
  <2> QED
      BY <2>1, <2>2 DEF GonePart
<1>15. ReachedPart'
  <2> SUFFICES ASSUME NEW n \in Elements, Interactive(n)  PROVE Reached(n)'
      BY DEF ReachedPart
  <2>1. Reached(n)
      BY <1>0 DEF WalkInv, ReachedPart
  <2>2. CASE \E i \in 1..Len(found) : found[i] = n
      BY <1>10, <2>2 DEF Reached
  <2>3. CASE \E v \in vanished : Above(v, n)
      BY <1>3, <2>3 DEF Reached
  <2>4. CASE \E m \in Waiting(s) : Above(m, n)
      BY <1>8, <2>4 DEF Reached
  <2>5. CASE clipped /\ bounds.depth < Len(n)
      BY <1>2, <1>8, <2>5 DEF Reached
  <2>6. CASE Above(h, n)
    <3>1. CASE h = n
        BY <1>10, <3>1 DEF Reached
    <3>2. CASE \E c \in kept : Above(c, n)
      <4>1. PICK c \in kept : Above(c, n)
          BY <3>2
      <4>2. CASE c \in vanished'
          BY <4>1, <4>2 DEF Reached
      <4>3. CASE c \in new
          BY <1>8, <4>1, <4>3 DEF Reached
      <4>4. CASE clipped' /\ bounds.depth <= Len(h)
        <5>1. Len(c) <= Len(n) /\ Len(c) = Len(h) + 1
            BY <1>4, <4>1 DEF Above
        <5>2. Len(n) \in Nat
            BY AnyLen, PathsAreSequences
        <5>3. bounds.depth < Len(n)
            BY <1>1, <4>4, <5>1, <5>2
        <5> QED
            BY <1>2, <4>4, <5>3 DEF Reached
      <4>5. c \in ToSet(below) \/ c \in vanished'
          BY <1>3, <4>1 DEF kept
      <4> QED
          BY <1>8, <4>2, <4>3, <4>4, <4>5
    <3> QED
        BY <1>1, <1>4, <2>6, <3>1, <3>2, BelowByChild
  <2> QED
      BY <1>1, <2>1, <2>2, <2>3, <2>4, <2>5, <2>6 DEF Reached
<1>16. StoppedPart'
    BY <1>0, <1>2 DEF StoppedPart
<1> QED
    BY <1>11, <1>12, <1>13, <1>14, <1>15, <1>16 DEF WalkInv

LEMMA WalkGoesOn ==
  ASSUME WalkInv, ListNext  PROVE WalkInv'
<1>t. /\ stack \in Seq(Seq(Elements)) /\ Len(stack) \in Nat /\ StackInv(stack) /\ visited \in Nat
      /\ visited <= bounds.visits /\ bounds.visits \in Nat /\ cut \in {"", "visits", "time", "limit", "depth"}
      /\ walking \in WalkStates /\ StoppedPart
  <2>1. StackInv(stack) /\ stack \in Seq(Seq(Elements)) /\ Len(stack) \in Nat
      BY AnyLen DEF WalkInv, StackPart, StackInv
  <2>2. bounds.visits \in Nat
      BY ListAssumption DEF WalkInv, WalkTypes
  <2> QED
      BY <2>1, <2>2 DEF WalkInv, WalkTypes
<1>n. visited \in Nat /\ bounds.visits \in Nat /\ visited <= bounds.visits
    BY <1>t
<1>0. Len(stack) <= Len(stack) /\ UNCHANGED <<bounds, words>>
  <2>1. Len(stack) \in Nat
      BY <1>t
  <2> QED
      BY <2>1 DEF ListNext
\* The steps that leave the stack, the list and what is gone as they are.
<1>1. ASSUME UNCHANGED <<stack, found, clipped, vanished, refless>>, visited' \in Nat,
             walking # "listed", walking' # "listed", walking' \in {"yes", "no"} => walking \in {"yes", "no"}, visited' <= bounds.visits,
             walking' \in WalkStates, cut' \in {"", "visits", "time", "limit", "depth"}, StoppedPart'
      PROVE  WalkInv'
    BY <1>t, <1>0, <1>1, WalkRests
<1>2. CASE EndBranch /\ UNCHANGED refless
  <2>1. stack # <<>> /\ stack[Len(stack)] = <<>> /\ stack' = Front(stack) /\ walking = "yes"
        /\ UNCHANGED <<found, visited, clipped, cut, vanished, walking, refless>>
      BY <1>2 DEF EndBranch
  <2>2. StackInv(stack') /\ Waiting(stack') = Waiting(stack) /\ Len(stack') < Len(stack) /\ Len(stack') \in Nat
      BY <1>t, <2>1, StackShrinks
  <2>3. Len(stack') <= Len(stack)
    <3>1. Len(stack') < Len(stack) /\ Len(stack') \in Nat /\ Len(stack) \in Nat
        BY <1>t, <2>2
    <3> QED
        BY <3>1
  <2>4. StoppedPart'
      BY <2>1 DEF StoppedPart
  <2> QED
      BY <1>t, <1>0, <2>1, <2>2, <2>3, <2>4, WalkRests
<1>3. CASE TooMany /\ UNCHANGED refless
    BY <1>t, <1>0, <1>1, <1>3 DEF TooMany, AtElement, StopWalk, StoppedPart, WalkStates
<1>4. CASE OutOfTime /\ UNCHANGED refless
    BY <1>t, <1>0, <1>1, <1>4 DEF OutOfTime, AtElement, StopWalk, StoppedPart, WalkStates
<1>5. CASE Vanished /\ UNCHANGED refless
  <2> DEFINE h == NextElement
             s == Advance
  <2>1. AtElement /\ visited < bounds.visits /\ visited' = visited + 1 /\ stack' = s /\ vanished' = vanished \cup {h}
        /\ UNCHANGED <<bounds, found, clipped, cut, walking, refless>> /\ walking = "yes"
      BY <1>0, <1>5 DEF Vanished, CanVisit, AtElement
  <2>2. /\ StackInv(s) /\ Len(s) = Len(stack) /\ h \in Elements
        /\ Waiting(stack) = Waiting(s) \cup {h}
        /\ \A m \in Waiting(s) : TurnsBefore(h, m)
        /\ \A i \in 1..Len(found) : Precedes(found[i], h)
      BY <2>1, AtHand
  <2> HIDE DEF h, s
  <2>3. WalkTypes'
    <3>1. visited' \in Nat /\ visited' <= bounds.visits
        BY <1>n, <2>1
    <3> QED
        BY <2>1, <2>2, <3>1 DEF WalkInv, WalkTypes
  <2>4. StackPart' /\ FoundPart' /\ StoppedPart'
      BY <2>1, <2>2 DEF WalkInv, StackPart, FoundPart, StoppedPart
  <2>5. GonePart'
    <3>1. \A i \in 1..Len(found) : found[i] \in Elements
        BY AnyItem DEF WalkInv, WalkTypes
    <3>2. \A i \in 1..Len(found) : ~Above(h, found[i])
        BY <2>2, <3>1, PrecedesStrict, PathsAreSequences
    <3> QED
        BY <2>1, <2>2, <3>2 DEF WalkInv, GonePart
  <2>6. ReachedPart'
      BY <2>1, <2>2 DEF WalkInv, ReachedPart, Reached
  <2> QED
      BY <2>3, <2>4, <2>5, <2>6 DEF WalkInv
<1>6. CASE TooLong /\ UNCHANGED refless
  <2>1. visited' \in Nat /\ visited' <= bounds.visits
      BY <1>n, <1>6 DEF TooLong, LimitReached, CanVisit
  <2> QED
      BY <1>1, <1>6, <2>1 DEF TooLong, LimitReached, CanVisit, AtElement, StoppedPart, WalkStates
<1>7. CASE Visit /\ UNCHANGED refless
    BY <1>0, <1>7, WalkVisits
<1>8. CASE EndWalk /\ UNCHANGED refless
  <2>1. clipped \in BOOLEAN
      BY DEF WalkInv, WalkTypes
  <2> QED
      BY <1>t, <1>0, <1>1, <1>8, <2>1 DEF EndWalk, StoppedPart, WalkStates
<1>9. CASE Mark
    BY <1>t, <1>0, <1>1, <1>9 DEF Mark, StoppedPart, WalkStates
<1>10. CASE Publish
  <2>1. /\ UNCHANGED <<bounds, stack, found, visited, clipped, cut, vanished>>
        /\ walking = "no" /\ walking' = "listed" /\ refless' \subseteq ToSet(found)
      BY <1>0, <1>10 DEF Publish
  <2>2. ToSet(found) \subseteq Elements
    <3>1. found \in Seq(Elements)
        BY DEF WalkInv, WalkTypes
    <3> QED
        BY <3>1 DEF ToSet
  <2> QED
      BY <2>1, <2>2 DEF WalkInv, WalkTypes, StackPart, FoundPart, GonePart, ReachedPart, Reached, StoppedPart, WalkStates
<1>11. CASE NotRead
  <2>1. /\ UNCHANGED <<bounds, stack, visited, clipped, cut, vanished, refless>>
        /\ walking = "yes" /\ walking' = "failed" /\ found' = <<>>
      BY <1>0, <1>11 DEF NotRead
  <2>2. Len(found') = 0 /\ found' \in Seq(Elements) /\ \A i : i \notin 1..0
    <3>1. Len(<<>>) = 0 /\ <<>> \in Seq(Elements) /\ \A i : i \notin 1..0
        OBVIOUS
    <3> QED
        BY <2>1, <3>1
  <2>3. bounds.limit \in Nat /\ 0 <= bounds.limit
    <3>1. bounds.limit \in Nat
        BY ListAssumption DEF WalkInv, WalkTypes
    <3> QED
        BY <3>1
  <2>4. WalkTypes'
      BY <2>1, <2>2, <2>3 DEF WalkInv, WalkTypes, WalkStates
  <2>5. (FoundPart /\ GonePart /\ ReachedPart /\ StoppedPart)'
    <3>1. GonePart'
        BY <2>1, <2>2 DEF WalkInv, GonePart
    <3> QED
        BY <2>1, <2>2, <3>1 DEF FoundPart, ReachedPart, StoppedPart
  <2> QED
      BY <2>1, <2>4, <2>5 DEF WalkInv, StackPart
<1>12. CASE WalkStep /\ UNCHANGED refless
    BY <1>2, <1>3, <1>4, <1>5, <1>6, <1>7, <1>8, <1>12 DEF WalkStep
<1> QED
    BY <1>9, <1>10, <1>11, <1>12 DEF ListNext

LEMMA WalkStays == ASSUME WalkInv, UNCHANGED listVars  PROVE WalkInv'
BY DEF listVars, WalkInv, WalkTypes, StackPart, FoundPart, GonePart, ReachedPart, Reached, StoppedPart

\* Gone as the property says it, path by path.
LEMMA GoneAbove ==
  ASSUME WalkInv, NEW n \in Elements  PROVE Gone(n) <=> \E v \in vanished : Above(v, n)
<1>1. n \in Seq(Nat) /\ vanished \subseteq Elements
    BY PathsAreSequences DEF WalkInv, WalkTypes
<1>2. Len(n) \in Nat
    BY <1>1, AnyLen
<1>3. ASSUME NEW k \in 1..Len(n), SubSeq(n, 1, k) \in vanished  PROVE \E v \in vanished : Above(v, n)
  <2>1. Above(SubSeq(n, 1, k), n)
      BY <1>1, <1>2, <1>3 DEF Above
  <2> QED
      BY <1>3, <2>1
<1>4. ASSUME NEW v \in vanished, Above(v, n)  PROVE \E k \in 1..Len(n) : SubSeq(n, 1, k) \in vanished
  <2>1. v \in Seq(Nat) /\ v # <<>>
      BY <1>1, PathsAreSequences
  <2>2. PICK k \in Nat : Len(v) = k + 1
      BY <2>1, SomeLen
  <2>3. k + 1 \in 1..Len(n) /\ \A i \in 1..(k + 1) : v[i] = n[i]
      BY <1>2, <1>4, <2>2 DEF Above
  <2>4. SubSeq(n, 1, k + 1) = [i \in 1..(k + 1) |-> n[i]] /\ v = [i \in 1..(k + 1) |-> v[i]]
      BY <1>1, <2>1, <2>2, <2>3
  <2>5. SubSeq(n, 1, k + 1) = v
      BY <2>3, <2>4
  <2> QED
      BY <1>4, <2>3, <2>5
<1> QED
    BY <1>3, <1>4 DEF Gone

LEMMA WalkInvTells == ASSUME WalkInv PROVE ListTypeOK /\ WalkTellsAll
<1>1. ListTypeOK
    BY DEF WalkInv, WalkTypes, WalkStates, StackPart, ListTypeOK
<1>2. ASSUME walking \in {"no", "listed"}
      PROVE  /\ \A i, j \in DOMAIN found : i < j => Earlier(found[i], found[j])
             /\ \A i \in DOMAIN found, n \in There :
                  Earlier(n, found[i]) /\ Len(n) <= bounds.depth => n \in ToSet(found)
             /\ cut = "" => InReply = There \ refless
  <2>1. found \in Seq(Elements) /\ DOMAIN found = 1..Len(found)
    <3>1. found \in Seq(Elements)
        BY DEF WalkInv, WalkTypes
    <3> QED
        BY <3>1
  <2>2. /\ \A i \in 1..Len(found) : found[i] \in Elements /\ found[i] \in Seq(Nat)
        /\ ToSet(found) = {found[i] : i \in 1..Len(found)}
      BY <2>1, AnyItem, PathsAreSequences DEF ToSet
  <2>3. \A i, j \in 1..Len(found) : i < j => Earlier(found[i], found[j])
      BY <2>2, EarlierPrecedes DEF WalkInv, FoundPart
  <2>4. \A n \in There : n \in Elements /\ n \in Seq(Nat) /\ Reached(n) /\ ~ \E v \in vanished : Above(v, n)
      BY <1>2, GoneAbove, PathsAreSequences DEF There, WalkInv, ReachedPart
  <2>5. bounds.depth \in Nat
      BY ListAssumption DEF WalkInv, WalkTypes
  <2>6. ASSUME NEW i \in 1..Len(found), NEW n \in There, Earlier(n, found[i]), Len(n) <= bounds.depth
        PROVE  n \in ToSet(found)
    <3>1. Precedes(n, found[i])
        BY <2>2, <2>4, <2>6, EarlierPrecedes
    <3>2. ~(bounds.depth < Len(n))
      <4>1. Len(n) \in Nat
          BY <2>4, AnyLen
      <4> QED
          BY <2>5, <2>6, <4>1
    <3>3. ASSUME NEW m \in Waiting(stack), Above(m, n)  PROVE FALSE
      <4>1. m \in Seq(Nat) /\ Precedes(found[i], m)
          BY PathsAreSequences DEF Waiting, WalkInv, FoundPart
      <4>2. Precedes(found[i], n)
          BY <2>2, <2>4, <3>3, <4>1, PrecedesOn
      <4> QED
          BY <2>2, <2>4, <3>1, <4>2, PrecedesStrict
    <3> QED
        BY <2>2, <2>4, <3>2, <3>3 DEF Reached
  <2>7. ASSUME cut = ""  PROVE InReply = There \ refless
    <3>1. stack = <<>> /\ ~clipped
        BY <1>2, <2>7 DEF WalkInv, StoppedPart
    <3>2. Waiting(stack) = {}
      <4>1. Len(<<>>) = 0 /\ \A k : k \notin 1..0
          OBVIOUS
      <4> QED
          BY <3>1, <4>1 DEF Waiting
    <3>3. There \subseteq ToSet(found)
        BY <2>2, <2>4, <3>1, <3>2 DEF Reached
    <3>4. \A i \in 1..Len(found) : found[i] \in There
        BY <2>2, GoneAbove DEF There, WalkInv, FoundPart, GonePart
    <3> QED
        BY <2>2, <3>3, <3>4 DEF InReply
  <2> QED
      BY <2>1, <2>3, <2>6, <2>7
<1> QED
    BY <1>1, <1>2 DEF WalkTellsAll

\* Reading an application's elements while they come and go: the walk stays within its bounds, and when it ends
\* what it found is in the order of the tree, without a gap above the last level; a list that gives no reason lacks
\* nothing that could be read, but for elements that can have no ref.
THEOREM WalkComplete == ListSpec => [](ListTypeOK /\ WalkTellsAll)
<1>1. WalkInv /\ [ListNext]_listVars => WalkInv'
    BY WalkGoesOn, WalkStays
<1> QED
    BY WalkStarts, <1>1, WalkInvTells, PTL DEF ListSpec
=============================================================================
