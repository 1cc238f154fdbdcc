---------------------------- MODULE OAuthServer ----------------------------
(* The machine server's OAuth endpoints and the token gate (oauth.py, auth.py): dynamic
   registration, authorisation codes with PKCE (S256), the token exchange, and the middleware that
   admits a request by the configured key or by a live token.  Everything is kept in memory; a
   handler reads its request before it touches the store and awaits nothing after, so it is one
   step.  Codes and tokens die by the clock, but are forgotten only when somebody asks for them. *)
EXTENDS Naturals, FiniteSets

CONSTANTS
  Clients,                        \* client ids: a configured one among them, others dynamic
  Configured,                     \* configured_client_id, or "none"
  NeedsSecret,                    \* whether configured_client_secret is set
  HasKey,                         \* whether the server has an auth key
  Uris, GoodUris,                 \* redirect uris; those allowed_redirect_uri lets through
  CODE_LIFETIME, TOKEN_LIFETIME,
  MaxNow, MaxCodes                \* bounds: the clock, the codes ever handed out

ASSUME OAuthAssumption ==
  /\ GoodUris \subseteq Uris /\ NeedsSecret \in BOOLEAN /\ HasKey \in BOOLEAN
  /\ CODE_LIFETIME \in Nat /\ TOKEN_LIFETIME \in Nat /\ MaxNow \in Nat /\ MaxCodes \in Nat

VARIABLES
  clients,   \* store.clients: by id, the redirect uris and whether it has a secret of its own
  codes,     \* store.codes
  tokens,    \* store.tokens
  issued,    \* codes handed out so far: code k is the k-th
  approved,  \* history: the authorisations behind the codes
  served,    \* what admitted the last request to a protected path, and when
  clock

oauthVars == <<clients, codes, tokens, issued, approved, served, clock>>

Unknown == [known |-> FALSE, uris |-> {}, secret |-> FALSE]

-----------------------------------------------------------------------------
(* POST /oauth/register.  A configured client keeps its id and never gets a secret handed out; a
   dynamic one gets an id of its own, and a secret unless the server has a configured one. *)
RegisterClient(c, uris) ==
  /\ uris # {} /\ uris \subseteq GoodUris
  /\ IF Configured = "none" THEN ~clients[c].known ELSE c = Configured
  /\ clients' = [clients EXCEPT ![c] =
       [known |-> TRUE, uris |-> uris, secret |-> Configured = "none" /\ ~NeedsSecret]]
  /\ UNCHANGED <<codes, tokens, issued, approved, served, clock>>

(* GET /oauth/authorize: every client is approved; an unknown one is registered on the way, unless
   another id is configured.  `verifier` stands for the one its code_challenge was made of. *)
Authorize(c, uri, verifier) ==
  /\ issued < MaxCodes
  /\ uri \in GoodUris
  /\ clients[c].known \/ Configured \in {"none", c}
  /\ clients' = [clients EXCEPT ![c].known = TRUE, ![c].uris = @ \cup {uri}]
  /\ issued' = issued + 1
  /\ codes' = codes \cup {[id |-> issued', client |-> c, uri |-> uri, verifier |-> verifier,
                           expires |-> clock + CODE_LIFETIME]}
  /\ approved' = approved \cup {[id |-> issued', client |-> c, until |-> clock + CODE_LIFETIME]}
  /\ UNCHANGED <<tokens, served, clock>>

-----------------------------------------------------------------------------
(* POST /oauth/token. *)

\* What must match before the code is consumed; an expired code goes, the others stay for another try.
Matches(code, c, uri) == code.client = c /\ code.uri = uri
Fresh(code) == clock <= code.expires

\* Mutant: a client may leave its secret out.
SecretWhenSent(c, secret) == secret # "wrong"
\* A configured secret is required; a dynamic client's own is checked when it is sent.
SecretAccepted(c, secret) ==
  IF NeedsSecret THEN secret = "right"
  ELSE clients[c].known /\ clients[c].secret => secret # "wrong"

\* Mutant: the code stays in the store.
KeptOnFailure(code) == codes
Consumed(code) == codes \ {code}

Exchange(code, c, uri, verifier, secret) ==
  /\ code \in codes
  /\ Matches(code, c, uri)
  /\ \/ ~Fresh(code) /\ codes' = codes \ {code} /\ UNCHANGED tokens
     \/ /\ Fresh(code) /\ code.verifier = verifier
        /\ codes' = Consumed(code)
        /\ IF SecretAccepted(c, secret)
           THEN tokens' = tokens \cup {[code |-> code.id, serial |-> Cardinality(tokens),
                                        client |-> c, proven |-> secret, since |-> clock,
                                        expires |-> clock + TOKEN_LIFETIME]}
           ELSE UNCHANGED tokens
  /\ UNCHANGED <<clients, issued, approved, served, clock>>

-----------------------------------------------------------------------------
(* A request to a protected path: the key, or a token found alive; one found dead is forgotten.
   With neither a key nor OAuth configured there is no gate at all (not modelled: then every
   request is served). *)
\* Mutant: the expiry is not looked at.
TokenFound(t) == TRUE
TokenAlive(t) == clock <= t.expires

Served(by, at, until) == [by |-> by, at |-> at, until |-> until]
Nobody == Served("nobody", 0, 0)

ServeKey == HasKey /\ served' = Served("key", 0, 0) /\ UNCHANGED <<clients, codes, tokens, issued, approved, clock>>
ServeToken ==
  /\ \E t \in tokens :
       IF TokenAlive(t) THEN served' = Served("token", clock, t.expires) /\ UNCHANGED tokens
       ELSE served' = Nobody /\ tokens' = tokens \ {t}
  /\ UNCHANGED <<clients, codes, issued, approved, clock>>
ServeNobody == served' = Nobody /\ UNCHANGED <<clients, codes, tokens, issued, approved, clock>>

TimePasses == clock < MaxNow /\ clock' = clock + 1 /\ UNCHANGED <<clients, codes, tokens, issued, approved, served>>

\* The server restarts: the clients' secrets, the codes and the tokens are gone.
Restart ==
  /\ clients' = [c \in Clients |-> Unknown] /\ codes' = {} /\ tokens' = {}
  /\ served' = Nobody
  /\ UNCHANGED <<issued, approved, clock>>

-----------------------------------------------------------------------------
OAuthIdle(count) ==
  /\ clients = [c \in Clients |-> Unknown] /\ codes = {} /\ tokens = {}
  /\ issued = count /\ approved = {} /\ served = Nobody /\ clock = 0
OAuthInit == OAuthIdle(0)

Verifiers == {"v1", "v2"}
OAuthNext ==
  \/ \E c \in Clients, uris \in SUBSET Uris : RegisterClient(c, uris)
  \/ \E c \in Clients, uri \in Uris, v \in Verifiers : Authorize(c, uri, v)
  \/ \E code \in codes, c \in Clients, uri \in Uris, v \in Verifiers, s \in {"right", "wrong", "none"} :
       Exchange(code, c, uri, v, s)
  \/ ServeKey \/ ServeToken \/ ServeNobody \/ TimePasses \/ Restart
OAuthSpec == OAuthInit /\ [][OAuthNext]_oauthVars

-----------------------------------------------------------------------------
(* The types of the store. *)
OAuthTypeOK ==
  /\ \A c \in Clients : clients[c].uris \subseteq GoodUris
  /\ \A k \in codes : k.id \in 1..issued /\ k.client \in Clients
  /\ served.by \in {"key", "token", "nobody"}
  /\ issued \in 0..MaxCodes /\ clock \in 0..MaxNow

(* Every token stands for one approval of its own: redeemed once, by the client it was approved for,
   before it expired, with the configured secret where there is one; and no request is served on a
   token past its hour. *)
TokensProven ==
  /\ \A t \in tokens :
       /\ \E a \in approved : a.id = t.code /\ a.client = t.client /\ t.since <= a.until
       /\ NeedsSecret => t.proven = "right"
       /\ \A u \in tokens : u.code = t.code => u = t
  /\ served.by = "token" => served.at <= served.until
==============================================================================
