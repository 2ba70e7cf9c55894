--------------------------------- MODULE SignIn ---------------------------------
(***************************************************************************)
(* Signing in: the SSO redirect and callback of src/api/routers/sso.py     *)
(* with its state store and the providers and provisioner of src/auth/sso, *)
(* the password endpoints of src/api/routers/auth.py, and the tokens of    *)
(* src/api/middleware/auth.py.                                             *)
(*                                                                         *)
(* A callback is several awaits: it takes the state from Redis, exchanges  *)
(* the code at the identity provider, looks the user up and writes the     *)
(* row.  The browser may send it twice.  A code is worth one exchange,     *)
(* identities and e-mail addresses are unique in the users table.          *)
(***************************************************************************)
EXTENDS Integers, FiniteSets

CONSTANTS
  Flow,        \* SSO logins
  Reloaded,    \* those whose callback arrives twice
  Person,      \* identities at the provider
  Email,       \* their e-mail address, which several may share
  Registrant,  \* password registrations of one username
  SchemaFits,  \* whether users has the columns that the provisioner writes, and no others
               \* that need a value
  Setups,      \* the deployments to look at, and who logs in
  SignFaults   \* what may fail: of "redis", "provider", "jwks", "pg"

\* What a deployment has: an SSO client, Redis, one with GETDEL, a pool,
\* the local fallback, its secret, and the files of the key pair; the provider
\* that /login is asked for; and the person of each login.
Setup == [client : BOOLEAN, redis : BOOLEAN, getdel : BOOLEAN, pool : BOOLEAN,
          fallback : BOOLEAN, secret : BOOLEAN, private : BOOLEAN, public : BOOLEAN,
          provider : {"keycloak", "dingtalk", "feishu", "other"}, who : [Flow -> Person]]

ASSUME SignAssumption ==
  /\ Setups \subseteq Setup
  /\ Reloaded \subseteq Flow
  /\ SchemaFits \in BOOLEAN
  /\ SignFaults \subseteq {"redis", "provider", "jwks", "pg"}

RoleName == {"viewer", "user", "admin"}
Group == {"viewers", "engineers", "admin", "others"}
Delivery == (Flow \X {1}) \cup (Reloaded \X {2})

VARIABLES
  setup,     \* which keys and settings the deployment has
  states,    \* logins whose state is in Redis
  flow,      \* what /login answered
  call,      \* the callbacks: their step, what they read, their outcome
  spent,     \* codes that the provider has exchanged
  groups,    \* each person's groups at the provider
  users,     \* the rows of SSO users, and the e-mail address of registered ones
  tokens,    \* the tokens handed out
  register   \* the registrations

signVars == <<setup, states, flow, call, spent, groups, users, tokens, register>>

NoRow == "none"

WhoIs(d) == setup.who[d[1]]

SignTypeOK ==
  /\ setup \in Setups
  /\ states \subseteq Flow
  /\ flow \in [Flow -> {"new", "redirected", "unavailable", "error", "unknown"}]
  /\ call \in [Delivery -> [at : {"idle", "reading", "exchange", "lookup", "write", "done"},
                            found : BOOLEAN, role : RoleName,
                            result : {"none", "invalid", "provider", "noDatabase", "error", "token"}]]
  /\ spent \subseteq Flow
  /\ groups \in [Person -> SUBSET Group]
  /\ users \in [Person -> RoleName \cup {NoRow}]
  /\ tokens \subseteq [for : Person, role : RoleName, algorithm : {"HS256", "RS256"}]
  /\ register \in [Registrant -> {"new", "insert", "taken", "error", "unavailable", "token"}]

SignInit ==
  /\ setup \in Setups
  /\ states = {} /\ spent = {} /\ tokens = {}
  /\ flow = [f \in Flow |-> "new"]
  /\ call = [d \in Delivery |-> [at |-> "idle", found |-> FALSE, role |-> "viewer", result |-> "none"]]
  /\ groups = [p \in Person |-> {"engineers"}]
  /\ users = [p \in Person |-> NoRow]
  /\ register = [r \in Registrant |-> "new"]

-----------------------------------------------------------------------------
(* Tokens *)

None == "none"

\* _get_signing_key: the algorithm, or none when a RuntimeError is raised.
SigningKey ==
  CASE setup.fallback /\ setup.secret -> "HS256"
    [] ~(setup.fallback /\ setup.secret) /\ setup.private -> "RS256"
    [] ~setup.fallback /\ ~setup.private /\ setup.secret -> "HS256"
    [] OTHER -> None

\* Mutant: a key file goes before the local fallback.
VerificationKeyFileFirst ==
  CASE setup.public -> "RS256"
    [] ~setup.public /\ setup.secret -> "HS256"
    [] OTHER -> None

\* _get_verification_key: likewise, with the public key.
VerificationKey ==
  CASE setup.fallback /\ setup.secret -> "HS256"
    [] ~(setup.fallback /\ setup.secret) /\ setup.public -> "RS256"
    [] ~setup.fallback /\ ~setup.public /\ setup.secret -> "HS256"
    [] OTHER -> None

\* create_access_token and create_refresh_token, for the same claims.
Issued(p, r) == [for |-> p, role |-> r, algorithm |-> SigningKey]

\* verify_jwt_token, for a token that has not expired.
Accepted(t) == t.algorithm = VerificationKey

-----------------------------------------------------------------------------
(* /login *)

\* _build_provider
Known == setup.provider \in {"keycloak", "dingtalk", "feishu"}

\* sso_login: the state is stored before the provider is looked at.
SsoLogin(f) ==
  /\ flow[f] = "new"
  /\ \/ /\ ~setup.client \/ ~setup.redis
        /\ flow' = [flow EXCEPT ![f] = "unavailable"]
        /\ UNCHANGED states
     \/ /\ setup.client /\ setup.redis /\ "redis" \in SignFaults
        /\ flow' = [flow EXCEPT ![f] = "error"]
        /\ UNCHANGED states
     \/ /\ setup.client /\ setup.redis
        /\ states' = states \cup {f}
        /\ flow' = [flow EXCEPT ![f] = IF Known THEN "redirected" ELSE "unknown"]
  /\ UNCHANGED <<setup, call, spent, groups, users, tokens, register>>

\* Ten minutes pass.
StateExpires(f) ==
  /\ f \in states
  /\ states' = states \ {f}
  /\ UNCHANGED <<setup, flow, call, spent, groups, users, tokens, register>>

\* Somebody's groups change at the provider.
GroupsChange(p) ==
  /\ groups[p] = {"engineers"}
  /\ groups' = [groups EXCEPT ![p] = {"viewers", "admin"}]
  /\ UNCHANGED <<setup, states, flow, call, spent, users, tokens, register>>

-----------------------------------------------------------------------------
(* /callback *)

\* _map_role: the highest role that some group gives.
MapRole(gs) ==
  IF "admin" \in gs THEN "admin" ELSE IF "engineers" \in gs THEN "user" ELSE "viewer"

Ends(d, result) == call' = [call EXCEPT ![d].at = "done", ![d].result = result]

\* GETDEL takes the state.
StateTaken(f) == states \ {f}

\* Without GETDEL, or when it failed, the state is read and then deleted.
PopState(d) ==
  LET f == d[1]
  IN  /\ call[d].at = "idle" /\ flow[f] = "redirected"
      /\ \/ /\ setup.getdel
            /\ IF f \in states THEN call' = [call EXCEPT ![d].at = "exchange"]
                               ELSE Ends(d, "invalid")
            /\ states' = StateTaken(f)
         \/ /\ ~setup.getdel
            /\ IF f \in states THEN call' = [call EXCEPT ![d].at = "reading"]
                               ELSE Ends(d, "invalid")
            /\ UNCHANGED states
         \/ /\ "redis" \in SignFaults
            /\ Ends(d, "error")
            /\ UNCHANGED states
  /\ UNCHANGED <<setup, flow, spent, groups, users, tokens, register>>

DeleteState(d) ==
  /\ call[d].at = "reading"
  /\ \/ /\ states' = states \ {d[1]}
        /\ call' = [call EXCEPT ![d].at = "exchange"]
     \/ /\ "redis" \in SignFaults
        /\ Ends(d, "error")
        /\ UNCHANGED states
  /\ UNCHANGED <<setup, flow, spent, groups, users, tokens, register>>

Fails(fault) == fault \in SignFaults

\* What exchange_code may come to: whether it spends the code, and whether it
\* then tells who the user is.
KeepsAll == [spends |-> FALSE, tells |-> FALSE]
SpentOnly == [spends |-> TRUE, tells |-> FALSE]
Told == [spends |-> TRUE, tells |-> TRUE]

\* Keycloak: the code for the tokens, the JWKS unless they are cached, and the
\* claims of the id_token, with the nonce of this login.
KeycloakExchange(f) ==
  IF f \in spent THEN {KeepsAll}
    ELSE {Told} \cup (IF Fails("provider") THEN {KeepsAll} ELSE {})
                \cup (IF Fails("provider") \/ Fails("jwks") THEN {SpentOnly} ELSE {})

\* DingTalk: the code for a token, the token for the user.
DingTalkExchange(f) ==
  IF f \in spent THEN {KeepsAll}
    ELSE {Told} \cup (IF Fails("provider") THEN {KeepsAll, SpentOnly} ELSE {})

\* Feishu: a token for the application, the code for one of the user, and that
\* for the user.
FeishuExchange(f) ==
  IF f \in spent THEN {KeepsAll}
    ELSE {Told} \cup (IF Fails("provider") THEN {KeepsAll, SpentOnly} ELSE {})

\* The exchange and, after it, the check of the pool.
ExchangeCode(d) ==
  LET f == d[1]
      outcomes == CASE setup.provider = "keycloak" -> KeycloakExchange(f)
                    [] setup.provider = "dingtalk" -> DingTalkExchange(f)
                    [] setup.provider = "feishu" -> FeishuExchange(f)
  IN  /\ call[d].at = "exchange"
      /\ \E o \in outcomes :
           /\ spent' = IF o.spends THEN spent \cup {f} ELSE spent
           /\ IF ~o.tells THEN Ends(d, "provider")
                ELSE IF ~setup.pool THEN Ends(d, "noDatabase")
                ELSE call' = [call EXCEPT ![d].at = "lookup", ![d].role = MapRole(groups[WhoIs(d)])]
  /\ UNCHANGED <<setup, states, flow, groups, users, tokens, register>>

\* _provision_pg: SELECT by identity.
LookUpUser(d) ==
  /\ call[d].at = "lookup"
  /\ \/ call' = [call EXCEPT ![d].at = "write", ![d].found = users[WhoIs(d)] # NoRow]
     \/ "pg" \in SignFaults /\ Ends(d, "error")
  /\ UNCHANGED <<setup, states, flow, spent, groups, users, tokens, register>>

\* dict(existing) | {"role": role}
RoleOfTheGroups(d) == call[d].role

\* The address is another row's.
AddressTaken(p) ==
  \/ \E q \in Person \ {p} : users[q] # NoRow /\ Email[q] = Email[p]
  \/ \E r \in Registrant : register[r] = "token" /\ Email[p] = "registered"

\* Whether the statement that the SELECT decided on succeeds: the UPDATE, or the
\* INSERT, which a row or an address that has come since refuses.
Writable(d) ==
  LET p == WhoIs(d)
  IN  SchemaFits /\ (call[d].found \/ (users[p] = NoRow /\ ~AddressTaken(p)))

\* UPDATE or INSERT, then the tokens, for which there may be no key.  The
\* UPDATE does not touch the role.
WriteUser(d) ==
  LET p == WhoIs(d)
  IN  /\ call[d].at = "write"
      /\ \/ /\ Writable(d)
            /\ users' = IF call[d].found THEN users ELSE [users EXCEPT ![p] = call[d].role]
            /\ IF SigningKey = None
                 THEN Ends(d, "error") /\ UNCHANGED tokens
                 ELSE Ends(d, "token") /\ tokens' = tokens \cup {Issued(p, RoleOfTheGroups(d))}
         \/ /\ ~Writable(d) \/ "pg" \in SignFaults
            /\ Ends(d, "error")
            /\ UNCHANGED <<users, tokens>>
  /\ UNCHANGED <<setup, states, flow, spent, groups, register>>

-----------------------------------------------------------------------------
(* /register, by password *)

\* The username is looked up; without a connection there is no answer.
Register(r) ==
  /\ register[r] = "new"
  /\ register' = [register EXCEPT ![r] =
       IF ~setup.pool THEN "unavailable"
         ELSE IF \E s \in Registrant : register[s] = "token" THEN "taken" ELSE "insert"]
  /\ UNCHANGED <<setup, states, flow, call, spent, groups, users, tokens>>

\* INSERT and commit: a username or an address that has come since is an error.
RegisterRow(r) ==
  /\ register[r] = "insert"
  /\ register' = [register EXCEPT ![r] =
       IF \/ \E s \in Registrant : register[s] = "token"
          \/ \E p \in Person : users[p] # NoRow /\ Email[p] = "registered"
          \/ SigningKey = None
         THEN "error" ELSE "token"]
  /\ UNCHANGED <<setup, states, flow, call, spent, groups, users, tokens>>

Callback(d) == PopState(d) \/ DeleteState(d) \/ ExchangeCode(d) \/ LookUpUser(d) \/ WriteUser(d)

SignNext ==
  \/ \E f \in Flow : SsoLogin(f) \/ StateExpires(f)
  \/ \E p \in Person : GroupsChange(p)
  \/ \E d \in Delivery : Callback(d)
  \/ \E r \in Registrant : Register(r) \/ RegisterRow(r)

SignSpec == SignInit /\ [][SignNext]_signVars

-----------------------------------------------------------------------------
(* Properties *)

\* Two deliveries of one callback do not both pass the check of the state,
\* unless Redis is too old for GETDEL.
StatesAreTakenOnce ==
  setup.getdel => \A f \in Flow :
    Cardinality({d \in Delivery : d[1] = f
                   /\ (call[d].at \in {"exchange", "lookup", "write"}
                         \/ call[d].result \in {"provider", "noDatabase", "token"})}) <= 1

\* Whoever has a token has a row, and its role is one that the provider's groups
\* gave at that login - not what the row says, which keeps the first login's.
TokensSayTheGroups ==
  /\ \A t \in tokens : users[t.for] # NoRow /\ t.role \in {MapRole(groups[t.for]), "user"}
  /\ \A d \in Delivery : call[d].result = "token" =>
       \E t \in tokens : t.for = WhoIs(d) /\ t.role = call[d].role

\* A person who shares an address with another, or with a registered user,
\* never gets a second row under it, and a registration never takes a username
\* or an address from anybody.
AddressesStayUnique ==
  /\ \A p, q \in Person : p # q /\ Email[p] = Email[q] => users[p] = NoRow \/ users[q] = NoRow
  /\ Cardinality({r \in Registrant : register[r] = "token"}) <= 1
  /\ (\E r \in Registrant : register[r] = "token") =>
       \A t \in tokens : Email[t.for] # "registered"

\* The tokens that this deployment hands out are accepted by it, unless it has
\* one file of the key pair without the other.
IssuedTokensVerify ==
  setup.private = setup.public => \A t \in tokens : Accepted(t)

\* "首次登录自动创建用户" (docs/DEVELOPMENT_PLAN.md, line 2439): the first login
\* creates the user.  Where nothing else fails, no callback ends in an error,
\* unless there is no key to sign with.
FirstLoginCreatesUser ==
  SigningKey # None => \A d \in Delivery : call[d].result # "error"

\* Logins lead to one row and one token of their own: states and addresses are
\* used once, tokens say what the provider said, and this deployment takes them.
LoginsAreSound ==
  /\ SignTypeOK
  /\ StatesAreTakenOnce /\ TokensSayTheGroups /\ AddressesStayUnique /\ IssuedTokensVerify
=============================================================================
