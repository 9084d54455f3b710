-------------------------------- MODULE Auth --------------------------------
(***************************************************************************)
(* Whose a request is: the session made from the headers of a request      *)
(* (src/src/auth/middleware.ts) or from the connectionParams of a          *)
(* WebSocket (ws-auth.ts), by an administrator's secret, a JSON web token  *)
(* (jwt.ts, claims.ts), an authentication webhook (webhook.ts) or none.    *)
(*                                                                         *)
(* Headers, claims and session variables have names <<namespace, suffix>>. *)
(* Signatures, keys and the text of tokens are left out: a token is what   *)
(* verifying it yields.  A claim is [array, vals], as in BoolExp.          *)
(***************************************************************************)
EXTENDS Sequences, SequencesExt

CONSTANTS
  Options, \* auth: [namespace, secret, jwt, requireExp, adminRoleIsAdmin, claimsMap, webhook,
           \* unauthorized]; secret and unauthorized may be NoValue, claimsMap is empty if
           \* there is none, and a name to [path, default] otherwise
  VarSuffix \* the suffix of each session variable of the metadata

Config == Options
NoValue == "none"
Hasura == "x-hasura"
DefaultNamespace == "x-hk"
One(v) == [array |-> FALSE, vals |-> <<v>>]

Rejected == [role |-> NoValue]

\* getRoleHeader, findClaim: the configured namespace wins over x-hasura.
Find(names, namespace, suffix, missing) ==
  CASE <<namespace, suffix>> \in DOMAIN names -> names[<<namespace, suffix>>]
    [] <<namespace, suffix>> \notin DOMAIN names /\ <<Hasura, suffix>> \in DOMAIN names ->
         names[<<Hasura, suffix>>]
    [] OTHER -> missing

-----------------------------------------------------------------------------
(* Tokens: [verified, exp, form, claims, paths]; form says whether the      *)
(* namespace holds "claims", nothing ("absent") or something unreadable.    *)

\* extractFromClaimsMap and extractFromNamespace.
ClaimsOf(payload) ==
  LET mapped == {n \in DOMAIN Config.claimsMap :
                   \/ Config.claimsMap[n].path \in DOMAIN payload.paths
                   \/ Config.claimsMap[n].default # NoValue}
      Value(n) == LET path == Config.claimsMap[n].path IN
                  IF path \in DOMAIN payload.paths THEN payload.paths[path]
                  ELSE One(Config.claimsMap[n].default)
  IN CASE DOMAIN Config.claimsMap # {} -> [n \in mapped |-> Value(n)]
       [] DOMAIN Config.claimsMap = {} /\ payload.form = "claims" -> payload.claims
       [] OTHER -> <<>>

\* The session of some claims, with the role of the given claim; Rejected if a claim that
\* every session needs is missing.
FromClaims(claims, namespace, roleSuffix) ==
  LET missing == One(NoValue)
      allowed == Find(claims, namespace, "allowed-roles", missing)
      role == Find(claims, namespace, roleSuffix, missing)
  IN IF missing \in {allowed, role} THEN Rejected
     ELSE [role |-> role.vals[1], userId |-> Find(claims, namespace, "user-id", missing).vals[1],
           allowedRoles |-> allowed.vals, isAdmin |-> FALSE, backend |-> FALSE, claims |-> claims]

IsAdminRole(role) == Config.adminRoleIsAdmin /\ role = "admin"

\* extractSessionVariables, of a token that is verified and expires if it has to.
ExtractSessionVariables(payload) ==
  LET session == FromClaims(ClaimsOf(payload), Config.namespace, "default-role") IN
  CASE \/ ~payload.verified
       \/ Config.requireExp /\ ~payload.exp
       \/ DOMAIN Config.claimsMap = {} /\ payload.form = "unreadable" -> Rejected
    [] OTHER -> IF session = Rejected THEN Rejected
                ELSE [session EXCEPT !.isAdmin = IsAdminRole(session.role)]

\* Mutant: the role asked for is not looked up among those allowed.
TakeAnyRole(session, role) ==
  CASE session = Rejected -> Rejected
    [] session # Rejected /\ role = NoValue -> session
    [] OTHER -> [session EXCEPT !.role = role]

\* The role asked for, one of those allowed, instead of the session's own.
TakeRole(session, role) ==
  CASE session = Rejected -> Rejected
    [] session # Rejected /\ role = NoValue -> session
    [] OTHER -> IF role \in ToSet(session.allowedRoles) THEN [session EXCEPT !.role = role]
                   ELSE Rejected

-----------------------------------------------------------------------------

\* buildAdminSession.
AdminSession(role, backend) ==
  LET taken == IF role = NoValue THEN "admin" ELSE role
  IN [role |-> taken, userId |-> NoValue, allowedRoles |-> <<"admin">>, isAdmin |-> TRUE,
      backend |-> backend, claims |-> [n \in {<<Config.namespace, "role">>} |-> One(taken)]]

\* buildUnauthorizedSession.
UnauthorizedSession ==
  LET role == Config.unauthorized
      names == {<<Config.namespace, "default-role">>, <<Config.namespace, "allowed-roles">>}
  IN IF role = NoValue THEN Rejected
     ELSE [role |-> role, userId |-> NoValue, allowedRoles |-> <<role>>, isAdmin |-> FALSE,
           backend |-> FALSE,
           claims |-> [n \in names |-> [array |-> n[2] = "allowed-roles", vals |-> <<role>>]]]

\* The preHandler of createAuthHook.  A request is [names, scheme, token, answer]: scheme
\* is that of its Authorization header, if any, and answer, [ok, claims], what the webhook
\* says of it; the webhook knows no other namespace than the default one.
Authenticate(h) ==
  LET secret == Find(h.names, Config.namespace, "admin-secret", NoValue)
      role == Find(h.names, Config.namespace, "role", NoValue)
      own == TakeRole(ExtractSessionVariables(h.token), role)
      asked == TakeRole(FromClaims(h.answer.claims, DefaultNamespace, "role"), role)
      answered == Config.webhook /\ h.answer.ok
                  /\ FromClaims(h.answer.claims, DefaultNamespace, "role") # Rejected
  IN
  IF NoValue \notin {Config.secret, secret} THEN
    IF secret = Config.secret THEN AdminSession(role, TRUE) ELSE Rejected
  ELSE IF h.scheme # NoValue THEN
    IF h.scheme # "Bearer" \/ ~Config.jwt \/ own = Rejected THEN Rejected
    ELSE [own EXCEPT !.isAdmin = IsAdminRole(own.role),
                     !.backend = <<Hasura, "use-backend-only-permissions">> \in DOMAIN h.names]
  ELSE IF answered THEN asked
  ELSE UnauthorizedSession

\* extractAdminSecret and extractRequestedRole: what is given directly wins over headers.
Param(params, suffix) ==
  IF Find(params.direct, Config.namespace, suffix, NoValue) # NoValue
  THEN Find(params.direct, Config.namespace, suffix, NoValue)
  ELSE Find(params.headers, Config.namespace, suffix, NoValue)

\* authenticateWsConnection.  Params are [direct, headers, tokens]: the names given
\* directly and as headers, and the tokens of the three forms, as far as given.
AuthenticateWs(params) ==
  LET secret == Param(params, "admin-secret")
      role == Param(params, "role")
  IN
  IF NoValue \notin {Config.secret, secret} THEN
    IF secret = Config.secret THEN AdminSession(role, FALSE) ELSE Rejected
  ELSE IF params.tokens # <<>> THEN
    IF ~Config.jwt THEN Rejected
    ELSE TakeRole(ExtractSessionVariables(params.tokens[1]), role)
  ELSE UnauthorizedSession

\* resolveSessionVar: what a variable with some suffix is worth in a session.
ResolveSessionVar(session, suffix) ==
  CASE suffix \in {"role", "default-role"} -> One(session.role)
    [] suffix = "user-id" -> One(session.userId)
    [] suffix = "allowed-roles" -> [array |-> TRUE, vals |-> session.allowedRoles]
    [] OTHER -> Find(session.claims, DefaultNamespace, suffix, One(NoValue))

\* A session as the compilers look at it.
Viewed(session) ==
  [role |-> session.role, isAdmin |-> session.isAdmin, backend |-> session.backend,
   roles |-> ToSet(session.allowedRoles), claims |-> session.claims,
   vars |-> [v \in DOMAIN VarSuffix |-> ResolveSessionVar(session, VarSuffix[v])]]
=============================================================================
