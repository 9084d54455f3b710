--------------------------- MODULE Sessions_proofs ---------------------------
(***************************************************************************)
(* Proofs about Sessions, for any options, senders and variables, and      *)
(* whatever is asked and answered.                                         *)
(***************************************************************************)
EXTENDS Sessions, TLAPS

\* What a session is made of, other than Rejected.
IsSession(s) ==
  s = [role |-> s.role, userId |-> s.userId, allowedRoles |-> s.allowedRoles,
       isAdmin |-> s.isAdmin, backend |-> s.backend, claims |-> s.claims]

\* The role that claims name, and those they allow.
RoleIn(claims, namespace, suffix) == Find(claims, namespace, suffix, One(NoValue)).vals[1]
AllowedIn(claims, namespace) == Find(claims, namespace, "allowed-roles", One(NoValue)).vals

\* Claims give a session with their role, and with the roles they allow.
LEMMA FromClaimsLemma ==
  ASSUME NEW claims, NEW namespace, NEW suffix, NEW s, s # Rejected,
         s = FromClaims(claims, namespace, suffix)
  PROVE  /\ IsSession(s) /\ s.isAdmin = FALSE
         /\ s.role = RoleIn(claims, namespace, suffix)
         /\ s.allowedRoles = AllowedIn(claims, namespace)
BY DEF FromClaims, IsSession, RoleIn, AllowedIn

\* A verified token gives the session of its claims.
LEMMA ExtractLemma ==
  ASSUME NEW payload, NEW s, s = ExtractSessionVariables(payload), s # Rejected
  PROVE  /\ payload.verified /\ (Config.requireExp => payload.exp)
         /\ IsSession(s) /\ s.isAdmin = IsAdminRole(s.role)
         /\ s.role = RoleIn(ClaimsOf(payload), Config.namespace, "default-role")
         /\ s.allowedRoles = AllowedIn(ClaimsOf(payload), Config.namespace)
<1>1. PICK f : f = FromClaims(ClaimsOf(payload), Config.namespace, "default-role")
  OBVIOUS
<1>2. /\ payload.verified /\ (Config.requireExp => payload.exp)
      /\ f # Rejected /\ s = [f EXCEPT !.isAdmin = IsAdminRole(f.role)]
  BY <1>1 DEF ExtractSessionVariables
<1>3. f # Rejected
  BY <1>2
<1>4. /\ IsSession(f) /\ f.role = RoleIn(ClaimsOf(payload), Config.namespace, "default-role")
      /\ f.allowedRoles = AllowedIn(ClaimsOf(payload), Config.namespace)
  <2> DEFINE claims == ClaimsOf(payload)
             n == Config.namespace
  <2> HIDE DEF claims, n
  <2>1. f = FromClaims(claims, n, "default-role")
    BY <1>1 DEF claims, n
  <2>2. /\ IsSession(f) /\ f.role = RoleIn(claims, n, "default-role")
        /\ f.allowedRoles = AllowedIn(claims, n)
    BY <2>1, <1>3, FromClaimsLemma
  <2> QED
    BY <2>2 DEF claims, n
<1> QED
  BY <1>2, <1>4 DEF IsSession

\* A role is taken from those allowed; nothing else changes.
LEMMA TakeRoleLemma ==
  ASSUME NEW s, NEW role, NEW t, IsSession(s), t = TakeRole(s, role), t # Rejected
  PROVE  /\ s # Rejected /\ IsSession(t)
         /\ t.role = IF role = NoValue THEN s.role ELSE role
         /\ role # NoValue => role \in ToSet(s.allowedRoles)
         /\ t.isAdmin = s.isAdmin
BY DEF TakeRole, IsSession

-----------------------------------------------------------------------------
(* Over HTTP and over the WebSocket.                                       *)

\* The session of a token, with the role asked for.
Own(token, role) == TakeRole(ExtractSessionVariables(token), role)

\* What a token gives if it gives anything.
LEMMA OwnLemma ==
  ASSUME NEW token, NEW asked, NEW s, s = Own(token, asked), s # Rejected
  PROVE  /\ IsSession(s)
         /\ token.verified /\ (Config.requireExp => token.exp)
         /\ s.role \in RolesByClaims(ClaimsOf(token), Config.namespace, "default-role", asked)
         /\ s.isAdmin => /\ Config.adminRoleIsAdmin
                         /\ "admin" \in RolesByClaims(ClaimsOf(token), Config.namespace,
                                                      "default-role", NoValue)
<1>1. PICK e : e = ExtractSessionVariables(token)
  OBVIOUS
<1>2. s = TakeRole(e, asked) /\ e # Rejected
  BY <1>1 DEF Own, TakeRole
<1>3. /\ token.verified /\ (Config.requireExp => token.exp)
      /\ IsSession(e) /\ e.isAdmin = IsAdminRole(e.role)
      /\ e.role = RoleIn(ClaimsOf(token), Config.namespace, "default-role")
      /\ e.allowedRoles = AllowedIn(ClaimsOf(token), Config.namespace)
  BY <1>1, <1>2, ExtractLemma
<1>4. /\ IsSession(s) /\ s.isAdmin = e.isAdmin
      /\ s.role = IF asked = NoValue THEN e.role ELSE asked
      /\ asked # NoValue => asked \in ToSet(e.allowedRoles)
  BY <1>2, <1>3, TakeRoleLemma
<1>5. s.role \in RolesByClaims(ClaimsOf(token), Config.namespace, "default-role", asked)
  BY <1>3, <1>4 DEF RolesByClaims, RoleIn, AllowedIn
<1>6. s.isAdmin => /\ Config.adminRoleIsAdmin
                   /\ "admin" \in RolesByClaims(ClaimsOf(token), Config.namespace,
                                                "default-role", NoValue)
  BY <1>3, <1>4 DEF RolesByClaims, RoleIn, AllowedIn, IsAdminRole
<1> QED
  BY <1>3, <1>4, <1>5, <1>6

\* How the session of a sender comes about, over either.
Ways(c, live, s) ==
  \/ /\ Proven(c, live) /\ \E backend \in BOOLEAN :
          s = AdminSession(Named(c, live, "role"), backend)
  \/ /\ ~Proven(c, live) /\ TokenOf(c, live) # <<>> /\ Config.jwt
     /\ \E own : /\ own = Own(TokenOf(c, live)[1], Named(c, live, "role")) /\ own # Rejected
                 /\ IsSession(s) /\ s.role = own.role /\ s.userId = own.userId
                 /\ s.allowedRoles = own.allowedRoles /\ s.claims = own.claims
                 /\ s.isAdmin => IsAdminRole(s.role) \/ own.isAdmin
  \/ /\ ~Proven(c, live) /\ TokenOf(c, live) = <<>> /\ ~live /\ Hooked(c)
     /\ s.isAdmin = FALSE /\ ByWebhook(c, live, s.role)
  \/ /\ ~Proven(c, live) /\ TokenOf(c, live) = <<>> /\ s = UnauthorizedSession

\* Over HTTP.
LEMMA HttpWays ==
  ASSUME NEW c, NEW s, s = Http(c), s # Rejected
  PROVE  Ways(c, FALSE, s)
<1>0. \/ /\ Proven(c, FALSE) /\ s = AdminSession(Named(c, FALSE, "role"), TRUE)
      \/ /\ ~Proven(c, FALSE) /\ c.http.scheme = "Bearer" /\ Config.jwt
         /\ Own(c.http.token, Named(c, FALSE, "role")) # Rejected
         /\ s = [Own(c.http.token, Named(c, FALSE, "role")) EXCEPT
                   !.isAdmin = IsAdminRole(Own(c.http.token, Named(c, FALSE, "role")).role),
                   !.backend = <<Hasura, "use-backend-only-permissions">>
                                 \in DOMAIN c.http.names]
      \/ /\ ~Proven(c, FALSE) /\ c.http.scheme = NoValue /\ Hooked(c)
         /\ FromClaims(c.http.answer.claims, DefaultNamespace, "role") # Rejected
         /\ s = TakeRole(FromClaims(c.http.answer.claims, DefaultNamespace, "role"),
                         Named(c, FALSE, "role"))
      \/ /\ ~Proven(c, FALSE) /\ c.http.scheme = NoValue /\ s = UnauthorizedSession
  BY DEF Http, Authenticate, Proven, Named, Hooked, Own
<1>1. CASE Proven(c, FALSE) /\ s = AdminSession(Named(c, FALSE, "role"), TRUE)
  BY <1>1 DEF Ways
<1>2. CASE /\ ~Proven(c, FALSE) /\ c.http.scheme = "Bearer" /\ Config.jwt
           /\ Own(c.http.token, Named(c, FALSE, "role")) # Rejected
           /\ s = [Own(c.http.token, Named(c, FALSE, "role")) EXCEPT
                     !.isAdmin = IsAdminRole(Own(c.http.token, Named(c, FALSE, "role")).role),
                     !.backend = <<Hasura, "use-backend-only-permissions">>
                                   \in DOMAIN c.http.names]
  <2>1. TokenOf(c, FALSE) # <<>> /\ TokenOf(c, FALSE)[1] = c.http.token
    BY <1>2 DEF TokenOf
  <2>2. PICK own : own = Own(TokenOf(c, FALSE)[1], Named(c, FALSE, "role"))
    OBVIOUS
  <2>3. /\ own # Rejected
        /\ s = [own EXCEPT !.isAdmin = IsAdminRole(own.role),
                           !.backend = <<Hasura, "use-backend-only-permissions">>
                                         \in DOMAIN c.http.names]
    BY <1>2, <2>1, <2>2
  <2>4. IsSession(own)
    BY <2>2, <2>3, OwnLemma
  <2>5. /\ IsSession(s) /\ s.role = own.role /\ s.userId = own.userId
        /\ s.allowedRoles = own.allowedRoles /\ s.claims = own.claims
        /\ s.isAdmin => IsAdminRole(s.role) \/ own.isAdmin
    BY <2>3, <2>4 DEF IsSession
  <2> QED
    BY <1>2, <2>1, <2>2, <2>3, <2>5 DEF Ways
<1>3. CASE /\ ~Proven(c, FALSE) /\ c.http.scheme = NoValue /\ Hooked(c)
           /\ FromClaims(c.http.answer.claims, DefaultNamespace, "role") # Rejected
           /\ s = TakeRole(FromClaims(c.http.answer.claims, DefaultNamespace, "role"),
                           Named(c, FALSE, "role"))
  <2> DEFINE claims == c.http.answer.claims
             n == DefaultNamespace
             asked == Named(c, FALSE, "role")
  <2> HIDE DEF claims, n, asked
  <2>1. PICK f : f = FromClaims(claims, n, "role")
    OBVIOUS
  <2>2. f # Rejected /\ s = TakeRole(f, asked)
    BY <1>3, <2>1 DEF claims, n, asked
  <2>3. /\ IsSession(f) /\ f.isAdmin = FALSE /\ f.role = RoleIn(claims, n, "role")
        /\ f.allowedRoles = AllowedIn(claims, n)
    BY <2>1, <2>2, FromClaimsLemma
  <2>4. /\ s.role = IF asked = NoValue THEN f.role ELSE asked
        /\ asked # NoValue => asked \in ToSet(f.allowedRoles)
        /\ s.isAdmin = f.isAdmin
    BY <2>2, <2>3, TakeRoleLemma
  <2>5. s.role \in RolesByClaims(claims, n, "role", asked)
    BY <2>3, <2>4 DEF RolesByClaims, RoleIn, AllowedIn
  <2>6. ByWebhook(c, FALSE, s.role)
    BY <1>3, <2>5 DEF ByWebhook, claims, n, asked
  <2>7. TokenOf(c, FALSE) = <<>>
    BY <1>3 DEF TokenOf, NoValue
  <2> QED
    BY <1>3, <2>3, <2>4, <2>6, <2>7 DEF Ways
<1>4. CASE ~Proven(c, FALSE) /\ c.http.scheme = NoValue /\ s = UnauthorizedSession
  <2>1. TokenOf(c, FALSE) = <<>>
    BY <1>4 DEF TokenOf, NoValue
  <2> QED
    BY <1>4, <2>1 DEF Ways
<1> QED
  BY <1>1, <1>2, <1>3, <1>4, <1>0

\* Over the WebSocket.
LEMMA WsWays ==
  ASSUME NEW c, NEW s, s = Ws(c), s # Rejected
  PROVE  Ways(c, TRUE, s)
<1>0. \/ /\ Proven(c, TRUE) /\ s = AdminSession(Named(c, TRUE, "role"), FALSE)
      \/ /\ ~Proven(c, TRUE) /\ c.ws.tokens # <<>> /\ Config.jwt
         /\ s = Own(c.ws.tokens[1], Named(c, TRUE, "role"))
      \/ /\ ~Proven(c, TRUE) /\ c.ws.tokens = <<>> /\ s = UnauthorizedSession
  BY DEF Ws, AuthenticateWs, Proven, Named, Own
<1>1. CASE Proven(c, TRUE) /\ s = AdminSession(Named(c, TRUE, "role"), FALSE)
  BY <1>1 DEF Ways
<1>2. CASE /\ ~Proven(c, TRUE) /\ c.ws.tokens # <<>> /\ Config.jwt
           /\ s = Own(c.ws.tokens[1], Named(c, TRUE, "role"))
  <2>1. TokenOf(c, TRUE) = c.ws.tokens
    BY DEF TokenOf
  <2>2. s = Own(TokenOf(c, TRUE)[1], Named(c, TRUE, "role"))
    BY <1>2, <2>1
  <2>3. IsSession(s)
    BY <2>2, OwnLemma
  <2> QED
    BY <1>2, <2>1, <2>2, <2>3 DEF Ways
<1>3. CASE ~Proven(c, TRUE) /\ c.ws.tokens = <<>> /\ s = UnauthorizedSession
  <2>1. TokenOf(c, TRUE) = <<>>
    BY <1>3 DEF TokenOf
  <2> QED
    BY <1>3, <2>1 DEF Ways
<1> QED
  BY <1>1, <1>2, <1>3, <1>0

-----------------------------------------------------------------------------
(* What a sender may take.                                                 *)

\* A session is not a refusal.
LEMMA NotRejected ==
  ASSUME NEW s, IsSession(s)
  PROVE  s # Rejected
<1>1. "userId" \in DOMAIN s
  BY DEF IsSession
<1>2. "userId" \notin DOMAIN Rejected
  BY DEF Rejected
<1> QED
  BY <1>1, <1>2

\* An administrator's session.
LEMMA AdminLemma ==
  ASSUME NEW role, NEW backend
  PROVE  IsSession(AdminSession(role, backend))
BY DEF AdminSession, IsSession

\* The unauthorized session, if there is one.
LEMMA UnauthorizedLemma ==
  ASSUME NEW s, s = UnauthorizedSession, s # Rejected
  PROVE  s.role = Config.unauthorized /\ s.isAdmin = FALSE
BY DEF UnauthorizedSession

\* However a session comes about, its role may be taken.
LEMMA RoleMayBeTaken ==
  ASSUME NEW c, NEW live \in BOOLEAN, NEW s, Ways(c, live, s), s # Rejected
  PROVE  MayTake(c, live, s.role) /\ (s.isAdmin => MayAdminister(c, live, s.role))
<1>1. CASE Proven(c, live)
  BY <1>1 DEF MayTake, MayAdminister
<1>2. CASE ~Proven(c, live) /\ TokenOf(c, live) # <<>>
  <2>1. PICK own : /\ own = Own(TokenOf(c, live)[1], Named(c, live, "role")) /\ own # Rejected
                   /\ s.role = own.role
                   /\ s.isAdmin => IsAdminRole(s.role) \/ own.isAdmin
    BY <1>2 DEF Ways
  <2>2. Config.jwt
    BY <1>2 DEF Ways
  <2> DEFINE token == TokenOf(c, live)[1]
             asked == Named(c, live, "role")
  <2> HIDE DEF token, asked
  <2>3. own = Own(token, asked) /\ own # Rejected
    BY <2>1 DEF token, asked
  <2>4. /\ token.verified /\ (Config.requireExp => token.exp)
        /\ own.role \in RolesByClaims(ClaimsOf(token), Config.namespace, "default-role", asked)
        /\ own.isAdmin => /\ Config.adminRoleIsAdmin
                          /\ "admin" \in RolesByClaims(ClaimsOf(token), Config.namespace,
                                                       "default-role", NoValue)
    BY <2>3, OwnLemma
  <2>5. ByToken(c, live, s.role)
    BY <2>1, <2>2, <2>4 DEF ByToken, token, asked
  <2>6. s.isAdmin => MayAdminister(c, live, s.role)
    BY <1>2, <2>1, <2>4 DEF MayAdminister, IsAdminRole, token
  <2> QED
    BY <1>2, <2>5, <2>6 DEF MayTake
<1>3. CASE ~Proven(c, live) /\ TokenOf(c, live) = <<>>
  <2>1. s.isAdmin = FALSE /\ (ByWebhook(c, live, s.role) \/ s.role = Config.unauthorized)
    BY <1>3, UnauthorizedLemma DEF Ways
  <2> QED
    BY <1>3, <2>1 DEF MayTake
<1> QED
  BY <1>1, <1>2, <1>3

-----------------------------------------------------------------------------
(* The same over both.                                                     *)

Alike(s, t) ==
  /\ s.role = t.role /\ s.userId = t.userId /\ s.allowedRoles = t.allowedRoles
  /\ s.claims = t.claims

\* Sessions that are alike have the same role and variables.
LEMMA AlikeLemma ==
  ASSUME NEW s, NEW t, Alike(s, t)
  PROVE  SameSession(Viewed(s), Viewed(t))
<1>1. ASSUME NEW suffix PROVE ResolveSessionVar(s, suffix) = ResolveSessionVar(t, suffix)
  BY DEF Alike, ResolveSessionVar
<1>2. Viewed(s).role = Viewed(t).role
  BY DEF Alike, Viewed
<1>3. /\ Viewed(s).vars = [v \in DOMAIN VarSuffix |-> ResolveSessionVar(s, VarSuffix[v])]
      /\ Viewed(t).vars = [v \in DOMAIN VarSuffix |-> ResolveSessionVar(t, VarSuffix[v])]
  BY DEF Viewed
<1> QED
  BY <1>1, <1>2, <1>3 DEF SameSession

\* Who sends the same shows the same secret, token and role.
LEMMA SameShown ==
  ASSUME NEW c, SendsTheSame(c), NEW live \in BOOLEAN
  PROVE  /\ Proven(c, live) <=> Proven(c, ~live)
         /\ Named(c, live, "role") = Named(c, ~live, "role")
         /\ TokenOf(c, live) = <<>> <=> TokenOf(c, ~live) = <<>>
         /\ TokenOf(c, live) # <<>> => TokenOf(c, live)[1] = TokenOf(c, ~live)[1]
<1>1. /\ Named(c, TRUE, "admin-secret") = Named(c, FALSE, "admin-secret")
      /\ Named(c, TRUE, "role") = Named(c, FALSE, "role")
  BY DEF SendsTheSame
<1>2. Proven(c, TRUE) <=> Proven(c, FALSE)
  BY <1>1 DEF Proven
<1>3. TokenOf(c, TRUE) = c.ws.tokens
  BY DEF TokenOf
<1>4. CASE c.http.scheme = "Bearer"
  <2>2. TokenOf(c, FALSE) # <<>> /\ TokenOf(c, FALSE)[1] = c.http.token
    BY <1>4 DEF TokenOf
  <2>3. TokenOf(c, TRUE) # <<>> /\ TokenOf(c, TRUE)[1] = c.http.token
    BY <1>3, <1>4 DEF SendsTheSame
  <2> QED
    BY <1>1, <1>2, <2>2, <2>3
<1>5. CASE c.http.scheme = NoValue
  <2>1. TokenOf(c, FALSE) = <<>>
    BY <1>5 DEF TokenOf, NoValue
  <2>2. TokenOf(c, TRUE) = <<>>
    BY <1>3, <1>5 DEF SendsTheSame
  <2> QED
    BY <1>1, <1>2, <2>1, <2>2
<1> QED
  BY <1>4, <1>5 DEF SendsTheSame

\* Of one who sends the same and asks no webhook, both are served or neither is.
LEMMA BothServed ==
  ASSUME NEW c, SendsTheSame(c), ~Hooked(c), NEW live \in BOOLEAN, Sender(c, live) # Rejected
  PROVE  Sender(c, ~live) # Rejected
<1>1. PICK s : s = Sender(c, live)
  OBVIOUS
<1>2. Ways(c, live, s) /\ s # Rejected
  BY <1>1, HttpWays, WsWays DEF Sender
<1>3. ASSUME ~Proven(c, live)
      PROVE  /\ ~Proven(c, TRUE) /\ ~Proven(c, FALSE)
             /\ NoValue \in {Config.secret, Named(c, TRUE, "admin-secret")}
             /\ NoValue \in {Config.secret, Named(c, FALSE, "admin-secret")}
  <2>1. ~Proven(c, TRUE) /\ ~Proven(c, FALSE)
    BY <1>3, SameShown
  <2>2. NoValue \in {Config.secret, Named(c, live, "admin-secret")}
    BY <1>3 DEF Proven, Sender, Http, Ws, Authenticate, AuthenticateWs, Named
  <2> QED
    BY <2>1, <2>2 DEF SendsTheSame
<1>4. CASE Proven(c, live)
  <2>1. Proven(c, ~live)
    BY <1>4, SameShown
  <2>2. \E role, backend : Sender(c, ~live) = AdminSession(role, backend)
    BY <2>1 DEF Proven, Sender, Http, Ws, Authenticate, AuthenticateWs, Named
  <2> QED
    BY <2>2, AdminLemma, NotRejected
<1>5. CASE ~Proven(c, live) /\ TokenOf(c, live) # <<>>
  <2> DEFINE token == TokenOf(c, live)[1]
             asked == Named(c, live, "role")
  <2>1. Own(token, asked) # Rejected /\ Config.jwt
    BY <1>2, <1>5 DEF Ways
  <2>2. /\ ~Proven(c, TRUE) /\ ~Proven(c, FALSE)
        /\ c.ws.tokens # <<>> /\ c.http.scheme = "Bearer"
        /\ token = c.ws.tokens[1] /\ token = c.http.token
        /\ asked = Named(c, TRUE, "role") /\ asked = Named(c, FALSE, "role")
    BY <1>5, SameShown DEF TokenOf, SendsTheSame, NoValue
  <2> HIDE DEF token, asked
  <2>3. PICK own : own = Own(token, asked) /\ own # Rejected
    BY <2>1
  <2>4. IsSession(own)
    BY <2>3, OwnLemma
  <2>5. Ws(c) = own
    BY <1>5, <1>3, <2>1, <2>2, <2>3 DEF Ws, AuthenticateWs, Named, Own
  <2>6. Http(c) = [own EXCEPT !.isAdmin = IsAdminRole(own.role),
                              !.backend = <<Hasura, "use-backend-only-permissions">>
                                            \in DOMAIN c.http.names]
    BY <1>5, <1>3, <2>1, <2>2, <2>3 DEF Http, Authenticate, Named, Own, NoValue
  <2>7. IsSession(Http(c))
    BY <2>4, <2>6 DEF IsSession
  <2> QED
    BY <2>4, <2>5, <2>7, NotRejected DEF Sender
<1>6. CASE ~Proven(c, live) /\ TokenOf(c, live) = <<>>
  <2>1. c.ws.tokens = <<>> /\ c.http.scheme = NoValue
    BY <1>6, SameShown DEF TokenOf, SendsTheSame
  <2>2. Ws(c) = UnauthorizedSession
    BY <1>6, <1>3, <2>1 DEF Ws, AuthenticateWs, Named
  <2>3. Http(c) = UnauthorizedSession
    BY <1>6, <1>3, <2>1 DEF Http, Authenticate, Named, Hooked
  <2> QED
    BY <2>2, <2>3 DEF Sender
<1> QED
  BY <1>4, <1>5, <1>6

\* And the two sessions are alike.
LEMMA BothAlike ==
  ASSUME NEW c, SendsTheSame(c), ~Hooked(c), NEW live \in BOOLEAN, Sender(c, live) # Rejected
  PROVE  SameSession(Viewed(Sender(c, ~live)), Viewed(Sender(c, live)))
<1>1. PICK s, t : s = Sender(c, live) /\ t = Sender(c, ~live)
  OBVIOUS
<1>2. s # Rejected /\ t # Rejected
  BY <1>1, BothServed
<1>3. Ways(c, live, s) /\ Ways(c, ~live, t)
  BY <1>1, <1>2, HttpWays, WsWays DEF Sender
<1>4. CASE Proven(c, live)
  <2>1. Proven(c, ~live) /\ Named(c, live, "role") = Named(c, ~live, "role")
    BY <1>4, SameShown
  <2>2. PICK role, a, b : s = AdminSession(role, a) /\ t = AdminSession(role, b)
    BY <1>3, <1>4, <2>1 DEF Ways
  <2> QED
    BY <2>2, <1>1, AlikeLemma DEF Alike, AdminSession
<1>5. CASE ~Proven(c, live) /\ TokenOf(c, live) # <<>>
  <2>1. /\ ~Proven(c, ~live) /\ TokenOf(c, ~live) # <<>>
        /\ Own(TokenOf(c, live)[1], Named(c, live, "role"))
             = Own(TokenOf(c, ~live)[1], Named(c, ~live, "role"))
    BY <1>5, SameShown
  <2>2. PICK own : /\ own = Own(TokenOf(c, live)[1], Named(c, live, "role"))
                   /\ s.role = own.role /\ s.userId = own.userId
                   /\ s.allowedRoles = own.allowedRoles /\ s.claims = own.claims
    BY <1>3, <1>5 DEF Ways
  <2>3. /\ t.role = own.role /\ t.userId = own.userId
        /\ t.allowedRoles = own.allowedRoles /\ t.claims = own.claims
    BY <1>3, <2>1, <2>2 DEF Ways
  <2> QED
    BY <1>1, <2>2, <2>3, AlikeLemma DEF Alike
<1>6. CASE ~Proven(c, live) /\ TokenOf(c, live) = <<>>
  <2>1. ~Proven(c, ~live) /\ TokenOf(c, ~live) = <<>>
    BY <1>6, SameShown
  <2>2. s = UnauthorizedSession /\ t = UnauthorizedSession
    BY <1>3, <1>6, <2>1 DEF Ways
  <2> QED
    BY <1>1, <2>2, AlikeLemma DEF Alike
<1> QED
  BY <1>4, <1>5, <1>6

-----------------------------------------------------------------------------
(* Every request.                                                          *)

\* What is said of a request that was answered.
AsSent(c, live, session) ==
  /\ MayTake(c, live, session.role)
  /\ session.isAdmin => MayAdminister(c, live, session.role)
  /\ SendsTheSame(c) /\ ~Hooked(c) => SameSession(Viewed(Sender(c, ~live)), session)

\* A sender that is not refused is served as what it has sent.
LEMMA ServedAsSent ==
  ASSUME NEW c, NEW live \in BOOLEAN, Sender(c, live) # Rejected
  PROVE  AsSent(c, live, Viewed(Sender(c, live)))
<1>1. PICK s : s = Sender(c, live)
  OBVIOUS
<1>2. Ways(c, live, s) /\ s # Rejected
  BY <1>1, HttpWays, WsWays DEF Sender
<1>3. MayTake(c, live, s.role) /\ (s.isAdmin => MayAdminister(c, live, s.role))
  BY <1>2, RoleMayBeTaken
<1>4. Viewed(s).role = s.role /\ Viewed(s).isAdmin = s.isAdmin
  BY DEF Viewed
<1> QED
  BY <1>1, <1>3, <1>4, BothAlike DEF AsSent

\* Each request is answered for the session its sender has sent, over HTTP as over the
\* WebSocket: its role is one the sender may take, an administrator has shown the secret or
\* an administrators' token, and both ways give the same (middleware.ts, ws-auth.ts).
THEOREM EachAsSent == SessionsSpec => []SessionAsSent
<1> DEFINE Ok(l) == l.user # Nobody /\ l.kind # "rejected" =>
                      AsSent(l.user, Live(l.kind, l.req), l.session)
<1>1. SessionAsSent <=> Ok(last)
  BY DEF SessionAsSent, AsSent
<1>2. last = Nothing => SessionAsSent
  BY <1>1 DEF Nothing
<1>3. ASSUME NEW c \in Credentials, Refuse(c) PROVE Ok(last')
  <2>1. last'.kind = "rejected"
    BY <1>3 DEF Refuse, Nothing
  <2> QED
    BY <2>1
<1>4. ASSUME NEW c \in Credentials, NEW kind, NEW req, NEW before, NEW answer,
             Serve(kind, c, req, before, answer)
      PROVE  Ok(last')
  <2>1. Live(kind, req) \in BOOLEAN
    BY DEF Live
  <2>2. SessionOf(kind, c, req) = Sender(c, Live(kind, req))
    BY DEF SessionOf
  <2>3. PICK session \in Authenticated(kind, c, req) :
          last' = [kind |-> kind, user |-> c, session |-> session, req |-> req,
                   before |-> before, answer |-> answer]
    BY <1>4 DEF Serve
  <2>4. /\ Sender(c, Live(kind, req)) # Rejected
        /\ session = Viewed(Sender(c, Live(kind, req)))
    BY <2>2, <2>3 DEF Authenticated
  <2>5. AsSent(c, Live(kind, req), session)
    BY <2>1, <2>4, ServedAsSent
  <2>6. last'.kind = kind /\ last'.user = c /\ last'.req = req /\ last'.session = session
    BY <2>3
  <2> QED
    BY <2>5, <2>6
<1>5. ASSUME NEW session, NEW req, NEW before, NEW answer, GoOn(session, req, before, answer)
      PROVE  Ok(last')
  <2>1. last'.user = Nobody
    BY <1>5 DEF GoOn
  <2> QED
    BY <2>1
<1>6. SessionAsSent' <=> Ok(last')
  BY DEF SessionAsSent, AsSent
<1>7. ASSUME SessionAsSent, [SessionsNext]_last PROVE SessionAsSent'
  <2>1. CASE UNCHANGED last
    BY <1>7, <2>1 DEF SessionAsSent
  <2>2. CASE SessionsNext
    <3>1. Ok(last')
      BY <1>3, <1>4, <1>5, <2>2 DEF SessionsNext
    <3> QED
      BY <1>6, <3>1
  <2> QED
    BY <1>7, <2>1, <2>2
<1> QED
  BY <1>2, <1>7, PTL DEF SessionsSpec
=============================================================================
