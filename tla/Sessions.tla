------------------------------ MODULE Sessions ------------------------------
(***************************************************************************)
(* Who asks: the requests of several senders, over HTTP and over a         *)
(* WebSocket, each answered for the session its sender has, or refused.    *)
(* What is asked and answered is left open here; Requests fills it in.     *)
(***************************************************************************)
EXTENDS Auth

CONSTANT Senders  \* [http, ws]: what a user sends along, as headers and as connectionParams

VARIABLE last     \* the last request: [kind, user, session, req, before, answer]

\* As in BoolExp, for TLC.
Credentials == Senders

Nobody == [role |-> NoValue]
Nothing == [kind |-> "none", user |-> Nobody, session |-> Nobody, req |-> <<>>, before |-> {},
            answer |-> <<>>]

Http(c) == Authenticate(c.http)
Ws(c) == AuthenticateWs(c.ws)
Sender(c, live) == IF live THEN Ws(c) ELSE Http(c)

\* Subscriptions come over the WebSocket.
Live(kind, req) == kind \in {"query", "call"} /\ req.live
SessionOf(kind, c, req) == Sender(c, Live(kind, req))

\* The session of the request, if its sender is not refused, as its handlers see it.
Authenticated(kind, c, req) ==
  {Viewed(session) : session \in {SessionOf(kind, c, req)} \ {Rejected}}

\* A request is answered for the session of its sender; before is what there was before it.
Serve(kind, c, req, before, answer) ==
  \E session \in Authenticated(kind, c, req) :
    last' = [kind |-> kind, user |-> c, session |-> session, req |-> req,
             before |-> before, answer |-> answer]

\* Or its sender is refused.
Refuse(c) ==
  /\ Http(c) = Rejected
  /\ last' = [Nothing EXCEPT !.kind = "rejected", !.user = c]

\* What is left to do of a request goes on with its session; nobody asks anew.
GoOn(session, req, before, answer) ==
  last' = [kind |-> "entry", user |-> Nobody, session |-> session, req |-> req,
           before |-> before, answer |-> answer]

SessionsNext ==
  \/ \E c \in Credentials :
       Refuse(c) \/ \E kind, req, before, answer : Serve(kind, c, req, before, answer)
  \/ \E session, req, before, answer : GoOn(session, req, before, answer)

SessionsSpec == last = Nothing /\ [][SessionsNext]_last

-----------------------------------------------------------------------------
(* Properties.                                                             *)

\* What a sender names directly or in a header, and the token it shows, if any.
Named(c, live, suffix) ==
  IF live THEN Param(c.ws, suffix) ELSE Find(c.http.names, Config.namespace, suffix, NoValue)
TokenOf(c, live) ==
  CASE live -> c.ws.tokens
    [] ~live /\ c.http.scheme = "Bearer" -> <<c.http.token>>
    [] OTHER -> <<>>

\* The role some claims give: the one asked for, if they allow it, else the one they name.
RolesByClaims(claims, namespace, suffix, asked) ==
  IF asked = NoValue THEN {Find(claims, namespace, suffix, One(NoValue)).vals[1]}
  ELSE {asked} \cap ToSet(Find(claims, namespace, "allowed-roles", One(NoValue)).vals)

\* The sender has the secret of the administrators.
Proven(c, live) ==
  Config.secret # NoValue /\ Named(c, live, "admin-secret") = Config.secret

\* Its token says that it has the role.
ByToken(c, live, role) ==
  LET token == TokenOf(c, live)[1] IN
  /\ Config.jwt /\ token.verified /\ (Config.requireExp => token.exp)
  /\ role \in RolesByClaims(ClaimsOf(token), Config.namespace, "default-role",
                            Named(c, live, "role"))

\* The webhook speaks for those who show neither a secret nor a token, by HTTP.
Hooked(c) ==
  /\ Config.webhook /\ c.http.answer.ok /\ c.http.scheme = NoValue
  /\ NoValue \in {Config.secret, Named(c, FALSE, "admin-secret")}
ByWebhook(c, live, role) ==
  /\ ~live /\ Hooked(c)
  /\ role \in RolesByClaims(c.http.answer.claims, DefaultNamespace, "role",
                            Named(c, FALSE, "role"))

\* The roles a sender may have ...
MayTake(c, live, role) ==
  CASE Proven(c, live) -> TRUE
    [] ~Proven(c, live) /\ TokenOf(c, live) # <<>> -> ByToken(c, live, role)
    [] OTHER -> ByWebhook(c, live, role) \/ role = Config.unauthorized

\* ... and when it may be an administrator.
MayAdminister(c, live, role) ==
  \/ Proven(c, live)
  \/ /\ Config.adminRoleIsAdmin /\ TokenOf(c, live) # <<>>
     /\ \/ role = "admin"
        \/ "admin" \in RolesByClaims(ClaimsOf(TokenOf(c, live)[1]), Config.namespace,
                                     "default-role", NoValue)

\* Whoever sends the same over HTTP and over the WebSocket.
SendsTheSame(c) ==
  /\ \A suffix \in {"admin-secret", "role"} : Named(c, TRUE, suffix) = Named(c, FALSE, suffix)
  /\ c.http.scheme \in {NoValue, "Bearer"}
  /\ c.http.scheme = NoValue => c.ws.tokens = <<>>
  /\ c.http.scheme = "Bearer" => c.ws.tokens # <<>> /\ c.ws.tokens[1] = c.http.token

SameSession(v, w) == v.role = w.role /\ v.vars = w.vars

\* A role is one the sender may take: with the right secret any; else one that a token which
\* was verified, and has not expired for ever, or else a webhook's answer, gives; and without
\* any of them the unauthorized one.  An administrator has shown the secret, or a token with
\* the role of administrators where that is enough.  And who sends the same has the same
\* role and variables over HTTP and over a WebSocket, which asks no webhook.
\* (middleware.ts, ws-auth.ts, claims.ts)
SessionAsSent ==
  LET c == last.user
      live == Live(last.kind, last.req)
  IN c # Nobody /\ last.kind # "rejected" =>
     /\ MayTake(c, live, last.session.role)
     /\ last.session.isAdmin => MayAdminister(c, live, last.session.role)
     /\ SendsTheSame(c) /\ ~Hooked(c) =>
          \E other \in {Viewed(Sender(c, ~live))} : SameSession(other, last.session)
=============================================================================
