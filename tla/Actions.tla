------------------------------- MODULE Actions -------------------------------
(***************************************************************************)
(* Actions: fields of the API that a webhook answers.  Who may run one     *)
(* (src/src/actions/permissions.ts), what its handler is told and how its  *)
(* answer is read (proxy.ts, transform.ts, shared/webhook.ts), the rows    *)
(* its output is related to (schema.ts), and what becomes of an            *)
(* asynchronous one, whose run AsyncActions models (schema.ts, rest.ts).   *)
(*                                                                         *)
(* JSON is [leaf, sub]: a scalar, or an object by its keys.                *)
(***************************************************************************)
EXTENDS Selects, Auth

CONSTANTS
  Configured,     \* name to [roles, url, timeout, headers, forward, request, response,
                  \* relationship]:
                  \* request and response are <<>> or one transform each, headers are
                  \* [name -> value], relationship is [type, mapping], fields to columns
  Lower,          \* header names in lower case
  MaxResponse,    \* the length of the longest answer that is read
  Handle(_, _),   \* how the handler of an action answers what it is told:
                  \* [seconds, length, ok, json, body]
  Jobs            \* id to [action, status, output, error], the asynchronous actions there are

Leaf(v) == [leaf |-> v, sub |-> <<>>]
Object(f) == [leaf |-> "{}", sub |-> f]
JsonNull == Leaf(Null)

-----------------------------------------------------------------------------
(* Permissions.                                                            *)

\* checkActionPermission: any of the allowed roles, taken or not, and what they inherit from.
CheckActionPermission(session, name) ==
  LET roles == session.roles
      constituents == UNION {ToSet(Inherited[i].of) :
                               i \in {i \in DOMAIN Inherited : Inherited[i].role \in roles}}
  IN session.isAdmin \/ (roles \cup constituents) \cap Configured[name].roles # {}

-----------------------------------------------------------------------------
(* Templates: [path, text, sub], a path into the variables, a text or an    *)
(* object of templates.                                                    *)

\* resolveVariable and getByPath: null for what is not there.
ResolveVariable(variables, path) ==
  FoldLeft(LAMBDA json, key : IF key \in DOMAIN json.sub THEN json.sub[key] ELSE JsonNull,
           Object(variables), path)

\* interpolateTemplate and interpolateString, of a single expression.
RECURSIVE Interpolate(_, _)
Interpolate(t, variables) ==
  CASE t.path # <<>> -> ResolveVariable(variables, t.path)
    [] t.path = <<>> /\ DOMAIN t.sub # {} ->
         Object([k \in DOMAIN t.sub |-> Interpolate(t.sub[k], variables)])
    [] OTHER -> Leaf(t.text)

\* applyRequestTransform: each template there is replaces its part, headers one by one.  The
\* content type is one more header, and query parameters are part of the URL.
ApplyRequestTransform(t, request, variables) ==
  LET Part(ts, old) == IF ts = <<>> THEN old ELSE Interpolate(ts[1], variables)
      Given(h) == Interpolate(t.headers[h], variables)
      Value(h) == IF Given(h) = JsonNull THEN "" ELSE Given(h).leaf
  IN [request EXCEPT !.method = IF t.method = NoValue THEN @ ELSE t.method,
                     !.url = Part(t.url, @), !.body = Part(t.body, @),
                     !.headers = [h \in DOMAIN t.headers |-> Value(h)] @@ @]

\* validateUrlSafe: a segment that leads out of the path is an error.
UrlIsSafe(request) == request.url # Leaf("..")

\* applyResponseTransform.
ApplyResponseTransform(t, body, sessionVariables) ==
  IF t.body = <<>> THEN body
  ELSE Interpolate(t.body[1], ("$body" :> body) @@ ("$session_variables" :> sessionVariables))

-----------------------------------------------------------------------------
(* The call of the handler.                                                *)

\* The claims as text, and the role that was taken under both namespaces.
SessionVariables(session) ==
  LET Full(name) == name[1] \o "-" \o name[2]
      Joined(claim) == FoldLeft(LAMBDA all, v : all \o "," \o v, Head(claim.vals),
                                Tail(claim.vals))
      Claim(text) == session.claims[CHOOSE n \in DOMAIN session.claims : Full(n) = text]
  IN Object([text \in {DefaultNamespace \o "-role", Hasura \o "-role"} |-> Leaf(session.role)] @@
            [text \in {Full(n) : n \in DOMAIN session.claims} |-> Leaf(Joined(Claim(text)))])

\* resolveWebhookHeaders, and the headers of the client that are forwarded: those of no name
\* that is configured, spelled as it is.
RequestHeaders(action, client) ==
  LET forwarded == {h \in DOMAIN client :
                      Lower[h] \notin {"host", "content-length", "content-type"}}
  IN IF action.forward THEN action.headers @@ Restrict(client, forwarded) ELSE action.headers

\* What the handler is told.
Request(session, name, input, client) ==
  LET action == Configured[name]
      variables == SessionVariables(session)
      body == Object(("input" :> Object(input)) @@ ("session_variables" :> variables))
      plain == [method |-> "POST", url |-> Leaf("handler"), body |-> body,
                headers |-> RequestHeaders(action, client)]
  IN IF action.request = <<>> THEN plain
     ELSE ApplyRequestTransform(action.request[1], plain,
            ("$body" :> body) @@ ("$session_variables" :> variables) @@ ("$base_url" :> plain.url))

Unanswered(error) == [error |-> error, data |-> JsonNull]

\* The error of a call: the message of its answer, or its error, or that of the delivery.
HandlerError(answer) ==
  LET given == IF answer.json THEN answer.body.sub ELSE <<>>
      Says(key) == key \in DOMAIN given /\ given[key].leaf \notin {Null, ""}
  IN CASE Says("message") -> given["message"].leaf
       [] ~Says("message") /\ Says("error") -> given["error"].leaf
       [] OTHER -> IF answer.read THEN "status" ELSE "delivery"

\* deliverWebhook: of an answer that is late, or too long, nothing is left.
DeliverWebhook(name, request) ==
  LET answer == Handle(name, request)
      read == answer.seconds <= Configured[name].timeout /\ answer.length <= MaxResponse
  IN [read |-> read, ok |-> read /\ answer.ok, json |-> read /\ answer.json,
      body |-> IF read THEN answer.body ELSE JsonNull]

\* executeAction, of a request that is made and sent if there is somewhere to send it.
ExecuteAction(session, name, request) ==
  LET action == Configured[name]
      answer == DeliverWebhook(name, request)
      Parsed(body) == IF action.response = <<>> THEN body
                      ELSE ApplyResponseTransform(action.response[1], body,
                                                  SessionVariables(session))
  IN IF ~action.url THEN Unanswered("no url")
     ELSE IF ~UrlIsSafe(request) THEN Unanswered("url")
     ELSE IF ~answer.ok THEN Unanswered(HandlerError(answer))
     ELSE IF ~answer.json THEN Unanswered("invalid")
     ELSE [error |-> "", data |-> Parsed(answer.body)]

-----------------------------------------------------------------------------
(* The fields.                                                             *)

\* makeActionRelationshipResolver: none without a permission or without the key.  The rows
\* are those of one compileSelect, without computed fields and aggregates.
RelatedRows(session, db, relationship, data, ask) ==
  LET mapping == relationship.mapping
      Key(field) == IF field \in DOMAIN data.sub THEN data.sub[field].leaf ELSE Null
      fields == SetToSeq(DOMAIN mapping)
      where == [i \in DOMAIN fields |->
                  [key |-> mapping[fields[i]], subs |-> <<>>,
                   ops |-> <<[op |-> "_eq", val |-> <<Key(fields[i])>>]>>]]
      p == Permission(session, "select")
      limit == IF relationship.type = "object" THEN Min({1, p.limit}) ELSE p.limit
      wanted == Filtered(session, db, p, FALSE, where, InOrder(db))
  IN IF ~Allowed(session, "select") \/ \E f \in DOMAIN mapping : Key(f) = Null THEN Refused("")
     ELSE AsJson(session, db, InOrder(db), p, Beneath(ask), Window(wanted, limit, 0))

\* makeActionResolver, and the relationship of its output; told is what the handler was.
RunAction(session, db, name, input, client, ask) ==
  LET request == Request(session, name, input, client)
      result == ExecuteAction(session, name, request)
      told == IF Configured[name].url /\ UrlIsSafe(request) THEN <<request>> ELSE <<>>
      related == IF OrdersCompile(Beneath(ask))
                 THEN RelatedRows(session, db, Configured[name].relationship, result.data, ask)
                 ELSE Refused("sql")
  IN IF ~CheckActionPermission(session, name)
       THEN Refused("denied") @@ [told |-> <<>>, data |-> JsonNull]
     ELSE IF result.error # "" THEN Refused(result.error) @@ [told |-> told, data |-> JsonNull]
     ELSE related @@ [told |-> told, data |-> result.data]

\* makeAsyncActionResultResolver: null until the action of that name has ended.
AsyncResult(session, name, id) ==
  LET job == Jobs[id]
      known == id \in DOMAIN Jobs /\ Jobs[id].action = name
  IN CASE ~CheckActionPermission(session, name) -> Unanswered("denied")
       [] CheckActionPermission(session, name) /\ known /\ job.status = "failed" ->
            Unanswered(job.error)
       [] CheckActionPermission(session, name) /\ known /\ job.status = "completed" ->
            [error |-> "", data |-> job.output]
       [] OTHER -> Unanswered("")

\* registerAsyncActionStatusRoute: of an action that is no longer configured only the
\* administrator sees anything.
AsyncStatus(session, id) ==
  LET configured == Jobs[id].action \in DOMAIN Configured
  IN CASE id \notin DOMAIN Jobs -> Unanswered("404")
       [] id \in DOMAIN Jobs /\ ~configured /\ ~session.isAdmin -> Unanswered("404")
       [] id \in DOMAIN Jobs /\ configured /\ ~CheckActionPermission(session, Jobs[id].action) ->
            Unanswered("403")
       [] OTHER -> [error |-> "", data |-> Jobs[id].output]
=============================================================================
