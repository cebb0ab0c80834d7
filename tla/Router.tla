------------------------------- MODULE Router -------------------------------
(***************************************************************************)
(* The HTTP route table of src/web/router.go.                             *)
(*                                                                         *)
(* NewRouter (lines 15-36) keys a map of middleware stacks by             *)
(* "METHOD /path".  Routes() (lines 38-46) walks that map, splits each    *)
(* key at its first space with strings.SplitN and registers the stack     *)
(* for that path and method on a gorilla mux router, under the key as     *)
(* its name.  Go walks a map in an unspecified order, so the routes are   *)
(* registered in any order.  A request is served by the first registered  *)
(* route whose path template and method match it.  The stack runs its     *)
(* middlewares in the order of Use, and stops at one that rejects the     *)
(* request.                                                                *)
(*                                                                         *)
(* A key or a path is a sequence of tokens: a method, the separator " ",  *)
(* path segments, and the template variable "{guid}".  The handlers, the  *)
(* logger's output and the error bodies are left out.                     *)
(***************************************************************************)
EXTENDS Naturals, Sequences, FiniteSetsExt

CONSTANTS
    Guids,        \* guids a request path can carry
    Methods,      \* HTTP methods of requests
    Paths,        \* request paths, as sequences of segments
    TokenScopes   \* the scope sets a request's token can carry

Sep == " "
Var == "{guid}"

\* The middlewares NewRouter builds (lines 20-24).
Logging == [kind |-> "logging"]
Authenticator(scopes) == [kind |-> "authenticator", scopes |-> scopes]

\* Mutant: the write authenticator is built with a misspelt scope.
WriteAuthenticatorTypo == Authenticator({"notification.write"})

WriteAuthenticator == Authenticator({"notifications.write"})

PreferencesReadAuthenticator == Authenticator({"notification_preferences.read"})

PreferencesWriteAuthenticator == Authenticator({"notification_preferences.write"})

\* The keys of the stacks map literal (lines 28-33).
KInfo == <<"GET", Sep, "/info">>

KUsers == <<"POST", Sep, "/users/", Var>>

KSpaces == <<"POST", Sep, "/spaces/", Var>>

KRegistration == <<"PUT", Sep, "/registration">>

KPrefsRead == <<"GET", Sep, "/user_preferences">>

KPrefsWrite == <<"PATCH", Sep, "/user_preferences">>

StackKeys == {KInfo, KUsers, KSpaces, KRegistration, KPrefsRead, KPrefsWrite}

\* Mutant: PUT /registration is built without its authenticator.
StacksRegistrationOpen ==
    [key \in StackKeys |->
       CASE key = KInfo         -> <<Logging>>
         [] key = KUsers        -> <<Logging, WriteAuthenticator>>
         [] key = KSpaces       -> <<Logging, WriteAuthenticator>>
         [] key = KRegistration -> <<Logging>>
         [] key = KPrefsRead    -> <<Logging, PreferencesReadAuthenticator>>
         [] key = KPrefsWrite   -> <<Logging, PreferencesWriteAuthenticator>>]

\* Mutant: POST /users/{guid} uses the authenticator before the logger.
StacksAuthFirst ==
    [key \in StackKeys |->
       CASE key = KInfo         -> <<Logging>>
         [] key = KUsers        -> <<WriteAuthenticator, Logging>>
         [] key = KSpaces       -> <<Logging, WriteAuthenticator>>
         [] key = KRegistration -> <<Logging, WriteAuthenticator>>
         [] key = KPrefsRead    -> <<Logging, PreferencesReadAuthenticator>>
         [] key = KPrefsWrite   -> <<Logging, PreferencesWriteAuthenticator>>]

\* NewRouter's stacks map: key "METHOD /path" to the middlewares of Use.
Stacks ==
    [key \in StackKeys |->
       CASE key = KInfo         -> <<Logging>>
         [] key = KUsers        -> <<Logging, WriteAuthenticator>>
         [] key = KSpaces       -> <<Logging, WriteAuthenticator>>
         [] key = KRegistration -> <<Logging, WriteAuthenticator>>
         [] key = KPrefsRead    -> <<Logging, PreferencesReadAuthenticator>>
         [] key = KPrefsWrite   -> <<Logging, PreferencesWriteAuthenticator>>]

\* The first of a set of positions, 0 when there is none: SelectInSeq of
\* SequencesExt, given the positions that pass its test.
FirstIndex(I) == IF I = {} THEN 0 ELSE Min(I)

\* strings.SplitN(s, sep, 2): the part before the first sep and the rest,
\* or s alone when sep does not occur.
SplitN(s, sep) ==
    LET i == FirstIndex({k \in 1..Len(s) : s[k] = sep})
    IN  IF i = 0 THEN <<s>> ELSE <<SubSeq(s, 1, i - 1), SubSeq(s, i + 1, Len(s))>>

\* A template segment matches itself; the variable matches any guid.
SegmentMatches(t, s) == t = s \/ (t = Var /\ s \in Guids)

TemplateMatches(t, p) ==
    /\ Len(t) = Len(p)
    /\ \A i \in 1..Len(t) : SegmentMatches(t[i], p[i])

\* Mutant: the route is registered without its Methods matcher.
MatchAnyMethod(r, req) == TemplateMatches(r.path, req.path)

\* A registered route matches on its path template and on its method.
Match(r, req) == TemplateMatches(r.path, req.path) /\ r.method = <<req.method>>

Scopes == {"notifications.write", "notification_preferences.read",
           "notification_preferences.write"}

Middlewares == {Logging} \cup {Authenticator(s) : s \in SUBSET Scopes}

\* The tokens the keys are made of.
KeyTokens == {"GET", "POST", "PUT", "PATCH", Sep, Var, "/info", "/users/",
              "/spaces/", "/registration", "/user_preferences"}

\* A mux route: the path and method parts of a key, the name, the stack.
MuxRoutes == [path : Seq(KeyTokens), method : Seq(KeyTokens), name : DOMAIN Stacks,
           stack : Seq(Middlewares)]

Requests == [method : Methods, path : Paths, scopes : TokenScopes]

NoRoute == <<>>

\* What serving one request did: the route (its name) that served it, and
\* which middlewares and handler ran.
Outcomes == [req : Requests, route : DOMAIN Stacks \cup {NoRoute},
             logged : BOOLEAN, handled : BOOLEAN]

VARIABLES
    remaining,  \* keys of the stacks map Routes() has not yet visited
    routes,     \* the mux's routes, in registration order
    last        \* the outcome of the last request served, if any

vars == <<remaining, routes, last>>

RouterTypeOK ==
    /\ remaining \subseteq DOMAIN Stacks
    /\ routes \in Seq(MuxRoutes)
    /\ last \in Outcomes \cup {NoRoute}

Init ==
    /\ remaining = DOMAIN Stacks
    /\ routes = <<>>
    /\ last = NoRoute

\* The route r.Handle(parts[1], stack).Methods(parts[0]).Name(name)
\* registers for a key of the stacks map.
MuxRoute(key) ==
    LET parts == SplitN(key, Sep)
    IN  [path |-> parts[2], method |-> parts[1], name |-> key,
         stack |-> Stacks[key]]

\* One iteration of the loop of Routes(): split the key and register its
\* stack for that path and method, named after the key.
RegisterRoute ==
    \E key \in remaining :
      /\ remaining' = remaining \ {key}
      /\ routes' = Append(routes, MuxRoute(key))
      /\ UNCHANGED last

\* The middleware m lets the request through.
Passes(m, req) == m.kind = "logging" \/ m.scopes \cap req.scopes # {}

\* The server, once Routes() has returned, serves a request: the first
\* matching route's stack runs up to the first middleware that rejects.
Serve ==
    /\ remaining = {}
    /\ \E req \in Requests :
         LET i == FirstIndex({k \in 1..Len(routes) : Match(routes[k], req)})
             chain == routes[i].stack
             \* the middlewares that run: up to and including a rejecting one
             ran == {k \in 1..Len(chain) : \A l \in 1..(k - 1) : Passes(chain[l], req)}
         IN  last' = IF i = 0
                       THEN [req |-> req, route |-> NoRoute,
                             logged |-> FALSE, handled |-> FALSE]
                       ELSE [req |-> req, route |-> routes[i].name,
                             logged |-> \E k \in ran : chain[k].kind = "logging",
                             handled |-> \A k \in 1..Len(chain) : Passes(chain[k], req)]
    /\ UNCHANGED <<remaining, routes>>

Next == RegisterRoute \/ Serve

Spec == Init /\ [][Next]_vars

(***************************************************************************)
(* Properties.                                                             *)
(***************************************************************************)

MethodOf(key) == key[1]

\* A request is served by a route of its own method and a template that
\* matches its path, whatever order Routes() registered the map in: GET and
\* PATCH /user_preferences share a path.
MethodRespected ==
    (last # NoRoute /\ last.route # NoRoute) =>
      /\ MethodOf(last.route) = last.req.method
      /\ TemplateMatches(SubSeq(last.route, 3, Len(last.route)), last.req.path)

\* A state-changing request (POST, PUT, PATCH) reaches its handler only
\* with a token that carries a write scope.
WritesNeedWriteScope ==
    (last # NoRoute /\ last.handled /\ last.req.method \in {"POST", "PUT", "PATCH"})
      => \E s \in last.req.scopes :
           s \in {"notifications.write", "notification_preferences.write"}

\* Every request a route matched is logged, the rejected ones included.
MatchedRequestsLogged ==
    (last # NoRoute /\ last.route # NoRoute) => last.logged
\* The key that owns a request: the one whose method is the request's and
\* whose template matches its path.  No two keys of the map own one request.
Owns(key, req) ==
    /\ MethodOf(key) = req.method
    /\ TemplateMatches(SubSeq(key, 3, Len(key)), req.path)

Owner(req) ==
    IF \E key \in StackKeys : Owns(key, req)
      THEN CHOOSE key \in StackKeys : Owns(key, req)
      ELSE NoRoute

\* What serving a request must give, read off the stacks map alone: no
\* route for a request no key owns; otherwise the owner's route, logged,
\* and handled when every middleware of its stack lets the request pass.
AnswerOf ==
    [req \in Requests |->
       LET key == Owner(req)
       IN  IF key = NoRoute
             THEN [req |-> req, route |-> NoRoute, logged |-> FALSE, handled |-> FALSE]
             ELSE [req |-> req, route |-> key, logged |-> TRUE,
                   handled |-> \A k \in 1..Len(Stacks[key]) : Passes(Stacks[key][k], req)]]

Answer(req) == AnswerOf[req]

\* The keys Routes() has registered so far.
RegisteredKeys == {routes[i].name : i \in 1..Len(routes)}

Table == INSTANCE RouteTable WITH Keys <- StackKeys, registered <- RegisteredKeys

\* The mux implements the route table: whatever order Go's map iteration
\* gave Routes(), each request is answered as its owner key dictates, so
\* the first-match rule of the mux never picks another route.
RoutesRefineTable == Table!Spec
=============================================================================
