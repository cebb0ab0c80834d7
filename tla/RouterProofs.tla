------------------------------ MODULE RouterProofs ------------------------------
(***************************************************************************)
(* Proofs about the route table of Router, for every set of guids,        *)
(* methods, paths and token scopes.  A served request's route, its        *)
(* method and the middlewares that ran are all read from routes[i] for    *)
(* the first matching i, so the invariants rest on a fact about the       *)
(* table: whatever order Routes() walked the stacks map in, every         *)
(* registered route is the record RegisterRoute builds from its key.     *)
(* That record is known once strings.SplitN is known on the six keys.    *)
(***************************************************************************)
EXTENDS Router, WellFoundedInduction, SequenceTheorems, TLAPS

\* The stacks map has exactly the six keys of NewRouter, with their stacks.
LEMMA StacksFacts ==
    /\ DOMAIN Stacks = StackKeys
    /\ Stacks[KInfo] = <<Logging>>
    /\ Stacks[KUsers] = <<Logging, WriteAuthenticator>>
    /\ Stacks[KSpaces] = <<Logging, WriteAuthenticator>>
    /\ Stacks[KRegistration] = <<Logging, WriteAuthenticator>>
    /\ Stacks[KPrefsRead] = <<Logging, PreferencesReadAuthenticator>>
    /\ Stacks[KPrefsWrite] = <<Logging, PreferencesWriteAuthenticator>>
BY DEF Stacks, StackKeys, KInfo, KUsers, KSpaces, KRegistration,
       KPrefsRead, KPrefsWrite, Sep, Var

\* A key is a method, the separator, then the path's segments: the
\* separator occurs at position 2 and nowhere else.
KeyShaped(k) ==
    /\ k \in Seq(KeyTokens)
    /\ Len(k) \in 3..4
    /\ k[1] \in {"GET", "POST", "PUT", "PATCH"}
    /\ {i \in 1..Len(k) : k[i] = Sep} = {2}

\* The methods the keys name.
Methods4 == {"GET", "POST", "PUT", "PATCH"}

\* A three-token key "METHOD /segment" is shaped so.
LEMMA Shape3 ==
    ASSUME NEW a \in Methods4, NEW b \in KeyTokens \ {Sep}
    PROVE  KeyShaped(<<a, Sep, b>>)
<1>1. <<a, Sep, b>> \in Seq(KeyTokens) /\ Len(<<a, Sep, b>>) = 3
  BY DEF KeyTokens, Methods4
<1>2. {i \in 1..3 : <<a, Sep, b>>[i] = Sep} = {2}
  <2>1. 1..3 = {1, 2, 3}
    OBVIOUS
  <2>2. <<a, Sep, b>>[1] # Sep /\ <<a, Sep, b>>[3] # Sep
    BY DEF Methods4, Sep
  <2>. QED BY <2>1, <2>2
<1>. QED BY <1>1, <1>2 DEF KeyShaped, Methods4

\* A four-token key "METHOD /segment/{guid}" is shaped so.
LEMMA Shape4 ==
    ASSUME NEW a \in Methods4, NEW b \in KeyTokens \ {Sep},
           NEW c \in KeyTokens \ {Sep}
    PROVE  KeyShaped(<<a, Sep, b, c>>)
<1>1. <<a, Sep, b, c>> \in Seq(KeyTokens) /\ Len(<<a, Sep, b, c>>) = 4
  BY DEF KeyTokens, Methods4
<1>2. {i \in 1..4 : <<a, Sep, b, c>>[i] = Sep} = {2}
  <2>1. 1..4 = {1, 2, 3, 4}
    OBVIOUS
  <2>2. <<a, Sep, b, c>>[1] # Sep /\ <<a, Sep, b, c>>[3] # Sep
        /\ <<a, Sep, b, c>>[4] # Sep
    BY DEF Methods4, Sep
  <2>. QED BY <2>1, <2>2
<1>. QED BY <1>1, <1>2 DEF KeyShaped, Methods4

\* Every key of the stacks map is shaped so.
LEMMA KeyShape ==
    ASSUME NEW key \in StackKeys
    PROVE  /\ key \in Seq(KeyTokens)
           /\ Len(key) \in 3..4
           /\ key[1] \in {"GET", "POST", "PUT", "PATCH"}
           /\ {k \in 1..Len(key) : key[k] = Sep} = {2}
<1>1. /\ "GET" \in Methods4 /\ "POST" \in Methods4
      /\ "PUT" \in Methods4 /\ "PATCH" \in Methods4
      /\ \A t \in {Var, "/info", "/users/", "/spaces/", "/registration",
                   "/user_preferences"} : t \in KeyTokens \ {Sep}
  BY DEF Methods4, KeyTokens, Sep, Var
<1>2. /\ KeyShaped(KInfo) /\ KeyShaped(KRegistration)
      /\ KeyShaped(KPrefsRead) /\ KeyShaped(KPrefsWrite)
  BY <1>1, Shape3 DEF KInfo, KRegistration, KPrefsRead, KPrefsWrite
<1>3. KeyShaped(KUsers) /\ KeyShaped(KSpaces)
  BY <1>1, Shape4 DEF KUsers, KSpaces
<1>4. KeyShaped(key)
  BY <1>2, <1>3, Zenon DEF StackKeys
<1>. QED BY <1>4 DEF KeyShaped

\* strings.SplitN(key, " ", 2) gives the method and the path template.
LEMMA SplitKey ==
    ASSUME NEW key \in StackKeys
    PROVE  /\ SplitN(key, Sep) = <<SubSeq(key, 1, 1), SubSeq(key, 3, Len(key))>>
           /\ SubSeq(key, 1, 1) \in Seq(KeyTokens)
           /\ Len(SubSeq(key, 1, 1)) = 1
           /\ SubSeq(key, 1, 1)[1] = key[1]
           /\ SubSeq(key, 3, Len(key)) \in Seq(KeyTokens)
<1>1. /\ key \in Seq(KeyTokens)
      /\ Len(key) \in 3..4
      /\ {k \in 1..Len(key) : key[k] = Sep} = {2}
  BY KeyShape
<1>2. FirstIndex({k \in 1..Len(key) : key[k] = Sep}) = 2
  BY <1>1 DEF FirstIndex, Min
<1>3. \A i \in 1..Len(key) : key[i] \in KeyTokens
  BY <1>1, ElementOfSeq
<1>4. /\ SubSeq(key, 1, 1) \in Seq(KeyTokens)
      /\ Len(SubSeq(key, 1, 1)) = 1
      /\ SubSeq(key, 1, 1)[1] = key[1]
  <2>1. \A i \in 1..1 : key[i] \in KeyTokens
    BY <1>1, <1>3
  <2>. QED BY <2>1, SubSeqProperties
<1>6. SubSeq(key, 3, Len(key)) \in Seq(KeyTokens)
  <2>1. \A i \in 3..Len(key) : key[i] \in KeyTokens
    BY <1>1, <1>3
  <2>. QED BY <1>1, <2>1, SubSeqProperties
<1>7. SplitN(key, Sep) = <<SubSeq(key, 1, 2 - 1), SubSeq(key, 2 + 1, Len(key))>>
  <2> DEFINE F == FirstIndex({k \in 1..Len(key) : key[k] = Sep})
  <2>1. SplitN(key, Sep) = IF F = 0 THEN <<key>>
                           ELSE <<SubSeq(key, 1, F - 1), SubSeq(key, F + 1, Len(key))>>
    BY DEF SplitN
  <2>2. F = 2
    BY <1>2
  <2>. HIDE DEF F
  <2>. QED BY <2>1, <2>2
<1>. QED BY <1>4, <1>6, <1>7

\* Every stack is a sequence of middlewares, the logger first.
LEMMA StackShape ==
    ASSUME NEW key \in StackKeys
    PROVE  /\ Stacks[key] \in Seq(Middlewares)
           /\ Len(Stacks[key]) >= 1
           /\ Stacks[key][1] = Logging
<1>1. /\ Logging \in Middlewares
      /\ WriteAuthenticator \in Middlewares
      /\ PreferencesReadAuthenticator \in Middlewares
      /\ PreferencesWriteAuthenticator \in Middlewares
  BY DEF Middlewares, Authenticator, WriteAuthenticator,
     PreferencesReadAuthenticator, PreferencesWriteAuthenticator, Scopes
<1>2. \A a, b \in Middlewares :
        /\ <<a>> \in Seq(Middlewares) /\ Len(<<a>>) >= 1 /\ <<a>>[1] = a
        /\ <<a, b>> \in Seq(Middlewares) /\ Len(<<a, b>>) >= 1 /\ <<a, b>>[1] = a
  OBVIOUS
<1>3. Stacks[key] \in {<<Logging>>, <<Logging, WriteAuthenticator>>,
                       <<Logging, PreferencesReadAuthenticator>>,
                       <<Logging, PreferencesWriteAuthenticator>>}
  BY StacksFacts, Zenon DEF StackKeys
<1>. QED BY <1>1, <1>2, <1>3

\* The route registered for a key: its method, its path template, its name
\* and its stack, and its type.
LEMMA MuxRouteFacts ==
    ASSUME NEW key \in StackKeys
    PROVE  /\ MuxRoute(key).method = SubSeq(key, 1, 1)
           /\ MuxRoute(key).path = SubSeq(key, 3, Len(key))
           /\ MuxRoute(key).name = key
           /\ MuxRoute(key).stack = Stacks[key]
           /\ MuxRoute(key) \in MuxRoutes
<1>1. /\ SplitN(key, Sep) = <<SubSeq(key, 1, 1), SubSeq(key, 3, Len(key))>>
      /\ SubSeq(key, 1, 1) \in Seq(KeyTokens)
      /\ SubSeq(key, 3, Len(key)) \in Seq(KeyTokens)
  BY SplitKey
<1>2. Stacks[key] \in Seq(Middlewares)
  BY StackShape
<1>. QED BY <1>1, <1>2, StacksFacts DEF MuxRoute, MuxRoutes

\* The least of a nonempty set of naturals exists: Min picks it.
LEMMA MinOfPositions ==
    ASSUME NEW I \in SUBSET Nat, I # {}
    PROVE  Min(I) \in I /\ \A y \in I : Min(I) <= y
<1>1. \E x \in I : \A y \in I : ~ (<<y, x>> \in OpToRel(<, Nat))
  BY WFMin, NatLessThanWellFounded
<1>2. \A x, y \in Nat : <<y, x>> \in OpToRel(<, Nat) <=> y < x
  BY DEF OpToRel
<1>3. \E x \in I : \A y \in I : ~ (y < x)
  BY <1>1, <1>2, Zenon
<1>4. \E x \in I : \A y \in I : x <= y
  BY <1>3
<1>. QED BY <1>4 DEF Min

\* A route a request matched answers to its key's method and template.
LEMMA ServedRoute ==
    ASSUME NEW key \in StackKeys, NEW req \in Requests, Match(MuxRoute(key), req)
    PROVE  /\ MethodOf(key) = req.method
           /\ TemplateMatches(SubSeq(key, 3, Len(key)), req.path)
<1>1. /\ MuxRoute(key).method = SubSeq(key, 1, 1)
      /\ MuxRoute(key).path = SubSeq(key, 3, Len(key))
  BY MuxRouteFacts
<1>2. SubSeq(key, 1, 1)[1] = key[1]
  BY SplitKey
<1>3. SubSeq(key, 1, 1) = <<req.method>>
  BY <1>1 DEF Match
<1>. QED BY <1>1, <1>2, <1>3 DEF Match, MethodOf

\* The logger is the first middleware of every stack, so it always runs.
LEMMA LoggerRuns ==
    ASSUME NEW key \in StackKeys, NEW req
    PROVE  \E k \in {k \in 1..Len(Stacks[key]) :
                       \A l \in 1..(k - 1) : Passes(Stacks[key][l], req)} :
             Stacks[key][k].kind = "logging"
<1>1. Len(Stacks[key]) >= 1 /\ Stacks[key][1] = Logging
  BY StackShape
<1>2. Logging.kind = "logging"
  BY DEF Logging
<1>. QED BY <1>1, <1>2

\* The stack of a POST, PUT or PATCH key ends in a write authenticator.
LEMMA WriteGuarded ==
    ASSUME NEW key \in StackKeys, NEW req,
           key[1] \in {"POST", "PUT", "PATCH"},
           \A k \in 1..Len(Stacks[key]) : Passes(Stacks[key][k], req)
    PROVE  \E s \in req.scopes :
             s \in {"notifications.write", "notification_preferences.write"}
<1>1. KInfo[1] = "GET" /\ KPrefsRead[1] = "GET"
  BY DEF KInfo, KPrefsRead
<1>2. key \in {KUsers, KSpaces, KRegistration, KPrefsWrite}
  BY <1>1 DEF StackKeys
<1>3. Stacks[key] \in {<<Logging, WriteAuthenticator>>,
                       <<Logging, PreferencesWriteAuthenticator>>}
  BY <1>2, StacksFacts, Zenon
<1>4. Passes(Stacks[key][2], req)
  BY <1>3
<1>5. /\ WriteAuthenticator.kind # "logging"
      /\ WriteAuthenticator.scopes = {"notifications.write"}
      /\ PreferencesWriteAuthenticator.kind # "logging"
      /\ PreferencesWriteAuthenticator.scopes = {"notification_preferences.write"}
  BY DEF WriteAuthenticator, PreferencesWriteAuthenticator, Authenticator
<1>. QED BY <1>3, <1>4, <1>5 DEF Passes

(***************************************************************************)
(* The inductive invariant: every registered route is the one             *)
(* RegisterRoute builds from a key of the stacks map, and the three       *)
(* properties of the last outcome.  The first conjunct carries the        *)
(* second: Serve reads the route's method, template and stack from        *)
(* routes[i].                                                              *)
(***************************************************************************)
RoutesBuilt ==
    \A i \in 1..Len(routes) :
      routes[i].name \in StackKeys /\ routes[i] = MuxRoute(routes[i].name)

TInv ==
    /\ RouterTypeOK
    /\ RoutesBuilt
    /\ MethodRespected
    /\ WritesNeedWriteScope
    /\ MatchedRequestsLogged

\* NewRouter's state before Routes() runs satisfies the invariant.
LEMMA InitTInv == Init => TInv
<1>1. DOMAIN Stacks = StackKeys
  BY StacksFacts
<1>. QED BY <1>1 DEF Init, TInv, RouterTypeOK, RoutesBuilt, MethodRespected,
            WritesNeedWriteScope, MatchedRequestsLogged
\* A loop iteration of Routes() and a served request both keep it.
LEMMA NextTInv == TInv /\ [Next]_vars => TInv'
<1> SUFFICES ASSUME TInv, [Next]_vars PROVE TInv'
  OBVIOUS
<1>0. DOMAIN Stacks = StackKeys
  BY StacksFacts
<1>1. CASE RegisterRoute
  <2>1. PICK key \in remaining :
          /\ remaining' = remaining \ {key}
          /\ routes' = Append(routes, MuxRoute(key))
          /\ UNCHANGED last
    BY <1>1 DEF RegisterRoute
  <2>2. key \in StackKeys
    BY <1>0, <2>1 DEF TInv, RouterTypeOK
  <2>3. MuxRoute(key) \in MuxRoutes /\ MuxRoute(key).name = key
    BY <2>2, MuxRouteFacts
  <2>4. RouterTypeOK'
    BY <2>1, <2>3 DEF TInv, RouterTypeOK
  <2>5. RoutesBuilt'
    BY <2>1, <2>2, <2>3 DEF TInv, RouterTypeOK, RoutesBuilt
  <2>6. (MethodRespected /\ WritesNeedWriteScope /\ MatchedRequestsLogged)'
    BY <2>1 DEF TInv, MethodRespected, WritesNeedWriteScope, MatchedRequestsLogged
  <2>. QED BY <2>4, <2>5, <2>6 DEF TInv
<1>2. CASE Serve
  <2>1. PICK req \in Requests :
          LET i == FirstIndex({k \in 1..Len(routes) : Match(routes[k], req)})
              chain == routes[i].stack
              ran == {k \in 1..Len(chain) : \A l \in 1..(k - 1) : Passes(chain[l], req)}
          IN  last' = IF i = 0
                        THEN [req |-> req, route |-> NoRoute,
                              logged |-> FALSE, handled |-> FALSE]
                        ELSE [req |-> req, route |-> routes[i].name,
                              logged |-> \E k \in ran : chain[k].kind = "logging",
                              handled |-> \A k \in 1..Len(chain) : Passes(chain[k], req)]
    BY <1>2 DEF Serve
  <2>2. UNCHANGED <<remaining, routes>>
    BY <1>2 DEF Serve
  <2> DEFINE I == {k \in 1..Len(routes) : Match(routes[k], req)}
  <2>3. CASE I = {}
    <3>1. last' = [req |-> req, route |-> NoRoute, logged |-> FALSE, handled |-> FALSE]
      BY <2>1, <2>3 DEF FirstIndex
    <3>2. RouterTypeOK'
      BY <2>2, <3>1 DEF TInv, RouterTypeOK, Outcomes
    <3>3. (MethodRespected /\ WritesNeedWriteScope /\ MatchedRequestsLogged)'
      BY <3>1 DEF MethodRespected, WritesNeedWriteScope, MatchedRequestsLogged
    <3>. QED BY <2>2, <3>2, <3>3 DEF TInv, RoutesBuilt
  <2>4. CASE I # {}
    <3> DEFINE i == Min(I)
               key == routes[i].name
               chain == routes[i].stack
               ran == {k \in 1..Len(chain) : \A l \in 1..(k - 1) : Passes(chain[l], req)}
    <3>1. i \in I
      BY <2>4, MinOfPositions
    <3>2. /\ i \in 1..Len(routes)
          /\ Match(routes[i], req)
          /\ i # 0
      BY <3>1
    <3>3. last' = [req |-> req, route |-> key,
                   logged |-> \E k \in ran : chain[k].kind = "logging",
                   handled |-> \A k \in 1..Len(chain) : Passes(chain[k], req)]
      BY <2>1, <2>4, <3>2 DEF FirstIndex
    <3>4. key \in StackKeys /\ routes[i] = MuxRoute(key)
      BY <3>2 DEF TInv, RoutesBuilt
    <3>5. chain = Stacks[key]
      BY <3>4, MuxRouteFacts
    <3>7. RouterTypeOK'
      BY <2>2, <3>3, <3>4, <1>0 DEF TInv, RouterTypeOK, Outcomes
    <3>8. MethodRespected'
      <4>1. MethodOf(key) = req.method
            /\ TemplateMatches(SubSeq(key, 3, Len(key)), req.path)
        BY <3>2, <3>4, ServedRoute
      <4>. QED BY <3>3, <4>1 DEF MethodRespected
    <3>9. MatchedRequestsLogged'
      <4>1. \E k \in ran : chain[k].kind = "logging"
        BY <3>4, <3>5, LoggerRuns
      <4>. QED BY <3>3, <4>1 DEF MatchedRequestsLogged
    <3>10. WritesNeedWriteScope'
      <4> SUFFICES ASSUME last'.handled, last'.req.method \in {"POST", "PUT", "PATCH"}
                   PROVE  \E s \in last'.req.scopes :
                            s \in {"notifications.write", "notification_preferences.write"}
        BY DEF WritesNeedWriteScope
      <4>1. \A k \in 1..Len(Stacks[key]) : Passes(Stacks[key][k], req)
        BY <3>3, <3>5
      <4>2. key[1] \in {"POST", "PUT", "PATCH"}
        <5>1. MethodOf(key) = req.method
          BY <3>2, <3>4, ServedRoute
        <5>. QED BY <3>3, <5>1 DEF MethodOf
      <4>. QED BY <3>3, <3>4, <4>1, <4>2, WriteGuarded
    <3>. QED BY <2>2, <3>7, <3>8, <3>9, <3>10 DEF TInv, RoutesBuilt
  <2>. QED BY <2>3, <2>4
<1>3. CASE UNCHANGED vars
  BY <1>3 DEF vars, TInv, RouterTypeOK, RoutesBuilt, MethodRespected,
     WritesNeedWriteScope, MatchedRequestsLogged
<1>. QED BY <1>1, <1>2, <1>3 DEF Next

\* The invariant holds in every state of every behaviour of the router.
THEOREM RouterSpecInvariant == Spec => []TInv
<1>1. Init => TInv
  BY InitTInv
<1>2. TInv /\ [Next]_vars => TInv'
  BY NextTInv
<1>. QED BY <1>1, <1>2, PTL DEF Spec

\* Routes() registers, and the mux serves from, only well-formed routes:
\* the table, the keys left to visit and the last outcome keep their types.
THEOREM RouterTypeCorrect == Spec => []RouterTypeOK
BY RouterSpecInvariant, PTL DEF TInv

\* Whatever order Go's map iteration gave Routes(), a served request ran
\* the route of its own method and a template that matches its path.
THEOREM ServedByOwnMethod == Spec => []MethodRespected
BY RouterSpecInvariant, PTL DEF TInv

\* A POST, PUT or PATCH reaches its handler only through a stack whose
\* authenticator found a write scope on the token.
THEOREM WritesAuthenticated == Spec => []WritesNeedWriteScope
BY RouterSpecInvariant, PTL DEF TInv

\* The logger heads every stack, so every matched request is logged.
THEOREM MatchedAlwaysLogged == Spec => []MatchedRequestsLogged
BY RouterSpecInvariant, PTL DEF TInv
(***************************************************************************)
(* The mux implements the route table.  No two keys of the stacks map own *)
(* the same request: keys of one method differ in their first path        *)
(* segment, which is a literal.  So the first matching route, whatever    *)
(* the order of registration, is the owner's.                              *)
(***************************************************************************)

\* A key's first path segment is a literal, and a key is fixed by its
\* method and that segment.
LEMMA KeyHeads ==
    /\ \A key \in StackKeys : key[3] # Var /\ Len(key) >= 3
    /\ \A k1, k2 \in StackKeys : k1[1] = k2[1] /\ k1[3] = k2[3] => k1 = k2
BY DEF StackKeys, KInfo, KUsers, KSpaces, KRegistration, KPrefsRead,
       KPrefsWrite, Sep, Var

\* A key owns a request only if the request has the key's method and
\* starts with the key's first segment.
LEMMA OwnsHead ==
    ASSUME NEW key \in StackKeys, NEW req, Owns(key, req)
    PROVE  key[1] = req.method /\ key[3] = req.path[1]
<1> DEFINE t == SubSeq(key, 3, Len(key))
<1>1. key[3] # Var /\ Len(key) \in 3..4 /\ key \in Seq(KeyTokens)
  BY KeyHeads, KeyShape
<1>2. Len(t) = Len(key) - 2 /\ t[1] = key[3]
  BY <1>1
<1>3. SegmentMatches(t[1], req.path[1])
  BY <1>1, <1>2 DEF Owns, TemplateMatches
<1>. QED BY <1>1, <1>2, <1>3 DEF Owns, MethodOf, SegmentMatches

\* At most one key owns a request.
LEMMA OwnerUnique ==
    ASSUME NEW k1 \in StackKeys, NEW k2 \in StackKeys, NEW req,
           Owns(k1, req), Owns(k2, req)
    PROVE  k1 = k2
BY OwnsHead, KeyHeads

\* The route registered for a key matches exactly the requests the key owns.
LEMMA OwnsMatch ==
    ASSUME NEW key \in StackKeys, NEW req \in Requests
    PROVE  Match(MuxRoute(key), req) <=> Owns(key, req)
<1>1. /\ MuxRoute(key).method = SubSeq(key, 1, 1)
      /\ MuxRoute(key).path = SubSeq(key, 3, Len(key))
  BY MuxRouteFacts
<1>2. /\ SubSeq(key, 1, 1) \in Seq(KeyTokens)
      /\ Len(SubSeq(key, 1, 1)) = 1
      /\ SubSeq(key, 1, 1)[1] = key[1]
  BY SplitKey
<1>3. SubSeq(key, 1, 1) = <<key[1]>>
  <2>1. key[1] \in KeyTokens
    BY <1>2
  <2>2. /\ <<key[1]>> \in Seq(KeyTokens)
        /\ Len(<<key[1]>>) = 1
        /\ <<key[1]>>[1] = key[1]
    BY <2>1
  <2>3. \A i \in 1..Len(SubSeq(key, 1, 1)) : SubSeq(key, 1, 1)[i] = <<key[1]>>[i]
    BY <1>2, <2>2
  <2>. QED BY <1>2, <2>2, <2>3, SeqEqual, Zenon
<1>4. SubSeq(key, 1, 1) = <<req.method>> <=> key[1] = req.method
  BY <1>3
<1>. QED BY <1>1, <1>4 DEF Match, Owns, MethodOf

\* The owner of a request some key owns is that key.
LEMMA OwnerIs ==
    ASSUME NEW key \in StackKeys, NEW req, Owns(key, req)
    PROVE  Owner(req) = key
BY OwnerUnique DEF Owner

\* The names of a table with one more route appended.
LEMMA NamesAppend ==
    ASSUME NEW S, NEW s \in Seq(S), NEW x \in S
    PROVE  {Append(s, x)[i].name : i \in 1..Len(Append(s, x))}
             = {s[i].name : i \in 1..Len(s)} \cup {x.name}
<1>1. Len(Append(s, x)) = Len(s) + 1
  OBVIOUS
<1>2. \A i \in 1..Len(s) : Append(s, x)[i] = s[i]
  OBVIOUS
<1>3. Append(s, x)[Len(s) + 1] = x
  OBVIOUS
<1>. QED BY <1>1, <1>2, <1>3

\* Routes() has visited exactly the keys it has registered: the keys left
\* are the map's keys without a route yet.
Visited == remaining = StackKeys \ RegisteredKeys

\* The visited keys and the invariant of the router hold together.
LEMMA VisitedHolds == Spec => [](TInv /\ Visited)
<1>1. Init => Visited
  <2>. SUFFICES ASSUME Init PROVE Visited
    OBVIOUS
  <2>1. RegisteredKeys = {}
    BY DEF Init, RegisteredKeys
  <2>. QED BY <2>1, StacksFacts DEF Init, Visited
<1>2. TInv /\ Visited /\ [Next]_vars => Visited'
  <2>. SUFFICES ASSUME TInv, Visited, [Next]_vars PROVE Visited'
    OBVIOUS
  <2>1. CASE RegisterRoute
    <3>1. PICK key \in remaining :
            /\ remaining' = remaining \ {key}
            /\ routes' = Append(routes, MuxRoute(key))
      BY <2>1 DEF RegisterRoute
    <3>2. key \in StackKeys /\ MuxRoute(key) \in MuxRoutes /\ MuxRoute(key).name = key
      BY <3>1, MuxRouteFacts DEF Visited
    <3>3. routes \in Seq(MuxRoutes)
      BY DEF TInv, RouterTypeOK
    <3>4. RegisteredKeys' = RegisteredKeys \cup {key}
      BY <3>1, <3>2, <3>3, NamesAppend DEF RegisteredKeys
    <3>. QED BY <3>1, <3>4 DEF Visited
  <2>2. CASE Serve
    BY <2>2 DEF Serve, Visited, RegisteredKeys
  <2>3. CASE UNCHANGED vars
    BY <2>3 DEF vars, Visited, RegisteredKeys
  <2>. QED BY <2>1, <2>2, <2>3 DEF Next
<1>. QED BY <1>1, <1>2, InitTInv, NextTInv, PTL DEF Spec

\* Once Routes() has returned, every key of the map has a route in the
\* table, the one RegisterRoute built from it.
LEMMA AllRegistered ==
    ASSUME TInv, Visited, remaining = {}, NEW key \in StackKeys
    PROVE  \E i \in 1..Len(routes) : routes[i] = MuxRoute(key)
<1>1. PICK i \in 1..Len(routes) : routes[i].name = key
  BY DEF Visited, RegisteredKeys
<1>. QED BY <1>1 DEF TInv, RoutesBuilt

\* A step of the router is a step of the route table or leaves the
\* registered keys and the last outcome alone.
LEMMA TableStep ==
    ASSUME TInv, Visited, [Next]_vars
    PROVE  [Table!Next]_<<RegisteredKeys, last>>
<1>0. routes \in Seq(MuxRoutes)
  BY DEF TInv, RouterTypeOK
<1>1. CASE RegisterRoute
  <2>1. PICK key \in remaining :
          /\ remaining' = remaining \ {key}
          /\ routes' = Append(routes, MuxRoute(key))
          /\ UNCHANGED last
    BY <1>1 DEF RegisterRoute
  <2>2. key \in StackKeys \ RegisteredKeys
    BY <2>1 DEF Visited
  <2>3. MuxRoute(key) \in MuxRoutes /\ MuxRoute(key).name = key
    BY <2>2, MuxRouteFacts
  <2>4. RegisteredKeys' = RegisteredKeys \cup {key}
    BY <1>0, <2>1, <2>3, NamesAppend DEF RegisteredKeys
  <2>. QED BY <2>1, <2>2, <2>4 DEF Table!Next, Table!Register
<1>2. CASE Serve
  <2>1. PICK req \in Requests :
          LET i == FirstIndex({k \in 1..Len(routes) : Match(routes[k], req)})
              chain == routes[i].stack
              ran == {k \in 1..Len(chain) : \A l \in 1..(k - 1) : Passes(chain[l], req)}
          IN  last' = IF i = 0
                        THEN [req |-> req, route |-> NoRoute,
                              logged |-> FALSE, handled |-> FALSE]
                        ELSE [req |-> req, route |-> routes[i].name,
                              logged |-> \E k \in ran : chain[k].kind = "logging",
                              handled |-> \A k \in 1..Len(chain) : Passes(chain[k], req)]
    BY <1>2 DEF Serve
  <2>2. UNCHANGED <<remaining, routes>> /\ remaining = {}
    BY <1>2 DEF Serve
  <2>3. RegisteredKeys = StackKeys /\ RegisteredKeys' = RegisteredKeys
    <3>1. RegisteredKeys \subseteq StackKeys
      BY DEF TInv, RoutesBuilt, RegisteredKeys
    <3>. QED BY <2>2, <3>1 DEF Visited, RegisteredKeys
  <2> DEFINE I == {k \in 1..Len(routes) : Match(routes[k], req)}
  <2>4. SUFFICES last' = Answer(req)
    <3>1. last'.req = req /\ last' # <<>>
      BY <2>1 DEF FirstIndex
    <3>. QED BY <2>3, <3>1 DEF Table!Next, Table!Serve
  <2>5. CASE I = {}
    <3>1. last' = [req |-> req, route |-> NoRoute, logged |-> FALSE, handled |-> FALSE]
      BY <2>1, <2>5 DEF FirstIndex
    <3>2. ~ \E key \in StackKeys : Owns(key, req)
      <4>. SUFFICES ASSUME NEW key \in StackKeys, Owns(key, req) PROVE FALSE
        OBVIOUS
      <4>1. PICK i \in 1..Len(routes) : routes[i] = MuxRoute(key)
        BY <2>2, AllRegistered
      <4>2. Match(routes[i], req)
        BY <4>1, OwnsMatch
      <4>. QED BY <2>5, <4>2
    <3>3. Owner(req) = NoRoute
      BY <3>2 DEF Owner
    <3>. QED BY <3>1, <3>3 DEF Answer, AnswerOf
  <2>6. CASE I # {}
    <3> DEFINE i == Min(I)
               key == routes[i].name
               chain == routes[i].stack
               ran == {k \in 1..Len(chain) : \A l \in 1..(k - 1) : Passes(chain[l], req)}
    <3>1. i \in I
      BY <2>6, MinOfPositions
    <3>2. /\ i \in 1..Len(routes)
          /\ Match(routes[i], req)
          /\ i # 0
      BY <3>1
    <3>3. last' = [req |-> req, route |-> key,
                   logged |-> \E k \in ran : chain[k].kind = "logging",
                   handled |-> \A k \in 1..Len(chain) : Passes(chain[k], req)]
      BY <2>1, <2>6, <3>2 DEF FirstIndex
    <3>4. key \in StackKeys /\ routes[i] = MuxRoute(key)
      BY <3>2 DEF TInv, RoutesBuilt
    <3>5. chain = Stacks[key]
      BY <3>4, MuxRouteFacts
    <3>6. Owner(req) = key
      <4>1. Owns(key, req)
        BY <3>2, <3>4, OwnsMatch
      <4>. QED BY <3>4, <4>1, OwnerIs
    <3>7. \E k \in ran : chain[k].kind = "logging"
      BY <3>4, <3>5, LoggerRuns
    <3>8. key # NoRoute
      BY <3>4, KeyShape DEF NoRoute
    <3>. QED BY <3>3, <3>5, <3>6, <3>7, <3>8 DEF Answer, AnswerOf
  <2>. QED BY <2>5, <2>6
<1>3. CASE UNCHANGED vars
  BY <1>3 DEF vars, RegisteredKeys
<1>. QED BY <1>1, <1>2, <1>3 DEF Next

\* Whatever order Go's map iteration gave Routes(), the mux answers every
\* request as the key that owns it dictates: the router implements the
\* route table.
THEOREM RouterImplementsTable == Spec => RoutesRefineTable
<1>1. Init => Table!Init
  BY DEF Init, Table!Init, RegisteredKeys, NoRoute
<1>2. TInv /\ Visited /\ [Next]_vars => [Table!Next]_<<RegisteredKeys, last>>
  BY TableStep
<1>. QED BY <1>1, <1>2, VisitedHolds, PTL DEF Spec, RoutesRefineTable, Table!Spec
====
