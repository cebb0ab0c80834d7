----------------------------- MODULE RouteTable -----------------------------
(***************************************************************************)
(* What the route table promises, with the mux left out: the keys of the  *)
(* stacks map are registered one at a time, in any order, and once all of *)
(* them are, a request is answered as the key that owns it dictates.  No  *)
(* order of registration appears: the answer is a function of the request.*)
(***************************************************************************)
CONSTANTS
    Keys,          \* the keys of the stacks map
    Requests,      \* the requests a client can send
    Answer(_)      \* Answer(req): the outcome of serving req, as its owner
                   \*   key (method and template) dictates

VARIABLES
    registered,    \* the keys registered so far
    last           \* the outcome of the last request served, if any

Init ==
    /\ registered = {}
    /\ last = <<>>

\* One more key of the map is registered.
Register(k) ==
    /\ k \in Keys \ registered
    /\ registered' = registered \cup {k}
    /\ UNCHANGED last

\* With every key registered, a request is served, and what it gets is the
\* answer its owner gives to that request.
Serve ==
    /\ registered = Keys
    /\ last' # <<>>
    /\ last'.req \in Requests
    /\ last' = Answer(last'.req)
    /\ UNCHANGED registered

Next == (\E k \in Keys : Register(k)) \/ Serve

Spec == Init /\ [][Next]_<<registered, last>>
=============================================================================
