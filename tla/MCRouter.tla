------------------------------ MODULE MCRouter ------------------------------
(* The route table against requests of every method to every route's     *)
(* path, an unknown path and a path missing its guid, with tokens of no  *)
(* scope or of one of the three scopes.                                   *)
EXTENDS Router

CONSTANTS g1

MCPaths == {<<"/info">>, <<"/users/", g1>>, <<"/spaces/", g1>>,
            <<"/registration">>, <<"/user_preferences">>, <<"/users/">>,
            <<"/unknown">>}

MCTokenScopes == {{}} \cup {{s} : s \in Scopes}
=============================================================================
