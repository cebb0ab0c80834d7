CONSTANTS
    g1 = g1
    Guids = {g1}
    Methods = {"GET", "POST", "PUT", "PATCH"}
    Paths <- MCPaths
    TokenScopes <- MCTokenScopes
SPECIFICATION Spec
INVARIANTS
    RouterTypeOK
    MethodRespected
    WritesNeedWriteScope
    MatchedRequestsLogged
PROPERTY
    RoutesRefineTable
