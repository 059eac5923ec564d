SPECIFICATION Spec
CONSTANTS
    Accounts = {"x", "y"}
    Workers = {w1, w2}
    Names = {"a"}
    MaxDepth = 1
    Targets <- MCPaths
    Ids = {1, 2, 3}
    SyncFolder <- MCShared
    SafeMode = FALSE
    None = None
    MaxEvents = 0
INVARIANTS
    NoDuplicateFolder
