SPECIFICATION FairSpec
CONSTANTS
    Accounts = {"x"}
    Workers = {w1, w2}
    Names = {"a"}
    MaxDepth = 2
    Targets <- MCPaths
    Ids = {1, 2, 3}
    SyncFolder <- MCPrivate
    SafeMode = FALSE
    None = None
    MaxEvents = 2
INVARIANTS
    TypeOK
    NoDuplicateFolder
    ResolvesToPath
    FolderInv
PROPERTIES
    CallsReturn
