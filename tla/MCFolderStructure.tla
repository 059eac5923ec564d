-------------------------- MODULE MCFolderStructure --------------------------
(* Instances of FolderStructure for TLC: one account with a private tree     *)
(* (OneDrive), or two accounts that share the main account's (Google).       *)
EXTENDS FolderStructure

MCPaths   == Paths
MCPrivate == [a \in Accounts |-> 1]
MCShared  == [a \in Accounts |-> 1]
=============================================================================
