----------------------------- MODULE MCOwnership -----------------------------
(* An instance of Ownership for TLC: three backup accounts of 40 units, of     *)
(* which one may have room for what main owns, others are overfull or full.    *)
EXTENDS Ownership, TLC

CONSTANTS main, b1, b2, b3, large, small, i1, i2, i3

MCSize == large :> 4 @@ small :> 2
MCTotal == [b \in Backups |-> 40]
Start(files, owners, s1, s2, s3) ==
    [born |-> DOMAIN owners, stored |-> b1 :> s1 @@ b2 :> s2 @@ b3 :> s3,
     of |-> files @@ [i \in Ids |-> small], owner |-> owners @@ [i \in Ids |-> main]]
Two(o1, o2) == i1 :> o1 @@ i2 :> o2
MCStarts ==
    {Start(i1 :> large, Two(main, main), 35, 34, 38),   \* room for both, in one account each
     Start(i1 :> large, Two(main, main), 38, 35, 38),   \* room for one file only
     Start(i1 :> large, Two(b1, b1), 40, 33, 38),       \* overfull: both files must go
     Start(i1 :> large, Two(main, b1), 40, 33, 38),     \* freeing first, then balancing
     \* two overfull accounts with an object each of the same file
     Start(i1 :> large @@ i2 :> large, Two(b1, b2) @@ i3 :> b2, 39, 39, 20)}
=============================================================================
