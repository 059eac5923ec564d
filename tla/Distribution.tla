----------------------------- MODULE Distribution -----------------------------
(***************************************************************************)
(* What a sync promises of the copies it makes, however many workers make  *)
(* them: a copy is entered in the database only when the provider holds    *)
(* the whole file (or the source was not what the scan had seen of it),    *)
(* and the checkpoint names it only then (entered or not, as a row may be  *)
(* rolled back); a copy is settled once, and a sync that reports success   *)
(* has settled them all.                                                   *)
(***************************************************************************)
CONSTANT Jobs       \* copies to be made: a file to a provider

VARIABLES
    held,           \* the jobs whose provider holds the whole file
    altered,        \* those whose source is not what the scan had seen
    rows,           \* those the database has a row for
    log,            \* those the checkpoint names
    settled,        \* those that were copied or given up
    result          \* what the sync reports
vars == <<held, altered, rows, log, settled, result>>

Init == /\ held = {} /\ altered = {} /\ rows = {} /\ log = {} /\ settled = {}
        /\ result = "none"

Deliver(j) == /\ held' = held \cup {j}
              /\ UNCHANGED <<altered, rows, log, settled, result>>

Alter(S) == /\ altered' = altered \cup S
            /\ UNCHANGED <<held, rows, log, settled, result>>

Enter(j) == /\ j \in held \cup altered /\ j \notin settled
            /\ rows' = rows \cup {j}
            /\ UNCHANGED <<held, altered, log, settled, result>>

Settle(j) == /\ j \notin settled
             /\ settled' = settled \cup {j}
             /\ \/ log' = log
                \/ j \in held \cup altered /\ log' = log \cup {j}
             /\ UNCHANGED <<held, altered, rows, result>>

Report == /\ result = "none"
          /\ \/ result' = "ok" /\ settled = Jobs
             \/ result' = "error"
          /\ UNCHANGED <<held, altered, rows, log, settled>>

Next == \/ \E j \in Jobs : Deliver(j) \/ Enter(j) \/ Settle(j)
        \/ \E S \in SUBSET Jobs : Alter(S)
        \/ Report

Spec == Init /\ [][Next]_vars
=============================================================================
