------------------------------- MODULE Pipeline -------------------------------
(***************************************************************************)
(* What a sync run promises, whatever interrupts it: its steps are         *)
(* performed in order, all of them in the mode the run was begun in, and   *)
(* it is finished only when every step has been performed.  A step may be  *)
(* performed again (an interrupted run resumes) but none is skipped.       *)
(***************************************************************************)
EXTENDS Naturals

CONSTANTS Runs, Steps

VARIABLES mode, did, finished
vars == <<mode, did, finished>>

Init == /\ mode = [r \in Runs |-> "none"]
        /\ did = [r \in Runs |-> {}]
        /\ finished = {}

Begin(r) == /\ mode[r] = "none"
            /\ \E m \in {"real", "safe"} : mode' = [mode EXCEPT ![r] = m]
            /\ UNCHANGED <<did, finished>>

Perform(r, k) ==
    /\ mode[r] # "none"
    /\ \A j \in Steps : j < k => <<j, mode[r]>> \in did[r]
    /\ did' = [did EXCEPT ![r] = @ \cup {<<k, mode[r]>>}]
    /\ UNCHANGED <<mode, finished>>

Finish(r) == /\ did[r] = Steps \X {mode[r]}
             /\ finished' = finished \cup {r}
             /\ UNCHANGED <<mode, did>>

Next == \E r \in Runs : Begin(r) \/ Finish(r) \/ \E k \in Steps : Perform(r, k)

Spec == Init /\ [][Next]_vars
=============================================================================
