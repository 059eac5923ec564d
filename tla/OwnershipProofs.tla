---------------------------- MODULE OwnershipProofs ----------------------------
(***************************************************************************)
(* What holds of Ownership for any accounts, files, sizes, quotas, faults: *)
(* the types, that every file keeps an object in Google, that checkpoints  *)
(* are true, and that no account is overfilled by what the tool plans.     *)
(***************************************************************************)
EXTENDS Ownership, TLAPS

\* What a step does to the history keeps its types.
LEMMA NoFaultType == ASSUME HistoryOK, NoFault PROVE HistoryOK'
  BY DEF HistoryOK, NoFault, history
LEMMA FaultType == ASSUME HistoryOK, Fault, NEW U, U \subseteq Backups, unseen' = U PROVE HistoryOK'
<1>1. faults \in 0..MaxFaults /\ faults < MaxFaults /\ faults' = faults + 1
  BY DEF HistoryOK, Fault
<1>2. MaxFaults \in Nat
  BY OwnershipAssumption
<1>3. faults' \in 0..MaxFaults
  BY <1>1, <1>2
<1> QED
  BY <1>3 DEF HistoryOK, Fault
LEMMA FaultSameType == ASSUME HistoryOK, Fault, UNCHANGED unseen PROVE HistoryOK'
  BY FaultType DEF HistoryOK
LEMMA FaultAtType == ASSUME HistoryOK, NEW a \in Backups, FaultAt(a) PROVE HistoryOK'
<1>1. unseen \cup {a} \subseteq Backups /\ Fault /\ unseen' = unseen \cup {a}
  BY DEF HistoryOK, FaultAt
<1> QED
  BY <1>1, FaultType

(* Every step keeps the types. *)
LEMMA TypeStep == TypeOK /\ [Next]_vars => TypeOK'
<1> SUFFICES ASSUME TypeOK, [Next]_vars PROVE TypeOK'
  OBVIOUS
<1> USE OwnershipAssumption
<1> USE DEF Accounts
<1>1. ASSUME pc \in Handing
      PROVE  /\ job \in Jobs /\ job.file \in Files /\ job.id \in Ids
             /\ job.to \in Backups /\ job.home \in Places
  BY <1>1 DEF TypeOK, WorkOK, Jobs
<1>2. CASE Begin
  <2>1. GoogleOK'
    BY <1>2 DEF Begin, TypeOK, GoogleOK, google
  <2>2. RowsOK'
    BY <1>2 DEF Begin, TypeOK, RowsOK, rows
  <2>3. RunOK'
    BY <1>2 DEF Begin, TypeOK, RunOK, run, MarkStep
  <2>4. HistoryOK'
    <3>0. PICK K \in SUBSET Backups :
             \/ K = Backups /\ faults' = faults /\ calm' = (resume = "unsynced")
             \/ K # Backups /\ resume \notin {"unsynced", "scan"} /\ Fault
      BY <1>2, Zenon DEF Begin
    <3>1. unseen' = unseen
      BY <1>2 DEF Begin
    <3>2. CASE faults' = faults /\ calm' = (resume = "unsynced")
      <4>1. calm' \in BOOLEAN
        BY <3>2
      <4>2. faults' \in 0..MaxFaults /\ unseen' \subseteq Backups
        BY <3>1, <3>2 DEF TypeOK, HistoryOK
      <4> QED
        BY <4>1, <4>2 DEF HistoryOK
    <3> QED
      BY <3>0, <3>1, <3>2, FaultSameType DEF TypeOK
  <2>5. PlanOK'
    BY <1>2 DEF Begin, TypeOK, GoogleOK, PlanOK
  <2>6. WorkOK'
    BY <1>2 DEF Begin, TypeOK, RunOK, WorkOK, work, Handing
  <2> QED
    BY <2>1, <2>2, <2>3, <2>4, <2>5, <2>6 DEF TypeOK
<1>3. CASE MoveUnsynced
  <2>1. GoogleOK'
    BY <1>3 DEF MoveUnsynced, TypeOK, GoogleOK, google, MarkStep, Places
  <2>2. RowsOK'
    BY <1>3 DEF MoveUnsynced, TypeOK, RowsOK, rows, MarkStep
  <2>3. RunOK'
    BY <1>3 DEF MoveUnsynced, TypeOK, RunOK, run, MarkStep
  <2>4. HistoryOK'
    BY <1>3, NoFaultType, FaultSameType, FaultAtType DEF NoFault, MoveUnsynced, TypeOK
  <2>5. PlanOK'
    BY <1>3 DEF MoveUnsynced, TypeOK, PlanOK, plan, MarkStep
  <2>6. WorkOK'
    BY <1>3 DEF MoveUnsynced, TypeOK, WorkOK, work, MarkStep, Handing
  <2> QED
    BY <2>1, <2>2, <2>3, <2>4, <2>5, <2>6 DEF TypeOK
<1>4. ASSUME NEW missed \in SUBSET Accounts, Scan(missed) PROVE TypeOK'
  <2>1. GoogleOK'
    BY <1>4 DEF Scan, TypeOK, GoogleOK, google, MarkStep
  <2>2. RowsOK'
    <3>1. owner \in [Ids -> Accounts] /\ RowsOK
      BY DEF TypeOK, GoogleOK
    <3>2. state' \in [Accounts \X Ids -> {"none", "active", "deleted"}]
      BY <1>4, <3>1 DEF Scan, Refreshed, RowsOK
    <3>3. \A r \in Accounts \X Ids : owner[r[2]] \in Accounts /\ claimed[r] \in Accounts
      BY <3>1 DEF RowsOK
    <3>4. claimed' \in [Accounts \X Ids -> Accounts]
      BY <1>4, <3>3 DEF Scan, Refreshed
    <3> QED
      BY <3>2, <3>4 DEF RowsOK
  <2>3. RunOK'
    BY <1>4 DEF Scan, TypeOK, RunOK, run, MarkStep
  <2>4. HistoryOK'
    BY <1>4, NoFaultType, FaultSameType, FaultAtType DEF NoFault, Scan, TypeOK
  <2>5. PlanOK'
    BY <1>4 DEF Scan, TypeOK, PlanOK, plan, MarkStep
  <2>6. WorkOK'
    BY <1>4 DEF Scan, TypeOK, WorkOK, work, MarkStep, Handing
  <2> QED
    BY <2>1, <2>2, <2>3, <2>4, <2>5, <2>6 DEF TypeOK
<1>5. CASE EnterFree
  <2>1. GoogleOK'
    BY <1>5 DEF EnterFree, TypeOK, GoogleOK, google
  <2>2. RowsOK'
    BY <1>5 DEF EnterFree, TypeOK, RowsOK, rows
  <2>3. RunOK'
    BY <1>5 DEF EnterFree, TypeOK, RunOK, run, MarkStep
  <2>4. HistoryOK'
    BY <1>5, NoFaultType, FaultSameType, FaultAtType DEF NoFault, EnterFree, TypeOK
  <2>5. PlanOK'
    BY <1>5 DEF EnterFree, TypeOK, PlanOK, plan, Candidates
  <2>6. WorkOK'
    BY <1>5 DEF EnterFree, TypeOK, WorkOK, work, Handing
  <2> QED
    BY <2>1, <2>2, <2>3, <2>4, <2>5, <2>6 DEF TypeOK
<1>6. CASE EnterBalance
  <2>1. GoogleOK'
    BY <1>6 DEF EnterBalance, TypeOK, GoogleOK, google
  <2>2. RowsOK'
    BY <1>6 DEF EnterBalance, TypeOK, RowsOK, rows
  <2>3. RunOK'
    BY <1>6 DEF EnterBalance, TypeOK, RunOK, run, MarkStep
  <2>4. HistoryOK'
    BY <1>6, NoFaultType, FaultSameType, FaultAtType DEF NoFault, EnterBalance, TypeOK
  <2>5. PlanOK'
    BY <1>6 DEF EnterBalance, TypeOK, PlanOK, plan
  <2>6. WorkOK'
    BY <1>6 DEF EnterBalance, TypeOK, WorkOK, work, Handing
  <2> QED
    BY <2>1, <2>2, <2>3, <2>4, <2>5, <2>6 DEF TypeOK
<1>7. CASE NextSource
  <2>1. GoogleOK'
    BY <1>7 DEF NextSource, TypeOK, GoogleOK, google
  <2>2. RowsOK'
    BY <1>7 DEF NextSource, TypeOK, RowsOK, rows
  <2>3. RunOK'
    BY <1>7 DEF NextSource, TypeOK, RunOK, run, MarkStep
  <2>4. HistoryOK'
    BY <1>7, NoFaultType, FaultSameType, FaultAtType DEF NoFault, NextSource, TypeOK
  <2>5. PlanOK'
    BY <1>7 DEF NextSource, TypeOK, PlanOK, plan, Candidates
  <2>6. WorkOK'
    BY <1>7 DEF NextSource, TypeOK, WorkOK, work, Handing
  <2> QED
    BY <2>1, <2>2, <2>3, <2>4, <2>5, <2>6 DEF TypeOK
<1>8. CASE Chosen
  <2>1. GoogleOK'
    BY <1>8 DEF Chosen, TypeOK, GoogleOK, google, MarkStep
  <2>2. RowsOK'
    BY <1>8 DEF Chosen, TypeOK, RowsOK, rows, MarkStep
  <2>3. RunOK'
    BY <1>8 DEF Chosen, TypeOK, RunOK, run, MarkStep
  <2>4. HistoryOK'
    BY <1>8, NoFaultType, FaultSameType, FaultAtType DEF NoFault, Chosen, TypeOK
  <2>5. PlanOK'
    BY <1>8 DEF Chosen, TypeOK, PlanOK, plan, MarkStep
  <2>6. WorkOK'
    BY <1>8 DEF Chosen, TypeOK, WorkOK, work, MarkStep, Handing
  <2> QED
    BY <2>1, <2>2, <2>3, <2>4, <2>5, <2>6 DEF TypeOK
<1>9. CASE Complete
  <2>1. GoogleOK'
    BY <1>9 DEF Complete, TypeOK, GoogleOK, google
  <2>2. RowsOK'
    BY <1>9 DEF Complete, TypeOK, RowsOK, rows
  <2>3. RunOK'
    BY <1>9 DEF Complete, TypeOK, RunOK, run, MarkStep
  <2>4. HistoryOK'
    BY <1>9, NoFaultType, FaultSameType, FaultAtType DEF NoFault, Complete, TypeOK
  <2>5. PlanOK'
    BY <1>9 DEF Complete, TypeOK, PlanOK, plan
  <2>6. WorkOK'
    BY <1>9 DEF Complete, TypeOK, WorkOK, work, Handing
  <2> QED
    BY <2>1, <2>2, <2>3, <2>4, <2>5, <2>6 DEF TypeOK
<1>10. ASSUME NEW f \in Files, Skip(f) PROVE TypeOK'
  <2>1. GoogleOK'
    BY <1>10 DEF Skip, TypeOK, GoogleOK, google
  <2>2. RowsOK'
    BY <1>10 DEF Skip, TypeOK, RowsOK, rows
  <2>3. RunOK'
    BY <1>10 DEF Skip, TypeOK, RunOK, run, MarkStep
  <2>4. HistoryOK'
    BY <1>10, NoFaultType, FaultSameType, FaultAtType DEF NoFault, Skip, TypeOK
  <2>5. PlanOK'
    BY <1>10 DEF Skip, TypeOK, PlanOK, plan, Handed, Charged
  <2>6. WorkOK'
    BY <1>10 DEF Skip, TypeOK, WorkOK, work, Handing
  <2> QED
    BY <2>1, <2>2, <2>3, <2>4, <2>5, <2>6 DEF TypeOK
<1>11. ASSUME NEW f \in Files, NoRoom(f) PROVE TypeOK'
  <2>1. GoogleOK'
    BY <1>11 DEF NoRoom, TypeOK, GoogleOK, google
  <2>2. RowsOK'
    BY <1>11 DEF NoRoom, TypeOK, RowsOK, rows
  <2>3. RunOK'
    BY <1>11 DEF NoRoom, TypeOK, RunOK, run, MarkStep
  <2>4. HistoryOK'
    BY <1>11, NoFaultType, FaultSameType, FaultAtType DEF NoFault, NoRoom, TypeOK
  <2>5. PlanOK'
    BY <1>11 DEF NoRoom, TypeOK, PlanOK, plan
  <2>6. WorkOK'
    BY <1>11 DEF NoRoom, TypeOK, WorkOK, work, Handing
  <2> QED
    BY <2>1, <2>2, <2>3, <2>4, <2>5, <2>6 DEF TypeOK
<1>12. ASSUME NEW f \in Files, Choose(f) PROVE TypeOK'
  <2>1. GoogleOK'
    BY <1>12 DEF Choose, TypeOK, GoogleOK, google
  <2>2. RowsOK'
    BY <1>12 DEF Choose, TypeOK, RowsOK, rows
  <2>3. RunOK'
    BY <1>12 DEF Choose, TypeOK, RunOK, run, MarkStep
  <2>4. HistoryOK'
    BY <1>12, NoFaultType, FaultSameType, FaultAtType DEF NoFault, Choose, TypeOK
  <2>5. PlanOK'
    BY <1>12 DEF Choose, TypeOK, PlanOK, plan
  <2>6. WorkOK'
    <3>1. PICK t \in Fitting(f), i \in Owned(src, f) :
             job' = [file |-> f, id |-> i, to |-> t, home |-> place[i]]
      BY <1>12 DEF Choose
    <3>2. t \in Backups /\ i \in Ids /\ place[i] \in Places
      BY DEF Fitting, Emptiest, Owned, TypeOK, GoogleOK, PlanOK
    <3>3. job' \in Jobs
      BY <3>1, <3>2 DEF Jobs
    <3>4. pc = "choose" /\ pc' = "offer" /\ copy' = copy
      BY <1>12 DEF Choose
    <3> QED
      BY <3>3, <3>4 DEF TypeOK, WorkOK, Handing
  <2> QED
    BY <2>1, <2>2, <2>3, <2>4, <2>5, <2>6 DEF TypeOK
<1>13. CASE OfferDirectly
  <2>1. pc \in Handing
    BY <1>13 DEF OfferDirectly, Handing
  <2>2. GoogleOK'
    BY <1>13, <1>1, <2>1 DEF OfferDirectly, TypeOK, GoogleOK, google, Goes, Passes
  <2>3. RowsOK'
    BY <1>13, <1>1, <2>1 DEF OfferDirectly, TypeOK, RowsOK, rows, Goes
  <2>4. RunOK'
    BY <1>13, <1>1, <2>1 DEF OfferDirectly, TypeOK, RunOK, run, MarkStep, Goes
  <2>5. HistoryOK'
    BY <1>13, <1>1, <2>1, NoFaultType, FaultSameType, FaultAtType DEF NoFault, OfferDirectly, TypeOK
  <2>6. PlanOK'
    BY <1>13, <1>1, <2>1 DEF OfferDirectly, TypeOK, PlanOK, plan, Goes
  <2>7. WorkOK'
    BY <1>13, <1>1, <2>1 DEF OfferDirectly, TypeOK, WorkOK, work, Goes, Handing
  <2> QED
    BY <2>2, <2>3, <2>4, <2>5, <2>6, <2>7 DEF TypeOK
<1>14. CASE OfferReplyLost
  <2>1. pc \in Handing
    BY <1>14 DEF OfferReplyLost, Handing
  <2>2. GoogleOK'
    BY <1>14, <1>1, <2>1 DEF OfferReplyLost, TypeOK, GoogleOK, google, GiveUp, Passes
  <2>3. RowsOK'
    BY <1>14, <1>1, <2>1 DEF OfferReplyLost, TypeOK, RowsOK, rows, GiveUp
  <2>4. RunOK'
    BY <1>14, <1>1, <2>1 DEF OfferReplyLost, TypeOK, RunOK, run, MarkStep, GiveUp
  <2>5. HistoryOK'
    BY <1>14, <1>1, <2>1, NoFaultType, FaultSameType, FaultAtType DEF NoFault, OfferReplyLost, TypeOK
  <2>6. PlanOK'
    BY <1>14, <1>1, <2>1 DEF OfferReplyLost, TypeOK, PlanOK, plan, GiveUp
  <2>7. WorkOK'
    BY <1>14, <1>1, <2>1 DEF OfferReplyLost, TypeOK, WorkOK, work, GiveUp, Handing
  <2> QED
    BY <2>2, <2>3, <2>4, <2>5, <2>6, <2>7 DEF TypeOK
<1>15. CASE OfferFails
  <2>1. pc \in Handing
    BY <1>15 DEF OfferFails, Handing
  <2>2. GoogleOK'
    BY <1>15, <1>1, <2>1 DEF OfferFails, TypeOK, GoogleOK, google, GiveUp
  <2>3. RowsOK'
    BY <1>15, <1>1, <2>1 DEF OfferFails, TypeOK, RowsOK, rows, GiveUp
  <2>4. RunOK'
    BY <1>15, <1>1, <2>1 DEF OfferFails, TypeOK, RunOK, run, MarkStep, GiveUp
  <2>5. HistoryOK'
    BY <1>15, <1>1, <2>1, NoFaultType, FaultSameType, FaultAtType DEF NoFault, OfferFails, TypeOK
  <2>6. PlanOK'
    BY <1>15, <1>1, <2>1 DEF OfferFails, TypeOK, PlanOK, plan, GiveUp
  <2>7. WorkOK'
    BY <1>15, <1>1, <2>1 DEF OfferFails, TypeOK, WorkOK, work, GiveUp, Handing
  <2> QED
    BY <2>2, <2>3, <2>4, <2>5, <2>6, <2>7 DEF TypeOK
<1>16. CASE TakeOut
  <2>1. pc \in Handing
    BY <1>16 DEF TakeOut, Handing
  <2>2. GoogleOK'
    BY <1>16, <1>1, <2>1 DEF TakeOut, TypeOK, GoogleOK, PlanOK, Places
  <2>3. RowsOK'
    BY <1>16, <1>1, <2>1 DEF TakeOut, TypeOK, RowsOK, rows, GiveUp, Goes
  <2>4. RunOK'
    BY <1>16, <1>1, <2>1 DEF TakeOut, TypeOK, RunOK, run, MarkStep, GiveUp, Goes
  <2>5. HistoryOK'
    BY <1>16, <1>1, <2>1, NoFaultType, FaultSameType, FaultAtType DEF NoFault, TakeOut, TypeOK
  <2>6. PlanOK'
    BY <1>16, <1>1, <2>1 DEF TakeOut, TypeOK, PlanOK, plan, GiveUp, Goes
  <2>7. WorkOK'
    BY <1>16, <1>1, <2>1 DEF TakeOut, TypeOK, WorkOK, work, GiveUp, Goes, Handing
  <2> QED
    BY <2>2, <2>3, <2>4, <2>5, <2>6, <2>7 DEF TypeOK
<1>17. CASE Grant
  <2>1. pc \in Handing
    BY <1>17 DEF Grant, Handing
  <2>2. GoogleOK'
    BY <1>17, <1>1, <2>1 DEF Grant, TypeOK, GoogleOK, google, Goes
  <2>3. RowsOK'
    BY <1>17, <1>1, <2>1 DEF Grant, TypeOK, RowsOK, rows, Goes
  <2>4. RunOK'
    BY <1>17, <1>1, <2>1 DEF Grant, TypeOK, RunOK, run, MarkStep, Goes
  <2>5. HistoryOK'
    BY <1>17, <1>1, <2>1, NoFaultType, FaultSameType, FaultAtType DEF NoFault, Grant, TypeOK
  <2>6. PlanOK'
    BY <1>17, <1>1, <2>1 DEF Grant, TypeOK, PlanOK, plan, Goes
  <2>7. WorkOK'
    BY <1>17, <1>1, <2>1 DEF Grant, TypeOK, WorkOK, work, Goes, Handing
  <2> QED
    BY <2>2, <2>3, <2>4, <2>5, <2>6, <2>7 DEF TypeOK
<1>18. CASE GrantFails
  <2>1. pc \in Handing
    BY <1>18 DEF GrantFails, Handing
  <2>2. GoogleOK'
    BY <1>18, <1>1, <2>1 DEF GrantFails, TypeOK, GoogleOK, PlanOK, Places
  <2>3. RowsOK'
    BY <1>18, <1>1, <2>1 DEF GrantFails, TypeOK, RowsOK, rows, GiveUp, Goes, CopyInstead
  <2>4. RunOK'
    BY <1>18, <1>1, <2>1 DEF GrantFails, TypeOK, RunOK, run, MarkStep, GiveUp, Goes, CopyInstead
  <2>5. HistoryOK'
    BY <1>18, <1>1, <2>1, NoFaultType, FaultSameType, FaultAtType DEF NoFault, GrantFails, TypeOK
  <2>6. PlanOK'
    BY <1>18, <1>1, <2>1 DEF GrantFails, TypeOK, PlanOK, plan, GiveUp, Goes, CopyInstead
  <2>7. WorkOK'
    BY <1>18, <1>1, <2>1 DEF GrantFails, TypeOK, WorkOK, work, GiveUp, Goes, Handing, CopyInstead
  <2> QED
    BY <2>2, <2>3, <2>4, <2>5, <2>6, <2>7 DEF TypeOK
<1>19. CASE Accept
  <2>1. pc \in Handing
    BY <1>19 DEF Accept, Handing
  <2>2. GoogleOK'
    BY <1>19, <1>1, <2>1 DEF Accept, TypeOK, GoogleOK, google, Goes, Passes
  <2>3. RowsOK'
    BY <1>19, <1>1, <2>1 DEF Accept, TypeOK, RowsOK, rows, Goes
  <2>4. RunOK'
    BY <1>19, <1>1, <2>1 DEF Accept, TypeOK, RunOK, run, MarkStep, Goes
  <2>5. HistoryOK'
    BY <1>19, <1>1, <2>1, NoFaultType, FaultSameType, FaultAtType DEF NoFault, Accept, TypeOK
  <2>6. PlanOK'
    BY <1>19, <1>1, <2>1 DEF Accept, TypeOK, PlanOK, plan, Goes
  <2>7. WorkOK'
    BY <1>19, <1>1, <2>1 DEF Accept, TypeOK, WorkOK, work, Goes, Handing
  <2> QED
    BY <2>2, <2>3, <2>4, <2>5, <2>6, <2>7 DEF TypeOK
<1>20. CASE AcceptReplyLost
  <2>1. pc \in Handing
    BY <1>20 DEF AcceptReplyLost, Handing
  <2>2. GoogleOK'
    BY <1>20, <1>1, <2>1 DEF AcceptReplyLost, TypeOK, GoogleOK, google, GiveUp, Passes
  <2>3. RowsOK'
    BY <1>20, <1>1, <2>1 DEF AcceptReplyLost, TypeOK, RowsOK, rows, GiveUp
  <2>4. RunOK'
    BY <1>20, <1>1, <2>1 DEF AcceptReplyLost, TypeOK, RunOK, run, MarkStep, GiveUp
  <2>5. HistoryOK'
    BY <1>20, <1>1, <2>1, NoFaultType, FaultSameType, FaultAtType DEF NoFault, AcceptReplyLost, TypeOK
  <2>6. PlanOK'
    BY <1>20, <1>1, <2>1 DEF AcceptReplyLost, TypeOK, PlanOK, plan, GiveUp
  <2>7. WorkOK'
    BY <1>20, <1>1, <2>1 DEF AcceptReplyLost, TypeOK, WorkOK, work, GiveUp, Handing
  <2> QED
    BY <2>2, <2>3, <2>4, <2>5, <2>6, <2>7 DEF TypeOK
<1>21. CASE AcceptFails
  <2>1. pc \in Handing
    BY <1>21 DEF AcceptFails, Handing
  <2>2. GoogleOK'
    BY <1>21, <1>1, <2>1 DEF AcceptFails, TypeOK, GoogleOK, google, GiveUp, Goes, CopyInstead
  <2>3. RowsOK'
    BY <1>21, <1>1, <2>1 DEF AcceptFails, TypeOK, RowsOK, rows, GiveUp, Goes, CopyInstead
  <2>4. RunOK'
    BY <1>21, <1>1, <2>1 DEF AcceptFails, TypeOK, RunOK, run, MarkStep, GiveUp, Goes, CopyInstead
  <2>5. HistoryOK'
    BY <1>21, <1>1, <2>1, NoFaultType, FaultSameType, FaultAtType DEF NoFault, AcceptFails, TypeOK
  <2>6. PlanOK'
    BY <1>21, <1>1, <2>1 DEF AcceptFails, TypeOK, PlanOK, plan, GiveUp, Goes, CopyInstead
  <2>7. WorkOK'
    BY <1>21, <1>1, <2>1 DEF AcceptFails, TypeOK, WorkOK, work, GiveUp, Goes, Handing, CopyInstead
  <2> QED
    BY <2>2, <2>3, <2>4, <2>5, <2>6, <2>7 DEF TypeOK
<1>22. CASE PutBack
  <2>1. pc \in Handing
    BY <1>22 DEF PutBack, Handing
  <2>2. GoogleOK'
    BY <1>22, <1>1, <2>1 DEF PutBack, TypeOK, GoogleOK, google, Goes, Places
  <2>3. RowsOK'
    BY <1>22, <1>1, <2>1 DEF PutBack, TypeOK, RowsOK, rows, Goes
  <2>4. RunOK'
    BY <1>22, <1>1, <2>1 DEF PutBack, TypeOK, RunOK, run, MarkStep, Goes
  <2>5. HistoryOK'
    BY <1>22, <1>1, <2>1, NoFaultType, FaultSameType, FaultAtType DEF NoFault, PutBack, TypeOK
  <2>6. PlanOK'
    BY <1>22, <1>1, <2>1 DEF PutBack, TypeOK, PlanOK, plan, Goes
  <2>7. WorkOK'
    BY <1>22, <1>1, <2>1 DEF PutBack, TypeOK, WorkOK, work, Goes, Handing
  <2> QED
    BY <2>2, <2>3, <2>4, <2>5, <2>6, <2>7 DEF TypeOK
<1>23. CASE Record
  <2>1. pc \in Handing
    BY <1>23 DEF Record, Handing
  <2>2. GoogleOK'
    BY <1>23, <1>1, <2>1 DEF Record, TypeOK, GoogleOK, google
  <2>3. RowsOK'
    <3>1. RowsOK /\ src \in Accounts /\ job.to \in Accounts /\ job.id \in Ids
      BY <1>1, <2>1 DEF TypeOK, PlanOK
    <3>2. CASE OwnerUpdated
      <4>1. \A x : x \in {"none", "active", "deleted"} =>
              [state EXCEPT ![<<src, job.id>>] = "none", ![<<job.to, job.id>>] = x]
                \in [Accounts \X Ids -> {"none", "active", "deleted"}]
        BY <3>1 DEF RowsOK
      <4>2. state[<<src, job.id>>] \in {"none", "active", "deleted"}
        BY <3>1 DEF RowsOK
      <4>3. state' \in [Accounts \X Ids -> {"none", "active", "deleted"}]
        <5>1. CASE state[<<job.to, job.id>>] # "none"
          BY <3>1, <3>2, <5>1 DEF OwnerUpdated, RowsOK
        <5>2. CASE state[<<job.to, job.id>>] = "none"
          <6>1. state' = [state EXCEPT ![<<src, job.id>>] = "none",
                                       ![<<job.to, job.id>>] = state[<<src, job.id>>]]
            BY <3>2, <5>2 DEF OwnerUpdated
          <6> QED
            BY <6>1, <4>1, <4>2
        <5> QED
          BY <5>1, <5>2
      <4>4. claimed' \in [Accounts \X Ids -> Accounts]
        BY <3>1, <3>2 DEF OwnerUpdated, RowsOK, rows
      <4> QED
        BY <4>3, <4>4 DEF RowsOK
    <3> QED
      BY <1>23, <3>1, <3>2 DEF Record, RowsOK, rows
  <2>4. RunOK'
    BY <1>23, <1>1, <2>1 DEF Record, TypeOK, RunOK, run, MarkStep
  <2>5. HistoryOK'
    BY <1>23, <1>1, <2>1, NoFaultType, FaultSameType, FaultAtType DEF NoFault, Record, TypeOK
  <2>6. PlanOK'
    BY <1>23, <1>1, <2>1 DEF Record, TypeOK, PlanOK, plan
  <2>7. WorkOK'
    BY <1>23, <1>1, <2>1 DEF Record, TypeOK, WorkOK, work, Handing
  <2> QED
    BY <2>2, <2>3, <2>4, <2>5, <2>6, <2>7 DEF TypeOK
<1>24. CASE Account
  <2>1. pc \in Handing
    BY <1>24 DEF Account, Handing
  <2>2. GoogleOK'
    BY <1>24, <1>1, <2>1 DEF Account, TypeOK, GoogleOK, google
  <2>3. RowsOK'
    BY <1>24, <1>1, <2>1 DEF Account, TypeOK, RowsOK, rows
  <2>4. RunOK'
    BY <1>24, <1>1, <2>1 DEF Account, TypeOK, RunOK, run, MarkStep, Step
  <2>5. HistoryOK'
    BY <1>24, <1>1, <2>1, NoFaultType, FaultSameType, FaultAtType DEF NoFault, Account, TypeOK
  <2>6. PlanOK'
    BY <1>24, <1>1, <2>1 DEF Account, TypeOK, PlanOK, plan, Charged
  <2>7. WorkOK'
    BY <1>24, <1>1, <2>1 DEF Account, TypeOK, WorkOK, work, Handing
  <2> QED
    BY <2>2, <2>3, <2>4, <2>5, <2>6, <2>7 DEF TypeOK
<1>25. CASE CopyOver
  <2>1. pc \in Handing
    BY <1>25 DEF CopyOver, Handing
  <2>2. GoogleOK'
    BY <1>25, <1>1, <2>1 DEF CopyOver, TypeOK, GoogleOK, google, Goes, NewCopy, Places
  <2>3. RowsOK'
    BY <1>25, <1>1, <2>1 DEF CopyOver, TypeOK, RowsOK, rows, Goes
  <2>4. RunOK'
    BY <1>25, <1>1, <2>1 DEF CopyOver, TypeOK, RunOK, run, MarkStep, Goes
  <2>5. HistoryOK'
    BY <1>25, <1>1, <2>1, NoFaultType, FaultSameType, FaultAtType DEF NoFault, CopyOver, TypeOK
  <2>6. PlanOK'
    BY <1>25, <1>1, <2>1 DEF CopyOver, TypeOK, PlanOK, plan, Goes
  <2>7. WorkOK'
    BY <1>25, <1>1, <2>1 DEF CopyOver, TypeOK, WorkOK, work, Goes, Handing
  <2> QED
    BY <2>2, <2>3, <2>4, <2>5, <2>6, <2>7 DEF TypeOK
<1>26. CASE CopyReplyLost
  <2>1. pc \in Handing
    BY <1>26 DEF CopyReplyLost, Handing
  <2>2. GoogleOK'
    BY <1>26, <1>1, <2>1 DEF CopyReplyLost, TypeOK, GoogleOK, google, GiveUp, NewCopy, Places
  <2>3. RowsOK'
    BY <1>26, <1>1, <2>1 DEF CopyReplyLost, TypeOK, RowsOK, rows, GiveUp
  <2>4. RunOK'
    BY <1>26, <1>1, <2>1 DEF CopyReplyLost, TypeOK, RunOK, run, MarkStep, GiveUp
  <2>5. HistoryOK'
    BY <1>26, <1>1, <2>1, NoFaultType, FaultSameType, FaultAtType DEF NoFault, CopyReplyLost, TypeOK
  <2>6. PlanOK'
    BY <1>26, <1>1, <2>1 DEF CopyReplyLost, TypeOK, PlanOK, plan, GiveUp
  <2>7. WorkOK'
    BY <1>26, <1>1, <2>1 DEF CopyReplyLost, TypeOK, WorkOK, work, GiveUp, Handing
  <2> QED
    BY <2>2, <2>3, <2>4, <2>5, <2>6, <2>7 DEF TypeOK
<1>27. CASE CopyOverFails
  <2>1. pc \in Handing
    BY <1>27 DEF CopyOverFails, Handing
  <2>2. GoogleOK'
    BY <1>27, <1>1, <2>1 DEF CopyOverFails, TypeOK, GoogleOK, google, GiveUp
  <2>3. RowsOK'
    BY <1>27, <1>1, <2>1 DEF CopyOverFails, TypeOK, RowsOK, rows, GiveUp
  <2>4. RunOK'
    BY <1>27, <1>1, <2>1 DEF CopyOverFails, TypeOK, RunOK, run, MarkStep, GiveUp
  <2>5. HistoryOK'
    BY <1>27, <1>1, <2>1, NoFaultType, FaultSameType, FaultAtType DEF NoFault, CopyOverFails, TypeOK
  <2>6. PlanOK'
    BY <1>27, <1>1, <2>1 DEF CopyOverFails, TypeOK, PlanOK, plan, GiveUp
  <2>7. WorkOK'
    BY <1>27, <1>1, <2>1 DEF CopyOverFails, TypeOK, WorkOK, work, GiveUp, Handing
  <2> QED
    BY <2>2, <2>3, <2>4, <2>5, <2>6, <2>7 DEF TypeOK
<1>28. CASE Erase
  <2>1. pc \in Handing
    BY <1>28 DEF Erase, Handing
  <2>2. GoogleOK'
    BY <1>28, <1>1, <2>1 DEF Erase, TypeOK, GoogleOK, google, Goes, Places
  <2>3. RowsOK'
    BY <1>28, <1>1, <2>1 DEF Erase, TypeOK, RowsOK, rows, Goes
  <2>4. RunOK'
    BY <1>28, <1>1, <2>1 DEF Erase, TypeOK, RunOK, run, MarkStep, Goes
  <2>5. HistoryOK'
    BY <1>28, <1>1, <2>1, NoFaultType, FaultSameType, FaultAtType DEF NoFault, Erase, TypeOK
  <2>6. PlanOK'
    BY <1>28, <1>1, <2>1 DEF Erase, TypeOK, PlanOK, plan, Goes
  <2>7. WorkOK'
    BY <1>28, <1>1, <2>1 DEF Erase, TypeOK, WorkOK, work, Goes, Handing
  <2> QED
    BY <2>2, <2>3, <2>4, <2>5, <2>6, <2>7 DEF TypeOK
<1>29. CASE EraseFails
  <2>1. pc \in Handing
    BY <1>29 DEF EraseFails, Handing
  <2>2. GoogleOK'
    BY <1>29, <1>1, <2>1 DEF EraseFails, TypeOK, GoogleOK, google, Goes
  <2>3. RowsOK'
    BY <1>29, <1>1, <2>1 DEF EraseFails, TypeOK, RowsOK, rows, Goes
  <2>4. RunOK'
    BY <1>29, <1>1, <2>1 DEF EraseFails, TypeOK, RunOK, run, MarkStep, Goes
  <2>5. HistoryOK'
    BY <1>29, <1>1, <2>1, NoFaultType, FaultSameType, FaultAtType DEF NoFault, EraseFails, TypeOK
  <2>6. PlanOK'
    BY <1>29, <1>1, <2>1 DEF EraseFails, TypeOK, PlanOK, plan, Goes
  <2>7. WorkOK'
    BY <1>29, <1>1, <2>1 DEF EraseFails, TypeOK, WorkOK, work, Goes, Handing
  <2> QED
    BY <2>2, <2>3, <2>4, <2>5, <2>6, <2>7 DEF TypeOK
<1>30. CASE Rekey
  <2>1. pc \in Handing
    BY <1>30 DEF Rekey, Handing
  <2>2. GoogleOK'
    BY <1>30, <1>1, <2>1 DEF Rekey, TypeOK, GoogleOK, google
  <2>3. RowsOK'
    <3>1. RowsOK /\ Main \in Accounts /\ job.to \in Accounts /\ job.id \in Ids
      BY <1>1, <2>1 DEF TypeOK
    <3>2. copy \in Ids
      BY <1>30 DEF TypeOK, WorkOK, Rekey
    <3>3. CASE Rekeyed
      <4>1. state[<<Main, job.id>>] \in {"none", "active", "deleted"}
        BY <3>1 DEF RowsOK
      <4>2. state' \in [Accounts \X Ids -> {"none", "active", "deleted"}]
        BY <3>1, <3>3, <4>1 DEF Rekeyed, RowsOK
      <4>3. claimed' \in [Accounts \X Ids -> Accounts]
        BY <3>1, <3>2, <3>3 DEF Rekeyed, RowsOK
      <4> QED
        BY <4>2, <4>3 DEF RowsOK
    <3> QED
      BY <1>30, <3>1, <3>3 DEF Rekey, RowsOK, rows
  <2>4. RunOK'
    BY <1>30, <1>1, <2>1 DEF Rekey, TypeOK, RunOK, run, MarkStep, Rekeyed
  <2>5. HistoryOK'
    BY <1>30, <1>1, <2>1, NoFaultType, FaultSameType, FaultAtType DEF NoFault, Rekey, Rekeyed, TypeOK
  <2>6. PlanOK'
    BY <1>30, <1>1, <2>1 DEF Rekey, TypeOK, PlanOK, plan
  <2>7. WorkOK'
    BY <1>30, <1>1, <2>1 DEF Rekey, TypeOK, WorkOK, work, Handing
  <2> QED
    BY <2>2, <2>3, <2>4, <2>5, <2>6, <2>7 DEF TypeOK
<1>31. CASE Insert
  <2>1. pc \in Handing
    BY <1>31 DEF Insert, Handing
  <2>2. GoogleOK'
    BY <1>31, <1>1, <2>1 DEF Insert, TypeOK, GoogleOK, google
  <2>3. RowsOK'
    BY <1>31, <1>1, <2>1 DEF Insert, TypeOK, RowsOK, rows, WorkOK
  <2>4. RunOK'
    BY <1>31, <1>1, <2>1 DEF Insert, TypeOK, RunOK, run, MarkStep
  <2>5. HistoryOK'
    BY <1>31, <1>1, <2>1, NoFaultType, FaultSameType, FaultAtType DEF NoFault, Insert, TypeOK
  <2>6. PlanOK'
    BY <1>31, <1>1, <2>1 DEF Insert, TypeOK, PlanOK, plan
  <2>7. WorkOK'
    BY <1>31, <1>1, <2>1 DEF Insert, TypeOK, WorkOK, work, Handing
  <2> QED
    BY <2>2, <2>3, <2>4, <2>5, <2>6, <2>7 DEF TypeOK
<1>32. CASE Kill
  <2>1. GoogleOK'
    BY <1>32 DEF Kill, TypeOK, GoogleOK, google
  <2>2. RowsOK'
    BY <1>32 DEF Kill, TypeOK, RowsOK, rows
  <2>3. RunOK'
    BY <1>32 DEF Kill, TypeOK, RunOK, run, MarkStep
  <2>4. HistoryOK'
    BY <1>32, NoFaultType, FaultSameType, FaultAtType DEF NoFault, Kill, TypeOK
  <2>5. PlanOK'
    BY <1>32 DEF Kill, TypeOK, PlanOK, plan
  <2>6. WorkOK'
    BY <1>32 DEF Kill, TypeOK, WorkOK, work, Handing
  <2> QED
    BY <2>1, <2>2, <2>3, <2>4, <2>5, <2>6 DEF TypeOK
<1>33. CASE UNCHANGED vars
  BY <1>33 DEF vars, google, rows, run, plan, work, history, TypeOK, GoogleOK, RowsOK, RunOK, HistoryOK, PlanOK, WorkOK
<1> QED
  BY <1>2, <1>3, <1>4, <1>5, <1>6, <1>7, <1>8, <1>9, <1>10, <1>11, <1>12, <1>13, <1>14, <1>15, <1>16, <1>17, <1>18, <1>19, <1>20, <1>21, <1>22, <1>23, <1>24, <1>25, <1>26, <1>27, <1>28, <1>29, <1>30, <1>31, <1>32, <1>33 DEF Next, Handover

LEMMA TypeInit == Init => TypeOK
<1> SUFFICES ASSUME Init PROVE TypeOK
  OBVIOUS
<1>1. PICK s \in Starts :
        /\ of = s.of /\ owner = s.owner /\ stored = s.stored
        /\ place = [i \in Ids |-> IF i \in s.born THEN "in" ELSE "unborn"]
        /\ consent \in SUBSET Backups
  BY DEF Init
<1>2. /\ s.of \in [Ids -> Files] /\ s.owner \in [Ids -> Accounts]
      /\ s.stored \in [Backups -> Nat]
  BY OwnershipAssumption
<1>3. /\ of \in [Ids -> Files] /\ owner \in [Ids -> Accounts] /\ place \in [Ids -> Places]
      /\ stored \in [Backups -> Int] /\ consent \subseteq Backups
  BY <1>1, <1>2 DEF Places
<1>4. /\ state \in [Accounts \X Ids -> {"none", "active", "deleted"}]
      /\ claimed \in [Accounts \X Ids -> Accounts]
  BY DEF Init, Accounts
<1>5. pc = "idle" /\ job = NoJob /\ copy = None /\ resume = "unsynced" /\ src = Main
  BY DEF Init
<1>6. /\ used \in [Backups -> Int] /\ known = {} /\ targets = {} /\ sources = {} /\ left = {}
      /\ todo = {} /\ done = {} /\ faults = 0 /\ calm = FALSE /\ unseen = {}
  BY DEF Init
<1>7. GoogleOK /\ RowsOK
  BY <1>3, <1>4 DEF GoogleOK, RowsOK
<1>8. RunOK
  BY <1>5, <1>6 DEF RunOK
<1>9. HistoryOK
  <2>1. MaxFaults \in Nat
    BY OwnershipAssumption
  <2>2. calm \in BOOLEAN
    BY <1>6
  <2>3. faults \in 0..MaxFaults /\ unseen \subseteq Backups
    BY <1>6, <2>1
  <2> QED
    BY <2>2, <2>3 DEF HistoryOK
<1>10. PlanOK
  BY <1>5, <1>6 DEF PlanOK, Accounts
<1>11. WorkOK
  BY <1>5 DEF WorkOK, Handing
<1> QED
  BY <1>7, <1>8, <1>9, <1>10, <1>11 DEF TypeOK

\* Type correctness, for any accounts, files, ids, quotas and faults.
THEOREM TypeCorrect == Spec => []TypeOK
<1> QED
  BY TypeInit, TypeStep, PTL DEF Spec
-----------------------------------------------------------------------------
(* That every file keeps an object, and checkpoints stay true.  The       *)
(* invariant follows the object of the handover: what is deleted was      *)
(* main's, and the copy that replaces it is there.                        *)

\* A backup account has an object of the file.
Given(f) == \E i \in Ids : of[i] = f /\ Live(i) /\ owner[i] \in Backups

JobTrue ==
    /\ pc \in Handing => of[job.id] = job.file
    /\ pc = "offer" => job.home = place[job.id]
    /\ pc = "grant" => job.home \notin {"gone", "unborn"}
    /\ pc \in {"grant", "accept", "copy", "erase"} => Giving
    /\ pc \in {"copy", "erase", "rekey", "insert"} => src = Main
    /\ pc = "erase" => /\ copy # job.id /\ of[copy] = job.file
                       /\ Live(copy) /\ owner[copy] = job.to
    /\ pc \in {"place", "record", "account", "erase", "rekey", "insert"} => Given(job.file)

HandInv == TypeOK /\ JobTrue /\ CopyKept /\ CheckpointTrue

\* The job's fields, while there is a job.
LEMMA JobFields ==
    ASSUME TypeOK, pc \in Handing
    PROVE  /\ job \in Jobs /\ job.file \in Files /\ job.id \in Ids
           /\ job.to \in Backups /\ job.home \in Places /\ src \in Accounts
  BY DEF TypeOK, WorkOK, PlanOK, Jobs

\* An account is a place where an object lives.
LEMMA AccountLives == \A a \in Accounts : a \notin {"in", "gone", "unborn"}
  BY OwnershipAssumption

\* An object that lives lives on, with its content, and stays with the backup
\* accounts if one of them has it, unless it is the original being deleted.
Lasts(i) ==
    of'[i] = of[i] /\ Live(i)' /\ (owner[i] \in Backups => owner'[i] \in Backups)

LEMMA KeepsLive ==
    ASSUME TypeOK, JobTrue, [Next]_vars, NEW i \in Ids, Live(i), ~(Erase /\ i = job.id)
    PROVE  Lasts(i)
<1>1. /\ of \in [Ids -> Files] /\ owner \in [Ids -> Accounts] /\ place \in [Ids -> Places]
  BY DEF TypeOK, GoogleOK
<1>2. ASSUME google' = google PROVE Lasts(i)
  BY <1>1, <1>2 DEF google, Lasts, Live
<1>3. CASE Begin
  BY <1>3, <1>2 DEF Begin
<1>4. CASE MoveUnsynced
  BY <1>4, <1>1 DEF MoveUnsynced, Lasts, Live
<1>5. ASSUME NEW missed \in SUBSET Accounts, Scan(missed) PROVE Lasts(i)
  BY <1>5, <1>2 DEF Scan
<1>6. CASE EnterFree
  BY <1>6, <1>2 DEF EnterFree
<1>7. CASE EnterBalance
  BY <1>7, <1>2 DEF EnterBalance
<1>8. CASE NextSource
  BY <1>8, <1>2 DEF NextSource
<1>9. CASE Chosen
  BY <1>9, <1>2 DEF Chosen
<1>10. CASE Complete
  BY <1>10, <1>2 DEF Complete
<1>11. ASSUME NEW f \in Files, Skip(f) PROVE Lasts(i)
  BY <1>11, <1>2 DEF Skip
<1>12. ASSUME NEW f \in Files, NoRoom(f) PROVE Lasts(i)
  BY <1>12, <1>2 DEF NoRoom
<1>13. ASSUME NEW f \in Files, Choose(f) PROVE Lasts(i)
  BY <1>13, <1>2 DEF Choose
<1>14. CASE OfferDirectly
  <2>1. pc \in Handing
    BY <1>14 DEF OfferDirectly, Handing
  <2> QED
    BY <1>14, <1>1, <2>1, JobFields, AccountLives DEF OfferDirectly, Passes, Lasts, Live
<1>15. CASE OfferReplyLost
  <2>1. pc \in Handing
    BY <1>15 DEF OfferReplyLost, Handing
  <2> QED
    BY <1>15, <1>1, <2>1, JobFields, AccountLives DEF OfferReplyLost, Passes, Lasts, Live
<1>16. CASE OfferFails
  BY <1>16, <1>2 DEF OfferFails
<1>17. CASE TakeOut
  <2>1. pc \in Handing
    BY <1>17 DEF TakeOut, Handing
  <2> QED
    BY <1>17, <1>1, <2>1, JobFields, AccountLives DEF TakeOut, Lasts, Live
<1>18. CASE Grant
  BY <1>18, <1>2 DEF Grant
<1>19. CASE GrantFails
  <2>1. pc \in Handing
    BY <1>19 DEF GrantFails, Handing
  <2> QED
    BY <1>19, <1>1, <2>1, JobFields, AccountLives DEF GrantFails, JobTrue, Lasts, Live
<1>20. CASE Accept
  <2>1. pc \in Handing
    BY <1>20 DEF Accept, Handing
  <2> QED
    BY <1>20, <1>1, <2>1, JobFields, AccountLives DEF Accept, Passes, Lasts, Live
<1>21. CASE AcceptReplyLost
  <2>1. pc \in Handing
    BY <1>21 DEF AcceptReplyLost, Handing
  <2> QED
    BY <1>21, <1>1, <2>1, JobFields, AccountLives DEF AcceptReplyLost, Passes, Lasts, Live
<1>22. CASE AcceptFails
  BY <1>22, <1>2 DEF AcceptFails
<1>23. CASE PutBack
  <2>1. pc \in Handing
    BY <1>23 DEF PutBack, Handing
  <2> QED
    BY <1>23, <1>1, <2>1, JobFields, AccountLives DEF PutBack, Lasts, Live
<1>24. CASE Record
  BY <1>24, <1>2 DEF Record
<1>25. CASE Account
  BY <1>25, <1>2 DEF Account
<1>26. CASE CopyOver
  <2>1. pc \in Handing
    BY <1>26 DEF CopyOver, Handing
  <2> QED
    BY <1>26, <1>1, <2>1, JobFields, AccountLives DEF CopyOver, NewCopy, Lasts, Live
<1>27. CASE CopyReplyLost
  <2>1. pc \in Handing
    BY <1>27 DEF CopyReplyLost, Handing
  <2> QED
    BY <1>27, <1>1, <2>1, JobFields, AccountLives DEF CopyReplyLost, NewCopy, Lasts, Live
<1>28. CASE CopyOverFails
  BY <1>28, <1>2 DEF CopyOverFails
<1>29. CASE Erase
  <2>1. pc \in Handing
    BY <1>29 DEF Erase, Handing
  <2> QED
    BY <1>29, <1>1, <2>1, JobFields, AccountLives DEF Erase, Lasts, Live
<1>30. CASE EraseFails
  BY <1>30, <1>2 DEF EraseFails
<1>31. CASE Rekey
  BY <1>31, <1>2 DEF Rekey
<1>32. CASE Insert
  BY <1>32, <1>2 DEF Insert
<1>33. CASE Kill
  BY <1>33, <1>2 DEF Kill
<1>34. CASE UNCHANGED vars
  BY <1>34, <1>2 DEF vars
<1> QED
  BY <1>3, <1>4, <1>5, <1>6, <1>7, <1>8, <1>9, <1>10, <1>11, <1>12, <1>13, <1>14, <1>15, <1>16, <1>17, <1>18, <1>19, <1>20, <1>21, <1>22, <1>23, <1>24, <1>25, <1>26, <1>27, <1>28, <1>29, <1>30, <1>31, <1>32, <1>33, <1>34 DEF Next, Handover

\* What backup accounts have of a file they keep: the object that is deleted
\* is main's.
LEMMA KeepsGiven ==
    ASSUME TypeOK, JobTrue, [Next]_vars, NEW f, Given(f) PROVE Given(f)'
<1>1. PICK i \in Ids : of[i] = f /\ Live(i) /\ owner[i] \in Backups
  BY DEF Given
<1>2. ~(Erase /\ i = job.id)
  <2> SUFFICES ASSUME Erase PROVE i # job.id
    OBVIOUS
  <2>1. owner[job.id] = Main
    BY DEF Erase, JobTrue, Giving
  <2> QED
    BY <1>1, <2>1, OwnershipAssumption
<1>3. Lasts(i)
  BY <1>1, <1>2, KeepsLive
<1> QED
  BY <1>1, <1>3 DEF Given, Lasts, Live

LEMMA KeepsCopies == HandInv /\ [Next]_vars => CopyKept'
<1> SUFFICES ASSUME HandInv, [Next]_vars, NEW f \in Files
             PROVE  \E i \in Ids : of'[i] = f /\ Live(i)'
  BY DEF CopyKept, Live
<1> USE DEF HandInv
<1>1. PICK i \in Ids : of[i] = f /\ Live(i)
  BY DEF CopyKept
<1>2. CASE ~(Erase /\ i = job.id)
  <2>1. Lasts(i)
    BY <1>1, <1>2, KeepsLive
  <2> QED
    BY <1>1, <2>1 DEF Lasts
<1>3. CASE Erase /\ i = job.id
  <2>1. pc = "erase" /\ pc \in Handing
    BY <1>3 DEF Erase, Handing
  <2>2. of[copy] = f /\ Live(copy) /\ copy # job.id /\ copy \in Ids
    BY <1>1, <1>3, <2>1 DEF JobTrue, TypeOK, WorkOK
  <2>3. PICK c \in Ids : c = copy
    BY <2>2
  <2>4. Lasts(c)
    BY <2>2, <2>3, KeepsLive
  <2> QED
    BY <2>2, <2>3, <2>4 DEF Lasts
<1> QED
  BY <1>2, <1>3

LEMMA KeepsCheckpoints == HandInv /\ [Next]_vars => CheckpointTrue'
<1> SUFFICES ASSUME HandInv, [Next]_vars, NEW d \in done' PROVE Given(d[2])'
  BY DEF CheckpointTrue, Given, Live
<1> USE DEF HandInv
<1>1. d \in done \/ (Account /\ d = <<Step, job.file, job.to>>)
  <2>1. CASE Begin
    BY <2>1 DEF Begin, run
  <2>2. CASE MoveUnsynced
    BY <2>2 DEF MoveUnsynced, run
  <2>3. ASSUME NEW missed \in SUBSET Accounts, Scan(missed) PROVE d \in done \/ (Account /\ d = <<Step, job.file, job.to>>)
    BY <2>3 DEF Scan, run
  <2>4. CASE EnterFree
    BY <2>4 DEF EnterFree, run
  <2>5. CASE EnterBalance
    BY <2>5 DEF EnterBalance, run
  <2>6. CASE NextSource
    BY <2>6 DEF NextSource, run
  <2>7. CASE Chosen
    BY <2>7 DEF Chosen, run
  <2>8. CASE Complete
    BY <2>8 DEF Complete, run
  <2>9. ASSUME NEW f \in Files, Skip(f) PROVE d \in done \/ (Account /\ d = <<Step, job.file, job.to>>)
    BY <2>9 DEF Skip, run
  <2>10. ASSUME NEW f \in Files, NoRoom(f) PROVE d \in done \/ (Account /\ d = <<Step, job.file, job.to>>)
    BY <2>10 DEF NoRoom, run
  <2>11. ASSUME NEW f \in Files, Choose(f) PROVE d \in done \/ (Account /\ d = <<Step, job.file, job.to>>)
    BY <2>11 DEF Choose, run
  <2>12. CASE OfferDirectly
    BY <2>12 DEF OfferDirectly, GiveUp, Goes, CopyInstead, run
  <2>13. CASE OfferReplyLost
    BY <2>13 DEF OfferReplyLost, GiveUp, Goes, CopyInstead, run
  <2>14. CASE OfferFails
    BY <2>14 DEF OfferFails, GiveUp, Goes, CopyInstead, run
  <2>15. CASE TakeOut
    BY <2>15 DEF TakeOut, GiveUp, Goes, CopyInstead, run
  <2>16. CASE Grant
    BY <2>16 DEF Grant, GiveUp, Goes, CopyInstead, run
  <2>17. CASE GrantFails
    BY <2>17 DEF GrantFails, GiveUp, Goes, CopyInstead, run
  <2>18. CASE Accept
    BY <2>18 DEF Accept, GiveUp, Goes, CopyInstead, run
  <2>19. CASE AcceptReplyLost
    BY <2>19 DEF AcceptReplyLost, GiveUp, Goes, CopyInstead, run
  <2>20. CASE AcceptFails
    BY <2>20 DEF AcceptFails, GiveUp, Goes, CopyInstead, run
  <2>21. CASE PutBack
    BY <2>21 DEF PutBack, GiveUp, Goes, CopyInstead, run
  <2>22. CASE Record
    BY <2>22 DEF Record, GiveUp, Goes, CopyInstead, run
  <2>23. CASE Account
    BY <2>23 DEF Account, GiveUp, Goes, CopyInstead, run
  <2>24. CASE CopyOver
    BY <2>24 DEF CopyOver, GiveUp, Goes, CopyInstead, run
  <2>25. CASE CopyReplyLost
    BY <2>25 DEF CopyReplyLost, GiveUp, Goes, CopyInstead, run
  <2>26. CASE CopyOverFails
    BY <2>26 DEF CopyOverFails, GiveUp, Goes, CopyInstead, run
  <2>27. CASE Erase
    BY <2>27 DEF Erase, GiveUp, Goes, CopyInstead, run
  <2>28. CASE EraseFails
    BY <2>28 DEF EraseFails, GiveUp, Goes, CopyInstead, run
  <2>29. CASE Rekey
    BY <2>29 DEF Rekey, GiveUp, Goes, CopyInstead, run
  <2>30. CASE Insert
    BY <2>30 DEF Insert, GiveUp, Goes, CopyInstead, run
  <2>31. CASE Kill
    BY <2>31 DEF Kill, run
  <2>32. CASE UNCHANGED vars
    BY <2>32 DEF vars, run
  <2> QED
    BY <2>1, <2>2, <2>3, <2>4, <2>5, <2>6, <2>7, <2>8, <2>9, <2>10, <2>11, <2>12, <2>13, <2>14, <2>15, <2>16, <2>17, <2>18, <2>19, <2>20, <2>21, <2>22, <2>23, <2>24, <2>25, <2>26, <2>27, <2>28, <2>29, <2>30, <2>31, <2>32 DEF Next, Handover
<1>2. CASE d \in done
  <2>1. Given(d[2])
    BY <1>2 DEF CheckpointTrue, Given
  <2> QED
    BY <2>1, KeepsGiven
<1>3. CASE Account /\ d = <<Step, job.file, job.to>>
  <2>1. Given(d[2])
    BY <1>3 DEF Account, JobTrue
  <2> QED
    BY <2>1, KeepsGiven
<1> QED
  BY <1>1, <1>2, <1>3

\* Every step keeps what is known of the handover.
LEMMA JobStep == HandInv /\ [Next]_vars => JobTrue'
<1> SUFFICES ASSUME HandInv, [Next]_vars PROVE JobTrue'
  OBVIOUS
<1> USE DEF HandInv
<1>1. ASSUME pc' \notin Handing PROVE JobTrue'
  BY <1>1 DEF JobTrue, Handing
<1>2. /\ of \in [Ids -> Files] /\ owner \in [Ids -> Accounts] /\ place \in [Ids -> Places]
  BY DEF TypeOK, GoogleOK
<1>3. \A f : Given(f) => Given(f)'
  BY KeepsGiven
<1>4. CASE Begin
  BY <1>4, <1>1 DEF Begin, Handing, TypeOK, RunOK
<1>5. CASE MoveUnsynced
  BY <1>5, <1>1 DEF MoveUnsynced, Handing, MarkStep
<1>6. ASSUME NEW missed \in SUBSET Accounts, Scan(missed) PROVE JobTrue'
  BY <1>6, <1>1 DEF Scan, Handing, MarkStep
<1>7. CASE EnterFree
  BY <1>7, <1>1 DEF EnterFree, Handing
<1>8. CASE EnterBalance
  BY <1>8, <1>1 DEF EnterBalance, Handing
<1>9. CASE NextSource
  BY <1>9, <1>1 DEF NextSource, Handing
<1>10. CASE Chosen
  BY <1>10, <1>1 DEF Chosen, Handing, MarkStep
<1>11. CASE Complete
  BY <1>11, <1>1 DEF Complete, Handing
<1>12. ASSUME NEW f \in Files, Skip(f) PROVE JobTrue'
  BY <1>12, <1>1 DEF Skip, Handing
<1>13. ASSUME NEW f \in Files, NoRoom(f) PROVE JobTrue'
  BY <1>13, <1>1 DEF NoRoom, Handing
<1>14. ASSUME NEW f \in Files, Choose(f) PROVE JobTrue'
  <2>1. PICK t \in Fitting(f), i \in Owned(src, f) :
           job' = [file |-> f, id |-> i, to |-> t, home |-> place[i]]
    BY <1>14 DEF Choose
  <2>2. of[i] = f /\ i \in Ids
    BY DEF Owned
  <2>3. job'.id = i /\ job'.file = f /\ job'.home = place[i]
    BY <2>1
  <2>4. pc' = "offer" /\ of' = of /\ place' = place
    BY <1>14 DEF Choose, google
  <2> QED
    BY <2>2, <2>3, <2>4 DEF JobTrue
<1>15. CASE OfferDirectly
  <2>1. pc = "offer" /\ pc' = "record" /\ pc \in Handing
    BY <1>15 DEF OfferDirectly, Goes, GiveUp, CopyInstead, Handing
  <2>2. PICK i \in Ids : i = job.id
    BY <2>1, JobFields
  <2>3. of'[i] = job.file /\ owner'[i] = job.to /\ Live(i)' /\ job' = job
    BY <1>15, <1>2, <2>1, <2>2, JobFields DEF OfferDirectly, Goes, Passes, JobTrue, Giving, Live
  <2>4. job.to \in Backups
    BY <2>1, JobFields
  <2>5. \E k \in Ids : of'[k] = job'.file /\ Live(k)' /\ owner'[k] \in Backups
    BY <2>2, <2>3, <2>4
  <2>6. Given(job.file)'
    BY <2>5 DEF Given, Live
  <2> QED
    BY <2>1, <2>2, <2>3, <2>6 DEF JobTrue
<1>16. CASE OfferReplyLost
  BY <1>16, <1>1 DEF OfferReplyLost, Handing, GiveUp
<1>17. CASE OfferFails
  BY <1>17, <1>1 DEF OfferFails, Handing, GiveUp
<1>18. CASE TakeOut
  <2>1. pc = "offer" /\ pc' \in {"grant", "choose"} /\ pc \in Handing
    BY <1>18 DEF TakeOut, Goes, GiveUp, CopyInstead, Handing
  <2>2. CASE pc' = "choose"
    BY <1>1, <2>2 DEF Handing
  <2>3. CASE pc' = "grant"
    <3>1. job' = job /\ src' = src /\ of' = of /\ owner' = owner
      BY <1>18, <2>3 DEF TakeOut, Goes, GiveUp, plan
    <3>2. place'[job.id] = src /\ src \notin {"gone", "unborn"}
      BY <1>18, <1>2, <2>1, JobFields, AccountLives DEF TakeOut
    <3>3. Giving /\ job.home \notin {"gone", "unborn"} /\ of[job.id] = job.file
      BY <1>18, <2>1 DEF TakeOut, JobTrue, Giving, Live
    <3> QED
      BY <2>3, <3>1, <3>2, <3>3 DEF JobTrue, Giving, Live
  <2> QED
    BY <2>1, <2>2, <2>3
<1>19. CASE Grant
  <2>1. pc = "grant" /\ pc' = "accept" /\ pc \in Handing
    BY <1>19 DEF Grant, Goes, GiveUp, CopyInstead, Handing
  <2> QED
    BY <1>19, <2>1 DEF Grant, Goes, google, plan, JobTrue, Giving, Live
<1>20. CASE GrantFails
  <2>1. pc = "grant" /\ pc' \in {"copy", "choose"} /\ pc \in Handing
    BY <1>20 DEF GrantFails, Goes, GiveUp, CopyInstead, Handing
  <2>2. CASE pc' = "choose"
    BY <1>1, <2>2 DEF Handing
  <2>3. CASE pc' = "copy"
    <3>1. job' = job /\ src' = src /\ of' = of /\ owner' = owner /\ src = Main
      BY <1>20, <2>3 DEF GrantFails, CopyInstead, Goes, GiveUp, plan, google
    <3>2. place'[job.id] \notin {"gone", "unborn"}
      BY <1>20, <1>2, <2>1, JobFields, AccountLives DEF GrantFails, JobTrue, Giving, Live, google
    <3>3. Giving /\ of[job.id] = job.file
      BY <2>1 DEF JobTrue
    <3> QED
      BY <2>3, <3>1, <3>2, <3>3 DEF JobTrue, Giving, Live
  <2> QED
    BY <2>1, <2>2, <2>3
<1>21. CASE Accept
  <2>1. pc = "accept" /\ pc' = "place" /\ pc \in Handing
    BY <1>21 DEF Accept, Goes, GiveUp, CopyInstead, Handing
  <2>2. PICK i \in Ids : i = job.id
    BY <2>1, JobFields
  <2>3. of'[i] = job.file /\ owner'[i] = job.to /\ Live(i)' /\ job' = job
    BY <1>21, <1>2, <2>1, <2>2, JobFields DEF Accept, Goes, Passes, JobTrue, Giving, Live
  <2>4. job.to \in Backups
    BY <2>1, JobFields
  <2>5. \E k \in Ids : of'[k] = job'.file /\ Live(k)' /\ owner'[k] \in Backups
    BY <2>2, <2>3, <2>4
  <2>6. Given(job.file)'
    BY <2>5 DEF Given, Live
  <2> QED
    BY <2>1, <2>2, <2>3, <2>6 DEF JobTrue
<1>22. CASE AcceptReplyLost
  BY <1>22, <1>1 DEF AcceptReplyLost, Handing, GiveUp
<1>23. CASE AcceptFails
  <2>1. pc = "accept" /\ pc' \in {"copy", "choose"} /\ pc \in Handing
    BY <1>23 DEF AcceptFails, Goes, GiveUp, CopyInstead, Handing
  <2>2. CASE pc' = "choose"
    BY <1>1, <2>2 DEF Handing
  <2>3. CASE pc' = "copy"
    <3>1. job' = job /\ src' = src /\ of' = of /\ owner' = owner /\ src = Main
      BY <1>23, <2>3 DEF AcceptFails, CopyInstead, Goes, GiveUp, plan, google
    <3>2. place'[job.id] \notin {"gone", "unborn"}
      BY <1>23, <1>2, <2>1, JobFields, AccountLives DEF AcceptFails, JobTrue, Giving, Live, google
    <3>3. Giving /\ of[job.id] = job.file
      BY <2>1 DEF JobTrue
    <3> QED
      BY <2>3, <3>1, <3>2, <3>3 DEF JobTrue, Giving, Live
  <2> QED
    BY <2>1, <2>2, <2>3
<1>24. CASE PutBack
  <2>1. pc = "place" /\ pc' = "record" /\ pc \in Handing
    BY <1>24 DEF PutBack, Goes, GiveUp, CopyInstead, Handing
  <2>2. PICK g : g = job.file
    OBVIOUS
  <2>3. Given(g)'
    BY <1>3, <2>1, <2>2 DEF JobTrue
  <2>4. job' = job /\ of' = of /\ src' = src
    BY <1>24 DEF PutBack, Goes, work, google, plan
  <2>5. Given(job.file)'
    BY <2>2, <2>3, <2>4
  <2> QED
    BY <2>1, <2>4, <2>5 DEF JobTrue
<1>25. CASE Record
  <2>1. pc = "record" /\ pc' = "account" /\ pc \in Handing
    BY <1>25 DEF Record, Goes, GiveUp, CopyInstead, Handing
  <2>2. PICK g : g = job.file
    OBVIOUS
  <2>3. Given(g)'
    BY <1>3, <2>1, <2>2 DEF JobTrue
  <2>4. job' = job /\ of' = of /\ src' = src
    BY <1>25 DEF Record, Goes, work, google, plan
  <2>5. Given(job.file)'
    BY <2>2, <2>3, <2>4
  <2> QED
    BY <2>1, <2>4, <2>5 DEF JobTrue
<1>26. CASE Account
  BY <1>26, <1>1 DEF Account, Handing, GiveUp
<1>27. CASE CopyOver
  <2>1. pc = "copy" /\ pc' = "erase" /\ pc \in Handing
    BY <1>27 DEF CopyOver, Goes, GiveUp, CopyInstead, Handing
  <2>2. PICK j \in Ids : NewCopy(j) /\ copy' = j
    BY <1>27 DEF CopyOver
  <2>3. j # job.id /\ src = Main /\ Giving /\ of[job.id] = job.file
    BY <2>1, <2>2 DEF NewCopy, JobTrue, Giving, Live
  <2>4. of'[j] = job.file /\ owner'[j] = job.to /\ place'[j] = "in"
    BY <1>2, <2>2 DEF NewCopy
  <2>5. job' = job /\ src' = src
    BY <1>27 DEF CopyOver, Goes, plan
  <2>6. of'[job.id] = job.file /\ owner'[job.id] = src /\ place'[job.id] = place[job.id]
    BY <1>2, <2>1, <2>2, <2>3, JobFields DEF NewCopy, Giving
  <2>7. Giving'
    BY <2>3, <2>5, <2>6 DEF Giving, Live
  <2>8. job.to \in Backups
    BY <2>1, JobFields
  <2>9. Given(job.file)'
    BY <2>4, <2>5, <2>8 DEF Given, Live
  <2>10. copy' # job'.id /\ of'[copy'] = job'.file /\ owner'[copy'] = job'.to /\ Live(copy)'
    BY <2>2, <2>3, <2>4, <2>5 DEF Live
  <2> QED
    BY <2>1, <2>3, <2>5, <2>6, <2>7, <2>9, <2>10 DEF JobTrue
<1>28. CASE CopyReplyLost
  BY <1>28, <1>1 DEF CopyReplyLost, Handing, GiveUp
<1>29. CASE CopyOverFails
  BY <1>29, <1>1 DEF CopyOverFails, Handing, GiveUp
<1>30. CASE Erase
  <2>1. pc = "erase" /\ pc' \in {"rekey", "insert"} /\ pc \in Handing
    BY <1>30 DEF Erase, Goes, GiveUp, CopyInstead, Handing
  <2>2. PICK g : g = job.file
    OBVIOUS
  <2>3. Given(g)'
    BY <1>3, <2>1, <2>2 DEF JobTrue
  <2>4. job' = job /\ of' = of /\ src' = src
    BY <1>30 DEF Erase, Goes, work, google, plan
  <2>5. Given(job.file)'
    BY <2>2, <2>3, <2>4
  <2> QED
    BY <2>1, <2>4, <2>5 DEF JobTrue
<1>31. CASE EraseFails
  <2>1. pc = "erase" /\ pc' = "insert" /\ pc \in Handing
    BY <1>31 DEF EraseFails, Goes, GiveUp, CopyInstead, Handing
  <2>2. PICK g : g = job.file
    OBVIOUS
  <2>3. Given(g)'
    BY <1>3, <2>1, <2>2 DEF JobTrue
  <2>4. job' = job /\ of' = of /\ src' = src
    BY <1>31 DEF EraseFails, Goes, work, google, plan
  <2>5. Given(job.file)'
    BY <2>2, <2>3, <2>4
  <2> QED
    BY <2>1, <2>4, <2>5 DEF JobTrue
<1>32. CASE Rekey
  <2>1. pc = "rekey" /\ pc' = "account" /\ pc \in Handing
    BY <1>32 DEF Rekey, Goes, GiveUp, CopyInstead, Handing
  <2>2. PICK g : g = job.file
    OBVIOUS
  <2>3. Given(g)'
    BY <1>3, <2>1, <2>2 DEF JobTrue
  <2>4. job' = job /\ of' = of /\ src' = src
    BY <1>32 DEF Rekey, Goes, work, google, plan
  <2>5. Given(job.file)'
    BY <2>2, <2>3, <2>4
  <2> QED
    BY <2>1, <2>4, <2>5 DEF JobTrue
<1>33. CASE Insert
  <2>1. pc = "insert" /\ pc' = "account" /\ pc \in Handing
    BY <1>33 DEF Insert, Goes, GiveUp, CopyInstead, Handing
  <2>2. PICK g : g = job.file
    OBVIOUS
  <2>3. Given(g)'
    BY <1>3, <2>1, <2>2 DEF JobTrue
  <2>4. job' = job /\ of' = of /\ src' = src
    BY <1>33 DEF Insert, Goes, work, google, plan
  <2>5. Given(job.file)'
    BY <2>2, <2>3, <2>4
  <2> QED
    BY <2>1, <2>4, <2>5 DEF JobTrue
<1>34. CASE Kill
  BY <1>34, <1>1 DEF Kill, Handing
<1>35. CASE UNCHANGED vars
  BY <1>35 DEF vars, google, plan, work, JobTrue, Giving, Live, Given
<1> QED
  BY <1>4, <1>5, <1>6, <1>7, <1>8, <1>9, <1>10, <1>11, <1>12, <1>13, <1>14, <1>15, <1>16, <1>17, <1>18, <1>19, <1>20, <1>21, <1>22, <1>23, <1>24, <1>25, <1>26, <1>27, <1>28, <1>29, <1>30, <1>31, <1>32, <1>33, <1>34, <1>35 DEF Next, Handover

LEMMA HandInit == Init => HandInv
<1> SUFFICES ASSUME Init PROVE HandInv
  OBVIOUS
<1>1. TypeOK
  BY TypeInit
<1>2. JobTrue
  BY DEF Init, JobTrue, Handing
<1>3. PICK s \in Starts :
        /\ of = s.of /\ place = [i \in Ids |-> IF i \in s.born THEN "in" ELSE "unborn"]
  BY DEF Init
<1>4. CopyKept
  <2> SUFFICES ASSUME NEW f \in Files PROVE \E i \in Ids : of[i] = f /\ Live(i)
    BY DEF CopyKept
  <2>1. PICK i \in s.born : s.of[i] = f
    BY OwnershipAssumption
  <2>2. s.born \subseteq Ids
    BY OwnershipAssumption
  <2> QED
    BY <1>3, <2>1, <2>2 DEF Live
<1>5. CheckpointTrue
  BY DEF Init, CheckpointTrue
<1> QED
  BY <1>1, <1>2, <1>4, <1>5 DEF HandInv

LEMMA HandStep == HandInv /\ [Next]_vars => HandInv'
  BY TypeStep, JobStep, KeepsCopies, KeepsCheckpoints DEF HandInv

\* No file is ever without an object in Google, whatever fails or is killed
\* and wherever: in particular fallbackCopyDelete deletes nothing too early.
THEOREM CopiesSurvive == Spec => []CopyKept
<1>1. HandInv => CopyKept
  BY DEF HandInv
<1> QED
  BY <1>1, HandInit, HandStep, PTL DEF Spec

\* What a checkpoint lets a resumed run pass over is a backup account's.
THEOREM CheckpointsTrue == Spec => []CheckpointTrue
<1>1. HandInv => CheckpointTrue
  BY DEF HandInv
<1> QED
  BY <1>1, HandInit, HandStep, PTL DEF Spec
-----------------------------------------------------------------------------
(* That no account is overfilled.  The invariant relates what is stored to *)
(* what the process believes is, over a handover under way whose bytes are *)
(* there but not yet accounted for.                                        *)

\* Who gives and who takes: no account does both, and main gives alone.
Parties ==
    /\ targets \subseteq known /\ sources \cap targets = {} /\ left \subseteq sources
    /\ src = Main \/ src \in sources
    /\ pc \in {"unsynced", "scan", "free", "sync", "balance"} => src = Main /\ sources = {}
    /\ src = Main /\ pc \in {"choose"} \cup Handing => sources = {}

\* The file that is handed over was found to fit.
Fits == pc \in Handing =>
    job.to \in targets /\ used[job.to] + Size[job.file] < Total[job.to]

\* What the receiver has of the handover and has not been charged for.
Arrived == {"place", "record", "account", "erase", "rekey", "insert"}
Owed(t) == IF pc \in Arrived /\ job.to = t THEN Size[job.file] ELSE 0
Accounted == \A t \in known \ (unseen \cup sources) : stored[t] <= used[t] + Owed(t)

QuotaInv == TypeOK /\ Parties /\ Fits /\ Accounted /\ NeverOverfilled

LEMMA PartiesStep == QuotaInv /\ [Next]_vars => Parties'
<1> SUFFICES ASSUME TypeOK, Parties, [Next]_vars PROVE Parties'
  BY DEF QuotaInv
<1>1. Main \notin Backups /\ sources \subseteq Backups /\ Total \in [Backups -> Nat]
      /\ used \in [Backups -> Int] /\ known \subseteq Backups
  BY OwnershipAssumption DEF TypeOK, PlanOK
<1>2. CASE Begin
  BY <1>2, <1>1 DEF Begin, Parties, TypeOK, RunOK, Handing
<1>3. CASE MoveUnsynced
  BY <1>3, <1>1 DEF MoveUnsynced, MarkStep, Parties, Handing, plan
<1>4. ASSUME NEW missed \in SUBSET Accounts, Scan(missed) PROVE Parties'
  BY <1>4, <1>1 DEF Scan, MarkStep, Parties, Handing, plan
<1>5. CASE EnterFree
  BY <1>5, <1>1 DEF EnterFree, Parties, Handing, plan
<1>6. CASE EnterBalance
  <2>1. \A t \in Backups : ~(100 * used[t] > 95 * Total[t] /\ 100 * used[t] < 90 * Total[t])
    BY <1>1
  <2>2. sources' \cap targets' = {}
    BY <1>6, <1>1, <2>1 DEF EnterBalance
  <2>3. targets' \subseteq known' /\ left' \subseteq sources' /\ src' = Main /\ pc' = "source"
    BY <1>6 DEF EnterBalance, Parties
  <2> QED
    BY <2>2, <2>3 DEF Parties, Handing
<1>7. CASE NextSource
  BY <1>7, <1>1 DEF NextSource, Parties, Handing, plan
<1>8. CASE Chosen
  BY <1>8, <1>1 DEF Chosen, MarkStep, Parties, Handing, plan
<1>9. CASE Complete
  BY <1>9, <1>1 DEF Complete, Parties, Handing, plan
<1>10. ASSUME NEW f \in Files, Skip(f) PROVE Parties'
  BY <1>10, <1>1 DEF Skip, Parties, Handing, plan
<1>11. ASSUME NEW f \in Files, NoRoom(f) PROVE Parties'
  BY <1>11, <1>1 DEF NoRoom, Parties, Handing, plan
<1>12. ASSUME NEW f \in Files, Choose(f) PROVE Parties'
  BY <1>12, <1>1 DEF Choose, Parties, Handing, plan
<1>13. CASE OfferDirectly
  BY <1>13, <1>1 DEF OfferDirectly, Goes, Parties, Handing, plan
<1>14. CASE OfferReplyLost
  BY <1>14, <1>1 DEF OfferReplyLost, GiveUp, Parties, Handing, plan
<1>15. CASE OfferFails
  BY <1>15, <1>1 DEF OfferFails, GiveUp, Parties, Handing, plan
<1>16. CASE TakeOut
  BY <1>16, <1>1 DEF TakeOut, GiveUp, Goes, Parties, Handing, plan
<1>17. CASE Grant
  BY <1>17, <1>1 DEF Grant, Goes, Parties, Handing, plan
<1>18. CASE GrantFails
  BY <1>18, <1>1 DEF GrantFails, GiveUp, Goes, CopyInstead, Parties, Handing, plan
<1>19. CASE Accept
  BY <1>19, <1>1 DEF Accept, Goes, Parties, Handing, plan
<1>20. CASE AcceptReplyLost
  BY <1>20, <1>1 DEF AcceptReplyLost, GiveUp, Parties, Handing, plan
<1>21. CASE AcceptFails
  BY <1>21, <1>1 DEF AcceptFails, GiveUp, Goes, CopyInstead, Parties, Handing, plan
<1>22. CASE PutBack
  BY <1>22, <1>1 DEF PutBack, Goes, Parties, Handing, plan
<1>23. CASE Record
  BY <1>23, <1>1 DEF Record, Parties, Handing, plan
<1>24. CASE Account
  BY <1>24, <1>1 DEF Account, Parties, Handing, plan
<1>25. CASE CopyOver
  BY <1>25, <1>1 DEF CopyOver, Goes, Parties, Handing, plan
<1>26. CASE CopyReplyLost
  BY <1>26, <1>1 DEF CopyReplyLost, GiveUp, Parties, Handing, plan
<1>27. CASE CopyOverFails
  BY <1>27, <1>1 DEF CopyOverFails, GiveUp, Parties, Handing, plan
<1>28. CASE Erase
  BY <1>28, <1>1 DEF Erase, Goes, Parties, Handing, plan
<1>29. CASE EraseFails
  BY <1>29, <1>1 DEF EraseFails, Goes, Parties, Handing, plan
<1>30. CASE Rekey
  BY <1>30, <1>1 DEF Rekey, Parties, Handing, plan
<1>31. CASE Insert
  BY <1>31, <1>1 DEF Insert, Parties, Handing, plan
<1>32. CASE Kill
  BY <1>32, <1>1 DEF Kill, Parties, Handing, plan
<1>33. CASE UNCHANGED vars
  BY <1>33 DEF vars, plan, Parties
<1> QED
  BY <1>2, <1>3, <1>4, <1>5, <1>6, <1>7, <1>8, <1>9, <1>10, <1>11, <1>12, <1>13, <1>14, <1>15, <1>16, <1>17, <1>18, <1>19, <1>20, <1>21, <1>22, <1>23, <1>24, <1>25, <1>26, <1>27, <1>28, <1>29, <1>30, <1>31, <1>32, <1>33 DEF Next, Handover

LEMMA FitsStep == QuotaInv /\ [Next]_vars => Fits'
<1> SUFFICES ASSUME TypeOK, Fits, [Next]_vars PROVE Fits'
  BY DEF QuotaInv
<1>1. ASSUME pc' \notin Handing PROVE Fits'
  BY <1>1 DEF Fits
<1>2. ASSUME pc \in Handing, UNCHANGED <<plan, job>> PROVE Fits'
  BY <1>2 DEF Fits, plan
<1>3. CASE Begin
  BY <1>3, <1>1 DEF Begin, Handing, TypeOK, RunOK
<1>4. CASE MoveUnsynced
  BY <1>4, <1>1 DEF MoveUnsynced, MarkStep, Handing
<1>5. ASSUME NEW missed \in SUBSET Accounts, Scan(missed) PROVE Fits'
  BY <1>5, <1>1 DEF Scan, MarkStep, Handing
<1>6. CASE EnterFree
  BY <1>6, <1>1 DEF EnterFree, Handing
<1>7. CASE EnterBalance
  BY <1>7, <1>1 DEF EnterBalance, Handing
<1>8. CASE NextSource
  BY <1>8, <1>1 DEF NextSource, Handing
<1>9. CASE Chosen
  BY <1>9, <1>1 DEF Chosen, MarkStep, Handing
<1>10. CASE Complete
  BY <1>10, <1>1 DEF Complete, Handing
<1>11. ASSUME NEW f \in Files, Skip(f) PROVE Fits'
  BY <1>11, <1>1 DEF Skip, Handing
<1>12. ASSUME NEW f \in Files, NoRoom(f) PROVE Fits'
  BY <1>12, <1>1 DEF NoRoom, Handing
<1>13. ASSUME NEW f \in Files, Choose(f) PROVE Fits'
  <2>1. PICK t \in Fitting(f), i \in Owned(src, f) :
           job' = [file |-> f, id |-> i, to |-> t, home |-> place[i]]
    BY <1>13 DEF Choose
  <2>2. t \in targets /\ t \in Backups /\ Total[t] - used[t] > Size[f]
    BY DEF Fitting, Emptiest, Left, TypeOK, PlanOK
  <2>3. used[t] \in Int /\ Total[t] \in Int /\ Size[f] \in Int
    BY <2>2, OwnershipAssumption DEF TypeOK, PlanOK
  <2>4. used[t] + Size[f] < Total[t]
    BY <2>2, <2>3
  <2>5. job'.to = t /\ job'.file = f /\ used' = used /\ targets' = targets
    BY <1>13, <2>1 DEF Choose, plan
  <2> QED
    BY <2>2, <2>4, <2>5 DEF Fits
<1>14. CASE OfferDirectly
  BY <1>14, <1>1, <1>2 DEF OfferDirectly, Goes, Handing, work
<1>15. CASE OfferReplyLost
  BY <1>15, <1>1, <1>2 DEF OfferReplyLost, GiveUp, Handing, work
<1>16. CASE OfferFails
  BY <1>16, <1>1, <1>2 DEF OfferFails, GiveUp, Handing, work
<1>17. CASE TakeOut
  BY <1>17, <1>1, <1>2 DEF TakeOut, GiveUp, Goes, Handing, work
<1>18. CASE Grant
  BY <1>18, <1>1, <1>2 DEF Grant, Goes, Handing, work
<1>19. CASE GrantFails
  BY <1>19, <1>1, <1>2 DEF GrantFails, GiveUp, Goes, CopyInstead, Handing, work
<1>20. CASE Accept
  BY <1>20, <1>1, <1>2 DEF Accept, Goes, Handing, work
<1>21. CASE AcceptReplyLost
  BY <1>21, <1>1, <1>2 DEF AcceptReplyLost, GiveUp, Handing, work
<1>22. CASE AcceptFails
  BY <1>22, <1>1, <1>2 DEF AcceptFails, GiveUp, Goes, CopyInstead, Handing, work
<1>23. CASE PutBack
  BY <1>23, <1>1, <1>2 DEF PutBack, Goes, Handing, work
<1>24. CASE Record
  BY <1>24, <1>1, <1>2 DEF Record, Handing, work
<1>25. CASE Account
  BY <1>25, <1>1 DEF Account, Handing
<1>26. CASE CopyOver
  BY <1>26, <1>1, <1>2 DEF CopyOver, Goes, Handing, work
<1>27. CASE CopyReplyLost
  BY <1>27, <1>1, <1>2 DEF CopyReplyLost, GiveUp, Handing, work
<1>28. CASE CopyOverFails
  BY <1>28, <1>1, <1>2 DEF CopyOverFails, GiveUp, Handing, work
<1>29. CASE Erase
  BY <1>29, <1>1, <1>2 DEF Erase, Goes, Handing, work
<1>30. CASE EraseFails
  BY <1>30, <1>1, <1>2 DEF EraseFails, Goes, Handing, work
<1>31. CASE Rekey
  BY <1>31, <1>1, <1>2 DEF Rekey, Handing, work
<1>32. CASE Insert
  BY <1>32, <1>1, <1>2 DEF Insert, Handing, work
<1>33. CASE Kill
  BY <1>33, <1>1 DEF Kill, Handing
<1>34. CASE UNCHANGED vars
  BY <1>34 DEF vars, plan, work, Fits
<1> QED
  BY <1>3, <1>4, <1>5, <1>6, <1>7, <1>8, <1>9, <1>10, <1>11, <1>12, <1>13, <1>14, <1>15, <1>16, <1>17, <1>18, <1>19, <1>20, <1>21, <1>22, <1>23, <1>24, <1>25, <1>26, <1>27, <1>28, <1>29, <1>30, <1>31, <1>32, <1>33, <1>34 DEF Next, Handover

LEMMA Sizes ==
    /\ Size \in [Files -> Nat] /\ Total \in [Backups -> Nat] /\ Main \notin Backups
  BY OwnershipAssumption

\* The receiver of a handover is an account whose quota is known, and no giver.
LEMMA Receiver ==
    ASSUME QuotaInv, pc \in Handing
    PROVE  /\ job.to \in known \ sources /\ job.to \in Backups /\ job.to # src
           /\ Size[job.file] \in Nat /\ used[job.to] + Size[job.file] < Total[job.to]
<1>1. job.to \in targets /\ used[job.to] + Size[job.file] < Total[job.to]
  BY DEF QuotaInv, Fits
<1>2. job.to \in Backups /\ Size[job.file] \in Nat
  BY JobFields, Sizes DEF QuotaInv
<1> QED
  BY <1>1, <1>2, Sizes DEF QuotaInv, Parties

\* A step that stores nothing and charges nothing.
LEMMA NothingStored ==
    ASSUME QuotaInv, UNCHANGED <<stored, known, used, sources, unseen>>,
           \/ pc \notin Arrived /\ pc' \notin Arrived
           \/ pc \in Arrived /\ pc' \in Arrived /\ job' = job
    PROVE  Accounted' /\ NeverOverfilled'
<1>1. \A t : Owed(t)' = Owed(t)
  BY DEF Owed
<1> QED
  BY <1>1 DEF QuotaInv, Accounted, NeverOverfilled

\* The bytes of a handover arrive, and are to be accounted for or unseen.
LEMMA BytesArrive ==
    ASSUME QuotaInv, pc \in Handing \ Arrived, UNCHANGED <<known, used, sources>>,
           stored'[job.to] = stored[job.to] + Size[job.file],
           \A t \in Backups \ {job.to} : stored'[t] <= stored[t],
           stored' \in [Backups -> Int],
           \/ pc' \in Arrived /\ job' = job /\ unseen' = unseen
           \/ unseen' = unseen \cup {job.to} /\ pc' = "choose"
    PROVE  Accounted' /\ NeverOverfilled'
<1>1. /\ stored \in [Backups -> Int] /\ used \in [Backups -> Int] /\ known \subseteq Backups
      /\ stored' \in [Backups -> Int]
  BY DEF QuotaInv, TypeOK, GoogleOK, PlanOK
<1>2. \A t : Owed(t) = 0
  BY DEF Owed
<1>3. /\ job.to \in known \ sources /\ job.to \in Backups
      /\ Size[job.file] \in Nat /\ used[job.to] + Size[job.file] < Total[job.to]
  BY Receiver
<1>4. \A t \in known \ (unseen \cup sources) : stored[t] <= used[t]
  <2> SUFFICES ASSUME NEW t \in known \ (unseen \cup sources) PROVE stored[t] <= used[t]
    OBVIOUS
  <2>1. stored[t] <= used[t] + Owed(t)
    BY DEF QuotaInv, Accounted
  <2> QED
    BY <2>1, <1>1, <1>2
<1>5. ASSUME NEW t \in known' \ (unseen' \cup sources') PROVE stored'[t] <= used'[t] + Owed(t)'
  <2>1. t \in known \ (unseen \cup sources) /\ t \in Backups /\ used'[t] = used[t]
    BY <1>1, <1>5
  <2>2. CASE t # job.to
    <3>1. Owed(t)' = 0
      BY <2>2 DEF Owed, Arrived
    <3>2. stored'[t] <= stored[t] /\ stored[t] <= used[t]
      BY <2>1, <2>2, <1>4
    <3> QED
      BY <1>1, <2>1, <3>1, <3>2
  <2>3. CASE t = job.to
    <3>1. pc' \in Arrived /\ job' = job
      BY <1>5, <2>3
    <3>2. Owed(t)' = Size[job.file]
      BY <2>3, <3>1 DEF Owed
    <3>3. stored'[t] = stored[t] + Size[job.file] /\ stored[t] <= used[t]
      BY <2>1, <2>3, <1>4
    <3> QED
      BY <1>1, <1>3, <2>1, <3>2, <3>3
  <2> QED
    BY <2>2, <2>3
<1>6. ASSUME NEW t \in Backups \ unseen', Total[t] > 0 PROVE stored'[t] <= Total[t]
  <2>1. t \in Backups \ unseen /\ Total[t] \in Nat
    BY <1>6, Sizes
  <2>2. CASE t # job.to
    <3>1. stored'[t] <= stored[t] /\ stored[t] <= Total[t]
      BY <2>1, <2>2, <1>6 DEF QuotaInv, NeverOverfilled
    <3> QED
      BY <1>1, <2>1, <3>1
  <2>3. CASE t = job.to
    <3>1. stored'[t] = stored[t] + Size[job.file] /\ stored[t] <= used[t]
      BY <1>3, <1>4, <2>1, <2>3
    <3> QED
      BY <1>1, <1>3, <2>1, <2>3, <3>1
  <2> QED
    BY <2>2, <2>3
<1> QED
  BY <1>5, <1>6 DEF Accounted, NeverOverfilled

\* Ownership passes: the receiver's bytes grow, nobody else's do.
LEMMA PassesStores ==
    ASSUME QuotaInv, pc \in Handing, Passes
    PROVE  /\ stored'[job.to] = stored[job.to] + Size[job.file]
           /\ \A t \in Backups \ {job.to} : stored'[t] <= stored[t]
           /\ stored' \in [Backups -> Int]
<1>1. stored \in [Backups -> Int] /\ job.to \in Backups /\ Size[job.file] \in Nat
  BY Receiver DEF QuotaInv, TypeOK, GoogleOK
<1> QED
  BY <1>1 DEF Passes

\* So it does when a copy is made.
LEMMA CopyStores ==
    ASSUME QuotaInv, pc \in Handing, NEW j \in Ids, NewCopy(j)
    PROVE  /\ stored'[job.to] = stored[job.to] + Size[job.file]
           /\ \A t \in Backups \ {job.to} : stored'[t] <= stored[t]
           /\ stored' \in [Backups -> Int]
<1>1. stored \in [Backups -> Int] /\ job.to \in Backups /\ Size[job.file] \in Nat
  BY Receiver DEF QuotaInv, TypeOK, GoogleOK
<1> QED
  BY <1>1 DEF NewCopy

\* What is charged for a file is at least what it has.
LEMMA ChargedCovers ==
    ASSUME QuotaInv, UNCHANGED <<stored, known, sources, unseen>>, pc' = "choose",
           NEW f \in Files, NEW t \in targets, used' = Charged(f, t),
           \A b \in Backups : Owed(b) = 0 \/ (b = t /\ f = job.file /\ Owed(b) = Size[f])
    PROVE  Accounted' /\ NeverOverfilled'
<1>1. /\ stored \in [Backups -> Int] /\ used \in [Backups -> Int] /\ known \subseteq Backups
      /\ Size[f] \in Nat
  BY Sizes DEF QuotaInv, TypeOK, GoogleOK, PlanOK
<1>2. src = Main \/ src \in sources
  BY DEF QuotaInv, Parties
<1>3. ASSUME NEW b \in known' \ (unseen' \cup sources') PROVE stored'[b] <= used'[b] + Owed(b)'
  <2>1. b \in known \ (unseen \cup sources) /\ b \in Backups
    BY <1>1, <1>3
  <2>2. stored[b] <= used[b] + Owed(b)
    BY <2>1 DEF QuotaInv, Accounted
  <2>3. b # src
    BY <1>2, <2>1, Sizes
  <2>4. Owed(b)' = 0
    BY DEF Owed, Arrived
  <2>5. used'[b] = IF b = t THEN used[b] + Size[f] ELSE used[b]
    BY <2>1, <2>3 DEF Charged
  <2> QED
    BY <1>1, <2>1, <2>2, <2>4, <2>5
<1> QED
  BY <1>3 DEF Accounted, NeverOverfilled, QuotaInv

LEMMA QuotaStep == QuotaInv /\ [Next]_vars => QuotaInv'
<1> SUFFICES ASSUME QuotaInv, [Next]_vars PROVE Accounted' /\ NeverOverfilled'
  BY TypeStep, PartiesStep, FitsStep DEF QuotaInv
<1>1. CASE Begin
  <2>1. used' = stored /\ stored' = stored /\ unseen' = unseen /\ pc' \notin Arrived
    BY <1>1 DEF Begin, google, Arrived, QuotaInv, TypeOK, RunOK
  <2>2. known' \subseteq Backups /\ stored \in [Backups -> Int]
    BY <1>1 DEF Begin, QuotaInv, TypeOK, GoogleOK
  <2>3. \A t : Owed(t)' = 0
    BY <2>1 DEF Owed
  <2> QED
    BY <2>1, <2>2, <2>3 DEF QuotaInv, Accounted, NeverOverfilled
<1>2. CASE MoveUnsynced
  BY <1>2, NothingStored DEF MoveUnsynced, MarkStep, Arrived, google, plan, work, history, NoFault
<1>3. ASSUME NEW missed \in SUBSET Accounts, Scan(missed) PROVE Accounted' /\ NeverOverfilled'
  BY <1>3, NothingStored DEF Scan, MarkStep, Arrived, google, plan, work, history, NoFault
<1>4. CASE EnterFree
  BY <1>4, NothingStored DEF EnterFree, Arrived, google, plan, work, history, NoFault
<1>5. CASE EnterBalance
  <2>1. /\ stored' = stored /\ known' = known /\ used' = used /\ unseen' = unseen
        /\ pc = "balance" /\ pc' = "source"
    BY <1>5 DEF EnterBalance, google, history
  <2>2. sources = {}
    BY <2>1 DEF QuotaInv, Parties
  <2>3. \A t : Owed(t) = 0 /\ Owed(t)' = 0
    BY <2>1 DEF Owed, Arrived
  <2> QED
    BY <2>1, <2>2, <2>3 DEF QuotaInv, Accounted, NeverOverfilled
<1>6. CASE NextSource
  BY <1>6, NothingStored DEF NextSource, Arrived, google, plan, work, history, NoFault
<1>7. CASE Chosen
  BY <1>7, NothingStored DEF Chosen, MarkStep, Arrived, google, plan, work, history, NoFault
<1>8. CASE Complete
  BY <1>8, NothingStored DEF Complete, Arrived, google, plan, work, history, NoFault
<1>9. ASSUME NEW f \in Files, Skip(f) PROVE Accounted' /\ NeverOverfilled'
  <2>1. PICK t \in Handed(f) : used' = Charged(f, t)
    BY <1>9 DEF Skip
  <2>2. t \in targets /\ pc = "choose" /\ pc' = "choose"
        /\ UNCHANGED <<stored, known, sources, unseen>>
    BY <1>9, <2>1 DEF Skip, Handed, google, history
  <2>3. \A b \in Backups : Owed(b) = 0
    BY <2>2 DEF Owed, Arrived
  <2> QED
    BY <2>1, <2>2, <2>3, ChargedCovers
<1>10. ASSUME NEW f \in Files, NoRoom(f) PROVE Accounted' /\ NeverOverfilled'
  BY <1>10, NothingStored DEF NoRoom, Arrived, google, plan, work, history, NoFault
<1>11. ASSUME NEW f \in Files, Choose(f) PROVE Accounted' /\ NeverOverfilled'
  BY <1>11, NothingStored DEF Choose, Arrived, google, plan, work, history, NoFault
<1>12. CASE OfferDirectly
  <2>1. pc \in Handing \ Arrived /\ Passes
    BY <1>12 DEF OfferDirectly, Handing, Arrived
  <2>2. /\ UNCHANGED <<known, used, sources>>
        /\ \/ pc' \in Arrived /\ job' = job /\ unseen' = unseen
           \/ unseen' = unseen \cup {job.to} /\ pc' = "choose"
    BY <1>12 DEF OfferDirectly, Goes, plan, history, NoFault, FaultAt, Arrived
  <2> QED
    BY <2>1, <2>2, PassesStores, BytesArrive
<1>13. CASE OfferReplyLost
  <2>1. pc \in Handing \ Arrived /\ Passes
    BY <1>13 DEF OfferReplyLost, Handing, Arrived
  <2>2. /\ UNCHANGED <<known, used, sources>>
        /\ \/ pc' \in Arrived /\ job' = job /\ unseen' = unseen
           \/ unseen' = unseen \cup {job.to} /\ pc' = "choose"
    BY <1>13 DEF OfferReplyLost, GiveUp, plan, history, NoFault, FaultAt, Arrived
  <2> QED
    BY <2>1, <2>2, PassesStores, BytesArrive
<1>14. CASE OfferFails
  BY <1>14, NothingStored DEF OfferFails, GiveUp, Arrived, google, plan, work, history, NoFault
<1>15. CASE TakeOut
  BY <1>15, NothingStored DEF TakeOut, GiveUp, Goes, Arrived, google, plan, work, history, NoFault
<1>16. CASE Grant
  BY <1>16, NothingStored DEF Grant, Goes, Arrived, google, plan, work, history, NoFault
<1>17. CASE GrantFails
  BY <1>17, NothingStored DEF GrantFails, GiveUp, Goes, CopyInstead, Arrived, google, plan, work, history, NoFault
<1>18. CASE Accept
  <2>1. pc \in Handing \ Arrived /\ Passes
    BY <1>18 DEF Accept, Handing, Arrived
  <2>2. /\ UNCHANGED <<known, used, sources>>
        /\ \/ pc' \in Arrived /\ job' = job /\ unseen' = unseen
           \/ unseen' = unseen \cup {job.to} /\ pc' = "choose"
    BY <1>18 DEF Accept, Goes, plan, history, NoFault, FaultAt, Arrived
  <2> QED
    BY <2>1, <2>2, PassesStores, BytesArrive
<1>19. CASE AcceptReplyLost
  <2>1. pc \in Handing \ Arrived /\ Passes
    BY <1>19 DEF AcceptReplyLost, Handing, Arrived
  <2>2. /\ UNCHANGED <<known, used, sources>>
        /\ \/ pc' \in Arrived /\ job' = job /\ unseen' = unseen
           \/ unseen' = unseen \cup {job.to} /\ pc' = "choose"
    BY <1>19 DEF AcceptReplyLost, GiveUp, plan, history, NoFault, FaultAt, Arrived
  <2> QED
    BY <2>1, <2>2, PassesStores, BytesArrive
<1>20. CASE AcceptFails
  BY <1>20, NothingStored DEF AcceptFails, GiveUp, Goes, CopyInstead, Arrived, google, plan, work, history, NoFault
<1>21. CASE PutBack
  BY <1>21, NothingStored DEF PutBack, Goes, Arrived, google, plan, work, history, NoFault
<1>22. CASE Record
  BY <1>22, NothingStored DEF Record, Arrived, google, plan, work, history, NoFault
<1>23. CASE Account
  <2>1. pc = "account" /\ pc \in Handing /\ pc' = "choose" /\ used' = Charged(job.file, job.to)
        /\ UNCHANGED <<stored, known, sources, unseen>>
    BY <1>23 DEF Account, google, history, Handing
  <2>2. job.file \in Files /\ job.to \in targets
    BY <2>1, JobFields DEF QuotaInv, Fits
  <2>3. \A b \in Backups : Owed(b) = 0 \/ (b = job.to /\ Owed(b) = Size[job.file])
    BY DEF Owed
  <2> QED
    BY <2>1, <2>2, <2>3, ChargedCovers
<1>24. CASE CopyOver
  <2>1. pc \in Handing \ Arrived
    BY <1>24 DEF CopyOver, Handing, Arrived
  <2>2. PICK j \in Ids : NewCopy(j)
    BY <1>24 DEF CopyOver
  <2>3. /\ UNCHANGED <<known, used, sources>>
        /\ \/ pc' \in Arrived /\ job' = job /\ unseen' = unseen
           \/ unseen' = unseen \cup {job.to} /\ pc' = "choose"
    BY <1>24 DEF CopyOver, Goes, plan, history, NoFault, FaultAt, Arrived
  <2> QED
    BY <2>1, <2>2, <2>3, CopyStores, BytesArrive
<1>25. CASE CopyReplyLost
  <2>1. pc \in Handing \ Arrived
    BY <1>25 DEF CopyReplyLost, Handing, Arrived
  <2>2. PICK j \in Ids : NewCopy(j)
    BY <1>25 DEF CopyReplyLost
  <2>3. /\ UNCHANGED <<known, used, sources>>
        /\ \/ pc' \in Arrived /\ job' = job /\ unseen' = unseen
           \/ unseen' = unseen \cup {job.to} /\ pc' = "choose"
    BY <1>25 DEF CopyReplyLost, GiveUp, plan, history, NoFault, FaultAt, Arrived
  <2> QED
    BY <2>1, <2>2, <2>3, CopyStores, BytesArrive
<1>26. CASE CopyOverFails
  BY <1>26, NothingStored DEF CopyOverFails, GiveUp, Arrived, google, plan, work, history, NoFault
<1>27. CASE Erase
  BY <1>27, NothingStored DEF Erase, Goes, Arrived, google, plan, work, history, NoFault
<1>28. CASE EraseFails
  BY <1>28, NothingStored DEF EraseFails, Goes, Arrived, google, plan, work, history, NoFault
<1>29. CASE Rekey
  BY <1>29, NothingStored DEF Rekey, Arrived, google, plan, work, history, NoFault, Rekeyed
<1>30. CASE Insert
  BY <1>30, NothingStored DEF Insert, Arrived, google, plan, work, history, NoFault
<1>31. CASE Kill
  BY <1>31 DEF Kill, google, QuotaInv, Accounted, NeverOverfilled
<1>32. CASE UNCHANGED vars
  BY <1>32, NothingStored DEF vars, google, plan, work, history
<1> QED
  BY <1>1, <1>2, <1>3, <1>4, <1>5, <1>6, <1>7, <1>8, <1>9, <1>10, <1>11, <1>12, <1>13, <1>14, <1>15, <1>16, <1>17, <1>18, <1>19, <1>20, <1>21, <1>22, <1>23, <1>24, <1>25, <1>26, <1>27, <1>28, <1>29, <1>30, <1>31, <1>32 DEF Next, Handover

LEMMA QuotaInit == Init => QuotaInv
<1> SUFFICES ASSUME Init PROVE QuotaInv
  OBVIOUS
<1>1. TypeOK
  BY TypeInit
<1>2. Parties /\ Fits /\ Accounted
  BY DEF Init, Parties, Fits, Accounted, Handing
<1>3. PICK s \in Starts : stored = s.stored
  BY DEF Init
<1>4. NeverOverfilled
  BY <1>3, OwnershipAssumption DEF NeverOverfilled
<1> QED
  BY <1>1, <1>2, <1>4 DEF QuotaInv

\* No account is planned over its quota, on quotas that were read once and are
\* only calculated with, over kills, resumed runs and failures.
THEOREM NoOverfill == Spec => []NeverOverfilled
<1>1. QuotaInv => NeverOverfilled
  BY DEF QuotaInv
<1> QED
  BY <1>1, QuotaInit, QuotaStep, PTL DEF Spec
=============================================================================
