--------------------------- MODULE OwnershipCalmProofs ---------------------------
(***************************************************************************)
(* What a run of Ownership brings about that nothing disturbs: main is     *)
(* freed of what fits elsewhere, overfull accounts are relieved, and the   *)
(* rows follow.  The process then knows what is stored, the rows it works  *)
(* from say who owns what, and what it has not handed over it still has    *)
(* before it, or it fits nowhere.                                          *)
(***************************************************************************)
EXTENDS OwnershipProofs, FiniteSetTheorems

\* The steps follow one another; the checkpoints are those of this run.
PhaseOK ==
    /\ pc \in {"unsynced", "scan", "free", "sync", "balance"} => resume = pc
    /\ pc \in {"choose"} \cup Handing => resume = IF src = Main THEN "free" ELSE "balance"
    /\ pc = "source" => resume = "balance"
    /\ resume \in {"unsynced", "scan"} => done = {}
    /\ resume # "balance" => \A d \in done : d[1] = "freemain"

Working   == pc \in {"choose"} \cup Handing
Freeing   == Working /\ src = Main
Balancing == pc = "source" \/ (Working /\ src # Main)
Moved     == {"place", "record", "account"}

Quiet ==
    /\ known = Backups /\ pc \notin {"copy", "erase", "rekey", "insert"}
    /\ pc = "free" => done = {}
    /\ pc = "balance" => \A d \in done : d[1] = "freemain"

\* The object in hand is the giver's until it is the receiver's.
InHand == pc \in Handing =>
    /\ job.file \in todo /\ ~Passed(Step, job.file)
    /\ pc \in {"offer", "grant", "accept"} => Giving
    /\ pc = "offer" => place[job.id] = "in"
    /\ pc \in Moved => owner[job.id] = job.to
    /\ pc \in {"record", "account"} => place[job.id] = "in"

\* Rows in use are of objects in the tree; who they say owns an object does,
\* or has given it away since the listing.
RowsTrue == pc \notin {"unsynced", "scan"} =>
    \A a \in Accounts, i \in Ids : state[<<a, i>>] = "active" =>
      /\ place[i] = "in" \/ (i = job.id /\ pc \in {"grant", "accept", "place"})
      /\ claimed[<<a, i>>] = a =>
           owner[i] = a \/ (i = job.id /\ a = src /\ pc \in {"place", "record"})
      /\ pc \in {"free", "balance"} => claimed[<<a, i>>] = owner[i]
      /\ Balancing =>
           \/ claimed[<<a, i>>] = owner[i]
           \/ /\ claimed[<<a, i>>] \notin left
              /\ Passed("balance", of[i]) \/ (i = job.id /\ pc \in Moved)

\* What the process believes is stored, is.
Counted == stored = IF pc \in Moved THEN Charged(job.file, job.to) ELSE used

\* What main still has is before the process, or fits nowhere.
Freed ==
    /\ Freeing => /\ \A f \in todo : ~Passed("freemain", f)
                  /\ \A t \in Backups \ targets : stored[t] >= Total[t]
    /\ Freeing \/ pc = "sync" => \A i \in Ids :
         place[i] = "in" /\ owner[i] = Main /\ state[<<Main, i>>] = "active"
            /\ ~Passed("freemain", of[i])
           => (Freeing /\ of[i] \in todo) \/ \A t \in Backups : ~Room(t, of[i])

\* So it is with the accounts that were to give.
Settled(s) ==
    \/ 100 * stored[s] < 90 * Total[s]
    \/ \A i \in Ids : Owns(s, i) => \/ Working /\ s = src /\ of[i] \in todo
                                   \/ \A t \in targets : ~Room(t, of[i])
Taken ==
    /\ Balancing => \A d \in done : d[1] = "balance" => d[3] \in targets
    /\ Balancing /\ Working => src \notin left
Owning == Balancing /\ Working =>
    \A f \in todo : \/ pc \in Handing /\ f = job.file
                    \/ \E i \in Ids : of[i] = f /\ Owns(src, i)
Balanced == Balancing => \A s \in sources \ left : Settled(s)

CalmInv == calm /\ pc # "idle" =>
    /\ Quiet /\ InHand /\ RowsTrue /\ Freed /\ Taken
    /\ TwinLeft \/ (Counted /\ Owning /\ Balanced)
CalmAll == HandInv /\ QuotaInv /\ PhaseOK /\ CalmInv

-----------------------------------------------------------------------------
\* Of finitely many values one is the largest.
LEMMA Greatest ==
    ASSUME NEW S, IsFiniteSet(S), S # {}, NEW v \in [S -> Int]
    PROVE  \E x \in S : \A y \in S : v[y] <= v[x]
<1> DEFINE above(x) == {y \in S : v[y] > v[x]}
           T == {above(x) : x \in S}
<1>1. T \subseteq FiniteSubsetsOf(S) /\ T # {}
  <2>1. FiniteSubsetsOf(S) = SUBSET S
    BY FS_FiniteSubsetsOfFinite
  <2>2. T \subseteq SUBSET S
    OBVIOUS
  <2>3. PICK x \in S : TRUE
    OBVIOUS
  <2>4. above(x) \in T
    OBVIOUS
  <2> QED
    BY <2>1, <2>2, <2>4
<1>2. IsWellFoundedOn(StrictSubsetOrdering(S), FiniteSubsetsOf(S))
  BY FS_StrictSubsetOrderingWellFounded
<1>3. PICK A \in T : \A B \in T : <<B, A>> \notin StrictSubsetOrdering(S)
  BY <1>1, <1>2, WFMin
<1>4. PICK x \in S : A = above(x)
  BY <1>3
<1>5. ASSUME NEW y \in S, ~(v[y] <= v[x]) PROVE FALSE
  <2>1. v[x] \in Int /\ v[y] \in Int /\ v[y] > v[x]
    BY <1>5
  <2>2. above(y) \subseteq above(x)
    <3> SUFFICES ASSUME NEW z \in S, v[z] > v[y] PROVE v[z] > v[x]
      OBVIOUS
    <3>1. v[z] \in Int
      OBVIOUS
    <3> QED
      BY <2>1, <3>1
  <2>3. y \in above(x) /\ y \notin above(y)
    BY <2>1
  <2>4. <<above(y), above(x)>> \in StrictSubsetOrdering(S)
    BY <2>2, <2>3 DEF StrictSubsetOrdering
  <2> QED
    BY <1>3, <1>4, <2>4
<1> QED
  BY <1>5

\* When a file fits into none of the accounts that are looked at first, it fits
\* into no target.
LEMMA FitsNowhere ==
    ASSUME TypeOK, NEW f \in Files, Fitting(f) = {}, NEW t \in targets
    PROVE  ~(Total[t] - used[t] > Size[f])
<1> DEFINE v == [u \in targets |-> Left(u)]
<1>1. IsFiniteSet(targets)
  <2>1. targets \in SUBSET Backups
    BY DEF TypeOK, PlanOK
  <2> QED
    BY <2>1, FewBackups, FS_Subset
<1>2. v \in [targets -> Int] /\ \A u \in targets : Left(u) \in Int
  BY OwnershipAssumption DEF TypeOK, PlanOK, Left
<1>3. PICK x \in targets : \A y \in targets : v[y] <= v[x]
  BY <1>1, <1>2, Greatest
<1>4. x \in Emptiest
  BY <1>3 DEF Emptiest
<1>5. ~(Left(x) > Size[f]) /\ Left(t) <= Left(x)
  BY <1>3, <1>4 DEF Fitting
<1>6. Size[f] \in Int /\ Left(x) \in Int /\ Left(t) \in Int
  BY <1>2, OwnershipAssumption
<1>7. ~(Left(t) > Size[f])
  BY <1>5, <1>6
<1> QED
  BY <1>7 DEF Left
-----------------------------------------------------------------------------

\* What is known before a step of such a run.
Before ==
    /\ TypeOK /\ JobTrue /\ Parties /\ Fits /\ PhaseOK
    /\ Quiet /\ InHand /\ RowsTrue /\ Freed /\ Taken
    /\ TwinLeft \/ (Counted /\ Owning /\ Balanced)

LEMMA Known ==
    ASSUME CalmAll, calm, pc # "idle"
    PROVE  Before
  BY DEF CalmAll, HandInv, QuotaInv, CalmInv, Before

LEMMA CalmBy ==
    ASSUME Quiet', InHand', RowsTrue', Freed', Taken',
           TwinLeft' \/ (Counted' /\ Owning' /\ Balanced')
    PROVE  CalmInv'
  BY DEF CalmInv

LEMMA FaultNotCalm == ASSUME Fault PROVE CalmInv'
  BY DEF Fault, CalmInv

LEMMA AtNotCalm == ASSUME NEW a, FaultAt(a) PROVE CalmInv'
  BY DEF FaultAt, Fault, CalmInv

\* No main account is a backup account, and sizes are natural numbers.
LEMMA Facts ==
    ASSUME TypeOK
    PROVE  /\ of \in [Ids -> Files] /\ owner \in [Ids -> Accounts]
           /\ place \in [Ids -> Places] /\ stored \in [Backups -> Int]
           /\ used \in [Backups -> Int] /\ todo \subseteq Files
           /\ state \in [Accounts \X Ids -> {"none", "active", "deleted"}]
           /\ claimed \in [Accounts \X Ids -> Accounts]
           /\ Main \notin Backups /\ Main \in Accounts /\ Backups \subseteq Accounts
           /\ Size \in [Files -> Nat] /\ Total \in [Backups -> Nat]
           /\ targets \subseteq Backups /\ sources \subseteq Backups /\ left \subseteq Backups
  BY OwnershipAssumption DEF TypeOK, GoogleOK, PlanOK, RowsOK, Accounts

LEMMA BeginCalm ==
    ASSUME CalmAll, Begin, calm'
    PROVE  CalmInv'
<1>1. PICK K \in SUBSET Backups :
        /\ known' = K /\ used' = stored
        /\ \/ K = Backups /\ faults' = faults /\ calm' = (resume = "unsynced")
           \/ K # Backups /\ resume \notin {"unsynced", "scan"} /\ Fault
  BY Zenon DEF Begin
<1>2. known' = Backups /\ resume = "unsynced"
  BY <1>1 DEF Fault
<1>3. /\ used' = stored /\ stored' = stored /\ pc' = "unsynced"
      /\ sources' = {} /\ src' = Main
  BY <1>1, <1>2 DEF Begin, google
<1>4. Counted'
  BY <1>3 DEF Counted, Moved
<1>5. Quiet' /\ InHand' /\ RowsTrue'
  BY <1>2, <1>3 DEF Quiet, InHand, RowsTrue, Handing
<1>6. ~Freeing' /\ ~Balancing'
  BY <1>3 DEF Freeing, Balancing, Working, Handing
<1>7. Freed' /\ Taken' /\ Owning' /\ Balanced'
  BY <1>3, <1>6 DEF Freed, Taken, Owning, Balanced
<1> QED
  BY <1>4, <1>5, <1>7, CalmBy

LEMMA MoveUnsyncedCalm ==
    ASSUME CalmAll, MoveUnsynced, calm'
    PROVE  CalmInv'
<1>1. /\ calm /\ pc = "unsynced" /\ pc' = "scan"
      /\ UNCHANGED <<known, used, stored, sources>>
  BY DEF MoveUnsynced, MarkStep, NoFault, history, Fault, plan
<1>2. Before
  BY <1>1, Known
<1>3. Quiet'
  BY <1>1, <1>2 DEF Before, Quiet
<1>4. InHand'
  BY <1>1, <1>2 DEF Before, InHand, Giving, Live, Passed, Step, Moved, Handing
<1>5. RowsTrue'
  BY <1>1, <1>2 DEF Before, RowsTrue, Balancing, Working, Handing, Moved,
        Passed
<1>6. Freed'
  BY <1>1, <1>2 DEF Before, Freed, Freeing, Working, Handing, Room, Passed
<1>7. Taken'
  BY <1>1, <1>2 DEF Before, Taken, Balancing, Working, Handing
<1>8. TwinLeft' \/ (Counted' /\ Owning' /\ Balanced')
  <2>1. Counted'
    BY <1>1, <1>2 DEF Before, TwinLeft, Parties, Counted, Moved
  <2> QED
    BY <1>1, <2>1 DEF Owning, Balanced, Balancing, Working, Handing
<1> QED
  BY <1>3, <1>4, <1>5, <1>6, <1>7, <1>8, CalmBy

\* An undisturbed listing: rows in use are of what is in the tree, and name its
\* owner.
LEMMA ListedTrue ==
    ASSUME TypeOK, Refreshed({})
    PROVE  \A a \in Accounts, i \in Ids : state'[<<a, i>>] = "active" =>
               place[i] = "in" /\ claimed'[<<a, i>>] = owner[i]
<1> SUFFICES ASSUME NEW a \in Accounts, NEW i \in Ids, state'[<<a, i>>] = "active"
             PROVE  place[i] = "in" /\ claimed'[<<a, i>>] = owner[i]
  OBVIOUS
<1>1. <<a, i>> \in Accounts \X Ids
  OBVIOUS
<1>2. place[i] = "in"
  <2>1. CASE place[i] # "in"
    <3>1. state'[<<a, i>>] = IF state[<<a, i>>] = "active" THEN "deleted" ELSE state[<<a, i>>]
      BY <1>1, <2>1 DEF Refreshed
    <3> QED
      BY <3>1
  <2> QED
    BY <2>1
<1>3. claimed'[<<a, i>>] = owner[i]
  BY <1>1, <1>2 DEF Refreshed
<1> QED
  BY <1>2, <1>3

LEMMA ScanCalm ==
    ASSUME CalmAll, NEW missed \in SUBSET Accounts, Scan(missed), calm'
    PROVE  CalmInv'
<1>1. /\ calm /\ missed = {}
      /\ (pc = "scan" /\ pc' = "free") \/ (pc = "sync" /\ pc' = "balance")
      /\ Refreshed({}) /\ UNCHANGED <<known, used, stored, sources, done, place, owner, src>>
  BY DEF Scan, MarkStep, NoFault, history, Fault, plan, google
<1>2. Before
  BY <1>1, Known
<1>3. Quiet'
  BY <1>1, <1>2 DEF Before, Quiet, PhaseOK
<1>4. InHand'
  BY <1>1 DEF InHand, Handing
<1>5. RowsTrue'
  <2>1. \A a \in Accounts, i \in Ids : state'[<<a, i>>] = "active" =>
          place'[i] = "in" /\ claimed'[<<a, i>>] = owner'[i]
    BY <1>1, <1>2, ListedTrue DEF Before
  <2> QED
    BY <1>1, <2>1 DEF RowsTrue, Balancing, Working, Handing
<1>6. Freed'
  BY <1>1, <1>2 DEF Before, Freed, Freeing, Working, Handing, Room, Passed
<1>7. Taken'
  BY <1>1, <1>2 DEF Before, Taken, Balancing, Working, Handing
<1>8. TwinLeft' \/ (Counted' /\ Owning' /\ Balanced')
  <2>1. Counted'
    BY <1>1, <1>2 DEF Before, TwinLeft, Parties, Counted, Moved
  <2> QED
    BY <1>1, <2>1 DEF Owning, Balanced, Balancing, Working, Handing
<1> QED
  BY <1>3, <1>4, <1>5, <1>6, <1>7, <1>8, CalmBy

LEMMA EnterFreeCalm ==
    ASSUME CalmAll, EnterFree, calm'
    PROVE  CalmInv'
<1>1. /\ calm /\ pc = "free" /\ pc' = "choose" /\ src' = Main
      /\ targets' = {t \in known : Left(t) > 0}
      /\ todo' = IF targets' = {} THEN {} ELSE Candidates(Main)
      /\ UNCHANGED <<of, owner, place, stored, state, claimed>>
      /\ UNCHANGED <<known, used, sources, done>>
  BY DEF EnterFree, history, google, rows, run
<1>2. Before
  BY <1>1, Known
<1>3. Quiet'
  BY <1>1, <1>2 DEF Before, Quiet
<1>4. InHand'
  BY <1>1, <1>2 DEF Before, InHand, Giving, Live, Passed, Step, Moved, Handing
<1>5. RowsTrue'
  BY <1>1, <1>2 DEF Before, RowsTrue, Balancing, Working, Handing, Moved,
        Passed
<1>6. Freed'
  <2>1. known = Backups /\ done = {} /\ stored = used
    BY <1>1, <1>2 DEF Before, Quiet, Counted, Moved, TwinLeft, Passed
  <2>2. \A f \in todo' : ~Passed("freemain", f)'
    BY <1>1, <2>1 DEF Passed
  <2>3. ASSUME NEW t \in Backups \ targets' PROVE stored'[t] >= Total[t]
    <3>1. ~(Left(t) > 0) /\ stored[t] \in Int /\ Total[t] \in Int
      BY <1>1, <1>2, <2>1, <2>3, Facts DEF Before
    <3>2. stored[t] >= Total[t]
      BY <2>1, <3>1 DEF Left
    <3> QED
      BY <1>1, <3>2
  <2>4. ASSUME NEW i \in Ids, place'[i] = "in", owner'[i] = Main,
               state'[<<Main, i>>] = "active"
        PROVE  of'[i] \in todo' \/ \A t \in Backups : ~Room(t, of[i])'
    <3>1. CASE targets' = {}
      <4>1. ASSUME NEW t \in Backups PROVE ~(Total[t] - stored[t] > Size[of[i]])
        <5>1. stored'[t] >= Total[t] /\ stored[t] \in Int /\ Total[t] \in Int
          BY <2>3, <3>1, <1>2, Facts DEF Before
        <5>2. Size[of[i]] \in Nat
          BY <1>2, Facts DEF Before
        <5> QED
          BY <1>1, <5>1, <5>2
      <4> QED
        BY <1>1, <4>1 DEF Room
    <3>2. CASE targets' # {}
      <4>1. state[<<Main, i>>] = "active" /\ Main \in Accounts
        BY <1>1, <1>2, <2>4, Facts DEF Before
      <4>2. claimed[<<Main, i>>] = Main
        BY <1>1, <1>2, <2>4, <4>1 DEF Before, RowsTrue
      <4>3. of[i] \in Files /\ i \in Owned(Main, of[i])
        BY <1>2, <4>1, <4>2, Facts DEF Before, Owned
      <4> QED
        BY <1>1, <3>2, <4>3 DEF Candidates
    <3> QED
      BY <3>1, <3>2
  <2>5. Freeing'
    BY <1>1 DEF Freeing, Working
  <2> QED
    BY <2>2, <2>3, <2>4, <2>5 DEF Freed
<1>7. Taken'
  BY <1>1, <1>2 DEF Before, Taken, Balancing, Working, Handing
<1>8. TwinLeft' \/ (Counted' /\ Owning' /\ Balanced')
  <2>1. Counted'
    BY <1>1, <1>2 DEF Before, TwinLeft, Parties, Counted, Moved
  <2> QED
    BY <1>1, <2>1 DEF Owning, Balanced, Balancing, Working, Handing
<1> QED
  BY <1>3, <1>4, <1>5, <1>6, <1>7, <1>8, CalmBy

LEMMA EnterBalanceCalm ==
    ASSUME CalmAll, EnterBalance, calm'
    PROVE  CalmInv'
<1>1. /\ calm /\ pc = "balance" /\ pc' = "source"
      /\ left' = IF targets' = {} THEN {} ELSE sources'
      /\ UNCHANGED <<of, owner, place, stored, state, claimed>>
      /\ UNCHANGED <<known, used, done>>
  BY DEF EnterBalance, history, google, rows, run
<1>2. Before
  BY <1>1, Known
<1>3. Quiet'
  BY <1>1, <1>2 DEF Before, Quiet
<1>4. InHand'
  BY <1>1, <1>2 DEF Before, InHand, Giving, Live, Passed, Step, Moved, Handing
<1>5. RowsTrue'
  BY <1>1, <1>2 DEF Before, RowsTrue, Balancing, Working, Handing, Moved,
        Passed
<1>6. Freed'
  BY <1>1, <1>2 DEF Before, Freed, Freeing, Working, Handing, Room, Passed
<1>7. Taken'
  <2>1. \A d \in done' : d[1] = "freemain"
    BY <1>1, <1>2 DEF Before, Quiet
  <2> QED
    BY <1>1, <2>1 DEF Taken, Working, Handing
<1>8. TwinLeft' \/ (Counted' /\ Owning' /\ Balanced')
  <2>1. Counted'
    BY <1>1, <1>2 DEF Before, TwinLeft, Parties, Counted, Moved
  <2>2. Owning'
    BY <1>1 DEF Owning, Working, Handing
  <2>3. Balanced'
    BY <1>1 DEF Balanced, Settled
  <2> QED
    BY <2>1, <2>2, <2>3
<1> QED
  BY <1>3, <1>4, <1>5, <1>6, <1>7, <1>8, CalmBy

LEMMA NextSourceCalm ==
    ASSUME CalmAll, NextSource, calm'
    PROVE  CalmInv'
<1>1. /\ calm /\ pc = "source" /\ pc' = "choose"
      /\ UNCHANGED <<of, owner, place, stored, state, claimed>>
      /\ UNCHANGED <<known, used, targets, sources, done, resume, job>>
  BY DEF NextSource, history, google, rows, run, work
<1>2. PICK a \in left : src' = a /\ left' = left \ {a} /\ todo' = Candidates(a)
  BY DEF NextSource
<1>3. Before
  BY <1>1, Known
<1>4. a \in sources /\ a \in Backups /\ a \in Accounts /\ a # Main
  BY <1>2, <1>3, Facts DEF Before, Parties
<1>5. Quiet' /\ InHand' /\ Freed'
  BY <1>1, <1>2, <1>3, <1>4 DEF Before, Quiet, InHand, Freed, Freeing, Working, Handing
<1>6. RowsTrue'
  BY <1>1, <1>2, <1>3 DEF Before, RowsTrue, Balancing, Working, Handing, Passed, Moved
<1>7. Taken'
  BY <1>1, <1>2, <1>3 DEF Before, Taken, Balancing
<1>8. TwinLeft' <=> TwinLeft
  BY <1>1 DEF TwinLeft, Owns, Passed
<1>9. ASSUME ~TwinLeft PROVE Counted' /\ Owning' /\ Balanced'
  <2>1. Counted /\ Balanced
    BY <1>3, <1>9 DEF Before
  <2>2. Counted'
    BY <1>1, <2>1 DEF Counted, Moved
  <2>3. Owning'
    <3> SUFFICES ASSUME NEW f \in Candidates(a)
                 PROVE  \E i \in Ids : of[i] = f /\ Owns(a, i)
      BY <1>1, <1>2 DEF Owning, Owns
    <3>1. PICK i \in Ids : of[i] = f /\ \E b \in Accounts :
             state[<<b, i>>] = "active" /\ claimed[<<b, i>>] = a
      BY DEF Candidates, Owned
    <3>2. PICK b \in Accounts : state[<<b, i>>] = "active" /\ claimed[<<b, i>>] = a
      BY <3>1
    <3>3. place[i] = "in" /\ owner[i] = a
      BY <1>1, <1>2, <1>3, <3>2 DEF Before, RowsTrue, Balancing
    <3> QED
      BY <3>1, <3>2, <3>3 DEF Owns
  <2>4. ASSUME NEW s \in sources \ left' PROVE Settled(s)'
    <3>1. CASE s = a
      <4> SUFFICES ASSUME NEW i \in Ids, Owns(a, i)
                   PROVE  of[i] \in Candidates(a)
        BY <1>1, <1>2, <3>1 DEF Settled, Owns, Working
      <4>1. PICK b \in Accounts : state[<<b, i>>] = "active"
        BY DEF Owns
      <4>2. ~Passed("balance", of[i])
        BY <1>4, <1>9 DEF TwinLeft
      <4>3. claimed[<<b, i>>] = a
        BY <1>1, <1>3, <4>1, <4>2 DEF Before, RowsTrue, Balancing, Owns, Moved
      <4> QED
        BY <1>3, <1>4, <4>1, <4>3, Facts DEF Before, Candidates, Owned
    <3>2. CASE s # a
      <4>1. Settled(s)
        BY <1>1, <1>2, <2>1, <2>4, <3>2 DEF Balanced, Balancing
      <4> QED
        BY <1>1, <1>2, <3>2, <4>1 DEF Settled, Owns, Room, Working, Handing
    <3> QED
      BY <3>1, <3>2
  <2> QED
    BY <1>1, <2>2, <2>3, <2>4 DEF Balanced
<1> QED
  BY <1>5, <1>6, <1>7, <1>8, <1>9, CalmBy

LEMMA ChosenCalm ==
    ASSUME CalmAll, Chosen, calm'
    PROVE  CalmInv'
<1>1. /\ calm /\ pc = "choose" /\ todo' = {}
      /\ pc' = IF src = Main THEN "sync" ELSE "source"
      /\ UNCHANGED <<of, owner, place, stored, state, claimed, src, left>>
      /\ UNCHANGED <<known, used, targets, sources, done, job>>
  BY DEF Chosen, MarkStep, history, google, rows, work
<1>2. todo = {} \/ (src # Main /\ 100 * used[src] < 90 * Total[src])
  BY DEF Chosen, Relieved
<1>3. Before
  BY <1>1, Known
<1>4. Quiet' /\ InHand'
  BY <1>1, <1>3 DEF Before, Quiet, InHand, Handing
<1>5. RowsTrue'
  BY <1>1, <1>3 DEF Before, RowsTrue, Balancing, Working, Handing, Passed, Moved
<1>6. Freed'
  <2>1. ~Freeing'
    BY <1>1 DEF Freeing, Working, Handing
  <2>2. CASE src = Main
    <3>1. Freeing /\ todo = {}
      BY <1>1, <1>2, <2>2 DEF Freeing, Working
    <3> QED
      BY <1>1, <1>3, <2>1, <3>1 DEF Before, Freed, Room, Passed
  <2>3. CASE src # Main
    BY <1>1, <2>1, <2>3 DEF Freed
  <2> QED
    BY <2>2, <2>3
<1>7. Taken'
  BY <1>1, <1>3 DEF Before, Taken, Balancing, Working, Handing
<1>8. TwinLeft' <=> TwinLeft
  BY <1>1 DEF TwinLeft, Owns, Passed
<1>9. ASSUME ~TwinLeft PROVE Counted' /\ Owning' /\ Balanced'
  <2>1. Counted /\ Balanced
    BY <1>3, <1>9 DEF Before
  <2>2. Counted' /\ stored = used
    BY <1>1, <2>1 DEF Counted, Moved
  <2>3. Owning' /\ ~Working'
    BY <1>1 DEF Owning, Working, Handing
  <2>4. ASSUME src # Main, NEW s \in sources \ left PROVE Settled(s)'
    <3>1. Settled(s)
      BY <1>1, <2>1, <2>4 DEF Balanced, Balancing, Working
    <3> QED
      BY <1>1, <1>2, <2>2, <2>4, <3>1 DEF Settled, Owns, Room
  <2> QED
    BY <1>1, <2>2, <2>3, <2>4 DEF Balanced, Balancing
<1> QED
  BY <1>4, <1>5, <1>6, <1>7, <1>8, <1>9, CalmBy

LEMMA SkipCalm ==
    ASSUME CalmAll, NEW f \in Files, Skip(f), calm'
    PROVE  CalmInv'
<1>1. /\ calm /\ pc = "choose" /\ pc' = pc /\ f \in todo /\ todo' = todo \ {f}
      /\ UNCHANGED <<of, owner, place, stored, state, claimed, src, left>>
      /\ UNCHANGED <<known, targets, sources, done, job>>
  BY DEF Skip, Largest, history, google, rows, run, work
<1>2. PICK t \in targets : <<Step, f, t>> \in done
  BY DEF Skip, Handed
<1>3. Before
  BY <1>1, Known
<1>4. Passed(Step, f)
  BY <1>2, <1>3, Facts DEF Before, Passed
<1>5. src # Main
  BY <1>1, <1>3, <1>4 DEF Before, Freed, Freeing, Working, Step
<1>6. Quiet' /\ InHand'
  BY <1>1, <1>3 DEF Before, Quiet, InHand, Handing
<1>7. RowsTrue'
  BY <1>1, <1>3 DEF Before, RowsTrue, Balancing, Working, Passed
<1>8. Freed' /\ Taken'
  BY <1>1, <1>3, <1>5 DEF Before, Freed, Freeing, Taken, Balancing, Working
<1>9. TwinLeft
  <2> SUFFICES ASSUME Owning PROVE TwinLeft
    BY <1>3 DEF Before
  <2>1. PICK i \in Ids : of[i] = f /\ Owns(src, i)
    BY <1>1, <1>5 DEF Owning, Balancing, Working, Handing
  <2>2. src \in sources
    BY <1>3, <1>5 DEF Before, Parties
  <2> QED
    BY <1>4, <1>5, <2>1, <2>2 DEF TwinLeft, Step
<1>10. TwinLeft'
  BY <1>1, <1>9 DEF TwinLeft, Owns, Passed
<1> QED
  BY <1>6, <1>7, <1>8, <1>10, CalmBy

LEMMA NoRoomCalm ==
    ASSUME CalmAll, NEW f \in Files, NoRoom(f), calm'
    PROVE  CalmInv'
<1>1. /\ calm /\ pc = "choose" /\ pc' = pc /\ todo' = todo \ {f} /\ Fitting(f) = {}
      /\ UNCHANGED <<of, owner, place, stored, state, claimed, src, left>>
      /\ UNCHANGED <<known, used, targets, sources, done, job>>
  BY DEF NoRoom, history, google, rows, run, work
<1>2. Before
  BY <1>1, Known
<1>3. Quiet' /\ InHand'
  BY <1>1, <1>2 DEF Before, Quiet, InHand, Handing
<1>4. RowsTrue'
  BY <1>1, <1>2 DEF Before, RowsTrue, Balancing, Working, Passed
<1>5. Taken'
  BY <1>1, <1>2 DEF Before, Taken, Balancing, Working
<1>6. ASSUME Counted, NEW t \in targets PROVE ~Room(t, f)
  <2>1. stored = used
    BY <1>1, <1>6 DEF Counted, Moved
  <2> QED
    BY <1>1, <1>2, <2>1, FitsNowhere DEF Before, Room
<1>7. Freed'
  <2> SUFFICES ASSUME src = Main PROVE Freed'
    BY <1>1 DEF Freed, Freeing
  <2>1. Freeing /\ Freeing'
    BY <1>1 DEF Freeing, Working
  <2>2. Counted
    BY <1>1, <1>2 DEF Before, TwinLeft, Parties
  <2>3. ASSUME NEW t \in Backups PROVE ~Room(t, f)
    <3>1. CASE t \in targets
      BY <1>6, <2>2, <3>1
    <3>2. CASE t \notin targets
      <4>1. stored[t] >= Total[t]
        BY <1>2, <2>1, <3>2 DEF Before, Freed
      <4>2. stored[t] \in Int /\ Total[t] \in Int /\ Size[f] \in Nat
        BY <1>2, Facts DEF Before
      <4> QED
        BY <4>1, <4>2 DEF Room
    <3> QED
      BY <3>1, <3>2
  <2> QED
    BY <1>1, <1>2, <2>1, <2>3 DEF Before, Freed, Room, Passed
<1>8. TwinLeft' <=> TwinLeft
  BY <1>1 DEF TwinLeft, Owns, Passed
<1>9. ASSUME ~TwinLeft PROVE Counted' /\ Owning' /\ Balanced'
  <2>1. Counted /\ Balanced /\ Owning
    BY <1>2, <1>9 DEF Before
  <2>2. Counted'
    BY <1>1, <2>1 DEF Counted, Moved
  <2>3. Owning'
    BY <1>1, <2>1 DEF Owning, Owns, Balancing, Working, Handing
  <2>4. \A t \in targets : ~Room(t, f)
    BY <1>6, <2>1
  <2>5. ASSUME Balancing, NEW s \in sources \ left PROVE Settled(s)'
    <3>1. Settled(s)
      BY <2>1, <2>5 DEF Balanced
    <3> QED
      BY <1>1, <2>4, <3>1 DEF Settled, Owns, Room, Working
  <2> QED
    BY <1>1, <2>2, <2>3, <2>5 DEF Balanced, Balancing, Working
<1> QED
  BY <1>3, <1>4, <1>5, <1>7, <1>8, <1>9, CalmBy

LEMMA ChooseCalm ==
    ASSUME CalmAll, NEW f \in Files, Choose(f), calm'
    PROVE  CalmInv'
<1>1. /\ calm /\ pc = "choose" /\ pc' = "offer" /\ f \in todo /\ Handed(f) = {}
      /\ UNCHANGED <<of, owner, place, stored, state, claimed, src, left, todo>>
      /\ UNCHANGED <<known, used, targets, sources, done>>
  BY DEF Choose, Largest, history, google, rows, run, plan
<1>2. PICK t \in Fitting(f), i \in Owned(src, f) :
        job' = [file |-> f, id |-> i, to |-> t, home |-> place[i]]
  BY DEF Choose
<1>3. Before
  BY <1>1, Known
<1>4. ~Passed(Step, f)
  <2>1. CASE src = Main
    BY <1>1, <1>3, <2>1 DEF Before, Freed, Freeing, Working, Step
  <2>2. CASE src # Main
    BY <1>1, <1>3, <2>2 DEF Before, Taken, Balancing, Working, Step, Handed, Passed
  <2> QED
    BY <2>1, <2>2
<1>5. i \in Ids /\ of[i] = f
  BY <1>2 DEF Owned
<1>6. PICK b \in Accounts :
        state[<<b, i>>] = "active" /\ claimed[<<b, i>>] = src /\ (src = Main => b = Main)
  BY <1>2 DEF Owned
<1>7. place[i] = "in" /\ owner[i] = src
  <2>1. place[i] = "in"
    BY <1>1, <1>3, <1>5, <1>6 DEF Before, RowsTrue
  <2>2. CASE src = Main
    BY <1>1, <1>3, <1>5, <1>6, <2>2 DEF Before, RowsTrue
  <2>3. CASE src # Main
    BY <1>1, <1>3, <1>4, <1>5, <1>6, <2>3
       DEF Before, RowsTrue, Balancing, Working, Moved, Step
  <2> QED
    BY <2>1, <2>2, <2>3
<1>8. Quiet'
  BY <1>1, <1>3 DEF Before, Quiet
<1>9. InHand'
  <2>1. job'.file = f /\ job'.id = i
    BY <1>2
  <2> QED
    BY <1>1, <1>4, <1>7, <2>1 DEF InHand, Giving, Live, Passed, Step, Moved
<1>10. RowsTrue'
  BY <1>1, <1>3 DEF Before, RowsTrue, Balancing, Working, Handing, Passed, Moved
<1>11. Freed' /\ Taken'
  BY <1>1, <1>3 DEF Before, Freed, Freeing, Taken, Balancing, Working, Handing, Room, Passed
<1>12. TwinLeft' <=> TwinLeft
  BY <1>1 DEF TwinLeft, Owns, Passed
<1>13. ASSUME ~TwinLeft PROVE Counted' /\ Owning' /\ Balanced'
  <2>1. Counted /\ Balanced /\ Owning
    BY <1>3, <1>13 DEF Before
  <2>2. Counted'
    BY <1>1, <2>1 DEF Counted, Moved
  <2>3. Owning'
    BY <1>1, <2>1 DEF Owning, Owns, Balancing, Working, Handing
  <2>4. Balanced'
    BY <1>1, <2>1 DEF Balanced, Settled, Owns, Room, Balancing, Working, Handing
  <2> QED
    BY <2>2, <2>3, <2>4
<1> QED
  BY <1>8, <1>9, <1>10, <1>11, <1>12, <1>13, CalmBy

-----------------------------------------------------------------------------
\* What is known of a handover in such a run.
LEMMA Hand ==
    ASSUME CalmAll, calm, pc \in Handing
    PROVE  /\ Before /\ job.file \in Files /\ job.id \in Ids /\ of[job.id] = job.file
           /\ job.to \in targets /\ job.to \in Backups /\ job.to \in Accounts
           /\ job.to \notin sources /\ job.to # src /\ job.to # Main
           /\ src \in Accounts /\ src \notin {"in", "gone", "unborn"} /\ src \notin targets
           /\ src = Main \/ src \in sources
           /\ src \in sources => src # Main /\ Step = "balance"
           /\ src = Main => Step = "freemain"
           /\ Size[job.file] \in Nat
<1>1. Before
  BY Known DEF Handing
<1>2. TypeOK /\ Parties /\ Fits /\ JobTrue
  BY <1>1 DEF Before
<1>3. job.file \in Files /\ job.id \in Ids /\ src \in Accounts /\ job.to \in Backups
  BY <1>2, JobFields
<1>4. of[job.id] = job.file
  BY <1>2 DEF JobTrue
<1>5. job.to \in targets
  BY <1>2 DEF Fits
<1>6. /\ Main \notin Backups /\ Size[job.file] \in Nat /\ sources \subseteq Backups
      /\ targets \subseteq Backups
  BY <1>2, <1>3, Facts
<1>7. sources \cap targets = {} /\ (src = Main \/ src \in sources)
  BY <1>2 DEF Parties
<1>8. src \notin targets /\ job.to \notin sources /\ job.to # src /\ job.to # Main
  BY <1>5, <1>6, <1>7
<1>9. job.to \in Accounts /\ src \notin {"in", "gone", "unborn"}
  BY <1>3, AccountLives DEF Accounts
<1> QED
  BY <1>1, <1>3, <1>4, <1>5, <1>6, <1>7, <1>8, <1>9 DEF Step

\* The object in hand is no reason why a source has a twin.
LEMMA NoTwin ==
    ASSUME CalmAll, calm, pc \in Handing, pc \notin {"copy", "erase", "rekey", "insert"},
           NEW s \in sources, Owns(s, job.id)
    PROVE  ~Passed("balance", of[job.id]) /\ s = src
<1>1. owner[job.id] = s
  BY DEF Owns
<1>2. pc \in {"offer", "grant", "accept"} \/ pc \in Moved
  BY DEF Handing, Moved
<1>3. owner[job.id] = src /\ ~Passed(Step, job.file)
  BY <1>1, <1>2, Hand DEF Before, InHand, Giving
<1> QED
  BY <1>1, <1>3, Hand

\* The object becomes the receiver's.
LEMMA PassesCalm ==
    ASSUME CalmAll, calm, pc \in {"offer", "accept"}, Passes, Goes(pc'),
           UNCHANGED <<of, place>>,
           \/ pc = "offer" /\ pc' = "record"
           \/ pc = "accept" /\ pc' = "place"
    PROVE  CalmInv'
<1>1. /\ pc \in Handing /\ pc' \in Handing /\ pc' \in Moved /\ pc \notin Moved
      /\ UNCHANGED <<of, place, state, claimed, src, left, todo, job>>
      /\ UNCHANGED <<known, used, targets, sources, done>>
  BY DEF Goes, Handing, Moved, rows, run, plan
<1>2. /\ owner' = [owner EXCEPT ![job.id] = job.to]
      /\ stored' = [b \in Backups |->
            IF b = job.to THEN stored[b] + Size[job.file]
            ELSE IF b = src THEN stored[b] - Size[job.file] ELSE stored[b]]
  BY DEF Passes
<1>3. /\ Before /\ job.file \in Files /\ job.id \in Ids /\ of[job.id] = job.file
      /\ job.to \in targets /\ job.to \in Backups /\ job.to \in Accounts
      /\ job.to \notin sources /\ job.to # src /\ job.to # Main
      /\ src \notin targets
      /\ src = Main \/ src \in sources
      /\ Size[job.file] \in Nat
  BY <1>1, Hand
<1>4. owner[job.id] = src /\ (pc = "offer" => place[job.id] = "in")
  BY <1>1, <1>3 DEF Before, InHand, Giving
<1>5. /\ owner'[job.id] = job.to
      /\ \A i \in Ids : i # job.id => owner'[i] = owner[i]
  BY <1>2, <1>3, Facts DEF Before
<1>6. /\ stored \in [Backups -> Int] /\ Main \notin Backups /\ targets \subseteq Backups
      /\ sources \subseteq Backups /\ Size \in [Files -> Nat] /\ Total \in [Backups -> Nat]
      /\ of \in [Ids -> Files]
  BY <1>3, Facts DEF Before
<1>7. ASSUME NEW t \in Backups
      PROVE  /\ t # src => stored'[t] >= stored[t]
             /\ t # job.to => stored'[t] <= stored[t]
             /\ t # src /\ t # job.to => stored'[t] = stored[t]
             /\ stored'[t] \in Int /\ stored[t] \in Int /\ Total[t] \in Int
  BY <1>2, <1>3, <1>6
<1>8. ASSUME NEW t \in Backups, t # src, NEW i \in Ids, Room(t, of[i])'
      PROVE  Room(t, of[i])
  <2>1. Size[of[i]] \in Int
    BY <1>6
  <2>2. Total[t] - stored'[t] > Size[of[i]]
    BY <1>1, <1>8 DEF Room
  <2> QED
    BY <1>7, <1>8, <2>1, <2>2 DEF Room
<1>9. Quiet'
  BY <1>1, <1>3 DEF Before, Quiet, Handing, Moved
<1>10. InHand'
  BY <1>1, <1>3, <1>4, <1>5 DEF Before, InHand, Passed, Step, Moved
<1>11. RowsTrue'
  <2> SUFFICES ASSUME NEW a \in Accounts, NEW i \in Ids, state[<<a, i>>] = "active"
               PROVE  /\ place[i] = "in" \/ (i = job.id /\ pc' = "place")
                      /\ claimed[<<a, i>>] = a =>
                           owner'[i] = a \/ (i = job.id /\ a = src)
                      /\ src # Main =>
                         \/ claimed[<<a, i>>] = owner'[i]
                         \/ /\ claimed[<<a, i>>] \notin left
                            /\ Passed("balance", of[i]) \/ i = job.id
    BY <1>1 DEF RowsTrue, Balancing, Working, Handing, Moved, Passed
  <2>1. /\ place[i] = "in" \/ (i = job.id /\ pc = "accept")
        /\ claimed[<<a, i>>] = a => owner[i] = a
        /\ src # Main =>
           \/ claimed[<<a, i>>] = owner[i]
           \/ claimed[<<a, i>>] \notin left /\ Passed("balance", of[i])
    BY <1>1, <1>3 DEF Before, RowsTrue, Balancing, Working, Handing, Moved
  <2>2. CASE i # job.id
    BY <1>5, <2>1, <2>2
  <2>3. CASE i = job.id
    <3>1. src # Main => src \notin left
      BY <1>1, <1>3 DEF Before, Taken, Balancing, Working
    <3> QED
      BY <1>4, <2>1, <2>3, <3>1
  <2> QED
    BY <2>2, <2>3
<1>12. Freed'
  <2> SUFFICES ASSUME src = Main PROVE Freed'
    BY <1>1 DEF Freed, Freeing, Handing
  <2>1. Freeing /\ Freeing'
    BY <1>1 DEF Freeing, Working
  <2>2. \A f \in todo' : ~Passed("freemain", f)'
    BY <1>1, <1>3, <2>1 DEF Before, Freed, Passed
  <2>3. ASSUME NEW t \in Backups \ targets PROVE stored'[t] >= Total[t]
    <3>1. stored[t] >= Total[t]
      BY <1>3, <2>1, <2>3 DEF Before, Freed
    <3> QED
      BY <1>3, <1>6, <1>7, <2>3, <3>1
  <2>4. ASSUME NEW i \in Ids, place[i] = "in", owner'[i] = Main,
               state[<<Main, i>>] = "active", ~Passed("freemain", of[i]), of[i] \notin todo,
               NEW t \in Backups
        PROVE  ~Room(t, of[i])'
    <3>1. owner[i] = Main
      BY <1>3, <1>5, <2>4
    <3>2. ~Room(t, of[i])
      BY <1>3, <2>1, <2>4, <3>1 DEF Before, Freed
    <3> QED
      BY <1>6, <1>8, <3>2
  <2> QED
    BY <1>1, <2>1, <2>2, <2>3, <2>4 DEF Freed, Passed
<1>13. Taken'
  BY <1>1, <1>3 DEF Before, Taken, Balancing, Working
<1>14. ASSUME NEW s \in sources, NEW i \in Ids, Owns(s, i)'
       PROVE  Owns(s, i) /\ i # job.id
  BY <1>1, <1>3, <1>5, <1>14 DEF Owns
<1>15. ASSUME NEW i \in Ids, i # job.id, NEW a, Owns(a, i)
       PROVE  Owns(a, i)'
  BY <1>1, <1>5, <1>15 DEF Owns
<1>16. ASSUME TwinLeft PROVE TwinLeft'
  <2>1. PICK i \in Ids, s \in sources : Owns(s, i) /\ Passed("balance", of[i])
    BY <1>16 DEF TwinLeft
  <2>2. i # job.id
    BY <1>1, <2>1, NoTwin DEF Moved
  <2>3. Owns(s, i)'
    BY <1>15, <2>1, <2>2
  <2> QED
    BY <1>1, <2>1, <2>3 DEF TwinLeft, Passed
<1>17. ASSUME ~TwinLeft PROVE Counted' /\ Owning' /\ Balanced'
  <2>1. Counted /\ Balanced /\ Owning
    BY <1>3, <1>17 DEF Before
  <2>2. Counted'
    BY <1>1, <1>2, <2>1 DEF Counted, Charged
  <2>3. Owning'
    <3> SUFFICES ASSUME src # Main, NEW f \in todo, f # job.file
                 PROVE  \E i \in Ids : of[i] = f /\ Owns(src, i)'
      BY <1>1 DEF Owning, Balancing, Working, Handing
    <3>1. PICK i \in Ids : of[i] = f /\ Owns(src, i)
      BY <1>1, <2>1 DEF Owning, Balancing, Working, Handing
    <3>2. i # job.id
      BY <1>3, <3>1
    <3> QED
      BY <1>1, <1>5, <3>1, <3>2 DEF Owns
  <2>4. ASSUME src # Main, NEW s \in sources \ left PROVE Settled(s)'
    <3>1. Settled(s) /\ s \in Backups /\ s # job.to
      BY <1>1, <1>3, <1>6, <2>1, <2>4 DEF Balanced, Balancing, Working
    <3>2. CASE 100 * stored[s] < 90 * Total[s]
      <4>1. 100 * stored'[s] < 90 * Total[s]
        BY <1>7, <3>1, <3>2
      <4> QED
        BY <4>1 DEF Settled
    <3>3. CASE \A i \in Ids : Owns(s, i) => \/ Working /\ s = src /\ of[i] \in todo
                                            \/ \A t \in targets : ~Room(t, of[i])
      <4> SUFFICES ASSUME NEW i \in Ids, Owns(s, i)', ~(s = src /\ of[i] \in todo),
                          NEW t \in targets
                   PROVE  ~Room(t, of[i])'
        BY <1>1 DEF Settled, Working
      <4>1. ~Room(t, of[i])
        BY <1>14, <3>3
      <4> QED
        BY <1>3, <1>6, <1>8, <4>1
    <3> QED
      BY <3>1, <3>2, <3>3 DEF Settled
  <2>5. Balanced'
    BY <1>1, <2>4 DEF Balanced, Balancing, Working, Handing
  <2> QED
    BY <2>2, <2>3, <2>5
<1> QED
  BY <1>9, <1>10, <1>11, <1>12, <1>13, <1>16, <1>17, CalmBy

LEMMA OfferDirectlyCalm ==
    ASSUME CalmAll, OfferDirectly, calm'
    PROVE  CalmInv'
<1>1. calm /\ pc = "offer" /\ Passes /\ Goes("record") /\ UNCHANGED <<of, place>>
  BY DEF OfferDirectly, NoFault, history
<1>2. pc' = "record"
  BY <1>1 DEF Goes
<1> QED
  BY <1>1, <1>2, PassesCalm

LEMMA AcceptCalm ==
    ASSUME CalmAll, Accept, calm'
    PROVE  CalmInv'
<1>1. calm /\ pc = "accept" /\ Passes /\ Goes("place") /\ UNCHANGED <<of, place>>
  BY DEF Accept, NoFault, history
<1>2. pc' = "place"
  BY <1>1 DEF Goes
<1> QED
  BY <1>1, <1>2, PassesCalm

LEMMA TakeOutCalm ==
    ASSUME CalmAll, TakeOut, calm'
    PROVE  CalmInv'
<1>1. /\ calm /\ pc = "offer" /\ pc' = "grant" /\ Giving
      /\ place' = [place EXCEPT ![job.id] = src]
      /\ UNCHANGED <<of, owner, stored, state, claimed, src, left, todo, job>>
      /\ UNCHANGED <<known, used, targets, sources, done>>
  BY DEF TakeOut, Goes, Fault, NoFault, history, rows, run, plan
<1>2. /\ Before /\ job.id \in Ids /\ of[job.id] = job.file
      /\ src \notin {"in", "gone", "unborn"}
  BY <1>1, Hand DEF Handing
<1>3. /\ place'[job.id] = src
      /\ \A i \in Ids : i # job.id => place'[i] = place[i]
  BY <1>1, <1>2, Facts DEF Before
<1>4. Quiet'
  BY <1>1, <1>2 DEF Before, Quiet
<1>5. InHand'
  BY <1>1, <1>2, <1>3 DEF Before, InHand, Giving, Live, Handing, Moved, Passed, Step
<1>6. RowsTrue'
  BY <1>1, <1>2, <1>3 DEF Before, RowsTrue, Balancing, Working, Handing, Moved, Passed
<1>7. Freed'
  BY <1>1, <1>2, <1>3 DEF Before, Freed, Freeing, Working, Handing, Room, Passed
<1>8. Taken'
  BY <1>1, <1>2 DEF Before, Taken, Balancing, Working, Handing
<1>9. \A a, i : i \in Ids /\ i # job.id => (Owns(a, i)' <=> Owns(a, i))
  <2> SUFFICES ASSUME NEW a, NEW i \in Ids, i # job.id PROVE Owns(a, i)' <=> Owns(a, i)
    OBVIOUS
  <2> QED
    BY <1>1, <1>3 DEF Owns
<1>10. \A a : ~Owns(a, job.id)'
  BY <1>1, <1>2, <1>3 DEF Owns
<1>11. ASSUME TwinLeft PROVE TwinLeft'
  <2>1. PICK i \in Ids, s \in sources : Owns(s, i) /\ Passed("balance", of[i])
    BY <1>11 DEF TwinLeft
  <2>2. i # job.id
    BY <1>1, <2>1, NoTwin DEF Handing
  <2> QED
    BY <1>1, <1>9, <2>1, <2>2 DEF TwinLeft, Passed
<1>12. ASSUME ~TwinLeft PROVE Counted' /\ Owning' /\ Balanced'
  <2>1. Counted /\ Balanced /\ Owning
    BY <1>2, <1>12 DEF Before
  <2>2. Counted'
    BY <1>1, <2>1 DEF Counted, Moved
  <2>3. Owning'
    <3> SUFFICES ASSUME src # Main, NEW f \in todo, f # job.file
                 PROVE  \E i \in Ids : of[i] = f /\ Owns(src, i)'
      BY <1>1 DEF Owning, Balancing, Working, Handing
    <3>1. PICK i \in Ids : of[i] = f /\ Owns(src, i)
      BY <1>1, <2>1 DEF Owning, Balancing, Working, Handing
    <3>2. i # job.id
      BY <1>2, <3>1
    <3> QED
      BY <1>1, <1>3, <3>1, <3>2 DEF Owns
  <2>4. ASSUME src # Main, NEW s \in sources \ left PROVE Settled(s)'
    <3>1. Settled(s)
      BY <1>1, <2>1, <2>4 DEF Balanced, Balancing, Working, Handing
    <3>2. \A i \in Ids : Owns(s, i)' => Owns(s, i)
      BY <1>1, <1>2, <1>3 DEF Owns
    <3> QED
      BY <1>1, <3>1, <3>2 DEF Settled, Room, Working, Handing
  <2>5. Balanced'
    BY <1>1, <2>4 DEF Balanced, Balancing, Working, Handing
  <2> QED
    BY <2>2, <2>3, <2>5
<1> QED
  BY <1>4, <1>5, <1>6, <1>7, <1>8, <1>11, <1>12, CalmBy

LEMMA GrantCalm ==
    ASSUME CalmAll, Grant, calm'
    PROVE  CalmInv'
<1>1. /\ calm /\ pc = "grant" /\ pc' = "accept"
      /\ UNCHANGED <<of, owner, place, stored, state, claimed, src, left, todo, job>>
      /\ UNCHANGED <<known, used, targets, sources, done>>
  BY DEF Grant, Goes, NoFault, history, google, rows, run, plan
<1>2. Before
  BY <1>1, Known
<1>3. Quiet'
  BY <1>1, <1>2 DEF Before, Quiet
<1>4. InHand'
  BY <1>1, <1>2 DEF Before, InHand, Giving, Live, Handing, Moved, Passed, Step
<1>5. RowsTrue'
  BY <1>1, <1>2 DEF Before, RowsTrue, Balancing, Working, Handing, Moved, Passed
<1>6. Freed'
  BY <1>1, <1>2 DEF Before, Freed, Freeing, Working, Handing, Room, Passed
<1>7. Taken'
  BY <1>1, <1>2 DEF Before, Taken, Balancing, Working, Handing
<1>8. TwinLeft' <=> TwinLeft
  BY <1>1 DEF TwinLeft, Owns, Passed
<1>9. ASSUME ~TwinLeft PROVE Counted' /\ Owning' /\ Balanced'
  <2>1. Counted /\ Balanced /\ Owning
    BY <1>2, <1>9 DEF Before
  <2>2. Counted'
    BY <1>1, <2>1 DEF Counted, Moved
  <2>3. Owning'
    BY <1>1, <2>1 DEF Owning, Owns, Balancing, Working, Handing
  <2>4. Balanced'
    BY <1>1, <2>1 DEF Balanced, Settled, Owns, Room, Balancing, Working, Handing
  <2> QED
    BY <2>2, <2>3, <2>4
<1> QED
  BY <1>3, <1>4, <1>5, <1>6, <1>7, <1>8, <1>9, CalmBy

\* What is done to the object once it is the receiver's, in the tree or in the
\* rows, leaves what the sources own.
LEMMA AfterwardsCalm ==
    ASSUME CalmAll, calm, pc \in Moved, pc' \in Moved,
           UNCHANGED <<of, owner, stored, src, left, todo, job>>,
           UNCHANGED <<known, used, targets, sources, done>>,
           \A i \in Ids : i # job.id =>
              place'[i] = place[i] /\ \A a \in Accounts : state'[<<a, i>>] = state[<<a, i>>],
           InHand', RowsTrue'
    PROVE  CalmInv'
<1>1. pc \in Handing /\ pc' \in Handing
  BY DEF Handing, Moved
<1>2. /\ Before /\ job.id \in Ids /\ of[job.id] = job.file
      /\ job.to \notin sources /\ job.to # Main
      /\ src = Main \/ src \in sources
      /\ Main \in Accounts
  BY <1>1, Hand, Facts DEF Before
<1>3. owner[job.id] = job.to
  BY <1>1, <1>2 DEF Before, InHand
<1>4. Quiet'
  BY <1>1, <1>2 DEF Before, Quiet, Moved
<1>5. Freed'
  BY <1>1, <1>2, <1>3 DEF Before, Freed, Freeing, Working, Room, Passed, Moved
<1>6. Taken'
  BY <1>1, <1>2 DEF Before, Taken, Balancing, Working, Moved
<1>7. \A a \in sources, i \in Ids : Owns(a, i)' <=> Owns(a, i)
  <2> SUFFICES ASSUME NEW a \in sources, NEW i \in Ids PROVE Owns(a, i)' <=> Owns(a, i)
    OBVIOUS
  <2>1. CASE i = job.id
    BY <1>2, <1>3, <2>1 DEF Owns
  <2>2. CASE i # job.id
    BY <2>2 DEF Owns
  <2> QED
    BY <2>1, <2>2
<1>8. TwinLeft' <=> TwinLeft
  BY <1>7 DEF TwinLeft, Passed
<1>9. ASSUME ~TwinLeft PROVE Counted' /\ Owning' /\ Balanced'
  <2>1. Counted /\ Balanced /\ Owning
    BY <1>2, <1>9 DEF Before
  <2>2. Counted'
    BY <2>1 DEF Counted, Charged
  <2>3. Owning'
    <3> SUFFICES ASSUME src # Main, NEW f \in todo, f # job.file
                 PROVE  \E i \in Ids : of[i] = f /\ Owns(src, i)'
      BY <1>1 DEF Owning, Balancing, Working, Moved
    <3>1. PICK i \in Ids : of[i] = f /\ Owns(src, i)
      BY <1>1, <2>1 DEF Owning, Balancing, Working, Moved
    <3>2. i # job.id
      BY <1>2, <3>1
    <3> QED
      BY <3>1, <3>2 DEF Owns
  <2>4. Balanced'
    <3> SUFFICES ASSUME src # Main, NEW s \in sources \ left PROVE Settled(s)'
      BY <1>1 DEF Balanced, Balancing, Working, Moved
    <3>1. Settled(s)
      BY <1>1, <2>1 DEF Balanced, Balancing, Working
    <3> QED
      BY <1>1, <1>7, <3>1 DEF Settled, Room, Working
  <2> QED
    BY <2>2, <2>3, <2>4
<1> QED
  BY <1>4, <1>5, <1>6, <1>8, <1>9, CalmBy

LEMMA PutBackCalm ==
    ASSUME CalmAll, PutBack, calm'
    PROVE  CalmInv'
<1>1. /\ calm /\ pc = "place" /\ pc' = "record"
      /\ place' = [place EXCEPT ![job.id] = "in"]
      /\ UNCHANGED <<of, owner, stored, state, claimed, src, left, todo, job>>
      /\ UNCHANGED <<known, used, targets, sources, done>>
  BY DEF PutBack, Goes, Fault, NoFault, history, rows, run, plan
<1>2. Before /\ job.id \in Ids
  BY <1>1, Hand DEF Handing
<1>3. /\ place'[job.id] = "in"
      /\ \A i \in Ids : i # job.id => place'[i] = place[i]
  BY <1>1, <1>2, Facts DEF Before
<1>4. InHand'
  BY <1>1, <1>2, <1>3 DEF Before, InHand, Handing, Moved, Passed, Step
<1>5. RowsTrue'
  BY <1>1, <1>2, <1>3 DEF Before, RowsTrue, Balancing, Working, Handing, Moved, Passed
<1> QED
  BY <1>1, <1>3, <1>4, <1>5, AfterwardsCalm DEF Moved

LEMMA RecordCalm ==
    ASSUME CalmAll, Record, calm'
    PROVE  CalmInv'
<1>1. /\ calm /\ pc = "record" /\ pc' = "account" /\ OwnerUpdated
      /\ UNCHANGED <<of, owner, place, stored, src, left, todo, job>>
      /\ UNCHANGED <<known, used, targets, sources, done>>
  BY DEF Record, Fault, NoFault, history, google, run, plan, work
<1>2. /\ Before /\ job.id \in Ids /\ job.to \in Accounts /\ src \in Accounts
      /\ job.to # src /\ job.to \notin sources
  BY <1>1, Hand DEF Handing
<1>3. owner[job.id] = job.to /\ place[job.id] = "in"
  BY <1>1, <1>2 DEF Before, InHand, Handing, Moved
<1>4. /\ state \in [Accounts \X Ids -> {"none", "active", "deleted"}]
      /\ claimed \in [Accounts \X Ids -> Accounts]
  BY <1>2, Facts DEF Before
<1>5. ASSUME NEW a \in Accounts, NEW i \in Ids, i # job.id
      PROVE  state'[<<a, i>>] = state[<<a, i>>] /\ claimed'[<<a, i>>] = claimed[<<a, i>>]
  BY <1>1, <1>2, <1>4, <1>5 DEF OwnerUpdated
<1>6. state'[<<src, job.id>>] = "none"
  BY <1>1, <1>2, <1>4 DEF OwnerUpdated
<1>7. ASSUME NEW a \in Accounts, a # src, a # job.to
      PROVE  /\ state'[<<a, job.id>>] = state[<<a, job.id>>]
             /\ claimed'[<<a, job.id>>] = claimed[<<a, job.id>>]
  BY <1>1, <1>2, <1>4, <1>7 DEF OwnerUpdated
<1>8. ASSUME state'[<<job.to, job.id>>] = "active"
      PROVE  \/ claimed'[<<job.to, job.id>>] = job.to
             \/ /\ state[<<job.to, job.id>>] = "active"
                /\ claimed'[<<job.to, job.id>>] = claimed[<<job.to, job.id>>]
  BY <1>1, <1>2, <1>4, <1>8 DEF OwnerUpdated
<1>9. InHand'
  BY <1>1, <1>2 DEF Before, InHand, Handing, Moved, Passed, Step
<1>10. RowsTrue'
  <2> SUFFICES ASSUME NEW a \in Accounts, NEW i \in Ids, state'[<<a, i>>] = "active"
               PROVE  /\ place[i] = "in"
                      /\ claimed'[<<a, i>>] = a => owner[i] = a
                      /\ src # Main =>
                         \/ claimed'[<<a, i>>] = owner[i]
                         \/ /\ claimed'[<<a, i>>] \notin left
                            /\ Passed("balance", of[i]) \/ i = job.id
    BY <1>1 DEF RowsTrue, Balancing, Working, Handing, Moved, Passed
  <2>1. ASSUME state[<<a, i>>] = "active"
        PROVE  /\ place[i] = "in"
               /\ claimed[<<a, i>>] = a => owner[i] = a \/ (i = job.id /\ a = src)
               /\ src # Main =>
                  \/ claimed[<<a, i>>] = owner[i]
                  \/ /\ claimed[<<a, i>>] \notin left
                     /\ Passed("balance", of[i]) \/ i = job.id
    BY <1>1, <1>2, <2>1 DEF Before, RowsTrue, Balancing, Working, Handing, Moved
  <2>2. CASE i # job.id
    BY <1>5, <2>1, <2>2
  <2>3. CASE i = job.id /\ a # job.to
    BY <1>6, <1>7, <2>1, <2>3
  <2>4. CASE i = job.id /\ a = job.to
    BY <1>3, <1>8, <2>1, <2>4
  <2> QED
    BY <2>2, <2>3, <2>4
<1> QED
  BY <1>1, <1>5, <1>9, <1>10, AfterwardsCalm DEF Moved

LEMMA AccountCalm ==
    ASSUME CalmAll, Account, calm'
    PROVE  CalmInv'
<1>1. /\ calm /\ pc = "account" /\ pc' = "choose"
      /\ used' = Charged(job.file, job.to)
      /\ done' = done \cup {<<Step, job.file, job.to>>}
      /\ todo' = todo \ {job.file}
      /\ UNCHANGED <<of, owner, place, stored, state, claimed, src, left>>
      /\ UNCHANGED <<known, targets, sources>>
  BY DEF Account, history, google, rows
<1>2. /\ Before /\ job.file \in Files /\ job.id \in Ids /\ of[job.id] = job.file
      /\ job.to \in targets /\ job.to \in Backups
      /\ src = Main \/ src \in sources
      /\ src \in sources => src # Main /\ Step = "balance"
      /\ src = Main => Step = "freemain"
  BY <1>1, Hand DEF Handing
<1>3. \A s, f : Passed(s, f)' <=> Passed(s, f) \/ (s = Step /\ f = job.file)
  <2> SUFFICES ASSUME NEW s, NEW f
               PROVE  Passed(s, f)' <=> Passed(s, f) \/ (s = Step /\ f = job.file)
    OBVIOUS
  <2>1. \A t : <<s, f, t>> \in done' <=>
           <<s, f, t>> \in done \/ (s = Step /\ f = job.file /\ t = job.to)
    BY <1>1
  <2> QED
    BY <1>2, <2>1 DEF Passed
<1>4. Quiet' /\ InHand'
  BY <1>1, <1>2 DEF Before, Quiet, InHand, Handing
<1>5. RowsTrue'
  <2> SUFFICES ASSUME NEW a \in Accounts, NEW i \in Ids, state[<<a, i>>] = "active"
               PROVE  /\ place[i] = "in"
                      /\ claimed[<<a, i>>] = a => owner[i] = a
                      /\ src # Main =>
                         \/ claimed[<<a, i>>] = owner[i]
                         \/ /\ claimed[<<a, i>>] \notin left
                            /\ Passed("balance", of[i])'
    BY <1>1 DEF RowsTrue, Balancing, Working, Handing
  <2>1. /\ place[i] = "in"
        /\ claimed[<<a, i>>] = a => owner[i] = a
        /\ src # Main =>
           \/ claimed[<<a, i>>] = owner[i]
           \/ /\ claimed[<<a, i>>] \notin left
              /\ Passed("balance", of[i]) \/ i = job.id
    BY <1>1, <1>2 DEF Before, RowsTrue, Balancing, Working, Handing, Moved
  <2>2. src # Main => /\ Passed("balance", of[i]) => Passed("balance", of[i])'
                      /\ i = job.id => Passed("balance", of[i])'
    BY <1>1, <1>2, <1>3
  <2> QED
    BY <2>1, <2>2
<1>6. Freed'
  <2> SUFFICES ASSUME src = Main PROVE Freed'
    BY <1>1 DEF Freed, Freeing
  <2>1. Freeing /\ Freeing' /\ Step = "freemain"
    BY <1>1, <1>2 DEF Freeing, Working, Handing
  <2>2. \A f \in todo' : ~Passed("freemain", f)'
    BY <1>1, <1>2, <1>3, <2>1 DEF Before, Freed
  <2>3. \A t \in Backups \ targets : stored[t] >= Total[t]
    BY <1>2, <2>1 DEF Before, Freed
  <2>4. ASSUME NEW i \in Ids, place[i] = "in", owner[i] = Main,
               state[<<Main, i>>] = "active", ~Passed("freemain", of[i])', of[i] \notin todo',
               NEW t \in Backups
        PROVE  ~Room(t, of[i])
    <3>1. ~Passed("freemain", of[i]) /\ of[i] # job.file
      BY <1>1, <1>3, <2>1, <2>4
    <3> QED
      BY <1>1, <1>2, <2>1, <2>4, <3>1 DEF Before, Freed
  <2> QED
    BY <1>1, <2>1, <2>2, <2>3, <2>4 DEF Freed, Room
<1>7. Taken'
  BY <1>1, <1>2 DEF Before, Taken, Balancing, Working, Handing
<1>8. ASSUME TwinLeft PROVE TwinLeft'
  <2>1. PICK i \in Ids, s \in sources : Owns(s, i) /\ Passed("balance", of[i])
    BY <1>8 DEF TwinLeft
  <2>2. Owns(s, i)' /\ Passed("balance", of[i])'
    BY <1>1, <1>3, <2>1 DEF Owns
  <2> QED
    BY <1>1, <2>2 DEF TwinLeft
<1>9. ASSUME ~TwinLeft' PROVE Counted' /\ Owning' /\ Balanced'
  <2>1. Counted /\ Balanced /\ Owning
    BY <1>2, <1>8, <1>9 DEF Before
  <2>2. Counted'
    BY <1>1, <2>1 DEF Counted, Moved
  <2>3. Owning'
    <3> SUFFICES ASSUME src # Main, NEW f \in todo, f # job.file
                 PROVE  \E i \in Ids : of[i] = f /\ Owns(src, i)'
      BY <1>1 DEF Owning, Balancing, Working, Handing
    <3>1. PICK i \in Ids : of[i] = f /\ Owns(src, i)
      BY <1>1, <2>1 DEF Owning, Balancing, Working, Handing
    <3> QED
      BY <1>1, <3>1 DEF Owns
  <2>4. Balanced'
    <3> SUFFICES ASSUME src # Main, NEW s \in sources \ left PROVE Settled(s)'
      BY <1>1 DEF Balanced, Balancing, Working, Handing
    <3>1. Settled(s)
      BY <1>1, <2>1 DEF Balanced, Balancing, Working, Handing
    <3>2. ASSUME NEW i \in Ids, Owns(s, i) PROVE of[i] # job.file
      <4>1. CASE of[i] = job.file
        <5>1. Passed("balance", of[i])' /\ Owns(s, i)'
          BY <1>1, <1>2, <1>3, <3>2, <4>1 DEF Owns
        <5> QED
          BY <1>1, <1>9, <5>1 DEF TwinLeft
      <4> QED
        BY <4>1
    <3> QED
      BY <1>1, <3>1, <3>2 DEF Settled, Owns, Room, Working, Handing
  <2> QED
    BY <2>2, <2>3, <2>4
<1> QED
  BY <1>4, <1>5, <1>6, <1>7, <1>9, CalmBy

-----------------------------------------------------------------------------
LEMMA PhaseStep == TypeOK /\ PhaseOK /\ [Next]_vars => PhaseOK'
<1> SUFFICES ASSUME TypeOK, PhaseOK, [Next]_vars PROVE PhaseOK'
  OBVIOUS
<1>1. CASE Begin
  BY <1>1 DEF Begin, PhaseOK, run, Handing, TypeOK, RunOK
<1>2. CASE MoveUnsynced
  BY <1>2 DEF MoveUnsynced, MarkStep, PhaseOK, Handing
<1>3. ASSUME NEW missed \in SUBSET Accounts, Scan(missed) PROVE PhaseOK'
  BY <1>3 DEF Scan, MarkStep, PhaseOK, Handing
<1>4. CASE EnterFree
  BY <1>4 DEF EnterFree, PhaseOK, run, Handing
<1>5. CASE EnterBalance
  BY <1>5 DEF EnterBalance, PhaseOK, run, Handing
<1>6. CASE NextSource
  <2>1. src' # Main
    BY <1>6, OwnershipAssumption DEF NextSource, TypeOK, PlanOK
  <2> QED
    BY <1>6, <2>1 DEF NextSource, PhaseOK, run, Handing
<1>7. CASE Chosen
  BY <1>7 DEF Chosen, MarkStep, PhaseOK, Handing
<1>8. CASE Complete
  BY <1>8 DEF Complete, PhaseOK, Handing
<1>9. ASSUME NEW f \in Files, Skip(f) PROVE PhaseOK'
  BY <1>9 DEF Skip, PhaseOK, run, Handing
<1>10. ASSUME NEW f \in Files, NoRoom(f) PROVE PhaseOK'
  BY <1>10 DEF NoRoom, PhaseOK, run, Handing
<1>11. ASSUME NEW f \in Files, Choose(f) PROVE PhaseOK'
  BY <1>11 DEF Choose, PhaseOK, run, plan, Handing
<1>12. CASE Handover
  <2>1. pc \in Handing /\ pc' \in {"choose"} \cup Handing /\ src' = src /\ resume' = resume
    <3>1. CASE OfferDirectly \/ OfferReplyLost \/ OfferFails \/ TakeOut \/ Grant \/ GrantFails
      BY <3>1 DEF OfferDirectly, OfferReplyLost, OfferFails, TakeOut, Grant, GrantFails,
           Goes, GiveUp, CopyInstead, Handing, run, plan
    <3>2. CASE Accept \/ AcceptReplyLost \/ AcceptFails \/ PutBack \/ Record \/ Account
      BY <3>2 DEF Accept, AcceptReplyLost, AcceptFails, PutBack, Record, Account,
           Goes, GiveUp, CopyInstead, Handing, run, plan
    <3>3. CASE CopyOver \/ CopyReplyLost \/ CopyOverFails \/ Erase \/ EraseFails \/ Rekey \/ Insert
      BY <3>3 DEF CopyOver, CopyReplyLost, CopyOverFails, Erase, EraseFails, Rekey, Insert,
           Goes, GiveUp, Handing, run, plan
    <3> QED
      BY <1>12, <3>1, <3>2, <3>3 DEF Handover
  <2>2. pc' \notin {"unsynced", "scan", "free", "sync", "balance", "source"}
    BY <2>1 DEF Handing
  <2>3. resume \in {"free", "balance"} /\ (src = Main <=> resume = "free")
    BY <2>1 DEF PhaseOK
  <2>4. done' = done \/ (Account /\ done' = done \cup {<<Step, job.file, job.to>>})
    <3>1. CASE Account
      BY <3>1 DEF Account
    <3>2. CASE ~Account
      <4>1. CASE OfferDirectly \/ OfferReplyLost \/ OfferFails \/ TakeOut \/ Grant \/ GrantFails
        BY <4>1 DEF OfferDirectly, OfferReplyLost, OfferFails, TakeOut, Grant, GrantFails,
             Goes, GiveUp, CopyInstead, run
      <4>2. CASE Accept \/ AcceptReplyLost \/ AcceptFails \/ PutBack \/ Record
        BY <4>2 DEF Accept, AcceptReplyLost, AcceptFails, PutBack, Record,
             Goes, GiveUp, CopyInstead, run
      <4>3. CASE CopyOver \/ CopyReplyLost \/ CopyOverFails \/ Erase \/ EraseFails \/ Rekey \/ Insert
        BY <4>3 DEF CopyOver, CopyReplyLost, CopyOverFails, Erase, EraseFails, Rekey, Insert,
             Goes, GiveUp, run
      <4> QED
        BY <1>12, <3>2, <4>1, <4>2, <4>3 DEF Handover
    <3> QED
      BY <3>1, <3>2
  <2>5. resume # "balance" => \A d \in done' : d[1] = "freemain"
    BY <2>3, <2>4 DEF PhaseOK, Step
  <2> QED
    BY <2>1, <2>2, <2>3, <2>5 DEF PhaseOK
<1>13. CASE Kill
  BY <1>13 DEF Kill, PhaseOK, run, Handing
<1>14. CASE UNCHANGED vars
  BY <1>14 DEF vars, run, plan, PhaseOK
<1> QED
  BY <1>1, <1>2, <1>3, <1>4, <1>5, <1>6, <1>7, <1>8, <1>9, <1>10, <1>11, <1>12, <1>13,
     <1>14 DEF Next

\* Handovers that stay undisturbed; the others are faults, or do not happen.
LEMMA HandoverCalm ==
    ASSUME CalmAll, Handover, calm'
    PROVE  CalmInv'
<1>1. CASE OfferDirectly
  BY <1>1, OfferDirectlyCalm
<1>2. CASE OfferReplyLost \/ GrantFails \/ AcceptReplyLost \/ AcceptFails
  <2>1. ~calm'
    BY <1>2 DEF OfferReplyLost, GrantFails, AcceptReplyLost, AcceptFails, FaultAt, Fault
  <2> QED
    BY <2>1
<1>3. CASE OfferFails
  <2>1. pc = "offer" /\ ~Giving /\ calm
    BY <1>3 DEF OfferFails, Fault, NoFault, history
  <2>2. Giving
    BY <2>1, Known DEF Before, InHand, Handing
  <2> QED
    BY <2>1, <2>2
<1>4. CASE TakeOut
  BY <1>4, TakeOutCalm
<1>5. CASE Grant
  BY <1>5, GrantCalm
<1>6. CASE Accept
  BY <1>6, AcceptCalm
<1>7. CASE PutBack
  BY <1>7, PutBackCalm
<1>8. CASE Record
  BY <1>8, RecordCalm
<1>9. CASE Account
  BY <1>9, AccountCalm
<1>10. CASE CopyOver \/ CopyReplyLost \/ CopyOverFails \/ Erase \/ EraseFails \/ Rekey \/ Insert
  <2>1. pc \in {"copy", "erase", "rekey", "insert"} /\ calm
    <3>1. CASE CopyOver \/ CopyReplyLost \/ CopyOverFails
      BY <3>1 DEF CopyOver, CopyReplyLost, CopyOverFails, FaultAt, Fault, NoFault, history
    <3>2. CASE Erase \/ EraseFails \/ Insert
      BY <3>2 DEF Erase, EraseFails, Insert, Fault, NoFault, history
    <3>3. CASE Rekey
      <4>1. pc = "rekey" /\ (NoFault \/ Fault)
        BY <3>3 DEF Rekey, Rekeyed
      <4> QED
        BY <4>1 DEF Fault, NoFault, history
    <3> QED
      BY <1>10, <3>1, <3>2, <3>3
  <2>2. pc \notin {"copy", "erase", "rekey", "insert"}
    BY <2>1, Known DEF Before, Quiet
  <2> QED
    BY <2>1, <2>2
<1> QED
  BY <1>1, <1>2, <1>3, <1>4, <1>5, <1>6, <1>7, <1>8, <1>9, <1>10 DEF Handover

LEMMA CalmStep == CalmAll /\ [Next]_vars => CalmInv'
<1> SUFFICES ASSUME CalmAll, [Next]_vars, calm', pc' # "idle" PROVE CalmInv'
  BY DEF CalmInv
<1>1. CASE Begin
  BY <1>1, BeginCalm
<1>2. CASE MoveUnsynced
  BY <1>2, MoveUnsyncedCalm
<1>3. ASSUME NEW missed \in SUBSET Accounts, Scan(missed) PROVE CalmInv'
  BY <1>3, ScanCalm
<1>4. CASE EnterFree
  BY <1>4, EnterFreeCalm
<1>5. CASE EnterBalance
  BY <1>5, EnterBalanceCalm
<1>6. CASE NextSource
  BY <1>6, NextSourceCalm
<1>7. CASE Chosen
  BY <1>7, ChosenCalm
<1>8. CASE Complete
  BY <1>8 DEF Complete
<1>9. ASSUME NEW f \in Files, Skip(f) \/ NoRoom(f) \/ Choose(f) PROVE CalmInv'
  BY <1>9, SkipCalm, NoRoomCalm, ChooseCalm
<1>10. CASE Handover
  BY <1>10, HandoverCalm
<1>11. CASE Kill
  BY <1>11 DEF Kill
<1>12. CASE UNCHANGED vars
  <2>1. /\ UNCHANGED <<pc, calm, known, used, targets, sources, left, src, todo, job, done>>
        /\ UNCHANGED <<of, owner, place, stored, state, claimed>>
    BY <1>12 DEF vars, google, rows, run, plan, work, history
  <2>2. Before
    BY <2>1, Known
  <2>3. Quiet'
    BY <2>1, <2>2 DEF Before, Quiet
  <2>4. InHand'
    BY <2>1, <2>2 DEF Before, InHand, Giving, Live, Passed, Step, Moved, Handing
  <2>5. RowsTrue'
    BY <2>1, <2>2 DEF Before, RowsTrue, Balancing, Working, Passed
  <2>6. Freed' /\ Taken'
    BY <2>1, <2>2 DEF Before, Freed, Taken, Freeing, Balancing, Working, Room, Passed
  <2>7. TwinLeft' <=> TwinLeft
    BY <2>1 DEF TwinLeft, Owns, Passed
  <2>8. Counted => Counted'
    BY <2>1 DEF Counted, Charged
  <2>9. Owning => Owning'
    BY <2>1 DEF Owning, Owns, Balancing, Working
  <2>10. Balanced => Balanced'
    BY <2>1 DEF Balanced, Settled, Owns, Room, Balancing, Working
  <2> QED
    BY <2>2, <2>3, <2>4, <2>5, <2>6, <2>7, <2>8, <2>9, <2>10, CalmBy DEF Before
<1> QED
  BY <1>1, <1>2, <1>3, <1>4, <1>5, <1>6, <1>7, <1>8, <1>9, <1>10, <1>11, <1>12 DEF Next

LEMMA CalmInvariant == Spec => []CalmAll
<1>1. Init => CalmAll
  <2> SUFFICES ASSUME Init PROVE CalmAll
    OBVIOUS
  <2>1. PhaseOK /\ CalmInv
    BY DEF Init, PhaseOK, CalmInv, Handing
  <2> QED
    BY <2>1, HandInit, QuotaInit DEF CalmAll
<1>2. CalmAll /\ [Next]_vars => CalmAll'
  <2> SUFFICES ASSUME CalmAll, [Next]_vars PROVE CalmAll'
    OBVIOUS
  <2>1. TypeOK
    BY DEF CalmAll, HandInv
  <2> QED
    BY <2>1, HandStep, QuotaStep, PhaseStep, CalmStep DEF CalmAll
<1> QED
  BY <1>1, <1>2, PTL DEF Spec
-----------------------------------------------------------------------------
\* FreeMain leaves on main what fits into no backup account, of all that its
\* rows say is in use: nothing is passed over for being in the tree of another
\* account, too large for the first target tried, or counted against an account
\* that did not receive it.
THEOREM FreedOfWhatFits == Spec => []FreesWhatFits
<1>1. CalmAll => FreesWhatFits
  <2> SUFFICES ASSUME CalmAll, calm, pc = "sync" PROVE FreesWhatFits
    BY DEF FreesWhatFits
  <2>1. Freed /\ ~Freeing
    BY Known DEF Before, Freeing, Working, Handing
  <2> QED
    BY <2>1 DEF Freed, FreesWhatFits
<1> QED
  BY <1>1, CalmInvariant, PTL

\* BalanceStorage relieves every account it found overfull, or leaves it
\* nothing that fits elsewhere, unless one of them still has an object of a file
\* that the run handed over.
THEOREM BalanceIsSettled == Spec => []BalanceSettles
<1>1. CalmAll => BalanceSettles
  <2> SUFFICES ASSUME CalmAll, calm, pc = "source", left = {}, ~TwinLeft,
                      NEW s \in sources
               PROVE  100 * stored[s] < 90 * Total[s] \/
                      \A i \in Ids : \A t \in targets : Owns(s, i) => ~Room(t, of[i])
    BY DEF BalanceSettles
  <2>1. Balanced /\ Balancing /\ ~Working
    BY Known DEF Before, Balancing, Working, Handing
  <2>2. Settled(s)
    BY <2>1 DEF Balanced
  <2> QED
    BY <2>1, <2>2 DEF Settled
<1> QED
  BY <1>1, CalmInvariant, PTL

\* After FreeMain, and after each account that BalanceStorage relieved, the rows
\* are what a listing would make them: none in use names what is gone, and no
\* account's row calls its own what it gave away.
THEOREM RowsAreFollowed == Spec => []RowsFollow
<1>1. CalmAll => RowsFollow
  <2> SUFFICES ASSUME CalmAll, calm, pc \in {"sync", "source"} PROVE RowsFollow
    BY DEF RowsFollow
  <2>1. RowsTrue
    BY Known DEF Before
  <2> QED
    BY <2>1 DEF RowsTrue, RowsFollow, Live
<1> QED
  BY <1>1, CalmInvariant, PTL
=============================================================================
