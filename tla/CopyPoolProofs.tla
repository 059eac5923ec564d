---------------------------- MODULE CopyPoolProofs ----------------------------
(***************************************************************************)
(* Theorems about CopyPool, for any workers, jobs, accounts and bounds: it *)
(* is correctly typed; what the database has a row for is whole; what the  *)
(* checkpoint names has a row; the pool returns with every job settled;    *)
(* and it implements Distribution.                                         *)
(*                                                                         *)
(* One lemma per action says that it keeps the types, another that it      *)
(* keeps the invariant Safe.                                               *)
(***************************************************************************)
EXTENDS CopyPool, FiniteSetTheorems, TLAPS

USE PoolAssumption

\* A worker that has a job knows its file, its provider and its size.
LEMMA Working ==
    ASSUME TypeOK, NEW w \in Workers, pc[w] \in Busy
    PROVE  /\ job[w] \in Jobs /\ F(w) \in Files /\ P(w) \in Providers
           /\ Sz(w) \in Nat /\ Order[P(w)] \in Seq(Accounts)
           /\ at[w] <= Len(Order[P(w)]) => Here(w) \in Accounts
  <1>1. job[w] \in Jobs BY DEF TypeOK, WorkerOK
  <1>2. P(w) \in Providers /\ F(w) \in Files BY <1>1 DEF P, F
  <1>3. Order[P(w)] \in Seq(Accounts) BY <1>2
  <1>4. Sz(w) \in Nat BY <1>2 DEF Sz
  <1>5. at[w] \in Nat \ {0} BY DEF TypeOK, PlanOK
  <1>6. at[w] <= Len(Order[P(w)]) => Here(w) \in Accounts BY <1>3, <1>5 DEF Here
  <1> QED BY <1>1, <1>2, <1>3, <1>4, <1>6

\* How many replicas copyFile may see.
LEMMA SourcesTyped ==
    ASSUME TypeOK, NEW f \in Files, NEW n \in 0..Cardinality(Appended(f))
    PROVE  Replicas[f] + n \in Nat
  <1>1. Appended(f) \subseteq Jobs BY DEF TypeOK, CopiesOK, Appended
  <1>2. Cardinality(Appended(f)) \in Nat
    BY <1>1, FS_Subset, FS_CardinalityType
  <1> QED BY <1>2

\* What the worker of a file account has to look at stays before it while
\* another worker goes on.
LEMMA FillStays ==
    ASSUME PlanOK, NEW w \in Workers, pc'[w] # "fill",
           \A v \in Workers \ {w} :
               pc'[v] = pc[v] /\ at'[v] = at[v] /\ job'[v] = job[v]
    PROVE  \A v \in Workers : pc'[v] = "fill" => at'[v] <= Len(Order[P(v)'])
  <1> SUFFICES ASSUME NEW v \in Workers, pc'[v] = "fill"
               PROVE  at'[v] <= Len(Order[P(v)'])
    OBVIOUS
  <1>1. v # w OBVIOUS
  <1>2. P(v)' = P(v) BY <1>1 DEF P
  <1> QED BY <1>1, <1>2 DEF PlanOK

\* What copyFile does when it begins.
LEMMA Begins ==
    ASSUME TypeOK, NEW w \in Workers, NEW j \in Jobs, CopyFile(w, j)
    PROVE  /\ \E c \in {"look", "refused"} : pc' = [pc EXCEPT ![w] = c]
           /\ sources' \in [Workers -> Nat]
  <1>1. FileOf[j] \in Files OBVIOUS
  <1>2. PICK n \in 0..Cardinality(Appended(FileOf[j])) :
          /\ sources' = [sources EXCEPT ![w] = Replicas[FileOf[j]] + n]
          /\ Go(w, IF Replicas[FileOf[j]] + n > 0 THEN "look" ELSE "refused")
    BY DEF CopyFile
  <1>3. Replicas[FileOf[j]] + n \in Nat BY <1>1, SourcesTyped
  <1>4. sources' \in [Workers -> Nat] BY <1>2, <1>3 DEF TypeOK, PlanOK
  <1> QED BY <1>2, <1>4 DEF Go

LEMMA BeginsPlan ==
    ASSUME TypeOK, NEW w \in Workers, NEW j \in Jobs, CopyFile(w, j),
           \A v \in Workers \ {w} : job'[v] = job[v]
    PROVE  PlanOK'
  <1>1. NoPlan(w) BY DEF CopyFile
  <1>2. PICK c \in {"look", "refused"} : pc' = [pc EXCEPT ![w] = c] BY Begins
  <1>3. sources' \in [Workers -> Nat] BY Begins
  <1>4. \A v \in Workers : pc'[v] = "fill" => at'[v] <= Len(Order[P(v)'])
    BY <1>1, <1>2, FillStays DEF TypeOK, WorkerOK, PlanOK, NoPlan
  <1>5. at' \in [Workers -> Nat \ {0}] /\ asked' \in [Workers -> Nat]
    BY <1>1 DEF TypeOK, PlanOK, NoPlan
  <1>6. best' \in [Workers -> Accounts \cup {None}]
    BY <1>1 DEF TypeOK, PlanOK, NoPlan
  <1>7. most' \in [Workers -> Int] BY <1>1 DEF TypeOK, PlanOK, NoPlan
  <1> QED BY <1>3, <1>4, <1>5, <1>6, <1>7 DEF PlanOK

\* What looking at an account does to a worker's plan.
LEMMA Considered ==
    ASSUME TypeOK, NEW w \in Workers, pc[w] \in Busy, at[w] <= Len(Order[P(w)]),
           NEW u \in Nat, Consider(w, u)
    PROVE  /\ at' \in [Workers -> Nat \ {0}]
           /\ best' \in [Workers -> Accounts \cup {None}]
           /\ most' \in [Workers -> Int]
           /\ \A v \in Workers \ {w} : at'[v] = at[v]
  <1>1. Here(w) \in Accounts BY Working
  <1>2. Free(Here(w), u) \in Int BY <1>1 DEF Free
  <1>3. /\ at' \in [Workers -> Nat \ {0}]
        /\ \A v \in Workers \ {w} : at'[v] = at[v]
    BY DEF TypeOK, PlanOK, Consider
  <1>4. best' \in [Workers -> Accounts \cup {None}]
    BY <1>1 DEF TypeOK, PlanOK, Consider
  <1>5. most' \in [Workers -> Int]
    BY <1>2 DEF TypeOK, PlanOK, Consider
  <1> QED BY <1>3, <1>4, <1>5

\* Adding to one account, or to none.
LEMMA Adding ==
    ASSUME NEW g \in [Accounts -> Nat], NEW a, NEW n \in Nat
    PROVE  [g EXCEPT ![a] = @ + n] \in [Accounts -> Nat]
  <1>1. CASE a \in Accounts BY <1>1
  <1>2. CASE a \notin Accounts BY <1>2
  <1> QED BY <1>1, <1>2

LEMMA TakeTypes == ASSUME TypeOK, NEW w \in Workers, Take(w) PROVE TypeOK'
  <1>1. WorkerOK'
    <2>1. PICK j \in left : job' = [job EXCEPT ![w] = j] /\ CopyFile(w, j)
      BY DEF Take
    <2>2. j \in Jobs /\ j # None BY <2>1 DEF TypeOK, CopiesOK
    <2>3. PICK c \in {"look", "refused"} : pc' = [pc EXCEPT ![w] = c]
      BY <2>1, <2>2, Begins
    <2>4. tries' = [tries EXCEPT ![w] = 1] BY DEF Take
    <2> QED BY <2>1, <2>2, <2>3, <2>4 DEF TypeOK, WorkerOK, Busy
  <1>2. PlanOK'
    <2>1. PICK j \in left : job' = [job EXCEPT ![w] = j] /\ CopyFile(w, j)
      BY DEF Take
    <2>2. j \in Jobs BY <2>1 DEF TypeOK, CopiesOK
    <2>3. \A v \in Workers \ {w} : job'[v] = job[v]
      BY <2>1 DEF TypeOK, WorkerOK
    <2> QED BY <2>1, <2>2, <2>3, BeginsPlan
  <1>3. StreamOK' BY DEF TypeOK, StreamOK, Take, CopyFile, NoPlan, Go, stream,
        space, db, pool, fixed, history
  <1>4. SpaceOK' BY DEF TypeOK, SpaceOK, Take, CopyFile, NoPlan, Go, stream,
        space, db, pool, fixed, history
  <1>5. CopiesOK' BY DEF TypeOK, CopiesOK, Take, CopyFile, NoPlan, Go, stream,
        space, db, pool, fixed, history, WorkerOK
  <1>6. PoolOK' BY DEF TypeOK, PoolOK, Take, CopyFile, NoPlan, Go, stream,
        space, db, pool, fixed, history
  <1> QED BY <1>1, <1>2, <1>3, <1>4, <1>5, <1>6 DEF TypeOK

LEMMA NoMoreJobsTypes == ASSUME TypeOK, NEW w \in Workers, NoMoreJobs(w) PROVE TypeOK'
  <1>1. WorkerOK' BY DEF TypeOK, WorkerOK, NoMoreJobs, Go, plan, stream, space,
        db, pool, fixed, history, Busy
  <1>2. PlanOK' BY Working DEF TypeOK, PlanOK, NoMoreJobs, Go, plan, stream,
        space, db, pool, fixed, history, P
  <1>3. StreamOK' BY DEF TypeOK, StreamOK, NoMoreJobs, Go, plan, stream, space,
        db, pool, fixed, history
  <1>4. SpaceOK' BY DEF TypeOK, SpaceOK, NoMoreJobs, Go, plan, stream, space,
        db, pool, fixed, history
  <1>5. CopiesOK' BY DEF TypeOK, CopiesOK, NoMoreJobs, Go, plan, stream, space,
        db, pool, fixed, history
  <1>6. PoolOK' BY DEF TypeOK, PoolOK, NoMoreJobs, Go, plan, stream, space, db,
        pool, fixed, history
  <1> QED BY <1>1, <1>2, <1>3, <1>4, <1>5, <1>6 DEF TypeOK

LEMMA LookCachedTypes == ASSUME TypeOK, NEW w \in Workers, LookCached(w) PROVE TypeOK'
  <1>1. WorkerOK' BY DEF TypeOK, WorkerOK, LookCached, Looking, Consider,
        stream, space, db, pool, fixed, history, Busy
  <1>2. PlanOK'
    <2>1. pc[w] \in Busy /\ at[w] <= Len(Order[P(w)]) /\ pc[w] = "look"
      BY DEF LookCached, Looking, Busy
    <2>2. cached[Here(w)] \in Nat BY <2>1, Working DEF TypeOK, SpaceOK, LookCached
    <2>3. Consider(w, cached[Here(w)]) BY DEF LookCached
    <2>4. UNCHANGED <<pc, job, asked, sources>> BY DEF LookCached
    <2>5. \A v \in Workers : pc'[v] = "fill" => at'[v] <= Len(Order[P(v)'])
      BY <2>1, <2>2, <2>3, <2>4, Considered, FillStays DEF TypeOK
    <2> QED BY <2>1, <2>2, <2>3, <2>4, <2>5, Considered DEF TypeOK, PlanOK
  <1>3. StreamOK' BY DEF TypeOK, StreamOK, LookCached, Looking, Consider,
        stream, space, db, pool, fixed, history
  <1>4. SpaceOK' BY DEF TypeOK, SpaceOK, LookCached, Looking, Consider, stream,
        space, db, pool, fixed, history
  <1>5. CopiesOK' BY DEF TypeOK, CopiesOK, LookCached, Looking, Consider,
        stream, space, db, pool, fixed, history
  <1>6. PoolOK' BY DEF TypeOK, PoolOK, LookCached, Looking, Consider, stream,
        space, db, pool, fixed, history
  <1> QED BY <1>1, <1>2, <1>3, <1>4, <1>5, <1>6 DEF TypeOK

LEMMA AskTypes == ASSUME TypeOK, NEW w \in Workers, Ask(w) PROVE TypeOK'
  <1>1. WorkerOK' BY DEF TypeOK, WorkerOK, Ask, Looking, Go, stream, space, db,
        pool, fixed, history, Busy
  <1>2. PlanOK'
    <2>1. pc[w] \in Busy /\ at[w] <= Len(Order[P(w)])
      BY DEF Ask, Looking, Busy
    <2>2. used[Here(w)] \in Nat BY <2>1, Working DEF TypeOK, SpaceOK
    <2>3. \A v \in Workers : P(v)' = P(v) BY DEF P, Ask
    <2> QED BY <2>1, <2>2, <2>3 DEF TypeOK, PlanOK, WorkerOK, Ask, Go
  <1>3. StreamOK' BY DEF TypeOK, StreamOK, Ask, Looking, Go, stream, space, db,
        pool, fixed, history
  <1>4. SpaceOK' BY DEF TypeOK, SpaceOK, Ask, Looking, Go, stream, space, db,
        pool, fixed, history
  <1>5. CopiesOK' BY DEF TypeOK, CopiesOK, Ask, Looking, Go, stream, space, db,
        pool, fixed, history
  <1>6. PoolOK' BY DEF TypeOK, PoolOK, Ask, Looking, Go, stream, space, db,
        pool, fixed, history
  <1> QED BY <1>1, <1>2, <1>3, <1>4, <1>5, <1>6 DEF TypeOK

LEMMA AskFailsTypes == ASSUME TypeOK, NEW w \in Workers, AskFails(w) PROVE TypeOK'
  <1>1. WorkerOK' BY DEF TypeOK, WorkerOK, AskFails, Looking, Fault, stream,
        space, db, pool, fixed, Busy
  <1>2. PlanOK'
    <2>1. pc[w] = "look" /\ UNCHANGED <<pc, job, best, most, asked, sources>>
      BY DEF AskFails, Looking
    <2>2. at' = [at EXCEPT ![w] = at[w] + 1] BY DEF AskFails
    <2>3. at' \in [Workers -> Nat \ {0}] BY <2>2 DEF TypeOK, PlanOK
    <2>4. \A v \in Workers : P(v)' = P(v) BY <2>1 DEF P
    <2>5. \A v \in Workers : pc'[v] = "fill" => at'[v] <= Len(Order[P(v)'])
      BY <2>1, <2>2, <2>4 DEF TypeOK, PlanOK
    <2> QED BY <2>1, <2>3, <2>5 DEF TypeOK, PlanOK
  <1>3. StreamOK' BY DEF TypeOK, StreamOK, AskFails, Looking, Fault, stream,
        space, db, pool, fixed
  <1>4. SpaceOK' BY DEF TypeOK, SpaceOK, AskFails, Looking, Fault, stream,
        space, db, pool, fixed
  <1>5. CopiesOK' BY DEF TypeOK, CopiesOK, AskFails, Looking, Fault, stream,
        space, db, pool, fixed
  <1>6. PoolOK' BY DEF TypeOK, PoolOK, AskFails, Looking, Fault, stream, space,
        db, pool, fixed
  <1> QED BY <1>1, <1>2, <1>3, <1>4, <1>5, <1>6 DEF TypeOK

LEMMA FillTypes == ASSUME TypeOK, NEW w \in Workers, Fill(w) PROVE TypeOK'
  <1>1. WorkerOK' BY DEF TypeOK, WorkerOK, Fill, Consider, Go, stream, db,
        pool, fixed, history, Busy
  <1>2. PlanOK'
    <2>1. pc[w] \in Busy /\ pc[w] = "fill" BY DEF Fill, Busy
    <2>2. at[w] <= Len(Order[P(w)]) /\ asked[w] \in Nat
      BY <2>1 DEF TypeOK, PlanOK
    <2>3. Consider(w, asked[w]) BY DEF Fill
    <2>4. UNCHANGED <<job, asked, sources>> /\ pc' = [pc EXCEPT ![w] = "look"]
      BY DEF Fill, Go
    <2>5. \A v \in Workers : pc'[v] = "fill" => at'[v] <= Len(Order[P(v)'])
      BY <2>1, <2>2, <2>3, <2>4, Considered, FillStays DEF TypeOK, WorkerOK
    <2> QED BY <2>1, <2>2, <2>3, <2>4, <2>5, Considered DEF TypeOK, PlanOK
  <1>3. StreamOK' BY DEF TypeOK, StreamOK, Fill, Consider, Go, stream, db,
        pool, fixed, history
  <1>4. SpaceOK'
    <2>1. asked[w] \in Nat BY DEF TypeOK, PlanOK
    <2> QED BY <2>1 DEF TypeOK, SpaceOK, Fill
  <1>5. CopiesOK' BY DEF TypeOK, CopiesOK, Fill, Consider, Go, stream, db,
        pool, fixed, history
  <1>6. PoolOK' BY DEF TypeOK, PoolOK, Fill, Consider, Go, stream, db, pool,
        fixed, history
  <1> QED BY <1>1, <1>2, <1>3, <1>4, <1>5, <1>6 DEF TypeOK

LEMMA ReserveTypes == ASSUME TypeOK, NEW w \in Workers, Reserve(w) PROVE TypeOK'
  <1>1. WorkerOK' BY DEF TypeOK, WorkerOK, Reserve, Looked, Go, plan, stream,
        db, pool, fixed, history, Busy
  <1>2. PlanOK' BY Working DEF TypeOK, PlanOK, Reserve, Looked, Go, plan,
        stream, db, pool, fixed, history, P
  <1>3. StreamOK' BY DEF TypeOK, StreamOK, Reserve, Looked, Go, plan, stream,
        db, pool, fixed, history
  <1>4. SpaceOK'
    <2>1. pc[w] \in Busy BY DEF Reserve, Looked, Busy
    <2>2. Sz(w) \in Nat BY <2>1, Working
    <2>3. best[w] \in Accounts BY DEF TypeOK, PlanOK, Reserve
    <2>4. cached[best[w]] \in Nat \cup {None} BY <2>3 DEF TypeOK, SpaceOK
    <2> DEFINE c == IF cached[best[w]] = None THEN None ELSE cached[best[w]] + Sz(w)
    <2>5. c \in Nat \cup {None} BY <2>2, <2>4
    <2>6. cached' = [cached EXCEPT ![best[w]] = c] BY DEF Reserve
    <2> HIDE DEF c
    <2>7. UNCHANGED <<used, astray>> BY DEF Reserve
    <2> QED BY <2>5, <2>6, <2>7 DEF TypeOK, SpaceOK
  <1>5. CopiesOK' BY DEF TypeOK, CopiesOK, Reserve, Looked, Go, plan, stream,
        db, pool, fixed, history
  <1>6. PoolOK' BY DEF TypeOK, PoolOK, Reserve, Looked, Go, plan, stream, db,
        pool, fixed, history
  <1> QED BY <1>1, <1>2, <1>3, <1>4, <1>5, <1>6 DEF TypeOK

LEMMA FirstUnquotedTypes == ASSUME TypeOK, NEW w \in Workers, FirstUnquoted(w) PROVE TypeOK'
  <1>1. WorkerOK' BY DEF TypeOK, WorkerOK, FirstUnquoted, Go, stream, space,
        db, pool, fixed, history, Busy
  <1>2. PlanOK'
    <2>1. pc[w] \in Busy BY DEF FirstUnquoted, Busy
    <2>2. Order[P(w)][1] \in Accounts BY <2>1, Working DEF FirstUnquoted
    <2>3. \A v \in Workers : P(v)' = P(v) BY DEF P, FirstUnquoted
    <2> QED BY <2>2, <2>3 DEF TypeOK, PlanOK, WorkerOK, FirstUnquoted, Go
  <1>3. StreamOK' BY DEF TypeOK, StreamOK, FirstUnquoted, Go, stream, space,
        db, pool, fixed, history
  <1>4. SpaceOK' BY DEF TypeOK, SpaceOK, FirstUnquoted, Go, stream, space, db,
        pool, fixed, history
  <1>5. CopiesOK' BY DEF TypeOK, CopiesOK, FirstUnquoted, Go, stream, space,
        db, pool, fixed, history
  <1>6. PoolOK' BY DEF TypeOK, PoolOK, FirstUnquoted, Go, stream, space, db,
        pool, fixed, history
  <1> QED BY <1>1, <1>2, <1>3, <1>4, <1>5, <1>6 DEF TypeOK

LEMMA RefuseTypes == ASSUME TypeOK, NEW w \in Workers, Refuse(w) PROVE TypeOK'
  <1>1. WorkerOK' BY DEF TypeOK, WorkerOK, Refuse, Looked, Go, plan, stream,
        space, db, pool, fixed, history, Busy
  <1>2. PlanOK'
    <2>1. \A v \in Workers : P(v)' = P(v) BY DEF P, Refuse
    <2>2. UNCHANGED plan /\ UNCHANGED sources BY DEF Refuse
    <2>3. pc' = [pc EXCEPT ![w] = "refused"] BY DEF Refuse, Go
    <2> QED BY <2>1, <2>2, <2>3 DEF TypeOK, PlanOK, WorkerOK, plan
  <1>3. StreamOK' BY DEF TypeOK, StreamOK, Refuse, Looked, Go, plan, stream,
        space, db, pool, fixed, history
  <1>4. SpaceOK' BY DEF TypeOK, SpaceOK, Refuse, Looked, Go, plan, stream,
        space, db, pool, fixed, history
  <1>5. CopiesOK' BY DEF TypeOK, CopiesOK, Refuse, Looked, Go, plan, stream,
        space, db, pool, fixed, history
  <1>6. PoolOK' BY DEF TypeOK, PoolOK, Refuse, Looked, Go, plan, stream, space,
        db, pool, fixed, history
  <1> QED BY <1>1, <1>2, <1>3, <1>4, <1>5, <1>6 DEF TypeOK

LEMMA NoFolderTypes == ASSUME TypeOK, NEW w \in Workers, NoFolder(w) PROVE TypeOK'
  <1>1. WorkerOK' BY DEF TypeOK, WorkerOK, NoFolder, Go, Fault, plan, stream,
        space, db, pool, fixed, Busy
  <1>2. PlanOK' BY Working DEF TypeOK, PlanOK, NoFolder, Go, Fault, plan,
        stream, space, db, pool, fixed, P
  <1>3. StreamOK' BY DEF TypeOK, StreamOK, NoFolder, Go, Fault, plan, stream,
        space, db, pool, fixed
  <1>4. SpaceOK' BY DEF TypeOK, SpaceOK, NoFolder, Go, Fault, plan, stream,
        space, db, pool, fixed
  <1>5. CopiesOK' BY DEF TypeOK, CopiesOK, NoFolder, Go, Fault, plan, stream,
        space, db, pool, fixed
  <1>6. PoolOK' BY DEF TypeOK, PoolOK, NoFolder, Go, Fault, plan, stream,
        space, db, pool, fixed
  <1> QED BY <1>1, <1>2, <1>3, <1>4, <1>5, <1>6 DEF TypeOK

LEMMA OpenTypes == ASSUME TypeOK, NEW w \in Workers, Open(w) PROVE TypeOK'
  <1>1. WorkerOK' BY DEF TypeOK, WorkerOK, Open, Ready, Go, plan, space, db,
        pool, fixed, history, Busy
  <1>2. PlanOK' BY Working DEF TypeOK, PlanOK, Open, Ready, Go, plan, space,
        db, pool, fixed, history, P
  <1>3. StreamOK' BY DEF TypeOK, StreamOK, Open, Ready, Go, plan, space, db,
        pool, fixed, history
  <1>4. SpaceOK' BY DEF TypeOK, SpaceOK, Open, Ready, Go, plan, space, db,
        pool, fixed, history
  <1>5. CopiesOK' BY DEF TypeOK, CopiesOK, Open, Ready, Go, plan, space, db,
        pool, fixed, history
  <1>6. PoolOK' BY DEF TypeOK, PoolOK, Open, Ready, Go, plan, space, db, pool,
        fixed, history
  <1> QED BY <1>1, <1>2, <1>3, <1>4, <1>5, <1>6 DEF TypeOK

LEMMA SkipTypes == ASSUME TypeOK, NEW w \in Workers, Skip(w) PROVE TypeOK'
  <1>1. WorkerOK' BY DEF TypeOK, WorkerOK, Skip, Ready, Go, Fault, plan,
        stream, space, db, pool, fixed, Busy
  <1>2. PlanOK' BY Working DEF TypeOK, PlanOK, Skip, Ready, Go, Fault, plan,
        stream, space, db, pool, fixed, P
  <1>3. StreamOK' BY DEF TypeOK, StreamOK, Skip, Ready, Go, Fault, plan,
        stream, space, db, pool, fixed
  <1>4. SpaceOK' BY DEF TypeOK, SpaceOK, Skip, Ready, Go, Fault, plan, stream,
        space, db, pool, fixed
  <1>5. CopiesOK' BY DEF TypeOK, CopiesOK, Skip, Ready, Go, Fault, plan,
        stream, space, db, pool, fixed
  <1>6. PoolOK' BY DEF TypeOK, PoolOK, Skip, Ready, Go, Fault, plan, stream,
        space, db, pool, fixed
  <1> QED BY <1>1, <1>2, <1>3, <1>4, <1>5, <1>6 DEF TypeOK

LEMMA NoSourceLeftTypes == ASSUME TypeOK, NEW w \in Workers, NoSourceLeft(w) PROVE TypeOK'
  <1>1. WorkerOK' BY DEF TypeOK, WorkerOK, NoSourceLeft, Go, plan, stream,
        space, db, pool, fixed, history, Busy
  <1>2. PlanOK' BY Working DEF TypeOK, PlanOK, NoSourceLeft, Go, plan, stream,
        space, db, pool, fixed, history, P
  <1>3. StreamOK' BY DEF TypeOK, StreamOK, NoSourceLeft, Go, plan, stream,
        space, db, pool, fixed, history
  <1>4. SpaceOK' BY DEF TypeOK, SpaceOK, NoSourceLeft, Go, plan, stream, space,
        db, pool, fixed, history
  <1>5. CopiesOK' BY DEF TypeOK, CopiesOK, NoSourceLeft, Go, plan, stream,
        space, db, pool, fixed, history
  <1>6. PoolOK' BY DEF TypeOK, PoolOK, NoSourceLeft, Go, plan, stream, space,
        db, pool, fixed, history
  <1> QED BY <1>1, <1>2, <1>3, <1>4, <1>5, <1>6 DEF TypeOK

LEMMA FlowTypes == ASSUME TypeOK, NEW w \in Workers, Flow(w) PROVE TypeOK'
  <1>1. WorkerOK' BY DEF TypeOK, WorkerOK, Flow, Rest, plan, space, db, pool,
        fixed, history, Busy
  <1>2. PlanOK' BY DEF TypeOK, PlanOK, Flow, Rest, plan, space, db, pool,
        fixed, history, P
  <1>3. StreamOK' BY DEF TypeOK, StreamOK, Flow, Rest, plan, space, db, pool,
        fixed, history
  <1>4. SpaceOK' BY DEF TypeOK, SpaceOK, Flow, Rest, plan, space, db, pool,
        fixed, history
  <1>5. CopiesOK' BY DEF TypeOK, CopiesOK, Flow, Rest, plan, space, db, pool,
        fixed, history
  <1>6. PoolOK' BY DEF TypeOK, PoolOK, Flow, Rest, plan, space, db, pool,
        fixed, history
  <1> QED BY <1>1, <1>2, <1>3, <1>4, <1>5, <1>6 DEF TypeOK

LEMMA DownloadEndsTypes == ASSUME TypeOK, NEW w \in Workers, DownloadEnds(w) PROVE TypeOK'
  <1>1. WorkerOK' BY DEF TypeOK, WorkerOK, DownloadEnds, Rest, plan, space, db,
        pool, fixed, history, Busy
  <1>2. PlanOK' BY DEF TypeOK, PlanOK, DownloadEnds, Rest, plan, space, db,
        pool, fixed, history, P
  <1>3. StreamOK' BY DEF TypeOK, StreamOK, DownloadEnds, Rest, plan, space, db,
        pool, fixed, history
  <1>4. SpaceOK' BY DEF TypeOK, SpaceOK, DownloadEnds, Rest, plan, space, db,
        pool, fixed, history
  <1>5. CopiesOK' BY DEF TypeOK, CopiesOK, DownloadEnds, Rest, plan, space, db,
        pool, fixed, history
  <1>6. PoolOK' BY DEF TypeOK, PoolOK, DownloadEnds, Rest, plan, space, db,
        pool, fixed, history
  <1> QED BY <1>1, <1>2, <1>3, <1>4, <1>5, <1>6 DEF TypeOK

LEMMA DownloadFailsTypes == ASSUME TypeOK, NEW w \in Workers, DownloadFails(w) PROVE TypeOK'
  <1>1. WorkerOK' BY DEF TypeOK, WorkerOK, DownloadFails, Rest, Fault, plan,
        space, db, pool, fixed, Busy
  <1>2. PlanOK' BY DEF TypeOK, PlanOK, DownloadFails, Rest, Fault, plan, space,
        db, pool, fixed, P
  <1>3. StreamOK' BY DEF TypeOK, StreamOK, DownloadFails, Rest, Fault, plan,
        space, db, pool, fixed
  <1>4. SpaceOK' BY DEF TypeOK, SpaceOK, DownloadFails, Rest, Fault, plan,
        space, db, pool, fixed
  <1>5. CopiesOK' BY DEF TypeOK, CopiesOK, DownloadFails, Rest, Fault, plan,
        space, db, pool, fixed
  <1>6. PoolOK' BY DEF TypeOK, PoolOK, DownloadFails, Rest, Fault, plan, space,
        db, pool, fixed
  <1> QED BY <1>1, <1>2, <1>3, <1>4, <1>5, <1>6 DEF TypeOK

LEMMA DownloadPanicsTypes == ASSUME TypeOK, NEW w \in Workers, DownloadPanics(w) PROVE TypeOK'
  <1>1. WorkerOK' BY DEF TypeOK, WorkerOK, DownloadPanics, Rest, Fault, plan,
        space, db, pool, fixed, Busy
  <1>2. PlanOK' BY DEF TypeOK, PlanOK, DownloadPanics, Rest, Fault, plan,
        space, db, pool, fixed, P
  <1>3. StreamOK' BY DEF TypeOK, StreamOK, DownloadPanics, Rest, Fault, plan,
        space, db, pool, fixed
  <1>4. SpaceOK' BY DEF TypeOK, SpaceOK, DownloadPanics, Rest, Fault, plan,
        space, db, pool, fixed
  <1>5. CopiesOK' BY DEF TypeOK, CopiesOK, DownloadPanics, Rest, Fault, plan,
        space, db, pool, fixed
  <1>6. PoolOK' BY DEF TypeOK, PoolOK, DownloadPanics, Rest, Fault, plan,
        space, db, pool, fixed
  <1> QED BY <1>1, <1>2, <1>3, <1>4, <1>5, <1>6 DEF TypeOK

LEMMA DownloadCutTypes == ASSUME TypeOK, NEW w \in Workers, DownloadCut(w) PROVE TypeOK'
  <1>1. WorkerOK' BY DEF TypeOK, WorkerOK, DownloadCut, Rest, plan, space, db,
        pool, fixed, history, Busy
  <1>2. PlanOK' BY DEF TypeOK, PlanOK, DownloadCut, Rest, plan, space, db,
        pool, fixed, history, P
  <1>3. StreamOK' BY DEF TypeOK, StreamOK, DownloadCut, Rest, plan, space, db,
        pool, fixed, history
  <1>4. SpaceOK' BY DEF TypeOK, SpaceOK, DownloadCut, Rest, plan, space, db,
        pool, fixed, history
  <1>5. CopiesOK' BY DEF TypeOK, CopiesOK, DownloadCut, Rest, plan, space, db,
        pool, fixed, history
  <1>6. PoolOK' BY DEF TypeOK, PoolOK, DownloadCut, Rest, plan, space, db,
        pool, fixed, history
  <1> QED BY <1>1, <1>2, <1>3, <1>4, <1>5, <1>6 DEF TypeOK

LEMMA UploadDoneTypes == ASSUME TypeOK, NEW w \in Workers, UploadDone(w) PROVE TypeOK'
  <1>1. WorkerOK' BY DEF TypeOK, WorkerOK, UploadDone, Uploaded, Stored,
        Complete, HasRoom, Go, plan, db, pool, fixed, history, Busy
  <1>2. PlanOK' BY Working DEF TypeOK, PlanOK, UploadDone, Uploaded, Stored,
        Complete, HasRoom, Go, plan, db, pool, fixed, history, P
  <1>3. StreamOK' BY DEF TypeOK, StreamOK, UploadDone, Uploaded, Stored,
        Complete, HasRoom, Go, plan, db, pool, fixed, history
  <1>4. SpaceOK'
    <2>1. pc[w] \in Busy BY DEF UploadDone, Uploaded, Busy
    <2>2. Sz(w) \in Nat BY <2>1, Working
    <2>3. used \in [Accounts -> Nat] /\ astray \in [Accounts -> Nat]
      BY DEF TypeOK, SpaceOK
    <2>4. used' \in [Accounts -> Nat] BY <2>2, <2>3, Adding DEF UploadDone, Uploaded, Stored
    <2>5. astray' \in [Accounts -> Nat] BY <2>2, <2>3 DEF UploadDone, Uploaded, Stored
    <2>6. cached' = cached BY DEF UploadDone, Uploaded, Stored
    <2> QED BY <2>4, <2>5, <2>6 DEF TypeOK, SpaceOK
  <1>5. CopiesOK' BY DEF TypeOK, CopiesOK, UploadDone, Uploaded, Stored,
        Complete, HasRoom, Go, plan, db, pool, fixed, history, WorkerOK
  <1>6. PoolOK' BY DEF TypeOK, PoolOK, UploadDone, Uploaded, Stored, Complete,
        HasRoom, Go, plan, db, pool, fixed, history
  <1> QED BY <1>1, <1>2, <1>3, <1>4, <1>5, <1>6 DEF TypeOK

LEMMA UploadReplyLostTypes == ASSUME TypeOK, NEW w \in Workers, UploadReplyLost(w) PROVE TypeOK'
  <1>1. WorkerOK' BY DEF TypeOK, WorkerOK, UploadReplyLost, Uploaded, Stored,
        Complete, HasRoom, Go, Fault, plan, db, pool, fixed, Busy
  <1>2. PlanOK' BY Working DEF TypeOK, PlanOK, UploadReplyLost, Uploaded,
        Stored, Complete, HasRoom, Go, Fault, plan, db, pool, fixed, P
  <1>3. StreamOK' BY DEF TypeOK, StreamOK, UploadReplyLost, Uploaded, Stored,
        Complete, HasRoom, Go, Fault, plan, db, pool, fixed
  <1>4. SpaceOK'
    <2>1. pc[w] \in Busy BY DEF UploadReplyLost, Uploaded, Busy
    <2>2. Sz(w) \in Nat BY <2>1, Working
    <2>3. used \in [Accounts -> Nat] /\ astray \in [Accounts -> Nat]
      BY DEF TypeOK, SpaceOK
    <2>4. used' \in [Accounts -> Nat] BY <2>2, <2>3, Adding DEF UploadReplyLost, Uploaded, Stored
    <2>5. astray' \in [Accounts -> Nat] BY <2>2, <2>3, Adding DEF UploadReplyLost, Uploaded, Stored
    <2>6. cached' = cached BY DEF UploadReplyLost, Uploaded, Stored
    <2> QED BY <2>4, <2>5, <2>6 DEF TypeOK, SpaceOK
  <1>5. CopiesOK' BY DEF TypeOK, CopiesOK, UploadReplyLost, Uploaded, Stored,
        Complete, HasRoom, Go, Fault, plan, db, pool, fixed, WorkerOK
  <1>6. PoolOK' BY DEF TypeOK, PoolOK, UploadReplyLost, Uploaded, Stored,
        Complete, HasRoom, Go, Fault, plan, db, pool, fixed
  <1> QED BY <1>1, <1>2, <1>3, <1>4, <1>5, <1>6 DEF TypeOK

LEMMA UploadFailsTypes == ASSUME TypeOK, NEW w \in Workers, UploadFails(w) PROVE TypeOK'
  <1>1. WorkerOK' BY DEF TypeOK, WorkerOK, UploadFails, Uploaded, Go, Fault,
        plan, space, db, pool, fixed, Busy
  <1>2. PlanOK' BY Working DEF TypeOK, PlanOK, UploadFails, Uploaded, Go,
        Fault, plan, space, db, pool, fixed, P
  <1>3. StreamOK' BY DEF TypeOK, StreamOK, UploadFails, Uploaded, Go, Fault,
        plan, space, db, pool, fixed
  <1>4. SpaceOK' BY DEF TypeOK, SpaceOK, UploadFails, Uploaded, Go, Fault,
        plan, space, db, pool, fixed
  <1>5. CopiesOK' BY DEF TypeOK, CopiesOK, UploadFails, Uploaded, Go, Fault,
        plan, space, db, pool, fixed
  <1>6. PoolOK' BY DEF TypeOK, PoolOK, UploadFails, Uploaded, Go, Fault, plan,
        space, db, pool, fixed
  <1> QED BY <1>1, <1>2, <1>3, <1>4, <1>5, <1>6 DEF TypeOK

LEMMA UploadRefusedTypes == ASSUME TypeOK, NEW w \in Workers, UploadRefused(w) PROVE TypeOK'
  <1>1. WorkerOK' BY DEF TypeOK, WorkerOK, UploadRefused, Uploaded, Go, plan,
        space, db, pool, fixed, history, Busy
  <1>2. PlanOK' BY Working DEF TypeOK, PlanOK, UploadRefused, Uploaded, Go,
        plan, space, db, pool, fixed, history, P
  <1>3. StreamOK' BY DEF TypeOK, StreamOK, UploadRefused, Uploaded, Go, plan,
        space, db, pool, fixed, history
  <1>4. SpaceOK' BY DEF TypeOK, SpaceOK, UploadRefused, Uploaded, Go, plan,
        space, db, pool, fixed, history
  <1>5. CopiesOK' BY DEF TypeOK, CopiesOK, UploadRefused, Uploaded, Go, plan,
        space, db, pool, fixed, history
  <1>6. PoolOK' BY DEF TypeOK, PoolOK, UploadRefused, Uploaded, Go, plan,
        space, db, pool, fixed, history
  <1> QED BY <1>1, <1>2, <1>3, <1>4, <1>5, <1>6 DEF TypeOK

LEMMA NextSourceTypes == ASSUME TypeOK, NEW w \in Workers, NextSource(w) PROVE TypeOK'
  <1>1. WorkerOK' BY DEF TypeOK, WorkerOK, NextSource, Awaiting, Over, Go,
        plan, db, pool, fixed, history, Busy
  <1>2. PlanOK' BY Working DEF TypeOK, PlanOK, NextSource, Awaiting, Over, Go,
        plan, db, pool, fixed, history, P
  <1>3. StreamOK' BY DEF TypeOK, StreamOK, NextSource, Awaiting, Over, Go,
        plan, db, pool, fixed, history
  <1>4. SpaceOK'
    <2>1. pc[w] \in Busy BY DEF NextSource, Awaiting, Busy
    <2>2. Sz(w) \in Nat BY <2>1, Working
    <2>3. used \in [Accounts -> Nat] /\ astray \in [Accounts -> Nat]
      BY DEF TypeOK, SpaceOK
    <2>4. used' \in [Accounts -> Nat] BY <2>2, <2>3 DEF NextSource, space
    <2>5. astray' \in [Accounts -> Nat] BY <2>2, <2>3, Adding DEF NextSource, space
    <2>6. cached' = cached BY DEF NextSource, space
    <2> QED BY <2>4, <2>5, <2>6 DEF TypeOK, SpaceOK
  <1>5. CopiesOK' BY DEF TypeOK, CopiesOK, NextSource, Awaiting, Over, Go,
        plan, db, pool, fixed, history
  <1>6. PoolOK' BY DEF TypeOK, PoolOK, NextSource, Awaiting, Over, Go, plan,
        db, pool, fixed, history
  <1> QED BY <1>1, <1>2, <1>3, <1>4, <1>5, <1>6 DEF TypeOK

LEMMA CopiedTypes == ASSUME TypeOK, NEW w \in Workers, Copied(w) PROVE TypeOK'
  <1>1. WorkerOK' BY DEF TypeOK, WorkerOK, Copied, Awaiting, Over, Go, plan,
        space, db, pool, fixed, history, Busy
  <1>2. PlanOK' BY Working DEF TypeOK, PlanOK, Copied, Awaiting, Over, Go,
        plan, space, db, pool, fixed, history, P
  <1>3. StreamOK' BY DEF TypeOK, StreamOK, Copied, Awaiting, Over, Go, plan,
        space, db, pool, fixed, history
  <1>4. SpaceOK' BY DEF TypeOK, SpaceOK, Copied, Awaiting, Over, Go, plan,
        space, db, pool, fixed, history
  <1>5. CopiesOK' BY DEF TypeOK, CopiesOK, Copied, Awaiting, Over, Go, plan,
        space, db, pool, fixed, history
  <1>6. PoolOK' BY DEF TypeOK, PoolOK, Copied, Awaiting, Over, Go, plan, space,
        db, pool, fixed, history
  <1> QED BY <1>1, <1>2, <1>3, <1>4, <1>5, <1>6 DEF TypeOK

LEMMA RecordTypes == ASSUME TypeOK, NEW w \in Workers, Record(w) PROVE TypeOK'
  <1>1. WorkerOK' BY DEF TypeOK, WorkerOK, Record, Go, plan, stream, space,
        pool, fixed, history, Busy
  <1>2. PlanOK' BY Working DEF TypeOK, PlanOK, Record, Go, plan, stream, space,
        pool, fixed, history, P
  <1>3. StreamOK' BY DEF TypeOK, StreamOK, Record, Go, plan, stream, space,
        pool, fixed, history
  <1>4. SpaceOK' BY DEF TypeOK, SpaceOK, Record, Go, plan, stream, space, pool,
        fixed, history
  <1>5. CopiesOK' BY DEF TypeOK, CopiesOK, Record, Go, plan, stream, space,
        pool, fixed, history, WorkerOK
  <1>6. PoolOK' BY DEF TypeOK, PoolOK, Record, Go, plan, stream, space, pool,
        fixed, history
  <1> QED BY <1>1, <1>2, <1>3, <1>4, <1>5, <1>6 DEF TypeOK

LEMMA RolledBackTypes == ASSUME TypeOK, NEW w \in Workers, RolledBack(w) PROVE TypeOK'
  <1>1. WorkerOK' BY DEF TypeOK, WorkerOK, RolledBack, Go, Fault, plan, stream,
        space, db, pool, fixed, Busy
  <1>2. PlanOK' BY Working DEF TypeOK, PlanOK, RolledBack, Go, Fault, plan,
        stream, space, db, pool, fixed, P
  <1>3. StreamOK' BY DEF TypeOK, StreamOK, RolledBack, Go, Fault, plan, stream,
        space, db, pool, fixed
  <1>4. SpaceOK' BY DEF TypeOK, SpaceOK, RolledBack, Go, Fault, plan, stream,
        space, db, pool, fixed
  <1>5. CopiesOK' BY DEF TypeOK, CopiesOK, RolledBack, Go, Fault, plan, stream,
        space, db, pool, fixed
  <1>6. PoolOK' BY DEF TypeOK, PoolOK, RolledBack, Go, Fault, plan, stream,
        space, db, pool, fixed
  <1> QED BY <1>1, <1>2, <1>3, <1>4, <1>5, <1>6 DEF TypeOK

LEMMA RecordFailsTypes == ASSUME TypeOK, NEW w \in Workers, RecordFails(w) PROVE TypeOK'
  <1>1. WorkerOK' BY DEF TypeOK, WorkerOK, RecordFails, Settle, NoPlan, Go,
        Fault, stream, space, db, pool, fixed, Busy
  <1>2. PlanOK' BY Working DEF TypeOK, PlanOK, RecordFails, Settle, NoPlan, Go,
        Fault, stream, space, db, pool, fixed, P
  <1>3. StreamOK' BY DEF TypeOK, StreamOK, RecordFails, Settle, NoPlan, Go,
        Fault, stream, space, db, pool, fixed
  <1>4. SpaceOK' BY DEF TypeOK, SpaceOK, RecordFails, Settle, NoPlan, Go,
        Fault, stream, space, db, pool, fixed
  <1>5. CopiesOK' BY DEF TypeOK, CopiesOK, RecordFails, Settle, NoPlan, Go,
        Fault, stream, space, db, pool, fixed, WorkerOK
  <1>6. PoolOK' BY DEF TypeOK, PoolOK, RecordFails, Settle, NoPlan, Go, Fault,
        stream, space, db, pool, fixed
  <1> QED BY <1>1, <1>2, <1>3, <1>4, <1>5, <1>6 DEF TypeOK

LEMMA LogCopyTypes == ASSUME TypeOK, NEW w \in Workers, LogCopy(w) PROVE TypeOK'
  <1>1. WorkerOK' BY DEF TypeOK, WorkerOK, LogCopy, Settle, NoPlan, Go, Fault,
        stream, space, pool, fixed, Busy
  <1>2. PlanOK' BY Working DEF TypeOK, PlanOK, LogCopy, Settle, NoPlan, Go,
        Fault, stream, space, pool, fixed, P
  <1>3. StreamOK' BY DEF TypeOK, StreamOK, LogCopy, Settle, NoPlan, Go, Fault,
        stream, space, pool, fixed
  <1>4. SpaceOK' BY DEF TypeOK, SpaceOK, LogCopy, Settle, NoPlan, Go, Fault,
        stream, space, pool, fixed
  <1>5. CopiesOK' BY DEF TypeOK, CopiesOK, LogCopy, Settle, NoPlan, Go, Fault,
        stream, space, pool, fixed, WorkerOK
  <1>6. PoolOK' BY DEF TypeOK, PoolOK, LogCopy, Settle, NoPlan, Go, Fault,
        stream, space, pool, fixed
  <1> QED BY <1>1, <1>2, <1>3, <1>4, <1>5, <1>6 DEF TypeOK

LEMMA RetryTypes == ASSUME TypeOK, NEW w \in Workers, Retry(w) PROVE TypeOK'
  <1>1. WorkerOK' BY DEF TypeOK, WorkerOK, Retry, CopyFile, NoPlan, Go, stream,
        space, db, pool, fixed, history, Busy
  <1>2. PlanOK'
    <2>1. job[w] \in Jobs BY Working DEF Retry, Busy
    <2> QED BY <2>1, BeginsPlan DEF Retry
  <1>3. StreamOK' BY DEF TypeOK, StreamOK, Retry, CopyFile, NoPlan, Go, stream,
        space, db, pool, fixed, history
  <1>4. SpaceOK' BY DEF TypeOK, SpaceOK, Retry, CopyFile, NoPlan, Go, stream,
        space, db, pool, fixed, history
  <1>5. CopiesOK' BY DEF TypeOK, CopiesOK, Retry, CopyFile, NoPlan, Go, stream,
        space, db, pool, fixed, history
  <1>6. PoolOK' BY DEF TypeOK, PoolOK, Retry, CopyFile, NoPlan, Go, stream,
        space, db, pool, fixed, history
  <1> QED BY <1>1, <1>2, <1>3, <1>4, <1>5, <1>6 DEF TypeOK

LEMMA GiveUpTypes == ASSUME TypeOK, NEW w \in Workers, GiveUp(w) PROVE TypeOK'
  <1>1. WorkerOK' BY DEF TypeOK, WorkerOK, GiveUp, GivingUp, Settle, NoPlan,
        Go, stream, space, db, fixed, history, Busy
  <1>2. PlanOK'
    <2>1. NoPlan(w) /\ sources' = [sources EXCEPT ![w] = 0]
      BY DEF GiveUp, GivingUp, Settle
    <2>2. \A v \in Workers \ {w} : job'[v] = job[v]
      BY DEF GiveUp, GivingUp, Settle, TypeOK, WorkerOK
    <2>3. PICK c \in {"idle", "ended"} : pc' = [pc EXCEPT ![w] = c]
      BY DEF GiveUp, Go
    <2>4. \A v \in Workers : pc'[v] = "fill" => at'[v] <= Len(Order[P(v)'])
      BY <2>1, <2>2, <2>3, FillStays DEF TypeOK, WorkerOK, PlanOK, NoPlan
    <2> QED BY <2>1, <2>4 DEF TypeOK, PlanOK, NoPlan
  <1>3. StreamOK' BY DEF TypeOK, StreamOK, GiveUp, GivingUp, Settle, NoPlan,
        Go, stream, space, db, fixed, history
  <1>4. SpaceOK' BY DEF TypeOK, SpaceOK, GiveUp, GivingUp, Settle, NoPlan, Go,
        stream, space, db, fixed, history
  <1>5. CopiesOK' BY DEF TypeOK, CopiesOK, GiveUp, GivingUp, Settle, NoPlan,
        Go, stream, space, db, fixed, history, WorkerOK
  <1>6. PoolOK' BY DEF TypeOK, PoolOK, GiveUp, GivingUp, Settle, NoPlan, Go,
        stream, space, db, fixed, history
  <1> QED BY <1>1, <1>2, <1>3, <1>4, <1>5, <1>6 DEF TypeOK

LEMMA ReturnTypes == ASSUME TypeOK, Return PROVE TypeOK'
  <1>1. WorkerOK' BY DEF TypeOK, WorkerOK, Return, plan, stream, space, db,
        fixed, history, Busy
  <1>2. PlanOK' BY DEF TypeOK, PlanOK, Return, plan, stream, space, db, fixed,
        history, P
  <1>3. StreamOK' BY DEF TypeOK, StreamOK, Return, plan, stream, space, db,
        fixed, history
  <1>4. SpaceOK' BY DEF TypeOK, SpaceOK, Return, plan, stream, space, db,
        fixed, history
  <1>5. CopiesOK' BY DEF TypeOK, CopiesOK, Return, plan, stream, space, db,
        fixed, history
  <1>6. PoolOK' BY DEF TypeOK, PoolOK, Return, plan, stream, space, db, fixed,
        history
  <1> QED BY <1>1, <1>2, <1>3, <1>4, <1>5, <1>6 DEF TypeOK

LEMMA AlterTypes == ASSUME TypeOK, NEW f \in Files, Alter(f) PROVE TypeOK'
  <1>1. WorkerOK' BY DEF TypeOK, WorkerOK, Alter, Fault, plan, stream, space,
        db, pool, fixed, Busy
  <1>2. PlanOK' BY DEF TypeOK, PlanOK, Alter, Fault, plan, stream, space, db,
        pool, fixed, P
  <1>3. StreamOK' BY DEF TypeOK, StreamOK, Alter, Fault, plan, stream, space,
        db, pool, fixed
  <1>4. SpaceOK' BY DEF TypeOK, SpaceOK, Alter, Fault, plan, stream, space, db,
        pool, fixed
  <1>5. CopiesOK' BY DEF TypeOK, CopiesOK, Alter, Fault, plan, stream, space,
        db, pool, fixed, WorkerOK
  <1>6. PoolOK' BY DEF TypeOK, PoolOK, Alter, Fault, plan, stream, space, db,
        pool, fixed
  <1> QED BY <1>1, <1>2, <1>3, <1>4, <1>5, <1>6 DEF TypeOK

LEMMA TypeStep == TypeOK /\ [Next]_vars => TypeOK'
  <1> SUFFICES ASSUME TypeOK, [Next]_vars PROVE TypeOK'
    OBVIOUS
  <1>1. ASSUME NEW w \in Workers, Destination(w) PROVE TypeOK'
    BY <1>1, LookCachedTypes, AskTypes, FillTypes, ReserveTypes,
       FirstUnquotedTypes, RefuseTypes DEF Destination
  <1>2. ASSUME NEW w \in Workers, Worker(w) PROVE TypeOK'
    BY <1>1, <1>2, TakeTypes, NoMoreJobsTypes, OpenTypes, NoSourceLeftTypes,
       NextSourceTypes, CopiedTypes, RecordTypes, LogCopyTypes, RetryTypes,
       GiveUpTypes
       DEF Worker
  <1>3. ASSUME NEW w \in Workers, Download(w) PROVE TypeOK'
    BY <1>3, FlowTypes, DownloadEndsTypes, DownloadCutTypes DEF Download
  <1>4. ASSUME NEW w \in Workers, Upload(w) PROVE TypeOK'
    BY <1>4, UploadDoneTypes, UploadRefusedTypes DEF Upload
  <1>5. ASSUME NEW w \in Workers, Goes(w) PROVE TypeOK'
    BY <1>5, AskFailsTypes, NoFolderTypes, SkipTypes, DownloadFailsTypes,
       DownloadPanicsTypes, UploadReplyLostTypes, UploadFailsTypes,
       RecordFailsTypes, RolledBackTypes DEF Goes
  <1>6. CASE UNCHANGED vars
    BY <1>6 DEF vars, plan, stream, space, db, pool, fixed, history, TypeOK,
           WorkerOK, PlanOK, StreamOK, SpaceOK, CopiesOK, PoolOK, P
  <1> QED BY <1>2, <1>3, <1>4, <1>5, <1>6, ReturnTypes, AlterTypes DEF Next

LEMMA TypeInit == Init => TypeOK
  <1> SUFFICES ASSUME Init PROVE TypeOK OBVIOUS
  <1>1. WorkerOK BY DEF Init, WorkerOK, Busy
  <1>2. PlanOK BY DEF Init, PlanOK
  <1>3. StreamOK BY DEF Init, StreamOK
  <1>4. SpaceOK
    <2>1. used \in [Accounts -> Nat] /\ astray \in [Accounts -> Nat] BY DEF Init
    <2>2. CASE warm BY <2>1, <2>2 DEF Init, SpaceOK
    <2>3. CASE ~warm BY <2>1, <2>3 DEF Init, SpaceOK
    <2> QED BY <2>2, <2>3
  <1>5. CopiesOK BY DEF Init, CopiesOK
  <1>6. PoolOK
    <2>1. errs \in 0..ErrorRoom /\ faults \in 0..MaxFaults BY DEF Init
    <2>2. panicked \in BOOLEAN /\ warm \in BOOLEAN BY DEF Init
    <2>3. onError \in {"stop", "log"} /\ result \in {"none", "ok", "error"}
      BY DEF Init
    <2> QED BY <2>1, <2>2, <2>3 DEF PoolOK
  <1> QED BY <1>1, <1>2, <1>3, <1>4, <1>5, <1>6 DEF TypeOK

\* Every variable has its type in every state the pool can be in.
THEOREM TypeCorrect == Spec => []TypeOK
  <1> QED BY TypeInit, TypeStep, PTL DEF Spec

-----------------------------------------------------------------------------
Kept == WholeCopy /\ LogTrue
Safe == Carried /\ Held /\ Ended /\ Kept

LEMMA TakeSafe == ASSUME TypeOK, Safe, NEW w \in Workers, Take(w) PROVE Safe'
  <1>1. Carried' BY DEF Safe, Carried, Take, CopyFile, NoPlan, Go, stream,
        space, db, pool, fixed, history, TypeOK, WorkerOK, StreamOK, CopiesOK,
        PoolOK, Busy
  <1>2. Held'
    <2>1. PICK j \in left : left' = left \ {j} /\ job' = [job EXCEPT ![w] = j]
      BY DEF Take
    <2>2. outcome' = outcome BY DEF Take
    <2>3. job[w] = None BY DEF Take, TypeOK, WorkerOK, Busy
    <2>4. job \in [Workers -> Jobs \cup {None}] BY DEF TypeOK, WorkerOK
    <2>5. j \in Jobs BY <2>1 DEF TypeOK, CopiesOK
    <2> QED BY <2>1, <2>2, <2>3, <2>4, <2>5 DEF Safe, Held
  <1>3. Ended' BY DEF Safe, Ended, Take, CopyFile, NoPlan, Go, stream, space,
        db, pool, fixed, history, TypeOK, WorkerOK, StreamOK, CopiesOK, PoolOK,
        Busy
  <1>4. Kept' BY DEF Safe, Kept, Take, CopyFile, NoPlan, Go, stream, space, db,
        pool, fixed, history, WholeCopy, LogTrue
  <1> QED BY <1>1, <1>2, <1>3, <1>4 DEF Safe

LEMMA NoMoreJobsSafe == ASSUME TypeOK, Safe, NEW w \in Workers, NoMoreJobs(w) PROVE Safe'
  <1>1. Carried' BY DEF Safe, Carried, NoMoreJobs, Go, plan, stream, space, db,
        pool, fixed, history, TypeOK, WorkerOK, StreamOK, CopiesOK, PoolOK,
        Busy
  <1>2. Held' BY DEF Safe, Held, NoMoreJobs, Go, plan, stream, space, db, pool,
        fixed, history, TypeOK, WorkerOK, StreamOK, CopiesOK, PoolOK, Busy
  <1>3. Ended' BY DEF Safe, Ended, NoMoreJobs, Go, plan, stream, space, db,
        pool, fixed, history, TypeOK, WorkerOK, StreamOK, CopiesOK, PoolOK,
        Busy
  <1>4. Kept' BY DEF Safe, Kept, NoMoreJobs, Go, plan, stream, space, db, pool,
        fixed, history, WholeCopy, LogTrue
  <1> QED BY <1>1, <1>2, <1>3, <1>4 DEF Safe

LEMMA LookCachedSafe == ASSUME TypeOK, Safe, NEW w \in Workers, LookCached(w) PROVE Safe'
  <1>1. Carried' BY DEF Safe, Carried, LookCached, Looking, Consider, stream,
        space, db, pool, fixed, history, TypeOK, WorkerOK, StreamOK, CopiesOK,
        PoolOK, Busy
  <1>2. Held' BY DEF Safe, Held, LookCached, Looking, Consider, stream, space,
        db, pool, fixed, history, TypeOK, WorkerOK, StreamOK, CopiesOK, PoolOK,
        Busy
  <1>3. Ended' BY DEF Safe, Ended, LookCached, Looking, Consider, stream,
        space, db, pool, fixed, history, TypeOK, WorkerOK, StreamOK, CopiesOK,
        PoolOK, Busy
  <1>4. Kept' BY DEF Safe, Kept, LookCached, Looking, Consider, stream, space,
        db, pool, fixed, history, WholeCopy, LogTrue
  <1> QED BY <1>1, <1>2, <1>3, <1>4 DEF Safe

LEMMA AskSafe == ASSUME TypeOK, Safe, NEW w \in Workers, Ask(w) PROVE Safe'
  <1>1. Carried' BY DEF Safe, Carried, Ask, Looking, Go, stream, space, db,
        pool, fixed, history, TypeOK, WorkerOK, StreamOK, CopiesOK, PoolOK,
        Busy
  <1>2. Held' BY DEF Safe, Held, Ask, Looking, Go, stream, space, db, pool,
        fixed, history, TypeOK, WorkerOK, StreamOK, CopiesOK, PoolOK, Busy
  <1>3. Ended' BY DEF Safe, Ended, Ask, Looking, Go, stream, space, db, pool,
        fixed, history, TypeOK, WorkerOK, StreamOK, CopiesOK, PoolOK, Busy
  <1>4. Kept' BY DEF Safe, Kept, Ask, Looking, Go, stream, space, db, pool,
        fixed, history, WholeCopy, LogTrue
  <1> QED BY <1>1, <1>2, <1>3, <1>4 DEF Safe

LEMMA AskFailsSafe == ASSUME TypeOK, Safe, NEW w \in Workers, AskFails(w) PROVE Safe'
  <1>1. Carried' BY DEF Safe, Carried, AskFails, Looking, Fault, stream, space,
        db, pool, fixed, TypeOK, WorkerOK, StreamOK, CopiesOK, PoolOK, Busy
  <1>2. Held' BY DEF Safe, Held, AskFails, Looking, Fault, stream, space, db,
        pool, fixed, TypeOK, WorkerOK, StreamOK, CopiesOK, PoolOK, Busy
  <1>3. Ended' BY DEF Safe, Ended, AskFails, Looking, Fault, stream, space, db,
        pool, fixed, TypeOK, WorkerOK, StreamOK, CopiesOK, PoolOK, Busy
  <1>4. Kept' BY DEF Safe, Kept, AskFails, Looking, Fault, stream, space, db,
        pool, fixed, WholeCopy, LogTrue
  <1> QED BY <1>1, <1>2, <1>3, <1>4 DEF Safe

LEMMA FillSafe == ASSUME TypeOK, Safe, NEW w \in Workers, Fill(w) PROVE Safe'
  <1>1. Carried' BY DEF Safe, Carried, Fill, Consider, Go, stream, db, pool,
        fixed, history, TypeOK, WorkerOK, StreamOK, CopiesOK, PoolOK, Busy
  <1>2. Held' BY DEF Safe, Held, Fill, Consider, Go, stream, db, pool, fixed,
        history, TypeOK, WorkerOK, StreamOK, CopiesOK, PoolOK, Busy
  <1>3. Ended' BY DEF Safe, Ended, Fill, Consider, Go, stream, db, pool, fixed,
        history, TypeOK, WorkerOK, StreamOK, CopiesOK, PoolOK, Busy
  <1>4. Kept' BY DEF Safe, Kept, Fill, Consider, Go, stream, db, pool, fixed,
        history, WholeCopy, LogTrue
  <1> QED BY <1>1, <1>2, <1>3, <1>4 DEF Safe

LEMMA ReserveSafe == ASSUME TypeOK, Safe, NEW w \in Workers, Reserve(w) PROVE Safe'
  <1>1. Carried' BY DEF Safe, Carried, Reserve, Looked, Go, plan, stream, db,
        pool, fixed, history, TypeOK, WorkerOK, StreamOK, CopiesOK, PoolOK,
        Busy
  <1>2. Held' BY DEF Safe, Held, Reserve, Looked, Go, plan, stream, db, pool,
        fixed, history, TypeOK, WorkerOK, StreamOK, CopiesOK, PoolOK, Busy
  <1>3. Ended' BY DEF Safe, Ended, Reserve, Looked, Go, plan, stream, db, pool,
        fixed, history, TypeOK, WorkerOK, StreamOK, CopiesOK, PoolOK, Busy
  <1>4. Kept' BY DEF Safe, Kept, Reserve, Looked, Go, plan, stream, db, pool,
        fixed, history, WholeCopy, LogTrue
  <1> QED BY <1>1, <1>2, <1>3, <1>4 DEF Safe

LEMMA FirstUnquotedSafe == ASSUME TypeOK, Safe, NEW w \in Workers, FirstUnquoted(w) PROVE Safe'
  <1>1. Carried' BY DEF Safe, Carried, FirstUnquoted, Go, stream, space, db,
        pool, fixed, history, TypeOK, WorkerOK, StreamOK, CopiesOK, PoolOK,
        Busy
  <1>2. Held' BY DEF Safe, Held, FirstUnquoted, Go, stream, space, db, pool,
        fixed, history, TypeOK, WorkerOK, StreamOK, CopiesOK, PoolOK, Busy
  <1>3. Ended' BY DEF Safe, Ended, FirstUnquoted, Go, stream, space, db, pool,
        fixed, history, TypeOK, WorkerOK, StreamOK, CopiesOK, PoolOK, Busy
  <1>4. Kept' BY DEF Safe, Kept, FirstUnquoted, Go, stream, space, db, pool,
        fixed, history, WholeCopy, LogTrue
  <1> QED BY <1>1, <1>2, <1>3, <1>4 DEF Safe

LEMMA RefuseSafe == ASSUME TypeOK, Safe, NEW w \in Workers, Refuse(w) PROVE Safe'
  <1>1. Carried' BY DEF Safe, Carried, Refuse, Looked, Go, plan, stream, space,
        db, pool, fixed, history, TypeOK, WorkerOK, StreamOK, CopiesOK, PoolOK,
        Busy
  <1>2. Held' BY DEF Safe, Held, Refuse, Looked, Go, plan, stream, space, db,
        pool, fixed, history, TypeOK, WorkerOK, StreamOK, CopiesOK, PoolOK,
        Busy
  <1>3. Ended' BY DEF Safe, Ended, Refuse, Looked, Go, plan, stream, space, db,
        pool, fixed, history, TypeOK, WorkerOK, StreamOK, CopiesOK, PoolOK,
        Busy
  <1>4. Kept' BY DEF Safe, Kept, Refuse, Looked, Go, plan, stream, space, db,
        pool, fixed, history, WholeCopy, LogTrue
  <1> QED BY <1>1, <1>2, <1>3, <1>4 DEF Safe

LEMMA NoFolderSafe == ASSUME TypeOK, Safe, NEW w \in Workers, NoFolder(w) PROVE Safe'
  <1>1. Carried' BY DEF Safe, Carried, NoFolder, Go, Fault, plan, stream,
        space, db, pool, fixed, TypeOK, WorkerOK, StreamOK, CopiesOK, PoolOK,
        Busy
  <1>2. Held' BY DEF Safe, Held, NoFolder, Go, Fault, plan, stream, space, db,
        pool, fixed, TypeOK, WorkerOK, StreamOK, CopiesOK, PoolOK, Busy
  <1>3. Ended' BY DEF Safe, Ended, NoFolder, Go, Fault, plan, stream, space,
        db, pool, fixed, TypeOK, WorkerOK, StreamOK, CopiesOK, PoolOK, Busy
  <1>4. Kept' BY DEF Safe, Kept, NoFolder, Go, Fault, plan, stream, space, db,
        pool, fixed, WholeCopy, LogTrue
  <1> QED BY <1>1, <1>2, <1>3, <1>4 DEF Safe

LEMMA OpenSafe == ASSUME TypeOK, Safe, NEW w \in Workers, Open(w) PROVE Safe'
  <1>1. Carried' BY DEF Safe, Carried, Open, Ready, Go, plan, space, db, pool,
        fixed, history, TypeOK, WorkerOK, StreamOK, CopiesOK, PoolOK, Busy
  <1>2. Held' BY DEF Safe, Held, Open, Ready, Go, plan, space, db, pool, fixed,
        history, TypeOK, WorkerOK, StreamOK, CopiesOK, PoolOK, Busy
  <1>3. Ended' BY DEF Safe, Ended, Open, Ready, Go, plan, space, db, pool,
        fixed, history, TypeOK, WorkerOK, StreamOK, CopiesOK, PoolOK, Busy
  <1>4. Kept' BY DEF Safe, Kept, Open, Ready, Go, plan, space, db, pool, fixed,
        history, WholeCopy, LogTrue
  <1> QED BY <1>1, <1>2, <1>3, <1>4 DEF Safe

LEMMA SkipSafe == ASSUME TypeOK, Safe, NEW w \in Workers, Skip(w) PROVE Safe'
  <1>1. Carried' BY DEF Safe, Carried, Skip, Ready, Go, Fault, plan, stream,
        space, db, pool, fixed, TypeOK, WorkerOK, StreamOK, CopiesOK, PoolOK,
        Busy
  <1>2. Held' BY DEF Safe, Held, Skip, Ready, Go, Fault, plan, stream, space,
        db, pool, fixed, TypeOK, WorkerOK, StreamOK, CopiesOK, PoolOK, Busy
  <1>3. Ended' BY DEF Safe, Ended, Skip, Ready, Go, Fault, plan, stream, space,
        db, pool, fixed, TypeOK, WorkerOK, StreamOK, CopiesOK, PoolOK, Busy
  <1>4. Kept' BY DEF Safe, Kept, Skip, Ready, Go, Fault, plan, stream, space,
        db, pool, fixed, WholeCopy, LogTrue
  <1> QED BY <1>1, <1>2, <1>3, <1>4 DEF Safe

LEMMA NoSourceLeftSafe == ASSUME TypeOK, Safe, NEW w \in Workers, NoSourceLeft(w) PROVE Safe'
  <1>1. Carried' BY DEF Safe, Carried, NoSourceLeft, Go, plan, stream, space,
        db, pool, fixed, history, TypeOK, WorkerOK, StreamOK, CopiesOK, PoolOK,
        Busy
  <1>2. Held' BY DEF Safe, Held, NoSourceLeft, Go, plan, stream, space, db,
        pool, fixed, history, TypeOK, WorkerOK, StreamOK, CopiesOK, PoolOK,
        Busy
  <1>3. Ended' BY DEF Safe, Ended, NoSourceLeft, Go, plan, stream, space, db,
        pool, fixed, history, TypeOK, WorkerOK, StreamOK, CopiesOK, PoolOK,
        Busy
  <1>4. Kept' BY DEF Safe, Kept, NoSourceLeft, Go, plan, stream, space, db,
        pool, fixed, history, WholeCopy, LogTrue
  <1> QED BY <1>1, <1>2, <1>3, <1>4 DEF Safe

LEMMA FlowSafe == ASSUME TypeOK, Safe, NEW w \in Workers, Flow(w) PROVE Safe'
  <1>1. Carried' BY DEF Safe, Carried, Flow, Rest, plan, space, db, pool,
        fixed, history, TypeOK, WorkerOK, StreamOK, CopiesOK, PoolOK, Busy
  <1>2. Held' BY DEF Safe, Held, Flow, Rest, plan, space, db, pool, fixed,
        history, TypeOK, WorkerOK, StreamOK, CopiesOK, PoolOK, Busy
  <1>3. Ended' BY DEF Safe, Ended, Flow, Rest, plan, space, db, pool, fixed,
        history, TypeOK, WorkerOK, StreamOK, CopiesOK, PoolOK, Busy
  <1>4. Kept' BY DEF Safe, Kept, Flow, Rest, plan, space, db, pool, fixed,
        history, WholeCopy, LogTrue
  <1> QED BY <1>1, <1>2, <1>3, <1>4 DEF Safe

LEMMA DownloadEndsSafe == ASSUME TypeOK, Safe, NEW w \in Workers, DownloadEnds(w) PROVE Safe'
  <1>1. Carried' BY DEF Safe, Carried, DownloadEnds, Rest, plan, space, db,
        pool, fixed, history, TypeOK, WorkerOK, StreamOK, CopiesOK, PoolOK,
        Busy
  <1>2. Held' BY DEF Safe, Held, DownloadEnds, Rest, plan, space, db, pool,
        fixed, history, TypeOK, WorkerOK, StreamOK, CopiesOK, PoolOK, Busy
  <1>3. Ended' BY DEF Safe, Ended, DownloadEnds, Rest, plan, space, db, pool,
        fixed, history, TypeOK, WorkerOK, StreamOK, CopiesOK, PoolOK, Busy
  <1>4. Kept' BY DEF Safe, Kept, DownloadEnds, Rest, plan, space, db, pool,
        fixed, history, WholeCopy, LogTrue
  <1> QED BY <1>1, <1>2, <1>3, <1>4 DEF Safe

LEMMA DownloadFailsSafe == ASSUME TypeOK, Safe, NEW w \in Workers, DownloadFails(w) PROVE Safe'
  <1>1. Carried' BY DEF Safe, Carried, DownloadFails, Rest, Fault, plan, space,
        db, pool, fixed, TypeOK, WorkerOK, StreamOK, CopiesOK, PoolOK, Busy
  <1>2. Held' BY DEF Safe, Held, DownloadFails, Rest, Fault, plan, space, db,
        pool, fixed, TypeOK, WorkerOK, StreamOK, CopiesOK, PoolOK, Busy
  <1>3. Ended' BY DEF Safe, Ended, DownloadFails, Rest, Fault, plan, space, db,
        pool, fixed, TypeOK, WorkerOK, StreamOK, CopiesOK, PoolOK, Busy
  <1>4. Kept' BY DEF Safe, Kept, DownloadFails, Rest, Fault, plan, space, db,
        pool, fixed, WholeCopy, LogTrue
  <1> QED BY <1>1, <1>2, <1>3, <1>4 DEF Safe

LEMMA DownloadPanicsSafe == ASSUME TypeOK, Safe, NEW w \in Workers, DownloadPanics(w) PROVE Safe'
  <1>1. Carried' BY DEF Safe, Carried, DownloadPanics, Rest, Fault, plan,
        space, db, pool, fixed, TypeOK, WorkerOK, StreamOK, CopiesOK, PoolOK,
        Busy
  <1>2. Held' BY DEF Safe, Held, DownloadPanics, Rest, Fault, plan, space, db,
        pool, fixed, TypeOK, WorkerOK, StreamOK, CopiesOK, PoolOK, Busy
  <1>3. Ended' BY DEF Safe, Ended, DownloadPanics, Rest, Fault, plan, space,
        db, pool, fixed, TypeOK, WorkerOK, StreamOK, CopiesOK, PoolOK, Busy
  <1>4. Kept' BY DEF Safe, Kept, DownloadPanics, Rest, Fault, plan, space, db,
        pool, fixed, WholeCopy, LogTrue
  <1> QED BY <1>1, <1>2, <1>3, <1>4 DEF Safe

LEMMA DownloadCutSafe == ASSUME TypeOK, Safe, NEW w \in Workers, DownloadCut(w) PROVE Safe'
  <1>1. Carried' BY DEF Safe, Carried, DownloadCut, Rest, plan, space, db,
        pool, fixed, history, TypeOK, WorkerOK, StreamOK, CopiesOK, PoolOK,
        Busy
  <1>2. Held' BY DEF Safe, Held, DownloadCut, Rest, plan, space, db, pool,
        fixed, history, TypeOK, WorkerOK, StreamOK, CopiesOK, PoolOK, Busy
  <1>3. Ended' BY DEF Safe, Ended, DownloadCut, Rest, plan, space, db, pool,
        fixed, history, TypeOK, WorkerOK, StreamOK, CopiesOK, PoolOK, Busy
  <1>4. Kept' BY DEF Safe, Kept, DownloadCut, Rest, plan, space, db, pool,
        fixed, history, WholeCopy, LogTrue
  <1> QED BY <1>1, <1>2, <1>3, <1>4 DEF Safe

LEMMA UploadDoneSafe == ASSUME TypeOK, Safe, NEW w \in Workers, UploadDone(w) PROVE Safe'
  <1>1. Carried' BY DEF Safe, Carried, UploadDone, Uploaded, Stored, Complete,
        HasRoom, Go, plan, db, pool, fixed, history, TypeOK, WorkerOK,
        StreamOK, CopiesOK, PoolOK, Busy
  <1>2. Held' BY DEF Safe, Held, UploadDone, Uploaded, Stored, Complete,
        HasRoom, Go, plan, db, pool, fixed, history, TypeOK, WorkerOK,
        StreamOK, CopiesOK, PoolOK, Busy
  <1>3. Ended' BY DEF Safe, Ended, UploadDone, Uploaded, Stored, Complete,
        HasRoom, Go, plan, db, pool, fixed, history, TypeOK, WorkerOK,
        StreamOK, CopiesOK, PoolOK, Busy
  <1>4. Kept' BY DEF Safe, Kept, UploadDone, Uploaded, Stored, Complete,
        HasRoom, Go, plan, db, pool, fixed, history, TypeOK, WorkerOK,
        StreamOK, CopiesOK, PoolOK, Busy, WholeCopy, LogTrue
  <1> QED BY <1>1, <1>2, <1>3, <1>4 DEF Safe

LEMMA UploadReplyLostSafe == ASSUME TypeOK, Safe, NEW w \in Workers, UploadReplyLost(w) PROVE Safe'
  <1>1. Carried' BY DEF Safe, Carried, UploadReplyLost, Uploaded, Stored,
        Complete, HasRoom, Go, Fault, plan, db, pool, fixed, TypeOK, WorkerOK,
        StreamOK, CopiesOK, PoolOK, Busy
  <1>2. Held' BY DEF Safe, Held, UploadReplyLost, Uploaded, Stored, Complete,
        HasRoom, Go, Fault, plan, db, pool, fixed, TypeOK, WorkerOK, StreamOK,
        CopiesOK, PoolOK, Busy
  <1>3. Ended' BY DEF Safe, Ended, UploadReplyLost, Uploaded, Stored, Complete,
        HasRoom, Go, Fault, plan, db, pool, fixed, TypeOK, WorkerOK, StreamOK,
        CopiesOK, PoolOK, Busy
  <1>4. Kept' BY DEF Safe, Kept, UploadReplyLost, Uploaded, Stored, Complete,
        HasRoom, Go, Fault, plan, db, pool, fixed, TypeOK, WorkerOK, StreamOK,
        CopiesOK, PoolOK, Busy, WholeCopy, LogTrue
  <1> QED BY <1>1, <1>2, <1>3, <1>4 DEF Safe

LEMMA UploadFailsSafe == ASSUME TypeOK, Safe, NEW w \in Workers, UploadFails(w) PROVE Safe'
  <1>1. Carried' BY DEF Safe, Carried, UploadFails, Uploaded, Go, Fault, plan,
        space, db, pool, fixed, TypeOK, WorkerOK, StreamOK, CopiesOK, PoolOK,
        Busy
  <1>2. Held' BY DEF Safe, Held, UploadFails, Uploaded, Go, Fault, plan, space,
        db, pool, fixed, TypeOK, WorkerOK, StreamOK, CopiesOK, PoolOK, Busy
  <1>3. Ended' BY DEF Safe, Ended, UploadFails, Uploaded, Go, Fault, plan,
        space, db, pool, fixed, TypeOK, WorkerOK, StreamOK, CopiesOK, PoolOK,
        Busy
  <1>4. Kept' BY DEF Safe, Kept, UploadFails, Uploaded, Go, Fault, plan, space,
        db, pool, fixed, WholeCopy, LogTrue
  <1> QED BY <1>1, <1>2, <1>3, <1>4 DEF Safe

LEMMA UploadRefusedSafe == ASSUME TypeOK, Safe, NEW w \in Workers, UploadRefused(w) PROVE Safe'
  <1>1. Carried' BY DEF Safe, Carried, UploadRefused, Uploaded, Go, plan,
        space, db, pool, fixed, history, TypeOK, WorkerOK, StreamOK, CopiesOK,
        PoolOK, Busy
  <1>2. Held' BY DEF Safe, Held, UploadRefused, Uploaded, Go, plan, space, db,
        pool, fixed, history, TypeOK, WorkerOK, StreamOK, CopiesOK, PoolOK,
        Busy
  <1>3. Ended' BY DEF Safe, Ended, UploadRefused, Uploaded, Go, plan, space,
        db, pool, fixed, history, TypeOK, WorkerOK, StreamOK, CopiesOK, PoolOK,
        Busy
  <1>4. Kept' BY DEF Safe, Kept, UploadRefused, Uploaded, Go, plan, space, db,
        pool, fixed, history, WholeCopy, LogTrue
  <1> QED BY <1>1, <1>2, <1>3, <1>4 DEF Safe

LEMMA NextSourceSafe == ASSUME TypeOK, Safe, NEW w \in Workers, NextSource(w) PROVE Safe'
  <1>1. Carried' BY DEF Safe, Carried, NextSource, Awaiting, Over, Go, plan,
        db, pool, fixed, history, TypeOK, WorkerOK, StreamOK, CopiesOK, PoolOK,
        Busy
  <1>2. Held' BY DEF Safe, Held, NextSource, Awaiting, Over, Go, plan, db,
        pool, fixed, history, TypeOK, WorkerOK, StreamOK, CopiesOK, PoolOK,
        Busy
  <1>3. Ended' BY DEF Safe, Ended, NextSource, Awaiting, Over, Go, plan, db,
        pool, fixed, history, TypeOK, WorkerOK, StreamOK, CopiesOK, PoolOK,
        Busy
  <1>4. Kept' BY DEF Safe, Kept, NextSource, Awaiting, Over, Go, plan, db,
        pool, fixed, history, WholeCopy, LogTrue
  <1> QED BY <1>1, <1>2, <1>3, <1>4 DEF Safe

LEMMA CopiedSafe == ASSUME TypeOK, Safe, NEW w \in Workers, Copied(w) PROVE Safe'
  <1>1. Carried' BY DEF Safe, Carried, Copied, Awaiting, Over, Go, plan, space,
        db, pool, fixed, history, TypeOK, WorkerOK, StreamOK, CopiesOK, PoolOK,
        Busy
  <1>2. Held' BY DEF Safe, Held, Copied, Awaiting, Over, Go, plan, space, db,
        pool, fixed, history, TypeOK, WorkerOK, StreamOK, CopiesOK, PoolOK,
        Busy
  <1>3. Ended' BY DEF Safe, Ended, Copied, Awaiting, Over, Go, plan, space, db,
        pool, fixed, history, TypeOK, WorkerOK, StreamOK, CopiesOK, PoolOK,
        Busy
  <1>4. Kept' BY DEF Safe, Kept, Copied, Awaiting, Over, Go, plan, space, db,
        pool, fixed, history, WholeCopy, LogTrue
  <1> QED BY <1>1, <1>2, <1>3, <1>4 DEF Safe

LEMMA RecordSafe == ASSUME TypeOK, Safe, NEW w \in Workers, Record(w) PROVE Safe'
  <1>1. Carried' BY DEF Safe, Carried, Record, Go, plan, stream, space, pool,
        fixed, history, TypeOK, WorkerOK, StreamOK, CopiesOK, PoolOK, Busy
  <1>2. Held' BY DEF Safe, Held, Record, Go, plan, stream, space, pool, fixed,
        history, TypeOK, WorkerOK, StreamOK, CopiesOK, PoolOK, Busy
  <1>3. Ended' BY DEF Safe, Ended, Record, Go, plan, stream, space, pool,
        fixed, history, TypeOK, WorkerOK, StreamOK, CopiesOK, PoolOK, Busy
  <1>4. Kept'
    <2>1. job[w] \in whole \cup altered BY DEF Safe, Carried, Record
    <2> QED BY <2>1 DEF Safe, Kept, WholeCopy, LogTrue, Record, db, history
  <1> QED BY <1>1, <1>2, <1>3, <1>4 DEF Safe

LEMMA RolledBackSafe == ASSUME TypeOK, Safe, NEW w \in Workers, RolledBack(w) PROVE Safe'
  <1>1. Carried' BY DEF Safe, Carried, RolledBack, Go, Fault, plan, stream,
        space, db, pool, fixed, TypeOK, WorkerOK, StreamOK, CopiesOK, PoolOK,
        Busy
  <1>2. Held' BY DEF Safe, Held, RolledBack, Go, Fault, plan, stream, space, db,
        pool, fixed, TypeOK, WorkerOK, StreamOK, CopiesOK, PoolOK, Busy
  <1>3. Ended' BY DEF Safe, Ended, RolledBack, Go, Fault, plan, stream, space,
        db, pool, fixed, TypeOK, WorkerOK, StreamOK, CopiesOK, PoolOK, Busy
  <1>4. Kept' BY DEF Safe, Kept, RolledBack, Go, Fault, plan, stream, space, db,
        pool, fixed, WholeCopy, LogTrue
  <1> QED BY <1>1, <1>2, <1>3, <1>4 DEF Safe

LEMMA RecordFailsSafe == ASSUME TypeOK, Safe, NEW w \in Workers, RecordFails(w) PROVE Safe'
  <1>1. Carried' BY DEF Safe, Carried, RecordFails, Settle, NoPlan, Go, Fault,
        stream, space, db, pool, fixed, TypeOK, WorkerOK, StreamOK, CopiesOK,
        PoolOK, Busy
  <1>2. Held' BY DEF Safe, Held, RecordFails, Settle, NoPlan, Go, Fault,
        stream, space, db, pool, fixed, TypeOK, WorkerOK, StreamOK, CopiesOK,
        PoolOK, Busy
  <1>3. Ended' BY DEF Safe, Ended, RecordFails, Settle, NoPlan, Go, Fault,
        stream, space, db, pool, fixed, TypeOK, WorkerOK, StreamOK, CopiesOK,
        PoolOK, Busy
  <1>4. Kept' BY DEF Safe, Kept, RecordFails, Settle, NoPlan, Go, Fault,
        stream, space, db, pool, fixed, WholeCopy, LogTrue
  <1> QED BY <1>1, <1>2, <1>3, <1>4 DEF Safe

LEMMA LogCopySafe == ASSUME TypeOK, Safe, NEW w \in Workers, LogCopy(w) PROVE Safe'
  <1>1. Carried' BY DEF Safe, Carried, LogCopy, Settle, NoPlan, Go, Fault,
        stream, space, pool, fixed, TypeOK, WorkerOK, StreamOK, CopiesOK,
        PoolOK, Busy
  <1>2. Held' BY DEF Safe, Held, LogCopy, Settle, NoPlan, Go, Fault, stream,
        space, pool, fixed, TypeOK, WorkerOK, StreamOK, CopiesOK, PoolOK, Busy
  <1>3. Ended' BY DEF Safe, Ended, LogCopy, Settle, NoPlan, Go, Fault, stream,
        space, pool, fixed, TypeOK, WorkerOK, StreamOK, CopiesOK, PoolOK, Busy
  <1>4. Kept'
    <2>1. job[w] \in whole \cup altered BY DEF Safe, Carried, LogCopy
    <2> QED BY <2>1 DEF Safe, Kept, WholeCopy, LogTrue, LogCopy, history
  <1> QED BY <1>1, <1>2, <1>3, <1>4 DEF Safe

LEMMA RetrySafe == ASSUME TypeOK, Safe, NEW w \in Workers, Retry(w) PROVE Safe'
  <1>1. Carried' BY DEF Safe, Carried, Retry, CopyFile, NoPlan, Go, stream,
        space, db, pool, fixed, history, TypeOK, WorkerOK, StreamOK, CopiesOK,
        PoolOK, Busy
  <1>2. Held' BY DEF Safe, Held, Retry, CopyFile, NoPlan, Go, stream, space,
        db, pool, fixed, history, TypeOK, WorkerOK, StreamOK, CopiesOK, PoolOK,
        Busy
  <1>3. Ended' BY DEF Safe, Ended, Retry, CopyFile, NoPlan, Go, stream, space,
        db, pool, fixed, history, TypeOK, WorkerOK, StreamOK, CopiesOK, PoolOK,
        Busy
  <1>4. Kept' BY DEF Safe, Kept, Retry, CopyFile, NoPlan, Go, stream, space,
        db, pool, fixed, history, WholeCopy, LogTrue
  <1> QED BY <1>1, <1>2, <1>3, <1>4 DEF Safe

LEMMA GiveUpSafe == ASSUME TypeOK, Safe, NEW w \in Workers, GiveUp(w) PROVE Safe'
  <1>1. Carried' BY DEF Safe, Carried, GiveUp, GivingUp, Settle, NoPlan, Go,
        stream, space, db, fixed, history, TypeOK, WorkerOK, StreamOK,
        CopiesOK, PoolOK, Busy
  <1>2. Held' BY DEF Safe, Held, GiveUp, GivingUp, Settle, NoPlan, Go, stream,
        space, db, fixed, history, TypeOK, WorkerOK, StreamOK, CopiesOK,
        PoolOK, Busy
  <1>3. Ended'
    <2>1. UNCHANGED <<left, result, onError>> BY DEF GiveUp, GivingUp, fixed
    <2>2. pc[w] # "ended" /\ result = "none"
      BY DEF GiveUp, GivingUp, Safe, Ended, TypeOK, PoolOK
    <2>3. errs \in Nat BY DEF TypeOK, PoolOK
    <2>4. CASE onError = "stop"
      <3>1. errs' = errs + 1 /\ pc' = [pc EXCEPT ![w] = "ended"]
        BY <2>4 DEF GiveUp, Go
      <3> QED BY <2>1, <2>2, <2>3, <2>4, <3>1 DEF Safe, Ended
    <2>5. CASE onError # "stop"
      <3>1. errs' = errs /\ pc' = [pc EXCEPT ![w] = "idle"]
        BY <2>5 DEF GiveUp, Go
      <3> QED BY <2>1, <2>2, <3>1 DEF Safe, Ended, TypeOK, WorkerOK
    <2> QED BY <2>4, <2>5
  <1>4. Kept' BY DEF Safe, Kept, GiveUp, GivingUp, Settle, NoPlan, Go, stream,
        space, db, fixed, history, WholeCopy, LogTrue
  <1> QED BY <1>1, <1>2, <1>3, <1>4 DEF Safe

LEMMA ReturnSafe == ASSUME TypeOK, Safe, Return PROVE Safe'
  <1>1. Carried' BY DEF Safe, Carried, Return, plan, stream, space, db, fixed,
        history, TypeOK, WorkerOK, StreamOK, CopiesOK, PoolOK, Busy
  <1>2. Held' BY DEF Safe, Held, Return, plan, stream, space, db, fixed,
        history, TypeOK, WorkerOK, StreamOK, CopiesOK, PoolOK, Busy
  <1>3. Ended' BY DEF Safe, Ended, Return, plan, stream, space, db, fixed,
        history, TypeOK, WorkerOK, StreamOK, CopiesOK, PoolOK, Busy
  <1>4. Kept' BY DEF Safe, Kept, Return, plan, stream, space, db, fixed,
        history, WholeCopy, LogTrue
  <1> QED BY <1>1, <1>2, <1>3, <1>4 DEF Safe

LEMMA AlterSafe == ASSUME TypeOK, Safe, NEW f \in Files, Alter(f) PROVE Safe'
  <1>1. Carried' BY DEF Safe, Carried, Alter, Fault, plan, stream, space, db,
        pool, fixed, TypeOK, WorkerOK, StreamOK, CopiesOK, PoolOK, Busy
  <1>2. Held' BY DEF Safe, Held, Alter, Fault, plan, stream, space, db, pool,
        fixed, TypeOK, WorkerOK, StreamOK, CopiesOK, PoolOK, Busy
  <1>3. Ended' BY DEF Safe, Ended, Alter, Fault, plan, stream, space, db, pool,
        fixed, TypeOK, WorkerOK, StreamOK, CopiesOK, PoolOK, Busy
  <1>4. Kept' BY DEF Safe, Kept, Alter, Fault, plan, stream, space, db, pool,
        fixed, TypeOK, WorkerOK, StreamOK, CopiesOK, PoolOK, Busy, WholeCopy,
        LogTrue
  <1> QED BY <1>1, <1>2, <1>3, <1>4 DEF Safe

LEMMA SafeStep == TypeOK /\ Safe /\ [Next]_vars => Safe'
  <1> SUFFICES ASSUME TypeOK, Safe, [Next]_vars PROVE Safe'
    OBVIOUS
  <1>1. ASSUME NEW w \in Workers, Destination(w) PROVE Safe'
    BY <1>1, LookCachedSafe, AskSafe, FillSafe, ReserveSafe, FirstUnquotedSafe,
       RefuseSafe DEF Destination
  <1>2. ASSUME NEW w \in Workers, Worker(w) PROVE Safe'
    BY <1>1, <1>2, TakeSafe, NoMoreJobsSafe, OpenSafe, NoSourceLeftSafe,
       NextSourceSafe, CopiedSafe, RecordSafe, LogCopySafe, RetrySafe,
       GiveUpSafe
       DEF Worker
  <1>3. ASSUME NEW w \in Workers, Download(w) PROVE Safe'
    BY <1>3, FlowSafe, DownloadEndsSafe, DownloadCutSafe DEF Download
  <1>4. ASSUME NEW w \in Workers, Upload(w) PROVE Safe'
    BY <1>4, UploadDoneSafe, UploadRefusedSafe DEF Upload
  <1>5. ASSUME NEW w \in Workers, Goes(w) PROVE Safe'
    BY <1>5, AskFailsSafe, NoFolderSafe, SkipSafe, DownloadFailsSafe,
       DownloadPanicsSafe, UploadReplyLostSafe, UploadFailsSafe,
       RecordFailsSafe, RolledBackSafe DEF Goes
  <1>6. CASE UNCHANGED vars
    BY <1>6 DEF vars, plan, stream, space, db, pool, fixed, history, Safe,
           Carried, Held, Ended, Kept, WholeCopy, LogTrue
  <1> QED BY <1>2, <1>3, <1>4, <1>5, <1>6, ReturnSafe, AlterSafe DEF Next

-----------------------------------------------------------------------------
\* A sum is the number of pairs of a worker and a unit of what it has in hand.
Units(f, ws) == UNION {{w} \X (1..f[w]) : w \in ws}

LEMMA UnitsFinite ==
    ASSUME NEW f \in [Workers -> Nat], NEW ws \in SUBSET Workers
    PROVE  IsFiniteSet(Units(f, ws)) /\ SumOver(f, ws) \in Nat
  <1> DEFINE h == [w \in ws |-> {w} \X (1..f[w])]
             T == {{w} \X (1..f[w]) : w \in ws}
  <1>1. IsFiniteSet(Workers) BY QuotaAssumption
  <1>2. IsFiniteSet(ws) BY <1>1, FS_Subset
  <1>3. h \in Surjection(ws, T) BY DEF Surjection
  <1>4. IsFiniteSet(T) BY <1>2, <1>3, FS_Surjection
  <1>5. ASSUME NEW t \in T PROVE IsFiniteSet(t)
    <2>1. PICK w \in ws : t = {w} \X (1..f[w]) BY <1>5
    <2>2. f[w] \in Nat OBVIOUS
    <2>3. IsFiniteSet(1..f[w]) BY <2>2, FS_Interval
    <2>4. IsFiniteSet({w}) BY FS_Singleton
    <2> QED BY <2>1, <2>3, <2>4, FS_Product
  <1>6. IsFiniteSet(UNION T) BY <1>4, <1>5, FS_UNION
  <1> QED BY <1>6, FS_CardinalityType DEF SumOver, Units

\* One worker more makes it more by what that worker has.
LEMMA SumAdd ==
    ASSUME NEW f \in [Workers -> Nat], NEW ws \in SUBSET Workers,
           NEW w \in Workers \ ws
    PROVE  SumOver(f, ws \cup {w}) = SumOver(f, ws) + f[w]
  <1> DEFINE A == Units(f, ws)
             B == {w} \X (1..f[w])
  <1>1. f[w] \in Nat OBVIOUS
  <1>2. IsFiniteSet(A) BY UnitsFinite
  <1>3. IsFiniteSet(1..f[w]) /\ Cardinality(1..f[w]) = f[w] BY <1>1, FS_Interval
  <1>4. IsFiniteSet({w}) /\ Cardinality({w}) = 1 BY FS_Singleton
  <1>5. IsFiniteSet(B) /\ Cardinality(B) = f[w]
    <2>1. /\ IsFiniteSet({w} \X (1..f[w]))
          /\ Cardinality({w} \X (1..f[w])) = Cardinality({w}) * Cardinality(1..f[w])
      BY <1>3, <1>4, FS_Product
    <2>2. Cardinality({w}) * Cardinality(1..f[w]) = f[w] BY <1>1, <1>3, <1>4
    <2> QED BY <2>1, <2>2
  <1>6. A \cap B = {} BY DEF Units
  <1>7. Units(f, ws \cup {w}) = A \cup B BY DEF Units
  <1>8. Cardinality(A \cup B) = Cardinality(A) + Cardinality(B) - Cardinality(A \cap B)
    BY <1>2, <1>5, FS_Union
  <1>9. Cardinality(A \cap B) = 0 BY <1>6, FS_EmptySet
  <1>10. Cardinality(A) \in Nat BY <1>2, FS_CardinalityType
  <1>11. Cardinality(A \cup B) = Cardinality(A) + f[w]
    BY <1>1, <1>5, <1>8, <1>9, <1>10
  <1> QED BY <1>7, <1>11 DEF SumOver, Units

\* Fewer workers with the same in hand do not have more.
LEMMA SumLess ==
    ASSUME NEW f \in [Workers -> Nat], NEW g \in [Workers -> Nat],
           NEW ws \in SUBSET Workers, NEW vs \in SUBSET ws,
           \A w \in vs : f[w] = g[w]
    PROVE  SumOver(f, vs) <= SumOver(g, ws)
  <1>1. Units(f, vs) \subseteq Units(g, ws) BY DEF Units
  <1>2. IsFiniteSet(Units(g, ws)) BY UnitsFinite
  <1>3. Cardinality(Units(f, vs)) <= Cardinality(Units(g, ws)) BY <1>1, <1>2, FS_Subset
  <1> QED BY <1>3 DEF SumOver, Units

\* Workers that have no more than n each.
LEMMA SumBound ==
    ASSUME NEW f \in [Workers -> Nat], NEW ws \in SUBSET Workers, NEW vs \in SUBSET ws,
           NEW n \in Nat, \A w \in vs : f[w] <= n
    PROVE  SumOver(f, vs) <= Cardinality(ws) * n
  <1>1. IsFiniteSet(Workers) BY QuotaAssumption
  <1>2. IsFiniteSet(ws) BY <1>1, FS_Subset
  <1>3. IsFiniteSet(1..n) /\ Cardinality(1..n) = n BY FS_Interval
  <1>4. IsFiniteSet(ws \X (1..n)) /\ Cardinality(ws \X (1..n)) = Cardinality(ws) * n
    BY <1>2, <1>3, FS_Product
  <1>5. Units(f, vs) \subseteq ws \X (1..n)
    <2> SUFFICES ASSUME NEW w \in vs, NEW i \in 1..f[w] PROVE i \in 1..n
      BY DEF Units
    <2>1. f[w] \in Nat /\ f[w] <= n OBVIOUS
    <2> QED BY <2>1
  <1>6. Cardinality(Units(f, vs)) <= Cardinality(ws \X (1..n)) BY <1>4, <1>5, FS_Subset
  <1> QED BY <1>4, <1>6 DEF SumOver, Units

-----------------------------------------------------------------------------
LEMMA ClaimTyped ==
    ASSUME TypeOK
    PROVE  /\ Claim \in [Workers -> Nat]
           /\ \A w \in Workers : pc[w] \in Busy => Claim[w] = Sz(w)
  <1>1. ASSUME NEW w \in Workers, job[w] # None PROVE Sz(w) \in Nat
    <2>1. job[w] \in Jobs BY <1>1 DEF TypeOK, WorkerOK
    <2> QED BY <2>1 DEF Sz, F
  <1>2. \A w \in Workers : pc[w] \in Busy => job[w] # None BY DEF TypeOK, WorkerOK
  <1> QED BY <1>1, <1>2 DEF Claim

LEMMA ClaimTypedNext ==
    ASSUME TypeOK'
    PROVE  Claim' \in [Workers -> Nat]
  <1>1. ASSUME NEW w \in Workers, job'[w] # None PROVE Sz(w)' \in Nat
    <2>1. job'[w] \in Jobs BY <1>1 DEF TypeOK, WorkerOK
    <2> QED BY <2>1 DEF Sz, F
  <1> QED BY <1>1 DEF Claim

LEMMA LoadTyped ==
    ASSUME TypeOK, NEW ws \in SUBSET Workers
    PROVE  Load(ws) \in Nat
  BY ClaimTyped, UnitsFinite DEF Load

\* A worker has nothing new in hand, and is about to reserve nothing new.
AsBefore(v) == best'[v] = best[v] /\ job'[v] = job[v]
NothingNew(v) ==
    /\ pc'[v] = "fill" => pc[v] = "fill"
    /\ Promised(v)' => best'[v] \notin Quoted \/ (Promised(v) /\ AsBefore(v))
    /\ pc'[v] = "look" => best'[v] = None \/ (pc[v] = "look" /\ AsBefore(v))

\* The room of an account that is asked for its quota.
LEMMA QuotedAccount ==
    ASSUME NEW a \in Quoted
    PROVE  a \in Accounts /\ a # None
  BY DEF Quoted

LEMMA SameClaim ==
    ASSUME NEW v \in Workers, AsBefore(v)
    PROVE  Claim'[v] = Claim[v]
  BY DEF AsBefore, Claim, Sz, F

LEMMA AheadStays ==
    ASSUME TypeOK, TypeOK', Ahead, UNCHANGED space, \A v \in Workers : NothingNew(v),
           \A a \in Accounts : cached[a] # None
    PROVE  Ahead'
  <1> SUFFICES ASSUME NEW a \in Quoted
               PROVE  used'[a] + Load(Promises(a))' <= cached'[a] + astray'[a]
    BY DEF Ahead
  <1>1. Promises(a)' \subseteq Promises(a) BY DEF Promises, NothingNew, AsBefore
  <1>2. \A v \in Promises(a)' : Claim'[v] = Claim[v]
    BY SameClaim DEF Promises, NothingNew
  <1>3. Promises(a) \in SUBSET Workers BY DEF Promises
  <1>4. Claim \in [Workers -> Nat] /\ Claim' \in [Workers -> Nat] BY ClaimTyped, ClaimTypedNext
  <1>5. SumOver(Claim', Promises(a)') <= SumOver(Claim, Promises(a))
    BY <1>1, <1>2, <1>3, <1>4, SumLess
  <1>6. /\ SumOver(Claim', Promises(a)') \in Nat
        /\ SumOver(Claim, Promises(a)) \in Nat
    BY <1>1, <1>3, <1>4, UnitsFinite
  <1>7. used[a] \in Nat /\ cached[a] \in Nat /\ astray[a] \in Nat
    BY QuotedAccount DEF TypeOK, SpaceOK
  <1>8. used[a] + SumOver(Claim, Promises(a)) <= cached[a] + astray[a]
    BY DEF Ahead, Load
  <1> QED BY <1>5, <1>6, <1>7, <1>8 DEF space, Load

LEMMA WithinStays ==
    ASSUME TypeOK, TypeOK', Within, UNCHANGED cached, \A v \in Workers : NothingNew(v),
           \A a \in Accounts : cached[a] # None
    PROVE  Within'
  <1> SUFFICES ASSUME NEW a \in Quoted, NEW n \in {Size[f] : f \in Files},
                      Total[a] > 0, \A f \in Files : Size[f] <= n
               PROVE  \/ cached'[a] <= InUse[a] /\ Planners(a)' = {}
                      \/ cached'[a] + Load(Planners(a))'
                           < Total[a] + (Cardinality(Workers) - 1) * n
    BY DEF Within
  <1>1. Planners(a)' \subseteq Planners(a)
    BY QuotedAccount DEF Planners, NothingNew, AsBefore
  <1>2. \A v \in Planners(a)' : Claim'[v] = Claim[v]
    BY QuotedAccount, SameClaim DEF Planners, NothingNew
  <1>3. Planners(a) \in SUBSET Workers BY DEF Planners
  <1>4. Claim \in [Workers -> Nat] /\ Claim' \in [Workers -> Nat] BY ClaimTyped, ClaimTypedNext
  <1>5. SumOver(Claim', Planners(a)') <= SumOver(Claim, Planners(a))
    BY <1>1, <1>2, <1>3, <1>4, SumLess
  <1>6. /\ SumOver(Claim', Planners(a)') \in Nat
        /\ SumOver(Claim, Planners(a)) \in Nat
    BY <1>1, <1>3, <1>4, UnitsFinite
  <1>7. cached[a] \in Nat BY QuotedAccount DEF TypeOK, SpaceOK
  <1> DEFINE room == Total[a] + (Cardinality(Workers) - 1) * n
  <1>8. room \in Int
    <2>1. Cardinality(Workers) \in Nat BY QuotaAssumption, FS_CardinalityType
    <2>2. Total[a] \in Nat BY QuotedAccount
    <2>3. n \in Nat OBVIOUS
    <2> QED BY <2>1, <2>2, <2>3
  <1>9. \/ cached[a] <= InUse[a] /\ Planners(a) = {}
        \/ cached[a] + SumOver(Claim, Planners(a)) < room
    BY DEF Within, Load
  <1> HIDE DEF room
  <1>10. \/ cached'[a] <= InUse[a] /\ Planners(a)' = {}
         \/ cached'[a] + SumOver(Claim', Planners(a)') < room
    BY <1>1, <1>5, <1>6, <1>7, <1>8, <1>9
  <1> QED BY <1>10 DEF Load, room

LEMMA QuotasStay ==
    ASSUME TypeOK, TypeOK', Quotas, UNCHANGED <<space, warm>>,
           \A v \in Workers : NothingNew(v)
    PROVE  Quotas'
  <1> SUFFICES ASSUME warm PROVE Warmed' /\ Ahead' /\ Within' BY DEF Quotas
  <1>1. Warmed BY DEF Quotas
  <1>2. Warmed' BY <1>1 DEF Warmed, NothingNew, space
  <1>3. Ahead' BY <1>1, AheadStays DEF Quotas, Warmed
  <1>4. Within' BY <1>1, WithinStays DEF Quotas, Warmed, space
  <1> QED BY <1>2, <1>3, <1>4

LEMMA TakeQuotas == ASSUME TypeOK, Quotas, NEW w \in Workers, Take(w) PROVE Quotas'
  <1>1. TypeOK' BY TakeTypes
  <1>2. UNCHANGED <<space, warm>> BY DEF Take, fixed, space
  <1>3. PICK j \in left : job' = [job EXCEPT ![w] = j] /\ CopyFile(w, j) BY DEF Take
  <1>4. j \in Jobs /\ up' = up BY <1>3 DEF Take, stream, TypeOK, CopiesOK
  <1>5. PICK c \in {"look", "refused"} : pc' = [pc EXCEPT ![w] = c]
    BY <1>3, <1>4, Begins
  <1>6. best' = [best EXCEPT ![w] = None] BY <1>3 DEF CopyFile, NoPlan
  <1>7. \A v \in Workers : NothingNew(v)
    BY <1>3, <1>4, <1>5, <1>6
       DEF NothingNew, AsBefore, Promised, TypeOK, WorkerOK, PlanOK
  <1> QED BY <1>1, <1>2, <1>7, QuotasStay

LEMMA NoMoreJobsQuotas == ASSUME TypeOK, Quotas, NEW w \in Workers, NoMoreJobs(w) PROVE Quotas'
  <1>1. TypeOK' BY NoMoreJobsTypes
  <1>2. UNCHANGED <<space, warm>> BY DEF NoMoreJobs, Go, space, fixed
  <1>4. \A v \in Workers : NothingNew(v)
    BY DEF NothingNew, AsBefore,
           Promised, TypeOK, WorkerOK, PlanOK, StreamOK, Busy, NoMoreJobs, Go,
           plan, stream
  <1> QED BY <1>1, <1>2, <1>4, QuotasStay

LEMMA LookCachedQuotas == ASSUME TypeOK, Quotas, NEW w \in Workers, LookCached(w) PROVE Quotas'
  <1> SUFFICES ASSUME warm PROVE Warmed' /\ Ahead' /\ Within'
    BY DEF Quotas, LookCached, fixed
  <1> DEFINE b == Here(w)
  <1>1. TypeOK' BY LookCachedTypes
  <1>2. pc[w] = "look" /\ pc[w] \in Busy /\ b \in Accounts
    BY Working DEF LookCached, Looking, Busy
  <1>3. UNCHANGED <<pc, job, up, space>> BY DEF LookCached, stream
  <1>4. Warmed' BY <1>3 DEF Quotas, Warmed, space
  <1>5. ASSUME NEW v \in Workers, ~AsBefore(v)
        PROVE  v = w /\ Fits(b, cached[b], Sz(w), most[w]) /\ best'[w] = b
    <2>1. best'[v] # best[v] BY <1>3, <1>5 DEF AsBefore
    <2>2. Consider(w, cached[b]) /\ best \in [Workers -> Accounts \cup {None}]
      BY DEF LookCached, TypeOK, PlanOK
    <2>3. CASE Fits(b, cached[b], Sz(w), most[w])
      <3>1. best' = [best EXCEPT ![w] = b] BY <2>2, <2>3 DEF Consider
      <3> QED BY <2>1, <2>2, <2>3, <3>1
    <2>4. CASE ~Fits(b, cached[b], Sz(w), most[w])
      <3>1. best' = best BY <2>2, <2>4 DEF Consider
      <3> QED BY <2>1, <3>1
    <2> QED BY <2>3, <2>4
  <1>6. Ahead'
    <2>1. \A v \in Workers : Promised(v)' => Promised(v) /\ AsBefore(v)
      BY <1>2, <1>3, <1>5 DEF Promised
    <2>2. \A a \in Quoted : Promises(a)' \subseteq Promises(a)
      BY <2>1 DEF Promises, AsBefore
    <2> SUFFICES ASSUME NEW a \in Quoted
                 PROVE  used'[a] + Load(Promises(a))' <= cached'[a] + astray'[a]
      BY DEF Ahead
    <2>3. \A v \in Promises(a)' : Claim'[v] = Claim[v]
      BY <2>1, SameClaim DEF Promises
    <2>4. Promises(a) \in SUBSET Workers BY DEF Promises
    <2>5. Claim \in [Workers -> Nat] /\ Claim' \in [Workers -> Nat]
      BY <1>1, ClaimTyped, ClaimTypedNext
    <2>6. SumOver(Claim', Promises(a)') <= SumOver(Claim, Promises(a))
      BY <2>2, <2>3, <2>4, <2>5, SumLess
    <2>7. /\ SumOver(Claim', Promises(a)') \in Nat
          /\ SumOver(Claim, Promises(a)) \in Nat
      BY <2>2, <2>4, <2>5, UnitsFinite
    <2>8. used[a] \in Nat /\ cached[a] \in Nat /\ astray[a] \in Nat
      BY QuotedAccount DEF TypeOK, SpaceOK, Quotas, Warmed
    <2>9. used[a] + SumOver(Claim, Promises(a)) <= cached[a] + astray[a]
      BY DEF Quotas, Ahead, Load
    <2> QED BY <1>3, <2>6, <2>7, <2>8, <2>9 DEF space, Load
  <1>7. Within'
    <2> SUFFICES ASSUME NEW a \in Quoted, NEW n \in {Size[f] : f \in Files},
                        Total[a] > 0, \A f \in Files : Size[f] <= n
                 PROVE  \/ cached'[a] <= InUse[a] /\ Planners(a)' = {}
                        \/ cached'[a] + Load(Planners(a))'
                             < Total[a] + (Cardinality(Workers) - 1) * n
      BY DEF Within
    <2> DEFINE room == Total[a] + (Cardinality(Workers) - 1) * n
    <2>1. a \in Accounts /\ a # None /\ cached[a] \in Nat /\ Total[a] \in Nat /\ n \in Nat
      BY QuotedAccount DEF TypeOK, SpaceOK, Quotas, Warmed
    <2>2. Claim \in [Workers -> Nat] /\ Claim' = Claim
      BY <1>3, ClaimTyped DEF Claim, Sz, F
    <2>3. Cardinality(Workers) \in Nat /\ IsFiniteSet(Workers)
      BY QuotaAssumption, FS_CardinalityType
    <2>4. room \in Int BY <2>1, <2>3
    <2>5. Planners(a)' \subseteq Workers /\ Planners(a) \subseteq Workers BY DEF Planners
    <2>6. CASE Planners(a)' \subseteq Planners(a)
      <3>1. SumOver(Claim', Planners(a)') <= SumOver(Claim, Planners(a))
        BY <2>2, <2>5, <2>6, SumLess
      <3>2. /\ SumOver(Claim', Planners(a)') \in Nat
            /\ SumOver(Claim, Planners(a)) \in Nat
        BY <2>2, <2>5, UnitsFinite
      <3>3. \/ cached[a] <= InUse[a] /\ Planners(a) = {}
            \/ cached[a] + SumOver(Claim, Planners(a)) < room
        BY <2>1 DEF Quotas, Within, Load
      <3>4. cached'[a] = cached[a] BY <1>3 DEF space
      <3> HIDE DEF room
      <3>5. \/ cached'[a] <= InUse[a] /\ Planners(a)' = {}
            \/ cached'[a] + SumOver(Claim', Planners(a)') < room
        BY <2>1, <2>4, <2>6, <3>1, <3>2, <3>3, <3>4
      <3> QED BY <3>5 DEF Load, room
    <2>7. CASE ~(Planners(a)' \subseteq Planners(a))
      <3>1. a = b /\ Fits(b, cached[b], Sz(w), most[w]) /\ w \in Planners(a)'
        BY <1>3, <1>5, <2>7 DEF Planners, AsBefore
      <3> DEFINE others == Planners(a)' \ {w}
      <3>2. Planners(a)' = others \cup {w} BY <3>1
      <3>3. others \subseteq Workers \ {w} BY <2>5
      <3>4. SumOver(Claim, Planners(a)') = SumOver(Claim, others) + Claim[w]
        BY <2>2, <3>2, <3>3, SumAdd
      <3>5. \A v \in others : Claim[v] <= n
        <4> SUFFICES ASSUME NEW v \in others PROVE Claim[v] <= n
          OBVIOUS
        <4>1. v \in Workers /\ pc[v] \in Busy BY <1>3 DEF Planners, Busy
        <4>2. Claim[v] = Sz(v) /\ F(v) \in Files BY <4>1, ClaimTyped, Working
        <4> QED BY <4>2 DEF Sz
      <3>6. SumOver(Claim, others) <= Cardinality(Workers \ {w}) * n
        BY <2>1, <2>2, <3>3, <3>5, SumBound
      <3>7. Cardinality(Workers \ {w}) = Cardinality(Workers) - 1
        BY <2>3, FS_RemoveElement
      <3>8. cached[a] + Sz(w) < Total[a]
        BY <1>2, <2>1, <3>1, Working DEF Fits, Free
      <3>9. Claim[w] = Sz(w) /\ Sz(w) \in Nat BY <1>2, ClaimTyped, Working
      <3>10. SumOver(Claim, others) \in Nat BY <2>2, <3>3, UnitsFinite
      <3>11. cached'[a] = cached[a] BY <1>3 DEF space
      <3> DEFINE more == (Cardinality(Workers) - 1) * n
      <3>12. more \in Int /\ SumOver(Claim, others) <= more BY <2>1, <2>3, <3>6, <3>7
      <3> HIDE DEF more, others
      <3>13. cached'[a] + SumOver(Claim, Planners(a)') < Total[a] + more
        BY <2>1, <3>4, <3>8, <3>9, <3>10, <3>11, <3>12
      <3> QED BY <2>2, <3>13 DEF Load, more
    <2> QED BY <2>6, <2>7
  <1> QED BY <1>4, <1>6, <1>7

LEMMA AskQuotas == ASSUME TypeOK, Quotas, NEW w \in Workers, Ask(w) PROVE Quotas'
  <1>1. TypeOK' BY AskTypes
  <1>2. CASE warm
    <2>1. Here(w) \in Accounts BY Working DEF Ask, Looking, Busy
    <2> QED BY <1>2, <2>1 DEF Quotas, Warmed, Ask
  <1>3. CASE ~warm
    <2>1. ~warm' BY <1>3 DEF Ask, fixed
    <2> QED BY <2>1 DEF Quotas
  <1> QED BY <1>2, <1>3

LEMMA AskFailsQuotas == ASSUME TypeOK, Quotas, NEW w \in Workers, AskFails(w) PROVE Quotas'
  <1>1. TypeOK' BY AskFailsTypes
  <1>2. UNCHANGED <<space, warm>> BY DEF AskFails, Looking, Fault, space, fixed
  <1>3. UNCHANGED <<pc, best, job, up>> BY DEF AskFails, Looking, Fault, stream
  <1>4. \A v \in Workers : NothingNew(v) BY <1>3 DEF NothingNew, AsBefore, Promised
  <1> QED BY <1>1, <1>2, <1>4, QuotasStay

LEMMA FillQuotas == ASSUME TypeOK, Quotas, NEW w \in Workers, Fill(w) PROVE Quotas'
  <1>1. ~warm BY DEF Fill, Quotas, Warmed
  <1>2. ~warm' BY <1>1 DEF Fill, fixed
  <1> QED BY <1>2 DEF Quotas

LEMMA ReserveQuotas == ASSUME TypeOK, Quotas, NEW w \in Workers, Reserve(w) PROVE Quotas'
  <1> SUFFICES ASSUME warm PROVE Warmed' /\ Ahead' /\ Within'
    BY DEF Quotas, Reserve, fixed
  <1> DEFINE b == best[w]
  <1>1. pc[w] = "look" /\ pc[w] \in Busy /\ b \in Accounts
    BY DEF Reserve, Looked, Busy, TypeOK, PlanOK
  <1>2. UNCHANGED <<job, up, best, used, astray>> /\ pc' = [pc EXCEPT ![w] = "folder"]
    BY DEF Reserve, stream, plan, Go
  <1>3. \A a \in Accounts : cached[a] \in Nat BY DEF TypeOK, SpaceOK, Quotas, Warmed
  <1>4. Sz(w) \in Nat /\ Claim[w] = Sz(w) BY <1>1, Working, ClaimTyped
  <1>5. cached[b] # None BY <1>1 DEF Quotas, Warmed
  <1>6. cached' = [cached EXCEPT ![b] = cached[b] + Sz(w)] BY <1>5 DEF Reserve
  <1>7. cached \in [Accounts -> Nat \cup {None}] BY DEF TypeOK, SpaceOK
  <1>8. \A a \in Accounts : cached'[a] = cached[a] + (IF a = b THEN Sz(w) ELSE 0)
    BY <1>1, <1>3, <1>6, <1>7
  <1>9. Warmed'
    <2>1. \A a \in Accounts : cached'[a] # None
      <3> SUFFICES ASSUME NEW a \in Accounts PROVE cached'[a] # None
        OBVIOUS
      <3>1. CASE a = b
        <4>1. cached'[a] = cached[a] + Sz(w) BY <1>8, <3>1
        <4>2. cached'[a] \in Nat BY <1>3, <1>4, <4>1
        <4> QED BY <4>2
      <3>2. CASE a # b BY <1>3, <1>6, <1>7, <3>2
      <3> QED BY <3>1, <3>2
    <2> QED BY <1>2, <2>1 DEF Warmed, Quotas, TypeOK, WorkerOK
  <1>10. Claim \in [Workers -> Nat] /\ Claim' = Claim
    BY <1>2, ClaimTyped DEF Claim, Sz, F
  <1>11. Ahead'
    <2> SUFFICES ASSUME NEW a \in Quoted
                 PROVE  used'[a] + Load(Promises(a))' <= cached'[a] + astray'[a]
      BY DEF Ahead
    <2>1. Promises(a) \in SUBSET Workers /\ w \notin Promises(a)
      BY <1>1 DEF Promises, Promised
    <2>2. a # b => Promises(a)' = Promises(a)
      BY <1>1, <1>2 DEF Promises, Promised, TypeOK, WorkerOK
    <2>3. a = b => Promises(a)' = Promises(a) \cup {w}
      BY <1>1, <1>2 DEF Promises, Promised, TypeOK, WorkerOK
    <2>4. SumOver(Claim, Promises(a) \cup {w}) = SumOver(Claim, Promises(a)) + Claim[w]
      BY <1>10, <2>1, SumAdd
    <2>5. SumOver(Claim, Promises(a)) \in Nat BY <1>10, <2>1, UnitsFinite
    <2>6. used[a] \in Nat /\ cached[a] \in Nat /\ astray[a] \in Nat
      BY <1>3, QuotedAccount DEF TypeOK, SpaceOK
    <2>7. used[a] + SumOver(Claim, Promises(a)) <= cached[a] + astray[a]
      BY DEF Quotas, Ahead, Load
    <2>8. used'[a] = used[a] /\ astray'[a] = astray[a]
          /\ cached'[a] = cached[a] + (IF a = b THEN Sz(w) ELSE 0)
      BY <1>2, <1>8, QuotedAccount
    <2>9. SumOver(Claim, Promises(a)')
            = SumOver(Claim, Promises(a)) + (IF a = b THEN Sz(w) ELSE 0)
      <3>1. CASE a = b BY <1>4, <2>3, <2>4, <3>1
      <3>2. CASE a # b
        <4>1. Promises(a)' = Promises(a) BY <2>2, <3>2
        <4> QED BY <2>5, <3>2, <4>1
      <3> QED BY <3>1, <3>2
    <2>10. used'[a] + SumOver(Claim, Promises(a)') <= cached'[a] + astray'[a]
      BY <1>4, <2>5, <2>6, <2>7, <2>8, <2>9
    <2> QED BY <1>10, <2>10 DEF Load
  <1>12. Within'
    <2> SUFFICES ASSUME NEW a \in Quoted, NEW n \in {Size[f] : f \in Files},
                        Total[a] > 0, \A f \in Files : Size[f] <= n
                 PROVE  \/ cached'[a] <= InUse[a] /\ Planners(a)' = {}
                        \/ cached'[a] + Load(Planners(a))'
                             < Total[a] + (Cardinality(Workers) - 1) * n
      BY DEF Within
    <2> DEFINE room == Total[a] + (Cardinality(Workers) - 1) * n
    <2>1. \/ cached[a] <= InUse[a] /\ Planners(a) = {}
          \/ cached[a] + SumOver(Claim, Planners(a)) < room
      BY DEF Quotas, Within, Load
    <2> HIDE DEF room
    <2>2. cached'[a] = cached[a] + (IF a = b THEN Sz(w) ELSE 0) BY <1>8, QuotedAccount
    <2>3. CASE a # b
      <3>1. Planners(a)' = Planners(a) BY <1>1, <1>2, <2>3 DEF Planners, TypeOK, WorkerOK
      <3>2. cached'[a] = cached[a] BY <1>3, <2>2, <2>3, QuotedAccount
      <3>3. \/ cached'[a] <= InUse[a] /\ Planners(a)' = {}
            \/ cached'[a] + SumOver(Claim, Planners(a)') < room
        BY <2>1, <3>1, <3>2
      <3> QED BY <1>10, <3>3 DEF Load, room
    <2>4. CASE a = b
      <3>1. w \in Planners(a) BY <1>1, <2>4 DEF Planners
      <3>2. Planners(a)' \in SUBSET Workers /\ w \notin Planners(a)'
            /\ Planners(a) = Planners(a)' \cup {w}
        BY <1>1, <1>2, <2>4 DEF Planners, TypeOK, WorkerOK
      <3>3. SumOver(Claim, Planners(a)) = SumOver(Claim, Planners(a)') + Claim[w]
        BY <1>10, <3>2, SumAdd
      <3>4. cached[a] + SumOver(Claim, Planners(a)) < room BY <2>1, <3>1
      <3>5. SumOver(Claim, Planners(a)') \in Nat BY <1>10, <3>2, UnitsFinite
      <3>6. cached[a] \in Nat BY <1>3, QuotedAccount
      <3>7. cached'[a] + SumOver(Claim, Planners(a)')
              = cached[a] + SumOver(Claim, Planners(a))
        BY <1>4, <2>2, <2>4, <3>3, <3>5, <3>6
      <3>8. cached'[a] + SumOver(Claim, Planners(a)') < room BY <3>4, <3>7
      <3> QED BY <1>10, <3>8 DEF Load, room
    <2> QED BY <2>3, <2>4
  <1> QED BY <1>9, <1>11, <1>12

LEMMA FirstUnquotedQuotas == ASSUME TypeOK, Quotas, NEW w \in Workers, FirstUnquoted(w) PROVE Quotas'
  <1>1. TypeOK' BY FirstUnquotedTypes
  <1>2. UNCHANGED <<space, warm, job, up>> BY DEF FirstUnquoted, fixed, stream
  <1>3. pc[w] = "look" /\ pc' = [pc EXCEPT ![w] = "folder"]
    BY DEF FirstUnquoted, Go
  <1>4. best' = [best EXCEPT ![w] = Order[P(w)][1]] BY DEF FirstUnquoted
  <1>5. Order[P(w)][1] \notin Quoted
    <2>1. P(w) \in Providers /\ P(w) \in Unquoted /\ Order[P(w)] \in Seq(Accounts)
      BY <1>3, Working DEF FirstUnquoted, Busy
    <2>2. 1 \in 1..Len(Order[P(w)]) BY <2>1 DEF FirstUnquoted
    <2>3. \A p \in Providers \ Unquoted : \A i \in 1..Len(Order[p]) :
            Order[p][i] # Order[P(w)][1]
      BY <2>1, <2>2, QuotaAssumption
    <2> QED BY <2>3 DEF Quoted
  <1>6. \A v \in Workers : NothingNew(v)
    BY <1>2, <1>3, <1>4, <1>5 DEF NothingNew, AsBefore, Promised, TypeOK, WorkerOK, PlanOK
  <1> QED BY <1>1, <1>2, <1>6, QuotasStay

LEMMA RefuseQuotas == ASSUME TypeOK, Quotas, NEW w \in Workers, Refuse(w) PROVE Quotas'
  <1>1. TypeOK' BY RefuseTypes
  <1>2. UNCHANGED <<space, warm>> BY DEF Refuse, Looked, Go, space, fixed
  <1>4. \A v \in Workers : NothingNew(v)
    BY DEF NothingNew, AsBefore,
           Promised, TypeOK, WorkerOK, PlanOK, StreamOK, Busy, Refuse, Looked,
           Go, plan, stream
  <1> QED BY <1>1, <1>2, <1>4, QuotasStay

LEMMA NoFolderQuotas == ASSUME TypeOK, Quotas, NEW w \in Workers, NoFolder(w) PROVE Quotas'
  <1>1. TypeOK' BY NoFolderTypes
  <1>2. UNCHANGED <<space, warm>> BY DEF NoFolder, Go, Fault, space, fixed
  <1>4. \A v \in Workers : NothingNew(v)
    BY DEF NothingNew, AsBefore,
           Promised, TypeOK, WorkerOK, PlanOK, StreamOK, Busy, NoFolder, Go,
           Fault, plan, stream
  <1> QED BY <1>1, <1>2, <1>4, QuotasStay

LEMMA OpenQuotas == ASSUME TypeOK, Quotas, NEW w \in Workers, Open(w) PROVE Quotas'
  <1>1. TypeOK' BY OpenTypes
  <1>2. UNCHANGED <<space, warm>> BY DEF Open, Ready, Go, space, fixed
  <1>4. \A v \in Workers : NothingNew(v)
    BY DEF NothingNew, AsBefore,
           Promised, TypeOK, WorkerOK, PlanOK, StreamOK, Busy, Open, Ready, Go,
           plan
  <1> QED BY <1>1, <1>2, <1>4, QuotasStay

LEMMA SkipQuotas == ASSUME TypeOK, Quotas, NEW w \in Workers, Skip(w) PROVE Quotas'
  <1>1. TypeOK' BY SkipTypes
  <1>2. UNCHANGED <<space, warm>> BY DEF Skip, Ready, Go, Fault, space, fixed
  <1>4. \A v \in Workers : NothingNew(v)
    BY DEF NothingNew, AsBefore,
           Promised, TypeOK, WorkerOK, PlanOK, StreamOK, Busy, Skip, Ready, Go,
           Fault, plan, stream
  <1> QED BY <1>1, <1>2, <1>4, QuotasStay

LEMMA NoSourceLeftQuotas == ASSUME TypeOK, Quotas, NEW w \in Workers, NoSourceLeft(w) PROVE Quotas'
  <1>1. TypeOK' BY NoSourceLeftTypes
  <1>2. UNCHANGED <<space, warm>> BY DEF NoSourceLeft, Go, space, fixed
  <1>4. \A v \in Workers : NothingNew(v)
    BY DEF NothingNew, AsBefore,
           Promised, TypeOK, WorkerOK, PlanOK, StreamOK, Busy, NoSourceLeft,
           Go, plan, stream
  <1> QED BY <1>1, <1>2, <1>4, QuotasStay

LEMMA FlowQuotas == ASSUME TypeOK, Quotas, NEW w \in Workers, Flow(w) PROVE Quotas'
  <1>1. TypeOK' BY FlowTypes
  <1>2. UNCHANGED <<space, warm>> BY DEF Flow, Rest, space, fixed
  <1>3. UNCHANGED <<pc, best, job, up>> BY DEF Flow, Rest, plan
  <1>4. \A v \in Workers : NothingNew(v) BY <1>3 DEF NothingNew, AsBefore, Promised
  <1> QED BY <1>1, <1>2, <1>4, QuotasStay

LEMMA DownloadEndsQuotas == ASSUME TypeOK, Quotas, NEW w \in Workers, DownloadEnds(w) PROVE Quotas'
  <1>1. TypeOK' BY DownloadEndsTypes
  <1>2. UNCHANGED <<space, warm>> BY DEF DownloadEnds, Rest, space, fixed
  <1>3. UNCHANGED <<pc, best, job, up>> BY DEF DownloadEnds, Rest, plan
  <1>4. \A v \in Workers : NothingNew(v) BY <1>3 DEF NothingNew, AsBefore, Promised
  <1> QED BY <1>1, <1>2, <1>4, QuotasStay

LEMMA DownloadFailsQuotas == ASSUME TypeOK, Quotas, NEW w \in Workers, DownloadFails(w) PROVE Quotas'
  <1>1. TypeOK' BY DownloadFailsTypes
  <1>2. UNCHANGED <<space, warm>> BY DEF DownloadFails, Rest, Fault, space,
        fixed
  <1>3. UNCHANGED <<pc, best, job, up>> BY DEF DownloadFails, Rest, Fault, plan
  <1>4. \A v \in Workers : NothingNew(v) BY <1>3 DEF NothingNew, AsBefore, Promised
  <1> QED BY <1>1, <1>2, <1>4, QuotasStay

LEMMA DownloadPanicsQuotas == ASSUME TypeOK, Quotas, NEW w \in Workers, DownloadPanics(w) PROVE Quotas'
  <1>1. TypeOK' BY DownloadPanicsTypes
  <1>2. UNCHANGED <<space, warm>> BY DEF DownloadPanics, Rest, Fault, space,
        fixed
  <1>3. UNCHANGED <<pc, best, job, up>> BY DEF DownloadPanics, Rest, Fault,
        plan
  <1>4. \A v \in Workers : NothingNew(v) BY <1>3 DEF NothingNew, AsBefore, Promised
  <1> QED BY <1>1, <1>2, <1>4, QuotasStay

LEMMA DownloadCutQuotas == ASSUME TypeOK, Quotas, NEW w \in Workers, DownloadCut(w) PROVE Quotas'
  <1>1. TypeOK' BY DownloadCutTypes
  <1>2. UNCHANGED <<space, warm>> BY DEF DownloadCut, Rest, space, fixed
  <1>3. UNCHANGED <<pc, best, job, up>> BY DEF DownloadCut, Rest, plan
  <1>4. \A v \in Workers : NothingNew(v) BY <1>3 DEF NothingNew, AsBefore, Promised
  <1> QED BY <1>1, <1>2, <1>4, QuotasStay

LEMMA UploadDoneQuotas == ASSUME TypeOK, Quotas, NEW w \in Workers, UploadDone(w) PROVE Quotas'
  <1> SUFFICES ASSUME warm PROVE Warmed' /\ Ahead' /\ Within'
    BY DEF Quotas, UploadDone, Uploaded, fixed
  <1> DEFINE b == best[w]
  <1>1. TypeOK' BY UploadDoneTypes
  <1>2. pc[w] = "send" /\ pc[w] \in Busy BY DEF UploadDone, Uploaded, Busy
  <1>3. /\ UNCHANGED <<job, best, cached>> /\ pc' = [pc EXCEPT ![w] = "await"]
        /\ up' = [up EXCEPT ![w] = "ok"]
    BY DEF UploadDone, Uploaded, plan, Go
  <1>4. \A a \in Accounts : cached[a] \in Nat BY DEF TypeOK, SpaceOK, Quotas, Warmed
  <1>5. Sz(w) \in Nat /\ Claim[w] = Sz(w) BY <1>2, Working, ClaimTyped
  <1>6. Warmed' BY <1>3 DEF Warmed, Quotas, TypeOK, WorkerOK
  <1>7. Claim \in [Workers -> Nat] /\ Claim' = Claim
    BY <1>3, ClaimTyped DEF Claim, Sz, F
  <1>8. Within'
    <2>1. \A v \in Workers : pc'[v] = "look" => pc[v] = "look" BY <1>3 DEF TypeOK, WorkerOK
    <2>2. \A v \in Workers : pc[v] = "look" => pc'[v] = "look"
      BY <1>2, <1>3 DEF TypeOK, WorkerOK
    <2>3. \A a \in Quoted : Planners(a)' = Planners(a) BY <1>3, <2>1, <2>2 DEF Planners
    <2> QED BY <1>3, <1>7, <2>3 DEF Within, Quotas, Load
  <1>9. Ahead'
    <2> SUFFICES ASSUME NEW a \in Quoted
                 PROVE  used'[a] + Load(Promises(a))' <= cached'[a] + astray'[a]
      BY DEF Ahead
    <2>1. Promises(a) \in SUBSET Workers /\ Promises(a)' \in SUBSET Workers
      BY DEF Promises
    <2>2. a # b => Promises(a)' = Promises(a)
      BY <1>2, <1>3 DEF Promises, Promised, TypeOK, WorkerOK, StreamOK
    <2>3. a = b => Promises(a) = Promises(a)' \cup {w} /\ w \notin Promises(a)'
      BY <1>2, <1>3 DEF Promises, Promised, TypeOK, WorkerOK, StreamOK
    <2>4. SumOver(Claim, Promises(a)) \in Nat /\ SumOver(Claim, Promises(a)') \in Nat
      BY <1>7, <2>1, UnitsFinite
    <2>5. used[a] \in Nat /\ cached[a] \in Nat /\ astray[a] \in Nat
      BY <1>4, QuotedAccount DEF TypeOK, SpaceOK
    <2>6. used[a] + SumOver(Claim, Promises(a)) <= cached[a] + astray[a]
      BY DEF Quotas, Ahead, Load
    <2>7. used' = [used EXCEPT ![b] = @ + Sz(w)] /\ used \in [Accounts -> Nat]
      BY DEF UploadDone, Stored, TypeOK, SpaceOK
    <2>8. used'[a] = used[a] + (IF a = b THEN Sz(w) ELSE 0)
      BY <1>5, <2>5, <2>7, QuotedAccount
    <2>9. SumOver(Claim, Promises(a))
            = SumOver(Claim, Promises(a)') + (IF a = b THEN Sz(w) ELSE 0)
      <3>1. CASE a = b
        <4>1. SumOver(Claim, Promises(a)' \cup {w}) = SumOver(Claim, Promises(a)') + Claim[w]
          BY <1>7, <2>1, <2>3, <3>1, SumAdd
        <4> QED BY <1>5, <2>3, <3>1, <4>1
      <3>2. CASE a # b
        <4>1. Promises(a)' = Promises(a) BY <2>2, <3>2
        <4> QED BY <2>4, <3>2, <4>1
      <3> QED BY <3>1, <3>2
    <2>10. astray'[a] = astray[a] /\ cached'[a] = cached[a] BY <1>3 DEF UploadDone
    <2>11. used'[a] + SumOver(Claim, Promises(a)') <= cached'[a] + astray'[a]
      BY <1>5, <2>4, <2>5, <2>6, <2>8, <2>9, <2>10
    <2> QED BY <1>7, <2>11 DEF Load
  <1> QED BY <1>6, <1>8, <1>9

LEMMA UploadReplyLostQuotas == ASSUME TypeOK, Quotas, NEW w \in Workers, UploadReplyLost(w) PROVE Quotas'
  <1> SUFFICES ASSUME warm PROVE Warmed' /\ Ahead' /\ Within'
    BY DEF Quotas, UploadReplyLost, Uploaded, fixed
  <1> DEFINE b == best[w]
  <1>1. TypeOK' BY UploadReplyLostTypes
  <1>2. pc[w] = "send" /\ pc[w] \in Busy BY DEF UploadReplyLost, Uploaded, Busy
  <1>3. /\ UNCHANGED <<job, best, cached>> /\ pc' = [pc EXCEPT ![w] = "await"]
        /\ up' = [up EXCEPT ![w] = "err"]
    BY DEF UploadReplyLost, Uploaded, plan, Go
  <1>4. \A a \in Accounts : cached[a] \in Nat BY DEF TypeOK, SpaceOK, Quotas, Warmed
  <1>5. Sz(w) \in Nat /\ Claim[w] = Sz(w) BY <1>2, Working, ClaimTyped
  <1>6. Warmed' BY <1>3 DEF Warmed, Quotas, TypeOK, WorkerOK
  <1>7. Claim \in [Workers -> Nat] /\ Claim' = Claim
    BY <1>3, ClaimTyped DEF Claim, Sz, F
  <1>8. Within'
    <2>1. \A v \in Workers : pc'[v] = "look" => pc[v] = "look" BY <1>3 DEF TypeOK, WorkerOK
    <2>2. \A v \in Workers : pc[v] = "look" => pc'[v] = "look"
      BY <1>2, <1>3 DEF TypeOK, WorkerOK
    <2>3. \A a \in Quoted : Planners(a)' = Planners(a) BY <1>3, <2>1, <2>2 DEF Planners
    <2> QED BY <1>3, <1>7, <2>3 DEF Within, Quotas, Load
  <1>9. Ahead'
    <2> SUFFICES ASSUME NEW a \in Quoted
                 PROVE  used'[a] + Load(Promises(a))' <= cached'[a] + astray'[a]
      BY DEF Ahead
    <2>1. Promises(a) \in SUBSET Workers /\ Promises(a)' \in SUBSET Workers
      BY DEF Promises
    <2>2. Promises(a)' = Promises(a)
      BY <1>2, <1>3 DEF Promises, Promised, TypeOK, WorkerOK, StreamOK
    <2>3. SumOver(Claim, Promises(a)) \in Nat BY <1>7, <2>1, UnitsFinite
    <2>4. used[a] \in Nat /\ cached[a] \in Nat /\ astray[a] \in Nat
      BY <1>4, QuotedAccount DEF TypeOK, SpaceOK
    <2>5. used[a] + SumOver(Claim, Promises(a)) <= cached[a] + astray[a]
      BY DEF Quotas, Ahead, Load
    <2>6. /\ used' = [used EXCEPT ![b] = @ + Sz(w)] /\ used \in [Accounts -> Nat]
          /\ astray' = [astray EXCEPT ![b] = @ + Sz(w)] /\ astray \in [Accounts -> Nat]
      BY DEF UploadReplyLost, Stored, TypeOK, SpaceOK
    <2>7. /\ used'[a] = used[a] + (IF a = b THEN Sz(w) ELSE 0)
          /\ astray'[a] = astray[a] + (IF a = b THEN Sz(w) ELSE 0)
      BY <1>5, <2>4, <2>6, QuotedAccount
    <2>8. cached'[a] = cached[a] BY <1>3
    <2>9. used'[a] + SumOver(Claim, Promises(a)) <= cached'[a] + astray'[a]
      BY <1>5, <2>3, <2>4, <2>5, <2>7, <2>8
    <2> QED BY <1>7, <2>2, <2>9 DEF Load
  <1> QED BY <1>6, <1>8, <1>9

LEMMA UploadFailsQuotas == ASSUME TypeOK, Quotas, NEW w \in Workers, UploadFails(w) PROVE Quotas'
  <1>1. TypeOK' BY UploadFailsTypes
  <1>2. UNCHANGED <<space, warm>> BY DEF UploadFails, Uploaded, Go, Fault,
        space, fixed
  <1>4. \A v \in Workers : NothingNew(v)
    BY DEF NothingNew, AsBefore,
           Promised, TypeOK, WorkerOK, PlanOK, StreamOK, Busy, UploadFails,
           Uploaded, Go, Fault, plan
  <1> QED BY <1>1, <1>2, <1>4, QuotasStay

LEMMA UploadRefusedQuotas == ASSUME TypeOK, Quotas, NEW w \in Workers, UploadRefused(w) PROVE Quotas'
  <1>1. TypeOK' BY UploadRefusedTypes
  <1>2. UNCHANGED <<space, warm>> BY DEF UploadRefused, Uploaded, Go, space,
        fixed
  <1>4. \A v \in Workers : NothingNew(v)
    BY DEF NothingNew, AsBefore,
           Promised, TypeOK, WorkerOK, PlanOK, StreamOK, Busy, UploadRefused,
           Uploaded, Go, plan
  <1> QED BY <1>1, <1>2, <1>4, QuotasStay

LEMMA NextSourceQuotas == ASSUME TypeOK, Quotas, NEW w \in Workers, NextSource(w) PROVE Quotas'
  <1> SUFFICES ASSUME warm PROVE Warmed' /\ Ahead' /\ Within'
    BY DEF Quotas, NextSource, fixed
  <1> DEFINE b == best[w]
  <1>1. pc[w] = "await" /\ pc[w] \in Busy BY DEF NextSource, Awaiting, Busy
  <1>2. /\ UNCHANGED <<job, best, cached, used>> /\ pc' = [pc EXCEPT ![w] = "source"]
        /\ up' = [up EXCEPT ![w] = "none"]
    BY DEF NextSource, plan, Go, Over
  <1>3. \A a \in Accounts : cached[a] \in Nat BY DEF TypeOK, SpaceOK, Quotas, Warmed
  <1>4. Sz(w) \in Nat /\ Claim[w] = Sz(w) BY <1>1, Working, ClaimTyped
  <1>5. Warmed' BY <1>2 DEF Warmed, Quotas, TypeOK, WorkerOK
  <1>6. Claim \in [Workers -> Nat] /\ Claim' = Claim
    BY <1>2, ClaimTyped DEF Claim, Sz, F
  <1>7. Within'
    <2>1. \A v \in Workers : pc'[v] = "look" => pc[v] = "look" BY <1>2 DEF TypeOK, WorkerOK
    <2>2. \A v \in Workers : pc[v] = "look" => pc'[v] = "look"
      BY <1>1, <1>2 DEF TypeOK, WorkerOK
    <2>3. \A a \in Quoted : Planners(a)' = Planners(a) BY <1>2, <2>1, <2>2 DEF Planners
    <2> QED BY <1>2, <1>6, <2>3 DEF Within, Quotas, Load
  <1>8. Ahead'
    <2> SUFFICES ASSUME NEW a \in Quoted
                 PROVE  used'[a] + Load(Promises(a))' <= cached'[a] + astray'[a]
      BY DEF Ahead
    <2>1. Promises(a) \in SUBSET Workers BY DEF Promises
    <2>2. SumOver(Claim, Promises(a)) \in Nat BY <1>6, <2>1, UnitsFinite
    <2>3. used[a] \in Nat /\ cached[a] \in Nat /\ astray[a] \in Nat
      BY <1>3, QuotedAccount DEF TypeOK, SpaceOK
    <2>4. used[a] + SumOver(Claim, Promises(a)) <= cached[a] + astray[a]
      BY DEF Quotas, Ahead, Load
    <2>5. used'[a] = used[a] /\ cached'[a] = cached[a] BY <1>2
    <2>6. CASE a = b /\ up[w] = "ok"
      <3>1. Promises(a)' = Promises(a) \cup {w} /\ w \notin Promises(a)
        BY <1>1, <1>2, <2>6 DEF Promises, Promised, TypeOK, WorkerOK, StreamOK
      <3>2. SumOver(Claim, Promises(a) \cup {w}) = SumOver(Claim, Promises(a)) + Claim[w]
        BY <1>6, <2>1, <3>1, SumAdd
      <3>3. astray' = [astray EXCEPT ![b] = @ + Sz(w)] /\ astray \in [Accounts -> Nat]
        BY <2>6 DEF NextSource, TypeOK, SpaceOK
      <3>4. astray'[a] = astray[a] + Sz(w) BY <2>6, <3>3, QuotedAccount
      <3>5. used'[a] + SumOver(Claim, Promises(a)') <= cached'[a] + astray'[a]
        BY <1>4, <2>2, <2>3, <2>4, <2>5, <3>1, <3>2, <3>4
      <3> QED BY <1>6, <3>5 DEF Load
    <2>7. CASE ~(a = b /\ up[w] = "ok")
      <3>1. Promises(a)' = Promises(a)
        BY <1>1, <1>2, <2>7 DEF Promises, Promised, TypeOK, WorkerOK, StreamOK
      <3>2. astray'[a] = astray[a]
        BY <2>7, QuotedAccount DEF NextSource, TypeOK, SpaceOK
      <3> QED BY <1>6, <2>4, <2>5, <3>1, <3>2 DEF Load
    <2> QED BY <2>6, <2>7
  <1> QED BY <1>5, <1>7, <1>8

LEMMA CopiedQuotas == ASSUME TypeOK, Quotas, NEW w \in Workers, Copied(w) PROVE Quotas'
  <1>1. TypeOK' BY CopiedTypes
  <1>2. UNCHANGED <<space, warm>> BY DEF Copied, Awaiting, Over, Go, space,
        fixed
  <1>4. \A v \in Workers : NothingNew(v)
    BY DEF NothingNew, AsBefore,
           Promised, TypeOK, WorkerOK, PlanOK, StreamOK, Busy, Copied,
           Awaiting, Over, Go, plan
  <1> QED BY <1>1, <1>2, <1>4, QuotasStay

LEMMA RecordQuotas == ASSUME TypeOK, Quotas, NEW w \in Workers, Record(w) PROVE Quotas'
  <1>1. TypeOK' BY RecordTypes
  <1>2. UNCHANGED <<space, warm>> BY DEF Record, Go, space, fixed
  <1>4. \A v \in Workers : NothingNew(v)
    BY DEF NothingNew, AsBefore,
           Promised, TypeOK, WorkerOK, PlanOK, StreamOK, Busy, Record, Go,
           plan, stream
  <1> QED BY <1>1, <1>2, <1>4, QuotasStay

LEMMA RolledBackQuotas == ASSUME TypeOK, Quotas, NEW w \in Workers, RolledBack(w) PROVE Quotas'
  <1>1. TypeOK' BY RolledBackTypes
  <1>2. UNCHANGED <<space, warm>> BY DEF RolledBack, Go, Fault, space, fixed
  <1>4. \A v \in Workers : NothingNew(v)
    BY DEF NothingNew, AsBefore,
           Promised, TypeOK, WorkerOK, PlanOK, StreamOK, Busy, RolledBack, Go,
           Fault, plan, stream
  <1> QED BY <1>1, <1>2, <1>4, QuotasStay

LEMMA RecordFailsQuotas == ASSUME TypeOK, Quotas, NEW w \in Workers, RecordFails(w) PROVE Quotas'
  <1>1. TypeOK' BY RecordFailsTypes
  <1>2. UNCHANGED <<space, warm>> BY DEF RecordFails, Settle, NoPlan, Go,
        Fault, space, fixed
  <1>4. \A v \in Workers : NothingNew(v)
    BY DEF NothingNew, AsBefore,
           Promised, TypeOK, WorkerOK, PlanOK, StreamOK, Busy, RecordFails,
           Settle, NoPlan, Go, Fault, stream
  <1> QED BY <1>1, <1>2, <1>4, QuotasStay

LEMMA LogCopyQuotas == ASSUME TypeOK, Quotas, NEW w \in Workers, LogCopy(w) PROVE Quotas'
  <1>1. TypeOK' BY LogCopyTypes
  <1>2. UNCHANGED <<space, warm>> BY DEF LogCopy, Settle, NoPlan, Go, Fault,
        space, fixed
  <1>4. \A v \in Workers : NothingNew(v)
    BY DEF NothingNew, AsBefore,
           Promised, TypeOK, WorkerOK, PlanOK, StreamOK, Busy, LogCopy, Settle,
           NoPlan, Go, Fault, stream
  <1> QED BY <1>1, <1>2, <1>4, QuotasStay

LEMMA RetryQuotas == ASSUME TypeOK, Quotas, NEW w \in Workers, Retry(w) PROVE Quotas'
  <1>1. TypeOK' BY RetryTypes
  <1>2. UNCHANGED <<space, warm, job, up>> BY DEF Retry, fixed, space, stream
  <1>3. CopyFile(w, job[w]) /\ job[w] \in Jobs BY Working DEF Retry, Busy
  <1>4. PICK c \in {"look", "refused"} : pc' = [pc EXCEPT ![w] = c] BY <1>3, Begins
  <1>5. best' = [best EXCEPT ![w] = None] BY <1>3 DEF CopyFile, NoPlan
  <1>6. \A v \in Workers : NothingNew(v)
    BY <1>2, <1>4, <1>5 DEF NothingNew, AsBefore, Promised, TypeOK, WorkerOK, PlanOK
  <1> QED BY <1>1, <1>2, <1>6, QuotasStay

LEMMA GiveUpQuotas == ASSUME TypeOK, Quotas, NEW w \in Workers, GiveUp(w) PROVE Quotas'
  <1>1. TypeOK' BY GiveUpTypes
  <1>2. UNCHANGED <<space, warm>> BY DEF GiveUp, GivingUp, Settle, NoPlan, Go,
        space, fixed
  <1>4. \A v \in Workers : NothingNew(v)
    BY DEF NothingNew, AsBefore,
           Promised, TypeOK, WorkerOK, PlanOK, StreamOK, Busy, GiveUp,
           GivingUp, Settle, NoPlan, Go, stream
  <1> QED BY <1>1, <1>2, <1>4, QuotasStay

LEMMA ReturnQuotas == ASSUME TypeOK, Quotas, Return PROVE Quotas'
  <1>1. TypeOK' BY ReturnTypes
  <1>2. UNCHANGED <<space, warm>> BY DEF Return, space, fixed
  <1>3. UNCHANGED <<pc, best, job, up>> BY DEF Return, plan, stream
  <1>4. \A v \in Workers : NothingNew(v) BY <1>3 DEF NothingNew, AsBefore, Promised
  <1> QED BY <1>1, <1>2, <1>4, QuotasStay

LEMMA AlterQuotas == ASSUME TypeOK, Quotas, NEW f \in Files, Alter(f) PROVE Quotas'
  <1>1. TypeOK' BY AlterTypes
  <1>2. UNCHANGED <<space, warm>> BY DEF Alter, Fault, space, fixed
  <1>3. UNCHANGED <<pc, best, job, up>> BY DEF Alter, Fault, plan, stream
  <1>4. \A v \in Workers : NothingNew(v) BY <1>3 DEF NothingNew, AsBefore, Promised
  <1> QED BY <1>1, <1>2, <1>4, QuotasStay

LEMMA QuotasStep == TypeOK /\ Quotas /\ [Next]_vars => Quotas'
  <1> SUFFICES ASSUME TypeOK, Quotas, [Next]_vars PROVE Quotas'
    OBVIOUS
  <1>1. ASSUME NEW w \in Workers, Destination(w) PROVE Quotas'
    BY <1>1, LookCachedQuotas, AskQuotas, FillQuotas, ReserveQuotas,
       FirstUnquotedQuotas, RefuseQuotas DEF Destination
  <1>2. ASSUME NEW w \in Workers, Worker(w) PROVE Quotas'
    BY <1>1, <1>2, TakeQuotas, NoMoreJobsQuotas, OpenQuotas,
       NoSourceLeftQuotas, NextSourceQuotas, CopiedQuotas, RecordQuotas,
       LogCopyQuotas, RetryQuotas, GiveUpQuotas
       DEF Worker
  <1>3. ASSUME NEW w \in Workers, Download(w) PROVE Quotas'
    BY <1>3, FlowQuotas, DownloadEndsQuotas, DownloadCutQuotas DEF Download
  <1>4. ASSUME NEW w \in Workers, Upload(w) PROVE Quotas'
    BY <1>4, UploadDoneQuotas, UploadRefusedQuotas DEF Upload
  <1>5. ASSUME NEW w \in Workers, Goes(w) PROVE Quotas'
    BY <1>5, AskFailsQuotas, NoFolderQuotas, SkipQuotas, DownloadFailsQuotas,
       DownloadPanicsQuotas, UploadReplyLostQuotas, UploadFailsQuotas,
       RecordFailsQuotas, RolledBackQuotas DEF Goes
  <1>6. CASE UNCHANGED vars
    <2>1. UNCHANGED <<pc, best, job, up, used, cached, astray, warm>>
      BY <1>6 DEF vars, plan, stream, space, fixed
    <2>2. Claim' = Claim BY <2>1 DEF Claim, Sz, F
    <2>3. \A a \in Quoted : Promises(a)' = Promises(a) /\ Planners(a)' = Planners(a)
      BY <2>1 DEF Promises, Promised, Planners
    <2> QED BY <2>1, <2>2, <2>3 DEF Quotas, Warmed, Ahead, Within, Load
  <1> QED BY <1>2, <1>3, <1>4, <1>5, <1>6, ReturnQuotas, AlterQuotas DEF Next

LEMMA SafeInit == Init => Safe
  BY DEF Init, Safe, Carried, Held, Ended, Kept, WholeCopy, LogTrue

LEMMA Invariance == Spec => [](TypeOK /\ Safe)
  <1> QED BY TypeInit, SafeInit, TypeStep, SafeStep, PTL DEF Spec

\* What the database has a row for is whole, unless the source had become
\* another, whatever failed on the way.
THEOREM RowsAreWhole == Spec => []WholeCopy
  <1>1. Safe => WholeCopy BY DEF Safe, Kept
  <1> QED BY <1>1, Invariance, PTL

\* The checkpoint of a sync names only copies whose provider holds the whole
\* file, or whose source had become another: with a row or, when that was rolled
\* back, without one.
THEOREM LogsAreTrue == Spec => []LogTrue
  <1>1. Safe => LogTrue BY DEF Safe, Kept
  <1> QED BY <1>1, Invariance, PTL

\* When every worker has ended and none has left an error, every job is settled:
\* the workers found no more jobs, and hold none.
LEMMA AllSettled ==
    ASSUME TypeOK, Held, Ended, errs = 0, \A w \in Workers : pc[w] = "ended",
           NEW j \in Jobs
    PROVE  outcome[j] # "open"
  <1>1. PICK w \in Workers : TRUE BY SomeWorker
  <1>2. left = {} BY <1>1 DEF Ended
  <1>3. \A v \in Workers : job[v] = None
    BY DEF TypeOK, WorkerOK, Busy
  <1>4. ~ \E v \in Workers : job[v] = j BY <1>3
  <1> QED BY <1>2, <1>4 DEF Held

\* The pool returns when every copy was made or given up, unless it stops at
\* an error.
THEOREM NoneDropped == Spec => []NothingDropped
  <1>1. TypeOK /\ Safe => NothingDropped
    <2> SUFFICES ASSUME TypeOK, Held, Ended, result # "none",
                        onError = "log" \/ result = "ok", NEW j \in Jobs
                 PROVE  outcome[j] # "open"
      BY DEF Safe, NothingDropped
    <2>1. \A w \in Workers : pc[w] = "ended" BY DEF Ended
    <2>2. errs \in Nat BY DEF TypeOK, PoolOK
    <2>3. errs = 0 BY <2>2 DEF Ended
    <2> QED BY <2>1, <2>3, AllSettled
  <1> QED BY <1>1, Invariance, PTL

LEMMA QuotasInit == Init => Quotas
  <1> SUFFICES ASSUME Init, warm PROVE Warmed /\ Ahead /\ Within BY DEF Quotas
  <1>1. cached = InUse /\ used = InUse BY DEF Init
  <1>2. \A a \in Accounts : InUse[a] \in Nat OBVIOUS
  <1>3. Warmed BY <1>1, <1>2 DEF Init, Warmed
  <1>4. \A a \in Quoted : Promises(a) = {} /\ Planners(a) = {}
    BY DEF Init, Promises, Planners, Promised
  <1>5. Within
    <2>1. \A a \in Quoted : cached[a] <= InUse[a] BY <1>1, <1>2, QuotedAccount
    <2> QED BY <1>4, <2>1 DEF Within
  <1>6. Ahead
    <2>1. UNION {{w} \X (1..Claim[w]) : w \in {}} = {} OBVIOUS
    <2>2. Load({}) = 0 BY <2>1, FS_EmptySet DEF Load, SumOver
    <2>3. \A a \in Quoted : astray[a] = 0 BY QuotedAccount DEF Init
    <2> SUFFICES ASSUME NEW a \in Quoted
                 PROVE  used[a] + Load(Promises(a)) <= cached[a] + astray[a]
      BY DEF Ahead
    <2>4. Promises(a) = {} /\ astray[a] = 0 /\ InUse[a] \in Nat
      BY <1>2, <1>4, <2>3, QuotedAccount
    <2> QED BY <1>1, <2>2, <2>4
  <1> QED BY <1>3, <1>5, <1>6

LEMMA QuotasHold == Spec => [](TypeOK /\ Quotas)
  <1> QED BY TypeInit, QuotasInit, TypeStep, QuotasStep, PTL DEF Spec

\* What is stored, and what is reserved and not yet stored, is in the cached
\* quota, but for what failed attempts have left behind.
THEOREM AllAccounted == Spec => []Accounted
  <1>1. TypeOK /\ Quotas => Accounted
    <2> SUFFICES ASSUME TypeOK, Quotas, warm, NEW a \in Quoted
                 PROVE  used[a] <= cached[a] + astray[a]
      BY DEF Accounted
    <2>1. Promises(a) \in SUBSET Workers BY DEF Promises
    <2>2. Load(Promises(a)) \in Nat BY <2>1, LoadTyped
    <2>3. used[a] \in Nat /\ cached[a] \in Nat /\ astray[a] \in Nat
      BY QuotedAccount DEF TypeOK, SpaceOK, Quotas, Warmed
    <2>4. used[a] + Load(Promises(a)) <= cached[a] + astray[a] BY DEF Quotas, Ahead
    <2> QED BY <2>2, <2>3, <2>4
  <1> QED BY <1>1, QuotasHold, PTL

\* An account is promised too much by one file for each worker but one at most:
\* whoever reserves has seen room for its own file, before the others reserved.
THEOREM SeldomOverpromised == Spec => []PromisedOnce
  <1>1. TypeOK /\ Quotas => PromisedOnce
    <2> SUFFICES ASSUME TypeOK, Quotas, warm, NEW a \in Quoted,
                        NEW n \in {Size[f] : f \in Files},
                        Total[a] > 0, \A f \in Files : Size[f] <= n
                 PROVE  \/ cached[a] <= InUse[a]
                        \/ cached[a] < Total[a] + (Cardinality(Workers) - 1) * n
      BY DEF PromisedOnce
    <2> DEFINE room == Total[a] + (Cardinality(Workers) - 1) * n
    <2>1. Planners(a) \in SUBSET Workers BY DEF Planners
    <2>2. Load(Planners(a)) \in Nat BY <2>1, LoadTyped
    <2>3. cached[a] \in Nat /\ Total[a] \in Nat /\ n \in Nat
      BY QuotedAccount DEF TypeOK, SpaceOK, Quotas, Warmed
    <2>4. Cardinality(Workers) \in Nat BY QuotaAssumption, FS_CardinalityType
    <2>5. room \in Int BY <2>3, <2>4
    <2>6. cached[a] <= InUse[a] \/ cached[a] + Load(Planners(a)) < room
      BY DEF Quotas, Within
    <2> HIDE DEF room
    <2>7. cached[a] <= InUse[a] \/ cached[a] < room BY <2>2, <2>3, <2>5, <2>6
    <2> QED BY <2>7 DEF room
  <1> QED BY <1>1, QuotasHold, PTL

-----------------------------------------------------------------------------
Settled == {j \in Jobs : outcome[j] # "open"}
abstract == <<whole, altered, rows, log, outcome, result>>

LEMMA Stutters ==
    ASSUME UNCHANGED abstract
    PROVE  UNCHANGED DS!vars
  <1>1. Settled' = Settled BY DEF abstract, Settled
  <1> QED BY <1>1 DEF abstract, Settled, DS!vars

\* A worker that settles its job settles it for Distribution.
LEMMA Settles ==
    ASSUME TypeOK, Safe, NEW w \in Workers, pc[w] \in Busy, NEW o \in {"copied", "failed"},
           Settle(w, o), UNCHANGED <<whole, altered, rows, result>>,
           log' = log \/ (pc[w] = "log" /\ log' = log \cup {job[w]})
    PROVE  DS!Next
  <1>1. job[w] \in Jobs BY Working
  <1>2. outcome \in [Jobs -> {"open", "copied", "failed"}] BY DEF TypeOK, CopiesOK
  <1>3. outcome[job[w]] = "open" BY <1>1 DEF Safe, Held
  <1>4. outcome' = [outcome EXCEPT ![job[w]] = o] BY DEF Settle
  <1>5. Settled' = Settled \cup {job[w]} BY <1>1, <1>2, <1>4 DEF Settled
  <1>6. job[w] \notin Settled BY <1>3 DEF Settled
  <1>7. pc[w] = "log" => job[w] \in whole \cup altered BY DEF Safe, Carried
  <1>8. PICK j \in Jobs : j = job[w] BY <1>1
  <1>9. DS!Settle(j) BY <1>5, <1>6, <1>7, <1>8 DEF Settled, DS!Settle
  <1> QED BY <1>9 DEF DS!Next

LEMMA RefineInit == Init => DS!Init
  <1> SUFFICES ASSUME Init PROVE DS!Init OBVIOUS
  <1>1. Settled = {} BY DEF Init, Settled
  <1> QED BY <1>1 DEF Init, Settled, DS!Init

\* An upload that is stored delivers, if the size went through the pipe.
LEMMA RefineStored ==
    ASSUME TypeOK, NEW w \in Workers, pc[w] \in Busy, Stored(w),
           UNCHANGED <<altered, rows, log, outcome, result>>
    PROVE  [DS!Next]_DS!vars
  <1>1. CASE w \in through
    <2>1. whole' = whole \cup {job[w]} BY <1>1 DEF Stored
    <2>2. job[w] \in Jobs BY Working
    <2>3. Settled' = Settled BY DEF Settled
    <2>4. DS!Deliver(job[w]) BY <2>1, <2>3 DEF Settled, DS!Deliver
    <2> QED BY <2>2, <2>4 DEF DS!Next
  <1>2. CASE w \notin through
    <2>1. whole' = whole BY <1>2 DEF Stored
    <2> QED BY <2>1, Stutters DEF abstract
  <1> QED BY <1>1, <1>2

LEMMA RefineRecord ==
    ASSUME TypeOK, Safe, NEW w \in Workers, Record(w)
    PROVE  DS!Next
  <1>1. job[w] \in Jobs BY Working DEF Record, Busy
  <1>2. job[w] \in whole \cup altered BY DEF Record, Safe, Carried
  <1>3. job[w] \notin Settled
    BY <1>1 DEF Safe, Held, Settled
  <1>4. UNCHANGED <<whole, altered, log, outcome, result>> /\ rows' = rows \cup {job[w]}
    BY DEF Record, pool, history
  <1>5. Settled' = Settled BY <1>4 DEF Settled
  <1>6. DS!Enter(job[w]) BY <1>2, <1>3, <1>4, <1>5 DEF Settled, DS!Enter
  <1> QED BY <1>1, <1>6 DEF DS!Next

LEMMA RefineReturn ==
    ASSUME TypeOK, Safe, Return
    PROVE  DS!Next
  <1>1. UNCHANGED <<whole, altered, rows, log, outcome>>
    BY DEF Return, history, db
  <1>2. Settled' = Settled BY <1>1 DEF Settled
  <1>3. errs \in Nat BY DEF TypeOK, PoolOK
  <1>4. CASE errs > 0
    BY <1>1, <1>2, <1>4 DEF Return, Settled, DS!Report, DS!Next
  <1>5. CASE errs = 0
    <2>1. Settled = Jobs BY <1>5, AllSettled DEF Return, Safe, Settled
    <2>2. result = "none" /\ result' = "ok" BY <1>5 DEF Return
    <2> QED BY <1>1, <1>2, <2>1, <2>2 DEF Settled, DS!Report, DS!Next
  <1> QED BY <1>3, <1>4, <1>5

LEMMA RefineAlter ==
    ASSUME TypeOK, NEW f \in Files, Alter(f)
    PROVE  DS!Next
  <1> DEFINE S == {j \in Jobs : FileOf[j] = f}
  <1>1. UNCHANGED <<whole, rows, log, outcome, result>> /\ altered' = altered \cup S
    BY DEF Alter, db, pool
  <1>2. Settled' = Settled BY <1>1 DEF Settled
  <1>3. S \in SUBSET Jobs OBVIOUS
  <1>4. DS!Alter(S) BY <1>1, <1>2 DEF Settled, DS!Alter
  <1> QED BY <1>3, <1>4 DEF DS!Next

\* Every step of the pool is one of Distribution's, or none to it.
LEMMA RefineStep ==
    ASSUME TypeOK, Safe, [Next]_vars
    PROVE  [DS!Next]_DS!vars
  <1>1. ASSUME NEW w \in Workers, Worker(w) PROVE [DS!Next]_DS!vars
    <2>1. CASE Record(w) BY <2>1, RefineRecord
    <2>2. CASE LogCopy(w)
      <3>1. pc[w] \in Busy /\ pc[w] = "log" BY <2>2 DEF LogCopy, Busy
      <3>2. Settle(w, "copied") /\ UNCHANGED <<whole, altered, rows, result>>
        BY <2>2 DEF LogCopy, pool
      <3>3. log' = log \/ log' = log \cup {job[w]} BY <2>2 DEF LogCopy
      <3> QED BY <3>1, <3>2, <3>3, Settles
    <2>3. CASE GiveUp(w)
      <3>1. pc[w] \in Busy BY <2>3 DEF GiveUp, GivingUp, Busy
      <3>2. Settle(w, "failed") /\ UNCHANGED <<whole, altered, rows, log, result>>
        BY <2>3 DEF GiveUp, GivingUp, db, history
      <3> QED BY <3>1, <3>2, Settles
    <2>4. CASE Take(w) \/ NoMoreJobs(w) \/ Open(w) \/ NoSourceLeft(w) \/ Retry(w)
      <3>1. UNCHANGED abstract
        BY <2>4 DEF Take, NoMoreJobs, Open, NoSourceLeft, Retry, abstract, db, pool,
                    history
      <3> QED BY <3>1, Stutters
    <2>5. CASE NextSource(w) \/ Copied(w)
      <3>1. UNCHANGED abstract
        BY <2>5 DEF NextSource, Copied, abstract, db, pool, history
      <3> QED BY <3>1, Stutters
    <2>6. CASE Destination(w)
      <3>1. UNCHANGED abstract
        BY <2>6 DEF Destination, LookCached, Ask, Fill, Reserve, FirstUnquoted, Refuse,
                    abstract, db, pool, history
      <3> QED BY <3>1, Stutters
    <2> QED BY <1>1, <2>1, <2>2, <2>3, <2>4, <2>5, <2>6 DEF Worker
  <1>2. ASSUME NEW w \in Workers, Download(w) \/ DownloadFails(w) \/ DownloadPanics(w)
        PROVE  [DS!Next]_DS!vars
    <2>1. UNCHANGED abstract
      BY <1>2 DEF Download, Flow, DownloadEnds, DownloadCut, DownloadFails,
                  DownloadPanics, Rest, abstract, db, pool, history
    <2> QED BY <2>1, Stutters
  <1>3. ASSUME NEW w \in Workers, UploadDone(w) \/ UploadReplyLost(w)
        PROVE  [DS!Next]_DS!vars
    <2>1. Stored(w) /\ UNCHANGED <<altered, rows, log, outcome, result>>
      BY <1>3 DEF UploadDone, UploadReplyLost, Uploaded, db, pool
    <2>2. pc[w] \in Busy
      BY <1>3 DEF UploadDone, UploadReplyLost, Uploaded, Busy
    <2> QED BY <2>1, <2>2, RefineStored
  <1>4. ASSUME NEW w \in Workers, UploadRefused(w) \/ UploadFails(w)
        PROVE  [DS!Next]_DS!vars
    <2>1. UNCHANGED abstract
      BY <1>4 DEF UploadRefused, UploadFails, Uploaded, abstract, db, pool
    <2> QED BY <2>1, Stutters
  <1>5. ASSUME NEW w \in Workers,
               AskFails(w) \/ NoFolder(w) \/ Skip(w) \/ RolledBack(w)
        PROVE  [DS!Next]_DS!vars
    <2>1. UNCHANGED abstract
      BY <1>5 DEF AskFails, NoFolder, Skip, RolledBack, abstract, db, pool
    <2> QED BY <2>1, Stutters
  <1>6. ASSUME NEW w \in Workers, RecordFails(w) PROVE [DS!Next]_DS!vars
    <2>1. pc[w] \in Busy BY <1>6 DEF RecordFails, Busy
    <2>2. Settle(w, "copied") /\ UNCHANGED <<whole, altered, rows, log, result>>
      BY <1>6 DEF RecordFails, db, pool
    <2> QED BY <2>1, <2>2, Settles
  <1>7. CASE Return BY <1>7, RefineReturn
  <1>8. ASSUME NEW f \in Files, Alter(f) PROVE [DS!Next]_DS!vars
    BY <1>8, RefineAlter
  <1>9. CASE UNCHANGED vars
    <2>1. UNCHANGED abstract BY <1>9 DEF vars, abstract, db, pool, history
    <2> QED BY <2>1, Stutters
  <1> QED BY <1>1, <1>2, <1>3, <1>4, <1>5, <1>6, <1>7, <1>8, <1>9
          DEF Next, Upload, Goes

\* The pool implements Distribution: a copy is entered when it is delivered or
\* its source had changed, settled once, checkpointed only then, and a
\* sync that reports success has settled them all.
THEOREM Refinement == Spec => Implements
  <1>1. TypeOK /\ Safe /\ [Next]_vars => [DS!Next]_DS!vars BY RefineStep
  <1> QED BY <1>1, RefineInit, Invariance, PTL DEF Spec, Implements, DS!Spec

=============================================================================
