------------------------------ MODULE Ownership ------------------------------
(***************************************************************************)
(* FreeMain and BalanceStorage: how the objects of the library pass from   *)
(* one Google account to another.  A handover is a sequence of calls, and  *)
(* between any two of them the process may be killed: a direct transfer,   *)
(* or the way by consent (out of the shared tree, offer, acceptance, back  *)
(* into the tree), or a copy and the deletion of the original; then the    *)
(* rows, the planned quotas and the checkpoint.                            *)
(*                                                                         *)
(* One sync at a time works through its steps; the next resumes it at the  *)
(* step that was not marked.  Other providers are left out.                *)
(***************************************************************************)
EXTENDS Integers, FiniteSets

CONSTANTS
  Backups,      \* Google backup accounts
  Main,         \* the main account, in whose tree all of them work
  Files,        \* logical files
  Ids,          \* ids Google may give to objects
  None,         \* no file, id or account
  Size,         \* the size of each file
  Total,        \* the quota of each backup account; 0 when it has no limit
  Starts,       \* what Google may hold at the beginning
  MaxFaults     \* bound on failures, lost replies and kills

Accounts == Backups \cup {Main}

\* An account's limits are those Google reports; at the beginning none is
\* exceeded.
ASSUME OwnershipAssumption ==
    /\ Main \notin Backups /\ None \notin Backups \cup {Main} \cup Files \cup Ids
    /\ Size \in [Files -> Nat] /\ Total \in [Backups -> Nat]
    /\ Starts \subseteq [of : [Ids -> Files], owner : [Ids -> Accounts],
                        born : SUBSET Ids, stored : [Backups -> Nat]]
    /\ \A s \in Starts :
         /\ \A f \in Files : \E i \in s.born : s.of[i] = f
         /\ \A b \in Backups : Total[b] > 0 => s.stored[b] <= Total[b]
    /\ {"in", "gone", "unborn"} \cap Accounts = {}
    /\ MaxFaults \in Nat

ASSUME FewBackups == IsFiniteSet(Backups)

VARIABLES
  \* Google
  of, owner,    \* of an object: its file (content) and its owner
  place,        \* "in" the shared tree, in the root of an account, or not there
  stored,       \* bytes each backup account is charged for
  consent,      \* accounts to which no ownership passes without their consent
  \* the database
  state,        \* of an account's row of an object: "none", "active", "deleted"
  claimed,      \* the owner that the row names
  done,         \* checkpoints: <<step, file, account>> of the incomplete run
  resume,       \* the first step of the incomplete run that is not marked
  \* the process
  pc,
  known, used,  \* accounts whose quota was read; what the process believes
  targets, sources, left, \* of FreeMain or BalanceStorage; sources still to do
  src, todo,    \* the account that gives, the files still to be considered
  job, copy,    \* the handover under way; the copy made by fallbackCopyDelete
  \* history
  faults, calm, \* faults so far; nothing has gone wrong since this run began
  unseen        \* accounts holding what a call stored that was reported failed

google == <<of, owner, place, stored, consent>>
rows == <<state, claimed>>
run == <<done, resume>>
plan == <<known, used, targets, sources, left, src, todo>>
work == <<job, copy>>
history == <<faults, calm, unseen>>
vars == <<google, rows, run, pc, plan, work, history>>

Live(i) == place[i] \notin {"gone", "unborn"}
NoJob == [file |-> None, id |-> None, to |-> None, home |-> "in"]

Fault == faults < MaxFaults /\ faults' = faults + 1 /\ calm' = FALSE
FaultAt(a) == Fault /\ unseen' = unseen \cup {a}
NoFault == UNCHANGED history
-----------------------------------------------------------------------------
Init ==
    \E s \in Starts :
      /\ of = s.of /\ owner = s.owner /\ stored = s.stored
      /\ place = [i \in Ids |-> IF i \in s.born THEN "in" ELSE "unborn"]
      /\ consent \in SUBSET Backups
      /\ state = [r \in Accounts \X Ids |-> "none"]
      /\ claimed = [r \in Accounts \X Ids |-> Main]
      /\ done = {} /\ resume = "unsynced" /\ pc = "idle"
      /\ known = {} /\ used = [b \in Backups |-> 0]
      /\ targets = {} /\ sources = {} /\ left = {} /\ src = Main /\ todo = {}
      /\ job = NoJob /\ copy = None
      /\ faults = 0 /\ calm = FALSE /\ unseen = {}

(***************************************************************************)
(* A sync begins.  getQuota reads what is stored and keeps it for as long  *)
(* as the process lives.  QuotaAction fails a run from its beginning when  *)
(* an account's quota cannot be read; a resumed run goes on without it.    *)
(***************************************************************************)
Begin ==
    /\ pc = "idle"
    /\ \E K \in SUBSET Backups :
         /\ known' = K /\ used' = stored
         /\ \/ K = Backups /\ faults' = faults /\ calm' = (resume = "unsynced")
            \/ K # Backups /\ resume \notin {"unsynced", "scan"} /\ Fault
    /\ pc' = resume
    /\ targets' = {} /\ sources' = {} /\ left' = {} /\ src' = Main /\ todo' = {}
    /\ UNCHANGED <<google, rows, run, work, unseen>>

\* A step is over and marked.
MarkStep(from, to) ==
    /\ pc = from /\ pc' = to /\ resume' = to

\* MoveUnsyncedFiles pulls what lies in the roots of backup accounts into the
\* tree; a move that fails is logged.
MoveUnsynced ==
    LET strays == {i \in Ids : place[i] \in Backups}
    IN  /\ MarkStep("unsynced", "scan")
        /\ \E M \in SUBSET strays :
             /\ place' = [i \in Ids |-> IF i \in M THEN "in" ELSE place[i]]
             /\ IF M = strays THEN NoFault ELSE Fault /\ UNCHANGED unseen
        /\ UNCHANGED <<of, owner, stored, consent, rows, done, plan, work>>

\* BatchInsertFiles and MarkDeletedReplicas, for the accounts whose listing
\* came in: a row that is there takes the owner, one that is marked deleted
\* stays so, and a row that was not refreshed is marked.
Refreshed(missed) ==
    LET lists(a, i) == a \notin missed /\ place[i] = "in"
    IN  /\ state' = [r \in Accounts \X Ids |->
              IF lists(r[1], r[2])
                THEN IF state[r] = "deleted" THEN "deleted" ELSE "active"
                ELSE IF state[r] = "active" THEN "deleted" ELSE state[r]]
        /\ claimed' = [r \in Accounts \X Ids |->
              IF lists(r[1], r[2]) THEN owner[r[2]] ELSE claimed[r]]

\* GetMetadata, before FreeMain and again in SyncProviders.
Scan(missed) ==
    /\ \/ MarkStep("scan", "free") \/ MarkStep("sync", "balance")
    /\ Refreshed(missed)
    /\ IF missed = {} THEN NoFault ELSE Fault /\ UNCHANGED unseen
    /\ UNCHANGED <<google, done, plan, work>>
-----------------------------------------------------------------------------
Left(a) == Total[a] - used[a]
\* Mutant: the fullest account that has space.
Fullest == {t \in targets : \A u \in targets : Left(t) <= Left(u)}
\* The accounts with most free space, the first after sorting.
Emptiest == {t \in targets : \A u \in targets : Left(u) <= Left(t)}
Fitting(f) == {t \in Emptiest : Left(t) > Size[f]}
Largest == {f \in todo : \A g \in todo : Size[g] <= Size[f]}
Step == IF src = Main THEN "freemain" ELSE "balance"

\* The objects that, by the rows, the giving account owns: FreeMain asks the
\* main account's own rows, BalanceStorage anyone's.
Owned(a, f) ==
    {i \in Ids : of[i] = f /\ \E b \in Accounts :
        state[<<b, i>>] = "active" /\ claimed[<<b, i>>] = a /\ (a = Main => b = Main)}
Candidates(a) == {f \in Files : Owned(a, f) # {}}

\* FreeMain takes the accounts with free space and the files main owns.
EnterFree ==
    /\ pc = "free" /\ pc' = "choose"
    /\ src' = Main /\ targets' = {t \in known : Left(t) > 0}
    /\ todo' = IF targets' = {} THEN {} ELSE Candidates(Main)
    /\ UNCHANGED <<google, rows, run, known, used, sources, left, work, history>>

\* BalanceStorage takes from accounts above 95 % and gives to those below 90 %;
\* it looks at one source after the other.
EnterBalance ==
    /\ pc = "balance" /\ pc' = "source"
    /\ sources' = {a \in known : 100 * used[a] > 95 * Total[a]}
    /\ targets' = {a \in known : 100 * used[a] < 90 * Total[a]}
    /\ left' = IF targets' = {} THEN {} ELSE sources'
    /\ UNCHANGED <<google, rows, run, known, used, src, todo, work, history>>

NextSource ==
    /\ pc = "source" /\ left # {} /\ pc' = "choose"
    /\ \E a \in left : src' = a /\ left' = left \ {a} /\ todo' = Candidates(a)
    /\ UNCHANGED <<google, rows, run, known, used, targets, sources, work, history>>

\* Mutant: only the giver's quota is adjusted.
ChargedGiverOnly(f, t) == [b \in Backups |-> IF b = src THEN used[b] - Size[f] ELSE used[b]]
\* What the process adds to the account that receives it takes from the one
\* that gives (main's quota is not looked at again).
Charged(f, t) ==
    [b \in Backups |-> IF b = t THEN used[b] + Size[f]
                       ELSE IF b = src THEN used[b] - Size[f] ELSE used[b]]

\* A file that a checkpoint of this run says was handed over is accounted for
\* once more and passed over.
Handed(f) == {t \in targets : <<Step, f, t>> \in done}
Skip(f) ==
    /\ pc = "choose" /\ f \in Largest
    /\ \E t \in Handed(f) : used' = Charged(f, t)
    /\ todo' = todo \ {f}
    /\ UNCHANGED <<google, rows, run, pc, known, targets, sources, left, src, work, history>>

\* Mutant: the threshold that made it a source.
RelievedEarly == src # Main /\ 100 * used[src] < 95 * Total[src]
\* BalanceStorage stops at a source that has come below 90 %.
Relieved == src # Main /\ 100 * used[src] < 90 * Total[src]

NoRoom(f) ==
    /\ pc = "choose" /\ f \in Largest /\ Handed(f) = {} /\ ~Relieved
    /\ Fitting(f) = {}
    /\ todo' = todo \ {f}
    /\ UNCHANGED <<google, rows, run, pc, known, used, targets, sources, left, src, work, history>>

Choose(f) ==
    /\ pc = "choose" /\ f \in Largest /\ Handed(f) = {} /\ ~Relieved
    /\ \E t \in Fitting(f), i \in Owned(src, f) :
         job' = [file |-> f, id |-> i, to |-> t, home |-> place[i]]
    /\ pc' = "offer"
    /\ UNCHANGED <<google, rows, run, plan, copy, history>>

\* The files of FreeMain, or of one source, are done.
Chosen ==
    /\ pc = "choose" /\ todo' = {}
    /\ \/ todo = {}
       \/ Relieved /\ \E f \in Largest : Handed(f) = {}
    /\ IF src = Main THEN MarkStep("choose", "sync")
                     ELSE pc' = "source" /\ resume' = resume
    /\ UNCHANGED <<google, rows, done, known, used, targets, sources, left, src, work, history>>

\* The last step is marked and the run completed; the next one has no
\* checkpoints.
Complete ==
    /\ pc = "source" /\ left = {}
    /\ pc' = "idle" /\ resume' = "unsynced" /\ done' = {}
    /\ UNCHANGED <<google, rows, plan, work, history>>
-----------------------------------------------------------------------------
(* The handover: transferOwnershipWithFallback, fallbackCopyDelete.        *)

Giving == Live(job.id) /\ owner[job.id] = src

\* The object of the handover becomes the receiver's, with its bytes.
Passes ==
    /\ owner' = [owner EXCEPT ![job.id] = job.to]
    /\ stored' = [b \in Backups |->
          IF b = job.to THEN stored[b] + Size[job.file]
          ELSE IF b = src THEN stored[b] - Size[job.file] ELSE stored[b]]

\* Mutant: the handover is not forgotten.
GiveUpHolding ==
    /\ pc' = "choose" /\ todo' = todo \ {job.file} /\ UNCHANGED work
    /\ UNCHANGED <<rows, run, known, used, targets, sources, left, src>>
\* The handover has failed: it is logged, and the next file is looked at.
GiveUp ==
    /\ pc' = "choose" /\ todo' = todo \ {job.file} /\ job' = NoJob /\ copy' = None
    /\ UNCHANGED <<rows, run, known, used, targets, sources, left, src>>

Goes(next) ==
    /\ pc' = next /\ UNCHANGED <<rows, run, plan, job>>

\* TransferOwnership, first attempt.  What the giver does not own (any more)
\* it cannot give.
OfferDirectly ==
    /\ pc = "offer" /\ Giving /\ job.to \notin consent
    /\ Passes /\ Goes("record") /\ NoFault
    /\ UNCHANGED <<of, place, consent, copy>>

OfferReplyLost ==
    /\ pc = "offer" /\ Giving /\ job.to \notin consent
    /\ Passes /\ GiveUp /\ FaultAt(job.to)
    /\ UNCHANGED <<of, place, consent>>

\* Mutant: the failure does not end the handover.
OfferFailsCounted ==
    /\ pc = "offer" /\ pc' = "account" /\ UNCHANGED <<google, rows, run, plan, work>>
    /\ IF Giving THEN Fault /\ UNCHANGED unseen ELSE NoFault

OfferFails ==
    /\ pc = "offer" /\ GiveUp
    /\ IF Giving THEN Fault /\ UNCHANGED unseen ELSE NoFault
    /\ UNCHANGED google

\* The account must consent: the object is taken out of the shared tree, into
\* its owner's root, or that fails.
TakeOut ==
    /\ pc = "offer" /\ Giving /\ job.to \in consent
    /\ place' = [place EXCEPT ![job.id] = src]
    /\ \/ Goes("grant") /\ NoFault /\ UNCHANGED copy
       \/ GiveUp /\ Fault /\ UNCHANGED unseen
    /\ UNCHANGED <<of, owner, stored, consent>>

\* It is shared with the receiver and offered to it.
Grant ==
    /\ pc = "grant" /\ Goes("accept") /\ NoFault /\ UNCHANGED <<google, copy>>

\* After a failure FreeMain copies the file if the error speaks of consent.
CopyInstead == src = Main /\ Goes("copy") /\ UNCHANGED copy

\* Sharing or offering has failed: the object is put back where it was, and
\* whether that went well is not looked at.
GrantFails ==
    /\ pc = "grant" /\ Fault /\ UNCHANGED unseen
    /\ \E p \in {job.home, src} : place' = [place EXCEPT ![job.id] = p]
    /\ GiveUp \/ CopyInstead
    /\ UNCHANGED <<of, owner, stored, consent>>

\* AcceptOwnership, called for the receiver.
Accept ==
    /\ pc = "accept" /\ Passes /\ Goes("place") /\ NoFault
    /\ UNCHANGED <<of, place, consent, copy>>

AcceptReplyLost ==
    /\ pc = "accept" /\ Passes /\ GiveUp /\ FaultAt(job.to)
    /\ UNCHANGED <<of, place, consent>>

\* The object stays where it is, outside the tree.
AcceptFails ==
    /\ pc = "accept" /\ Fault /\ UNCHANGED unseen
    /\ GiveUp \/ CopyInstead
    /\ UNCHANGED google

\* The receiver moves it into the folder of its path, or fails to, which is
\* logged.
PutBack ==
    /\ pc = "place" /\ Goes("record")
    /\ \/ place' = [place EXCEPT ![job.id] = "in"] /\ NoFault
       \/ place' = place /\ Fault /\ UNCHANGED unseen
    /\ UNCHANGED <<of, owner, stored, consent, copy>>

\* Mutant: a row that the receiver has already is taken for the result.
OwnerUpdatedUnless ==
    LET old == <<src, job.id>>
        new == <<job.to, job.id>>
    IN  IF state[new] # "none"
        THEN UNCHANGED rows
        ELSE /\ state' = [state EXCEPT ![old] = "none", ![new] = state[old]]
             /\ claimed' = [claimed EXCEPT ![new] = job.to]
\* UpdateReplicaOwner: if the receiver has a row of the object the giver's is
\* removed, else the giver's becomes the receiver's; the statement may fail.
OwnerUpdated ==
    LET old == <<src, job.id>>
        new == <<job.to, job.id>>
    IN  IF state[new] # "none"
        THEN state' = [state EXCEPT ![old] = "none"] /\ claimed' = claimed
        ELSE /\ state' = [state EXCEPT ![old] = "none", ![new] = state[old]]
             /\ claimed' = [claimed EXCEPT ![new] = job.to]
Record ==
    /\ pc = "record" /\ pc' = "account"
    /\ \/ OwnerUpdated /\ NoFault
       \/ UNCHANGED <<rows, unseen>> /\ Fault
    /\ UNCHANGED <<google, run, plan, work>>

\* The planned quotas, the checkpoint, the next file.
Account ==
    /\ pc = "account" /\ pc' = "choose"
    /\ used' = Charged(job.file, job.to)
    /\ done' = done \cup {<<Step, job.file, job.to>>}
    /\ todo' = todo \ {job.file} /\ job' = NoJob /\ copy' = None
    /\ UNCHANGED <<google, rows, resume, known, targets, sources, left, src, history>>

\* fallbackCopyDelete downloads what main has into an upload for the receiver.
NewCopy(j) ==
    /\ place[j] = "unborn"
    /\ of' = [of EXCEPT ![j] = job.file] /\ owner' = [owner EXCEPT ![j] = job.to]
    /\ place' = [place EXCEPT ![j] = "in"]
    /\ stored' = [stored EXCEPT ![job.to] = @ + Size[job.file]]

CopyOver ==
    /\ pc = "copy"
    /\ \E j \in Ids : NewCopy(j) /\ copy' = j
    /\ Goes("erase") /\ NoFault /\ UNCHANGED consent

\* An upload that is reported as failed may have been made.
CopyReplyLost ==
    /\ pc = "copy"
    /\ \E j \in Ids : NewCopy(j)
    /\ GiveUp /\ FaultAt(job.to) /\ UNCHANGED consent

\* Mutant: the error of the upload is not looked at.
CopyOverUnchecked ==
    /\ pc = "copy" /\ Goes("erase") /\ Fault /\ UNCHANGED <<google, unseen, copy>>
CopyOverFails ==
    /\ pc = "copy" /\ GiveUp /\ Fault /\ UNCHANGED <<google, unseen>>

\* The original is deleted, and the rows say so; or the deletion fails, or is
\* reported to have failed, and the copy becomes one more row.
Erase ==
    /\ pc = "erase"
    /\ place' = [place EXCEPT ![job.id] = "gone"]
    /\ \/ Goes("rekey") /\ NoFault
       \/ Goes("insert") /\ Fault /\ UNCHANGED unseen
    /\ UNCHANGED <<of, owner, stored, consent, copy>>

EraseFails ==
    /\ pc = "erase" /\ Goes("insert") /\ Fault
    /\ UNCHANGED <<google, copy, unseen>>

\* reconcileFallbackDB: main's row comes to name the copy, and the other rows
\* of the original are marked deleted; either statement may fail.
Rekeyed ==
    LET old == <<Main, job.id>>
        new == <<job.to, copy>>
    IN  /\ claimed' = [claimed EXCEPT ![new] = job.to]
        /\ \E marked \in {TRUE, FALSE} :
             /\ state' = [r \in Accounts \X Ids |->
                   IF r = new THEN state[old]
                   ELSE IF r = old THEN "none"
                   ELSE IF marked /\ r[2] = job.id /\ state[r] = "active"
                        THEN "deleted" ELSE state[r]]
             /\ IF marked THEN NoFault ELSE Fault /\ UNCHANGED unseen
Rekey ==
    /\ pc = "rekey" /\ pc' = "account"
    /\ \/ Rekeyed
       \/ UNCHANGED <<rows, unseen>> /\ Fault
    /\ UNCHANGED <<google, run, plan, work>>

Insert ==
    /\ pc = "insert" /\ pc' = "account"
    /\ \/ /\ state' = [state EXCEPT ![<<job.to, copy>>] = "active"]
          /\ claimed' = [claimed EXCEPT ![<<job.to, copy>>] = job.to]
          /\ NoFault
       \/ UNCHANGED <<rows, unseen>> /\ Fault
    /\ UNCHANGED <<google, run, plan, work>>

\* The process is killed: all that it knew is gone.
Kill ==
    /\ pc # "idle" /\ pc' = "idle" /\ Fault
    /\ known' = {} /\ used' = [b \in Backups |-> 0]
    /\ targets' = {} /\ sources' = {} /\ left' = {} /\ src' = Main /\ todo' = {}
    /\ job' = NoJob /\ copy' = None
    /\ UNCHANGED <<google, rows, run, unseen>>
-----------------------------------------------------------------------------
Handover ==
    \/ OfferDirectly \/ OfferReplyLost \/ OfferFails \/ TakeOut \/ Grant \/ GrantFails
    \/ Accept \/ AcceptReplyLost \/ AcceptFails \/ PutBack \/ Record \/ Account
    \/ CopyOver \/ CopyReplyLost \/ CopyOverFails \/ Erase \/ EraseFails \/ Rekey \/ Insert

Next ==
    \/ Begin \/ MoveUnsynced \/ (\E missed \in SUBSET Accounts : Scan(missed))
    \/ EnterFree \/ EnterBalance \/ NextSource \/ Chosen \/ Complete
    \/ (\E f \in Files : Skip(f) \/ NoRoom(f) \/ Choose(f))
    \/ Handover \/ Kill

Spec == Init /\ [][Next]_vars
-----------------------------------------------------------------------------
Places == {"in", "gone", "unborn"} \cup Accounts
Jobs == [file : Files, id : Ids, to : Backups, home : Places]
Handing == {"offer", "grant", "accept", "place", "record", "account",
            "copy", "erase", "rekey", "insert"}
GoogleOK ==
    /\ of \in [Ids -> Files] /\ owner \in [Ids -> Accounts] /\ place \in [Ids -> Places]
    /\ stored \in [Backups -> Int] /\ consent \subseteq Backups
RowsOK ==
    /\ state \in [Accounts \X Ids -> {"none", "active", "deleted"}]
    /\ claimed \in [Accounts \X Ids -> Accounts]
RunOK ==
    /\ done \subseteq {"freemain", "balance"} \X Files \X Backups
    /\ resume \in {"unsynced", "scan", "free", "sync", "balance"}
HistoryOK ==
    /\ faults \in 0..MaxFaults /\ calm \in BOOLEAN /\ unseen \subseteq Backups
PlanOK ==
    /\ known \subseteq Backups /\ used \in [Backups -> Int]
    /\ targets \subseteq Backups /\ sources \subseteq Backups /\ left \subseteq Backups
    /\ src \in Accounts /\ todo \subseteq Files
WorkOK ==
    /\ pc \in {"idle", "unsynced", "scan", "free", "choose", "sync", "balance", "source"} \cup Handing
    /\ IF pc \in Handing THEN job \in Jobs ELSE job = NoJob
    /\ IF pc \in {"erase", "rekey", "insert"} THEN copy \in Ids ELSE copy \in Ids \cup {None}
TypeOK == GoogleOK /\ RowsOK /\ RunOK /\ HistoryOK /\ PlanOK /\ WorkOK

\* Whatever fails, is lost or killed, no file is ever without an object in
\* Google: fallbackCopyDelete deletes nothing before the copy is there.
CopyKept == \A f \in Files : \E i \in Ids : of[i] = f /\ Live(i)

\* What a checkpoint says was handed over is a backup account's, so that a
\* resumed run may pass it over.
CheckpointTrue ==
    \A d \in done : \E i \in Ids : of[i] = d[2] /\ Live(i) /\ owner[i] \in Backups

\* The quotas are read once and only calculated with afterwards, over kills,
\* checkpoints and failures: still no account is given more than it has room
\* for, unless a call stored something there and was reported as failed.
NeverOverfilled ==
    \A t \in Backups \ unseen : Total[t] > 0 => stored[t] <= Total[t]

\* Room that Google would really have for the file.
Room(t, f) == Total[t] - stored[t] > Size[f]
Passed(s, f) == \E t \in Backups : <<s, f, t>> \in done

\* FreeMain, in a run that nothing has disturbed, leaves on main only what
\* fits nowhere, or what a row of main's says is deleted.
FreesWhatFits ==
    calm /\ pc = "sync" =>
      \A i \in Ids : \A t \in Backups :
        place[i] = "in" /\ owner[i] = Main /\ state[<<Main, i>>] = "active"
           /\ ~Passed("freemain", of[i])
          => ~Room(t, of[i])

\* BalanceStorage, in such a run, brings an overfull account below 90 %, or
\* nothing of what it owns fits into the accounts that can take.  That is so as
\* long as no overfull account has another object of a file that the run has
\* handed over: such a file is passed over as done, and its bytes are counted
\* as moved.
Owns(a, i) == place[i] = "in" /\ owner[i] = a /\ \E b \in Accounts : state[<<b, i>>] = "active"
TwinLeft == \E i \in Ids, s \in sources : Owns(s, i) /\ Passed("balance", of[i])
BalanceSettles ==
    calm /\ pc = "source" /\ left = {} /\ ~TwinLeft =>
      \A s \in sources : 100 * stored[s] < 90 * Total[s] \/
        \A i \in Ids : \A t \in targets : Owns(s, i) => ~Room(t, of[i])

\* Between two listings the rows follow the handovers: no row in use names an
\* object that is gone, and no account's row calls its own what it gave away.
RowsFollow ==
    calm /\ pc \in {"sync", "source"} =>
      \A a \in Accounts : \A i \in Ids :
        state[<<a, i>>] = "active" => Live(i) /\ (claimed[<<a, i>>] = a => owner[i] = a)
=============================================================================
