------------------------------- MODULE CopyPool -------------------------------
(***************************************************************************)
(* The copies a sync makes (internal/task): syncMissingAndConflicts gives  *)
(* the jobs to a pool of workers; a worker chooses an account of the       *)
(* provider by the cached quotas and reserves the space (                  *)
(* getDestinationClient, getQuota, updateQuotaUsed), tries one replica     *)
(* after the other, each through a pipe that a goroutine of its own fills  *)
(* while the client's UploadFile empties it (copyFile), writes the row and *)
(* the checkpoint, and tries the whole again when the error is transient   *)
(* (WithRetry, internal/api/retry.go).                                     *)
(*                                                                         *)
(* A killed process stops between two steps and leaves what it has: what   *)
(* holds of every state holds of what the next process finds.              *)
(***************************************************************************)
EXTENDS Integers, Sequences, FiniteSets

CONSTANTS
    Workers,        \* goroutines of the pool (maxWorkers)
    Jobs,           \* copies to make: a file to a provider
    Files,
    Providers,
    Accounts,
    FileOf,         \* job -> its file
    GoesTo,         \* job -> its provider
    Size,           \* file -> its size
    Replicas,       \* file -> how many replicas can be read from
    Order,          \* provider -> its accounts but the main one, as configured
    Total,          \* account -> its space, 0 where there is no limit
    InUse,          \* account -> what is in it before
    Unquoted,       \* providers that are not asked for a quota (Telegram)
    BySize,         \* providers whose upload reads the size and not to the end
    MaxInt,         \* the largest int64
    ErrorRoom,      \* what the channel of errors holds (maxWorkers)
    MaxTries,       \* bound: attempts that WithRetry makes
    MaxFaults,      \* bound: calls that go wrong, sources that were altered
    None

ASSUME PoolAssumption ==
    /\ FileOf \in [Jobs -> Files] /\ GoesTo \in [Jobs -> Providers]
    /\ Size \in [Files -> Nat] /\ Replicas \in [Files -> Nat]
    /\ Order \in [Providers -> Seq(Accounts)]
    /\ Total \in [Accounts -> Nat] /\ InUse \in [Accounts -> Nat]
    /\ Unquoted \subseteq Providers /\ BySize \subseteq Providers
    /\ MaxInt \in Nat /\ ErrorRoom \in Nat /\ MaxTries \in Nat /\ MaxFaults \in Nat
    /\ IsFiniteSet(Jobs)
    /\ None \notin Accounts /\ None \notin Jobs /\ None \notin Int

ASSUME SomeWorker == Workers # {}

\* maxWorkers goroutines; an account is of the provider that its user names.
ASSUME QuotaAssumption ==
    /\ IsFiniteSet(Workers)
    /\ \A p, q \in Providers : \A i \in 1..Len(Order[p]), k \in 1..Len(Order[q]) :
         Order[p][i] = Order[q][k] => p = q

VARIABLES
    left,           \* the jobs no worker has taken
    pc, job, tries, \* worker -> where it is, its job and the attempts at it
    at, best, most, \* ... the next account to look at, the best yet, its space
    asked,          \* ... the usage the provider has just reported
    sources,        \* ... the replicas left to read from
    pipe, through,  \* ... its pipe; the workers whose pipe the size went through
    chan, up,       \* ... what the download and the upload have reported
    used, cached,   \* account -> its usage, and what is cached of it, or None
    whole,          \* the jobs whose provider holds the whole file
    rows, log,      \* the jobs with a row, and those in sync_copy_log
    outcome,        \* job -> how it ended
    errs, result,   \* the errors in the channel, and what the pool returns
    onError, warm,  \* stopOnError or not; whether the quotas were cached before
    faults, altered, astray, panicked   \* history

plan    == <<at, best, most, asked>>
stream  == <<pipe, through, chan, up>>
space   == <<used, cached, astray>>
db      == <<rows, log>>
pool    == <<errs, result>>
fixed   == <<onError, warm>>
history == <<faults, altered, panicked>>
vars    == <<left, pc, job, tries, plan, sources, stream, space, whole, db,
             outcome, pool, fixed, history>>

Fault == faults < MaxFaults /\ faults' = faults + 1
Go(w, c) == pc' = [pc EXCEPT ![w] = c]

F(w)    == FileOf[job[w]]
P(w)    == GoesTo[job[w]]
Sz(w)   == Size[F(w)]
Here(w) == Order[P(w)][at[w]]

-----------------------------------------------------------------------------
Init ==
    /\ left = Jobs
    /\ pc = [w \in Workers |-> "idle"]
    /\ job = [w \in Workers |-> None]
    /\ tries = [w \in Workers |-> 0]
    /\ at = [w \in Workers |-> 1]
    /\ best = [w \in Workers |-> None]
    /\ most = [w \in Workers |-> 0]
    /\ asked = [w \in Workers |-> 0]
    /\ sources = [w \in Workers |-> 0]
    /\ pipe = [w \in Workers |-> "none"]
    /\ through = {}
    /\ chan = [w \in Workers |-> "empty"]
    /\ up = [w \in Workers |-> "none"]
    /\ used = InUse
    /\ astray = [a \in Accounts |-> 0]
    /\ whole = {} /\ rows = {} /\ log = {}
    /\ outcome = [j \in Jobs |-> "open"]
    /\ errs = 0 /\ result = "none"
    /\ onError \in {"stop", "log"} /\ warm \in BOOLEAN
    /\ cached = [a \in Accounts |-> IF warm THEN InUse[a] ELSE None]
    /\ faults = 0 /\ altered = {} /\ panicked = FALSE

\* Nothing is known of any destination yet.
NoPlan(w) == /\ at' = [at EXCEPT ![w] = 1]
             /\ best' = [best EXCEPT ![w] = None]
             /\ most' = [most EXCEPT ![w] = 0]
             /\ asked' = [asked EXCEPT ![w] = 0]

\* copyFile begins, for the first or another time.  It sees the replicas the
\* file had, and perhaps those that other workers have appended to it meanwhile:
\* nothing guards the slice.  (A slice read while it is torn kills the process.)
Appended(f) == {j \in rows : FileOf[j] = f}
CopyFile(w, j) ==
    /\ NoPlan(w)
    /\ \E n \in 0..Cardinality(Appended(FileOf[j])) :
         LET k == Replicas[FileOf[j]] + n IN
         /\ sources' = [sources EXCEPT ![w] = k]
         /\ Go(w, IF k > 0 THEN "look" ELSE "refused")

\* A worker takes a job: their order is that of a Go map.
Take(w) ==
    /\ pc[w] = "idle"
    /\ \E j \in left :
         /\ left' = left \ {j}
         /\ job' = [job EXCEPT ![w] = j]
         /\ CopyFile(w, j)
    /\ tries' = [tries EXCEPT ![w] = 1]
    /\ UNCHANGED <<stream, space, whole, db, outcome, pool, fixed, history>>

NoMoreJobs(w) ==
    /\ pc[w] = "idle" /\ left = {}
    /\ Go(w, "ended")
    /\ UNCHANGED <<left, job, tries, plan, sources, stream, space, whole, db,
                   outcome, pool, fixed, history>>

-----------------------------------------------------------------------------
(* getDestinationClient *)

Free(a, u) == (IF Total[a] = 0 THEN MaxInt ELSE Total[a]) - u

\* Mutant: any space will do.
FitsAnyhow(a, u, size, m) == Free(a, u) > 0 /\ Free(a, u) > m

\* Account a, with u in use, has room for the file, and more than the best yet.
Fits(a, u, size, m) == Free(a, u) > size /\ Free(a, u) > m

Consider(w, u) ==
    /\ at' = [at EXCEPT ![w] = @ + 1]
    /\ IF Fits(Here(w), u, Sz(w), most[w])
       THEN /\ best' = [best EXCEPT ![w] = Here(w)]
            /\ most' = [most EXCEPT ![w] = Free(Here(w), u)]
       ELSE UNCHANGED <<best, most>>

Looking(w) == pc[w] = "look" /\ P(w) \notin Unquoted /\ at[w] <= Len(Order[P(w)])

LookCached(w) ==
    /\ Looking(w) /\ cached[Here(w)] # None
    /\ Consider(w, cached[Here(w)])
    /\ UNCHANGED <<left, pc, job, tries, asked, sources, stream, space, whole, db,
                   outcome, pool, fixed, history>>

\* Nothing is cached: the provider is asked, without the lock.
Ask(w) ==
    /\ Looking(w) /\ cached[Here(w)] = None
    /\ asked' = [asked EXCEPT ![w] = used[Here(w)]]
    /\ Go(w, "fill")
    /\ UNCHANGED <<left, job, tries, at, best, most, sources, stream, space, whole,
                   db, outcome, pool, fixed, history>>

AskFails(w) ==
    /\ Looking(w) /\ cached[Here(w)] = None /\ Fault
    /\ at' = [at EXCEPT ![w] = @ + 1]
    /\ UNCHANGED <<left, pc, job, tries, best, most, asked, sources, stream, space,
                   whole, db, outcome, pool, fixed, altered, panicked>>

\* The answer is cached, over what another worker may have cached and reserved.
Fill(w) ==
    /\ pc[w] = "fill"
    /\ cached' = [cached EXCEPT ![Here(w)] = asked[w]]
    /\ Consider(w, asked[w])
    /\ Go(w, "look")
    /\ UNCHANGED <<left, job, tries, asked, sources, stream, used, astray, whole, db,
                   outcome, pool, fixed, history>>

Looked(w) == /\ pc[w] = "look" /\ P(w) \notin Unquoted
             /\ at[w] > Len(Order[P(w)])

\* Mutant: the space is not reserved.
ReserveNothing(w) ==
    /\ Looked(w) /\ best[w] # None
    /\ cached' = cached
    /\ Go(w, "folder")
    /\ UNCHANGED <<left, job, tries, plan, sources, stream, used, astray, whole, db,
                   outcome, pool, fixed, history>>

\* Mutant: the reservation is subtracted.
ReserveLess(w) ==
    /\ Looked(w) /\ best[w] # None
    /\ cached' = [cached EXCEPT ![best[w]] = @ - Sz(w)]
    /\ Go(w, "folder")
    /\ UNCHANGED <<left, job, tries, plan, sources, stream, used, astray, whole, db,
                   outcome, pool, fixed, history>>

\* updateQuotaUsed, which knows nothing of an account that is not cached.  No
\* failure releases the space again.
Reserve(w) ==
    /\ Looked(w) /\ best[w] # None
    /\ cached' = [cached EXCEPT ![best[w]] =
                    IF @ = None THEN None ELSE @ + Sz(w)]
    /\ Go(w, "folder")
    /\ UNCHANGED <<left, job, tries, plan, sources, stream, used, astray, whole, db,
                   outcome, pool, fixed, history>>

FirstUnquoted(w) ==
    /\ pc[w] = "look" /\ P(w) \in Unquoted /\ Order[P(w)] # <<>>
    /\ best' = [best EXCEPT ![w] = Order[P(w)][1]]
    /\ Go(w, "folder")
    /\ UNCHANGED <<left, job, tries, at, most, asked, sources, stream, space, whole,
                   db, outcome, pool, fixed, history>>

\* No account fits: an error that is not transient.
Refuse(w) ==
    /\ \/ Looked(w) /\ best[w] = None
       \/ pc[w] = "look" /\ P(w) \in Unquoted /\ Order[P(w)] = <<>>
    /\ Go(w, "refused")
    /\ UNCHANGED <<left, job, tries, plan, sources, stream, space, whole, db,
                   outcome, pool, fixed, history>>

-----------------------------------------------------------------------------
(* copyFile: one replica after the other *)

\* ensureFolderStructure fails.
NoFolder(w) ==
    /\ pc[w] = "folder" /\ Fault
    /\ Go(w, "failed")
    /\ UNCHANGED <<left, job, tries, plan, sources, stream, space, whole, db,
                   outcome, pool, fixed, altered, panicked>>

\* The folder is there, and there is a replica to read from.
Ready(w) == pc[w] \in {"folder", "source"} /\ sources[w] > 0

Open(w) ==
    /\ Ready(w)
    /\ sources' = [sources EXCEPT ![w] = @ - 1]
    /\ pipe' = [pipe EXCEPT ![w] = "open"]
    /\ Go(w, "send")
    /\ UNCHANGED <<left, job, tries, plan, through, chan, up, space, whole, db, outcome, pool, fixed,
                   history>>

\* There is no client for the replica's account.
Skip(w) ==
    /\ Ready(w) /\ Fault
    /\ sources' = [sources EXCEPT ![w] = @ - 1]
    /\ Go(w, "source")
    /\ UNCHANGED <<left, job, tries, plan, stream, space, whole, db, outcome,
                   pool, fixed, altered, panicked>>

\* Mutant: copyFile checkpoints before it knows that a replica was read.
NoSourceLogged(w) ==
    /\ pc[w] = "source" /\ sources[w] = 0
    /\ Go(w, "log")
    /\ UNCHANGED <<left, job, tries, plan, sources, stream, space, whole, db,
                   outcome, pool, fixed, history>>

NoSourceLeft(w) ==
    /\ pc[w] = "source" /\ sources[w] = 0
    /\ Go(w, "failed")
    /\ UNCHANGED <<left, job, tries, plan, sources, stream, space, whole, db,
                   outcome, pool, fixed, history>>

(* The goroutine that downloads.  It reports to the channel first and closes *)
(* the pipe in its deferred function, so the upload learns of it later.      *)
Rest == UNCHANGED <<left, pc, job, tries, plan, sources, up, space, whole, db,
                    outcome, pool, fixed>>

Flow(w) ==
    /\ pc[w] = "send" /\ pipe[w] = "open" /\ w \notin through
    /\ through' = through \cup {w}
    /\ UNCHANGED <<pipe, chan>> /\ Rest /\ UNCHANGED history

\* The source is at its end: all of it went through, or there was less of it
\* than the scan had seen.
DownloadEnds(w) ==
    /\ pc[w] = "send" /\ pipe[w] = "open"
    /\ w \in through \/ job[w] \in altered
    /\ chan' = [chan EXCEPT ![w] = "ok"]
    /\ pipe' = [pipe EXCEPT ![w] = "eof"]
    /\ UNCHANGED through /\ Rest /\ UNCHANGED history

\* Mutant: a source that is not found is skipped without an error.
DownloadSkipped(w) ==
    /\ pipe[w] = "open" /\ pc[w] \in {"send", "await"} /\ Fault
    /\ chan' = [chan EXCEPT ![w] = "ok"]
    /\ pipe' = [pipe EXCEPT ![w] = "eof"]
    /\ UNCHANGED <<through, altered, panicked>> /\ Rest

DownloadFails(w) ==
    /\ pipe[w] = "open" /\ pc[w] \in {"send", "await"} /\ Fault
    /\ chan' = [chan EXCEPT ![w] = "err"]
    /\ pipe' = [pipe EXCEPT ![w] = "broken"]
    /\ UNCHANGED <<through, altered, panicked>> /\ Rest

\* A panic is recovered: the pipe is closed with an error, nothing is reported.
DownloadPanics(w) ==
    /\ pipe[w] = "open" /\ pc[w] \in {"send", "await"} /\ Fault
    /\ pipe' = [pipe EXCEPT ![w] = "broken"]
    /\ panicked' = TRUE
    /\ UNCHANGED <<through, chan, altered>> /\ Rest

\* The reader is closed: what the download gets from its next write is
\* io.ErrClosedPipe, which counts as its end.
DownloadCut(w) ==
    /\ pc[w] = "await" /\ pipe[w] = "open"
    /\ chan' = [chan EXCEPT ![w] = "ok"]
    /\ pipe' = [pipe EXCEPT ![w] = "cut"]
    /\ UNCHANGED through /\ Rest /\ UNCHANGED history

Download(w) == Flow(w) \/ DownloadEnds(w) \/ DownloadCut(w)

(* UploadFile of the destination's client, and the reader closed behind it *)
Uploaded(w, r) ==
    /\ pc[w] = "send"
    /\ up' = [up EXCEPT ![w] = r]
    /\ Go(w, "await")
    /\ UNCHANGED <<left, job, tries, plan, sources, pipe, through, chan, cached, db,
                   outcome, pool, fixed, panicked>>

HasRoom(w) == Total[best[w]] = 0 \/ used[best[w]] + Sz(w) <= Total[best[w]]

\* What the upload reads comes to an end, or the size has been read of it.
Complete(w) == \/ pipe[w] = "eof"
               \/ P(w) \in BySize /\ w \in through

Stored(w) ==
    /\ Complete(w) /\ HasRoom(w)
    /\ used' = [used EXCEPT ![best[w]] = @ + Sz(w)]
    /\ whole' = IF w \in through THEN whole \cup {job[w]} ELSE whole

UploadDone(w) == /\ Uploaded(w, "ok") /\ Stored(w)
                 /\ UNCHANGED <<astray, faults, altered>>

\* The provider has the object, and the client does not know.
UploadReplyLost(w) ==
    /\ Uploaded(w, "err") /\ Stored(w) /\ Fault
    /\ astray' = [astray EXCEPT ![best[w]] = @ + Sz(w)]
    /\ UNCHANGED altered

UploadFails(w) ==
    /\ Uploaded(w, "err") /\ Fault
    /\ UNCHANGED <<used, astray, whole, altered>>

\* No fault of its own: the pipe is closed with an error, or the account full.
UploadRefused(w) ==
    /\ Uploaded(w, "err")
    /\ pipe[w] = "broken" \/ (Complete(w) /\ ~HasRoom(w))
    /\ UNCHANGED <<used, astray, whole, faults, altered>>

Upload(w) == UploadDone(w) \/ UploadRefused(w)

-----------------------------------------------------------------------------
Awaiting(w) == pc[w] = "await" /\ chan[w] # "empty"

\* Both ends of the pipe are done with.
Over(w) == /\ pipe' = [pipe EXCEPT ![w] = "none"]
           /\ through' = through \ {w}
           /\ chan' = [chan EXCEPT ![w] = "empty"]
           /\ up' = [up EXCEPT ![w] = "none"]

\* Upload and download are both over; one failed, and the next replica is
\* tried.  What the upload may have stored is not deleted.
NextSource(w) ==
    /\ Awaiting(w) /\ (up[w] = "err" \/ chan[w] = "err")
    /\ astray' = IF up[w] = "ok" THEN [astray EXCEPT ![best[w]] = @ + Sz(w)] ELSE astray
    /\ Over(w) /\ Go(w, "source")
    /\ UNCHANGED <<left, job, tries, plan, sources, used, cached, whole, db,
                   outcome, pool, fixed, history>>

\* Mutant: the error of the upload is not looked at.
CopiedWhenDownloaded(w) ==
    /\ Awaiting(w) /\ chan[w] = "ok"
    /\ Over(w) /\ Go(w, "record")
    /\ UNCHANGED <<left, job, tries, plan, sources, space, whole, db, outcome,
                   pool, fixed, history>>

Copied(w) ==
    /\ Awaiting(w) /\ up[w] = "ok" /\ chan[w] = "ok"
    /\ Over(w) /\ Go(w, "record")
    /\ UNCHANGED <<left, job, tries, plan, sources, space, whole, db, outcome,
                   pool, fixed, history>>

Record(w) ==
    /\ pc[w] = "record"
    /\ rows' = rows \cup {job[w]}
    /\ Go(w, "log")
    /\ UNCHANGED <<left, job, tries, plan, sources, stream, space, whole, log,
                   outcome, pool, fixed, history>>

\* The job is over, and with it what the worker knew of it.
Settle(w, o) == /\ outcome' = [outcome EXCEPT ![job[w]] = o]
                /\ job' = [job EXCEPT ![w] = None]
                /\ tries' = [tries EXCEPT ![w] = 0]
                /\ sources' = [sources EXCEPT ![w] = 0]
                /\ NoPlan(w)

\* The row is refused before it has an id: that is logged, and the copy counts
\* as made.
RecordFails(w) ==
    /\ pc[w] = "record" /\ Fault
    /\ Settle(w, "copied") /\ Go(w, "idle")
    /\ UNCHANGED <<left, stream, space, whole, db, pool, fixed,
                   altered, panicked>>

\* The row has its id, and is rolled back with the fragments or the commit that
\* fail: the id stays in memory, and the copy is checkpointed as if it had a row.
RolledBack(w) ==
    /\ pc[w] = "record" /\ Fault
    /\ Go(w, "log")
    /\ UNCHANGED <<left, job, tries, plan, sources, stream, space, whole, db,
                   outcome, pool, fixed, altered, panicked>>

\* LogSyncCopy, whose failure is logged as well.
LogCopy(w) ==
    /\ pc[w] = "log"
    /\ \/ log' = log \cup {job[w]} /\ UNCHANGED faults
       \/ log' = log /\ Fault
    /\ Settle(w, "copied") /\ Go(w, "idle")
    /\ UNCHANGED <<left, stream, space, whole, rows, pool, fixed,
                   altered, panicked>>

-----------------------------------------------------------------------------
(* WithRetry and the pool *)

\* A transient error: the whole of copyFile again, with another reservation.
Retry(w) ==
    /\ pc[w] = "failed" /\ tries[w] < MaxTries
    /\ tries' = [tries EXCEPT ![w] = @ + 1]
    /\ CopyFile(w, job[w])
    /\ UNCHANGED <<left, job, stream, space, whole, db, outcome, pool, fixed, history>>

GivingUp(w) == /\ pc[w] \in {"failed", "refused"}
               /\ Settle(w, "failed")
               /\ UNCHANGED <<left, stream, space, whole, db,
                              result, fixed, history>>

\* Mutant: the worker ends whatever stopOnError says.
GiveUpAndEnd(w) ==
    /\ GivingUp(w)
    /\ Go(w, "ended")
    /\ IF onError = "stop" THEN errs < ErrorRoom /\ errs' = errs + 1 ELSE UNCHANGED errs

\* Mutant: one error fits into the channel.
GiveUpToOne(w) ==
    /\ GivingUp(w)
    /\ IF onError = "stop" THEN errs < 1 /\ errs' = errs + 1 /\ Go(w, "ended")
               ELSE UNCHANGED errs /\ Go(w, "idle")

\* An error that is not transient, or has been for five minutes.  With
\* stopOnError the worker sends it to the channel, when it has room, and ends.
GiveUp(w) ==
    /\ GivingUp(w)
    /\ IF onError = "stop" THEN errs < ErrorRoom /\ errs' = errs + 1 /\ Go(w, "ended")
               ELSE UNCHANGED errs /\ Go(w, "idle")

\* All workers are done (WaitGroup); the first error, if there is one.
Return ==
    /\ result = "none" /\ \A w \in Workers : pc[w] = "ended"
    /\ result' = IF errs > 0 THEN "error" ELSE "ok"
    /\ UNCHANGED <<left, pc, job, tries, plan, sources, stream, space, whole, db,
                   outcome, errs, fixed, history>>

\* The user changes a file, or a row lacks a part of it: some replica no longer
\* has what the scan saw.
Alter(f) ==
    /\ {j \in Jobs : FileOf[j] = f} \cap altered = {} /\ Fault
    /\ altered' = altered \cup {j \in Jobs : FileOf[j] = f}
    /\ UNCHANGED <<left, pc, job, tries, plan, sources, stream, space, whole, db,
                   outcome, pool, fixed, panicked>>

Destination(w) == \/ LookCached(w) \/ Ask(w) \/ Fill(w) \/ Reserve(w)
                  \/ FirstUnquoted(w) \/ Refuse(w)
Worker(w) == \/ Take(w) \/ NoMoreJobs(w) \/ Destination(w)
             \/ Open(w) \/ NoSourceLeft(w) \/ NextSource(w) \/ Copied(w)
             \/ Record(w) \/ LogCopy(w) \/ Retry(w) \/ GiveUp(w)
Goes(w) == \/ AskFails(w) \/ NoFolder(w) \/ Skip(w)
           \/ DownloadFails(w) \/ DownloadPanics(w)
           \/ UploadReplyLost(w) \/ UploadFails(w)
           \/ RecordFails(w) \/ RolledBack(w)

Next == \/ \E w \in Workers : Worker(w) \/ Download(w) \/ Upload(w) \/ Goes(w)
        \/ Return \/ \E f \in Files : Alter(f)

Spec == Init /\ [][Next]_vars

\* Goroutines are scheduled, and a call to a provider is answered.
Fairness == /\ \A w \in Workers : /\ WF_vars(Worker(w))
                                  /\ WF_vars(Download(w))
                                  /\ WF_vars(Upload(w))
            /\ WF_vars(Return)
FairSpec == Spec /\ Fairness

-----------------------------------------------------------------------------
Busy == {"look", "fill", "folder", "source", "send", "await", "record", "log", "failed",
         "refused"}
WorkerOK ==
    /\ pc \in [Workers -> Busy \cup {"idle", "ended"}]
    /\ job \in [Workers -> Jobs \cup {None}]
    /\ tries \in [Workers -> Nat]
    /\ \A w \in Workers : pc[w] \in Busy <=> job[w] # None
PlanOK ==
    /\ at \in [Workers -> Nat \ {0}]
    /\ best \in [Workers -> Accounts \cup {None}]
    /\ most \in [Workers -> Int] /\ asked \in [Workers -> Nat]
    /\ sources \in [Workers -> Nat]
    /\ \A w \in Workers : pc[w] = "fill" => at[w] <= Len(Order[P(w)])
StreamOK ==
    /\ pipe \in [Workers -> {"none", "open", "eof", "broken", "cut"}]
    /\ through \subseteq Workers
    /\ chan \in [Workers -> {"empty", "ok", "err"}]
    /\ up \in [Workers -> {"none", "ok", "err"}]
SpaceOK ==
    /\ used \in [Accounts -> Nat] /\ cached \in [Accounts -> Nat \cup {None}]
    /\ astray \in [Accounts -> Nat]
CopiesOK ==
    /\ left \subseteq Jobs /\ altered \subseteq Jobs
    /\ whole \subseteq Jobs /\ rows \subseteq Jobs /\ log \subseteq Jobs
    /\ outcome \in [Jobs -> {"open", "copied", "failed"}]
PoolOK ==
    /\ errs \in 0..ErrorRoom /\ result \in {"none", "ok", "error"}
    /\ onError \in {"stop", "log"} /\ warm \in BOOLEAN /\ panicked \in BOOLEAN
    /\ faults \in 0..MaxFaults
TypeOK == WorkerOK /\ PlanOK /\ StreamOK /\ SpaceOK /\ CopiesOK /\ PoolOK

\* What the database has a row for is whole, however the download and the
\* upload of it overtook each other and whichever of them failed: unless the
\* source had become another, the provider holds all of it.
WholeCopy == rows \subseteq whole \cup altered

\* A resumed sync skips what the checkpoint names: it names only copies whose
\* provider holds the whole file, unless the source had become another.  That a
\* copy has a row is not promised: one that was rolled back is named all the
\* same (RolledBack), and enters the database when a later scan lists the object.
LogTrue == log \subseteq whole \cup altered

\* Reserving keeps the cached quotas ahead of the accounts: when they were
\* cached to begin with, all that is in an account is accounted for, but for
\* objects that were stored by attempts that failed.
Quoted == {a \in Accounts : \E p \in Providers \ Unquoted :
                               \E i \in 1..Len(Order[p]) : Order[p][i] = a}
Accounted == warm => \A a \in Quoted : used[a] <= cached[a] + astray[a]

\* Workers look at the quotas before they reserve, so an account may be promised
\* more than it has, but no more than one file too many for each other worker:
\* with sizes up to n, that bounds what the run makes of an account, if the
\* account is not beyond it from the beginning.
PromisedOnce ==
    warm => \A a \in Quoted, n \in {Size[f] : f \in Files} :
        Total[a] > 0 /\ (\A f \in Files : Size[f] <= n)
          => \/ cached[a] <= InUse[a]
             \/ cached[a] < Total[a] + (Cardinality(Workers) - 1) * n

\* The pool returns when every copy was made or given up, and not before; with
\* stopOnError it may return an error earlier, but not success.
NothingDropped ==
    result # "none" /\ (onError = "log" \/ result = "ok") => \A j \in Jobs : outcome[j] # "open"

\* Nobody waits for ever: not for a pipe, for the channel of a download or for
\* room in the channel of errors.  The one exception is a download that panics.
PoolReturns == <>(result # "none" \/ panicked)

\* Why.  A pipe that is at its end has let the size through, or its source had
\* become another; so an upload that went well stored the whole.
Carried ==
    \A w \in Workers :
        LET good == job[w] \in whole \cup altered IN
        /\ pc[w] \notin {"send", "await"} =>
             pipe[w] = "none" /\ w \notin through /\ chan[w] = "empty" /\ up[w] = "none"
        /\ pipe[w] = "eof" => w \in through \/ job[w] \in altered
        /\ up[w] = "ok" \/ pc[w] \in {"record", "log"} => good

\* A job is waiting, with one worker, or settled.
Held ==
    /\ \A j \in left : outcome[j] = "open"
    /\ \A w \in Workers : job[w] # None => outcome[job[w]] = "open" /\ job[w] \notin left
    /\ \A v, w \in Workers : job[v] = job[w] /\ job[v] # None => v = w
    /\ \A j \in Jobs : outcome[j] = "open" => j \in left \/ \E w \in Workers : job[w] = j

\* A worker ends when there are no more jobs, or has left an error behind.
Ended ==
    /\ errs > 0 => onError = "stop"
    /\ \A w \in Workers : pc[w] = "ended" => left = {} \/ errs > 0
    /\ result # "none" => \A w \in Workers : pc[w] = "ended"
    /\ result = "ok" => errs = 0

\* What the workers in ws have in hand, all together.
Claim == [w \in Workers |-> IF job[w] = None THEN 0 ELSE Sz(w)]
SumOver(f, ws) == Cardinality(UNION {{w} \X (1..f[w]) : w \in ws})
Load(ws) == SumOver(Claim, ws)

\* The workers that have reserved room in an account and not yet filled it, and
\* those that are about to reserve some.
Promised(w) == pc[w] \in {"folder", "source", "send"} \/ (pc[w] = "await" /\ up[w] # "ok")
Promises(a) == {w \in Workers : Promised(w) /\ best[w] = a}
Planners(a) == {w \in Workers : pc[w] = "look" /\ best[w] = a}

\* Quotas that are cached stay so; they are ahead of the account by what is
\* reserved; and behind its limit by what is about to be, but for the last
\* file of every other worker.
Warmed == (\A a \in Accounts : cached[a] # None) /\ \A w \in Workers : pc[w] # "fill"
Ahead  == \A a \in Quoted : used[a] + Load(Promises(a)) <= cached[a] + astray[a]
Within == \A a \in Quoted, n \in {Size[f] : f \in Files} :
              Total[a] > 0 /\ (\A f \in Files : Size[f] <= n)
                => \/ cached[a] <= InUse[a] /\ Planners(a) = {}
                   \/ cached[a] + Load(Planners(a))
                        < Total[a] + (Cardinality(Workers) - 1) * n
Quotas == warm => Warmed /\ Ahead /\ Within

\* The pool keeps the promises of Distribution.
DS == INSTANCE Distribution WITH
          Jobs <- Jobs, held <- whole, altered <- altered, rows <- rows, log <- log,
          settled <- {j \in Jobs : outcome[j] # "open"}, result <- result
Implements == DS!Spec
=============================================================================
