------------------------------- MODULE Lifecycle -------------------------------
(***************************************************************************)
(* One logical file and its copies, through metadata refreshes and syncs   *)
(* (internal/task/task_runner.go, internal/database/database.go).          *)
(*                                                                         *)
(* A refresh lists the managed area of every account and writes what it    *)
(* sees into the replica rows; a listing that fails is only logged.  Then, *)
(* from the rows, it derives the path and the state of the logical file,   *)
(* marks the rows it has not seen as deleted, deletes the copies of a      *)
(* soft-deleted file that Google has lost, and the copies of a file that   *)
(* lies in the hard-deleted folder.  A sync goes on from there: it moves   *)
(* copies into and out of the soft-deleted folder and copies the file to   *)
(* the providers that lack it.                                             *)
(*                                                                         *)
(* The user moves copies meanwhile, calls fail or succeed without their    *)
(* row being written, and the process can be killed anywhere.              *)
(*                                                                         *)
(* There is one account to a provider; Google's is a backup account, and   *)
(* the row the main account has of each of its objects goes along with     *)
(* the row of the owner.  All copies have one content: rows are linked to  *)
(* the file by Google's MD5, and a copy that cannot be linked belongs to   *)
(* another logical file.  The library is one place.                        *)
(***************************************************************************)
EXTENDS Naturals, FiniteSets

CONSTANTS
    Google, Microsoft, Telegram,    \* the copies each provider can ever hold
    MaxMoves,                       \* bound: what the user does
    MaxFaults                       \* bound: failing calls, and kills

ASSUME CopiesAssumption ==
    /\ Google \cap Microsoft = {} /\ Google \cap Telegram = {} /\ Microsoft \cap Telegram = {}
    /\ MaxMoves \in Nat /\ MaxFaults \in Nat

Copies    == Google \cup Microsoft \cup Telegram
Providers == {"google", "microsoft", "telegram"}
Of(p) == CASE p = "google" -> Google [] p = "microsoft" -> Microsoft [] p = "telegram" -> Telegram
ProviderOf(c) == IF c \in Google THEN "google" ELSE IF c \in Microsoft THEN "microsoft" ELSE "telegram"

Listed  == {"library", "soft", "hard"}              \* the managed area
Places  == Listed \cup {"trash", "hidden", "gone", "unborn"}
Replies == {"ok", "failed", "lost"}     \* lost: done, but its row is not written

VARIABLES
    cloud,      \* copy -> where it is; "hidden" on Telegram: its caption says deleted
    status,     \* copy -> the status of its row, or "none"
    path,       \* copy -> where its row says it is
    file,       \* the status of the logical file, or "none"
    fpath,      \* where the logical path lies
    pc,         \* where the command is
    todo,       \* what its present step still has to look at
    seen,       \* copies whose row this refresh has written
    destroyed,  \* copies ProcessHardDeletedFolder has deleted
    intent,     \* what convergeReplicaStatus is to bring about
    done,       \* the checkpoints of the sync run
    asked,      \* where the user has moved copies to
    calm,       \* 0: this run was disturbed, 1: it was not, 2: nor was the sync before it
    moves, faults

vars == <<cloud, status, path, file, fpath, pc, todo, seen, destroyed, intent,
          done, asked, calm, moves, faults>>
rows    == <<status, path>>
logical == <<file, fpath>>
user    == <<asked, moves>>
run     == <<seen, destroyed, intent>>

Active == {c \in Copies : status[c] = "active"}

Init ==
    /\ \E c \in Google : cloud = [x \in Copies |-> IF x = c THEN "library" ELSE "unborn"]
    /\ status = [c \in Copies |-> "none"] /\ path = [c \in Copies |-> "library"]
    /\ file = "none" /\ fpath = "library"
    /\ pc = "idle" /\ todo = {} /\ seen = {} /\ destroyed = {} /\ intent = "none" /\ done = {}
    /\ asked = {} /\ calm = 0 /\ moves = 0 /\ faults = 0

\* Something goes wrong, or does not.
Fault == faults < MaxFaults /\ faults' = faults + 1 /\ calm' = 0
Fine  == UNCHANGED <<faults, calm>>

\* What a call by the copy's id can reach: Google's trash is still addressable,
\* OneDrive's recycle bin is not.
Reachable(c) == cloud[c] \in Listed \/ (c \in Google /\ cloud[c] = "trash")
                                    \/ (c \in Telegram /\ cloud[c] = "hidden")

\* The reply to a call on c: it is a fault unless the copy's absence explains it.
Reply(c, reply) ==
    IF reply = "failed" /\ ~Reachable(c) THEN Fine
    ELSE Reachable(c) /\ (IF reply = "ok" THEN Fine ELSE Fault)

-----------------------------------------------------------------------------
(* GetMetadata: the scan. *)

\* A refresh begins; as a part of a sync it resumes a run or, that being older
\* than a day, begins another.
Start ==
    /\ pc = "idle"
    /\ pc' = "scan" /\ seen' = {} /\ destroyed' = {} /\ intent' = "none"
    /\ done' \in {done, {}}
    /\ calm' = IF done' # {} THEN 0 ELSE IF calm = 0 THEN 1 ELSE 2
    /\ UNCHANGED <<cloud, rows, logical, todo, user, faults>>

\* What a new row is linked to: Google's finds the file by its MD5, any other
\* becomes a file of its own.
Linked(c) == IF c \in Google THEN "active" ELSE "other"

\* The row of a copy that was listed.  A deleted one stays deleted.
Upserted(c) ==
    IF status[c] = "none" THEN Linked(c)
    ELSE IF status[c] \in {"deleted", "other"} THEN status[c] ELSE "active"

\* What a complete listing shows: on Google and OneDrive all that is in the
\* managed area, on Telegram one message to a path.  (The model leaves open which.)
GoogleLists    == {c \in Google : cloud[c] \in Listed}
MicrosoftLists == {c \in Microsoft : cloud[c] \in Listed}
TelegramLists  ==
    LET messages == {c \in Telegram : cloud[c] \in Listed}
    IN  {S \in SUBSET messages :
            \A c \in messages : \E d \in S : {x \in S : cloud[x] = cloud[c]} = {d}}

\* The folders are listed and the rows of their files are written, but for what
\* is missed: a listing of a provider fails, or the user moves a copy from under
\* the scan.
Scan(missed) ==
    pc = "scan" /\ \E messages \in TelegramLists :
        LET there == GoogleLists \cup MicrosoftLists \cup messages
            found == there \ missed
        IN  /\ missed \subseteq there /\ \E p \in Providers : missed \subseteq Of(p)
            /\ IF missed = {} THEN Fine ELSE Fault
            /\ seen' = found
            /\ status' = [c \in Copies |-> IF c \in found THEN Upserted(c) ELSE status[c]]
            /\ path' = [c \in Copies |-> IF c \in found THEN cloud[c] ELSE path[c]]
            /\ pc' = "derive"
            /\ UNCHANGED <<cloud, logical, todo, destroyed, intent, done, user>>

-----------------------------------------------------------------------------
(* runMetadataPostProcessing: the logical file, and the rows not seen. *)

\* The rows that may give the file its path.  UpdateLogicalFilesFromReplicas
\* takes one of Google's, and without one any.
FromReplicas == IF Active \cap Google # {} THEN Active \cap Google ELSE Active

\* chooseCanonicalReplica goes by the provider.
Preferred ==
    IF Active \cap Google # {} THEN Active \cap Google
    ELSE IF Active \cap Microsoft # {} THEN Active \cap Microsoft ELSE Active

\* reconcileLogicalFilePaths has the last word, but only on these files.
Canonical == IF file \in {"active", "soft-deleted"} THEN Preferred ELSE FromReplicas

\* UpdateSoftDeletedFileStatus, of the rows seen in this refresh.
FileState ==
    LET fresh == Active \cap seen
        inUse == IF fresh \cap Google # {} THEN fresh \cap Google ELSE fresh
    IN  IF fresh = {} THEN (IF file = "none" /\ Active # {} THEN "active" ELSE file)
        ELSE IF \E c \in inUse : path[c] # "soft" THEN "active" ELSE "soft-deleted"

\* Mutant: what was not seen is not deleted.
MarkNone == status

\* MarkDeletedReplicas.
Marked == [c \in Copies |-> IF status[c] \in {"active", "hard-deleted"} /\ c \notin seen
                            THEN "deleted" ELSE status[c]]

Derive ==
    /\ pc = "derive"
    /\ IF Canonical = {} THEN fpath' = fpath ELSE \E c \in Canonical : fpath' = path[c]
    /\ file' = FileState /\ status' = Marked
    /\ pc' = "lost"
    /\ UNCHANGED <<cloud, path, todo, run, done, user, calm, faults>>

-----------------------------------------------------------------------------
(* ProcessHardDeletes: a soft-deleted file that Google has no more. *)

\* Mutant: any file that Google has no more.
LostAnyway == file # "none" /\ Active \cap Google = {}

LostByGoogle == file = "soft-deleted" /\ Active \cap Google = {}

Lost ==
    /\ pc = "lost"
    /\ IF LostByGoogle
       THEN file' = "deleted" /\ pc' = "purge" /\ todo' = Active
       ELSE pc' = "hard" /\ UNCHANGED <<file, todo>>
    /\ UNCHANGED <<cloud, rows, fpath, run, done, user, calm, faults>>

\* Microsoft's copy is deleted, into its recycle bin; that its row is, does not
\* depend on the answer.  Telegram's caption is changed.
Purge(c, reply) ==
    /\ pc = "purge" /\ c \in todo /\ Reply(c, reply)
    /\ cloud' = IF reply = "failed" THEN cloud
                ELSE [cloud EXCEPT ![c] = IF c \in Telegram THEN "hidden" ELSE "trash"]
    /\ status' = IF reply = "ok" \/ (reply = "failed" /\ c \in Microsoft)
               THEN [status EXCEPT ![c] = "deleted"] ELSE status
    /\ todo' = todo \ {c}
    /\ UNCHANGED <<path, logical, pc, run, done, user>>

\* Without a client nothing is touched.
NoClient(c) ==
    /\ pc = "purge" /\ c \in todo /\ Fault
    /\ todo' = todo \ {c}
    /\ UNCHANGED <<cloud, rows, logical, pc, run, done, user>>

Purged ==
    /\ pc = "purge" /\ todo = {}
    /\ pc' = "hard"
    /\ UNCHANGED <<cloud, rows, logical, todo, run, done, user, calm, faults>>

-----------------------------------------------------------------------------
(* ProcessHardDeletedFolder: a copy lies in the hard-deleted folder. *)

Hard ==
    /\ pc = "hard"
    /\ IF \E c \in Active : path[c] = "hard"
       THEN pc' = "bury" /\ todo' = Active ELSE pc' = "load" /\ todo' = {}
    /\ UNCHANGED <<cloud, rows, logical, run, done, user, calm, faults>>

\* First all copies are deleted, and then the rows of those that were.
Bury(c, reply) ==
    /\ pc = "bury" /\ c \in todo /\ Reply(c, reply)
    /\ cloud' = IF reply = "failed" THEN cloud
                ELSE [cloud EXCEPT ![c] = IF c \in Microsoft THEN "trash" ELSE "gone"]
    /\ destroyed' = IF reply = "ok" THEN destroyed \cup {c} ELSE destroyed
    /\ todo' = todo \ {c}
    /\ UNCHANGED <<rows, logical, pc, seen, intent, done, user>>

Buried ==
    /\ pc = "bury" /\ todo = {}
    /\ status' = [c \in Copies |-> IF c \in destroyed THEN "hard-deleted" ELSE status[c]]
    /\ file' = IF Active \subseteq destroyed THEN "hard-deleted" ELSE file
    /\ pc' = "load"
    /\ UNCHANGED <<cloud, path, fpath, todo, run, done, user, calm, faults>>

-----------------------------------------------------------------------------
(* SyncProviders: convergeReplicaStatus and the soft-deleted placement. *)

\* Google's verdict; without one the file's path decides for what lies there.
Verdict ==
    IF Active \cap Google # {}
    THEN IF \E c \in Active \cap Google : path[c] # "soft" THEN "active" ELSE "soft"
    ELSE IF Active # {} /\ fpath = "soft" THEN "soft" ELSE "none"

\* What is to be moved, and was not by this run before.
Misplaced(want) ==
    {c \in Active :
        \/ want = "soft" /\ path[c] # "soft" /\ <<"soft", ProviderOf(c)>> \notin done
        \/ want = "active" /\ path[c] = "soft" /\ c \notin Telegram
           /\ <<"restore", ProviderOf(c)>> \notin done}

\* Only files in use are loaded.
Load ==
    /\ pc = "load"
    /\ IF file = "active"
       THEN intent' = Verdict /\ todo' = Misplaced(Verdict) /\ pc' = "converge"
       ELSE pc' = "end" /\ UNCHANGED <<intent, todo>>
    /\ UNCHANGED <<cloud, rows, logical, seen, destroyed, done, user, calm, faults>>

\* get-metadata ends here.
LeaveIt ==
    /\ pc = "load"
    /\ pc' = "idle" /\ calm' = 0
    /\ UNCHANGED <<cloud, rows, logical, todo, run, done, user, faults>>

\* A copy is moved, or Telegram's hidden.  In Google's trash it stays there.
Bring(c, to, reply) ==
    /\ Reply(c, reply)
    /\ IF reply = "failed" THEN UNCHANGED cloud
       ELSE cloud' = [cloud EXCEPT ![c] = IF c \in Telegram THEN "hidden"
                                          ELSE IF cloud[c] = "trash" THEN "trash" ELSE to]
    /\ IF reply # "ok" THEN UNCHANGED rows
       ELSE IF c \in Telegram THEN status' = [status EXCEPT ![c] = "deleted"] /\ UNCHANGED path
       ELSE path' = [path EXCEPT ![c] = to] /\ UNCHANGED status

\* The checkpoint is written whether or not the move went well.
Converge(c, reply) ==
    /\ pc = "converge" /\ c \in todo
    /\ \/ intent = "soft" /\ Bring(c, "soft", reply) /\ done' = done \cup {<<"soft", ProviderOf(c)>>}
       \/ /\ intent = "active" /\ done' = done \cup {<<"restore", ProviderOf(c)>>}
          /\ \E g \in Active \cap Google : path[g] # "soft" /\ Bring(c, path[g], reply)
    /\ todo' = todo \ {c}
    /\ UNCHANGED <<logical, pc, run, user>>

\* Mutant: a row that once was is enough.
MissingRows == {p \in Providers : {c \in Of(p) : status[c] # "none"} = {} /\ <<"copy", p>> \notin done}

\* Missing in a provider: no active row, and no checkpoint from before.
Missing == {p \in Providers : Active \cap Of(p) = {} /\ <<"copy", p>> \notin done}

Converged ==
    /\ pc = "converge" /\ todo = {}
    /\ IF fpath = "soft" THEN pc' = "place" /\ todo' = {c \in Active : path[c] # "soft"}
       ELSE pc' = "copy" /\ todo' = IF Active = {} \/ intent = "soft" THEN {} ELSE Missing
    /\ UNCHANGED <<cloud, rows, logical, run, done, user, calm, faults>>

\* enforceSoftDeletedPlacement.
Place(c, reply) ==
    /\ pc = "place" /\ c \in todo /\ Bring(c, "soft", reply)
    /\ todo' = todo \ {c}
    /\ UNCHANGED <<logical, pc, run, done, user>>

-----------------------------------------------------------------------------
(* SyncProviders: syncMissingAndConflicts, with copyFile as one step. *)

\* Where an upload goes to: OneDrive replaces a file of that name, Google may,
\* Telegram never does.
Placed(P) == {c \in P : cloud[c] = fpath}
Unborn(P) == {c \in P : cloud[c] = "unborn"}
OnMicrosoft == IF Placed(Microsoft) # {} THEN Placed(Microsoft) ELSE Unborn(Microsoft)
OnGoogle    == Placed(Google) \cup Unborn(Google)
OnTelegram  == Unborn(Telegram)
Target(p) ==
    CASE p = "microsoft" -> OnMicrosoft [] p = "google" -> OnGoogle [] p = "telegram" -> OnTelegram

\* Mutant: the row that the new copy has already stays deleted.
RecordUnrevived(p, new) ==
    /\ path' = [path EXCEPT ![new] = fpath]
    /\ status' = IF status[new] = "deleted" THEN status ELSE [status EXCEPT ![new] = "active"]

\* The row for a new copy: its own, or a deleted one of the provider, or another.
Record(p, new) ==
    LET old == {c \in Of(p) : status[c] = "deleted"}
    IN  /\ path' = [path EXCEPT ![new] = fpath]
        /\ IF status[new] = "deleted" \/ old = {} THEN status' = [status EXCEPT ![new] = "active"]
           ELSE \E c \in old : status' = [status EXCEPT ![c] = "none", ![new] = "active"]

\* Another file that lies at the path: then the copy goes under another name, to
\* a file of its own.
InTheWay(p) == \E c \in Of(p) : status[c] = "other" /\ c \in seen /\ path[c] = fpath

CopyTo(p, reply) ==
    /\ pc = "copy" /\ p \in todo /\ \E source \in Active : Reachable(source)
    /\ ~InTheWay(p)
    /\ \E new \in Target(p) :
          /\ status[new] # "other" /\ cloud' = [cloud EXCEPT ![new] = fpath]
          /\ IF reply = "ok" THEN Record(p, new) /\ done' = done \cup {<<"copy", p>>} /\ Fine
             ELSE UNCHANGED <<rows, done>> /\ Fault
    /\ todo' = todo \ {p}
    /\ UNCHANGED <<logical, pc, run, user>>

\* The call fails; or no source can be read, another file is in the way, or the
\* bound on copies is met.
CopyFails(p) ==
    LET alone == \/ \A source \in Active : ~Reachable(source)
                 \/ InTheWay(p) \/ \A new \in Target(p) : status[new] = "other"
    IN  /\ pc = "copy" /\ p \in todo
        /\ IF alone THEN calm' = 0 /\ UNCHANGED faults ELSE Fault
        /\ todo' = todo \ {p}
        /\ UNCHANGED <<cloud, rows, logical, pc, run, done, user>>

Synced ==
    /\ pc \in {"copy", "place"} /\ todo = {}
    /\ pc' = "end"
    /\ UNCHANGED <<cloud, rows, logical, todo, run, done, user, calm, faults>>

\* The run is completed.
End ==
    /\ pc = "end"
    /\ pc' = "idle" /\ done' = {}
    /\ UNCHANGED <<cloud, rows, logical, todo, run, user, calm, faults>>

\* Mutant: the next run goes on with what this one has left.
KillKeepingTodo ==
    /\ pc # "idle" /\ Fault
    /\ pc' = "idle" /\ todo' = todo
    /\ UNCHANGED <<cloud, rows, logical, run, done, user>>

Kill ==
    /\ pc # "idle" /\ Fault
    /\ pc' = "idle" /\ todo' = {}
    /\ UNCHANGED <<cloud, rows, logical, run, done, user>>

-----------------------------------------------------------------------------
(* The user. *)

\* A copy is moved about, trashed or restored; a Telegram message is deleted.
Move(c, place) ==
    /\ moves < MaxMoves /\ moves' = moves + 1
    /\ cloud[c] \in Listed \cup {"trash"} /\ place # cloud[c]
    /\ place = "gone" <=> c \in Telegram
    /\ cloud' = [cloud EXCEPT ![c] = place]
    /\ asked' = asked \cup {place} /\ calm' = 0
    /\ UNCHANGED <<rows, logical, pc, todo, run, done, faults>>

Program ==
    \/ Start \/ Derive \/ Lost \/ Purged \/ Hard \/ Buried
    \/ Load \/ LeaveIt \/ Converged \/ Synced \/ End \/ Kill
    \/ \E missed \in SUBSET Copies : Scan(missed)
    \/ \E c \in Copies :
          \/ NoClient(c)
          \/ \E reply \in Replies : Purge(c, reply) \/ Bury(c, reply) \/ Converge(c, reply) \/ Place(c, reply)
    \/ \E p \in Providers : CopyFails(p) \/ \E reply \in {"ok", "lost"} : CopyTo(p, reply)

Next == Program \/ \E c \in Copies, place \in Listed \cup {"trash", "gone"} : Move(c, place)

Spec == Init /\ [][Next]_vars

-----------------------------------------------------------------------------
(* Types: every variable has the values the code can give it, and the work
   left in a step is of the step's kind. *)
TypeOK ==
    /\ cloud \in [Copies -> Places] /\ path \in [Copies -> Listed]
    /\ status \in [Copies -> {"none", "active", "deleted", "hard-deleted", "other"}]
    /\ file \in {"none", "active", "soft-deleted", "deleted", "hard-deleted"} /\ fpath \in Listed
    /\ pc \in {"idle", "scan", "derive", "lost", "purge", "hard", "bury", "load",
               "converge", "place", "copy", "end"}
    /\ seen \subseteq Copies /\ destroyed \subseteq Copies
    /\ todo \subseteq (IF pc = "copy" THEN Providers
                       ELSE IF pc \in {"purge", "bury", "converge", "place"} THEN Copies ELSE {})
    /\ intent \in {"none", "active", "soft"}
    /\ done \subseteq {"soft", "restore", "copy"} \X Providers
    /\ asked \subseteq Listed \cup {"trash", "gone"} /\ calm \in 0..2
    /\ moves \in 0..MaxMoves /\ faults \in 0..MaxFaults

\* Where the user has soft-deleted and hard-deleted nothing, neither folder is
\* ever looked at: the argument for NothingRemovedUnasked.
Unasked ==
    asked \cap {"soft", "hard"} = {} =>
        /\ \A c \in Copies : cloud[c] \notin {"soft", "hard"} /\ path[c] = "library"
        /\ fpath = "library" /\ file # "soft-deleted" /\ intent # "soft"
        /\ pc \notin {"purge", "bury", "place"}
        /\ pc = "converge" => todo = {}

\* From MarkDeletedReplicas on the rows in use are those of this refresh, and a
\* file that Google has lost has them all in the soft-deleted folder: the
\* argument for DestroyedAsSeen.
Fresh ==
    /\ pc \in {"lost", "purge", "hard", "bury"} => Active \subseteq seen
    /\ pc = "lost" /\ LostByGoogle => \A c \in Active : path[c] = "soft"
    /\ pc = "purge" => todo \subseteq seen /\ \A c \in todo : path[c] = "soft"
    /\ pc = "bury" => todo \subseteq seen /\ \E x \in seen : path[x] = "hard"

\* A step of the program, not of the user, that takes c away, or deletes it.
Removes(c)  == moves' = moves /\ cloud[c] \in Listed /\ cloud'[c] \notin Listed
Destroys(c) == Removes(c) /\ cloud'[c] # "hidden"

(* As long as the user has put no copy of the file into the soft-deleted or the
   hard-deleted folder, nothing the program does removes a copy: what a failed
   listing, a trashed copy or a kill makes it lose sight of is copied again, and
   never taken for a deletion (runMetadataPostProcessing). *)
NothingRemovedUnasked ==
    [][asked \cap {"soft", "hard"} = {} => \A c \in Copies : ~Removes(c)]_vars

(* A copy is destroyed only if this very refresh has seen it, and has seen it
   in the soft-deleted folder or some copy in the hard-deleted one: what
   ProcessHardDeletes and ProcessHardDeletedFolder delete does not depend on rows
   from before (MarkDeletedReplicas comes first). *)
DestroyedAsSeen ==
    [][\A c \in Copies : Destroys(c) =>
          c \in seen /\ (path[c] = "soft" \/ \E x \in seen : path[x] = "hard")]_vars

(* A sync that nothing disturbs, and in which no copy was taken for another
   file's, leaves a file that is in use, and of which some copy is left, with a
   copy in every provider and with rows that tell where its copies are, whatever
   went wrong before; if Google has the file in use, no copy of it stays
   soft-deleted (SyncProviders). *)
Mirrored ==
    pc = "end" /\ calm > 0 /\ file = "active" /\ fpath = "library" /\ Active # {} =>
        /\ \A p \in Providers : Active \cap Of(p) # {}
        /\ \A c \in Active : cloud[c] = path[c]
        /\ intent = "active" => \A c \in Active : path[c] # "soft"

\* A listing of Telegram shows one message to a path: of two, one is left out.
Shadowed == \E c, d \in Telegram : c # d /\ cloud[c] \in Listed /\ cloud[d] = cloud[c]

(* A sync that follows an undisturbed one, and is undisturbed, changes nothing
   in the cloud, as long as nothing was soft-deleted or hard-deleted: it finds
   the rows it has written and copies no file a second time.  The exception is
   Telegram with two messages at the path, where the listing may show the one
   whose row is deleted or of another file: then the file is sent again, by
   every sync (ListFiles, MarkDeletedReplicas). *)
Idempotent ==
    [][calm = 2 /\ calm' = 2 /\ asked \cap {"soft", "hard"} = {} =>
          \A c \in Copies : cloud'[c] # cloud[c] => c \in Telegram /\ Shadowed]_vars

(* Documented, and not so: hard deletion "is the only way to destroy
   non-duplicated data" (SPEC.md).  ProcessHardDeletes deletes the last copy that
   is left anywhere of a file that was only soft-deleted, when Google's is gone. *)
OnlyHardDeletionDestroys ==
    [][\A c \in Copies :
          Destroys(c) /\ (\A other \in Copies \ {c} : cloud[other] \notin Listed \cup {"hidden"})
          => "hard" \in asked]_vars

(* Documented, and not so: moving a file to hard-deleted "removes it from every
   provider" (SPEC.md).  Once the deletion has begun an undisturbed refresh should
   not find the file in use again; but when the copy that lay in the folder was
   deleted and another one was not, nothing tells that the file was to go. *)
HardDeletionCompletes ==
    /\ pc = "load" /\ calm > 0 /\ asked = {"hard"} /\ moves = 1
    /\ \E c \in Copies : cloud[c] \in {"trash", "gone"}
    => ~(file = "active" /\ fpath = "library" /\ Active # {})
=============================================================================
