# Verification of cloud-drives-sync

TLA+ modules, TLC configurations and TLAPS proofs for cloud-drives-sync, a Go
program that keeps one library of files mirrored over Google Drive, OneDrive and
Telegram accounts. Source references are to files under `src/`; `TR` stands for
`internal/task/task_runner.go`, `SH` for `internal/task/sync_helper.go`, `DB` for
`internal/database/database.go` and SPEC.md for `agents/new_version/SPEC.md`.

Everything here is translated from the code. The documents are used for what a
property claims, never for what an action does.

## 1. The system

A user has one main Google account and any number of backup accounts. The main
account shares its `cloud-drives-sync-root` with the other Google accounts, which
work inside it; each OneDrive account has a root of its own; a Telegram account
keeps files as messages (a path in the caption) in one channel. An encrypted
SQLite database, replicated to every account, says which *logical files* there are
and which *replicas* (copies) they have.

| Component | State | Operations | Talks to |
|---|---|---|---|
| Command frame (`cmd/root.go`) | the local database file | open or download, run, upload | metadata database, runner |
| Sync command (`cmd/sync.go`, `sync_runs`) | run rows: mode, last step, completed, age | resume or begin, six steps, mark, complete, clean up | runner, database |
| Metadata database (`task/metadata_sync.go`) | the local file, one copy in each account | download in order, parallel upload | clients |
| Metadata refresh (`TR` 418-651) | replica rows, logical files, folder rows | scan, link, promote, derive path and state, mark what was not seen | clients, database |
| Deletion (`TR` 2959-3212) | the same rows | purge of lost soft-deleted files, hard deletion, placement | clients, database |
| Provider synchronization (`TR` 1315-1774, 2143-2395) | the same rows, checkpoints of copies | verdict, convergence, missing copies, conflicts | file copy, clients |
| File copy (`SH` 47-104, 395-697) | cached quotas, a pipe, replica rows | choose the account, download into an upload, record | clients, database |
| Folder resolution (`SH` 155-307, `TR` 170-194, 1724-1800) | path cache, mutex per account, clients' listing caches, folder rows | resolve and create, preload, invalidate and retry | clients, database |
| Folder mirroring and merging (`TR` 1807-2070, 2626-2780) | folders of the providers, folder rows | mirror, merge siblings, claim ownership | clients, folder resolution |
| Freeing and balancing (`TR` 731-1310, 2785-2840, `SH` 107-150) | quotas, owners, replica rows | transfer ownership or copy and delete | clients, database |
| Shortcuts (`TR` 2410-2620, `SH` 700-913) | placeholder files in OneDrive | distribute, refresh | clients |
| Clients (`google`, `microsoft`, `telegram`) | listing caches; Telegram: fragments and captions | list, upload, move, delete, create, share | the providers |
| Retry layer (`api/retry.go`, `api/http_retry.go`) | none that outlives a call | repeat what may be repeated | clients |
| Accounts and configuration, authentication, encryption, logging | configuration file, tokens | interactive set-up | the user |

The parts interact in three ways: by calls within one process; through the
database, which several processes can have open; and through the providers, where
the user changes things at any time without telling the program.

### What is hard

* *Concurrency in the process.* Up to four goroutines copy and move files, all
  resolve folders, uploads of the database run side by side.
* *Two processes.* Nothing prevents two `sync` commands at one time.
* *Partial failure.* Most errors are logged and the work goes on; checkpoints are
  written whether or not a move went well; calls are applied and their reply lost.
* *Crashes.* A killed process leaves what it did in the providers and perhaps not in
  the rows, and a run that the next sync resumes.
* *Stale knowledge.* Rows, caches, listings and checkpoints are acted on while the
  user changes what they describe.
* *Destructive decisions by absence.* "Google has it no more" is concluded from a
  listing that did not show it.

PROJECT.json lists the hazards one by one at their lines, with the properties that
cover each of them, or why none does.

### What makes each component correct

| Component | Correct when | Stated as |
|---|---|---|
| Folder resolution | the folder handed out was made at the path asked for; no folder is made twice; every call returns | `ResolvesToPath`, `NoDuplicateFolder`, `CallsReturn` |
| Sync command | no checkpoint promises work that was not done; a run performs all steps in order and in one mode; a completed run covers what was there when it was begun, unless a call of its fifth step failed | `CheckpointSound`, `Implements`, `RunCovers` |
| Metadata database | no copy runs ahead; what was uploaded stays readable, also after the loss of the local file | `LocalLeads`, `SomeCopyKept`, `KeptUnlessHurt` |
| Refresh and deletion | nothing is removed that the user did not ask to have removed, nor on old knowledge | `NothingRemovedUnasked`, `DestroyedAsSeen` |
| Provider synchronization | an undisturbed sync repairs what went wrong before, and then rests | `Mirrored`, `Idempotent` |
| File copy | a row is of a whole file; the space promised to copies stays within an account; the pool returns, and with success only when every copy is settled | `WholeCopy`, `PromisedOnce`, `Accounted`, `PoolReturns`, `NothingDropped`, `Implements` |
| Freeing and balancing | no file is without an object while it is handed over; no account is overfilled; an undisturbed run moves what fits | `CopyKept`, `NeverOverfilled`, `CheckpointTrue`, `FreesWhatFits`, `BalanceSettles`, `RowsFollow` |
| Telegram channel | undisturbed syncs leave one whole copy or none; what was hidden stays hidden | `CalmMirrors`, `HiddenStays`, `LacksOnlyIfCut`, `RepeatsOnlyIfAgain`, `Present` |
| Others | not modelled (section 5) | |

## 2. The modules

Each component is a module; `MC...` modules hold only definitions for TLC's
instances (paths, orders, symmetry), `...Proofs` modules the theorems. Operators
whose comment begins with "Mutant" are wrong variants of the definition that
follows. They are used by nothing in the specification: substituted for it, they
show that a property does notice such a mistake.

### FolderStructure (ensureFolderStructure, caches and rows)

Workers are goroutines. A call goes through `Ask`, `LockAndHit` (path cache) or
`LockAndWalk`, `FollowCache`, `ListSiblings`, `CreateFolder`, `Resolve`; each is
one piece of the function between two remote calls. `lock` is the account's mutex,
held over the whole walk as in the code, and every error path (`Fail`) releases it.
`CreateReplyLost` is a create that is applied and reported as failed. `listed` and
`known` are a client's listing cache: a stale listing is simply one made before
something happened. `Restart` forgets both caches and preloads the path cache from
the rows, any row when several name one path. `Use` and `InvalidateAndRetry` are
moveReplicaToPath's use of the folder, with its one retry after a 404. The user
creates and deletes folders and moves none, so an id stays where it was made;
`ResolvesToPath` says that no memory confuses two paths, and not that the folder
still exists.
`SyncFolder` says which accounts share a tree.

### SyncRun and Pipeline (the sync command)

A process resumes the newest incomplete run younger than a day if the modes agree,
else begins one; `Perform`, `ScanAgain`, `Mirror` are the six steps (step 5 in its
two halves), `Mark` writes the checkpoint or fails to, `Complete` and `Exit` end
the run, `Stop` is an error or a kill at any place, `Age` is a day gone by. What the steps do is
reduced to *which state of the user's files they worked from*: `scanned` is what the
database knows, `mirrored` what the providers show. A refresh may leave the database behind
the user's files, as listings and clients that fail are only logged (`Scan`), and
mirroring may leave the providers behind the database, as copies, moves and deletions that fail
are (`Mirror`). The step is marked all the same; `gaps` remembers the runs this befell in their
fifth step: in its own refresh, in its mirroring, or in the refresh of another process
between the two. `Pipeline` is the
abstract specification: steps in order, one mode, finished only when all is done.
`Implements == PL!Spec` is the refinement, with the variables of the same names.

### MetadataDB (the database file and its copies)

A database is the set of changes it has seen. `Open`, `OpenEmpty`, `Download`,
`AskNext`, `Fetch`, `FetchSome`, `Fetched` are PersistentPreRunE; `Edit` and
`Succeed` the command; `Find`, `Write`, `Replace`, `UploadFails`, `Exit` the
parallel uploads, with Google's common aux folder (`Folder`) and Telegram's
replacement under another name (`Replace`). `Twins` is the state in which two Google
accounts have each created a file in that folder, as neither saw the other's; later uploads
go to the one listed first. `hurt` remembers the three events
after which a loss of the local file may lose data: an upload to Google or
OneDrive failed in a command that succeeded, an empty file was opened as a new
database, or Telegram's copy was restored.

### Lifecycle (one file through refreshes and syncs)

The variables are where the copies are (`cloud`), what the rows say (`status`,
`path`), the logical file (`file`, `fpath`), where the command is (`pc`) and its
checkpoints (`done`). One command runs at a time, through the phases

    Start  Scan  Derive  Lost [Purge* Purged]  Hard [Bury* Buried]
           Load  Converge*  Converged  ( Place* | CopyTo*/CopyFails* )  Synced  End

with `LeaveIt` where `get-metadata` stops after the refresh. `Scan(missed)` lists
the managed area of every provider, on Telegram one message to a path, except for the
copies in `missed`; `Derive` is
the whole of runMetadataPostProcessing, which nothing interrupts but a kill before
or after. Remote calls are single steps (`Purge`, `Bury`, `Converge`, `Place`,
`CopyTo`), in any order, as the loops run over Go maps or in goroutines, with three
outcomes: done, failed, done without its row being written ("lost"). `Move` is the
user. `asked` remembers where the user has put copies; `calm` counts the syncs
since the last disturbance.

Abstractions: one account to a provider; Google's is a backup account, and the row
the main account has of each of its objects follows the owner's (both see
the same object). All copies have one content; a copy whose hash finds no file
belongs to another logical file ("other") and is followed no further. The library is
one place, so path conflicts are outside. Safe mode, `--stop-on-error`, shortcuts,
folder merging and checkSoftDeletedConsistency (which acts between different logical
files) are left out. Two orders of the code are merged because nothing reads what
lies between: the statements of runMetadataPostProcessing, and copyFile's upload and
its row when the process is not killed between them (killed: "lost").

### CopyPool and Distribution (the copies of a sync)

`Workers` are the goroutines of syncMissingAndConflicts' pool, `Jobs` the copies. A
worker goes

    idle  look [fill]  folder  (send  await  source)*  record  log  idle

with `LookCached`, `Ask`, `Fill`, `Reserve` for getDestinationClient (the lock of the
quota cache is held for each of them alone, and not while the provider is asked),
`Open` for a replica to read from, `NextSource` and `Copied` for what both ends of the
pipe reported, `Record` and `LogCopy` for the row and the checkpoint, `RecordFails` for a row
that is refused and `RolledBack` for one that had its id when it was undone, `Retry` and
`GiveUp` for WithRetry and the channel of errors. The download (`Flow`, `DownloadEnds`,
`DownloadFails`, `DownloadPanics`, `DownloadCut`) and the upload (`Upload...`) of a worker
are processes of their own, coupled by `pipe`, `through` (the size of the file went
through), `chan` and `up`. `BySize` are providers whose upload stops at the size it was
given, so that a download longer than the listing said is cut off.

`Distribution` is what the pool promises: rows and checkpoints only of whole files, a job
settled once, success only when all are. A checkpoint need not have a row: InsertReplica
sets the row's id (`DB` 836) before the fragments and the commit, copyFile takes an id for a row
(`SH` 684), so that a copy whose row was rolled back is checkpointed. It was delivered, and a
later scan that lists the object enters it; until then a resumed run skips it. `Implements == DS!Spec` maps `held`
to `whole` and `settled` to the jobs whose outcome is not open.

Abstractions: the producer goroutine is the set `left`, as its channel orders nothing
that matters. A killed process is one that stops between two steps, so every invariant
covers it; so is a `masterFile.Replicas` read while it is torn. An upload that stored
less than the file counts the full size in `used`. Which object is replaced and which
row reused is in Lifecycle, the parts of a file in TelegramParts.

### Ownership (FreeMain, BalanceStorage and the handover)

An object has an owner and a place (in the shared tree, in an account's root, gone); an
account has a row of each object it has listed. `Begin` reads the quotas, `MoveUnsynced`
and `Scan` are the steps before, `EnterFree` and `EnterBalance` choose who gives and who
receives, `Skip`, `NoRoom`, `Choose` and `Chosen` are the loops over files. A handover is
`OfferDirectly`; or `TakeOut`, `Grant`, `Accept`, `PutBack` where consent is needed; or
`CopyOver` and `Erase`, followed by `Rekey` or `Insert`; then `Record` and `Account`. Each
call may fail or be answered by nobody, the process may be killed between any two, and the
next sync resumes at the step that was not marked, with the checkpoints (`done`).

Abstractions: one sync at a time (two are SyncRun's subject), Google accounts only (the
code balances no other provider), no safe mode; the loops call LogSyncCopy and
BatchCheckSyncCopyDone without their failing; the main account's quota, which nothing asks for
again, is not tracked. The promise of `BalanceSettles` is off when `TwinLeft`: an overfull
account with another object of a file that was handed over in this run takes it for done
and its bytes for moved (`TR` 844-870), and may stay overfull. `free-main` and `balance-storage` as commands of their own do
the same without checkpoints.

### TelegramParts (a file in the channel)

Messages are numbered as they are sent; `part`, `visible` are what their captions say.
`List` is ListFiles and BatchInsertFiles, `Promote` and `Sweep` the post-processing, `Hide`,
`HidePart`, `Hidden` UpdateFileStatus with its row, `Upload`, `SendPart`, `Record`
UploadFile and copyFile's row, `Retry` WithRetry around both. The failures are named in
`wrong`, so that a property can say which of them it takes: "missed" (a listing), "cut" (an
upload in the middle), "source" (all was sent, and the download that fed it reports an error:
the parts stay, and the next replica or attempt sends them again), "unhidden" (a caption),
"norow" (a row not written), "killed" (elsewhere). A row that is used again keeps the fragments it had, as UpdateReplica does
not write them.

Abstractions: one path and one content. The copy of a file that finds a stranger at its
path goes to a conflict name and is not followed (`Leave`). Between listings nobody else
writes to the channel.

## 3. The runs

| Run | Instance | Result | States |
|---|---|---|---|
| FolderPrivate | one OneDrive account, 2 goroutines, depth 2, 3 ids, 2 events | `TypeOK`, `NoDuplicateFolder`, `ResolvesToPath`, `FolderInv`, `CallsReturn` hold; no deadlock | 166,828 |
| FolderShared | 2 Google accounts in one tree, 2 goroutines | `NoDuplicateFolder` violated | |
| SyncRun | 2 processes, 2 runs (one kept) without changes of the user, or 1 run and 2 changes | `TypeOK`, `CheckpointSound`, `RunCovers`, `Implements` hold | 1,938,779 |
| MetadataCopies | two Google accounts in one folder, OneDrive, Telegram; 2 changes, 1 loss | `TypeOK`, `LocalLeads`, `SomeCopyKept`, `KeptUnlessHurt`, `CopyInv` hold | 3,006,757 |
| MetadataNames | main, Telegram; 2 changes | `EveryAccountHolds` violated | |
| Life | 2 copies in Google and in OneDrive, 3 in Telegram, 2 user moves, 2 faults | `TypeOK`, `Mirrored`, `NothingRemovedUnasked`, `DestroyedAsSeen`, `Idempotent` hold | 1,166,518 |
| LifeSoft | 2 Google, 2 OneDrive, 1 Telegram copies, 2 moves, 1 fault | `OnlyHardDeletionDestroys` violated | |
| LifeHard | the same, 1 move | `HardDeletionCompletes` violated | |
| Ownership | main and 3 backup accounts, 2 files, 4 ids, 2 faults, 5 beginnings | `TypeOK`, `CopyKept`, `CheckpointTrue`, `NeverOverfilled`, `FreesWhatFits`, `BalanceSettles`, `RowsFollow` hold | 442,938 |
| CopyPool | 2 workers, 3 copies of 2 files into 3 accounts, 1 fault | `TypeOK`, `WholeCopy`, `LogTrue`, `Accounted`, `PromisedOnce`, `NothingDropped`, `PoolReturns`, `Implements` hold | 299,740 |
| TelegramParts | a file of 1, 2 or 3 parts, 2 changes of the user, 3 faults, 16 messages | `TypeOK`, `CalmMirrors`, `LacksOnlyIfCut`, `RepeatsOnlyIfAgain`, `HiddenStays`, `Present` hold | 166,792 |
| TelegramWhole | a file of 2 parts | `ActiveIsWhole` violated | |

### What the violations say

* **FolderShared.** The comment at `SH:154` promises that "a mutex prevents duplicate
  folder creation". It does in an account of its own (FolderPrivate, and a theorem);
  two Google accounts have two mutexes and two caches over one tree, and create the
  same folder twice.
* **MetadataNames.** SPEC.md:121 wants a copy of that name in every account. Telegram's
  UpdateFile sends `metadata.db`, which no download looks for.
* **LifeSoft.** SPEC.md:237 calls hard deletion "the only way to destroy non-duplicated
  data". Moving OneDrive's copy to soft-deleted while Google's is trashed, and
  Telegram's was never made, is enough: ProcessHardDeletes deletes the last copy in
  the refresh that first sees it.
* **LifeHard.** SPEC.md:236: hard deletion "removes it from every provider". That a file
  is to go is told only by the row of the copy in the folder. When that copy is
  deleted first and the rest is not (a kill, a failing call), the next undisturbed
  refresh finds the file in use.
* **TelegramWhole.** SPEC.md:217 wants every active file with identical content on every
  provider. An upload cut off between two parts leaves the first as a file: ListFiles does
  not compare what it finds with `fragments_total`, and the row says active, with the
  size of the whole.

One more promise is not kept, in a case that `Idempotent` has to except: SPEC.md:244,
"Re-running a completed sync makes no changes". ListFiles shows one message to a path, the
oldest. If that one's row was marked deleted, as a listing had missed it, no listing revives
the row, the newer message is marked deleted for not being seen, and each sync sends the
file to Telegram again, though nothing disturbs it.

### Bounds, and why they are enough

*Folders.* Two goroutines suffice for a race between list and create, depth 2 for a
parent that vanishes under its child, three ids for a folder, its child and a second
of one name; two events for delete-and-recreate or a restart after a deletion. When
the ids are used up (`RoomIn`) a create can only fail, which is one of its outcomes
anyway, so that nobody waits for an id.

*Sync runs.* Two runs are needed for a resume that finds an older incomplete run and
for the clean-up (`Keep = 1`); two processes for checkpoints written in turns. Changes
of the user matter only to `RunCovers`, which concerns one run at a time: the constraint
`OneRunAndChanges` has either a second run or two changes, one before and one after a
scan. `RunCovers` is proved for all combinations.

*Database.* Two Google accounts that share a folder, so that both may create a file in it,
one account with a plain copy of its own and one that replaces; two changes tell an old copy
from a new one; one loss is enough for a restore from each of them. More changes and losses
are in the proofs, which hold for any accounts.

*Lifecycle.* Two copies to a provider let an upload create a second object or replace
the first, and a third message of Telegram lets a file be sent again behind two others;
two moves give soft-delete-and-restore or two copies moved apart; two faults give a missed
listing and a lost reply, or a failure and a kill. Three moves
with one fault have also been run, with the same result. `calm` has three values
because the properties ask for one, and for two, undisturbed syncs in a row.

*Ownership.* Three backup accounts let two give and one take, or two compete for a file; a
large and a small file tell the order from large to small and a fit of one but not the
other; the other ids are for copies. The five beginnings have room for both files, for one,
an overfull account, both commands one after the other, and two overfull accounts with an
object each of the same file. Two faults reach a reply lost or a kill, and a failure in the
run that resumes.

*Copies.* Two workers suffice for a race over a quota; two of the three jobs want the same
provider, whose accounts have room for both files in one order only, and two share a
file, so that one worker sees the replica that the other appends. One fault
reaches every path of the code; the invariants have also been run with two (1,815,460
states), with the same result.

*Telegram.* Three parts have a first, a middle and a last; two changes are deleting and
restoring; three faults and two attempts give a cut upload, a missed listing and a failure
to hide one after the other. Of 16 messages, the most that the bounded faults need are
sent well before the bound; only where each sync sends the file again, after a missed
listing, is it met, and there `Present` promises nothing.

`CHECK_DEADLOCK FALSE` stands in the configurations of SyncRun, MetadataDB,
Lifecycle and TelegramParts only because their bounds on runs, losses, moves, faults and
messages get used up, and in CopyPool because the pool returns. (Ownership never stops: it is
checked for deadlock.)
In Life, running out of copies counts as a disturbance (`CopyFails`), so no
property relies on a copy that the bound forbids. So does a copy that goes under a conflict name because an
earlier upload, whose row was never written, is taken for another file's: `Mirrored`
does not promise that such a file is mirrored (it is not: see the hazards).

### Fairness

* `CallsReturn` (folders): weak fairness of a goroutine inside a call (API calls return or
  fail, which the code relies on everywhere, and the Go scheduler runs what can run) and
  strong fairness of taking the mutex, since Go's `sync.Mutex` hands over to a waiter that
  has starved for a millisecond. Nothing is assumed of the user, of restarts or of a scan,
  and the retry after a 404 is made once, so it cannot go round for ever.
* `PoolReturns` (copies): weak fairness of each worker, of its download and of its upload,
  for the same reasons, and of the WaitGroup. Downloads and uploads that fail are not
  assumed. Its one exception is a download that panics: then the worker waits for
  ever, and so does the pool.
* `Present` (Telegram): weak fairness of the steps of a sync and of the next sync, so the
  user keeps running syncs. A failure need not end; it is their bound that ends them.

## 4. What is proved

Proofs are checked by tlapm for every value of the constants that satisfies the named
assumptions, with no bound on workers, processes, copies or faults.

| Module | Theorem | Property | Assumes |
|---|---|---|---|
| FolderStructureProofs | TypeCorrect | `TypeOK` | FolderAssumption |
| | FolderMadeAtPath | `ResolvesToPath` (no more than it says: section 2) | FolderAssumption |
| | NoDuplicateInPrivateTree | `NoDuplicateFolder` | also: no two accounts share a sync folder |
| | PrivateTreeInvariant | `FolderInv` | the same |
| SyncRunProofs | Invariance, TypeCorrect, CheckpointsAreSound, CompletedRunsCover | `RunInv`, `TypeOK`, `CheckpointSound`, `RunCovers` | SyncAssumption |
| | SyncImplementsPipeline | `Implements` | SyncAssumption |
| MetadataDBProofs | Invariance, TypeCorrect, CopiesFollow, KeptCopyRemains, KeptSurvivesLoss | `CopyInv`, `TypeOK`, `LocalLeads`, `SomeCopyKept`, `KeptUnlessHurt` | MetadataAssumption |
| LifecycleProofs | TypeCorrect | `TypeOK` | CopiesAssumption |
| | NothingRemoved | `NothingRemovedUnasked` | CopiesAssumption |
| | DestroyedWhereSeen | `DestroyedAsSeen` | CopiesAssumption |
| | MirroredAfterAll | `Mirrored` | CopiesAssumption |
| | SyncsRest | `Idempotent` | CopiesAssumption |
| OwnershipProofs | TypeCorrect | `TypeOK` | OwnershipAssumption |
| | CopiesSurvive, CheckpointsTrue | `CopyKept`, `CheckpointTrue` | OwnershipAssumption |
| | NoOverfill | `NeverOverfilled` | OwnershipAssumption |
| OwnershipCalmProofs | FreedOfWhatFits, BalanceIsSettled | `FreesWhatFits`, `BalanceSettles` | OwnershipAssumption, FewBackups |
| | RowsAreFollowed | `RowsFollow` | the same |
| CopyPoolProofs | TypeCorrect | `TypeOK` | PoolAssumption |
| | RowsAreWhole, LogsAreTrue | `WholeCopy`, `LogTrue` | PoolAssumption |
| | NoneDropped | `NothingDropped` | PoolAssumption, SomeWorker |
| | Refinement | `Implements` | PoolAssumption, SomeWorker |
| | AllAccounted, SeldomOverpromised | `Accounted`, `PromisedOnce` | PoolAssumption, QuotaAssumption |
| TelegramPartsProofs | TypeCorrect | `TypeOK` | PartsAssumption |
| | HiddenForGood | `HiddenStays` | PartsAssumption |
| | LackingMeansCut | `LacksOnlyIfCut` | PartsAssumption |
| | RepeatedMeansAgain | `RepeatsOnlyIfAgain` | PartsAssumption |
| | UndisturbedMirrors | `CalmMirrors` | PartsAssumption |

`QuotaAssumption` says that the workers are finitely many and that an account is of one
provider, `FewBackups` that the backup accounts are finitely many.

The arguments:

*FolderStructure.* `ResolvesToPath` is not inductive: a folder handed out may come
from either cache or from a row. `PlaceInv` says of all of them that they name a folder
made at that path, that ids have one place and that a folder lies below its parent; since
places never change each action preserves it. For duplicates one needs that only
the holder of the mutex walks (`Mutex`), that a cached listing of the one client
that works in the tree misses no folder the tool has made there (`KnownComplete`, which
fails when two accounts share the tree), and that nothing of that name is there
between listing and creating (`CreateReady`).

*SyncRun.* `RunInv` adds to the checkpoints what each process has behind it
(`ProcSound`): everything before its step was performed, by whichever process, in
the mode of its run (`OneMode`). For `RunCovers` it says of a run without gaps how much its
refresh had scanned and its mirroring shown. The refinement follows step by step: `Perform` and
`Mirror` are the abstract Perform, `Complete` is Finish, all else stutters.

*MetadataDB.* An upload aims at a file of its own folder (`Targets`), and once it has gone
well that folder has exactly the command's database (`Current`), even if another
upload has written to the same file, as all write the same. While a shared folder has
no twins, the file an upload finds there is the only one, and a copy that was overwritten is
up to date (`OwnCopy`); twins stay twins (`TwinsStay`), they can differ later, and then
only `SomeCopyKept` remains.

*Lifecycle.* For `NothingRemovedUnasked` the invariant `Unasked` says that while the
user has asked for nothing no copy and no row is in either folder, no verdict is "soft"
and the destructive phases are not entered. For `DestroyedAsSeen` the invariant
`Fresh` says that from MarkDeletedReplicas on, the rows in use are those this refresh has
written, and that a file Google has lost has them all in the soft-deleted folder.

`Mirrored` needs an account of a whole undisturbed sync (`MirrorInv`): nothing is behind it when
it begins (`Clear`); from the scan on the rows in use tell where their copies are (`Told`),
which each move keeps because a call on a copy in the managed area is answered; what is
deleted is of a file out of use (`Doomed`); a verdict of "soft" comes only with a path in the
soft-deleted folder (`Warranted`); every soft-deleted copy, and every provider without a copy,
is still before the sync or done (`Restored`, `Supplied`). That no message lies in the
soft-deleted folder (`NeverSoft`) holds at any time and is needed as Telegram's copies are not
restored. For `Idempotent` the invariant `RestInv` looks at two syncs in a row. Between them
every provider has a copy with its row, or no row is in use and no copy of Google's might get
one (`Rested`: `Alive` or `Dead`); the second scan finds the same (`Found`), but for a message
behind another (`Shadowed`), so that only Telegram can be missing anything (`Again`). The
exception shows only from three messages on: with two, the bound on copies disturbs the
second sync.

*Ownership.* For `CopyKept` and `CheckpointTrue` the invariant adds what is known of the
handover under way (`JobTrue`): from the upload of a copy to its row, the copy lives and is the
receiver's, and the original that is deleted is main's. For `NeverOverfilled` the invariant
`QuotaInv` relates what is stored to what the process believes: `Accounted` allows for
the bytes of one handover that have arrived and are not yet charged (`Owed`), `Fits` says
that they were found to fit, and `Parties` that no account both gives and takes. An
account of which a call was reported as failed that had stored something is excepted
(`unseen`), for the code does not read its quota again.

What an undisturbed run achieves follows from `CalmInv`, about the run from its beginning: the
quotas the process believes in are true, up to the handover in progress (`Counted`); rows in use
are of objects in the tree and name the owner, or one who has given the object away and is not
looked at again (`RowsTrue`, `InHand`); and what main has left is before the process or fits
nowhere (`Freed`), as does what an account that has had its turn has left, unless it is below 90 %
(`Balanced`, `Settled`). What did not fit stays so because the targets only fill up. A file that
does not fit into the account with the most room fits into none (`FitsNowhere`): here it
matters that the backup accounts are finitely many, so that there is such an account.

*CopyPool.* `Carried` says that a pipe at its end has let the size through or its source had
become another, so an upload that went well has stored the whole; `Held` that an unsettled
job is waiting or with exactly one worker; `Ended` that a worker ends when nothing is left or has
left an error behind. The refinement follows step by step: `Stored` is Deliver or nothing,
`Record` is Enter, `Settle` Settle, `Return` Report.

For `Accounted` and `PromisedOnce`, `Quotas` adds up over the workers: what is in an account and
what is yet to be stored there on a reservation (`Load(Promises(a))`) is in the cached usage but for
what failed attempts left (`Ahead`); what is cached and what is about to be reserved
(`Load(Planners(a))`) is within the limit and one file for each worker but one (`Within`). Each step
moves at most one worker's size from one sum to another.

*TelegramParts.* For `HiddenStays` the invariant `PartsInv` leads from the listing (a row
listed has all that shows) over the sweep (only such a row is active) to hiding, which takes all
of it. For `LacksOnlyIfCut`, `FullInv` says that what an upload has sent are the first
parts, in order and without a gap (`Numbered`), and that while nothing was cut off and no hiding
failed, the channel shows all parts or none except in the midst of an upload or of hiding,
also when an upload was whole and its source failed
(`ChannelFull`), so that the fragments of every row are complete (`RowsFull`).

For `RepeatsOnlyIfAgain`, `OnceInv` says of the time before anything was cut off, missed or sent in vain that what
shows has each part once (`OnceRows`) and that a new upload begins only when nothing shows: what
shows has a row, the one under which a listing knows it (`Headed`), which is not deleted; only
after a hiding that failed does a listing name the file after a part that is not the first
(`Strays`). For `CalmMirrors`, `MirrorInv` says that between undisturbed syncs the channel has
nothing, or one copy whose row is the one under which a listing finds it.

### What is only model-checked

Liveness (`CallsReturn`, `PoolReturns`, `Present`), which the provers cannot derive from
fairness, and everything about the violation runs. Every invariant and every action property
of the passing runs is a theorem. Properties of `ENABLED`, and what recursive definitions
compute for all inputs, cannot be proved with these tools; no module here has either.

## 5. What is not modelled, and why

* Retry delays, and the HTTP transport's repetition of single requests: the modules have
  their effect, a call that fails for good, is repeated, or was applied without an answer.
* Several logical files at one path: content conflicts, conflict names,
  checkSoftDeletedConsistency. Lifecycle follows one file through everything that can
  befall it, and its state space is already large.
* Folder mirroring and merging, and folders that the user renames or moves
  (FolderStructure's user deletes and creates).
* OneDrive shortcuts: derived files that each sync makes anew.
* Safe mode, in which the same code makes no changes.
* Authentication, encryption, logging: library calls and output, no state that
  interacts with the rest.
* Interactive set-up: sequential, and it changes the configuration only.
* `cmd/test.go` and `tools/`: clients of the system.

## 6. Running it

    tlc -workers 2 -config Life.cfg MCLifecycle.tla
    tlapm LifecycleProofs.tla

Each passing run takes between a few seconds and two minutes.

## 7. Plan

Done, in the order of importance: folder resolution, the sync command, the metadata
database, the life of one file, the handover of ownership, the pool of copies, the file in
Telegram's channel. What would come next:

1. **Conflicts**: several logical files at one path, convergence to Google's
   path, conflict names, checkSoftDeletedConsistency; that no content is overwritten,
   that conflicts settle, and SPEC.md:233 on soft deletion reaching every provider.
2. **MergeFolders**: mergeDuplicateSiblingFolders, mergeFolderInto,
   syncFolderStructures and folders that the user moves, composed with the caches of
   FolderStructure; that merging loses no file and leaves no stale cached path.
3. **Shortcuts**, then **Accounts** (adding and removing them).

The properties of these modules are to be proved as they are written; those of the modules
there are have been, but for liveness.
