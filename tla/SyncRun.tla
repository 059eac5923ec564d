------------------------------- MODULE SyncRun -------------------------------
(***************************************************************************)
(* The sync command as a pipeline of six checkpointed steps (SyncAction,   *)
(* cmd/sync.go) over the sync_runs table (internal/database/database.go).  *)
(*                                                                         *)
(* A process looks for the newest run that is not completed and not older  *)
(* than a day, resumes it behind its last completed step when the modes    *)
(* agree, and begins a run of its own otherwise.  A step that fails ends   *)
(* the command; a checkpoint that cannot be written only warns.  A process *)
(* can be killed anywhere, and nothing keeps two of them from running at   *)
(* one time: they share the database file.                                 *)
(*                                                                         *)
(* Of what the steps do the model keeps which state of the user's files    *)
(* they have worked from: the files change (tree), a metadata scan         *)
(* (GetMetadata, in steps 2 and 5) tells the database (scanned), and       *)
(* SyncProviders mirrors what the database says (mirrored).  Neither is    *)
(* sure to get as far as it should: a client or a listing that fails and a *)
(* copy, move or deletion that fails are only logged, and the step         *)
(* succeeds; a scan may also write what it listed before another process   *)
(* wrote more.  gaps holds the runs to which one of this happened.         *)
(***************************************************************************)
EXTENDS Naturals, FiniteSets

CONSTANTS
    Procs,          \* sync processes that can run at one time
    MaxRuns,        \* bound: runs begun
    MaxChanges,     \* bound: changes the user makes
    Keep            \* completed runs that CleanupOldSyncRuns keeps

ASSUME SyncAssumption == MaxRuns \in Nat /\ MaxChanges \in Nat /\ Keep \in Nat

Runs  == 1..MaxRuns
Steps == 1..6
Modes == {"real", "safe"}

VARIABLES
    rows,       \* run -> its sync_runs row, or NoRow
    proc,       \* process -> where it is
    tree,       \* how often the user has changed files
    scanned,    \* the changes the database knows of
    mirrored,   \* the changes SyncProviders has brought to every provider once
    gaps,       \* the runs whose fifth step left something out
    mode,       \* run -> the mode it was begun in, or "none"
    did,        \* run -> the steps performed in it, each with its mode
    finished,   \* the runs that were marked completed
    born        \* run -> the changes when it was begun

data    == <<tree, scanned, mirrored, gaps>>
history == <<mode, did, finished, born>>
vars    == <<rows, proc, data, history>>

NoRow == [safe |-> "none", last |-> 0, completed |-> FALSE, old |-> FALSE]
Row   == [safe : Modes, last : 0..6, completed : BOOLEAN, old : BOOLEAN]
Off   == [pc |-> "off", run |-> 0, safe |-> "real", step |-> 0]
Busy  == [pc : {"step", "mirror", "mark", "complete", "cleanup"}, run : Runs,
          safe : Modes, step : 1..7]

\* The process p goes to pc and step k.
At(p, pc, k) == [pc |-> pc, run |-> proc[p].run, safe |-> proc[p].safe,
                 step |-> k]

\* The rows a resume looks at, and the newest of them.
Incomplete == {r \in Runs : rows[r] # NoRow /\ ~rows[r].completed /\ ~rows[r].old}
IsPrevious(r) == r \in Incomplete /\ \A q \in Incomplete : q <= r
Begun == {r \in Runs : mode[r] # "none"}

-----------------------------------------------------------------------------
Init ==
    /\ rows = [r \in Runs |-> NoRow]
    /\ proc = [p \in Procs |-> Off]
    /\ tree = 0 /\ scanned = 0 /\ mirrored = 0 /\ gaps = {}
    /\ mode = [r \in Runs |-> "none"]
    /\ did = [r \in Runs |-> {}]
    /\ finished = {}
    /\ born = [r \in Runs |-> 0]

\* Mutant: a run interrupted behind its last step has another one to do.
EnterStep(p, r, m, k) ==
    proc' = [proc EXCEPT ![p] =
                [pc |-> "step", run |-> r, safe |-> m, step |-> k]]

\* Where a process starts in run r: behind the steps already completed.
Enter(p, r, m, k) ==
    proc' = [proc EXCEPT ![p] =
                [pc |-> IF k <= 6 THEN "step" ELSE "complete", run |-> r,
                 safe |-> m, step |-> k]]

\* Mutant: the modes need not agree, so a dry run finishes what a real one began.
ResumeAnyMode(p, m) ==
    /\ proc[p].pc = "off"
    /\ \E r \in Runs : IsPrevious(r) /\ Enter(p, r, m, rows[r].last + 1)
    /\ UNCHANGED <<rows, data, history>>

Resume(p, m) ==
    /\ proc[p].pc = "off"
    /\ \E r \in Runs : /\ IsPrevious(r) /\ rows[r].safe = m
                       /\ Enter(p, r, m, rows[r].last + 1)
    /\ UNCHANGED <<rows, data, history>>

\* A new run: there is none to resume, or it has the other mode, or the query
\* failed, which only warns.  (When the insert fails the command just ends.)
Begin(p, m) ==
    /\ proc[p].pc = "off"
    /\ \E r \in Runs :
         /\ mode[r] = "none" /\ \A q \in Runs : mode[q] = "none" => r <= q
         /\ rows' = [rows EXCEPT ![r] = [safe |-> m, last |-> 0,
                                         completed |-> FALSE, old |-> FALSE]]
         /\ mode' = [mode EXCEPT ![r] = m]
         /\ born' = [born EXCEPT ![r] = tree]
         /\ Enter(p, r, m, 1)
    /\ UNCHANGED <<data, did, finished>>

Performed(p, k) == did' = [did EXCEPT ![proc[p].run] = @ \cup {<<k, proc[p].safe>>}]

\* GetMetadata: the database knows the tree up to some change afterwards.  When
\* that is not all of it, the runs in short work from a view with gaps.
Scan(short) == \E n \in 0..tree :
    /\ scanned' = n
    /\ gaps' = IF n = tree THEN gaps ELSE gaps \cup short

\* The runs that are in the middle of a mirror.
InMirror == {proc[p].run : p \in {q \in Procs : proc[q].pc = "mirror"}}

\* Steps 1, 2, 3, 4 and 6.  The quota step scans; its gaps are no matter to its
\* own run, which scans again.
Perform(p) ==
    LET k == proc[p].step IN
    /\ proc[p].pc = "step" /\ k # 5
    /\ Performed(p, k)
    /\ IF k = 2 THEN Scan(InMirror) ELSE UNCHANGED <<scanned, gaps>>
    /\ proc' = [proc EXCEPT ![p] = At(p, "mark", k)]
    /\ UNCHANGED <<rows, tree, mirrored, mode, finished, born>>

\* Step 5 scans and then mirrors what the database says.
ScanAgain(p) ==
    /\ proc[p].pc = "step" /\ proc[p].step = 5
    /\ Scan(InMirror \cup {proc[p].run})
    /\ proc' = [proc EXCEPT ![p] = At(p, "mirror", 5)]
    /\ UNCHANGED <<rows, tree, mirrored, history>>

\* A real run brings the changes up to some one to every provider; a dry run
\* only says what it would do.
Mirror(p) ==
    /\ proc[p].pc = "mirror"
    /\ Performed(p, 5)
    /\ IF proc[p].safe = "real"
       THEN \E n \in 0..scanned :
              /\ mirrored' = IF n > mirrored THEN n ELSE mirrored
              /\ gaps' = IF n = scanned THEN gaps ELSE gaps \cup {proc[p].run}
       ELSE UNCHANGED <<mirrored, gaps>>
    /\ proc' = [proc EXCEPT ![p] = At(p, "mark", 5)]
    /\ UNCHANGED <<rows, tree, scanned, mode, finished, born>>

\* An error of a step ends the command, and the process can be killed in any
\* phase.  Either way the run stays incomplete.
Stop(p) ==
    /\ proc[p].pc # "off"
    /\ proc' = [proc EXCEPT ![p] = Off]
    /\ UNCHANGED <<rows, data, history>>

\* Mutant: the step after the one performed is checkpointed.
MarkAhead(p, ok) ==
    LET k == proc[p].step
        r == proc[p].run
    IN  /\ proc[p].pc = "mark"
        /\ rows' = IF ok /\ rows[r] # NoRow /\ k < 6
                   THEN [rows EXCEPT ![r].last = k + 1] ELSE rows
        /\ proc' = [proc EXCEPT ![p] =
                      At(p, IF k < 6 THEN "step" ELSE "complete", k + 1)]
        /\ UNCHANGED <<data, history>>

\* The checkpoint after a step; when it cannot be written (~ok) the command
\* goes on.  Of a row that is gone nothing is updated.
Mark(p, ok) ==
    LET k == proc[p].step
        r == proc[p].run
    IN  /\ proc[p].pc = "mark"
        /\ rows' = IF ok /\ rows[r] # NoRow
                   THEN [rows EXCEPT ![r] = [safe |-> @.safe, last |-> k,
                           completed |-> @.completed, old |-> @.old]]
                   ELSE rows
        /\ proc' = [proc EXCEPT ![p] =
                      At(p, IF k < 6 THEN "step" ELSE "complete", k + 1)]
        /\ UNCHANGED <<data, history>>

\* CompleteSyncRun, which can fail with a warning as well.
Complete(p, ok) ==
    LET r == proc[p].run IN
    /\ proc[p].pc = "complete"
    /\ IF ok /\ rows[r] # NoRow
       THEN /\ rows' = [rows EXCEPT ![r] = [safe |-> @.safe, last |-> 5,
                          completed |-> TRUE, old |-> @.old]]
            /\ finished' = finished \cup {r}
       ELSE UNCHANGED <<rows, finished>>
    /\ proc' = [proc EXCEPT ![p] = At(p, "cleanup", proc[p].step)]
    /\ UNCHANGED <<data, mode, did, born>>

\* Of the completed runs only the newest Keep stay; then the command succeeds.
Outdated(r) == /\ rows[r].completed
               /\ Cardinality({q \in Runs : q > r /\ rows[q].completed}) >= Keep
Exit(p, ok) ==
    /\ proc[p].pc = "cleanup"
    /\ rows' = [r \in Runs |-> IF ok /\ Outdated(r) THEN NoRow ELSE rows[r]]
    /\ proc' = [proc EXCEPT ![p] = Off]
    /\ UNCHANGED <<data, history>>

Command(p) ==
    \/ \E m \in Modes : Resume(p, m) \/ Begin(p, m)
    \/ Perform(p) \/ ScanAgain(p) \/ Mirror(p) \/ Stop(p)
    \/ \E ok \in BOOLEAN : Mark(p, ok) \/ Complete(p, ok) \/ Exit(p, ok)

\* A day passes for the runs up to r.  Of a completed run the age says nothing.
Age == /\ \E r \in Incomplete :
            rows' = [q \in Runs |-> IF q <= r /\ q \in Incomplete
                                    THEN [safe |-> rows[q].safe, last |-> rows[q].last,
                                          completed |-> FALSE, old |-> TRUE]
                                    ELSE rows[q]]
       /\ UNCHANGED <<proc, data, history>>

UserChanges == /\ tree < MaxChanges /\ tree' = tree + 1
               /\ UNCHANGED <<rows, proc, scanned, mirrored, gaps, history>>

Next == (\E p \in Procs : Command(p)) \/ Age \/ UserChanges

Spec == Init /\ [][Next]_vars

-----------------------------------------------------------------------------
TypeOK ==
    /\ rows \in [Runs -> Row \cup {NoRow}]
    /\ proc \in [Procs -> Busy \cup {Off}]
    /\ \A p \in Procs : proc[p].pc \in {"step", "mark"} => proc[p].step \in Steps
    /\ tree \in 0..MaxChanges /\ scanned \in 0..tree /\ mirrored \in 0..tree
    /\ gaps \subseteq Runs
    /\ mode \in [Runs -> Modes \cup {"none"}]
    /\ did \in [Runs -> SUBSET (Steps \X Modes)]
    /\ finished \subseteq Runs
    /\ born \in [Runs -> 0..tree]

\* The steps of run r before step k have been performed, in the run's mode.
DoneBefore(r, k) == \A j \in Steps : j < k => <<j, mode[r]>> \in did[r]

\* A checkpoint never runs ahead of the work: not when processes of one run
\* overtake each other, not when checkpoints are lost, not across modes.
CheckpointSound ==
    \A r \in Runs : rows[r] # NoRow =>
        /\ rows[r].safe = mode[r]
        /\ DoneBefore(r, rows[r].last + 1)
        /\ rows[r].completed => DoneBefore(r, 7)

\* A completed real run has mirrored every change made before it was begun,
\* over however many interrupted processes it was spread, unless its fifth step
\* left something out: the listing, the copy, the move or the deletion that
\* failed is in the log only, and the run is completed all the same.
RunCovers ==
    \A r \in finished \ gaps : mode[r] = "real" => mirrored >= born[r]

\* Why: a process has the mode of its run and everything before its step behind
\* it (the step too once it is to be checkpointed), whoever performed it; a row
\* promises no more than was done; what is finished was done completely.
Behind(r, m, c, k) ==
    /\ mode[r] = m
    /\ DoneBefore(r, IF c = "mark" THEN k + 1 ELSE k)
    /\ c \in {"complete", "cleanup"} => k = 7
    /\ c = "mirror" => k = 5 /\ (r \in gaps \/ scanned >= born[r])
ProcSound ==
    \A p \in Procs : proc[p].pc # "off" =>
        Behind(proc[p].run, proc[p].safe, proc[p].pc, proc[p].step)
OneMode ==
    \A r \in Runs : /\ did[r] \subseteq Steps \X {mode[r]}
                    /\ mode[r] = "none" => did[r] = {} /\ rows[r] = NoRow
Covered ==
    /\ \A r \in finished : DoneBefore(r, 7)
    /\ \A r \in Runs \ gaps : <<5, "real">> \in did[r] => mirrored >= born[r]
RunInv == TypeOK /\ CheckpointSound /\ ProcSound /\ OneMode /\ Covered

\* Every process, in whatever run it is, performs the pipeline in order.
PL == INSTANCE Pipeline WITH
          Runs <- Runs, Steps <- Steps,
          mode <- mode, did <- did, finished <- finished
Implements == PL!Spec
=============================================================================
