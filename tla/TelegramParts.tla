----------------------------- MODULE TelegramParts -----------------------------
(***************************************************************************)
(* One file in the Telegram channel, through syncs.  The client            *)
(* (internal/telegram/client.go) sends it as a message to each part of     *)
(* maxPartSize; the caption of a message says to which path it belongs,    *)
(* which part it is, and whether it is deleted.  ListFiles puts together   *)
(* what the captions say; the rows follow the listing                      *)
(* (BatchInsertFiles and the post-processing of a refresh); a file without *)
(* an active row of Telegram is uploaded and gets one (copyFile); and a    *)
(* file the user has soft-deleted is hidden by editing the captions        *)
(* (UpdateFileStatus).                                                     *)
(*                                                                         *)
(* A row is known by its native id, the message of the first part.  A row  *)
(* that nothing links to the file becomes a logical file of its own at the *)
(* same path: outside of Google rows are not linked by content.  The file  *)
(* is then uploaded under another name, which is another path and left out *)
(* here.                                                                   *)
(*                                                                         *)
(* Calls fail, with or without effect, listings fail, and the process is   *)
(* killed anywhere.                                                        *)
(***************************************************************************)
EXTENDS Integers, FiniteSets

CONSTANTS
    MaxPart,        \* the largest part (maxPartSize)
    Sizes,          \* the sizes the file may have
    MaxMessages,    \* bound: messages ever sent
    MaxTries,       \* bound: attempts that WithRetry makes
    MaxChanges,     \* bound: how often the user deletes or restores the file
    MaxFaults       \* bound: what goes wrong

ASSUME PartsAssumption ==
    /\ MaxPart \in Nat \ {0} /\ Sizes \subseteq Nat
    /\ MaxMessages \in Nat /\ MaxTries \in Nat /\ MaxChanges \in Nat /\ MaxFaults \in Nat

Messages == 1..MaxMessages      \* their ids: a later one is larger

VARIABLES
    size,           \* the size of the file
    sent,           \* the last message sent
    part,           \* message -> which part it is
    visible,        \* the messages whose caption says active
    row,            \* native id -> its row: whose it is, its status, its fragments
    pc,             \* where the sync is
    wanted, goal,   \* whether the user keeps the file; what this sync has seen of it
    seen,           \* the rows this refresh has listed
    done, tries,    \* the parts this upload has sent, and the attempts at it
    todo, hiding,   \* the messages still to hide, and of which row
    purged,         \* the rows that were hidden as a whole
    changes, faults, wrong      \* history; wrong: which kinds of fault there were

channel  == <<sent, part, visible>>
upload   == <<done, tries>>
purge    == <<todo, hiding>>
history  == <<changes, faults, wrong>>
vars     == <<size, channel, row, pc, wanted, goal, seen, upload, purge, purged, history>>

\* UploadFile: a file not above maxPartSize is one message without a fragment.
Fragmented  == size > MaxPart
Total       == IF Fragmented THEN (size + MaxPart - 1) \div MaxPart ELSE 1
PartSize(i) == IF i = Total THEN size - (i - 1) * MaxPart ELSE MaxPart

NoRow       == [of |-> "none", status |-> "none", frags |-> {}]
Deleted(r)  == [of |-> r.of, status |-> "deleted", frags |-> r.frags]
Active      == {k \in Messages : row[k].status = "active"}

\* The messages that a download of a row concatenates, by number.
Content(k)  == IF Fragmented THEN row[k].frags ELSE {k}

Fault(kind) == /\ faults < MaxFaults /\ faults' = faults + 1
               /\ wrong' = wrong \cup {kind}
               /\ UNCHANGED changes

Init ==
    /\ size \in Sizes
    /\ sent = 0 /\ part = [m \in Messages |-> 0] /\ visible = {}
    /\ row = [k \in Messages |-> NoRow]
    /\ pc = "idle" /\ wanted = TRUE /\ goal = TRUE /\ seen = {}
    /\ done = {} /\ tries = 0 /\ todo = {} /\ hiding = 0 /\ purged = {}
    /\ changes = 0 /\ faults = 0 /\ wrong = {}

-----------------------------------------------------------------------------
(* ListFiles *)

Newest(S) == {m \in S : \A x \in S : x <= m}
Oldest(S) == {m \in S : \A x \in S : m <= x}

\* The history comes newest first.  Of fragments the newest first part names the
\* file, or the newest of all; of single messages the last to come stays.
First(S) == {m \in S : part[m] = 1}
NativeID(S) == IF ~Fragmented THEN Oldest(S)
               ELSE IF First(S) = {} THEN Newest(S) ELSE Newest(First(S))

\* Mutant: the parts of one number are not told apart from those of another.
FragmentsOfFirst(S) == IF Fragmented THEN {m \in S : part[m] = 1} ELSE {}

\* Every active message of the path is a fragment; nobody counts them.
Fragments(S) == IF Fragmented THEN S ELSE {}

\* Mutant: a new row is of no file, and stays that.
UpsertedUnlinked(k, S) ==
    [of     |-> row[k].of,
     status |-> IF row[k].status = "deleted" THEN "deleted" ELSE "active",
     frags  |-> IF Fragmented THEN Fragments(S) ELSE row[k].frags]

\* BatchInsertFiles: a deleted row stays deleted, for Telegram has no hashes.
Upserted(k, S) ==
    [of     |-> IF row[k].of = "none" THEN "orphan" ELSE row[k].of,
     status |-> IF row[k].status = "deleted" THEN "deleted" ELSE "active",
     frags  |-> IF Fragmented THEN Fragments(S) ELSE row[k].frags]

\* A sync begins, with a refresh, and learns whether the file is in use.
List ==
    /\ pc \in {"idle", "done"}
    /\ goal' = wanted
    /\ \/ visible = {} /\ UNCHANGED row /\ seen' = {}
       \/ \E k \in NativeID(visible) :
             row' = [row EXCEPT ![k] = Upserted(k, visible)] /\ seen' = {k}
    /\ pc' = "promote"
    /\ UNCHANGED <<size, channel, wanted, upload, purge, purged, history>>

\* The listing fails, which is only logged.
ListFails ==
    /\ pc \in {"idle", "done"} /\ Fault("missed")
    /\ goal' = wanted /\ seen' = {}
    /\ pc' = "promote"
    /\ UNCHANGED <<size, channel, row, wanted, upload, purge, purged>>

\* LinkOrphanedReplicas and PromoteOrphanedReplicasToFiles.
Promote ==
    /\ pc = "promote"
    /\ row' = [k \in Messages |->
                  IF row[k].of = "orphan"
                  THEN [of |-> "other", status |-> row[k].status, frags |-> row[k].frags]
                  ELSE row[k]]
    /\ pc' = "sweep"
    /\ UNCHANGED <<size, channel, wanted, goal, seen, upload, purge, purged, history>>

\* Mutant: rows that were not seen are left as they are.
SweepNothing ==
    /\ pc = "sweep"
    /\ pc' = "decide"
    /\ UNCHANGED <<size, channel, row, wanted, goal, seen, upload, purge, purged, history>>

\* MarkDeletedReplicas.
Sweep ==
    /\ pc = "sweep"
    /\ row' = [k \in Messages |->
                  IF row[k].status = "active" /\ k \notin seen
                  THEN Deleted(row[k]) ELSE row[k]]
    /\ pc' = "decide"
    /\ UNCHANGED <<size, channel, wanted, goal, seen, upload, purge, purged, history>>

-----------------------------------------------------------------------------
(* What the sync does about it *)

\* The row of a file that was soft-deleted is hidden, message by message.
Hide ==
    /\ pc = "decide" /\ ~goal
    /\ \E k \in Active : row[k].of = "file" /\ hiding' = k /\ todo' = Content(k)
    /\ pc' = "hide"
    /\ UNCHANGED <<size, channel, row, wanted, goal, seen, upload, purged, history>>

\* Mutant: only a row of this very file counts.
MissingAnyway == \A k \in Active : row[k].of # "file"

\* Mutant: a row that is deleted counts.
MissingRow == \A k \in Messages : row[k].status = "none"

\* The file has no row of Telegram, and nothing lies at its path.
Missing == Active = {}

Upload ==
    /\ pc = "decide" /\ goal /\ Missing
    /\ done' = {} /\ tries' = 1
    /\ pc' = "send"
    /\ UNCHANGED <<size, channel, row, wanted, goal, seen, purge, purged, history>>

\* There is a copy, or a file of that path that is not this one.
Leave ==
    /\ pc = "decide"
    /\ IF goal THEN ~Missing ELSE \A k \in Active : row[k].of # "file"
    /\ pc' = "done"
    /\ UNCHANGED <<size, channel, row, wanted, goal, seen, upload, purge, purged, history>>

-----------------------------------------------------------------------------
(* UploadFile, uploadPart *)

\* A message is posted, as the part after those that were sent.
Posted ==
    /\ pc = "send" /\ sent < MaxMessages /\ Cardinality(done) < Total
    /\ sent' = sent + 1
    /\ part' = [part EXCEPT ![sent + 1] = Cardinality(done) + 1]
    /\ visible' = visible \cup {sent + 1}

\* Mutant: the file ends one part early.
SendButOne ==
    /\ Posted /\ done' = done \cup {sent + 1}
    /\ pc' = IF Cardinality(done') >= Total - 1 THEN "record" ELSE "send"
    /\ UNCHANGED <<size, row, wanted, goal, seen, tries, purge, purged, history>>

\* Posted, and its caption updated with the id it got.
SendPart ==
    /\ Posted /\ done' = done \cup {sent + 1}
    /\ pc' = IF Cardinality(done') = Total THEN "record" ELSE "send"
    /\ UNCHANGED <<size, row, wanted, goal, seen, tries, purge, purged, history>>

\* Posted, but its reply is lost or the update of its caption fails: an error.
PartHalfDone ==
    /\ Posted /\ Fault("cut")
    /\ pc' = "failed"
    /\ UNCHANGED <<size, row, wanted, goal, seen, upload, purge, purged>>

PartFails ==
    /\ pc = "send" /\ Fault("cut")
    /\ pc' = "failed"
    /\ UNCHANGED <<size, channel, row, wanted, goal, seen, upload, purge, purged>>

\* The upload is whole, and the download that fed it reports an error: what was
\* posted is neither deleted nor entered.
SourceFails ==
    /\ pc = "record" /\ Fault("source")
    /\ pc' = "failed"
    /\ UNCHANGED <<size, channel, row, wanted, goal, seen, upload, purge, purged>>

\* The next replica, or WithRetry: all parts again.  What was posted stays.
Retry ==
    /\ pc = "failed" /\ tries < MaxTries
    /\ done' = {} /\ tries' = tries + 1
    /\ pc' = "send"
    /\ UNCHANGED <<size, channel, row, wanted, goal, seen, purge, purged, history>>

GiveUp ==
    /\ pc = "failed"
    /\ pc' = "done"
    /\ UNCHANGED <<size, channel, row, wanted, goal, seen, upload, purge, purged, history>>

\* The row of the copy: a new one, or a deleted one of the file, which keeps the
\* fragments it had: UpdateReplica does not write them.
Retired == {k \in Messages : row[k].of = "file" /\ row[k].status = "deleted"}
Copied(fr) == [of |-> "file", status |-> "active", frags |-> fr]

Record ==
    /\ pc = "record"
    /\ \E k \in Oldest(done) :
          \/ /\ Retired = {}
             /\ row' = [row EXCEPT ![k] = Copied(IF Fragmented THEN done ELSE {})]
          \/ \E old \in Retired :
                row' = [row EXCEPT ![old] = NoRow, ![k] = Copied(row[old].frags)]
    /\ pc' = "done"
    /\ UNCHANGED <<size, channel, wanted, goal, seen, upload, purge, purged, history>>

RecordFails ==
    /\ pc = "record" /\ Fault("norow")
    /\ pc' = "done"
    /\ UNCHANGED <<size, channel, row, wanted, goal, seen, upload, purge, purged>>

-----------------------------------------------------------------------------
(* UpdateFileStatus *)

\* The captions are edited in the order of the parts.
NextToHide == {m \in todo : \A x \in todo : part[m] <= part[x]}

HidePart ==
    /\ pc = "hide"
    /\ \E m \in NextToHide : visible' = visible \ {m} /\ todo' = todo \ {m}
    /\ UNCHANGED <<size, sent, part, row, pc, wanted, goal, seen, upload, hiding, purged, history>>

\* Mutant: a caption that cannot be edited is passed over.
HideSkips ==
    /\ pc = "hide" /\ Fault("unhidden")
    /\ \E m \in NextToHide : todo' = todo \ {m}
    /\ UNCHANGED <<size, channel, row, pc, wanted, goal, seen, upload, hiding, purged>>

\* A caption cannot be edited, or the row not written: it stays active.
HideFails ==
    /\ pc = "hide" /\ Fault("unhidden")
    /\ todo' = {} /\ hiding' = 0
    /\ pc' = "done"
    /\ UNCHANGED <<size, channel, row, wanted, goal, seen, upload, purged>>

Hidden ==
    /\ pc = "hide" /\ todo = {}
    /\ row' = [row EXCEPT ![hiding] = Deleted(row[hiding])]
    /\ purged' = purged \cup {hiding}
    /\ hiding' = 0
    /\ pc' = "done"
    /\ UNCHANGED <<size, channel, wanted, goal, seen, upload, todo, history>>

-----------------------------------------------------------------------------
\* What the process is killed in the middle of.
Kind == IF pc = "send" THEN "cut"
        ELSE IF pc = "record" THEN "norow"
        ELSE IF pc = "hide" THEN "unhidden" ELSE "killed"

Kill ==
    /\ pc \notin {"idle", "done"}
    /\ Fault(Kind)
    /\ pc' = "idle" /\ todo' = {} /\ hiding' = 0
    /\ UNCHANGED <<size, channel, row, wanted, goal, seen, upload, purged>>

\* The user soft-deletes the file, or restores it.
Change ==
    /\ changes < MaxChanges
    /\ changes' = changes + 1 /\ wanted' = ~wanted
    /\ UNCHANGED <<size, channel, row, pc, goal, seen, upload, purge, purged, faults, wrong>>

Sync == \/ List \/ Promote \/ Sweep \/ Hide \/ Upload \/ Leave
        \/ SendPart \/ Retry \/ GiveUp \/ Record \/ HidePart \/ Hidden
Fails == ListFails \/ PartHalfDone \/ PartFails \/ SourceFails \/ RecordFails \/ HideFails
         \/ Kill

Next == Sync \/ Fails \/ Change
Spec == Init /\ [][Next]_vars

\* The user runs one sync after the other, and a sync goes on.
FairSpec == Spec /\ WF_vars(Sync)

-----------------------------------------------------------------------------
Row == [of : {"none", "orphan", "file", "other"}, status : {"none", "active", "deleted"},
        frags : SUBSET Messages]
ChannelOK == /\ size \in Sizes /\ sent \in 0..MaxMessages
             /\ part \in [Messages -> Nat] /\ visible \subseteq 1..sent
RowsOK    == /\ row \in [Messages -> Row]
             /\ \A k \in Messages : row[k].of = "none" <=> row[k].status = "none"
StepOK    == /\ pc \in {"idle", "promote", "sweep", "decide", "send", "failed", "record",
                       "hide", "done"}
             /\ seen \subseteq Messages /\ purged \subseteq Messages
             /\ done \subseteq 1..sent /\ tries \in Nat
             /\ todo \subseteq Messages /\ hiding \in 0..MaxMessages
             /\ pc = "hide" => hiding # 0
UserOK    == wanted \in BOOLEAN /\ goal \in BOOLEAN /\ changes \in 0..MaxChanges
FaultsOK  == /\ faults \in 0..MaxFaults
             /\ wrong \subseteq {"missed", "cut", "source", "norow", "unhidden", "killed"}
TypeOK == ChannelOK /\ RowsOK /\ StepOK /\ UserOK /\ FaultsOK

\* What a download of the row k gives, against what the file is.
Has(k, i)   == \E m \in Content(k) : part[m] = i
Lacks(k)    == \E i \in 1..Total : ~Has(k, i)
Repeats(k)  == \E l, m \in Content(k) : l # m /\ part[l] = part[m]
Whole(k)    == ~Lacks(k) /\ ~Repeats(k)

\* Syncs that nothing disturbs mirror the file: however often it is deleted and
\* restored there is one copy of it when it is in use, of its own row and whole,
\* and when it is not, no message shows.
CalmMirrors ==
    pc = "done" /\ faults = 0 =>
        IF goal THEN \E k \in Messages : /\ Active = {k} /\ row[k].of = "file" /\ Whole(k)
                                        /\ {part[m] : m \in visible} = 1..Total
                                        /\ Cardinality(visible) = Total
        ELSE Active = {} /\ visible = {}

\* A copy in use lacks a part only if an upload was cut off in the middle, or
\* some messages of the file could not be hidden.
LacksOnlyIfCut ==
    \A k \in Active : Lacks(k) => wrong \cap {"cut", "unhidden"} # {}

\* A copy in use has a part twice only if an upload was cut off, or the file was
\* sent again: because a listing had missed it, or because the source reported an
\* error when all of it was sent.
RepeatsOnlyIfAgain ==
    \A k \in Active : Repeats(k) => wrong \cap {"cut", "missed", "source"} # {}

\* What was hidden as a whole stays hidden: no later listing, upload or failure
\* brings a message of it back.
HiddenStays == \A k \in purged : Content(k) \cap visible = {}

\* In the long run there is something at the path of a file that is in use: an
\* upload that failed, or a copy that was hidden, is made up for.  (A listing
\* that was missed may leave a message whose row stays deleted and that hides
\* every later one from the listing: then each sync sends the file again.)
Present == <>[](wanted => Active # {} \/ "missed" \in wrong)

\* Why what was hidden stays hidden.  Rows and captions speak of messages that
\* were sent; a row that this refresh has listed has all that shows; only such a
\* row is active after the sweep, and so it is hidden with all that shows.
Known  == /\ \A k \in Messages : row[k].frags \subseteq 1..sent
          /\ \A k \in Messages : k \in 1..sent \/ row[k].of = "none"
          /\ purged \subseteq 1..sent
Listed == pc \in {"promote", "sweep", "decide"} =>
            \A k \in seen : k \in visible /\ (Fragmented => row[k].frags = visible)
Swept  == pc = "decide" => Active \subseteq seen
Sent   == pc \in {"send", "record"} => done \subseteq visible
Hiding == pc = "hide" => /\ row[hiding].of = "file" /\ hiding \in Content(hiding)
                         /\ Content(hiding) \cap visible \subseteq todo
Gone   == purged \cap visible = {} /\ HiddenStays
PartsInv == Known /\ Listed /\ Swept /\ Sent /\ Hiding /\ Gone

\* Why no part is lacking.  What an upload has sent are the first parts; while no
\* upload was cut off and no hiding failed, what shows is the whole file or
\* nothing, except in the midst of an upload or of hiding.
Complete(S) == \A i \in 1..Total : \E m \in S : part[m] = i
Numbered == /\ \A m \in 1..sent : part[m] \in 1..Total
            /\ pc \in {"send", "record"} => /\ Cardinality(done) <= Total
                                            /\ \A i \in 1..Cardinality(done) :
                                                 \E m \in done : part[m] = i
            /\ pc = "record" => Cardinality(done) = Total
Uncut   == wrong \cap {"cut", "unhidden"} = {}
RowsFull    == Fragmented => \A k \in Messages :
                  row[k].status # "none" => Complete(row[k].frags)
ChannelFull == /\ pc \notin {"send", "record", "hide"} => visible = {} \/ Complete(visible)
               /\ pc = "hide" /\ Fragmented => visible \subseteq todo
FullInv == Numbered /\ (Uncut => RowsFull /\ ChannelFull)

\* SPEC: "Every active logical_file exists with identical content on every
\* provider", "split into ordered fragments, tracked individually, reassembled
\* on demand".  After a refresh, a download of an active row gives the file.
ActiveIsWhole == pc = "decide" => \A k \in Active : Whole(k)

=============================================================================
