------------------------------ MODULE MetadataDB ------------------------------
(***************************************************************************)
(* The life of cloud-drives-sync-metadata.db around a command (cmd/root.go)*)
(* and its copies in the accounts (internal/task/metadata_sync.go).        *)
(*                                                                         *)
(* A command takes the local file whenever there is one, and only          *)
(* otherwise downloads a copy: from the main account, then from the others *)
(* in order, the first that answers.  A command that succeeded and changed *)
(* a tracked row uploads the file to all accounts at one time; one success *)
(* is enough.  A command that failed uploads nothing.  Uploading means to  *)
(* look for a file of that name and to overwrite it, or else to create it: *)
(* Google accounts share the folder they look in, and the Telegram client  *)
(* overwrites by deleting and sending the file anew, as "metadata.db".     *)
(*                                                                         *)
(* The process can be killed anywhere, and the machine can lose the file.  *)
(***************************************************************************)
EXTENDS Naturals, FiniteSets, Sequences

CONSTANTS
    Accounts,       \* the accounts of the configuration
    Google,         \* those whose aux folder is the one of the main account
    Telegram,       \* those whose files are replaced and not overwritten
    Sources,        \* the accounts a download tries, in order
    Edits,          \* the changes commands can make to tracked rows
    MaxLosses,      \* bound: how often the machine loses the file
    None            \* no account

ASSUME MetadataAssumption ==
    /\ Google \subseteq Accounts /\ Telegram \subseteq Accounts \ Google
    /\ Sources \in Seq(Accounts) /\ MaxLosses \in Nat
    /\ None \notin Accounts

Dbs   == SUBSET Edits                   \* a database is the changes it has seen
Plain == Accounts \ Telegram            \* a file keeps its id and name here

VARIABLES
    file,       \* the local file: "absent", "empty" (created), "torn" or "whole"
    db,         \* what the local database has seen
    copy,       \* account -> the file it has created: its content, or nothing
    pc,         \* where the command is
    source,     \* the place in Sources that a download has come to
    changed,    \* the command has changed a tracked row
    up,         \* account -> where its upload is
    found,      \* account -> whose file its upload is to overwrite, or None
    lost,       \* how often the machine has lost the file
    kept,       \* the database of the last command that was uploaded to Plain
    hurt        \* a plain upload failed in a command that succeeded, an empty
                \* file was opened, or the file was restored from Telegram

vars == <<file, db, copy, pc, source, changed, up, found, lost, kept, hurt>>
work == <<changed, up, found>>
history == <<lost, kept, hurt>>

\* The files of the right name that an account finds in its aux folder.
Folder(a) == IF a \in Google THEN Google ELSE {a}
Found(a)  == {b \in Folder(a) : copy[b] # {}}

Init ==
    /\ file = "whole" /\ db = {}
    /\ copy = [a \in Accounts |-> {}]
    /\ pc = "idle" /\ source = 0 /\ changed = FALSE
    /\ up = [a \in Accounts |-> "no"]
    /\ found = [a \in Accounts |-> None]
    /\ lost = 0 /\ kept = {} /\ hurt = FALSE

-----------------------------------------------------------------------------
(* Before the command: DownloadMetadataDB and Open. *)

\* There is a local file, and it opens.
Open == /\ pc = "idle" /\ file = "whole"
        /\ pc' = "work" /\ changed' = FALSE
        /\ UNCHANGED <<file, db, copy, source, up, found, history>>

\* A file that was created and never written opens as a new database.
OpenEmpty == /\ pc = "idle" /\ file = "empty"
             /\ file' = "whole" /\ db' = {}
             /\ pc' = "work" /\ changed' = FALSE
             /\ hurt' = TRUE
             /\ UNCHANGED <<copy, source, up, found, lost, kept>>

Download == /\ pc = "idle" /\ file = "absent" /\ Sources # <<>>
            /\ pc' = "ask" /\ source' = 1
            /\ UNCHANGED <<file, db, copy, work, history>>

\* The account cannot be asked, has no such file or breaks off: what was
\* fetched is removed, and it is asked again, or the next one, or no more.
AskNext == /\ pc \in {"ask", "fetch"}
           /\ file' = "absent"
           /\ \/ pc' = "ask" /\ source' = source
              \/ source < Len(Sources) /\ pc' = "ask" /\ source' = source + 1
              \/ source = Len(Sources) /\ pc' = "idle" /\ source' = 0
           /\ UNCHANGED <<db, copy, work, history>>

Fetch == /\ pc = "ask" /\ Found(Sources[source]) # {}
         /\ file' = "empty" /\ pc' = "fetch"
         /\ UNCHANGED <<db, copy, source, work, history>>

FetchSome == /\ pc = "fetch" /\ file = "empty"
             /\ file' = "torn"
             /\ UNCHANGED <<db, copy, pc, source, work, history>>

\* Mutant: a download that breaks off passes for a complete one.
FetchedTorn == /\ pc = "fetch" /\ file = "torn"
               /\ db' = {}
               /\ file' = "whole" /\ pc' = "idle" /\ source' = 0
               /\ UNCHANGED <<copy, work, history>>

\* The copy is complete.  Which file of the name is listed first is open.
Fetched == /\ pc = "fetch" /\ file = "torn"
           /\ \E b \in Found(Sources[source]) : \E d \in copy[b] : db' = d
           /\ file' = "whole" /\ pc' = "idle" /\ source' = 0
           /\ hurt' = (hurt \/ Sources[source] \in Telegram)
           /\ UNCHANGED <<copy, work, lost, kept>>

-----------------------------------------------------------------------------
(* The command, and PersistentPostRunE. *)

Edit(e) == /\ pc = "work" /\ e \notin db
           /\ db' = db \cup {e} /\ changed' = TRUE
           /\ UNCHANGED <<file, copy, pc, source, up, found, history>>

\* The changes are uploaded, if there are any.
Succeed ==
    /\ pc = "work"
    /\ IF changed
       THEN pc' = "upload" /\ up' = [a \in Accounts |-> "find"]
       ELSE pc' = "idle" /\ UNCHANGED up
    /\ UNCHANGED <<file, db, copy, source, changed, found, history>>

\* The account's aux folder is searched, or that fails and is not repeated.
Find(a) ==
    /\ up[a] = "find"
    /\ \/ \E b \in Found(a) : found' = [found EXCEPT ![a] = b]
       \/ Found(a) = {} /\ found' = [found EXCEPT ![a] = None]
    /\ up' = [up EXCEPT ![a] = "write"]
    /\ UNCHANGED <<file, db, copy, pc, source, changed, history>>

\* The file is overwritten or created.  The answer may still be an error,
\* after which the whole upload is repeated or given up.
Write(a, answer) ==
    /\ up[a] = "write" /\ (a \in Telegram => found[a] = None)
    /\ copy' = [copy EXCEPT ![IF found[a] = None THEN a ELSE found[a]] = {db}]
    /\ up' = [up EXCEPT ![a] = answer]
    /\ UNCHANGED <<file, db, pc, source, changed, found, history>>

\* Telegram: the message goes; what is sent instead has another name.
Replace(a, answer) ==
    /\ up[a] = "write" /\ a \in Telegram /\ found[a] # None
    /\ copy' = [copy EXCEPT ![found[a]] = {}]
    /\ up' = [up EXCEPT ![a] = answer]
    /\ UNCHANGED <<file, db, pc, source, changed, found, history>>

\* An error before anything was changed.
UploadFails(a, answer) ==
    /\ up[a] \in {"find", "write"} /\ answer \in {"find", "failed"}
    /\ up' = [up EXCEPT ![a] = answer]
    /\ UNCHANGED <<file, db, copy, pc, source, changed, found, history>>

\* All uploads are through.
Uploaded == \A a \in Accounts : up[a] \in {"ok", "failed"}

\* Mutant: an upload that failed counts.
ExitCounting ==
    /\ pc = "upload" /\ Uploaded
    /\ kept' = db
    /\ hurt' = (hurt \/ \E a \in Plain : up[a] # "ok")
    /\ pc' = "idle" /\ up' = [a \in Accounts |-> "no"]
    /\ UNCHANGED <<file, db, copy, source, changed, found, lost>>

\* One upload that went well is enough for the command to succeed.
Exit ==
    /\ pc = "upload" /\ Uploaded
    /\ kept' = IF \E a \in Plain : up[a] = "ok" THEN db ELSE kept
    /\ hurt' = (hurt \/ \E a \in Plain : up[a] # "ok")
    /\ pc' = "idle" /\ up' = [a \in Accounts |-> "no"]
    /\ UNCHANGED <<file, db, copy, source, changed, found, lost>>

\* Mutant: a command that fails is undone.
StopUndone ==
    /\ pc # "idle"
    /\ db' = kept
    /\ pc' = "idle" /\ source' = 0 /\ up' = [a \in Accounts |-> "no"]
    /\ UNCHANGED <<file, copy, changed, found, history>>

\* Mutant: the uploads go on when the process has gone.
StopUploading ==
    /\ pc # "idle"
    /\ pc' = "idle" /\ source' = 0
    /\ UNCHANGED <<file, db, copy, work, history>>

\* The command fails or the process is killed; what it has written stays.
Stop ==
    /\ pc # "idle"
    /\ pc' = "idle" /\ source' = 0 /\ up' = [a \in Accounts |-> "no"]
    /\ UNCHANGED <<file, db, copy, changed, found, history>>

\* The file is gone: a broken disk, or another machine.
Lose ==
    /\ pc = "idle" /\ file # "absent" /\ lost < MaxLosses
    /\ file' = "absent" /\ db' = {} /\ lost' = lost + 1
    /\ UNCHANGED <<copy, pc, source, work, kept, hurt>>

Next ==
    \/ Open \/ OpenEmpty \/ Download \/ AskNext \/ Fetch \/ FetchSome \/ Fetched
    \/ (\E e \in Edits : Edit(e)) \/ Succeed \/ Exit \/ Stop \/ Lose
    \/ \E a \in Accounts : \/ Find(a)
                           \/ \E answer \in {"ok", "find", "failed"} :
                                 Write(a, answer) \/ Replace(a, answer) \/ UploadFails(a, answer)

Spec == Init /\ [][Next]_vars

-----------------------------------------------------------------------------
TypeOK ==
    /\ file \in {"absent", "empty", "torn", "whole"}
    /\ db \in Dbs /\ kept \in Dbs
    /\ copy \in [Accounts -> SUBSET Dbs]
    /\ pc \in {"idle", "ask", "fetch", "work", "upload"}
    /\ source \in 0..Len(Sources) /\ (source # 0 <=> pc \in {"ask", "fetch"})
    /\ changed \in BOOLEAN /\ hurt \in BOOLEAN
    /\ up \in [Accounts -> {"no", "find", "write", "ok", "failed"}]
    /\ \A a \in Accounts : up[a] # "no" <=> pc = "upload"
    /\ found \in [Accounts -> Accounts \cup {None}]
    /\ lost \in 0..MaxLosses

\* As long as the machine keeps its file no copy is ahead of it: an upload that
\* was cut off, repeated or applied without an answer brings nothing back.
LocalLeads ==
    lost = 0 => \A a \in Accounts : \A d \in copy[a] : d \subseteq db

\* As long as the machine keeps its file, everything that was in the database of
\* a command uploaded to Google or OneDrive can be read from one copy there,
\* also while later uploads to some of them fail.
SomeCopyKept ==
    lost = 0 /\ kept # {} => \E a \in Plain : \E d \in copy[a] : kept \subseteq d

\* Two accounts found nothing at one time and both created the file: from then
\* on uploads overwrite the one listed first, and the other stays as it is.
Twins == \E a, b \in Google : a # b /\ copy[a] # {} /\ copy[b] # {}

\* Losing the file loses nothing that was kept, unless one of the things
\* happened that hurt or the shared folder has twins: every copy in Google or
\* OneDrive has it, and so has every database that is restored or worked on.
KeptUnlessHurt ==
    ~hurt /\ ~Twins => /\ file = "whole" => kept \subseteq db
                       /\ \A a \in Plain : \A d \in copy[a] : kept \subseteq d

\* Why: a file is worked on whole; an upload aims at a file of its own folder;
\* and once it has gone well one of Plain has the database the command leaves.
LocalWhole ==
    /\ pc \in {"work", "upload"} => file = "whole"
    /\ lost = 0 => file = "whole" /\ pc \notin {"ask", "fetch"} /\ kept \subseteq db
Targets == \A a \in Accounts : found[a] \in Folder(a) \cup {None}
Current == \A a \in Plain : up[a] = "ok" => \E b \in Folder(a) : copy[b] = {db}
CopyInv == /\ TypeOK /\ LocalWhole /\ Targets /\ Current
           /\ LocalLeads /\ SomeCopyKept

\* SPEC: the database is "called cloud-drives-sync-metadata.db.  After any
\* command that changes it, upload a copy to cloud-drives-sync-aux in every
\* account".  When all uploads have gone well, every account has the file.
EveryAccountHolds ==
    pc = "upload" /\ (\A a \in Accounts : up[a] = "ok") =>
        \A a \in Accounts : Found(a) # {} /\ \A b \in Found(a) : copy[b] = {db}
=============================================================================
