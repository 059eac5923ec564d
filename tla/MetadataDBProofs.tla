--------------------------- MODULE MetadataDBProofs ---------------------------
(***************************************************************************)
(* Proofs about MetadataDB: CopyInv is inductive for any accounts, order   *)
(* of sources, changes and losses, and what was kept survives the loss of  *)
(* the local file unless what KeptUnlessHurt names has happened.           *)
(***************************************************************************)
EXTENDS MetadataDB, TLAPS

\* An account finds files in its own folder only, and a plain one plain files.
LEMMA FolderPlain ==
    ASSUME NEW a \in Accounts
    PROVE  /\ Folder(a) \subseteq Accounts
           /\ a \in Plain => Folder(a) \subseteq Plain
           /\ a \in Telegram => Folder(a) = {a}
  BY MetadataAssumption DEF Folder, Plain

\* Outside the uploads nothing is uploaded.
LEMMA NoUpload ==
    ASSUME TypeOK, pc # "upload"
    PROVE  \A a \in Accounts : up[a] = "no"
  BY DEF TypeOK

LEMMA InitInv == Init => CopyInv
  <1> SUFFICES ASSUME Init PROVE CopyInv
    OBVIOUS
  <1>0. 0 \in 0..Len(Sources) /\ 0 \in 0..MaxLosses
    BY MetadataAssumption
  <1>1. TypeOK
    BY <1>0 DEF Init, TypeOK, Dbs
  <1>2. LocalWhole /\ Targets /\ Current /\ LocalLeads /\ SomeCopyKept
    BY DEF Init, LocalWhole, Targets, Current, LocalLeads, SomeCopyKept, Plain
  <1> QED
    BY <1>1, <1>2 DEF CopyInv

\* Opening, downloading and losing: the copies and the uploads stay.
LEMMA FileInv ==
    ASSUME CopyInv,
           \/ Open \/ OpenEmpty \/ Download \/ AskNext \/ Fetch \/ FetchSome
           \/ Fetched \/ Lose
    PROVE  CopyInv'
  <1> USE DEF CopyInv
  <1>1. Len(Sources) \in Nat /\ \A i \in 1..Len(Sources) : Sources[i] \in Accounts
    BY MetadataAssumption
  <1>2. CASE Open
    BY <1>2 DEF Open, TypeOK, LocalWhole, Targets, Current, LocalLeads, SomeCopyKept, history
  <1>3. CASE OpenEmpty
    <2>1. lost' # 0
      BY <1>3 DEF OpenEmpty, LocalWhole
    <2>2. TypeOK'
      BY <1>3 DEF OpenEmpty, TypeOK, Dbs
    <2>3. Current'
      BY <1>3, NoUpload DEF OpenEmpty, Current, Plain
    <2> QED
      BY <1>3, <2>1, <2>2, <2>3 DEF OpenEmpty, LocalWhole, Targets, LocalLeads, SomeCopyKept
  <1>4. CASE Download
    <2>1. 1 \in 0..Len(Sources)
      BY <1>1, <1>4, MetadataAssumption DEF Download
    <2>2. TypeOK'
      BY <1>4, <2>1 DEF Download, TypeOK, history, work
    <2> QED
      BY <1>4, <2>2 DEF Download, LocalWhole, Targets, Current, LocalLeads, SomeCopyKept, history, work
  <1>5. CASE AskNext
    <2>1. /\ source' \in 0..Len(Sources) /\ (source' # 0 <=> pc' \in {"ask", "fetch"})
          /\ pc' \in {"ask", "idle"}
      BY <1>1, <1>5 DEF AskNext, TypeOK
    <2> QED
      BY <1>5, <2>1 DEF AskNext, TypeOK, LocalWhole, Targets, Current, LocalLeads, SomeCopyKept, history, work
  <1>6. CASE Fetch \/ FetchSome
    BY <1>6 DEF Fetch, FetchSome, TypeOK, LocalWhole, Targets, Current, LocalLeads, SomeCopyKept, history, work
  <1>7. CASE Fetched
    <2>1. source \in 1..Len(Sources)
      BY <1>1, <1>7 DEF Fetched, TypeOK
    <2>2. PICK b \in Found(Sources[source]) : \E d \in copy[b] : db' = d
      BY <1>7 DEF Fetched
    <2>3. db' \in Dbs
      BY <1>1, <2>1, <2>2, FolderPlain DEF Found, TypeOK
    <2>4. 0 \in 0..Len(Sources)
      BY <1>1
    <2>5. hurt' \in BOOLEAN
      BY <1>7 DEF Fetched
    <2>6. TypeOK'
      BY <1>7, <2>3, <2>4, <2>5 DEF Fetched, TypeOK, work
    <2>7. lost' # 0
      BY <1>7 DEF Fetched, LocalWhole
    <2>8. Current'
      BY <1>7, NoUpload DEF Fetched, Current, Plain, work
    <2> QED
      BY <1>7, <2>6, <2>7, <2>8 DEF Fetched, LocalWhole, Targets, LocalLeads, SomeCopyKept, work
  <1>8. CASE Lose
    <2>1. lost' \in 0..MaxLosses /\ lost' # 0
      BY <1>8, MetadataAssumption DEF Lose, TypeOK
    <2>2. TypeOK'
      BY <1>8, <2>1 DEF Lose, TypeOK, Dbs, work
    <2>3. Current'
      BY <1>8, NoUpload DEF Lose, Current, Plain, work
    <2> QED
      BY <1>8, <2>1, <2>2, <2>3 DEF Lose, LocalWhole, Targets, LocalLeads, SomeCopyKept, work
  <1> QED
    BY <1>2, <1>3, <1>4, <1>5, <1>6, <1>7, <1>8

\* The command: its changes, its end, its failure.
LEMMA CommandInv ==
    ASSUME CopyInv, (\E e \in Edits : Edit(e)) \/ Succeed \/ Exit \/ Stop
    PROVE  CopyInv'
  <1> USE DEF CopyInv
  <1>1. ASSUME NEW e \in Edits, Edit(e) PROVE CopyInv'
    <2>1. TypeOK'
      BY <1>1 DEF Edit, TypeOK, Dbs, history
    <2>2. Current'
      BY <1>1, NoUpload DEF Edit, Current, Plain
    <2>3. LocalLeads'
      BY <1>1 DEF Edit, LocalLeads, history
    <2> QED
      BY <1>1, <2>1, <2>2, <2>3 DEF Edit, LocalWhole, Targets, SomeCopyKept, history
  <1>2. CASE Succeed
    BY <1>2 DEF Succeed, TypeOK, LocalWhole, Targets, Current, LocalLeads, SomeCopyKept, history, Plain
  <1>3. CASE Stop
    <2>1. 0 \in 0..Len(Sources)
      BY MetadataAssumption
    <2> QED
      BY <1>3, <2>1 DEF Stop, TypeOK, LocalWhole, Targets, Current, LocalLeads, SomeCopyKept, history, Plain
  <1>4. CASE Exit
    <2>1. TypeOK' /\ LocalWhole' /\ Targets' /\ Current' /\ LocalLeads'
      BY <1>4 DEF Exit, TypeOK, LocalWhole, Targets, Current, LocalLeads, Plain
    <2>2. SomeCopyKept'
      <3>1. CASE \E a \in Plain : up[a] = "ok"
        <4>1. PICK a \in Plain : up[a] = "ok"
          BY <3>1
        <4>2. PICK b \in Folder(a) : copy[b] = {db}
          BY <4>1 DEF Current
        <4>3. b \in Plain /\ db \in copy[b]
          BY <4>2, FolderPlain DEF Plain
        <4> QED
          BY <1>4, <3>1, <4>3 DEF Exit, SomeCopyKept
      <3>2. CASE ~\E a \in Plain : up[a] = "ok"
        BY <1>4, <3>2 DEF Exit, SomeCopyKept
      <3> QED
        BY <3>1, <3>2
    <2> QED
      BY <2>1, <2>2
  <1> QED
    BY <1>1, <1>2, <1>3, <1>4

\* The uploads.
LEMMA UploadInv ==
    ASSUME CopyInv, NEW a \in Accounts, NEW answer \in {"ok", "find", "failed"},
           Find(a) \/ Write(a, answer) \/ Replace(a, answer) \/ UploadFails(a, answer)
    PROVE  CopyInv'
  <1> USE DEF CopyInv
  <1>1. pc = "upload" /\ file = "whole"
    BY DEF TypeOK, LocalWhole, Find, Write, Replace, UploadFails
  <1>2. CASE Find(a)
    <2>1. found' \in [Accounts -> Accounts \cup {None}] /\ Targets'
      BY <1>2, FolderPlain DEF Find, Found, TypeOK, Targets
    <2>2. TypeOK'
      BY <1>2, <2>1 DEF Find, TypeOK, history
    <2>3. Current'
      BY <1>2 DEF Find, Current, TypeOK, Plain
    <2> QED
      BY <1>2, <2>1, <2>2, <2>3 DEF Find, LocalWhole, LocalLeads, SomeCopyKept, history
  <1>3. CASE Write(a, answer)
    <2>1. PICK b \in Folder(a) :
            /\ copy' = [copy EXCEPT ![b] = {db}]
            /\ b = IF found[a] = None THEN a ELSE found[a]
      BY <1>3 DEF Write, Targets, Folder
    <2>2. b \in Accounts
      BY <2>1, FolderPlain
    <2>3. /\ copy' \in [Accounts -> SUBSET Dbs] /\ copy'[b] = {db}
          /\ \A x \in Accounts \ {b} : copy'[x] = copy[x]
      BY <2>1, <2>2 DEF TypeOK
    <2>4. TypeOK'
      BY <1>1, <1>3, <2>3 DEF Write, TypeOK, history
    <2>5. Current'
      <3> SUFFICES ASSUME NEW x \in Plain, up'[x] = "ok"
                   PROVE  \E y \in Folder(x) : copy'[y] = {db}
        BY <1>3 DEF Current, Write
      <3>1. CASE x = a
        BY <2>1, <2>3, <3>1
      <3>2. CASE x # a
        <4>1. PICK y \in Folder(x) : copy[y] = {db}
          BY <1>3, <3>2 DEF Write, Current, TypeOK, Plain
        <4>2. y \in Accounts
          BY FolderPlain DEF Plain
        <4> QED
          BY <2>3, <4>1, <4>2
      <3> QED
        BY <3>1, <3>2
    <2>6. LocalLeads'
      BY <1>3, <2>3 DEF Write, LocalLeads, history
    <2>7. SomeCopyKept'
      <3> SUFFICES ASSUME lost = 0, kept # {}
                   PROVE  \E x \in Plain : \E d \in copy'[x] : kept \subseteq d
        BY <1>3 DEF SomeCopyKept, Write, history
      <3>1. PICK x \in Plain : \E d \in copy[x] : kept \subseteq d
        BY DEF SomeCopyKept
      <3>2. CASE x = b
        BY <2>3, <3>1, <3>2 DEF LocalWhole
      <3>3. CASE x # b
        BY <2>3, <3>1, <3>3 DEF Plain
      <3> QED
        BY <3>2, <3>3
    <2> QED
      BY <1>3, <2>4, <2>5, <2>6, <2>7 DEF Write, LocalWhole, Targets, history
  <1>4. CASE Replace(a, answer)
    <2>1. copy' = [copy EXCEPT ![a] = {}] /\ a \in Telegram
      BY <1>4, FolderPlain DEF Replace, Targets
    <2>2. /\ copy' \in [Accounts -> SUBSET Dbs] /\ copy'[a] = {}
          /\ \A x \in Accounts \ {a} : copy'[x] = copy[x]
      BY <2>1 DEF TypeOK
    <2>3. TypeOK'
      BY <1>1, <1>4, <2>2 DEF Replace, TypeOK, history
    <2>4. Current'
      <3> SUFFICES ASSUME NEW x \in Plain, up'[x] = "ok"
                   PROVE  \E y \in Folder(x) : copy'[y] = {db}
        BY <1>4 DEF Current, Replace
      <3>1. up[x] = "ok" /\ x # a
        BY <1>4, <2>1 DEF Replace, TypeOK, Plain
      <3>2. PICK y \in Folder(x) : copy[y] = {db}
        BY <3>1 DEF Current
      <3>3. y \in Accounts /\ y # a
        BY <2>1, <3>2, FolderPlain DEF Plain
      <3> QED
        BY <2>2, <3>2, <3>3
    <2>5. LocalLeads'
      BY <1>4, <2>2 DEF Replace, LocalLeads, history
    <2>6. SomeCopyKept'
      BY <1>4, <2>1, <2>2 DEF Replace, SomeCopyKept, history, Plain
    <2> QED
      BY <1>4, <2>3, <2>4, <2>5, <2>6 DEF Replace, LocalWhole, Targets, history
  <1>5. CASE UploadFails(a, answer)
    <2>1. TypeOK'
      BY <1>1, <1>5 DEF UploadFails, TypeOK, history
    <2>2. Current'
      BY <1>5 DEF UploadFails, Current, TypeOK, Plain
    <2> QED
      BY <1>5, <2>1, <2>2 DEF UploadFails, LocalWhole, Targets, LocalLeads, SomeCopyKept, history
  <1> QED
    BY <1>2, <1>3, <1>4, <1>5

LEMMA Inductive == CopyInv /\ [Next]_vars => CopyInv'
  <1> SUFFICES ASSUME CopyInv, [Next]_vars PROVE CopyInv'
    OBVIOUS
  <1>1. CASE UNCHANGED vars
    BY <1>1 DEF vars, CopyInv, TypeOK, LocalWhole, Targets, Current, LocalLeads, SomeCopyKept
  <1>2. CASE \/ Open \/ OpenEmpty \/ Download \/ AskNext \/ Fetch \/ FetchSome
             \/ Fetched \/ Lose
    BY <1>2, FileInv
  <1>3. CASE (\E e \in Edits : Edit(e)) \/ Succeed \/ Exit \/ Stop
    BY <1>3, CommandInv
  <1>4. ASSUME NEW a \in Accounts, NEW answer \in {"ok", "find", "failed"},
               Find(a) \/ Write(a, answer) \/ Replace(a, answer) \/ UploadFails(a, answer)
        PROVE  CopyInv'
    BY <1>4, UploadInv
  <1> QED
    BY <1>1, <1>2, <1>3, <1>4 DEF Next

\* The invariant the run MetadataCopies checks.
THEOREM Invariance == Spec => []CopyInv
  BY InitInv, Inductive, PTL DEF Spec

\* The types of the database's life cycle, for any accounts and changes.
THEOREM TypeCorrect == Spec => []TypeOK
  <1>1. CopyInv => TypeOK
    BY DEF CopyInv
  <1> QED
    BY <1>1, Invariance, PTL

\* No copy is ahead of a local file that was never lost.
THEOREM CopiesFollow == Spec => []LocalLeads
  <1>1. CopyInv => LocalLeads
    BY DEF CopyInv
  <1> QED
    BY <1>1, Invariance, PTL

\* What was kept can be read from a Google or OneDrive copy, for any accounts
\* that share folders or do not, and whatever happens to later uploads.
THEOREM KeptCopyRemains == Spec => []SomeCopyKept
  <1>1. CopyInv => SomeCopyKept
    BY DEF CopyInv
  <1> QED
    BY <1>1, Invariance, PTL

-----------------------------------------------------------------------------
KeptInv == CopyInv /\ KeptUnlessHurt

\* Where the shared folder has no twins, an upload that went well leaves the
\* account with the database or with no file of its own.
LEMMA OwnCopy ==
    ASSUME ~Twins, Current, NEW a \in Plain, up[a] = "ok"
    PROVE  \A d \in copy[a] : d = db
  <1>1. PICK b \in Folder(a) : copy[b] = {db}
    BY DEF Current
  <1>2. CASE b = a
    BY <1>1, <1>2
  <1>3. CASE b # a
    <2>1. a \in Google /\ b \in Google
      BY <1>1, <1>3 DEF Folder
    <2>2. copy[b] # {}
      BY <1>1
    <2>3. copy[a] = {}
      BY <1>3, <2>1, <2>2 DEF Twins
    <2> QED
      BY <2>3
  <1> QED
    BY <1>2, <1>3

\* Twins stay: a file of a Google account is overwritten and never removed.
LEMMA TwinsStay ==
    ASSUME CopyInv, [Next]_vars, Twins
    PROVE  Twins'
  <1> USE DEF CopyInv
  <1>1. \A x \in Google : copy[x] # {} => copy'[x] # {}
    <2>1. CASE UNCHANGED copy
      BY <2>1
    <2>2. ASSUME NEW a \in Accounts, NEW answer \in {"ok", "find", "failed"}, Write(a, answer)
          PROVE  \A x \in Google : copy[x] # {} => copy'[x] # {}
      BY <2>2, MetadataAssumption DEF Write, TypeOK
    <2>3. ASSUME NEW a \in Accounts, NEW answer \in {"ok", "find", "failed"}, Replace(a, answer)
          PROVE  \A x \in Google : copy[x] # {} => copy'[x] # {}
      <3>1. found[a] = a /\ a \notin Google
        BY <2>3, FolderPlain, MetadataAssumption DEF Replace, Targets
      <3> QED
        BY <2>3, <3>1, MetadataAssumption DEF Replace, TypeOK
    <2>4. CASE \/ Open \/ OpenEmpty \/ Download \/ AskNext \/ Fetch \/ FetchSome \/ Fetched
               \/ (\E e \in Edits : Edit(e)) \/ Succeed \/ Exit \/ Stop \/ Lose
      BY <2>1, <2>4 DEF Open, OpenEmpty, Download, AskNext, Fetch, FetchSome, Fetched,
                        Edit, Succeed, Exit, Stop, Lose
    <2>5. ASSUME NEW a \in Accounts, NEW answer \in {"ok", "find", "failed"},
                 Find(a) \/ UploadFails(a, answer)
          PROVE  UNCHANGED copy
      BY <2>5 DEF Find, UploadFails
    <2>6. CASE UNCHANGED vars
      BY <2>1, <2>6 DEF vars
    <2> QED
      BY <2>1, <2>2, <2>3, <2>4, <2>5, <2>6 DEF Next
  <1> QED
    BY <1>1 DEF Twins

LEMMA KeptStep ==
    ASSUME KeptInv, [Next]_vars
    PROVE  KeptUnlessHurt'
  <1> SUFFICES ASSUME ~Twins' PROVE KeptUnlessHurt'
    BY DEF KeptUnlessHurt
  <1>0. ~Twins
    BY TwinsStay DEF KeptInv
  <1> USE DEF KeptInv, CopyInv
  <1>1. CASE UNCHANGED vars
    BY <1>0, <1>1 DEF vars, KeptUnlessHurt
  <1>2. CASE Open \/ Download \/ AskNext \/ Fetch \/ FetchSome \/ Lose \/ Stop \/ Succeed
    BY <1>0, <1>2 DEF Open, Download, AskNext, Fetch, FetchSome, Lose, Stop, Succeed,
                KeptUnlessHurt, history, work
  <1>3. CASE OpenEmpty
    BY <1>3 DEF OpenEmpty, KeptUnlessHurt
  <1>4. CASE Fetched
    <2> SUFFICES ASSUME ~hurt' PROVE KeptUnlessHurt'
      BY DEF KeptUnlessHurt
    <2>1. ~hurt /\ Sources[source] \notin Telegram
      BY <1>4 DEF Fetched
    <2>2. source \in 1..Len(Sources)
      BY <1>4, MetadataAssumption DEF Fetched, TypeOK
    <2>3. Sources[source] \in Plain
      BY <2>1, <2>2, MetadataAssumption DEF Plain
    <2>4. PICK b \in Found(Sources[source]) : \E d \in copy[b] : db' = d
      BY <1>4 DEF Fetched
    <2>5. b \in Plain
      BY <2>3, <2>4, FolderPlain DEF Found, Plain
    <2>6. kept \subseteq db'
      BY <1>0, <2>1, <2>4, <2>5 DEF KeptUnlessHurt
    <2> QED
      BY <1>0, <1>4, <2>1, <2>6 DEF Fetched, KeptUnlessHurt
  <1>5. ASSUME NEW e \in Edits, Edit(e) PROVE KeptUnlessHurt'
    BY <1>0, <1>5 DEF Edit, KeptUnlessHurt, history
  <1>6. CASE Exit
    <2> SUFFICES ASSUME ~hurt' PROVE KeptUnlessHurt'
      BY DEF KeptUnlessHurt
    <2>1. ~hurt /\ \A a \in Plain : up[a] = "ok"
      BY <1>6 DEF Exit
    <2>2. \A a \in Plain : \A d \in copy[a] : d = db
      BY <1>0, <2>1, OwnCopy
    <2> QED
      BY <1>0, <1>6, <2>1, <2>2 DEF Exit, KeptUnlessHurt
  <1>7. ASSUME NEW a \in Accounts, NEW answer \in {"ok", "find", "failed"},
               Find(a) \/ Write(a, answer) \/ Replace(a, answer) \/ UploadFails(a, answer)
        PROVE  KeptUnlessHurt'
    <2>1. file = "whole" /\ UNCHANGED <<file, db, hurt, kept>>
      BY <1>7 DEF TypeOK, LocalWhole, Find, Write, Replace, UploadFails, history
    <2>2. \A x \in Accounts : copy'[x] \subseteq copy[x] \cup {db}
      BY <1>7 DEF TypeOK, Find, Write, Replace, UploadFails
    <2> QED
      BY <1>0, <2>1, <2>2 DEF KeptUnlessHurt, Plain
  <1> QED
    BY <1>1, <1>2, <1>3, <1>4, <1>5, <1>6, <1>7 DEF Next

\* Losing the local file, any number of times, loses nothing that was kept
\* unless a plain upload of a succeeding command failed, an empty file was
\* opened, the database was restored from Telegram, or two Google accounts have
\* each created the file in the folder they share.
THEOREM KeptSurvivesLoss == Spec => []KeptUnlessHurt
  <1>1. Init => KeptUnlessHurt
    BY DEF Init, KeptUnlessHurt
  <1>2. Init => KeptInv
    BY <1>1, InitInv DEF KeptInv
  <1>3. KeptInv /\ [Next]_vars => KeptInv'
    BY KeptStep, Inductive DEF KeptInv
  <1>4. KeptInv => KeptUnlessHurt
    BY DEF KeptInv
  <1> QED
    BY <1>2, <1>3, <1>4, PTL DEF Spec
=============================================================================
