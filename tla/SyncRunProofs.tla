---------------------------- MODULE SyncRunProofs ----------------------------
(***************************************************************************)
(* Proofs about SyncRun: its invariant RunInv is inductive, for any number *)
(* of processes, runs and user changes, and every step of the pipeline is  *)
(* a step of Pipeline or leaves it alone.                                  *)
(***************************************************************************)
EXTENDS SyncRun, TLAPS

\* What the proofs need of a process that is in the middle of a command.
LEMMA ProcIs ==
    ASSUME TypeOK, NEW p \in Procs, proc[p].pc # "off"
    PROVE  /\ proc[p] \in Busy
           /\ proc[p].run \in Runs /\ proc[p].safe \in Modes
           /\ proc[p].step \in 1..7
  BY DEF TypeOK, Busy, Off

\* The row of a run that is there.
LEMMA RowIs ==
    ASSUME TypeOK, NEW r \in Runs, rows[r] # NoRow
    PROVE  /\ rows[r].safe \in Modes /\ rows[r].last \in 0..6
           /\ rows[r].completed \in BOOLEAN /\ rows[r].old \in BOOLEAN
  BY DEF TypeOK, Row, NoRow

\* A process that starts in a run at step k keeps the types.
LEMMA EnterTypes ==
    ASSUME TypeOK, NEW p \in Procs, NEW r \in Runs, NEW m \in Modes, NEW k \in 1..7,
           Enter(p, r, m, k)
    PROVE  /\ proc' \in [Procs -> Busy \cup {Off}]
           /\ \A q \in Procs : proc'[q].pc \in {"step", "mark"} => proc'[q].step \in Steps
           /\ \A q \in Procs \ {p} : proc'[q] = proc[q]
           /\ proc'[p].pc = IF k <= 6 THEN "step" ELSE "complete"
           /\ proc'[p].run = r /\ proc'[p].safe = m /\ proc'[p].step = k
  <1>1. tree \in 0..MaxChanges
    BY DEF TypeOK
  <1> DEFINE e == [pc |-> IF k <= 6 THEN "step" ELSE "complete", run |-> r,
                   safe |-> m, step |-> k]
  <1>2. e \in Busy
    BY <1>1 DEF Busy
  <1>3. proc' = [proc EXCEPT ![p] = e]
    BY DEF Enter
  <1>4. /\ e.pc = IF k <= 6 THEN "step" ELSE "complete"
        /\ e.run = r /\ e.safe = m /\ e.step = k
    OBVIOUS
  <1> HIDE DEF e
  <1>5. proc' \in [Procs -> Busy \cup {Off}] /\ proc'[p] = e
        /\ \A q \in Procs \ {p} : proc'[q] = proc[q]
    BY <1>2, <1>3 DEF TypeOK
  <1>6. k <= 6 => k \in Steps
    BY DEF Steps
  <1> QED
    BY <1>4, <1>5, <1>6 DEF TypeOK

\* A busy process that goes on keeps the types, its run and its mode.
LEMMA GoTypes ==
    ASSUME TypeOK, NEW p \in Procs, proc[p].pc # "off",
           NEW c \in {"step", "mirror", "mark", "complete", "cleanup"}, NEW k \in 1..7,
           c \in {"step", "mark"} => k \in Steps,
           proc' = [proc EXCEPT ![p] = At(p, c, k)]
    PROVE  /\ proc' \in [Procs -> Busy \cup {Off}]
           /\ \A q \in Procs : proc'[q].pc \in {"step", "mark"} => proc'[q].step \in Steps
           /\ \A q \in Procs \ {p} : proc'[q] = proc[q]
           /\ proc'[p].pc = c /\ proc'[p].step = k
           /\ proc'[p].run = proc[p].run /\ proc'[p].safe = proc[p].safe
  <1>1. /\ At(p, c, k) \in Busy
        /\ At(p, c, k).pc = c /\ At(p, c, k).step = k
        /\ At(p, c, k).run = proc[p].run /\ At(p, c, k).safe = proc[p].safe
    BY ProcIs DEF At, Busy
  <1> DEFINE e == At(p, c, k)
  <1> HIDE DEF e
  <1>2. proc' = [proc EXCEPT ![p] = e]
    BY DEF e
  <1>3. /\ e \in Busy /\ e.pc = c /\ e.step = k
        /\ e.run = proc[p].run /\ e.safe = proc[p].safe
    BY <1>1 DEF e
  <1>4. proc' \in [Procs -> Busy \cup {Off}] /\ proc'[p] = e
        /\ \A q \in Procs \ {p} : proc'[q] = proc[q]
    BY <1>2, <1>3 DEF TypeOK
  <1> QED
    BY <1>3, <1>4 DEF TypeOK

\* The command ends.
LEMMA OffTypes ==
    ASSUME TypeOK, NEW p \in Procs, proc' = [proc EXCEPT ![p] = Off]
    PROVE  /\ proc' \in [Procs -> Busy \cup {Off}]
           /\ \A q \in Procs : proc'[q].pc \in {"step", "mark"} => proc'[q].step \in Steps
           /\ \A q \in Procs \ {p} : proc'[q] = proc[q]
           /\ proc'[p].pc = "off"
  <1>1. Off.pc = "off"
    BY DEF Off
  <1>2. proc' \in [Procs -> Busy \cup {Off}] /\ proc'[p] = Off
        /\ \A q \in Procs \ {p} : proc'[q] = proc[q]
    BY DEF TypeOK
  <1> QED
    BY <1>1, <1>2 DEF TypeOK

\* The rest of the types, for the steps that leave most of it alone.
LEMMA StepTypes ==
    ASSUME TypeOK,
           proc' \in [Procs -> Busy \cup {Off}],
           \A q \in Procs : proc'[q].pc \in {"step", "mark"} => proc'[q].step \in Steps,
           rows' \in [Runs -> Row \cup {NoRow}],
           did' \in [Runs -> SUBSET (Steps \X Modes)],
           UNCHANGED <<data, mode, finished, born>>
    PROVE  TypeOK'
  BY DEF TypeOK, data

\* What is true of a process stays true while runs are only added to, the
\* begun ones keep their mode, and a scan that takes the database back leaves a
\* gap in the runs that are being mirrored.
LEMMA BehindStays ==
    ASSUME TypeOK, NEW r \in Runs, NEW m \in Modes, NEW c, NEW k \in 1..7,
           Behind(r, m, c, k),
           mode'[r] = mode[r], did[r] \subseteq did'[r], born'[r] = born[r],
           gaps \subseteq gaps', scanned' \in Nat,
           c = "mirror" => scanned' >= scanned \/ r \in gaps'
    PROVE  Behind(r, m, c, k)'
  <1>1. scanned \in Nat /\ born[r] \in Nat
    BY SyncAssumption DEF TypeOK
  <1> QED
    BY <1>1 DEF Behind, DoneBefore

Grows == /\ \A r \in Runs : mode[r] # "none" =>
                /\ mode'[r] = mode[r] /\ born'[r] = born[r]
                /\ did[r] \subseteq did'[r]
         /\ gaps \subseteq gaps' /\ scanned' \in Nat
         /\ scanned' >= scanned \/ InMirror \subseteq gaps'

LEMMA OtherProcs ==
    ASSUME RunInv, Grows, NEW q \in Procs, proc'[q] = proc[q], proc[q].pc # "off"
    PROVE  Behind(proc[q].run, proc[q].safe, proc[q].pc, proc[q].step)'
  <1>0. PICK c : c = proc[q].pc
    OBVIOUS
  <1>1. PICK r \in Runs, m \in Modes, k \in 1..7 :
            r = proc[q].run /\ m = proc[q].safe /\ k = proc[q].step
    BY ProcIs DEF RunInv
  <1>2. Behind(r, m, c, k)
    BY <1>0, <1>1 DEF RunInv, ProcSound
  <1>3. mode[r] # "none"
    BY <1>2 DEF Behind, Modes
  <1>4. c = "mirror" => scanned' >= scanned \/ r \in gaps'
    BY <1>0, <1>1 DEF Grows, InMirror
  <1>5. Behind(r, m, c, k)'
    BY <1>2, <1>3, <1>4, BehindStays DEF RunInv, Grows
  <1> QED
    BY <1>0, <1>1, <1>5

\* So after a step of p only p is to be looked at.
LEMMA ProcStep ==
    ASSUME RunInv, Grows, NEW p \in Procs,
           \A q \in Procs \ {p} : proc'[q] = proc[q],
           NEW r, NEW m, NEW c, NEW k,
           proc'[p].pc # "off" => /\ proc'[p].run = r /\ proc'[p].safe = m
                                  /\ proc'[p].pc = c /\ proc'[p].step = k
                                  /\ Behind(r, m, c, k)'
    PROVE  ProcSound'
  <1> SUFFICES ASSUME NEW q \in Procs, proc'[q].pc # "off"
               PROVE  Behind(proc[q].run, proc[q].safe, proc[q].pc, proc[q].step)'
    BY DEF ProcSound
  <1>1. CASE q = p
    BY <1>1
  <1>2. CASE q # p
    BY <1>2, OtherProcs
  <1> QED
    BY <1>1, <1>2

\* A process starts in run r at step k: what it needs is that the steps before
\* k are done and the mode is the run's.
LEMMA EnterInv ==
    ASSUME RunInv, NEW p \in Procs, NEW r \in Runs, NEW m \in Modes, NEW k \in 1..7,
           Enter(p, r, m, k), mode[r] = m, DoneBefore(r, k),
           UNCHANGED <<rows, data, history>>
    PROVE  RunInv'
  <1> USE DEF RunInv
  <1>1. TypeOK'
    BY EnterTypes, StepTypes DEF TypeOK, history
  <1>2. CheckpointSound' /\ OneMode' /\ Covered'
    BY DEF CheckpointSound, OneMode, Covered, DoneBefore, history, data
  <1>3. Grows
    BY SyncAssumption DEF Grows, history, data, TypeOK
  <1> DEFINE c == IF k <= 6 THEN "step" ELSE "complete"
  <1>4. Behind(r, m, c, k)'
    BY DEF Behind, DoneBefore, history
  <1>5. ProcSound'
    BY <1>3, <1>4, EnterTypes, ProcStep
  <1> QED
    BY <1>1, <1>2, <1>5

LEMMA ResumeInv ==
    ASSUME RunInv, NEW p \in Procs, NEW m \in Modes, Resume(p, m)
    PROVE  RunInv'
  <1>1. PICK r \in Runs : /\ rows[r] # NoRow /\ rows[r].safe = m
                          /\ Enter(p, r, m, rows[r].last + 1)
    BY DEF Resume, IsPrevious, Incomplete
  <1>2. PICK k : k = rows[r].last + 1
    OBVIOUS
  <1>3. k \in 1..7
    BY <1>1, <1>2, RowIs DEF RunInv
  <1>4. mode[r] = m /\ DoneBefore(r, k)
    BY <1>1, <1>2 DEF RunInv, CheckpointSound
  <1>5. Enter(p, r, m, k)
    BY <1>1, <1>2
  <1> QED
    BY <1>3, <1>4, <1>5, EnterInv DEF Resume

LEMMA BeginInv ==
    ASSUME RunInv, NEW p \in Procs, NEW m \in Modes, Begin(p, m)
    PROVE  RunInv'
  <1> USE DEF RunInv
  <1>1. PICK r \in Runs :
            /\ mode[r] = "none"
            /\ rows' = [rows EXCEPT ![r] = [safe |-> m, last |-> 0,
                                            completed |-> FALSE, old |-> FALSE]]
            /\ mode' = [mode EXCEPT ![r] = m]
            /\ born' = [born EXCEPT ![r] = tree]
            /\ Enter(p, r, m, 1)
    BY DEF Begin
  <1>2. /\ mode' \in [Runs -> Modes \cup {"none"}] /\ mode'[r] = m
        /\ born' \in [Runs -> 0..tree] /\ born'[r] = tree
        /\ \A x \in Runs \ {r} : mode'[x] = mode[x] /\ born'[x] = born[x]
    BY <1>1, SyncAssumption DEF TypeOK
  <1> DEFINE e == [safe |-> m, last |-> 0, completed |-> FALSE, old |-> FALSE]
  <1>3. e \in Row /\ e # NoRow /\ e.safe = m /\ e.last = 0 /\ e.completed = FALSE
    BY DEF Row, NoRow, Modes
  <1>4. rows' = [rows EXCEPT ![r] = e]
    BY <1>1
  <1> HIDE DEF e
  <1>5. /\ rows' \in [Runs -> Row \cup {NoRow}] /\ rows'[r] = e
        /\ \A x \in Runs \ {r} : rows'[x] = rows[x]
    BY <1>3, <1>4 DEF TypeOK
  <1>6. UNCHANGED <<data, did, finished>>
    BY DEF Begin
  <1>7. TypeOK'
    BY <1>1, <1>2, <1>5, <1>6, EnterTypes DEF TypeOK, data
  <1>8. did[r] = {} /\ r \notin finished
    <2>1. did[r] = {}
      BY <1>1 DEF OneMode
    <2>2. 1 \in Steps /\ 1 < 7
      BY DEF Steps
    <2>3. ASSUME r \in finished PROVE FALSE
      <3>1. DoneBefore(r, 7)
        BY <2>3 DEF Covered
      <3>2. <<1, mode[r]>> \in did[r]
        BY <2>2, <3>1 DEF DoneBefore
      <3> QED
        BY <2>1, <3>2
    <2> QED
      BY <2>1, <2>3
  <1>9. CheckpointSound'
    <2> SUFFICES ASSUME NEW x \in Runs, rows'[x] # NoRow
                 PROVE  /\ rows'[x].safe = mode'[x]
                        /\ DoneBefore(x, rows[x].last + 1)'
                        /\ rows'[x].completed => DoneBefore(x, 7)'
      BY DEF CheckpointSound
    <2>1. CASE x = r
      BY <2>1, <1>2, <1>3, <1>5 DEF DoneBefore, Steps
    <2>2. CASE x # r
      BY <2>2, <1>2, <1>5, <1>6 DEF CheckpointSound, DoneBefore
    <2> QED
      BY <2>1, <2>2
  <1>10. OneMode'
    BY <1>2, <1>5, <1>6, <1>8 DEF OneMode, Modes
  <1>11. Covered'
    <2>1. \A x \in finished : DoneBefore(x, 7)'
      BY <1>2, <1>6, <1>8 DEF Covered, DoneBefore, TypeOK
    <2>2. \A x \in Runs \ gaps : <<5, "real">> \in did'[x] => mirrored' >= born'[x]
      BY <1>2, <1>6, <1>8 DEF Covered, data
    <2> QED
      BY <2>1, <2>2, <1>6 DEF Covered, data
  <1>12. Grows
    BY <1>1, <1>2, <1>6, SyncAssumption DEF Grows, data, TypeOK
  <1>13. Behind(r, m, "step", 1)'
    BY <1>2 DEF Behind, DoneBefore, Steps
  <1>14. ProcSound'
    BY <1>1, <1>12, <1>13, EnterTypes, ProcStep
  <1> QED
    BY <1>7, <1>9, <1>10, <1>11, <1>14

\* A process has performed its step k: rows and modes stay.
LEMMA WorkInv ==
    ASSUME RunInv, NEW p \in Procs, proc[p].pc \in {"step", "mirror"},
           NEW k \in Steps, proc[p].step = k, Performed(p, k),
           proc' = [proc EXCEPT ![p] = At(p, "mark", k)],
           UNCHANGED <<rows, tree, mode, finished, born>>,
           scanned' \in 0..tree, scanned' >= scanned \/ InMirror \subseteq gaps',
           gaps' \subseteq Runs, gaps \subseteq gaps',
           mirrored' \in 0..tree, mirrored' >= mirrored,
           k = 5 /\ proc[p].safe = "real" =>
              proc[p].run \in gaps' \/ mirrored' >= born[proc[p].run]
    PROVE  RunInv'
  <1> USE DEF RunInv
  <1>1. PICK r \in Runs, m \in Modes : r = proc[p].run /\ m = proc[p].safe
    BY ProcIs
  <1>2. mode[r] = m /\ DoneBefore(r, k)
    <2>1. PICK c : c = proc[p].pc
      OBVIOUS
    <2>2. Behind(r, m, c, k)
      BY <1>1, <2>1 DEF ProcSound
    <2> QED
      BY <2>1, <2>2 DEF Behind
  <1>3. /\ did' \in [Runs -> SUBSET (Steps \X Modes)]
        /\ did'[r] = did[r] \cup {<<k, m>>}
        /\ \A x \in Runs \ {r} : did'[x] = did[x]
    BY <1>1 DEF Performed, TypeOK
  <1>4. /\ proc' \in [Procs -> Busy \cup {Off}]
        /\ \A q \in Procs : proc'[q].pc \in {"step", "mark"} => proc'[q].step \in Steps
        /\ \A q \in Procs \ {p} : proc'[q] = proc[q]
        /\ proc'[p].pc = "mark" /\ proc'[p].step = k
        /\ proc'[p].run = r /\ proc'[p].safe = m
    <2>1. k \in 1..7
      BY DEF Steps
    <2> QED
      BY <1>1, <2>1, GoTypes
  <1>5. TypeOK'
    BY <1>3, <1>4 DEF TypeOK
  <1>6. \A x \in Runs, i \in 0..7 : DoneBefore(x, i) => DoneBefore(x, i)'
    BY <1>3 DEF DoneBefore
  <1>7. CheckpointSound'
    <2> SUFFICES ASSUME NEW x \in Runs, rows[x] # NoRow
                 PROVE  /\ rows[x].safe = mode[x]
                        /\ DoneBefore(x, rows[x].last + 1)'
                        /\ rows[x].completed => DoneBefore(x, 7)'
      BY DEF CheckpointSound
    <2>1. PICK i \in 0..7 : i = rows[x].last + 1
      BY RowIs
    <2>2. DoneBefore(x, i)' /\ (rows[x].completed => DoneBefore(x, 7)')
      BY <1>6, <2>1 DEF CheckpointSound
    <2>3. (rows[x].last + 1)' = i
      BY <2>1
    <2> QED
      BY <2>2, <2>3 DEF CheckpointSound, DoneBefore
  <1>8. OneMode'
    BY <1>2, <1>3 DEF OneMode, Modes
  <1>9. Covered'
    <2>1. \A x \in finished : DoneBefore(x, 7)'
      BY <1>6 DEF Covered, TypeOK
    <2>2. \A x \in Runs : born[x] \in Nat
      BY SyncAssumption DEF TypeOK
    <2>3. mirrored \in Nat /\ mirrored' \in Nat
      BY <1>5, SyncAssumption DEF TypeOK
    <2>4. ASSUME NEW x \in Runs \ gaps', <<5, "real">> \in did'[x]
          PROVE  mirrored' >= born[x]
      <3>1. CASE x = r
        <4>1. <<5, "real">> = <<k, m>> \/ <<5, "real">> \in did[r]
          BY <1>3, <2>4, <3>1
        <4> QED
          BY <1>1, <2>2, <2>3, <2>4, <3>1, <4>1 DEF Covered
      <3>2. CASE x # r
        BY <1>3, <2>2, <2>3, <2>4, <3>2 DEF Covered
      <3> QED
        BY <3>1, <3>2
    <2> QED
      BY <2>1, <2>4 DEF Covered
  <1>10. Grows
    BY <1>3, SyncAssumption DEF Grows, TypeOK
  <1>11. Behind(r, m, "mark", k)'
    BY <1>2, <1>3 DEF Behind, DoneBefore, Steps
  <1>12. ProcSound'
    BY <1>4, <1>10, <1>11, ProcStep
  <1> QED
    BY <1>5, <1>7, <1>8, <1>9, <1>12

\* The runs in the middle of a mirror are runs.
LEMMA MirrorRuns ==
    ASSUME TypeOK
    PROVE  InMirror \subseteq Runs
  <1> SUFFICES ASSUME NEW q \in Procs, proc[q].pc = "mirror"
               PROVE  proc[q].run \in Runs
    BY DEF InMirror
  <1> QED
    BY ProcIs

\* A scan that does not reach the tree leaves a gap in the runs it is short for.
LEMMA ScanFacts ==
    ASSUME TypeOK, NEW short \in SUBSET Runs, Scan(short)
    PROVE  /\ scanned' \in 0..tree /\ gaps' \subseteq Runs /\ gaps \subseteq gaps'
           /\ \/ scanned' = tree /\ scanned' >= scanned
              \/ short \subseteq gaps'
  <1>1. PICK n \in 0..tree :
            /\ scanned' = n
            /\ gaps' = IF n = tree THEN gaps ELSE gaps \cup short
    BY DEF Scan
  <1>2. scanned \in 0..tree /\ gaps \subseteq Runs /\ tree \in Nat
    BY SyncAssumption DEF TypeOK
  <1>3. CASE n = tree
    BY <1>1, <1>2, <1>3
  <1>4. CASE n # tree
    BY <1>1, <1>2, <1>4
  <1> QED
    BY <1>3, <1>4

LEMMA PerformInv ==
    ASSUME RunInv, NEW p \in Procs, Perform(p)
    PROVE  RunInv'
  <1>1. PICK k : k = proc[p].step
    OBVIOUS
  <1>2. k \in Steps /\ proc[p].pc = "step" /\ k # 5
    BY <1>1 DEF Perform, RunInv, TypeOK
  <1>3. /\ scanned' \in 0..tree /\ gaps' \subseteq Runs /\ gaps \subseteq gaps'
        /\ scanned' >= scanned \/ InMirror \subseteq gaps'
    <2>1. CASE k = 2
      BY <1>1, <2>1, ScanFacts, MirrorRuns DEF Perform, RunInv
    <2>2. CASE k # 2
      BY <1>1, <2>2, SyncAssumption DEF Perform, RunInv, TypeOK
    <2> QED
      BY <2>1, <2>2
  <1>4. mirrored' \in 0..tree /\ mirrored' >= mirrored
    BY SyncAssumption DEF Perform, RunInv, TypeOK
  <1> QED
    BY <1>1, <1>2, <1>3, <1>4, WorkInv DEF Perform

LEMMA MirrorInv ==
    ASSUME RunInv, NEW p \in Procs, Mirror(p)
    PROVE  RunInv'
  <1>1. PICK r \in Runs, m \in Modes, k \in 1..7 :
            r = proc[p].run /\ m = proc[p].safe /\ k = proc[p].step
    BY ProcIs DEF RunInv, Mirror
  <1>2. Behind(r, m, "mirror", k)
    BY <1>1 DEF RunInv, ProcSound, Mirror
  <1>3. k = 5 /\ k \in Steps /\ (r \in gaps \/ scanned >= born[r])
    BY <1>2 DEF Behind, Steps
  <1>4. scanned' \in 0..tree /\ scanned' >= scanned
    BY SyncAssumption DEF Mirror, RunInv, TypeOK
  <1>5. /\ gaps' \subseteq Runs /\ gaps \subseteq gaps'
        /\ mirrored' \in 0..tree /\ mirrored' >= mirrored
        /\ proc[p].safe = "real" => r \in gaps' \/ mirrored' >= born[r]
    <2>1. /\ scanned \in 0..tree /\ mirrored \in 0..tree /\ gaps \subseteq Runs
          /\ born[r] \in 0..tree /\ tree \in Nat
      BY SyncAssumption DEF RunInv, TypeOK
    <2>2. CASE proc[p].safe = "real"
      <3>1. PICK n \in 0..scanned :
                /\ mirrored' = IF n > mirrored THEN n ELSE mirrored
                /\ gaps' = IF n = scanned THEN gaps ELSE gaps \cup {r}
        BY <1>1, <2>2 DEF Mirror
      <3>2. n \in 0..tree
        BY <2>1
      <3>3. gaps' \subseteq Runs /\ gaps \subseteq gaps' /\ (n # scanned => r \in gaps')
        BY <2>1, <3>1
      <3>4. mirrored' \in 0..tree /\ mirrored' >= mirrored /\ mirrored' >= n
        BY <2>1, <3>1, <3>2
      <3> QED
        BY <1>3, <2>1, <3>3, <3>4
    <2>3. CASE proc[p].safe # "real"
      BY <2>1, <2>3 DEF Mirror
    <2> QED
      BY <2>2, <2>3
  <1> QED
    BY <1>1, <1>3, <1>4, <1>5, WorkInv DEF Mirror

\* Steps that leave what was done alone and move p within its run; at most they
\* tell the database the tree, or leave gaps.
LEMMA MoveInv ==
    ASSUME RunInv, NEW p \in Procs, proc[p].pc # "off",
           NEW c \in {"step", "mirror", "mark", "complete", "cleanup"}, NEW k \in 1..7,
           c \in {"step", "mark"} => k \in Steps,
           proc' = [proc EXCEPT ![p] = At(p, c, k)],
           NEW r, NEW m, r = proc[p].run, m = proc[p].safe, Behind(r, m, c, k)',
           UNCHANGED <<tree, mirrored, mode, did, born>>,
           scanned' \in 0..tree, scanned' >= scanned \/ InMirror \subseteq gaps',
           gaps' \subseteq Runs, gaps \subseteq gaps',
           rows' \in [Runs -> Row \cup {NoRow}], finished' \subseteq Runs,
           \A x \in Runs : rows'[x] # NoRow =>
                /\ rows'[x].safe = mode[x] /\ rows[x] # NoRow
                /\ DoneBefore(x, rows'[x].last + 1)
                /\ rows'[x].completed => DoneBefore(x, 7),
           \A x \in finished' : DoneBefore(x, 7)
    PROVE  RunInv'
  <1> USE DEF RunInv
  <1>2. /\ proc' \in [Procs -> Busy \cup {Off}]
        /\ \A q \in Procs : proc'[q].pc \in {"step", "mark"} => proc'[q].step \in Steps
        /\ \A q \in Procs \ {p} : proc'[q] = proc[q]
        /\ proc'[p].pc = c /\ proc'[p].step = k
        /\ proc'[p].run = r /\ proc'[p].safe = m
    BY GoTypes
  <1>3. TypeOK'
    BY <1>2, SyncAssumption DEF TypeOK
  <1>4. CheckpointSound'
    BY DEF CheckpointSound, DoneBefore
  <1>5. OneMode'
    BY DEF OneMode
  <1>6. Covered'
    BY DEF Covered, DoneBefore
  <1>7. Grows
    BY SyncAssumption DEF Grows, TypeOK
  <1>8. ProcSound'
    BY <1>2, <1>7, ProcStep
  <1> QED
    BY <1>3, <1>4, <1>5, <1>6, <1>8

LEMMA ScanAgainInv ==
    ASSUME RunInv, NEW p \in Procs, ScanAgain(p)
    PROVE  RunInv'
  <1> USE DEF RunInv
  <1>1. PICK r \in Runs, m \in Modes : r = proc[p].run /\ m = proc[p].safe
    BY ProcIs DEF ScanAgain
  <1>2. Behind(r, m, "step", 5)
    BY <1>1 DEF ProcSound, ScanAgain
  <1>3. /\ scanned' \in 0..tree /\ gaps' \subseteq Runs /\ gaps \subseteq gaps'
        /\ scanned' >= scanned \/ InMirror \subseteq gaps'
        /\ r \in gaps' \/ scanned' >= born[r]
    <2>1. PICK short \in SUBSET Runs : short = InMirror \cup {r}
      BY <1>1, MirrorRuns
    <2>2. Scan(short)
      BY <1>1, <2>1 DEF ScanAgain
    <2>3. born[r] \in 0..tree /\ tree \in Nat
      BY SyncAssumption DEF TypeOK
    <2> QED
      BY <2>1, <2>2, <2>3, ScanFacts
  <1>4. Behind(r, m, "mirror", 5)'
    BY <1>2, <1>3 DEF Behind, DoneBefore, ScanAgain, history
  <1>5. /\ rows' \in [Runs -> Row \cup {NoRow}] /\ finished' \subseteq Runs
        /\ UNCHANGED <<rows, tree, mirrored, mode, did, finished, born>>
    BY DEF TypeOK, ScanAgain, history
  <1>6. /\ \A x \in Runs : rows'[x] # NoRow =>
                /\ rows'[x].safe = mode[x] /\ rows[x] # NoRow
                /\ DoneBefore(x, rows'[x].last + 1)
                /\ rows'[x].completed => DoneBefore(x, 7)
        /\ \A x \in finished' : DoneBefore(x, 7)
    BY <1>5 DEF CheckpointSound, Covered
  <1>7. PICK k : k = 5
    OBVIOUS
  <1>8. Behind(r, m, "mirror", k)' /\ k \in 1..7
    BY <1>4, <1>7
  <1>9. proc[p].pc # "off" /\ proc' = [proc EXCEPT ![p] = At(p, "mirror", k)]
    BY <1>7 DEF ScanAgain
  <1> QED
    BY <1>1, <1>3, <1>5, <1>6, <1>8, <1>9, MoveInv

LEMMA MarkInv ==
    ASSUME RunInv, NEW p \in Procs, NEW ok \in BOOLEAN, Mark(p, ok)
    PROVE  RunInv'
  <1> USE DEF RunInv
  <1>1. PICK r \in Runs, m \in Modes, k \in 1..7 :
            r = proc[p].run /\ m = proc[p].safe /\ k = proc[p].step
    BY ProcIs DEF Mark
  <1>2. k \in Steps /\ proc[p].pc = "mark"
    BY <1>1 DEF Mark, TypeOK
  <1>3. Behind(r, m, "mark", k)
    BY <1>1, <1>2 DEF ProcSound
  <1>4. PICK c \in {"step", "complete"} : c = IF k < 6 THEN "step" ELSE "complete"
    OBVIOUS
  <1>5. /\ k + 1 \in 1..7 /\ (c = "step" => k + 1 \in Steps)
        /\ (c = "complete" => k + 1 = 7)
    BY <1>2, <1>4 DEF Steps
  <1>6. PICK i : i = k + 1
    OBVIOUS
  <1>7. UNCHANGED <<tree, scanned, mirrored, gaps, mode, did, finished, born>>
    BY DEF Mark, data, history
  <1>8. Behind(r, m, c, i)'
    BY <1>3, <1>4, <1>5, <1>6, <1>7 DEF Behind, DoneBefore
  <1>9. proc' = [proc EXCEPT ![p] = At(p, c, i)]
    BY <1>1, <1>4, <1>6 DEF Mark
  <1>10. /\ rows' \in [Runs -> Row \cup {NoRow}]
         /\ \A x \in Runs : rows'[x] # NoRow =>
                /\ rows'[x].safe = mode[x] /\ rows[x] # NoRow
                /\ DoneBefore(x, rows'[x].last + 1)
                /\ rows'[x].completed => DoneBefore(x, 7)
    <2>1. CASE rows' = rows
      BY <2>1 DEF TypeOK, CheckpointSound
    <2>2. CASE rows' # rows
      <3> DEFINE e == [safe |-> rows[r].safe, last |-> k,
                       completed |-> rows[r].completed, old |-> rows[r].old]
      <3>1. rows[r] # NoRow /\ rows' = [rows EXCEPT ![r] = e]
        BY <2>2, <1>1 DEF Mark
      <3>2. /\ e \in Row /\ e.safe = rows[r].safe /\ e.last = k
            /\ e.completed = rows[r].completed
        BY <3>1, <1>2, RowIs DEF Row, Steps
      <3> HIDE DEF e
      <3>3. /\ rows' \in [Runs -> Row \cup {NoRow}] /\ rows'[r] = e
            /\ \A x \in Runs \ {r} : rows'[x] = rows[x]
        BY <3>1, <3>2 DEF TypeOK
      <3>4. DoneBefore(r, k + 1)
        BY <1>3 DEF Behind
      <3> QED
        BY <3>1, <3>2, <3>3, <3>4 DEF CheckpointSound
    <2> QED
      BY <2>1, <2>2
  <1>11. finished' \subseteq Runs /\ \A x \in finished' : DoneBefore(x, 7)
    BY <1>7 DEF TypeOK, Covered
  <1>12. i \in 1..7 /\ (c \in {"step", "mark"} => i \in Steps)
    BY <1>5, <1>6
  <1>13. /\ proc[p].pc # "off" /\ scanned' \in 0..tree /\ scanned' >= scanned
         /\ gaps' \subseteq Runs /\ gaps \subseteq gaps'
    BY <1>2, <1>7, SyncAssumption DEF TypeOK
  <1> QED
    BY <1>1, <1>7, <1>8, <1>9, <1>10, <1>11, <1>12, <1>13, MoveInv

LEMMA CompleteInv ==
    ASSUME RunInv, NEW p \in Procs, NEW ok \in BOOLEAN, Complete(p, ok)
    PROVE  RunInv'
  <1> USE DEF RunInv
  <1>1. PICK r \in Runs, m \in Modes, k \in 1..7 :
            r = proc[p].run /\ m = proc[p].safe /\ k = proc[p].step
    BY ProcIs DEF Complete
  <1>2. Behind(r, m, "complete", k) /\ k = 7
    BY <1>1 DEF ProcSound, Complete, Behind
  <1>3. DoneBefore(r, 7)
    BY <1>2 DEF Behind
  <1>4. UNCHANGED <<tree, scanned, mirrored, gaps, mode, did, born>>
    BY DEF Complete, data
  <1>5. Behind(r, m, "cleanup", k)'
    BY <1>2, <1>4 DEF Behind, DoneBefore
  <1>6. proc' = [proc EXCEPT ![p] = At(p, "cleanup", k)]
    BY <1>1 DEF Complete
  <1>7. /\ rows' \in [Runs -> Row \cup {NoRow}]
        /\ \A x \in Runs : rows'[x] # NoRow =>
                /\ rows'[x].safe = mode[x] /\ rows[x] # NoRow
                /\ DoneBefore(x, rows'[x].last + 1)
                /\ rows'[x].completed => DoneBefore(x, 7)
    <2>1. CASE rows' = rows
      BY <2>1 DEF TypeOK, CheckpointSound
    <2>2. CASE rows' # rows
      <3> DEFINE e == [safe |-> rows[r].safe, last |-> 5,
                       completed |-> TRUE, old |-> rows[r].old]
      <3>1. rows[r] # NoRow /\ rows' = [rows EXCEPT ![r] = e]
        BY <2>2, <1>1 DEF Complete
      <3>2. /\ e \in Row /\ e.safe = rows[r].safe /\ e.last = 5
            /\ e.completed = TRUE
        BY <3>1, RowIs DEF Row
      <3> HIDE DEF e
      <3>3. /\ rows' \in [Runs -> Row \cup {NoRow}] /\ rows'[r] = e
            /\ \A x \in Runs \ {r} : rows'[x] = rows[x]
        BY <3>1, <3>2 DEF TypeOK
      <3>4. DoneBefore(r, 5 + 1)
        BY <1>3 DEF DoneBefore, Steps
      <3> QED
        BY <1>3, <3>1, <3>2, <3>3, <3>4 DEF CheckpointSound
    <2> QED
      BY <2>1, <2>2
  <1>8. finished' \subseteq Runs /\ \A x \in finished' : DoneBefore(x, 7)
    BY <1>1, <1>3 DEF TypeOK, Covered, Complete
  <1>9. /\ proc[p].pc # "off" /\ scanned' \in 0..tree /\ scanned' >= scanned
        /\ gaps' \subseteq Runs /\ gaps \subseteq gaps'
    BY <1>4, SyncAssumption DEF TypeOK, Complete
  <1> QED
    BY <1>1, <1>4, <1>5, <1>6, <1>7, <1>8, <1>9, MoveInv

\* Steps that leave the work alone and let a row go, age or stay.
LEMMA RestInv ==
    ASSUME RunInv, UNCHANGED <<scanned, mirrored, gaps, history>>,
           tree' \in 0..MaxChanges, tree' >= tree,
           rows' \in [Runs -> Row \cup {NoRow}],
           \A r \in Runs : rows'[r] # NoRow =>
                /\ rows[r] # NoRow /\ rows'[r].safe = rows[r].safe
                /\ rows'[r].last = rows[r].last
                /\ rows'[r].completed => rows[r].completed,
           \/ proc' = proc
           \/ \E p \in Procs : proc' = [proc EXCEPT ![p] = Off]
    PROVE  RunInv'
  <1> USE DEF RunInv
  <1>1. /\ proc' \in [Procs -> Busy \cup {Off}]
        /\ \A q \in Procs : proc'[q].pc \in {"step", "mark"} => proc'[q].step \in Steps
        /\ \A q \in Procs : proc'[q] = proc[q] \/ proc'[q].pc = "off"
    BY OffTypes DEF TypeOK
  <1>2. TypeOK'
    BY <1>1, SyncAssumption DEF TypeOK, history
  <1>3. CheckpointSound'
    BY DEF CheckpointSound, DoneBefore, history
  <1>4. OneMode'
    BY DEF OneMode, history
  <1>5. Covered'
    BY DEF Covered, DoneBefore, history
  <1>6. Grows
    BY SyncAssumption DEF Grows, TypeOK, history
  <1>7. ProcSound'
    <2> SUFFICES ASSUME NEW q \in Procs, proc'[q].pc # "off"
                 PROVE  Behind(proc[q].run, proc[q].safe, proc[q].pc, proc[q].step)'
      BY DEF ProcSound
    <2> QED
      BY <1>1, <1>6, OtherProcs
  <1> QED
    BY <1>2, <1>3, <1>4, <1>5, <1>7

LEMMA InitInv == Init => RunInv
  <1> SUFFICES ASSUME Init PROVE RunInv
    OBVIOUS
  <1>1. Off.pc = "off" /\ NoRow \in Row \cup {NoRow}
    BY DEF Off
  <1>2. TypeOK
    BY <1>1, SyncAssumption DEF Init, TypeOK, Modes, Steps
  <1>3. CheckpointSound /\ OneMode /\ Covered
    BY DEF Init, CheckpointSound, OneMode, Covered
  <1>4. ProcSound
    BY <1>1 DEF Init, ProcSound
  <1> QED
    BY <1>2, <1>3, <1>4 DEF RunInv

LEMMA StopInv ==
    ASSUME RunInv, NEW p \in Procs, Stop(p)
    PROVE  RunInv'
  <1>1. tree' \in 0..MaxChanges /\ tree' >= tree
    BY SyncAssumption DEF Stop, data, RunInv, TypeOK
  <1>2. rows' \in [Runs -> Row \cup {NoRow}]
    BY DEF Stop, RunInv, TypeOK
  <1> QED
    BY <1>1, <1>2, RestInv DEF Stop, data

LEMMA ExitInv ==
    ASSUME RunInv, NEW p \in Procs, NEW ok \in BOOLEAN, Exit(p, ok)
    PROVE  RunInv'
  <1>1. /\ rows' \in [Runs -> Row \cup {NoRow}]
        /\ \A r \in Runs : rows'[r] # NoRow => rows'[r] = rows[r]
    BY DEF Exit, RunInv, TypeOK
  <1>2. tree' \in 0..MaxChanges /\ tree' >= tree
    BY SyncAssumption DEF Exit, data, RunInv, TypeOK
  <1> QED
    BY <1>1, <1>2, RestInv DEF Exit, data

LEMMA AgeInv ==
    ASSUME RunInv, Age
    PROVE  RunInv'
  <1>1. PICK r \in Incomplete :
            rows' = [q \in Runs |-> IF q <= r /\ q \in Incomplete
                                    THEN [safe |-> rows[q].safe, last |-> rows[q].last,
                                          completed |-> FALSE, old |-> TRUE]
                                    ELSE rows[q]]
    BY DEF Age
  <1>2. ASSUME NEW q \in Runs
        PROVE  /\ rows'[q] \in Row \cup {NoRow}
               /\ rows'[q] # NoRow =>
                    /\ rows[q] # NoRow /\ rows'[q].safe = rows[q].safe
                    /\ rows'[q].last = rows[q].last
                    /\ rows'[q].completed => rows[q].completed
    <2> DEFINE e == [safe |-> rows[q].safe, last |-> rows[q].last,
                     completed |-> FALSE, old |-> TRUE]
    <2>1. CASE q <= r /\ q \in Incomplete
      <3>1. rows[q] # NoRow /\ rows'[q] = e
        BY <1>1, <2>1 DEF Incomplete
      <3>2. /\ e \in Row /\ e.safe = rows[q].safe /\ e.last = rows[q].last
            /\ e.completed = FALSE
        BY <3>1, RowIs DEF Row, RunInv
      <3> QED
        BY <3>1, <3>2
    <2>2. CASE ~(q <= r /\ q \in Incomplete)
      BY <1>1, <2>2 DEF RunInv, TypeOK
    <2> QED
      BY <2>1, <2>2
  <1>3. rows' \in [Runs -> Row \cup {NoRow}]
    BY <1>1, <1>2
  <1>4. tree' \in 0..MaxChanges /\ tree' >= tree
    BY SyncAssumption DEF Age, data, RunInv, TypeOK
  <1> QED
    BY <1>2, <1>3, <1>4, RestInv DEF Age, data

LEMMA UserChangesInv ==
    ASSUME RunInv, UserChanges
    PROVE  RunInv'
  <1>1. tree' \in 0..MaxChanges /\ tree' >= tree
    BY SyncAssumption DEF UserChanges, RunInv, TypeOK
  <1>2. rows' \in [Runs -> Row \cup {NoRow}]
    BY DEF UserChanges, RunInv, TypeOK
  <1> QED
    BY <1>1, <1>2, RestInv DEF UserChanges

LEMMA StutterInv ==
    ASSUME RunInv, UNCHANGED vars
    PROVE  RunInv'
  <1>1. tree' \in 0..MaxChanges /\ tree' >= tree
    BY SyncAssumption DEF vars, data, RunInv, TypeOK
  <1>2. rows' \in [Runs -> Row \cup {NoRow}]
    BY DEF vars, RunInv, TypeOK
  <1> QED
    BY <1>1, <1>2, RestInv DEF vars, data

\* RunInv is inductive.
LEMMA Inductive == RunInv /\ [Next]_vars => RunInv'
  <1> SUFFICES ASSUME RunInv, [Next]_vars PROVE RunInv'
    OBVIOUS
  <1>1. ASSUME NEW p \in Procs, Command(p) PROVE RunInv'
    <2>1. ASSUME NEW m \in Modes, Resume(p, m) PROVE RunInv'
      BY <2>1, ResumeInv
    <2>2. ASSUME NEW m \in Modes, Begin(p, m) PROVE RunInv'
      BY <2>2, BeginInv
    <2>3. CASE Perform(p)
      BY <2>3, PerformInv
    <2>4. CASE ScanAgain(p)
      BY <2>4, ScanAgainInv
    <2>5. CASE Mirror(p)
      BY <2>5, MirrorInv
    <2>6. CASE Stop(p)
      BY <2>6, StopInv
    <2>7. ASSUME NEW ok \in BOOLEAN, Mark(p, ok) PROVE RunInv'
      BY <2>7, MarkInv
    <2>8. ASSUME NEW ok \in BOOLEAN, Complete(p, ok) PROVE RunInv'
      BY <2>8, CompleteInv
    <2>9. ASSUME NEW ok \in BOOLEAN, Exit(p, ok) PROVE RunInv'
      BY <2>9, ExitInv
    <2> QED
      BY <1>1, <2>1, <2>2, <2>3, <2>4, <2>5, <2>6, <2>7, <2>8, <2>9 DEF Command
  <1>2. CASE Age
    BY <1>2, AgeInv
  <1>3. CASE UserChanges
    BY <1>3, UserChangesInv
  <1>4. CASE UNCHANGED vars
    BY <1>4, StutterInv
  <1> QED
    BY <1>1, <1>2, <1>3, <1>4 DEF Next

\* The inductive invariant: what every process and every row has behind it.
THEOREM Invariance == Spec => []RunInv
  BY InitInv, Inductive, PTL DEF Spec

\* The types of the sync pipeline, for any processes, runs and changes.
THEOREM TypeCorrect == Spec => []TypeOK
  <1>1. RunInv => TypeOK
    BY DEF RunInv
  <1> QED
    BY <1>1, Invariance, PTL

\* A checkpoint in sync_runs never promises a step that was not performed.
THEOREM CheckpointsAreSound == Spec => []CheckpointSound
  <1>1. RunInv => CheckpointSound
    BY DEF RunInv
  <1> QED
    BY <1>1, Invariance, PTL

\* A completed real run has mirrored every change made before it was begun, or
\* its fifth step left something out.
THEOREM CompletedRunsCover == Spec => []RunCovers
  <1>1. RunInv => RunCovers
    <2> SUFFICES ASSUME RunInv, NEW r \in finished \ gaps, mode[r] = "real"
                 PROVE  mirrored >= born[r]
      BY DEF RunCovers
    <2>1. r \in Runs /\ 5 \in Steps /\ 5 < 7
      BY DEF RunInv, TypeOK, Steps
    <2>2. <<5, "real">> \in did[r]
      BY <2>1 DEF RunInv, Covered, DoneBefore
    <2> QED
      BY <2>1, <2>2 DEF RunInv, Covered
  <1> QED
    BY <1>1, Invariance, PTL

\* Sync implements the pipeline: what the rows, the resumed processes and their
\* failures do to a run is a step of Pipeline or nothing.
LEMMA StepRefines == RunInv /\ [Next]_vars => [PL!Next]_(PL!vars)
  <1> SUFFICES ASSUME RunInv, [Next]_vars PROVE PL!Next \/ UNCHANGED PL!vars
    OBVIOUS
  <1>1. ASSUME NEW p \in Procs, NEW m \in Modes, Begin(p, m) PROVE PL!Next
    <2>1. PICK r \in Runs : mode[r] = "none" /\ mode' = [mode EXCEPT ![r] = m]
      BY <1>1 DEF Begin
    <2>2. PL!Begin(r)
      BY <1>1, <2>1 DEF PL!Begin, Begin, Modes
    <2> QED
      BY <2>1, <2>2 DEF PL!Next
  <1>2. ASSUME NEW p \in Procs, NEW k \in Steps, proc[p].pc \in {"step", "mirror"},
               proc[p].step = k, Performed(p, k), UNCHANGED <<mode, finished>>
        PROVE  PL!Next
    <2>1. PICK r \in Runs, m \in Modes : r = proc[p].run /\ m = proc[p].safe
      BY <1>2, ProcIs DEF RunInv
    <2>2. PICK c : c = proc[p].pc
      OBVIOUS
    <2>3. Behind(r, m, c, k)
      BY <1>2, <2>1, <2>2 DEF RunInv, ProcSound
    <2>4. mode[r] = m /\ m # "none" /\ DoneBefore(r, k)
      BY <1>2, <2>2, <2>3 DEF Behind, Modes
    <2>5. PL!Perform(r, k)
      BY <1>2, <2>1, <2>4 DEF PL!Perform, DoneBefore, Performed
    <2> QED
      BY <2>5 DEF PL!Next
  <1>3. ASSUME NEW p \in Procs, NEW ok \in BOOLEAN, Complete(p, ok)
        PROVE  PL!Next \/ UNCHANGED PL!vars
    <2>1. CASE UNCHANGED finished
      BY <1>3, <2>1 DEF Complete, PL!vars
    <2>2. CASE finished' # finished
      <3>1. PICK r \in Runs, m \in Modes, k \in 1..7 :
                r = proc[p].run /\ m = proc[p].safe /\ k = proc[p].step
        BY <1>3, ProcIs DEF Complete, RunInv
      <3>2. Behind(r, m, "complete", k)
        BY <1>3, <3>1 DEF RunInv, ProcSound, Complete
      <3>3. DoneBefore(r, 7)
        BY <3>2 DEF Behind
      <3>4. did[r] = Steps \X {mode[r]}
        BY <3>3 DEF RunInv, OneMode, DoneBefore, Steps
      <3>5. finished' = finished \cup {r}
        BY <1>3, <2>2, <3>1 DEF Complete
      <3>6. PL!Finish(r)
        BY <1>3, <3>4, <3>5 DEF PL!Finish, Complete
      <3> QED
        BY <3>6 DEF PL!Next
    <2> QED
      BY <2>1, <2>2
  <1>4. ASSUME NEW p \in Procs, Perform(p) PROVE PL!Next
    <2>1. PICK k : k = proc[p].step
      OBVIOUS
    <2>2. k \in Steps
      BY <1>4, <2>1 DEF Perform, RunInv, TypeOK
    <2> QED
      BY <1>2, <1>4, <2>1, <2>2 DEF Perform
  <1>5. ASSUME NEW p \in Procs, Mirror(p) PROVE PL!Next
    <2>1. PICK r \in Runs, m \in Modes, k \in 1..7 :
              r = proc[p].run /\ m = proc[p].safe /\ k = proc[p].step
      BY <1>5, ProcIs DEF Mirror, RunInv
    <2>2. Behind(r, m, "mirror", k)
      BY <1>5, <2>1 DEF RunInv, ProcSound, Mirror
    <2>3. k = 5 /\ k \in Steps
      BY <2>2 DEF Behind, Steps
    <2> QED
      BY <1>2, <1>5, <2>1, <2>3 DEF Mirror
  <1>6. ASSUME UNCHANGED history PROVE UNCHANGED PL!vars
    BY <1>6 DEF history, PL!vars
  <1>7. CASE UNCHANGED vars
    BY <1>6, <1>7 DEF vars
  <1>8. CASE Age \/ UserChanges
    BY <1>6, <1>8 DEF Age, UserChanges
  <1>9. ASSUME NEW p \in Procs, Command(p) PROVE PL!Next \/ UNCHANGED PL!vars
    <2>1. ASSUME NEW m \in Modes, Resume(p, m) PROVE UNCHANGED PL!vars
      BY <1>6, <2>1 DEF Resume
    <2>2. CASE ScanAgain(p) \/ Stop(p)
      BY <1>6, <2>2 DEF ScanAgain, Stop
    <2>3. ASSUME NEW ok \in BOOLEAN, Mark(p, ok) \/ Exit(p, ok)
          PROVE  UNCHANGED PL!vars
      BY <1>6, <2>3 DEF Mark, Exit
    <2> QED
      BY <1>1, <1>3, <1>4, <1>5, <1>9, <2>1, <2>2, <2>3 DEF Command
  <1> QED
    BY <1>7, <1>8, <1>9 DEF Next

THEOREM SyncImplementsPipeline == Spec => Implements
  <1>1. Init => PL!Init
    BY DEF Init, PL!Init
  <1> QED
    BY <1>1, StepRefines, Invariance, PTL DEF Spec, Implements, PL!Spec
=============================================================================
