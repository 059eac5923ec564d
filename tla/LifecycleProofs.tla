---------------------------- MODULE LifecycleProofs ----------------------------
(***************************************************************************)
(* What holds of Lifecycle for any number of copies, moves and faults: the *)
(* types, that nothing is removed unasked, that what is destroyed was seen *)
(* where it may be destroyed, and that a sync which nothing disturbs       *)
(* mirrors the file and the next one rests.                                *)
(***************************************************************************)
EXTENDS Lifecycle, TLAPS

(* Every step keeps the types. *)
LEMMA TypeStep == TypeOK /\ [Next]_vars => TypeOK'
<1> SUFFICES ASSUME TypeOK, [Next]_vars PROVE TypeOK'
  OBVIOUS
<1> USE DEF rows, logical, user, run, Fine, Fault
<1> USE CopiesAssumption
<1>1. CASE Start
  BY <1>1 DEF Start, TypeOK
<1>2. ASSUME NEW missed \in SUBSET Copies, Scan(missed) PROVE TypeOK'
  BY <1>2 DEF Scan, TypeOK, Upserted, Linked, GoogleLists, MicrosoftLists, TelegramLists, Copies
<1>3. CASE Derive
  <2>1. fpath' \in Listed
    BY <1>3 DEF Derive, TypeOK, Canonical, Preferred, FromReplicas, Active
  <2>2. FileState \in {"none", "active", "soft-deleted", "deleted", "hard-deleted"}
    BY DEF FileState, TypeOK
  <2>3. Marked \in [Copies -> {"none", "active", "deleted", "hard-deleted", "other"}]
    BY DEF Marked, TypeOK
  <2> QED
    BY <1>3, <2>1, <2>2, <2>3 DEF Derive, TypeOK
<1>4. CASE Lost
  BY <1>4 DEF Lost, TypeOK, Active
<1>5. ASSUME NEW c \in Copies, NEW reply \in Replies, Purge(c, reply) PROVE TypeOK'
  BY <1>5 DEF Purge, Reply, TypeOK, Places, Listed
<1>6. ASSUME NEW c \in Copies, NoClient(c) PROVE TypeOK'
  BY <1>6 DEF NoClient, TypeOK
<1>7. CASE Purged
  BY <1>7 DEF Purged, TypeOK
<1>8. CASE Hard
  BY <1>8 DEF Hard, TypeOK, Active
<1>9. ASSUME NEW c \in Copies, NEW reply \in Replies, Bury(c, reply) PROVE TypeOK'
  BY <1>9 DEF Bury, Reply, TypeOK, Places, Listed
<1>10. CASE Buried
  BY <1>10 DEF Buried, TypeOK
<1>11. CASE Load
  BY <1>11 DEF Load, TypeOK, Verdict, Misplaced, Active
<1>12. CASE LeaveIt
  BY <1>12 DEF LeaveIt, TypeOK
<1>13. ASSUME NEW c \in Copies, NEW to \in Listed, NEW reply \in Replies, Bring(c, to, reply)
       PROVE  /\ cloud' \in [Copies -> Places] /\ path' \in [Copies -> Listed]
              /\ status' \in [Copies -> {"none", "active", "deleted", "hard-deleted", "other"}]
              /\ calm' \in 0..2 /\ faults' \in 0..MaxFaults
  BY <1>13 DEF Bring, Reply, TypeOK, Places, Listed
<1>14. ASSUME NEW c \in Copies, NEW reply \in Replies, Converge(c, reply) PROVE TypeOK'
  <2>1. ProviderOf(c) \in Providers
    BY DEF ProviderOf, Providers
  <2>2. PICK to \in Listed : Bring(c, to, reply)
    BY <1>14 DEF Converge, TypeOK, Active, Listed
  <2>3. done' \subseteq {"soft", "restore", "copy"} \X Providers
    BY <1>14, <2>1 DEF Converge, TypeOK
  <2> QED
    BY <1>13, <1>14, <2>2, <2>3 DEF Converge, TypeOK
<1>15. CASE Converged
  BY <1>15 DEF Converged, TypeOK, Missing, Active
<1>16. ASSUME NEW c \in Copies, NEW reply \in Replies, Place(c, reply) PROVE TypeOK'
  BY <1>13, <1>16 DEF Place, TypeOK, Listed
<1>17. ASSUME NEW p \in Providers, NEW reply \in {"ok", "lost"}, CopyTo(p, reply) PROVE TypeOK'
  <2>1. PICK new \in Target(p) :
           /\ cloud' = [cloud EXCEPT ![new] = fpath]
           /\ IF reply = "ok" THEN Record(p, new) /\ done' = done \cup {<<"copy", p>>} /\ Fine
              ELSE UNCHANGED <<rows, done>> /\ Fault
    BY <1>17 DEF CopyTo
  <2>2. cloud' \in [Copies -> Places]
    BY <2>1 DEF TypeOK, Places, Listed
  <2>3. path' \in [Copies -> Listed]
    BY <2>1 DEF TypeOK, Record
  <2>4. status' \in [Copies -> {"none", "active", "deleted", "hard-deleted", "other"}]
    BY <2>1 DEF TypeOK, Record
  <2>5. done' \subseteq {"soft", "restore", "copy"} \X Providers
    BY <2>1 DEF TypeOK
  <2> QED
    BY <1>17, <2>1, <2>2, <2>3, <2>4, <2>5 DEF CopyTo, TypeOK
<1>18. ASSUME NEW p \in Providers, CopyFails(p) PROVE TypeOK'
  BY <1>18 DEF CopyFails, TypeOK
<1>19. CASE Synced
  BY <1>19 DEF Synced, TypeOK
<1>20. CASE End
  BY <1>20 DEF End, TypeOK
<1>21. CASE Kill
  BY <1>21 DEF Kill, TypeOK
<1>22. ASSUME NEW c \in Copies, NEW place \in Listed \cup {"trash", "gone"}, Move(c, place)
       PROVE  TypeOK'
  BY <1>22 DEF Move, TypeOK, Places, Listed
<1>23. CASE UNCHANGED vars
  BY <1>23 DEF vars, TypeOK
<1> QED
  BY <1>1, <1>2, <1>3, <1>4, <1>5, <1>6, <1>7, <1>8, <1>9, <1>10, <1>11, <1>12, <1>14, <1>15,
     <1>16, <1>17, <1>18, <1>19, <1>20, <1>21, <1>22, <1>23 DEF Next, Program

(* The types hold whatever the numbers of copies, moves and faults. *)
THEOREM TypeCorrect == Spec => []TypeOK
<1>1. Init => TypeOK
  BY CopiesAssumption DEF Init, TypeOK, Places, Listed
<1> QED
  BY <1>1, TypeStep, PTL DEF Spec

-----------------------------------------------------------------------------
(* The two folders stay out of play as long as nobody asks for them. *)
LEMMA UnaskedStep == TypeOK /\ Unasked /\ [Next]_vars => Unasked'
<1> SUFFICES ASSUME TypeOK, Unasked, [Next]_vars, asked' \cap {"soft", "hard"} = {}
             PROVE  Unasked'
  BY DEF Unasked
<1> USE DEF rows, logical, user, run
<1>0. asked \subseteq asked'
  BY DEF Next, Program, Start, Scan, Derive, Lost, Purge, NoClient, Purged, Hard, Bury, Buried,
         Load, LeaveIt, Converge, Converged, Place, CopyTo, CopyFails, Synced, End, Kill, Move, vars
<1>1. /\ \A c \in Copies : cloud[c] \notin {"soft", "hard"} /\ path[c] = "library"
      /\ fpath = "library" /\ file # "soft-deleted" /\ intent # "soft"
      /\ pc \notin {"purge", "bury", "place"}
      /\ pc = "converge" => todo = {}
  BY <1>0 DEF Unasked
<1>2. CASE Start \/ LeaveIt \/ Kill \/ Purged \/ Buried \/ Synced \/ End
  BY <1>1, <1>2 DEF Start, LeaveIt, Kill, Purged, Buried, Synced, End, Unasked
<1>3. ASSUME NEW missed \in SUBSET Copies, Scan(missed) PROVE Unasked'
  BY <1>1, <1>3 DEF Scan, Unasked, Listed, GoogleLists, MicrosoftLists, TelegramLists, Copies
<1>4. CASE Derive
  <2>1. fpath' = "library"
    BY <1>1, <1>4 DEF Derive, Canonical, Preferred, FromReplicas, Active
  <2>2. FileState # "soft-deleted"
    BY <1>1 DEF FileState, Active
  <2> QED
    BY <1>1, <1>4, <2>1, <2>2 DEF Derive, Unasked
<1>5. CASE Lost
  BY <1>1, <1>5 DEF Lost, LostByGoogle, Unasked
<1>6. CASE Hard
  BY <1>1, <1>6 DEF Hard, Active, Unasked
<1>7. CASE Load
  <2>1. Verdict # "soft" /\ Misplaced(Verdict) = {}
    BY <1>1 DEF Verdict, Misplaced, Active
  <2> QED
    BY <1>1, <1>7, <2>1 DEF Load, Unasked
<1>8. CASE Converged
  BY <1>1, <1>8 DEF Converged, Unasked
<1>9. ASSUME NEW p \in Providers, NEW reply \in {"ok", "lost"}, CopyTo(p, reply) PROVE Unasked'
  BY <1>1, <1>9 DEF CopyTo, Record, TypeOK, Unasked
<1>10. ASSUME NEW p \in Providers, CopyFails(p) PROVE Unasked'
  BY <1>1, <1>10 DEF CopyFails, Unasked
<1>11. ASSUME NEW c \in Copies, NEW place \in Listed \cup {"trash", "gone"}, Move(c, place)
       PROVE  Unasked'
  BY <1>1, <1>11 DEF Move, TypeOK, Unasked
<1>12. CASE UNCHANGED vars
  BY <1>1, <1>12 DEF vars, Unasked
<1>13. ASSUME NEW c \in Copies, NEW reply \in Replies
       PROVE  /\ ~NoClient(c) /\ ~Purge(c, reply) /\ ~Bury(c, reply)
              /\ ~Converge(c, reply) /\ ~Place(c, reply)
  BY <1>1 DEF NoClient, Purge, Bury, Converge, Place
<1> QED
  BY <1>2, <1>3, <1>4, <1>5, <1>6, <1>7, <1>8, <1>9, <1>10, <1>11, <1>12, <1>13
     DEF Next, Program, Replies

LEMMA UnaskedInit == Init => Unasked
  BY DEF Init, Unasked

(* Removing a copy takes a purge, a burial or a soft deletion. *)
LEMMA RemovedHow ==
    ASSUME TypeOK, Next, NEW c \in Copies, Removes(c)
    PROVE  \E reply \in Replies :
              Purge(c, reply) \/ Bury(c, reply) \/ Converge(c, reply) \/ Place(c, reply)
<1> USE DEF Removes
<1>1. cloud[c] \in Listed /\ cloud'[c] \notin Listed /\ moves' = moves
  OBVIOUS
<1>2. ~(\E d \in Copies, place \in Listed \cup {"trash", "gone"} : Move(d, place))
  BY <1>1 DEF Move, TypeOK
<1>3. cloud' # cloud
  BY <1>1
<1>4. ~(\E p \in Providers, reply \in {"ok", "lost"} : CopyTo(p, reply))
  BY <1>1 DEF CopyTo, TypeOK
<1>5. PICK d \in Copies, reply \in Replies :
         Purge(d, reply) \/ Bury(d, reply) \/ Converge(d, reply) \/ Place(d, reply)
  BY <1>2, <1>3, <1>4 DEF Next, Program, Start, Scan, Derive, Lost, NoClient, Purged, Hard, Buried,
     Load, LeaveIt, Converged, CopyFails, Synced, End, Kill
<1>6. \A x \in Copies : x # d => cloud'[x] = cloud[x]
  BY <1>5 DEF Purge, Bury, Converge, Place, Bring, TypeOK
<1> QED
  BY <1>1, <1>5, <1>6

(* As long as the user soft-deletes and hard-deletes nothing, the program removes
   nothing, whatever calls fail, listings miss and kills cut short. *)
THEOREM NothingRemoved == Spec => NothingRemovedUnasked
<1> DEFINE A == asked \cap {"soft", "hard"} = {} => \A c \in Copies : ~Removes(c)
<1>1. TypeOK /\ Unasked /\ [Next]_vars => [A]_vars
  <2> SUFFICES ASSUME TypeOK, Unasked, Next, asked \cap {"soft", "hard"} = {},
                      NEW c \in Copies, Removes(c)
               PROVE  FALSE
    OBVIOUS
  <2>1. /\ pc \notin {"purge", "bury", "place"}
        /\ pc = "converge" => todo = {}
    BY DEF Unasked
  <2> QED
    BY <2>1, RemovedHow DEF Purge, Bury, Converge, Place
<1>2. Init => TypeOK
  BY CopiesAssumption DEF Init, TypeOK, Places, Listed
<1> QED
  BY <1>1, <1>2, TypeStep, UnaskedInit, UnaskedStep, PTL DEF Spec, NothingRemovedUnasked

-----------------------------------------------------------------------------
(* After MarkDeletedReplicas the rows in use are those of this refresh. *)
LEMMA FreshStep == TypeOK /\ Fresh /\ [Next]_vars => Fresh'
<1> SUFFICES ASSUME TypeOK, Fresh, [Next]_vars PROVE Fresh'
  OBVIOUS
<1> USE DEF rows, logical, user, run
<1>1. CASE Derive
  <2>1. pc' = "lost" /\ Active' = Active \cap seen /\ UNCHANGED <<path, seen>>
    BY <1>1 DEF Derive, Marked, Active, TypeOK
  <2>2. ASSUME file' = "soft-deleted", Active' \cap Google = {}, NEW c \in Active'
        PROVE  path'[c] = "soft"
    <3>1. FileState = "soft-deleted" /\ Active \cap seen # {} /\ (Active \cap seen) \cap Google = {}
      BY <1>1, <2>1, <2>2 DEF Derive
    <3> QED
      BY <2>1, <2>2, <3>1 DEF FileState
  <2> QED
    BY <2>1, <2>2 DEF Fresh, LostByGoogle
<1>2. CASE Lost
  BY <1>2 DEF Lost, Fresh, Active
<1>3. ASSUME NEW c \in Copies, NEW reply \in Replies, Purge(c, reply) PROVE Fresh'
  <2>1. Active' \subseteq Active
    BY <1>3 DEF Purge, Active, TypeOK
  <2> QED
    BY <1>3, <2>1 DEF Purge, Fresh
<1>4. CASE Hard
  BY <1>4 DEF Hard, Fresh, Active
<1>5. ASSUME NEW c \in Copies, NEW reply \in Replies, NoClient(c) \/ Bury(c, reply) PROVE Fresh'
  BY <1>5 DEF NoClient, Bury, Fresh, Active
<1>6. CASE Purged
  BY <1>6 DEF Purged, Fresh, Active
<1>7. CASE Buried \/ LeaveIt \/ Kill \/ Start \/ Load \/ Converged \/ Synced \/ End
  BY <1>7 DEF Buried, LeaveIt, Kill, Start, Load, Converged, Synced, End, Fresh
<1>8. ASSUME NEW c \in Copies, NEW reply \in Replies, Converge(c, reply) \/ Place(c, reply)
      PROVE  Fresh'
  BY <1>8 DEF Converge, Place, Fresh
<1>9. ASSUME NEW p \in Providers, NEW reply \in {"ok", "lost"}, CopyTo(p, reply) \/ CopyFails(p)
      PROVE  Fresh'
  BY <1>9 DEF CopyTo, CopyFails, Fresh
<1>10. ASSUME NEW missed \in SUBSET Copies, Scan(missed) PROVE Fresh'
  BY <1>10 DEF Scan, Fresh
<1>11. CASE (\E c \in Copies, place \in Listed \cup {"trash", "gone"} : Move(c, place)) \/ UNCHANGED vars
  BY <1>11 DEF Move, vars, Fresh, Active, LostByGoogle
<1> QED
  BY <1>1, <1>2, <1>3, <1>4, <1>5, <1>6, <1>7, <1>8, <1>9, <1>10, <1>11 DEF Next, Program, Replies

(* What is destroyed was seen by this refresh, where it may be destroyed. *)
THEOREM DestroyedWhereSeen == Spec => DestroyedAsSeen
<1> DEFINE A == \A c \in Copies : Destroys(c) =>
                   c \in seen /\ (path[c] = "soft" \/ \E x \in seen : path[x] = "hard")
<1>1. TypeOK /\ Fresh /\ [Next]_vars => [A]_vars
  <2> SUFFICES ASSUME TypeOK, Fresh, Next, NEW c \in Copies, Destroys(c)
               PROVE  c \in seen /\ (path[c] = "soft" \/ \E x \in seen : path[x] = "hard")
    OBVIOUS
  <2>1. cloud'[c] \notin Listed \cup {"hidden"} /\ cloud[c] \in Listed
    BY DEF Destroys, Removes
  <2>2. PICK reply \in Replies :
           Purge(c, reply) \/ Bury(c, reply) \/ Converge(c, reply) \/ Place(c, reply)
    BY RemovedHow DEF Destroys
  <2>3. \A to \in Listed : ~Bring(c, to, reply)
    BY <2>1 DEF Bring, TypeOK, Listed
  <2>4. ~Converge(c, reply) /\ ~Place(c, reply)
    BY <2>3 DEF Converge, Place, TypeOK, Active, Listed
  <2> QED
    BY <2>2, <2>4 DEF Purge, Bury, Fresh
<1>2. Init => TypeOK /\ Fresh
  BY CopiesAssumption DEF Init, TypeOK, Places, Listed, Fresh
<1> QED
  BY <1>1, <1>2, TypeStep, FreshStep, PTL DEF Spec, DestroyedAsSeen

-----------------------------------------------------------------------------
(* What a sync finds out and brings about that nothing disturbs.            *)

\* The user cannot move a message, and nothing is copied to the soft-deleted folder.
NeverSoft ==
    /\ \A c \in Telegram : cloud[c] # "soft" /\ path[c] # "soft"
    /\ pc = "copy" => fpath # "soft"

\* Nothing is behind an undisturbed sync when it begins.
Clear ==
    /\ pc \in {"scan", "derive", "lost", "purge", "hard", "bury", "load"} => done = {}
    /\ pc = "converge" => \A p \in Providers : <<"copy", p>> \notin done
    /\ pc \in {"scan", "derive", "lost", "purge", "hard"} => destroyed = {}

\* From the scan on the rows in use tell where their copies are.
Known(c) == (pc = "derive" => c \in seen) /\ (pc = "bury" => c \notin destroyed)
Told == pc \notin {"idle", "scan"} => \A c \in Active : Known(c) => cloud[c] = path[c]

\* What is deleted belongs to a file that is not in use any more.
Doomed ==
    /\ pc = "purge" => file = "deleted" /\ todo \subseteq Active
    /\ pc = "bury" => /\ destroyed \subseteq Active /\ todo \cap destroyed = {}
                      /\ Active \subseteq todo \cup destroyed /\ todo \subseteq Active

\* A file in use that Google has in use too has a copy there that is not soft-deleted.
Warranted ==
    /\ pc \in {"lost", "hard", "load"} /\ file = "active" /\ Active \cap Google # {} =>
         \E g \in Active \cap Google : path[g] # "soft"
    /\ pc \in {"converge", "copy", "place"} => (intent = "soft" => fpath = "soft")
    /\ pc = "place" => fpath = "soft" /\ todo \subseteq Active

\* Soft-deleted copies are before the sync, or are restored.
Restored ==
    /\ pc = "converge" => todo \subseteq Active
    /\ pc \in {"converge", "copy"} /\ intent = "active" =>
         \A c \in Active : path[c] # "soft" \/ (pc = "converge" /\ c \in todo)

\* So are the providers that lack a copy: before it, or supplied.
Supplied == pc = "copy" /\ Active # {} =>
    \A p \in Providers : Active \cap Of(p) # {} \/ p \in todo

\* At the end of a sync, the file that was to be mirrored is.
Ended == pc = "end" /\ file = "active" /\ fpath # "soft" /\ Active # {} =>
    /\ \A p \in Providers : Active \cap Of(p) # {}
    /\ intent = "active" => \A c \in Active : path[c] # "soft"

CalmSync  == Clear /\ Told /\ Doomed /\ Warranted /\ Restored /\ Supplied /\ Ended
MirrorInv == NeverSoft /\ (calm > 0 => CalmSync)

-----------------------------------------------------------------------------
(* What a second such sync finds, where nothing was soft- or hard-deleted.   *)

Unbidden == asked \cap {"soft", "hard"} = {}

\* The file, and rows of it that are in use, go together; none is hard-deleted.
InUse ==
    /\ file \in {"none", "active"} /\ \A c \in Copies : status[c] # "hard-deleted"
    /\ calm > 0 /\ pc \notin {"idle", "scan", "derive"} /\ Active # {} => file = "active"

\* Where no row is in use, Google has no copy that might get one.
Dead == Active = {} /\ \A c \in Google : cloud[c] \in Listed => status[c] # "none"
Noted == calm > 0 =>
    /\ pc \in {"derive", "lost", "hard", "load", "converge"} =>
          \A c \in Google : cloud[c] \in Listed => status[c] # "none"
    /\ pc \in {"copy", "end"} => Active # {} \/ Dead
    /\ pc = "copy" /\ Active = {} => todo = {}

\* Between two syncs every provider has a copy and its row, or there is none.
Alive == /\ \A p \in Providers : Active \cap Of(p) # {}
         /\ \A c \in Active : cloud[c] \in Listed
Rested == (calm > 0 /\ pc = "idle") \/ (calm = 2 /\ pc = "scan") => Alive \/ Dead

\* The second sync finds it, but for a message behind another.
Found(p) == Active \cap Of(p) \cap seen # {} \/ (p = "telegram" /\ Shadowed)
Again ==
    /\ calm = 2 /\ pc \in {"derive", "lost", "hard", "load", "converge"} =>
          Active = {} \/ \A p \in Providers : Found(p)
    /\ calm = 2 /\ pc = "copy" => \A p \in todo : p = "telegram" /\ Shadowed

CalmAgain == Noted /\ Rested /\ Again
RestInv   == Unbidden => InUse /\ CalmAgain

LEMMA NeverSoftStep == TypeOK /\ NeverSoft /\ [Next]_vars => NeverSoft'
<1> SUFFICES ASSUME TypeOK, NeverSoft, [Next]_vars PROVE NeverSoft'
  OBVIOUS
<1> USE DEF rows, logical, user, run
<1> USE CopiesAssumption
<1>1. CASE UNCHANGED vars
  BY <1>1 DEF vars, NeverSoft
<1>2. CASE Start \/ Lost \/ Purged \/ Hard \/ Buried \/ Load \/ LeaveIt \/ Synced \/ End \/ Kill
  BY <1>2 DEF Start, Lost, Purged, Hard, Buried, Load, LeaveIt, Synced, End, Kill, NeverSoft
<1>3. CASE Derive
  BY <1>3 DEF Derive, NeverSoft
<1>4. CASE Converged
  BY <1>4 DEF Converged, NeverSoft
<1>5. ASSUME NEW missed \in SUBSET Copies, Scan(missed) PROVE NeverSoft'
  BY <1>5 DEF Scan, NeverSoft, TypeOK, Copies
<1>6. ASSUME NEW c \in Copies, NEW reply \in Replies, NoClient(c) \/ Purge(c, reply) \/ Bury(c, reply)
      PROVE  NeverSoft'
  BY <1>6 DEF NoClient, Purge, Bury, NeverSoft, TypeOK, Copies
<1>7. ASSUME NEW c \in Copies, NEW to, NEW reply \in Replies, Bring(c, to, reply),
             pc' = pc, fpath' = fpath
      PROVE  NeverSoft'
  <2>1. \A d \in Telegram : path'[d] = path[d] /\ cloud'[d] \in {cloud[d], "hidden"}
    BY <1>7 DEF Bring, TypeOK, Copies
  <2> QED
    BY <1>7, <2>1 DEF NeverSoft
<1>8. ASSUME NEW c \in Copies, NEW reply \in Replies, Converge(c, reply) \/ Place(c, reply)
      PROVE  NeverSoft'
  BY <1>7, <1>8 DEF Converge, Place
<1>9. ASSUME NEW p \in Providers, NEW reply \in {"ok", "lost"}, CopyTo(p, reply) PROVE NeverSoft'
  <2>1. fpath # "soft" /\ pc' = pc /\ fpath' = fpath
    BY <1>9 DEF CopyTo, NeverSoft
  <2>2. \A d \in Telegram : cloud'[d] \in {cloud[d], fpath} /\ path'[d] \in {path[d], fpath}
    BY <1>9 DEF CopyTo, Record, TypeOK, Copies
  <2> QED
    BY <2>1, <2>2 DEF NeverSoft
<1>10. ASSUME NEW p \in Providers, CopyFails(p) PROVE NeverSoft'
  BY <1>10 DEF CopyFails, NeverSoft
<1>11. ASSUME NEW c \in Copies, NEW place \in Listed \cup {"trash", "gone"}, Move(c, place)
       PROVE  NeverSoft'
  BY <1>11 DEF Move, NeverSoft, TypeOK, Copies, Listed
<1> QED
  BY <1>1, <1>2, <1>3, <1>4, <1>5, <1>6, <1>8, <1>9, <1>10, <1>11 DEF Next, Program, Replies

\* A sync that is undisturbed after a step was so before, or begins.
LEMMA CalmBefore ==
    ASSUME TypeOK, [Next]_vars, calm' > 0
    PROVE  /\ Start \/ calm' = calm
           /\ \A c \in Copies : ~NoClient(c)
           /\ \A p \in Providers : ~CopyFails(p) /\ ~CopyTo(p, "lost")
           /\ \A missed \in SUBSET Copies : Scan(missed) => missed = {}
           /\ \A c \in Copies, place \in Listed \cup {"trash", "gone"} : ~Move(c, place)
           /\ ~Kill /\ ~LeaveIt
<1> USE DEF Fine, Fault
<1>1. calm \in 0..2
  BY DEF TypeOK
<1>2. /\ \A c \in Copies : ~NoClient(c)
      /\ \A p \in Providers : ~CopyFails(p) /\ ~CopyTo(p, "lost")
      /\ \A c \in Copies, place \in Listed \cup {"trash", "gone"} : ~Move(c, place)
      /\ ~Kill /\ ~LeaveIt
  BY DEF NoClient, CopyFails, CopyTo, Move, Kill, LeaveIt
<1>3. \A missed \in SUBSET Copies : Scan(missed) => missed = {} /\ calm' = calm
  BY DEF Scan
<1>4. \A p \in Providers, reply \in {"ok", "lost"} : CopyTo(p, reply) => calm' = calm
  BY DEF CopyTo
<1>5. \A c \in Copies, reply \in Replies : Reply(c, reply) => calm' = calm
  BY DEF Reply
<1>6. \A c \in Copies, reply \in Replies :
        Purge(c, reply) \/ Bury(c, reply) \/ Converge(c, reply) \/ Place(c, reply) => calm' = calm
  BY <1>5 DEF Purge, Bury, Converge, Place, Bring
<1>7. Derive \/ Lost \/ Purged \/ Hard \/ Buried \/ Load \/ Converged \/ Synced \/ End
        \/ UNCHANGED vars => calm' = calm
  BY DEF Derive, Lost, Purged, Hard, Buried, Load, Converged, Synced, End, vars
<1> QED
  BY <1>2, <1>3, <1>4, <1>6, <1>7 DEF Next, Program

\* Where nothing fails, a call on a copy in the managed area is answered.
LEMMA Answered ==
    ASSUME NEW c \in Copies, NEW reply \in Replies, Reply(c, reply), calm' > 0,
           cloud[c] \in Listed
    PROVE  reply = "ok"
  BY DEF Reply, Reachable, Fault

LEMMA Brought ==
    ASSUME TypeOK, NEW c \in Copies, NEW to \in Listed, NEW reply \in Replies,
           Bring(c, to, reply), calm' > 0, cloud[c] \in Listed
    PROVE  /\ cloud' = [cloud EXCEPT ![c] = IF c \in Telegram THEN "hidden" ELSE to]
           /\ IF c \in Telegram THEN status' = [status EXCEPT ![c] = "deleted"] /\ UNCHANGED path
              ELSE path' = [path EXCEPT ![c] = to] /\ UNCHANGED status
<1>1. Reply(c, reply)
  BY DEF Bring
<1>2. reply = "ok"
  BY <1>1, Answered
<1> QED
  BY <1>2 DEF Bring, Listed

LEMMA StartCalm == ASSUME Start, calm' > 0 PROVE CalmSync'
  BY DEF Start, CalmSync, Clear, Told, Doomed, Warranted, Restored, Supplied, Ended

LEMMA ScanCalm == ASSUME TypeOK, CalmSync, Scan({}) PROVE CalmSync'
<1>1. /\ pc = "scan" /\ pc' = "derive" /\ UNCHANGED <<done, destroyed, cloud>>
      /\ path' = [c \in Copies |-> IF c \in seen' THEN cloud[c] ELSE path[c]]
  BY DEF Scan
<1> QED
  BY <1>1 DEF CalmSync, Clear, Told, Known, Active, Doomed, Warranted, Restored, Supplied, Ended

LEMMA DeriveCalm == ASSUME TypeOK, CalmSync, Derive PROVE CalmSync'
<1>1. /\ pc = "derive" /\ pc' = "lost" /\ UNCHANGED <<done, destroyed, cloud, path, seen>>
      /\ file' = FileState /\ Active' = Active \cap seen
  BY DEF Derive, Marked, Active, TypeOK, run
<1>2. Clear' /\ Doomed' /\ Restored' /\ Supplied' /\ Ended'
  BY <1>1 DEF CalmSync, Clear, Doomed, Restored, Supplied, Ended
<1>3. Told'
  BY <1>1 DEF CalmSync, Told, Known
<1>4. Warranted'
  <2> SUFFICES ASSUME file' = "active", Active' \cap Google # {}
               PROVE  \E g \in Active' \cap Google : path[g] # "soft"
    BY <1>1 DEF Warranted
  <2>1. Active \cap seen # {} /\ (Active \cap seen) \cap Google # {}
    BY <1>1
  <2>2. \E c \in (Active \cap seen) \cap Google : path[c] # "soft"
    BY <1>1, <2>1 DEF FileState
  <2> QED
    BY <1>1, <2>2
<1> QED
  BY <1>2, <1>3, <1>4 DEF CalmSync

LEMMA LostCalm == ASSUME TypeOK, CalmSync, Lost PROVE CalmSync'
<1>1. /\ pc = "lost" /\ UNCHANGED <<done, destroyed, cloud, path, status, Active>>
      /\ \/ pc' = "purge" /\ file' = "deleted" /\ todo' = Active
         \/ pc' = "hard" /\ file' = file
  BY DEF Lost, Active, rows, run
<1> QED
  BY <1>1 DEF CalmSync, Clear, Told, Known, Doomed, Warranted, Restored, Supplied, Ended

LEMMA PurgeCalm ==
    ASSUME TypeOK, CalmSync, calm' > 0, NEW c \in Copies, NEW reply \in Replies, Purge(c, reply)
    PROVE  CalmSync'
<1>1. pc = "purge" /\ c \in Active /\ cloud[c] = path[c] /\ path[c] \in Listed
  BY DEF Purge, CalmSync, Doomed, Told, Known, TypeOK
<1>2. reply = "ok"
  BY <1>1, Answered DEF Purge
<1>3. /\ pc' = "purge" /\ file' = file /\ UNCHANGED <<path, done, destroyed>>
      /\ todo' = todo \ {c} /\ Active' = Active \ {c}
      /\ \A x \in Copies \ {c} : cloud'[x] = cloud[x]
  BY <1>1, <1>2 DEF Purge, Active, TypeOK, logical, run
<1>4. Told'
  BY <1>1, <1>3 DEF CalmSync, Told, Known, Active
<1> QED
  BY <1>1, <1>3, <1>4 DEF CalmSync, Clear, Doomed, Warranted, Restored, Supplied, Ended

LEMMA PurgedCalm == ASSUME TypeOK, CalmSync, Purged PROVE CalmSync'
<1>1. /\ pc = "purge" /\ pc' = "hard"
      /\ UNCHANGED <<cloud, path, status, Active, file, done, destroyed>>
  BY DEF Purged, Active, rows, logical, run
<1>2. file = "deleted"
  BY <1>1 DEF CalmSync, Doomed
<1> QED
  BY <1>1, <1>2 DEF CalmSync, Clear, Told, Known, Doomed, Warranted, Restored, Supplied, Ended

LEMMA HardCalm == ASSUME TypeOK, CalmSync, Hard PROVE CalmSync'
<1>1. /\ pc = "hard" /\ UNCHANGED <<cloud, path, status, Active, file, done, destroyed>>
      /\ \/ pc' = "bury" /\ todo' = Active
         \/ pc' = "load"
  BY DEF Hard, Active, rows, logical, run
<1>2. destroyed = {}
  BY <1>1 DEF CalmSync, Clear
<1> QED
  BY <1>1, <1>2 DEF CalmSync, Clear, Told, Known, Doomed, Warranted, Restored, Supplied, Ended

LEMMA BuryCalm ==
    ASSUME TypeOK, CalmSync, calm' > 0, NEW c \in Copies, NEW reply \in Replies, Bury(c, reply)
    PROVE  CalmSync'
<1>1. pc = "bury" /\ c \in Active \ destroyed /\ cloud[c] = path[c] /\ path[c] \in Listed
  BY DEF Bury, CalmSync, Doomed, Told, Known, TypeOK
<1>2. reply = "ok"
  BY <1>1, Answered DEF Bury
<1>3. /\ pc' = "bury" /\ UNCHANGED <<path, Active, done>>
      /\ todo' = todo \ {c} /\ destroyed' = destroyed \cup {c}
      /\ \A x \in Copies \ {c} : cloud'[x] = cloud[x]
  BY <1>1, <1>2 DEF Bury, Active, TypeOK, rows
<1>4. Told'
  BY <1>1, <1>3 DEF CalmSync, Told, Known, Active
<1>5. Doomed'
  BY <1>1, <1>3 DEF CalmSync, Doomed
<1> QED
  BY <1>1, <1>3, <1>4, <1>5 DEF CalmSync, Clear, Warranted, Restored, Supplied, Ended

LEMMA BuriedCalm == ASSUME TypeOK, CalmSync, Buried PROVE CalmSync'
<1>1. /\ pc = "bury" /\ pc' = "load" /\ todo = {} /\ done' = done
      /\ status' = [c \in Copies |-> IF c \in destroyed THEN "hard-deleted" ELSE status[c]]
  BY DEF Buried, run
<1>2. Active \subseteq destroyed
  BY <1>1 DEF CalmSync, Doomed
<1>3. Active' = {}
  BY <1>1, <1>2 DEF Active
<1> QED
  BY <1>1, <1>3 DEF CalmSync, Clear, Told, Doomed, Warranted, Restored, Supplied, Ended

LEMMA LoadCalm == ASSUME TypeOK, NeverSoft, CalmSync, Load PROVE CalmSync'
<1>1. /\ pc = "load" /\ UNCHANGED <<cloud, path, status, Active, file, fpath, done>>
      /\ \/ file = "active" /\ pc' = "converge" /\ intent' = Verdict /\ todo' = Misplaced(Verdict)
         \/ file # "active" /\ pc' = "end"
  BY DEF Load, Active, rows, logical
<1>2. done = {}
  BY <1>1 DEF CalmSync, Clear
<1>3. Clear' /\ Doomed' /\ Supplied' /\ Ended'
  BY <1>1, <1>2 DEF Clear, Doomed, Supplied, Ended
<1>4. Told'
  BY <1>1 DEF CalmSync, Told, Known
<1>5. Warranted'
  <2>1. file = "active" /\ Verdict = "soft" => fpath = "soft"
    BY <1>1 DEF Verdict, CalmSync, Warranted
  <2> QED
    BY <1>1, <2>1 DEF Warranted
<1>6. Restored'
  <2>1. Misplaced(Verdict) \subseteq Active
    BY DEF Misplaced
  <2>2. \A c \in Active : path[c] = "soft" => c \notin Telegram
    BY DEF NeverSoft
  <2>3. Verdict = "active" => \A c \in Active : path[c] # "soft" \/ c \in Misplaced(Verdict)
    BY <1>2, <2>2 DEF Misplaced
  <2> QED
    BY <1>1, <2>1, <2>3 DEF Restored
<1> QED
  BY <1>3, <1>4, <1>5, <1>6 DEF CalmSync

LEMMA ConvergeCalm ==
    ASSUME TypeOK, CalmSync, calm' > 0, NEW c \in Copies, NEW reply \in Replies, Converge(c, reply)
    PROVE  CalmSync'
<1>1. /\ pc = "converge" /\ pc' = pc /\ c \in Active /\ cloud[c] = path[c] /\ path[c] \in Listed
      /\ todo' = todo \ {c} /\ UNCHANGED <<file, fpath, intent>>
  BY DEF Converge, CalmSync, Restored, Told, Known, TypeOK, logical, run
<1>2. PICK to \in Listed : Bring(c, to, reply) /\ (intent = "active" => to # "soft")
  BY DEF Converge, TypeOK, Active, Listed
<1>3. /\ cloud' = [cloud EXCEPT ![c] = IF c \in Telegram THEN "hidden" ELSE to]
      /\ IF c \in Telegram THEN status' = [status EXCEPT ![c] = "deleted"] /\ UNCHANGED path
         ELSE path' = [path EXCEPT ![c] = to] /\ UNCHANGED status
  BY <1>1, <1>2, Brought
<1>4. /\ Active' \subseteq Active
      /\ c \in Active' => cloud'[c] = to /\ path'[c] = to
      /\ \A x \in Copies \ {c} : cloud'[x] = cloud[x] /\ path'[x] = path[x]
  BY <1>1, <1>3 DEF Active, TypeOK
<1>5. Told'
  BY <1>1, <1>4 DEF CalmSync, Told, Known, Active
<1>6. Restored'
  <2>1. todo' \subseteq Active'
    BY <1>1, <1>3 DEF CalmSync, Restored, Active, TypeOK
  <2>2. ASSUME intent = "active", NEW x \in Active' PROVE path'[x] # "soft" \/ x \in todo'
    BY <1>1, <1>2, <1>4, <2>2 DEF CalmSync, Restored, Active
  <2> QED
    BY <1>1, <2>1, <2>2 DEF Restored
<1>7. Clear'
  BY <1>1 DEF Converge, CalmSync, Clear
<1> QED
  BY <1>1, <1>5, <1>6, <1>7 DEF CalmSync, Doomed, Warranted, Supplied, Ended

LEMMA ConvergedCalm == ASSUME TypeOK, NeverSoft, CalmSync, Converged PROVE CalmSync'
<1>1. /\ pc = "converge" /\ UNCHANGED <<cloud, path, status, Active, file, fpath, intent>>
      /\ todo = {} /\ done' = done
      /\ \/ fpath = "soft" /\ pc' = "place" /\ todo' = {c \in Active : path[c] # "soft"}
         \/ /\ fpath # "soft" /\ pc' = "copy"
            /\ todo' = IF Active = {} \/ intent = "soft" THEN {} ELSE Missing
  BY DEF Converged, Active, rows, logical, run
<1>2. Clear' /\ Doomed' /\ Ended'
  BY <1>1 DEF Clear, Doomed, Ended
<1>3. Told'
  BY <1>1 DEF CalmSync, Told, Known
<1>4. Warranted' /\ Restored'
  BY <1>1 DEF CalmSync, Warranted, Restored
<1>5. Supplied'
  <2> SUFFICES ASSUME pc' = "copy", Active # {}, NEW p \in Providers
               PROVE  Active \cap Of(p) # {} \/ p \in todo'
    BY <1>1 DEF Supplied
  <2>1. intent # "soft" /\ <<"copy", p>> \notin done
    BY <1>1 DEF CalmSync, Warranted, Clear
  <2> QED
    BY <1>1, <2>1 DEF Missing
<1> QED
  BY <1>2, <1>3, <1>4, <1>5 DEF CalmSync

LEMMA PlaceCalm ==
    ASSUME TypeOK, CalmSync, calm' > 0, NEW c \in Copies, NEW reply \in Replies, Place(c, reply)
    PROVE  CalmSync'
<1>1. /\ pc = "place" /\ pc' = pc /\ c \in Active /\ cloud[c] = path[c] /\ path[c] \in Listed
      /\ todo' = todo \ {c} /\ UNCHANGED <<file, fpath, intent, done>>
  BY DEF Place, CalmSync, Warranted, Told, Known, TypeOK, logical, run
<1>2. /\ cloud' = [cloud EXCEPT ![c] = IF c \in Telegram THEN "hidden" ELSE "soft"]
      /\ IF c \in Telegram THEN status' = [status EXCEPT ![c] = "deleted"] /\ UNCHANGED path
         ELSE path' = [path EXCEPT ![c] = "soft"] /\ UNCHANGED status
  BY <1>1, Brought DEF Place, Listed
<1>3. /\ todo' \subseteq Active' /\ Active' \subseteq Active
      /\ c \in Active' => cloud'[c] = path'[c]
      /\ \A x \in Copies \ {c} : cloud'[x] = cloud[x] /\ path'[x] = path[x]
  BY <1>1, <1>2 DEF Active, TypeOK, CalmSync, Warranted
<1>4. Told'
  BY <1>1, <1>3 DEF CalmSync, Told, Known, Active
<1>5. Warranted'
  BY <1>1, <1>3 DEF CalmSync, Warranted
<1> QED
  BY <1>1, <1>4, <1>5 DEF CalmSync, Clear, Doomed, Restored, Supplied, Ended

\* A new copy is where its row says, and the rows in use stay so.
LEMMA Copied ==
    ASSUME TypeOK, NEW p \in Providers, CopyTo(p, "ok")
    PROVE  \E new \in Of(p) :
             /\ cloud' = [cloud EXCEPT ![new] = fpath] /\ path' = [path EXCEPT ![new] = fpath]
             /\ Active' = Active \cup {new} /\ new \in Copies /\ cloud[new] \in {fpath, "unborn"}
<1>1. PICK new \in Target(p) : cloud' = [cloud EXCEPT ![new] = fpath] /\ Record(p, new)
  BY DEF CopyTo
<1>2. new \in Of(p) /\ new \in Copies /\ cloud[new] \in {fpath, "unborn"}
  BY <1>1 DEF Target, OnMicrosoft, OnGoogle, OnTelegram, Placed, Unborn, Of, Providers, Copies
<1>3. Of(p) \subseteq Copies
  BY DEF Of, Providers, Copies
<1>4. Active' = Active \cup {new}
  <2>1. CASE status' = [status EXCEPT ![new] = "active"]
    BY <1>2, <2>1 DEF Active, TypeOK
  <2>2. ASSUME NEW c \in Of(p), status[c] = "deleted",
               status' = [status EXCEPT ![c] = "none", ![new] = "active"]
        PROVE  Active' = Active \cup {new}
    BY <1>2, <1>3, <2>2 DEF Active, TypeOK
  <2> QED
    BY <1>1, <2>1, <2>2 DEF Record
<1> QED
  BY <1>1, <1>2, <1>4 DEF Record

LEMMA CopyCalm ==
    ASSUME TypeOK, NeverSoft, CalmSync, NEW p \in Providers, CopyTo(p, "ok") PROVE CalmSync'
<1>1. /\ pc = "copy" /\ pc' = pc /\ todo' = todo \ {p} /\ UNCHANGED <<file, fpath, intent>>
      /\ fpath # "soft" /\ Active # {}
  BY DEF CopyTo, NeverSoft, logical, run
<1>2. PICK new \in Of(p) :
         /\ cloud' = [cloud EXCEPT ![new] = fpath] /\ path' = [path EXCEPT ![new] = fpath]
         /\ Active' = Active \cup {new} /\ new \in Copies
  BY Copied
<1>3. Told'
  BY <1>1, <1>2 DEF CalmSync, Told, Known, Active, TypeOK
<1>4. Restored'
  BY <1>1, <1>2 DEF CalmSync, Restored, Active, TypeOK
<1>5. Supplied'
  BY <1>1, <1>2 DEF CalmSync, Supplied
<1> QED
  BY <1>1, <1>3, <1>4, <1>5 DEF CalmSync, Clear, Doomed, Warranted, Ended

LEMMA SyncedCalm == ASSUME TypeOK, CalmSync, Synced PROVE CalmSync'
<1>1. /\ pc \in {"copy", "place"} /\ pc' = "end" /\ todo = {}
      /\ UNCHANGED <<cloud, path, status, Active, file, fpath, intent, done>>
  BY DEF Synced, Active, rows, logical, run
<1>2. Told'
  BY <1>1 DEF CalmSync, Told, Known
<1>3. Ended'
  BY <1>1 DEF CalmSync, Warranted, Restored, Supplied, Ended
<1> QED
  BY <1>1, <1>2, <1>3 DEF CalmSync, Clear, Doomed, Warranted, Restored, Supplied

LEMMA EndCalm == ASSUME End PROVE CalmSync'
  BY DEF End, CalmSync, Clear, Told, Doomed, Warranted, Restored, Supplied, Ended

LEMMA MirrorStep == TypeOK /\ MirrorInv /\ [Next]_vars => MirrorInv'
<1> SUFFICES ASSUME TypeOK, MirrorInv, [Next]_vars PROVE MirrorInv'
  OBVIOUS
<1>1. NeverSoft /\ NeverSoft'
  BY NeverSoftStep DEF MirrorInv
<1> SUFFICES ASSUME calm' > 0 PROVE CalmSync'
  BY <1>1 DEF MirrorInv
<1>2. CASE Start
  BY <1>2, StartCalm
<1>3. CASE calm' = calm
  <2>1. CalmSync
    BY <1>3 DEF MirrorInv
  <2>2. CASE UNCHANGED vars
    BY <2>1, <2>2 DEF CalmSync, vars, Clear, Told, Known, Active, Doomed, Warranted, Restored,
       Supplied, Ended
  <2>3. CASE Next
    BY <1>1, <2>1, <2>3, CalmBefore, StartCalm, ScanCalm, DeriveCalm, LostCalm, PurgeCalm, PurgedCalm,
       HardCalm, BuryCalm, BuriedCalm, LoadCalm, ConvergeCalm, ConvergedCalm, PlaceCalm, CopyCalm,
       SyncedCalm, EndCalm DEF Next, Program
  <2> QED
    BY <2>2, <2>3
<1> QED
  BY <1>2, <1>3, CalmBefore

LEMMA MirrorBegins == Init => TypeOK /\ MirrorInv
<1>1. Init => TypeOK
  BY CopiesAssumption DEF Init, TypeOK, Places, Listed
<1>2. Init => NeverSoft /\ calm = 0
  BY CopiesAssumption DEF Init, NeverSoft, Copies
<1> QED
  BY <1>1, <1>2 DEF MirrorInv

(* Whatever went wrong before, a sync that nothing disturbs mirrors a file in
   use, for any number of copies, moves, faults and kills. *)
THEOREM MirroredAfterAll == Spec => []Mirrored
<1>1. TypeOK /\ MirrorInv => Mirrored
  <2> SUFFICES ASSUME TypeOK, MirrorInv, pc = "end", calm > 0, file = "active",
                      fpath = "library", Active # {}
               PROVE  /\ \A p \in Providers : Active \cap Of(p) # {}
                      /\ \A c \in Active : cloud[c] = path[c]
                      /\ intent = "active" => \A c \in Active : path[c] # "soft"
    BY DEF Mirrored
  <2>1. Told /\ Ended
    BY DEF MirrorInv, CalmSync
  <2> QED
    BY <2>1 DEF Told, Known, Ended
<1> QED
  BY MirrorBegins, <1>1, TypeStep, MirrorStep, PTL DEF Spec

\* The user's wishes only grow.
LEMMA WishesGrow == [Next]_vars /\ Unbidden' => Unbidden
<1> SUFFICES ASSUME [Next]_vars PROVE asked \subseteq asked'
  BY DEF Unbidden
<1> QED
  BY DEF Next, Program, Start, Scan, Derive, Lost, Purge, NoClient, Purged, Hard, Bury, Buried,
     Load, LeaveIt, Converge, Converged, Place, CopyTo, CopyFails, Synced, End, Kill, Move, vars, user

\* Without soft or hard deletion the library is all there is.
LEMMA Plain ==
    ASSUME TypeOK, Unasked, Unbidden
    PROVE  /\ \A c \in Copies : path[c] = "library" /\ (cloud[c] \in Listed => cloud[c] = "library")
           /\ fpath = "library" /\ file # "soft-deleted" /\ intent # "soft"
           /\ pc \notin {"purge", "bury", "place"} /\ (pc = "converge" => todo = {})
  BY DEF Unasked, Unbidden, Listed

\* So the program takes only these steps.
LEMMA PlainSteps ==
    ASSUME TypeOK, Unasked, Unbidden, Next, calm' > 0
    PROVE  \/ Start \/ Scan({}) \/ Derive \/ Lost \/ Hard \/ Load \/ Converged \/ Synced \/ End
           \/ \E p \in Providers : CopyTo(p, "ok")
<1>1. \A c \in Copies, reply \in Replies :
        ~Purge(c, reply) /\ ~Bury(c, reply) /\ ~Converge(c, reply) /\ ~Place(c, reply)
  BY Plain DEF Purge, Bury, Converge, Place
<1>2. ~Purged /\ ~Buried
  BY Plain DEF Purged, Buried
<1> QED
  BY <1>1, <1>2, CalmBefore DEF Next, Program

LEMMA InUseStep == TypeOK /\ Unasked /\ MirrorInv /\ InUse /\ Unbidden /\ [Next]_vars => InUse'
<1> SUFFICES ASSUME TypeOK, Unasked, MirrorInv, InUse, Unbidden, [Next]_vars PROVE InUse'
  OBVIOUS
<1> USE DEF rows, logical, user, run
<1>1. CASE Derive
  <2>1. /\ file' = FileState /\ Active' = Active \cap seen /\ pc' = "lost"
        /\ \A c \in Copies : status'[c] # "hard-deleted"
    BY <1>1 DEF Derive, Marked, Active, TypeOK, InUse
  <2>2. FileState \in {"none", "active"}
    BY Plain DEF FileState, InUse, Active
  <2>3. Active \cap seen # {} => FileState = "active"
    BY Plain DEF FileState, Active
  <2> QED
    BY <2>1, <2>2, <2>3 DEF InUse
<1>2. ASSUME NEW missed \in SUBSET Copies, Scan(missed) PROVE InUse'
  BY <1>2 DEF Scan, InUse, Upserted, Linked, TypeOK
<1>3. ASSUME NEW p \in Providers, NEW reply \in {"ok", "lost"}, CopyTo(p, reply) PROVE InUse'
  <2>1. pc = "copy" /\ pc' = "copy" /\ file' = file /\ calm' \in {calm, 0} /\ Active # {}
    BY <1>3 DEF CopyTo, Fine, Fault
  <2>2. \A c \in Copies : status'[c] # "hard-deleted"
    BY <1>3 DEF CopyTo, Record, InUse, TypeOK
  <2> QED
    BY <2>1, <2>2 DEF InUse
<1>4. CASE Start \/ LeaveIt \/ Kill \/ End
  BY <1>4 DEF Start, LeaveIt, Kill, End, InUse
<1>5. CASE Lost \/ Hard \/ Load \/ Converged \/ Synced
  <2>1. /\ pc \notin {"idle", "scan", "derive"} /\ file' = file
        /\ UNCHANGED <<status, Active, calm>>
    BY <1>5, Plain DEF Lost, LostByGoogle, Hard, Load, Converged, Synced, Active
  <2> QED
    BY <2>1 DEF InUse
<1>6. ASSUME NEW p \in Providers, CopyFails(p) PROVE InUse'
  BY <1>6 DEF CopyFails, InUse, Active, Fault
<1>7. ASSUME NEW c \in Copies, NEW place \in Listed \cup {"trash", "gone"}, Move(c, place)
      PROVE  InUse'
  BY <1>7 DEF Move, InUse
<1>8. CASE UNCHANGED vars
  BY <1>8 DEF vars, InUse, Active
<1>9. ASSUME NEW c \in Copies, NEW reply \in Replies
      PROVE  /\ ~NoClient(c) /\ ~Purge(c, reply) /\ ~Bury(c, reply)
             /\ ~Converge(c, reply) /\ ~Place(c, reply)
  BY Plain DEF NoClient, Purge, Bury, Converge, Place
<1>10. ~Purged /\ ~Buried
  BY Plain DEF Purged, Buried
<1> QED
  BY <1>1, <1>2, <1>3, <1>4, <1>5, <1>6, <1>7, <1>8, <1>9, <1>10 DEF Next, Program, Replies

LEMMA StartAgain == ASSUME TypeOK, CalmAgain, Start, calm' > 0 PROVE CalmAgain'
<1>1. /\ pc = "idle" /\ pc' = "scan" /\ UNCHANGED <<cloud, status, Active>>
      /\ calm' = 2 => calm > 0
  BY DEF Start, rows, Active, TypeOK
<1>2. calm' = 2 => Alive \/ Dead
  BY <1>1 DEF CalmAgain, Rested
<1> QED
  BY <1>1, <1>2 DEF CalmAgain, Noted, Rested, Again, Alive, Dead

LEMMA ScanAgain ==
    ASSUME TypeOK, Unasked, Unbidden, InUse, CalmAgain, Scan({}), calm > 0, calm' = calm
    PROVE  CalmAgain'
<1>1. /\ pc = "scan" /\ pc' = "derive" /\ cloud' = cloud /\ Shadowed' = Shadowed
      /\ \E messages \in TelegramLists : seen' = GoogleLists \cup MicrosoftLists \cup messages
      /\ status' = [c \in Copies |-> IF c \in seen' THEN Upserted(c) ELSE status[c]]
  BY DEF Scan, Shadowed
<1>2. \A c \in Google \cup Microsoft : cloud[c] \in Listed => c \in seen'
  BY <1>1 DEF GoogleLists, MicrosoftLists
<1>3. \A c \in Active : c \in Active'
  BY <1>1 DEF Active, Upserted
<1>4. \A c \in Google : cloud[c] \in Listed => status'[c] # "none"
  BY <1>1, <1>2 DEF Upserted, Linked, Copies
<1>5. Noted'
  BY <1>1, <1>4 DEF Noted
<1>6. Again'
  <2> SUFFICES ASSUME calm = 2 PROVE Active' = {} \/ \A p \in Providers : Found(p)'
    BY <1>1 DEF Again
  <2>1. CASE Dead
    <3>1. ASSUME NEW c \in Copies PROVE status'[c] # "active"
      BY <1>1, <2>1, <3>1 DEF Dead, Active, Upserted, Linked, InUse, TypeOK, Copies,
         GoogleLists, MicrosoftLists, TelegramLists
    <3> QED
      BY <3>1 DEF Active
  <2>2. CASE Alive
    <3> SUFFICES ASSUME NEW p \in Providers PROVE Found(p)'
      OBVIOUS
    <3>1. PICK c \in Active : c \in Of(p) /\ cloud[c] \in Listed
      BY <2>2 DEF Alive
    <3>2. CASE p # "telegram"
      <4>1. c \in Google \cup Microsoft
        BY <3>1, <3>2 DEF Of, Providers
      <4> QED
        BY <1>2, <1>3, <3>1, <4>1 DEF Found
    <3>3. CASE p = "telegram" /\ ~Shadowed
      <4>1. c \in Telegram
        BY <3>1, <3>3 DEF Of
      <4>2. PICK messages \in TelegramLists :
               seen' = GoogleLists \cup MicrosoftLists \cup messages
        BY <1>1
      <4>3. PICK d \in messages : {x \in messages : cloud[x] = cloud[c]} = {d}
        BY <3>1, <4>1, <4>2 DEF TelegramLists
      <4>4. d \in Telegram /\ cloud[d] = cloud[c]
        BY <4>2, <4>3 DEF TelegramLists
      <4>5. d = c
        BY <3>1, <3>3, <4>1, <4>4 DEF Shadowed
      <4> QED
        BY <1>3, <3>1, <4>2, <4>5 DEF Found
    <3>4. CASE p = "telegram" /\ Shadowed
      BY <1>1, <3>4 DEF Found
    <3> QED
      BY <3>2, <3>3, <3>4
  <2> QED
    BY <1>1, <2>1, <2>2 DEF CalmAgain, Rested
<1> QED
  BY <1>1, <1>5, <1>6 DEF CalmAgain, Rested

LEMMA DeriveAgain == ASSUME TypeOK, CalmAgain, Derive PROVE CalmAgain'
<1>1. /\ pc = "derive" /\ pc' = "lost" /\ UNCHANGED <<cloud, seen, calm>>
      /\ Active' = Active \cap seen /\ Shadowed' = Shadowed
      /\ \A c \in Copies : status[c] # "none" => status'[c] # "none"
  BY DEF Derive, Marked, Active, TypeOK, run, Shadowed
<1>2. Noted'
  BY <1>1 DEF CalmAgain, Noted, Copies
<1>3. Again'
  BY <1>1 DEF CalmAgain, Again, Found
<1> QED
  BY <1>1, <1>2, <1>3 DEF CalmAgain, Rested

LEMMA StayAgain ==
    ASSUME TypeOK, Unasked, Unbidden, CalmAgain, Lost \/ Hard \/ (Load /\ pc' = "converge")
    PROVE  CalmAgain'
<1>1. /\ pc \in {"lost", "hard", "load"} /\ pc' \in {"hard", "load", "converge"}
      /\ UNCHANGED <<cloud, status, Active, seen, calm, Shadowed>>
  BY Plain DEF Lost, LostByGoogle, Hard, Load, Active, Shadowed, rows, run
<1>2. Again'
  BY <1>1 DEF CalmAgain, Again, Found
<1> QED
  BY <1>1, <1>2 DEF CalmAgain, Noted, Rested

LEMMA LeaveAgain ==
    ASSUME TypeOK, InUse, CalmAgain, calm > 0, Load, pc' # "converge" PROVE CalmAgain'
<1>1. /\ pc = "load" /\ pc' = "end" /\ file # "active" /\ UNCHANGED <<cloud, status, Active, calm>>
  BY DEF Load, Active, rows
<1>2. Active = {}
  BY <1>1 DEF InUse
<1>3. Dead
  BY <1>1, <1>2 DEF CalmAgain, Noted, Dead
<1> QED
  BY <1>1, <1>3 DEF CalmAgain, Noted, Rested, Again, Dead

LEMMA ConvergedAgain ==
    ASSUME TypeOK, Unasked, Unbidden, CalmAgain, Converged PROVE CalmAgain'
<1>1. /\ pc = "converge" /\ pc' = "copy" /\ UNCHANGED <<cloud, status, Active, calm, Shadowed>>
      /\ todo' = IF Active = {} \/ intent = "soft" THEN {} ELSE Missing
  BY Plain DEF Converged, Active, Shadowed, rows
<1>2. calm > 0 => Active # {} \/ Dead
  BY <1>1 DEF CalmAgain, Noted, Dead
<1>3. Noted'
  BY <1>1, <1>2 DEF Noted, Dead
<1>4. Again'
  <2> SUFFICES ASSUME calm = 2, NEW p \in todo' PROVE p = "telegram" /\ Shadowed
    BY <1>1 DEF Again
  <2>1. Active # {} /\ p \in Providers /\ Active \cap Of(p) = {}
    BY <1>1 DEF Missing
  <2> QED
    BY <1>1, <2>1 DEF CalmAgain, Again, Found
<1> QED
  BY <1>1, <1>3, <1>4 DEF CalmAgain, Rested

LEMMA CopyAgain ==
    ASSUME TypeOK, Unasked, Unbidden, CalmAgain, NEW p \in Providers, CopyTo(p, "ok")
    PROVE  CalmAgain'
<1>1. pc = "copy" /\ pc' = pc /\ todo' = todo \ {p} /\ calm' = calm /\ fpath = "library"
  BY Plain DEF CopyTo, Fine
<1>2. PICK new \in Of(p) :
         /\ cloud' = [cloud EXCEPT ![new] = fpath] /\ new \in Copies
         /\ Active' = Active \cup {new} /\ cloud[new] \in {fpath, "unborn"}
  BY Copied
<1>3. Shadowed => Shadowed'
  BY <1>1, <1>2 DEF Shadowed, Listed, TypeOK, Copies
<1> QED
  BY <1>1, <1>2, <1>3 DEF CalmAgain, Noted, Rested, Again

LEMMA SyncedAgain == ASSUME TypeOK, Unasked, Unbidden, CalmAgain, Synced PROVE CalmAgain'
<1>1. /\ pc = "copy" /\ pc' = "end" /\ UNCHANGED <<cloud, status, Active, calm>>
  BY Plain DEF Synced, Active, rows
<1> QED
  BY <1>1 DEF CalmAgain, Noted, Rested, Again, Dead

LEMMA EndAgain ==
    ASSUME TypeOK, Unasked, Unbidden, MirrorInv, InUse, CalmAgain, calm > 0, End PROVE CalmAgain'
<1>1. pc = "end" /\ pc' = "idle" /\ UNCHANGED <<cloud, status, Active, calm>>
  BY DEF End, Active, rows
<1>2. CASE Active = {}
  BY <1>1, <1>2 DEF CalmAgain, Noted, Rested, Again, Dead
<1>3. CASE Active # {}
  <2>1. file = "active" /\ fpath = "library"
    BY <1>1, <1>3, Plain DEF InUse
  <2>2. \A p \in Providers : Active \cap Of(p) # {}
    BY <1>1, <1>3, <2>1 DEF MirrorInv, CalmSync, Ended
  <2>3. \A c \in Active : cloud[c] \in Listed
    BY <1>1 DEF MirrorInv, CalmSync, Told, Known, TypeOK, Active
  <2> QED
    BY <1>1, <2>2, <2>3 DEF CalmAgain, Noted, Rested, Again, Alive
<1> QED
  BY <1>2, <1>3

LEMMA RestStep == TypeOK /\ Unasked /\ MirrorInv /\ RestInv /\ [Next]_vars => RestInv'
<1> SUFFICES ASSUME TypeOK, Unasked, MirrorInv, RestInv, [Next]_vars, Unbidden' PROVE RestInv'
  BY DEF RestInv
<1>1. Unbidden /\ InUse /\ CalmAgain
  BY WishesGrow DEF RestInv
<1>2. InUse'
  BY <1>1, InUseStep
<1>3. CalmAgain'
  <2>1. CASE UNCHANGED vars
    BY <1>1, <2>1 DEF CalmAgain, vars, Noted, Rested, Again, Found, Alive, Dead, Active, Shadowed
  <2>2. CASE calm' = 0
    BY <2>2 DEF CalmAgain, Noted, Rested, Again
  <2>3. CASE Next /\ calm' > 0
    <3>1. CASE Start
      BY <1>1, <2>3, <3>1, StartAgain
    <3>2. CASE calm' = calm
      BY <1>1, <2>3, <3>2, PlainSteps, StartAgain, ScanAgain, DeriveAgain, StayAgain, LeaveAgain,
         ConvergedAgain, CopyAgain, SyncedAgain, EndAgain
    <3> QED
      BY <2>3, <3>1, <3>2, CalmBefore
  <2>4. calm' \in Nat
    BY TypeStep DEF TypeOK
  <2> QED
    BY <2>1, <2>2, <2>3, <2>4
<1> QED
  BY <1>2, <1>3 DEF RestInv

(* A sync after an undisturbed one changes nothing when nothing disturbs it, but
   for a message of Telegram that is hidden behind another and sent again. *)
THEOREM SyncsRest == Spec => Idempotent
<1> DEFINE A == calm = 2 /\ calm' = 2 /\ asked \cap {"soft", "hard"} = {} =>
                  \A c \in Copies : cloud'[c] # cloud[c] => c \in Telegram /\ Shadowed
<1>1. TypeOK /\ Unasked /\ RestInv /\ [Next]_vars => [A]_vars
  <2> SUFFICES ASSUME TypeOK, Unasked, RestInv, Next, calm = 2, calm' = 2, Unbidden,
                      NEW c \in Copies, cloud'[c] # cloud[c]
               PROVE  c \in Telegram /\ Shadowed
    BY DEF Unbidden
  <2>1. PICK p \in Providers : CopyTo(p, "ok")
    BY PlainSteps DEF Start, Scan, Derive, Lost, Hard, Load, Converged, Synced, End
  <2>2. pc = "copy" /\ p \in todo
    BY <2>1 DEF CopyTo
  <2>3. p = "telegram" /\ Shadowed
    BY <2>2 DEF RestInv, CalmAgain, Again
  <2>4. c \in Of(p)
    BY <2>1, Copied DEF TypeOK
  <2> QED
    BY <2>3, <2>4 DEF Of
<1>2. Init => TypeOK /\ MirrorInv
  BY MirrorBegins
<1>3. Init => RestInv
  BY DEF Init, RestInv, CalmAgain, InUse, Noted, Rested, Again
<1> QED
  BY <1>1, <1>2, <1>3, TypeStep, UnaskedInit, UnaskedStep, MirrorStep, RestStep, PTL DEF Spec, Idempotent
=============================================================================
