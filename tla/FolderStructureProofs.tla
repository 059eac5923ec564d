------------------------ MODULE FolderStructureProofs ------------------------
(***************************************************************************)
(* What FolderStructure guarantees for any accounts, workers, names, depth *)
(* and bounds.                                                             *)
(***************************************************************************)
EXTENDS FolderStructure, TLAPS, SequenceTheorems

-----------------------------------------------------------------------------
(* Paths *)

LEMMA PathSeq ==
    ASSUME NEW p \in Paths
    PROVE  p \in Seq(Names) /\ Len(p) \in 1..MaxDepth /\ p = [i \in 1..Len(p) |-> p[i]]
  BY FolderAssumption DEF Paths, FolderAssumption

LEMMA SeqPath ==
    ASSUME NEW p \in Seq(Names), Len(p) \in 1..MaxDepth
    PROVE  p \in Paths
  BY FolderAssumption DEF Paths, FolderAssumption

\* The next prefix of a walk is a path, and is what has been done one step on.
LEMMA NextPrefix ==
    ASSUME NEW p \in Paths, NEW d \in Nat, d < Len(p)
    PROVE  /\ SubSeq(p, 1, d) \in Seq(Names)
           /\ Len(SubSeq(p, 1, d)) = d
           /\ p[d+1] \in Names
           /\ Append(SubSeq(p, 1, d), p[d+1]) \in Paths
           /\ Append(SubSeq(p, 1, d), p[d+1]) = SubSeq(p, 1, d+1)
  <1> DEFINE s == SubSeq(p, 1, d)  t == SubSeq(p, 1, d+1)
  <1>1. p \in Seq(Names) /\ Len(p) \in 1..MaxDepth BY PathSeq
  <1>2. s \in Seq(Names) /\ Len(s) = d /\ t \in Seq(Names) /\ Len(t) = d+1
    BY <1>1
  <1>3. p[d+1] \in Names BY <1>1
  <1>4. Append(s, p[d+1]) \in Seq(Names) /\ Len(Append(s, p[d+1])) = d+1
    BY <1>2, <1>3
  <1>5. ASSUME NEW i \in 1..d+1 PROVE Append(s, p[d+1])[i] = t[i]
    BY <1>1, <1>2, <1>3
  <1>6. Append(s, p[d+1]) = t BY <1>2, <1>4, <1>5, SeqEqual
  <1>7. d+1 \in 1..MaxDepth BY <1>1, FolderAssumption DEF FolderAssumption
  <1>8. Append(s, p[d+1]) \in Paths
    <2> HIDE DEF s
    <2> QED BY <1>4, <1>7, SeqPath
  <1> QED BY <1>2, <1>3, <1>6, <1>8

LEMMA WholePath ==
    ASSUME NEW p \in Paths PROVE SubSeq(p, 1, Len(p)) = p /\ SubSeq(p, 1, 0) = <<>>
  <1>1. p \in Seq(Names) /\ Len(p) \in Nat BY PathSeq
  <1>2. SubSeq(p, 1, Len(p)) = p
    BY <1>1, SeqEqual
  <1> QED BY <1>1, <1>2

-----------------------------------------------------------------------------
(* Type correctness *)

LEMMA NewIdFresh == ASSUME TypeOK, UsedIds # Ids
                    PROVE  NewId \in Ids /\ NewId \notin UsedIds
  <1>1. UsedIds \subseteq Ids
    BY FolderAssumption DEF TypeOK, UsedIds, Roots, Folder, FolderAssumption
  <1>2. \E i \in Ids : i \notin UsedIds BY <1>1
  <1> QED BY <1>2 DEF NewId

LEMMA MadeType ==
    ASSUME TypeOK, NEW i, RoomIn(i), NEW n \in Names,
           NEW who \in {"tool", "lost", "user"}
    PROVE  Made(i, n, who) \in Folder
  <1>1. NewId \in Ids BY NewIdFresh DEF RoomIn
  <1>2. Place(i).root \in Ids /\ Place(i).at \in Seq(Names) /\ i \in Ids
    <2>1. CASE i \in Roots
      BY <2>1, FolderAssumption DEF Place, Roots, FolderAssumption
    <2>2. CASE i \notin Roots
      <3>1. \E g \in created : g.id = i
        BY <2>2 DEF RoomIn, LiveIds, Live
      <3> DEFINE f == CHOOSE g \in created : g.id = i
      <3>2. f \in created /\ f.id = i BY <3>1
      <3>3. f \in Folder BY <3>2 DEF TypeOK
      <3>4. Place(i) = [root |-> f.root, at |-> f.at] BY <2>2 DEF Place
      <3> HIDE DEF f
      <3>5. f.root \in Ids /\ f.at \in Paths /\ f.id \in Ids BY <3>3 DEF Folder
      <3> QED BY <3>2, <3>4, <3>5, PathSeq
    <2> QED BY <2>1, <2>2
  <1>3. Append(Place(i).at, n) \in Paths
    <2>1. Append(Place(i).at, n) \in Seq(Names) BY <1>2
    <2>2. Len(Append(Place(i).at, n)) \in 1..MaxDepth
      BY <1>2, FolderAssumption DEF RoomIn, FolderAssumption
    <2> QED BY <2>1, <2>2, SeqPath
  <1> QED BY <1>1, <1>2, <1>3 DEF Made, Folder

\* A walk that has a part left to resolve.
LEMMA WalkingFacts ==
    ASSUME TypeOK, NEW w \in Workers, call[w].pc \in {"walk", "create", "use"}
    PROVE  LET c == call[w] IN
           /\ c.acct \in Accounts /\ c.path \in Paths /\ c.depth \in 0..MaxDepth
           /\ c.cur \in Ids /\ c.retried \in BOOLEAN
           /\ c = [pc |-> c.pc, acct |-> c.acct, path |-> c.path,
                   depth |-> c.depth, cur |-> c.cur, retried |-> c.retried]
           /\ c.pc = "create" => c.depth < Len(c.path)
           /\ c.depth < Len(c.path) =>
                /\ Done(c) \in Seq(Names) /\ Len(Done(c)) = c.depth
                /\ Part(c) \in Names /\ NextPath(c) \in Paths
                /\ NextPath(c) = SubSeq(c.path, 1, c.depth + 1)
                /\ c.depth + 1 \in 0..MaxDepth
  <1> DEFINE c == call[w]
  <1>1. /\ c \in [pc : {"walk", "create", "use"}, acct : Accounts, path : Paths,
                  depth : 0..MaxDepth, cur : Ids, retried : BOOLEAN]
        /\ c.pc = "create" => c.depth < Len(c.path)
    BY DEF TypeOK, Call, NoCall
  <1> HIDE DEF c
  <1>2. c.path \in Paths /\ c.depth \in Nat BY <1>1, FolderAssumption DEF FolderAssumption
  <1>3. ASSUME c.depth < Len(c.path)
        PROVE /\ Done(c) \in Seq(Names) /\ Len(Done(c)) = c.depth
              /\ Part(c) \in Names /\ NextPath(c) \in Paths
              /\ NextPath(c) = SubSeq(c.path, 1, c.depth + 1)
    BY <1>2, <1>3, NextPrefix DEF Done, Part, NextPath
  <1>4. Len(c.path) \in 1..MaxDepth BY <1>2, PathSeq
  <1>5. c.depth < Len(c.path) => c.depth + 1 \in 0..MaxDepth
    BY <1>2, <1>4, FolderAssumption DEF FolderAssumption
  <1> QED BY <1>1, <1>3, <1>5 DEF c

\* A call keeps its type whatever phase, depth and folder it gets.
LEMMA AtType ==
    ASSUME NEW c, c.acct \in Accounts, c.path \in Paths, c.retried \in BOOLEAN,
           NEW pc \in {"walk", "create", "use"}, NEW d \in 0..MaxDepth,
           NEW i \in Ids, pc = "create" => d < Len(c.path)
    PROVE  At(c, pc, d, i) \in Call
  BY DEF At, Call

LEMMA LockingFacts ==
    ASSUME TypeOK, NEW w \in Workers, call[w].pc = "lock"
    PROVE  LET c == call[w] IN
           /\ c.acct \in Accounts /\ c.path \in Paths /\ c.depth = 0
           /\ c.retried \in BOOLEAN
           /\ c = [pc |-> "lock", acct |-> c.acct, path |-> c.path,
                   depth |-> 0, cur |-> None, retried |-> c.retried]
  BY DEF TypeOK, Call, NoCall

LEMMA EnteredType ==
    ASSUME NEW a \in Accounts, NEW p \in Paths, NEW r \in BOOLEAN,
           NEW cache \in [Paths -> Ids \cup {None}]
    PROVE  Entered(a, p, cache, r) \in Call
  BY FolderAssumption DEF Entered, Call, FolderAssumption

\* The path cache of an account after a listing.
LEMMA SiblingsType ==
    ASSUME NEW cache \in [Paths -> Ids \cup {None}], NEW pp,
           NEW S \in SUBSET Folder
    PROVE  /\ WithSiblings(cache, pp, S) \in [Paths -> Ids \cup {None}]
           /\ \A p \in Paths :
                \/ WithSiblings(cache, pp, S)[p] = cache[p]
                \/ \E f \in S : /\ p = Append(pp, NameOf(f))
                                /\ WithSiblings(cache, pp, S)[p] = f.id
  <1> DEFINE new == WithSiblings(cache, pp, S)
  <1>1. ASSUME NEW p \in Paths,
               \E f \in S : p = Append(pp, NameOf(f))
        PROVE \E f \in S : p = Append(pp, NameOf(f)) /\ new[p] = f.id
    <2> DEFINE g == CHOOSE f \in S : p = Append(pp, NameOf(f))
    <2>1. g \in S /\ p = Append(pp, NameOf(g)) BY <1>1
    <2>2. new[p] = g.id BY <1>1 DEF WithSiblings
    <2> HIDE DEF g
    <2> QED BY <2>1, <2>2
  <1>2. ASSUME NEW p \in Paths,
               ~ \E f \in S : p = Append(pp, NameOf(f))
        PROVE new[p] = cache[p]
    BY <1>2 DEF WithSiblings
  <1>3. \A f \in S : f.id \in Ids BY DEF Folder
  <1>4. new = [p \in Paths |-> new[p]] BY DEF WithSiblings
  <1> HIDE DEF new
  <1>5. \A p \in Paths : new[p] \in Ids \cup {None} BY <1>1, <1>2, <1>3
  <1>6. new \in [Paths -> Ids \cup {None}] BY <1>4, <1>5
  <1> QED BY <1>1, <1>2, <1>6 DEF new

LEMMA SiblingCached ==
    ASSUME NEW cache \in [Paths -> Ids \cup {None}], NEW pp,
           NEW S \in SUBSET Folder, NEW f \in S, NEW p \in Paths,
           p = Append(pp, NameOf(f))
    PROVE  WithSiblings(cache, pp, S)[p] # None
  <1> DEFINE g == CHOOSE h \in S : p = Append(pp, NameOf(h))
  <1>1. g \in S OBVIOUS
  <1>2. WithSiblings(cache, pp, S)[p] = g.id BY DEF WithSiblings
  <1> HIDE DEF g
  <1> QED BY <1>1, <1>2, FolderAssumption DEF Folder, FolderAssumption

LEMMA TypeStep == TypeOK /\ [Next]_vars => TypeOK'
  <1> SUFFICES ASSUME TypeOK, [Next]_vars PROVE TypeOK'
    OBVIOUS
  <1> USE DEF provider, caches
  <1>1. ASSUME NEW w \in Workers, Ask(w) PROVE TypeOK'
    <2>1. PICK a \in Accounts, p \in Targets :
            call' = [call EXCEPT ![w] = Entered(a, p, pathCache[a], FALSE)]
      BY <1>1 DEF Ask
    <2>2. Entered(a, p, pathCache[a], FALSE) \in Call
      BY EnteredType, FolderAssumption DEF TypeOK, FolderAssumption
    <2> QED BY <1>1, <2>1, <2>2 DEF Ask, TypeOK
  <1>2. ASSUME NEW w \in Workers, LockAndHit(w) PROVE TypeOK'
    <2> DEFINE e == Entered(call[w].acct, call[w].path,
                            pathCache[call[w].acct], call[w].retried)
    <2>1. e \in Call
      BY <1>2, LockingFacts, EnteredType DEF LockAndHit, TypeOK
    <2>2. call' = [call EXCEPT ![w] = e] BY <1>2 DEF LockAndHit
    <2> HIDE DEF e
    <2> QED BY <1>2, <2>1, <2>2 DEF LockAndHit, TypeOK
  <1>3. ASSUME NEW w \in Workers, LockAndWalk(w) PROVE TypeOK'
    <2> DEFINE c == call[w]  e == At(c, "walk", 0, SyncFolder[c.acct])
    <2>1. /\ c.acct \in Accounts /\ c.path \in Paths /\ c.retried \in BOOLEAN
      BY <1>3, LockingFacts DEF LockAndWalk
    <2>2. SyncFolder[c.acct] \in Ids /\ 0 \in 0..MaxDepth
      BY <2>1, FolderAssumption DEF FolderAssumption
    <2>3. e \in Call BY <2>1, <2>2, AtType
    <2>4. call' = [call EXCEPT ![w] = e] BY <1>3 DEF LockAndWalk
    <2> HIDE DEF e
    <2> QED BY <1>3, <2>1, <2>3, <2>4 DEF LockAndWalk, TypeOK
  <1>4. ASSUME NEW w \in Workers, FollowCache(w) PROVE TypeOK'
    <2> DEFINE c == call[w]  i == pathCache[c.acct][NextPath(c)]
    <2>1. i \in Ids
      BY <1>4, WalkingFacts DEF FollowCache, Walking, TypeOK
    <2>2. /\ At(c, "walk", c.depth + 1, i) \in Call
          /\ call' = [call EXCEPT ![w] = At(c, "walk", c.depth + 1, i)]
      BY <1>4, <2>1, WalkingFacts, AtType DEF FollowCache, Walking
    <2> QED BY <1>4, <2>2 DEF FollowCache, TypeOK
  <1>5. ASSUME NEW w \in Workers, ListSiblings(w) PROVE TypeOK'
    <2> DEFINE c == call[w]  a == c.acct
               entries == IF c.cur \in listed[a]
                          THEN {f \in known[a] : f.parent = c.cur}
                          ELSE LiveChildren(c.cur)
               found == pathCache'[a][NextPath(c)]
    <2>1. /\ c.acct \in Accounts /\ c.cur \in Ids /\ NextPath(c) \in Paths
          /\ c.depth + 1 \in 0..MaxDepth /\ c.pc = "walk"
      BY <1>5, WalkingFacts DEF ListSiblings, Walking
    <2>2. entries \subseteq Folder
      BY <2>1 DEF TypeOK, LiveChildren, Live
    <2>3. PICK S \in OnePerName(entries) :
            pathCache' = [pathCache EXCEPT ![a] = WithSiblings(@, Done(c), S)]
      BY <1>5 DEF ListSiblings
    <2>4. S \in SUBSET Folder BY <2>2, <2>3 DEF OnePerName
    <2>5. pathCache[a] \in [Paths -> Ids \cup {None}] BY <2>1 DEF TypeOK
    <2>6. WithSiblings(pathCache[a], Done(c), S) \in [Paths -> Ids \cup {None}]
      BY <2>4, <2>5, SiblingsType
    <2>7. pathCache' \in [Accounts -> [Paths -> Ids \cup {None}]]
      BY <2>1, <2>3, <2>6 DEF TypeOK
    <2>8. known' \in [Accounts -> SUBSET Folder]
      BY <1>5, <2>1, <2>2 DEF ListSiblings, TypeOK
    <2>9. found \in Ids \cup {None} BY <2>1, <2>7
    <2>10. listed' \in [Accounts -> SUBSET Ids]
      BY <1>5, <2>1 DEF ListSiblings, TypeOK
    <2>11. CASE found = None
      <3>3. call' = [call EXCEPT ![w] = At(c, "create", c.depth, c.cur)] /\ rows' = rows
        BY <1>5, <2>11 DEF ListSiblings
      <3>4. call' \in [Workers -> Call \cup {NoCall}]
        BY <1>5, <3>3, WalkingFacts, AtType DEF ListSiblings, Walking, TypeOK
      <3>5. UNCHANGED <<created, deleted, lock, events>> BY <1>5 DEF ListSiblings
      <3> QED BY <3>3, <3>4, <3>5, <2>7, <2>8, <2>10 DEF TypeOK
    <2>12. CASE found # None
      <3>3. /\ call' = [call EXCEPT ![w] = At(c, "walk", c.depth + 1, found)]
            /\ rows' = [rows EXCEPT ![a][NextPath(c)] = @ \cup {found}]
        BY <1>5, <2>12 DEF ListSiblings
      <3>4. call' \in [Workers -> Call \cup {NoCall}]
        <4> HIDE DEF found
        <4> QED BY <1>5, <3>3, <2>9, <2>12, WalkingFacts, AtType
                DEF ListSiblings, Walking, TypeOK
      <3>5. rows' \in [Accounts -> [Paths -> SUBSET Ids]]
        BY <3>3, <2>9, <2>12, <2>1 DEF TypeOK
      <3>6. UNCHANGED <<created, deleted, lock, events>> BY <1>5 DEF ListSiblings
      <3> QED BY <3>4, <3>5, <3>6, <2>7, <2>8, <2>10 DEF TypeOK
    <2> QED BY <2>11, <2>12
  <1>6. ASSUME NEW w \in Workers, ListFails(w) PROVE TypeOK'
    BY <1>6 DEF ListFails, Fail, TypeOK
  <1>7. ASSUME NEW w \in Workers, CreateFolder(w) PROVE TypeOK'
    <2> DEFINE c == call[w]  a == c.acct  f == Made(c.cur, Part(c), "tool")
    <2>1. /\ c.pc = "create" /\ RoomIn(c.cur) /\ c.acct \in Accounts
          /\ c.depth < Len(c.path) /\ Part(c) \in Names /\ NextPath(c) \in Paths
      BY <1>7, WalkingFacts DEF CreateFolder
    <2>2. f \in Folder BY <2>1, MadeType
    <2>3. f.id \in Ids BY <2>2 DEF Folder
    <2>4. /\ created' = created \cup {f}
          /\ known' = [known EXCEPT ![a] =
                          IF c.cur \in listed[a] THEN @ \cup {f} ELSE @]
          /\ rows' = [rows EXCEPT ![a][NextPath(c)] = @ \cup {f.id}]
          /\ pathCache' = [pathCache EXCEPT ![a][NextPath(c)] = f.id]
          /\ call' = [call EXCEPT ![w] = At(c, "walk", c.depth + 1, f.id)]
          /\ UNCHANGED <<deleted, listed, lock, events>>
      BY <1>7 DEF CreateFolder
    <2> HIDE DEF f
    <2>6. call' \in [Workers -> Call \cup {NoCall}]
      BY <2>1, <2>3, <2>4, WalkingFacts, AtType DEF TypeOK
    <2> QED BY <2>1, <2>2, <2>3, <2>4, <2>6 DEF TypeOK
  <1>8. ASSUME NEW w \in Workers, CreateReplyLost(w) PROVE TypeOK'
    <2>1. /\ RoomIn(call[w].cur) /\ Part(call[w]) \in Names
      BY <1>8, WalkingFacts DEF CreateReplyLost
    <2>2. Made(call[w].cur, Part(call[w]), "lost") \in Folder BY <2>1, MadeType
    <2> QED BY <1>8, <2>2 DEF CreateReplyLost, Fail, TypeOK
  <1>9. ASSUME NEW w \in Workers, CreateFails(w) PROVE TypeOK'
    BY <1>9 DEF CreateFails, Fail, TypeOK
  <1>10. ASSUME NEW w \in Workers, Resolve(w) PROVE TypeOK'
    <2> DEFINE c == call[w]
    <2>2. call' \in [Workers -> Call \cup {NoCall}]
      BY <1>10, WalkingFacts, AtType DEF Resolve, TypeOK
    <2>3. pathCache' \in [Accounts -> [Paths -> Ids \cup {None}]]
      BY <1>10, WalkingFacts DEF Resolve, TypeOK
    <2> QED BY <1>10, <2>2, <2>3 DEF Resolve, TypeOK
  <1>11. ASSUME NEW w \in Workers, Use(w) PROVE TypeOK'
    BY <1>11 DEF Use, TypeOK
  <1>12. ASSUME NEW w \in Workers, InvalidateAndRetry(w) PROVE TypeOK'
    <2> DEFINE c == call[w]
               cleared == [p \in Paths |->
                      IF \E n \in 1..Len(c.path) : p = SubSeq(c.path, 1, n)
                      THEN None ELSE pathCache[c.acct][p]]
               e == Entered(c.acct, c.path, cleared, TRUE)
    <2>1. c.acct \in Accounts /\ c.path \in Paths
      BY <1>12, WalkingFacts DEF InvalidateAndRetry
    <2>2. cleared \in [Paths -> Ids \cup {None}] BY <2>1 DEF TypeOK
    <2>3. /\ pathCache' = [pathCache EXCEPT ![c.acct] = cleared]
          /\ call' = [call EXCEPT ![w] = e]
          /\ UNCHANGED <<created, deleted, listed, known, rows, lock, events>>
      BY <1>12 DEF InvalidateAndRetry
    <2> HIDE DEF cleared
    <2>4. e \in Call BY <2>1, <2>2, EnteredType
    <2> HIDE DEF e
    <2> QED BY <2>1, <2>2, <2>3, <2>4 DEF TypeOK
  <1>13. ASSUME NEW a \in Accounts, Scan(a) PROVE TypeOK'
    <2> DEFINE tree == {f \in Live : f.root = SyncFolder[a]}
               seen == {SyncFolder[a]} \cup {f.id : f \in tree}
               new == [p \in Paths |-> rows[a][p] \cup {f.id : f \in {g \in tree : g.at = p}}]
    <2>1. tree \subseteq Folder /\ seen \subseteq Ids
      BY FolderAssumption DEF TypeOK, Live, Folder, FolderAssumption
    <2>2. \A f \in tree : f.id \in Ids BY <2>1 DEF Folder
    <2>3. rows' = [rows EXCEPT ![a] = new] BY <1>13 DEF Scan, TypeOK
    <2>4. listed' = [listed EXCEPT ![a] = @ \cup seen] BY <1>13 DEF Scan
    <2>5. known' = [known EXCEPT ![a] = {f \in @ : f.parent \notin seen} \cup tree]
      BY <1>13 DEF Scan
    <2> HIDE DEF tree, seen
    <2>6. new \in [Paths -> SUBSET Ids] BY <2>2 DEF TypeOK
    <2> HIDE DEF new
    <2> QED BY <1>13, <2>1, <2>3, <2>4, <2>5, <2>6 DEF Scan, TypeOK
  <1>14. ASSUME UserDeletes PROVE TypeOK'
    BY <1>14 DEF UserDeletes, Event, TypeOK, Live, Folder
  <1>15. ASSUME UserCreates PROVE TypeOK'
    <2>1. PICK i \in LiveIds, n \in Names :
            RoomIn(i) /\ created' = created \cup {Made(i, n, "user")}
      BY <1>15 DEF UserCreates
    <2>2. Made(i, n, "user") \in Folder BY <2>1, MadeType
    <2> QED BY <1>15, <2>1, <2>2 DEF UserCreates, Event, TypeOK
  <1>16. ASSUME Restart PROVE TypeOK'
    <2>1. PICK pick \in [Recorded -> Ids] :
            pathCache' = [a \in Accounts |-> [p \in Paths |->
               IF <<a, p>> \in Recorded THEN pick[<<a, p>>] ELSE None]]
      BY <1>16 DEF Restart
    <2>2. pathCache' \in [Accounts -> [Paths -> Ids \cup {None}]] BY <2>1
    <2> QED BY <1>16, <2>2 DEF Restart, Event, TypeOK
  <1>17. CASE UNCHANGED vars
    BY <1>17 DEF vars, TypeOK
  <1> QED
    BY <1>1, <1>2, <1>3, <1>4, <1>5, <1>6, <1>7, <1>8, <1>9, <1>10, <1>11,
       <1>12, <1>13, <1>14, <1>15, <1>16, <1>17 DEF Next, Worker

LEMMA TypeInit == Init => TypeOK
  BY FolderAssumption DEF Init, TypeOK, FolderAssumption

\* In every reachable state every variable has its type; in particular the
\* caches and rows only ever hold provider ids, and a call that is about to
\* create a folder has a part of its path left to create.
THEOREM TypeCorrect == Spec => []TypeOK
  <1>1. Init => TypeOK BY TypeInit
  <1>2. TypeOK /\ [Next]_vars => TypeOK' BY TypeStep
  <1> QED BY <1>1, <1>2, PTL DEF Spec

-----------------------------------------------------------------------------
(* Where folders lie *)

LEMMA LiesUnique ==
    ASSUME UniqueIds, NEW i, NEW r, NEW p, NEW r2, NEW p2,
           LiesAt(i, r, p), LiesAt(i, r2, p2)
    PROVE  r = r2 /\ p = p2
  BY DEF UniqueIds, LiesAt

LEMMA LiesMono ==
    ASSUME created \subseteq created', NEW i, NEW r, NEW p, LiesAt(i, r, p)
    PROVE  LiesAt(i, r, p)'
  BY DEF LiesAt

LEMMA PlaceLies ==
    ASSUME NEW i \in UsedIds PROVE LiesAt(i, Place(i).root, Place(i).at)
  <1>1. CASE i \in Roots BY <1>1 DEF Place, LiesAt
  <1>2. CASE i \notin Roots
    <2> DEFINE f == CHOOSE g \in created : g.id = i
    <2>1. f \in created /\ f.id = i BY <1>2 DEF UsedIds
    <2>2. Place(i) = [root |-> f.root, at |-> f.at] BY <1>2 DEF Place
    <2> HIDE DEF f
    <2> QED BY <2>1, <2>2 DEF LiesAt
  <1> QED BY <1>1, <1>2

\* The folder added inside i lies below i, under a fresh id.
LEMMA MadeLies ==
    ASSUME TypeOK, UniqueIds, TreeShape, NEW i, RoomIn(i), NEW n \in Names,
           NEW who \in {"tool", "lost", "user"}, NEW r, NEW p, LiesAt(i, r, p),
           NEW f, f = Made(i, n, who), created' = created \cup {f}
    PROVE  /\ UniqueIds' /\ TreeShape'
           /\ f.parent = i /\ f.root = r /\ f.at = Append(p, n)
           /\ f.id \in Ids /\ f.id \notin UsedIds /\ f.by = who
           /\ NameOf(f) = n
           /\ LiesAt(f.id, r, Append(p, n))'
  <1>1. NewId \in Ids /\ NewId \notin UsedIds BY NewIdFresh DEF RoomIn
  <1>2. f.id = NewId /\ f.parent = i /\ f.by = who BY DEF Made
  <1>3. i \in UsedIds BY DEF RoomIn, LiveIds, UsedIds, Live
  <1>4. Place(i).root = r /\ Place(i).at = p BY <1>3, PlaceLies, LiesUnique
  <1>5. f.root = r /\ f.at = Append(p, n) BY <1>4 DEF Made
  <1>6. f \in Folder BY MadeType
  <1>7. p \in Seq(Names)
    <2>1. CASE i \in Roots /\ p = <<>> BY <2>1
    <2>2. CASE \E g \in created : g.at = p
      BY <2>2, PathSeq DEF TypeOK, Folder
    <2> QED BY <2>1, <2>2 DEF LiesAt
  <1>8. NameOf(f) = n /\ ParentAt(f) = p
    <2>1. f.at = Append(p, n) /\ Len(f.at) = Len(p) + 1 BY <1>5, <1>7
    <2>2. SubSeq(Append(p, n), 1, Len(p)) = p
      BY <1>7, SeqEqual
    <2>3. Len(f.at) - 1 = Len(p) BY <2>1, <1>7
    <2>4. f.at[Len(f.at)] = n BY <2>1, <1>7
    <2> QED BY <2>1, <2>2, <2>3, <2>4 DEF NameOf, ParentAt
  <1>9. created \subseteq created' OBVIOUS
  <1>10. UniqueIds' BY <1>1, <1>2 DEF UniqueIds, UsedIds
  <1>11. LiesAt(i, r, p)' BY <1>9, LiesMono
  <1>12. TreeShape'
    <2> SUFFICES ASSUME NEW g \in created'
                 PROVE  /\ LiesAt(g.parent, g.root, ParentAt(g))'
                        /\ g.at = Append(ParentAt(g), NameOf(g))
      BY DEF TreeShape, ParentAt, NameOf
    <2>1. CASE g \in created BY <2>1, <1>9, LiesMono DEF TreeShape
    <2>2. CASE g = f BY <2>2, <1>2, <1>5, <1>8, <1>11
    <2> QED BY <2>1, <2>2
  <1>13. LiesAt(f.id, r, Append(p, n))' BY <1>5 DEF LiesAt
  <1> QED BY <1>1, <1>2, <1>5, <1>8, <1>10, <1>12, <1>13

\* A step that moves one call leaves the others where they are.
LEMMA CallMove ==
    ASSUME TypeOK, Positions, NEW w \in Workers, created \subseteq created',
           NEW e, call' = [call EXCEPT ![w] = e],
           e.pc \in {"walk", "create"} => LiesAt(e.cur, SyncFolder[e.acct], Done(e))',
           e.pc = "use" => LiesAt(e.cur, SyncFolder[e.acct], e.path)'
    PROVE  Positions'
  <1> SUFFICES ASSUME NEW v \in Workers, NEW d, d = call'[v]
               PROVE  /\ d.pc \in {"walk", "create"} =>
                            LiesAt(d.cur, SyncFolder[d.acct], Done(d))'
                      /\ d.pc = "use" => LiesAt(d.cur, SyncFolder[d.acct], d.path)'
    BY DEF Positions, Done
  <1>1. CASE v = w BY <1>1 DEF TypeOK
  <1>2. CASE v # w
    <2>1. d = call[v] BY <1>2 DEF TypeOK
    <2>2. d.pc \in {"walk", "create"} => LiesAt(d.cur, SyncFolder[d.acct], Done(d))
      BY <2>1 DEF Positions
    <2>3. d.pc = "use" => LiesAt(d.cur, SyncFolder[d.acct], d.path)
      BY <2>1 DEF Positions
    <2> QED BY <2>2, <2>3, LiesMono
  <1> QED BY <1>1, <1>2

LEMMA CallStays ==
    ASSUME Positions, created \subseteq created', UNCHANGED call
    PROVE  Positions'
  <1> SUFFICES ASSUME NEW v \in Workers, NEW d, d = call[v]
               PROVE  /\ d.pc \in {"walk", "create"} =>
                            LiesAt(d.cur, SyncFolder[d.acct], Done(d))'
                      /\ d.pc = "use" => LiesAt(d.cur, SyncFolder[d.acct], d.path)'
    BY DEF Positions, Done
  <1> QED BY LiesMono DEF Positions

LEMMA CacheMove ==
    ASSUME TypeOK, CacheSound, created \subseteq created', NEW a \in Accounts,
           NEW new, pathCache' = [pathCache EXCEPT ![a] = new],
           \A p \in Paths : new[p] # None => LiesAt(new[p], SyncFolder[a], p)'
    PROVE  CacheSound'
  <1> SUFFICES ASSUME NEW b \in Accounts, NEW p \in Paths, NEW i,
                      i = pathCache'[b][p], i # None
               PROVE  LiesAt(i, SyncFolder[b], p)'
    BY DEF CacheSound
  <1>1. CASE b = a BY <1>1 DEF TypeOK
  <1>2. CASE b # a BY <1>2, LiesMono DEF TypeOK, CacheSound
  <1> QED BY <1>1, <1>2

LEMMA CacheStays ==
    ASSUME CacheSound, created \subseteq created', UNCHANGED pathCache
    PROVE  CacheSound'
  <1> SUFFICES ASSUME NEW b \in Accounts, NEW p \in Paths, NEW i,
                      i = pathCache[b][p], i # None
               PROVE  LiesAt(i, SyncFolder[b], p)'
    BY DEF CacheSound
  <1> QED BY LiesMono DEF CacheSound

LEMMA RowAdded ==
    ASSUME TypeOK, RowsSound, created \subseteq created', NEW a \in Accounts,
           NEW p \in Paths, NEW i, LiesAt(i, SyncFolder[a], p)',
           rows' = [rows EXCEPT ![a][p] = @ \cup {i}]
    PROVE  RowsSound'
  <1> SUFFICES ASSUME NEW b \in Accounts, NEW q \in Paths, NEW j,
                      j \in rows'[b][q]
               PROVE  LiesAt(j, SyncFolder[b], q)'
    BY DEF RowsSound
  <1>1. j \in rows[b][q] \/ (b = a /\ q = p /\ j = i) BY DEF TypeOK
  <1> QED BY <1>1, LiesMono DEF RowsSound

LEMMA RowsStay ==
    ASSUME RowsSound, created \subseteq created', UNCHANGED rows
    PROVE  RowsSound'
  BY LiesMono DEF RowsSound

\* A step that makes no folder.
LEMMA TreeStays ==
    ASSUME UniqueIds, TreeShape, UNCHANGED created
    PROVE  /\ UniqueIds' /\ TreeShape' /\ created \subseteq created'
           /\ \A i, r, p : LiesAt(i, r, p) <=> LiesAt(i, r, p)'
  <1>1. \A i, r, p : LiesAt(i, r, p) <=> LiesAt(i, r, p)' BY DEF LiesAt
  <1>2. TreeShape'
    <2> SUFFICES ASSUME NEW g \in created
                 PROVE  /\ LiesAt(g.parent, g.root, ParentAt(g))'
                        /\ g.at = Append(ParentAt(g), NameOf(g))
      BY DEF TreeShape, ParentAt, NameOf
    <2> QED BY <1>1 DEF TreeShape
  <1> QED BY <1>1, <1>2 DEF UniqueIds

\* What a walk caches from a listing of the folder it stands in lies below it.
LEMMA EntriesLie ==
    ASSUME TypeOK, UniqueIds, TreeShape, KnownSound, NEW a \in Accounts, NEW i,
           NEW r, NEW p, LiesAt(i, r, p), NEW f,
           f \in known[a] \cup Live, f.parent = i
    PROVE  f \in created /\ f.root = r /\ f.at = Append(p, NameOf(f))
  <1>1. f \in created BY DEF KnownSound, Live
  <1>2. LiesAt(i, f.root, ParentAt(f)) /\ f.at = Append(ParentAt(f), NameOf(f))
    BY <1>1 DEF TreeShape
  <1>3. f.root = r /\ ParentAt(f) = p BY <1>2, LiesUnique
  <1> QED BY <1>1, <1>2, <1>3

LEMMA EnteredLies ==
    ASSUME TypeOK, NEW a \in Accounts, NEW p \in Paths, NEW r \in BOOLEAN,
           NEW cache, NEW e, e = Entered(a, p, cache, r),
           cache[p] # None => LiesAt(cache[p], SyncFolder[a], p)
    PROVE  /\ e.pc \notin {"walk", "create"} /\ e.acct = a /\ e.path = p
           /\ e.pc = "use" => LiesAt(e.cur, SyncFolder[a], p)
  BY DEF Entered

LEMMA PlaceStep == TypeOK /\ TypeOK' /\ PlaceInv /\ [Next]_vars => PlaceInv'
  <1> SUFFICES ASSUME TypeOK, TypeOK', UniqueIds, TreeShape, CacheSound, RowsSound,
                      KnownSound, Positions, [Next]_vars
               PROVE  PlaceInv'
    BY DEF PlaceInv
  <1> USE DEF provider, caches
  <1>1. ASSUME NEW w \in Workers, Ask(w) PROVE PlaceInv'
    <2>1. PICK a \in Accounts, p \in Targets :
            call' = [call EXCEPT ![w] = Entered(a, p, pathCache[a], FALSE)]
      BY <1>1 DEF Ask
    <2>2. PICK e : e = Entered(a, p, pathCache[a], FALSE) OBVIOUS
    <2>3. p \in Paths BY FolderAssumption DEF FolderAssumption
    <2>4. UNCHANGED <<created, known, pathCache, rows>> BY <1>1 DEF Ask
    <2>5. UniqueIds' /\ TreeShape' /\ created \subseteq created' BY <2>4, TreeStays
    <2>6. e.pc = "use" => LiesAt(e.cur, SyncFolder[e.acct], e.path)
      BY <2>2, <2>3 DEF CacheSound, Entered
    <2>7. e.pc \notin {"walk", "create"} BY <2>2 DEF Entered
    <2>8. Positions' BY <2>1, <2>2, <2>4, <2>5, <2>6, <2>7, TreeStays, CallMove
    <2> QED BY <2>4, <2>5, <2>8, CacheStays, RowsStay DEF PlaceInv, KnownSound
  <1>2. ASSUME NEW w \in Workers, LockAndHit(w) PROVE PlaceInv'
    <2>1. PICK c : c = call[w] OBVIOUS
    <2>2. PICK e : e = Entered(c.acct, c.path, pathCache[c.acct], c.retried) OBVIOUS
    <2>3. c.acct \in Accounts /\ c.path \in Paths /\ c.retried \in BOOLEAN
      BY <1>2, <2>1, LockingFacts DEF LockAndHit
    <2>4. UNCHANGED <<created, known, pathCache, rows>> /\ call' = [call EXCEPT ![w] = e]
      BY <1>2, <2>1, <2>2 DEF LockAndHit
    <2>5. UniqueIds' /\ TreeShape' /\ created \subseteq created' BY <2>4, TreeStays
    <2>6. e.pc = "use" => LiesAt(e.cur, SyncFolder[e.acct], e.path)
      BY <2>2, <2>3, EnteredLies DEF CacheSound
    <2>7. e.pc \notin {"walk", "create"} BY <2>2 DEF Entered
    <2>8. Positions' BY <2>4, <2>5, <2>6, <2>7, TreeStays, CallMove
    <2> QED BY <2>4, <2>5, <2>8, CacheStays, RowsStay DEF PlaceInv, KnownSound
  <1>3. ASSUME NEW w \in Workers, LockAndWalk(w) PROVE PlaceInv'
    <2>1. PICK c : c = call[w] OBVIOUS
    <2>2. PICK e : e = At(c, "walk", 0, SyncFolder[c.acct]) OBVIOUS
    <2>3. c.acct \in Accounts /\ c.path \in Paths
      BY <1>3, <2>1, LockingFacts DEF LockAndWalk
    <2>4. UNCHANGED <<created, known, pathCache, rows>> /\ call' = [call EXCEPT ![w] = e]
      BY <1>3, <2>1, <2>2 DEF LockAndWalk
    <2>5. UniqueIds' /\ TreeShape' /\ created \subseteq created' BY <2>4, TreeStays
    <2>6. e.pc = "walk" /\ e.acct = c.acct /\ e.cur = SyncFolder[c.acct] /\ Done(e) = <<>>
      BY <2>2, <2>3, WholePath DEF At, Done
    <2>7. LiesAt(e.cur, SyncFolder[e.acct], Done(e))
      BY <2>3, <2>6 DEF LiesAt, Roots
    <2>8. Positions' BY <2>4, <2>5, <2>6, <2>7, TreeStays, CallMove
    <2> QED BY <2>4, <2>5, <2>8, CacheStays, RowsStay DEF PlaceInv, KnownSound
  <1>4. ASSUME NEW w \in Workers, FollowCache(w) PROVE PlaceInv'
    <2>1. PICK c : c = call[w] OBVIOUS
    <2>2. PICK i : i = pathCache[c.acct][NextPath(c)] OBVIOUS
    <2>3. PICK e : e = At(c, "walk", c.depth + 1, i) OBVIOUS
    <2>4. /\ c.acct \in Accounts /\ NextPath(c) \in Paths
          /\ NextPath(c) = SubSeq(c.path, 1, c.depth + 1)
      BY <1>4, <2>1, WalkingFacts DEF FollowCache, Walking
    <2>5. /\ UNCHANGED <<created, known, pathCache, rows>> /\ i # None
          /\ call' = [call EXCEPT ![w] = e]
      BY <1>4, <2>1, <2>2, <2>3 DEF FollowCache
    <2>6. UniqueIds' /\ TreeShape' /\ created \subseteq created' BY <2>5, TreeStays
    <2>7. LiesAt(i, SyncFolder[c.acct], NextPath(c)) BY <2>2, <2>4, <2>5 DEF CacheSound
    <2>8. e.pc = "walk" /\ e.acct = c.acct /\ e.cur = i /\ Done(e) = NextPath(c)
      BY <2>3, <2>4 DEF At, Done
    <2>9. Positions' BY <2>5, <2>6, <2>7, <2>8, TreeStays, CallMove
    <2> QED BY <2>5, <2>6, <2>9, CacheStays, RowsStay DEF PlaceInv, KnownSound
  <1>5. ASSUME NEW w \in Workers, ListSiblings(w) PROVE PlaceInv'
    <2>1. PICK c, a : c = call[w] /\ a = c.acct OBVIOUS
    <2> DEFINE entries == IF c.cur \in listed[a]
                          THEN {f \in known[a] : f.parent = c.cur}
                          ELSE LiveChildren(c.cur)
    <2>2. /\ a \in Accounts /\ c.cur \in Ids /\ NextPath(c) \in Paths
          /\ NextPath(c) = SubSeq(c.path, 1, c.depth + 1) /\ c.pc = "walk"
      BY <1>5, <2>1, WalkingFacts DEF ListSiblings, Walking
    <2>3. LiesAt(c.cur, SyncFolder[a], Done(c)) BY <2>1, <2>2 DEF Positions
    <2>4. \A f \in entries : /\ f \in created /\ f.root = SyncFolder[a]
                             /\ f.at = Append(Done(c), NameOf(f))
      <3> SUFFICES ASSUME NEW f \in entries
                   PROVE  /\ f \in created /\ f.root = SyncFolder[a]
                          /\ f.at = Append(Done(c), NameOf(f))
        OBVIOUS
      <3>1. f \in known[a] \cup Live /\ f.parent = c.cur BY DEF LiveChildren
      <3> QED BY <3>1, <2>2, <2>3, EntriesLie
    <2>5. PICK S \in OnePerName(entries) :
            pathCache' = [pathCache EXCEPT ![a] = WithSiblings(@, Done(c), S)]
      BY <1>5, <2>1 DEF ListSiblings
    <2>6. S \in SUBSET entries BY <2>5 DEF OnePerName
    <2>7. PICK new : new = WithSiblings(pathCache[a], Done(c), S) OBVIOUS
    <2>8. /\ UNCHANGED created
          /\ known' = [known EXCEPT ![a] = @ \cup entries]
      BY <1>5, <2>1 DEF ListSiblings
    <2>9. /\ UniqueIds' /\ TreeShape' /\ created \subseteq created'
      BY <2>8, TreeStays
    <2>10. \A p \in Paths : new[p] # None => LiesAt(new[p], SyncFolder[a], p)
      <3> SUFFICES ASSUME NEW p \in Paths, new[p] # None
                   PROVE  LiesAt(new[p], SyncFolder[a], p)
        OBVIOUS
      <3>1. S \in SUBSET Folder /\ pathCache[a] \in [Paths -> Ids \cup {None}]
        BY <2>2, <2>4, <2>6 DEF TypeOK
      <3>2. \/ new[p] = pathCache[a][p]
            \/ \E f \in S : p = Append(Done(c), NameOf(f)) /\ new[p] = f.id
        BY <3>1, <2>7, SiblingsType
      <3>3. CASE new[p] = pathCache[a][p] BY <3>3, <2>2 DEF CacheSound
      <3>4. CASE \E f \in S : p = Append(Done(c), NameOf(f)) /\ new[p] = f.id
        <4>1. PICK f \in S : p = Append(Done(c), NameOf(f)) /\ new[p] = f.id BY <3>4
        <4>2. f \in created /\ f.root = SyncFolder[a] /\ f.at = p BY <4>1, <2>4, <2>6
        <4> QED BY <4>1, <4>2 DEF LiesAt
      <3> QED BY <3>2, <3>3, <3>4
    <2>11. pathCache' = [pathCache EXCEPT ![a] = new] BY <2>5, <2>7
    <2>12. CacheSound' BY <2>2, <2>8, <2>9, <2>10, <2>11, TreeStays, CacheMove
    <2>13. KnownSound' BY <2>2, <2>4, <2>8 DEF KnownSound, TypeOK
    <2>14. PICK found : found = pathCache'[a][NextPath(c)] OBVIOUS
    <2>15. CASE found = None
      <3>1. PICK e : e = At(c, "create", c.depth, c.cur) OBVIOUS
      <3>2. call' = [call EXCEPT ![w] = e] /\ rows' = rows
        BY <1>5, <2>1, <2>14, <2>15, <3>1 DEF ListSiblings
      <3>3. e.pc = "create" /\ e.acct = a /\ e.cur = c.cur /\ Done(e) = Done(c)
        BY <2>1, <3>1 DEF At, Done
      <3>4. LiesAt(e.cur, SyncFolder[e.acct], Done(e))' BY <3>3, <2>3, <2>9, LiesMono
      <3>5. Positions' BY <3>2, <3>3, <3>4, <2>9, CallMove
      <3>6. RowsSound' BY <3>2, <2>9, RowsStay
      <3> QED BY <3>5, <3>6, <2>9, <2>12, <2>13 DEF PlaceInv
    <2>16. CASE found # None
      <3>1. PICK e : e = At(c, "walk", c.depth + 1, found) OBVIOUS
      <3>2. /\ call' = [call EXCEPT ![w] = e]
            /\ rows' = [rows EXCEPT ![a][NextPath(c)] = @ \cup {found}]
        BY <1>5, <2>1, <2>14, <2>16, <3>1 DEF ListSiblings
      <3>3. e.pc = "walk" /\ e.acct = a /\ e.cur = found /\ Done(e) = NextPath(c)
        BY <2>1, <2>2, <3>1 DEF At, Done
      <3>4. LiesAt(found, SyncFolder[a], NextPath(c))'
        BY <2>2, <2>12, <2>14, <2>16 DEF CacheSound
      <3>5. Positions' BY <3>2, <3>3, <3>4, <2>9, CallMove
      <3>6. PICK q : q = NextPath(c) OBVIOUS
      <3>7. RowsSound' BY <3>2, <3>4, <3>6, <2>2, <2>9, RowAdded
      <3> QED BY <3>5, <3>7, <2>9, <2>12, <2>13 DEF PlaceInv
    <2> QED BY <2>15, <2>16
  <1>6. ASSUME NEW w \in Workers, ListFails(w) \/ CreateFails(w) \/ Use(w)
        PROVE  PlaceInv'
    <2>1. PICK e : e = NoCall OBVIOUS
    <2>2. call' = [call EXCEPT ![w] = e] /\ UNCHANGED <<created, known, pathCache, rows>>
      BY <1>6, <2>1 DEF ListFails, CreateFails, Use, Fail
    <2>3. UniqueIds' /\ TreeShape' /\ created \subseteq created' BY <2>2, TreeStays
    <2>4. Positions' BY <2>1, <2>2, <2>3, CallMove DEF NoCall
    <2> QED BY <2>2, <2>3, <2>4, CacheStays, RowsStay DEF PlaceInv, KnownSound
  <1>7. ASSUME NEW w \in Workers, CreateFolder(w) PROVE PlaceInv'
    <2>1. PICK c, a, f, q : /\ c = call[w] /\ a = c.acct /\ q = NextPath(c)
                            /\ f = Made(c.cur, Part(c), "tool")
      OBVIOUS
    <2>2. PICK e : e = At(c, "walk", c.depth + 1, f.id) OBVIOUS
    <2>3. /\ c.pc = "create" /\ RoomIn(c.cur) /\ a \in Accounts
          /\ Part(c) \in Names /\ q \in Paths
          /\ q = SubSeq(c.path, 1, c.depth + 1) /\ q = Append(Done(c), Part(c))
      BY <1>7, <2>1, WalkingFacts DEF CreateFolder, NextPath
    <2>4. LiesAt(c.cur, SyncFolder[a], Done(c)) BY <2>1, <2>3 DEF Positions
    <2>5. /\ created' = created \cup {f}
          /\ known' = [known EXCEPT ![a] =
                          IF c.cur \in listed[a] THEN @ \cup {f} ELSE @]
          /\ rows' = [rows EXCEPT ![a][q] = @ \cup {f.id}]
          /\ pathCache' = [pathCache EXCEPT ![a][q] = f.id]
          /\ call' = [call EXCEPT ![w] = e]
      BY <1>7, <2>1, <2>2 DEF CreateFolder
    <2>6. /\ UniqueIds' /\ TreeShape' /\ created \subseteq created'
          /\ LiesAt(f.id, SyncFolder[a], q)'
      <3>1. PICK r, d, n : r = SyncFolder[a] /\ d = Done(c) /\ n = Part(c) OBVIOUS
      <3>2. /\ UniqueIds' /\ TreeShape' /\ created \subseteq created'
            /\ LiesAt(f.id, r, Append(d, n))'
        BY <2>1, <2>3, <2>4, <2>5, <3>1, MadeLies
      <3>3. Append(d, n) = q BY <2>3, <3>1
      <3> QED BY <3>1, <3>2, <3>3
    <2>7. PICK new : new = [pathCache[a] EXCEPT ![q] = f.id] OBVIOUS
    <2>8. pathCache' = [pathCache EXCEPT ![a] = new] BY <2>5, <2>7
    <2>9. ASSUME NEW p \in Paths, NEW i, i = new[p], i # None
          PROVE  LiesAt(i, SyncFolder[a], p)'
      <3>1. CASE p = q
        <4>1. i = f.id BY <3>1, <2>9, <2>3, <2>7 DEF TypeOK
        <4> QED BY <3>1, <4>1, <2>6
      <3>2. CASE p # q
        <4>1. i = pathCache[a][p] BY <3>2, <2>9, <2>3, <2>7 DEF TypeOK
        <4>2. LiesAt(i, SyncFolder[a], p) BY <4>1, <2>9, <2>3 DEF CacheSound
        <4> QED BY <4>2, <2>6, LiesMono
      <3> QED BY <3>1, <3>2
    <2>10. CacheSound' BY <2>3, <2>6, <2>8, <2>9, CacheMove
    <2>11. RowsSound' BY <2>3, <2>5, <2>6, RowAdded
    <2>12. KnownSound' BY <2>3, <2>5 DEF KnownSound, TypeOK
    <2>13. e.acct = a /\ e.cur = f.id /\ Done(e) = q /\ e.pc = "walk"
      BY <2>1, <2>2, <2>3 DEF At, Done
    <2>14. Positions' BY <2>5, <2>6, <2>13, CallMove
    <2> QED BY <2>6, <2>10, <2>11, <2>12, <2>14 DEF PlaceInv
  <1>8. ASSUME NEW w \in Workers, CreateReplyLost(w) PROVE PlaceInv'
    <2>1. PICK c, f : c = call[w] /\ f = Made(c.cur, Part(c), "lost") OBVIOUS
    <2>2. c.pc = "create" /\ RoomIn(c.cur) /\ c.acct \in Accounts /\ Part(c) \in Names
      BY <1>8, <2>1, WalkingFacts DEF CreateReplyLost
    <2>3. LiesAt(c.cur, SyncFolder[c.acct], Done(c)) BY <2>1, <2>2 DEF Positions
    <2>4. PICK e : e = NoCall OBVIOUS
    <2>5. /\ created' = created \cup {f} /\ call' = [call EXCEPT ![w] = e]
          /\ UNCHANGED <<known, pathCache, rows>>
      BY <1>8, <2>1, <2>4 DEF CreateReplyLost, Fail
    <2>6. UniqueIds' /\ TreeShape' /\ created \subseteq created'
      BY <2>1, <2>2, <2>3, <2>5, MadeLies
    <2>7. Positions' BY <2>4, <2>5, <2>6, CallMove DEF NoCall
    <2>8. KnownSound' BY <2>5 DEF KnownSound
    <2> QED BY <2>5, <2>6, <2>7, <2>8, CacheStays, RowsStay DEF PlaceInv
  <1>9. ASSUME NEW w \in Workers, Resolve(w) PROVE PlaceInv'
    <2>1. PICK c, a : c = call[w] /\ a = c.acct OBVIOUS
    <2>2. PICK e : e = At(c, "use", c.depth, c.cur) OBVIOUS
    <2>3. a \in Accounts /\ c.path \in Paths /\ c.pc = "walk" /\ c.depth = Len(c.path)
      BY <1>9, <2>1, WalkingFacts DEF Resolve
    <2>4. LiesAt(c.cur, SyncFolder[a], c.path)
      <3>1. Done(c) = c.path BY <2>3, WholePath DEF Done
      <3> QED BY <2>1, <2>3, <3>1 DEF Positions
    <2>5. /\ UNCHANGED <<created, known, rows>> /\ call' = [call EXCEPT ![w] = e]
          /\ pathCache' = [pathCache EXCEPT ![a][c.path] = c.cur]
      BY <1>9, <2>1, <2>2 DEF Resolve
    <2>6. UniqueIds' /\ TreeShape' /\ created \subseteq created' BY <2>5, TreeStays
    <2>7. PICK new : new = [pathCache[a] EXCEPT ![c.path] = c.cur] OBVIOUS
    <2>8. pathCache' = [pathCache EXCEPT ![a] = new] BY <2>5, <2>7
    <2>9. ASSUME NEW p \in Paths, NEW i, i = new[p], i # None
          PROVE  LiesAt(i, SyncFolder[a], p)'
      <3>1. CASE p = c.path
        <4>1. i = c.cur BY <3>1, <2>9, <2>3, <2>7 DEF TypeOK
        <4> QED BY <3>1, <4>1, <2>4, <2>6, LiesMono
      <3>2. CASE p # c.path
        <4>1. i = pathCache[a][p] BY <3>2, <2>9, <2>3, <2>7 DEF TypeOK
        <4>2. LiesAt(i, SyncFolder[a], p) BY <4>1, <2>9, <2>3 DEF CacheSound
        <4> QED BY <4>2, <2>6, LiesMono
      <3> QED BY <3>1, <3>2
    <2>10. CacheSound' BY <2>3, <2>6, <2>8, <2>9, CacheMove
    <2>11. e.acct = a /\ e.path = c.path /\ e.cur = c.cur /\ e.pc = "use"
      BY <2>1, <2>2 DEF At
    <2>12. Positions' BY <2>4, <2>5, <2>6, <2>11, LiesMono, CallMove
    <2> QED BY <2>5, <2>6, <2>10, <2>12, RowsStay DEF PlaceInv, KnownSound
  <1>10. ASSUME NEW w \in Workers, InvalidateAndRetry(w) PROVE PlaceInv'
    <2>1. PICK c, a, cleared :
            /\ c = call[w] /\ a = c.acct
            /\ cleared = [p \in Paths |->
                   IF \E n \in 1..Len(c.path) : p = SubSeq(c.path, 1, n)
                   THEN None ELSE pathCache[a][p]]
      OBVIOUS
    <2>2. PICK e : e = Entered(a, c.path, cleared, TRUE) OBVIOUS
    <2>3. a \in Accounts /\ c.path \in Paths
      BY <1>10, <2>1, WalkingFacts DEF InvalidateAndRetry
    <2>4. /\ UNCHANGED <<created, known, rows>> /\ call' = [call EXCEPT ![w] = e]
          /\ pathCache' = [pathCache EXCEPT ![a] = cleared]
      BY <1>10, <2>1, <2>2 DEF InvalidateAndRetry
    <2>5. UniqueIds' /\ TreeShape' /\ created \subseteq created' BY <2>4, TreeStays
    <2>6. \A p \in Paths : cleared[p] # None => LiesAt(cleared[p], SyncFolder[a], p)
      BY <2>1, <2>3 DEF CacheSound
    <2>7. CacheSound' BY <2>3, <2>4, <2>5, <2>6, TreeStays, CacheMove
    <2>8. /\ e.pc = "use" => LiesAt(e.cur, SyncFolder[e.acct], e.path)
          /\ e.pc \notin {"walk", "create"}
      BY <2>2, <2>3, <2>6 DEF Entered
    <2>9. Positions' BY <2>4, <2>5, <2>8, TreeStays, CallMove
    <2> QED BY <2>4, <2>5, <2>7, <2>9, RowsStay DEF PlaceInv, KnownSound
  <1>11. ASSUME NEW a \in Accounts, Scan(a) PROVE PlaceInv'
    <2>1. PICK tree : tree = {f \in Live : f.root = SyncFolder[a]} OBVIOUS
    <2>2. PICK seen : seen = {SyncFolder[a]} \cup {f.id : f \in tree} OBVIOUS
    <2>3. PICK new : new = [p \in Paths |-> rows[a][p] \cup
                              {f.id : f \in {g \in tree : g.at = p}}]
      OBVIOUS
    <2>4. /\ UNCHANGED <<created, pathCache, call>>
          /\ known' = [known EXCEPT ![a] = {f \in @ : f.parent \notin seen} \cup tree]
      BY <1>11, <2>1, <2>2 DEF Scan
    <2>5. rows' = [rows EXCEPT ![a] = new] BY <1>11, <2>1, <2>3 DEF Scan, TypeOK
    <2>6. UniqueIds' /\ TreeShape' /\ created \subseteq created' BY <2>4, TreeStays
    <2>7. KnownSound' BY <2>1, <2>4 DEF KnownSound, Live, TypeOK
    <2>8. RowsSound'
      <3> SUFFICES ASSUME NEW b \in Accounts, NEW q \in Paths, NEW j,
                          j \in rows'[b][q]
                   PROVE  LiesAt(j, SyncFolder[b], q)'
        BY DEF RowsSound
      <3>1. CASE j \in rows[b][q] BY <3>1, <2>6, LiesMono DEF RowsSound
      <3>2. CASE j \notin rows[b][q]
        <4>1. b = a /\ j \in {f.id : f \in {g \in tree : g.at = q}}
          BY <3>2, <2>3, <2>5 DEF TypeOK
        <4>2. PICK f \in tree : f.at = q /\ j = f.id BY <4>1
        <4>3. LiesAt(j, SyncFolder[b], q) BY <4>1, <4>2, <2>1 DEF LiesAt, Live
        <4> QED BY <4>3, <2>6, LiesMono
      <3> QED BY <3>1, <3>2
    <2> QED BY <2>4, <2>6, <2>7, <2>8, CacheStays, CallStays DEF PlaceInv
  <1>12. ASSUME UserDeletes PROVE PlaceInv'
    <2>1. UNCHANGED <<created, known, pathCache, rows, call>> BY <1>12 DEF UserDeletes
    <2>2. UniqueIds' /\ TreeShape' /\ created \subseteq created' BY <2>1, TreeStays
    <2> QED BY <2>1, <2>2, CacheStays, RowsStay, CallStays DEF PlaceInv, KnownSound
  <1>13. ASSUME UserCreates PROVE PlaceInv'
    <2>1. PICK i \in LiveIds, n \in Names :
            RoomIn(i) /\ created' = created \cup {Made(i, n, "user")}
      BY <1>13 DEF UserCreates
    <2>2. PICK f : f = Made(i, n, "user") OBVIOUS
    <2>3. UNCHANGED <<known, pathCache, rows, call>> BY <1>13 DEF UserCreates
    <2>4. PICK r, p : r = Place(i).root /\ p = Place(i).at OBVIOUS
    <2>5. LiesAt(i, r, p) BY <2>4, PlaceLies DEF LiveIds, UsedIds, Live
    <2>6. UniqueIds' /\ TreeShape' /\ created \subseteq created'
      BY <2>1, <2>2, <2>5, MadeLies
    <2>7. KnownSound' BY <2>3, <2>6 DEF KnownSound
    <2> QED BY <2>3, <2>6, <2>7, CacheStays, RowsStay, CallStays DEF PlaceInv
  <1>14. ASSUME Restart PROVE PlaceInv'
    <2>1. /\ UNCHANGED <<created, rows>> /\ known' = [a \in Accounts |-> {}]
          /\ call' = [w \in Workers |-> NoCall]
      BY <1>14 DEF Restart
    <2>2. UniqueIds' /\ TreeShape' /\ created \subseteq created' BY <2>1, TreeStays
    <2>3. PICK pick \in [Recorded -> Ids] :
            /\ \A k \in Recorded : pick[k] \in rows[k[1]][k[2]]
            /\ pathCache' = [a \in Accounts |-> [p \in Paths |->
                 IF <<a, p>> \in Recorded THEN pick[<<a, p>>] ELSE None]]
      BY <1>14 DEF Restart
    <2>4. ASSUME NEW a \in Accounts, NEW p \in Paths, NEW i,
                 i = pathCache'[a][p], i # None
          PROVE  LiesAt(i, SyncFolder[a], p)'
      <3>1. <<a, p>> \in Recorded /\ i = pick[<<a, p>>] BY <2>3, <2>4
      <3>2. i \in rows[a][p] BY <3>1, <2>3
      <3> QED BY <3>2, <2>1, RowsStay, <2>2 DEF RowsSound
    <2>5. CacheSound' BY <2>4 DEF CacheSound
    <2>6. Positions' BY <2>1 DEF Positions, NoCall
    <2> QED BY <2>1, <2>2, <2>5, <2>6, RowsStay DEF PlaceInv, KnownSound
  <1>15. CASE UNCHANGED vars
    <2>1. UNCHANGED <<created, known, pathCache, rows, call>> BY <1>15 DEF vars
    <2>2. UniqueIds' /\ TreeShape' /\ created \subseteq created' BY <2>1, TreeStays
    <2> QED BY <2>1, <2>2, CacheStays, RowsStay, CallStays DEF PlaceInv, KnownSound
  <1> QED
    BY <1>1, <1>2, <1>3, <1>4, <1>5, <1>6, <1>7, <1>8, <1>9, <1>10, <1>11,
       <1>12, <1>13, <1>14, <1>15 DEF Next, Worker

LEMMA PlaceInit == Init => PlaceInv
  BY DEF Init, PlaceInv, UniqueIds, TreeShape, CacheSound, RowsSound, KnownSound,
         Positions, NoCall

\* Whichever memory answers, the cache of paths, a listing or a row: a folder that
\* ensureFolderStructure returns was made at the path that was asked for, in the
\* sync folder of the account.  This is of users who create and delete folders
\* and do not move them, and the folder may be deleted by then.
THEOREM FolderMadeAtPath == Spec => []ResolvesToPath
  <1>1. Init => TypeOK /\ PlaceInv BY TypeInit, PlaceInit
  <1>2. TypeOK /\ PlaceInv /\ [Next]_vars => TypeOK' /\ PlaceInv'
    BY TypeStep, PlaceStep
  <1>3. PlaceInv => ResolvesToPath BY DEF PlaceInv, Positions, ResolvesToPath
  <1> QED BY <1>1, <1>2, <1>3, PTL DEF Spec

-----------------------------------------------------------------------------
(* Private trees have no duplicates *)

PrivateTrees == \A a, b \in Accounts : SyncFolder[a] = SyncFolder[b] => a = b

DupInv == Mutex /\ KnownComplete /\ CreateReady /\ NoDuplicateFolder

\* No folder of the tool comes to life.
NoNew == \A f \in Live' : f.by = "tool" => f \in Live

LEMMA NoneMade ==
    ASSUME UNCHANGED created, deleted \subseteq deleted' PROVE NoNew
  BY DEF Live, NoNew

LEMMA NoDupStays ==
    ASSUME NoDuplicateFolder, NoNew PROVE NoDuplicateFolder'
  BY DEF NoDuplicateFolder, NameOf, NoNew

\* A step of a worker that neither walks nor creates after it.
LEMMA LeavesWalk ==
    ASSUME TypeOK, DupInv, NEW w \in Workers, NEW e,
           call' = [call EXCEPT ![w] = e], e.pc \notin {"walk", "create"},
           NoNew,
           \/ UNCHANGED lock
           \/ call[w].pc \in {"walk", "create"} /\
                 lock' = [lock EXCEPT ![call[w].acct] = None]
    PROVE  Mutex' /\ CreateReady' /\ NoDuplicateFolder'
  <1>1. NoDuplicateFolder' BY NoDupStays DEF DupInv
  <1>2. Mutex'
    <2> SUFFICES ASSUME NEW v \in Workers, call'[v].pc \in {"walk", "create"}
                 PROVE  lock'[call'[v].acct] = v
      BY DEF Mutex
    <2>1. v # w /\ call'[v] = call[v] BY DEF TypeOK
    <2>2. lock[call[v].acct] = v BY <2>1 DEF DupInv, Mutex
    <2>3. CASE UNCHANGED lock BY <2>1, <2>2, <2>3
    <2>4. CASE call[w].pc \in {"walk", "create"} /\
                 lock' = [lock EXCEPT ![call[w].acct] = None]
      <3>1. lock[call[w].acct] = w BY <2>4 DEF DupInv, Mutex
      <3>2. call[v].acct # call[w].acct BY <3>1, <2>1, <2>2
      <3>3. call[v].acct \in Accounts BY <2>1, WalkingFacts
      <3> QED BY <2>1, <2>2, <2>4, <3>2, <3>3 DEF TypeOK
    <2> QED BY <2>3, <2>4
  <1>3. CreateReady'
    <2> SUFFICES ASSUME NEW v \in Workers, call'[v].pc = "create",
                        NEW f \in Live', f.by = "tool", f.parent = call'[v].cur
                 PROVE  NameOf(f) # Part(call'[v])
      BY DEF CreateReady, NameOf, Part
    <2>1. v # w /\ call'[v] = call[v] BY DEF TypeOK
    <2> QED BY <2>1 DEF DupInv, CreateReady, NoNew
  <1> QED BY <1>1, <1>2, <1>3

LEMMA KnownStays ==
    ASSUME KnownComplete, NoNew, UNCHANGED <<known, listed>>
    PROVE  KnownComplete'
  BY DEF KnownComplete, NoNew

\* A step of a worker that only goes on walking, or starts to under the lock.
LEMMA WalksOn ==
    ASSUME TypeOK, DupInv, NEW w \in Workers, NEW e,
           call' = [call EXCEPT ![w] = e], e.pc = "walk", e.acct = call[w].acct,
           e.acct \in Accounts, NoNew,
           \/ call[w].pc \in {"walk", "create"} /\ UNCHANGED lock
           \/ lock[e.acct] = None /\ lock' = [lock EXCEPT ![e.acct] = w]
    PROVE  Mutex' /\ CreateReady' /\ NoDuplicateFolder'
  <1>1. NoDuplicateFolder' BY NoDupStays DEF DupInv
  <1>2. Mutex'
    <2> SUFFICES ASSUME NEW v \in Workers, call'[v].pc \in {"walk", "create"}
                 PROVE  lock'[call'[v].acct] = v
      BY DEF Mutex
    <2>1. CASE v = w
      <3>1. call'[v].acct = e.acct BY <2>1 DEF TypeOK
      <3>2. CASE UNCHANGED lock /\ call[w].pc \in {"walk", "create"}
        BY <3>1, <3>2, <2>1 DEF DupInv, Mutex
      <3>3. CASE lock' = [lock EXCEPT ![e.acct] = w] BY <3>1, <3>3, <2>1 DEF TypeOK
      <3> QED BY <3>2, <3>3
    <2>2. CASE v # w
      <3>1. call'[v] = call[v] BY <2>2 DEF TypeOK
      <3>2. lock[call[v].acct] = v BY <3>1 DEF DupInv, Mutex
      <3>3. v # None BY FolderAssumption DEF FolderAssumption
      <3>4. call[v].acct \in Accounts BY <3>1, WalkingFacts
      <3> QED BY <3>1, <3>2, <3>3, <3>4 DEF TypeOK
    <2> QED BY <2>1, <2>2
  <1>3. CreateReady'
    <2> SUFFICES ASSUME NEW v \in Workers, call'[v].pc = "create",
                        NEW f \in Live', f.by = "tool", f.parent = call'[v].cur
                 PROVE  NameOf(f) # Part(call'[v])
      BY DEF CreateReady, NameOf, Part
    <2>1. v # w /\ call'[v] = call[v] BY DEF TypeOK
    <2> QED BY <2>1 DEF DupInv, CreateReady, NoNew
  <1> QED BY <1>1, <1>2, <1>3

LEMMA DupCallsStay ==
    ASSUME DupInv, NoNew, UNCHANGED <<call, lock>>
    PROVE  Mutex' /\ CreateReady' /\ NoDuplicateFolder'
  <1>1. NoDuplicateFolder' BY NoDupStays DEF DupInv
  <1>2. Mutex' BY DEF DupInv, Mutex
  <1>3. CreateReady' BY DEF DupInv, CreateReady, NoNew, NameOf, Part
  <1> QED BY <1>1, <1>2, <1>3

\* What the holder of an account's lock finds in a listing: all that is there.
LEMMA ListingComplete ==
    ASSUME TypeOK, PlaceInv, DupInv, NEW w \in Workers, call[w].pc = "walk",
           NEW a, a = call[w].acct, NEW i, i = call[w].cur,
           NEW f \in Live, f.by = "tool", f.parent = i
    PROVE  f \in IF i \in listed[a] THEN {g \in known[a] : g.parent = i}
                                   ELSE LiveChildren(i)
  <1>1. a \in Accounts /\ LiesAt(i, SyncFolder[a], Done(call[w]))
    BY WalkingFacts DEF PlaceInv, Positions
  <1>2. f.root = SyncFolder[a] BY <1>1, EntriesLie DEF PlaceInv
  <1> QED BY <1>1, <1>2 DEF DupInv, KnownComplete, LiveChildren

LEMMA DupStep ==
    ASSUME PrivateTrees, TypeOK, TypeOK', PlaceInv, DupInv, [Next]_vars
    PROVE  DupInv'
  <1> USE DEF provider, caches
  <1>1. ASSUME NEW w \in Workers,
               Ask(w) \/ LockAndHit(w) \/ Use(w) \/ InvalidateAndRetry(w)
        PROVE  DupInv'
    <2>1. PICK e : call' = [call EXCEPT ![w] = e] /\ e.pc \notin {"walk", "create"}
      BY <1>1 DEF Ask, LockAndHit, Use, InvalidateAndRetry, Entered, NoCall
    <2>2. UNCHANGED <<created, deleted, known, listed, lock>>
      BY <1>1 DEF Ask, LockAndHit, Use, InvalidateAndRetry
    <2>3. NoNew BY <2>2, NoneMade
    <2>4. KnownComplete' BY <2>2, <2>3, KnownStays DEF DupInv
    <2> QED BY <2>1, <2>2, <2>3, <2>4, LeavesWalk DEF DupInv
  <1>2. ASSUME NEW w \in Workers, LockAndWalk(w) PROVE DupInv'
    <2>1. PICK e : e = At(call[w], "walk", 0, SyncFolder[call[w].acct]) OBVIOUS
    <2>2. /\ UNCHANGED <<created, deleted, known, listed>>
          /\ call' = [call EXCEPT ![w] = e]
          /\ lock[e.acct] = None /\ lock' = [lock EXCEPT ![e.acct] = w]
          /\ e.pc = "walk" /\ e.acct = call[w].acct
      BY <1>2, <2>1 DEF LockAndWalk, At
    <2>3. e.acct \in Accounts BY <1>2, <2>2, LockingFacts DEF LockAndWalk
    <2>4. NoNew BY <2>2, NoneMade
    <2>5. KnownComplete' BY <2>2, <2>4, KnownStays DEF DupInv
    <2> QED BY <2>2, <2>3, <2>4, <2>5, WalksOn DEF DupInv
  <1>3. ASSUME NEW w \in Workers, FollowCache(w) PROVE DupInv'
    <2>1. PICK e : e = At(call[w], "walk", call[w].depth + 1,
                          pathCache[call[w].acct][NextPath(call[w])])
      OBVIOUS
    <2>2. /\ UNCHANGED <<created, deleted, known, listed, lock>>
          /\ call' = [call EXCEPT ![w] = e] /\ call[w].pc = "walk"
          /\ e.pc = "walk" /\ e.acct = call[w].acct
      BY <1>3, <2>1 DEF FollowCache, Walking, At
    <2>3. e.acct \in Accounts BY <2>2, WalkingFacts
    <2>4. NoNew BY <2>2, NoneMade
    <2>5. KnownComplete' BY <2>2, <2>4, KnownStays DEF DupInv
    <2> QED BY <2>2, <2>3, <2>4, <2>5, WalksOn DEF DupInv
  <1>4. ASSUME NEW w \in Workers, ListSiblings(w) PROVE DupInv'
    <2>1. PICK c, a : c = call[w] /\ a = c.acct OBVIOUS
    <2>2. PICK entries : entries = IF c.cur \in listed[a]
                          THEN {f \in known[a] : f.parent = c.cur}
                          ELSE LiveChildren(c.cur)
      OBVIOUS
    <2>3. a \in Accounts /\ c.pc = "walk" /\ NextPath(c) \in Paths
      BY <1>4, <2>1, WalkingFacts DEF ListSiblings, Walking
    <2>4. \A f \in Live : f.by = "tool" /\ f.parent = c.cur => f \in entries
      BY <2>1, <2>2, <2>3, ListingComplete
    <2>5. /\ UNCHANGED <<created, deleted, lock>>
          /\ listed' = [listed EXCEPT ![a] = @ \cup {c.cur}]
          /\ known' = [known EXCEPT ![a] = @ \cup entries]
      BY <1>4, <2>1, <2>2 DEF ListSiblings
    <2>6. NoNew BY <2>5, NoneMade
    <2>7. KnownComplete'
      <3> SUFFICES ASSUME NEW b \in Accounts, NEW f \in Live', f.by = "tool",
                          f.root = SyncFolder[b], f.parent \in listed'[b]
                   PROVE  f \in known'[b]
        BY DEF KnownComplete
      <3>1. f \in Live BY <2>6 DEF NoNew
      <3>2. CASE f.parent \in listed[b]
        <4>1. f \in known[b] BY <3>1, <3>2 DEF DupInv, KnownComplete
        <4> QED BY <4>1, <2>3, <2>5 DEF TypeOK
      <3>3. CASE f.parent \notin listed[b]
        <4>1. b = a /\ f.parent = c.cur BY <3>3, <2>3, <2>5 DEF TypeOK
        <4> QED BY <4>1, <3>1, <2>3, <2>4, <2>5 DEF TypeOK
      <3> QED BY <3>2, <3>3
    <2>8. PICK S \in OnePerName(entries) :
            pathCache' = [pathCache EXCEPT ![a] = WithSiblings(@, Done(c), S)]
      BY <1>4, <2>1, <2>2 DEF ListSiblings
    <2>9. PICK found : found = pathCache'[a][NextPath(c)] OBVIOUS
    <2>10. CASE found # None
      <3>1. PICK e : e = At(c, "walk", c.depth + 1, found) OBVIOUS
      <3>2. call' = [call EXCEPT ![w] = e] /\ e.pc = "walk" /\ e.acct = call[w].acct
        BY <1>4, <2>1, <2>9, <2>10, <3>1 DEF ListSiblings, At
      <3> QED BY <3>2, <2>1, <2>3, <2>5, <2>6, <2>7, WalksOn DEF DupInv
    <2>11. CASE found = None
      <3>1. PICK e : e = At(c, "create", c.depth, c.cur) OBVIOUS
      <3>2. /\ call' = [call EXCEPT ![w] = e] /\ e.acct = c.acct /\ e.cur = c.cur
            /\ Part(e) = Part(c)
        BY <1>4, <2>1, <2>9, <2>11, <3>1 DEF ListSiblings, At, Part
      <3>3. NoDuplicateFolder' BY <2>6, NoDupStays DEF DupInv
      <3>4. Mutex'
        <4> SUFFICES ASSUME NEW v \in Workers, call'[v].pc \in {"walk", "create"}
                     PROVE  lock'[call'[v].acct] = v
          BY DEF Mutex
        <4>1. CASE v = w BY <4>1, <3>2, <2>1, <2>3, <2>5 DEF DupInv, Mutex, TypeOK
        <4>2. CASE v # w BY <4>2, <3>2, <2>5 DEF DupInv, Mutex, TypeOK
        <4> QED BY <4>1, <4>2
      <3>5. \A f \in Live : f.by = "tool" /\ f.parent = c.cur => NameOf(f) # Part(c)
        <4> SUFFICES ASSUME NEW f \in Live, f.by = "tool", f.parent = c.cur,
                            NameOf(f) = Part(c)
                     PROVE  FALSE
          OBVIOUS
        <4>1. PICK g \in S : NameOf(g) = NameOf(f) BY <2>4, <2>8 DEF OnePerName
        <4>2. S \in SUBSET Folder /\ pathCache[a] \in [Paths -> Ids \cup {None}]
          BY <2>2, <2>3, <2>8 DEF OnePerName, TypeOK, LiveChildren, Live
        <4>3. NextPath(c) = Append(Done(c), NameOf(g)) BY <4>1 DEF NextPath
        <4>4. WithSiblings(pathCache[a], Done(c), S)[NextPath(c)] # None
          <5>1. PICK d, cache : d = Done(c) /\ cache = pathCache[a] OBVIOUS
          <5>2. \A h \in S : \A p \in Paths : p = Append(d, NameOf(h)) =>
                  WithSiblings(cache, d, S)[p] # None
            BY <4>2, <5>1, SiblingCached
          <5>3. WithSiblings(cache, d, S)[NextPath(c)] # None
            BY <5>1, <5>2, <4>1, <4>3, <2>3
          <5> QED BY <5>1, <5>3
        <4> QED BY <4>4, <2>3, <2>8, <2>9, <2>11 DEF TypeOK
      <3>6. CreateReady'
        <4> SUFFICES ASSUME NEW v \in Workers, call'[v].pc = "create",
                            NEW f \in Live', f.by = "tool", f.parent = call'[v].cur
                     PROVE  NameOf(f) # Part(call'[v])
          BY DEF CreateReady, NameOf, Part
        <4>1. f \in Live BY <2>6 DEF NoNew
        <4>2. CASE v = w BY <4>1, <4>2, <3>2, <3>5 DEF TypeOK
        <4>3. CASE v # w BY <4>1, <4>3, <3>2 DEF TypeOK, DupInv, CreateReady
        <4> QED BY <4>2, <4>3
      <3> QED BY <3>3, <3>4, <3>6, <2>7 DEF DupInv
    <2> QED BY <2>10, <2>11
  <1>5. ASSUME NEW w \in Workers, ListFails(w) \/ CreateFails(w) PROVE DupInv'
    <2>1. PICK e : e = NoCall OBVIOUS
    <2>2. /\ UNCHANGED <<created, deleted, known, listed>>
          /\ call' = [call EXCEPT ![w] = e] /\ e.pc \notin {"walk", "create"}
          /\ call[w].pc \in {"walk", "create"}
          /\ lock' = [lock EXCEPT ![call[w].acct] = None]
      BY <1>5, <2>1 DEF ListFails, CreateFails, Fail, Walking, NoCall
    <2>3. NoNew BY <2>2, NoneMade
    <2>4. KnownComplete' BY <2>2, <2>3, KnownStays DEF DupInv
    <2> QED BY <2>2, <2>3, <2>4, LeavesWalk DEF DupInv
  <1>6. ASSUME NEW w \in Workers, CreateFolder(w) PROVE DupInv'
    <2>1. PICK c, a, f : /\ c = call[w] /\ a = c.acct
                         /\ f = Made(c.cur, Part(c), "tool")
      OBVIOUS
    <2>2. PICK e : e = At(c, "walk", c.depth + 1, f.id) OBVIOUS
    <2>3. c.pc = "create" /\ RoomIn(c.cur) /\ a \in Accounts /\ Part(c) \in Names
      BY <1>6, <2>1, WalkingFacts DEF CreateFolder
    <2>4. LiesAt(c.cur, SyncFolder[a], Done(c)) BY <2>1, <2>3 DEF PlaceInv, Positions
    <2>5. /\ created' = created \cup {f} /\ UNCHANGED <<deleted, listed, lock>>
          /\ known' = [known EXCEPT ![a] =
                          IF c.cur \in listed[a] THEN @ \cup {f} ELSE @]
          /\ call' = [call EXCEPT ![w] = e]
      BY <1>6, <2>1, <2>2 DEF CreateFolder
    <2>6. /\ f.parent = c.cur /\ f.root = SyncFolder[a] /\ NameOf(f) = Part(c)
          /\ f.by = "tool"
      BY <2>1, <2>3, <2>4, <2>5, MadeLies DEF PlaceInv
    <2>7. Live' \subseteq Live \cup {f} BY <2>5 DEF Live
    <2>8. \A g \in Live : g.by = "tool" /\ g.parent = c.cur => NameOf(g) # Part(c)
      BY <2>1, <2>3 DEF DupInv, CreateReady
    <2>9. NoDuplicateFolder'
      <3> SUFFICES ASSUME NEW g \in Live', NEW h \in Live', g.by = "tool",
                          h.by = "tool", g.parent = h.parent, NameOf(g) = NameOf(h)
                   PROVE  g = h
        BY DEF NoDuplicateFolder, NameOf
      <3>1. CASE g \in Live /\ h \in Live BY <3>1 DEF DupInv, NoDuplicateFolder
      <3>2. CASE g = f \/ h = f BY <3>2, <2>6, <2>7, <2>8
      <3> QED BY <3>1, <3>2, <2>7
    <2>10. KnownComplete'
      <3> SUFFICES ASSUME NEW b \in Accounts, NEW g \in Live', g.by = "tool",
                          g.root = SyncFolder[b], g.parent \in listed'[b]
                   PROVE  g \in known'[b]
        BY DEF KnownComplete
      <3>1. CASE g \in Live
        <4>1. g \in known[b] BY <3>1, <2>5 DEF DupInv, KnownComplete
        <4> QED BY <4>1, <2>3, <2>5 DEF TypeOK
      <3>2. CASE g = f
        <4>1. b = a BY <3>2, <2>3, <2>6 DEF PrivateTrees
        <4> QED BY <4>1, <3>2, <2>3, <2>5, <2>6 DEF TypeOK
      <3> QED BY <3>1, <3>2, <2>7
    <2>11. e.pc = "walk" /\ e.acct = a BY <2>1, <2>2 DEF At
    <2>12. Mutex'
      <3> SUFFICES ASSUME NEW v \in Workers, call'[v].pc \in {"walk", "create"}
                   PROVE  lock'[call'[v].acct] = v
        BY DEF Mutex
      <3>1. CASE v = w BY <3>1, <2>1, <2>3, <2>5, <2>11 DEF DupInv, Mutex, TypeOK
      <3>2. CASE v # w BY <3>2, <2>5 DEF DupInv, Mutex, TypeOK
      <3> QED BY <3>1, <3>2
    <2>13. CreateReady'
      <3> SUFFICES ASSUME NEW v \in Workers, call'[v].pc = "create",
                          NEW g \in Live', g.by = "tool", g.parent = call'[v].cur
                   PROVE  NameOf(g) # Part(call'[v])
        BY DEF CreateReady, NameOf, Part
      <3>1. v # w /\ call'[v] = call[v] BY <2>5, <2>11 DEF TypeOK
      <3>2. CASE g \in Live BY <3>1, <3>2 DEF DupInv, CreateReady
      <3>3. CASE g = f
        <4>1. call[v].cur = c.cur BY <3>1, <3>3, <2>6
        <4>2. call[v].acct \in Accounts /\ LiesAt(c.cur, SyncFolder[call[v].acct], Done(call[v]))
          BY <3>1, <4>1, WalkingFacts DEF PlaceInv, Positions
        <4>3. SyncFolder[call[v].acct] = SyncFolder[a]
          BY <4>2, <2>4, LiesUnique DEF PlaceInv
        <4>4. call[v].acct = a BY <4>2, <4>3, <2>3 DEF PrivateTrees
        <4>5. lock[a] = v /\ lock[a] = w BY <3>1, <4>4, <2>1, <2>3 DEF DupInv, Mutex
        <4> QED BY <4>5, <3>1
      <3> QED BY <3>2, <3>3, <2>7
    <2> QED BY <2>9, <2>10, <2>12, <2>13 DEF DupInv
  <1>7. ASSUME NEW w \in Workers, CreateReplyLost(w) PROVE DupInv'
    <2>1. PICK e : e = NoCall OBVIOUS
    <2>2. /\ created' = created \cup {Made(call[w].cur, Part(call[w]), "lost")}
          /\ UNCHANGED <<deleted, known, listed>>
          /\ call' = [call EXCEPT ![w] = e] /\ e.pc \notin {"walk", "create"}
          /\ call[w].pc \in {"walk", "create"}
          /\ lock' = [lock EXCEPT ![call[w].acct] = None]
      BY <1>7, <2>1 DEF CreateReplyLost, Fail, NoCall
    <2>3. NoNew BY <2>2 DEF NoNew, Live, Made
    <2>4. KnownComplete' BY <2>2, <2>3, KnownStays DEF DupInv
    <2> QED BY <2>2, <2>3, <2>4, LeavesWalk DEF DupInv
  <1>8. ASSUME NEW w \in Workers, Resolve(w) PROVE DupInv'
    <2>1. PICK e : e = At(call[w], "use", call[w].depth, call[w].cur) OBVIOUS
    <2>2. /\ UNCHANGED <<created, deleted, known, listed>>
          /\ call' = [call EXCEPT ![w] = e] /\ e.pc \notin {"walk", "create"}
          /\ call[w].pc \in {"walk", "create"}
          /\ lock' = [lock EXCEPT ![call[w].acct] = None]
      BY <1>8, <2>1 DEF Resolve, At
    <2>3. NoNew BY <2>2, NoneMade
    <2>4. KnownComplete' BY <2>2, <2>3, KnownStays DEF DupInv
    <2> QED BY <2>2, <2>3, <2>4, LeavesWalk DEF DupInv
  <1>9. ASSUME NEW a \in Accounts, Scan(a) PROVE DupInv'
    <2>1. PICK tree : tree = {f \in Live : f.root = SyncFolder[a]} OBVIOUS
    <2>2. PICK seen : seen = {SyncFolder[a]} \cup {f.id : f \in tree} OBVIOUS
    <2>3. /\ UNCHANGED <<created, deleted, call, lock>>
          /\ listed' = [listed EXCEPT ![a] = @ \cup seen]
          /\ known' = [known EXCEPT ![a] = {f \in @ : f.parent \notin seen} \cup tree]
      BY <1>9, <2>1, <2>2 DEF Scan
    <2>4. NoNew BY <2>3, NoneMade
    <2>5. KnownComplete'
      <3> SUFFICES ASSUME NEW b \in Accounts, NEW f \in Live', f.by = "tool",
                          f.root = SyncFolder[b], f.parent \in listed'[b]
                   PROVE  f \in known'[b]
        BY DEF KnownComplete
      <3>1. f \in Live BY <2>4 DEF NoNew
      <3>2. CASE b = a BY <3>1, <3>2, <2>1, <2>3 DEF TypeOK
      <3>3. CASE b # a BY <3>1, <3>3, <2>3 DEF TypeOK, DupInv, KnownComplete
      <3> QED BY <3>2, <3>3
    <2> QED BY <2>3, <2>4, <2>5, DupCallsStay DEF DupInv
  <1>10. ASSUME UserDeletes PROVE DupInv'
    <2>1. UNCHANGED <<created, known, listed, lock, call>> /\ deleted \subseteq deleted'
      BY <1>10 DEF UserDeletes
    <2>2. NoNew BY <2>1, NoneMade
    <2> QED BY <2>1, <2>2, KnownStays, DupCallsStay DEF DupInv
  <1>11. ASSUME UserCreates PROVE DupInv'
    <2>1. PICK i \in LiveIds, n \in Names : created' = created \cup {Made(i, n, "user")}
      BY <1>11 DEF UserCreates
    <2>2. UNCHANGED <<deleted, known, listed, lock, call>> BY <1>11 DEF UserCreates
    <2>3. NoNew BY <2>1, <2>2 DEF NoNew, Live, Made
    <2> QED BY <2>2, <2>3, KnownStays, DupCallsStay DEF DupInv
  <1>12. ASSUME Restart PROVE DupInv'
    <2>1. /\ UNCHANGED <<created, deleted>> /\ listed' = [a \in Accounts |-> {}]
          /\ call' = [w \in Workers |-> NoCall]
      BY <1>12 DEF Restart
    <2>2. NoNew BY <2>1, NoneMade
    <2>3. NoDuplicateFolder' BY <2>2, NoDupStays DEF DupInv
    <2> QED BY <2>1, <2>3 DEF DupInv, Mutex, KnownComplete, CreateReady, NoCall
  <1>13. CASE UNCHANGED vars
    <2>1. UNCHANGED <<created, deleted, known, listed, lock, call>> BY <1>13 DEF vars
    <2>2. NoNew BY <2>1, NoneMade
    <2> QED BY <2>1, <2>2, KnownStays, DupCallsStay DEF DupInv
  <1> QED
    BY <1>1, <1>2, <1>3, <1>4, <1>5, <1>6, <1>7, <1>8, <1>9, <1>10, <1>11,
       <1>12, <1>13 DEF Next, Worker

LEMMA DupInit == Init => DupInv
  BY DEF Init, DupInv, Mutex, KnownComplete, CreateReady, NoDuplicateFolder, Live,
         NoCall

\* Where no two accounts share a sync folder the mutex does what the comment
\* at ensureFolderStructure promises: of all folders the tool has made and the
\* user has not deleted, no two have one name and one parent.
THEOREM NoDuplicateInPrivateTree ==
    ASSUME PrivateTrees PROVE Spec => []NoDuplicateFolder
  <1>1. Init => TypeOK /\ PlaceInv /\ DupInv BY TypeInit, PlaceInit, DupInit
  <1>2. TypeOK /\ PlaceInv /\ DupInv /\ [Next]_vars
          => TypeOK' /\ PlaceInv' /\ DupInv'
    BY TypeStep, PlaceStep, DupStep
  <1>3. DupInv => NoDuplicateFolder BY DEF DupInv
  <1> QED BY <1>1, <1>2, <1>3, PTL DEF Spec

\* The whole invariant of a private tree: why a folder is sought where it was
\* made, and made once only, through restarts, lost replies and stale listings,
\* while the user creates and deletes folders (and moves none).
THEOREM PrivateTreeInvariant ==
    ASSUME PrivateTrees PROVE Spec => []FolderInv
  <1>1. Init => TypeOK /\ PlaceInv /\ DupInv BY TypeInit, PlaceInit, DupInit
  <1>2. TypeOK /\ PlaceInv /\ DupInv /\ [Next]_vars
          => TypeOK' /\ PlaceInv' /\ DupInv'
    BY TypeStep, PlaceStep, DupStep
  <1>3. PlaceInv /\ DupInv => FolderInv BY DEF DupInv, FolderInv
  <1> QED BY <1>1, <1>2, <1>3, PTL DEF Spec
=============================================================================
