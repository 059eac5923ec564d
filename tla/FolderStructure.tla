--------------------------- MODULE FolderStructure ---------------------------
(***************************************************************************)
(* Resolving a logical path to a provider folder, creating what is missing *)
(* (Runner.ensureFolderStructure, internal/task/sync_helper.go).           *)
(*                                                                         *)
(* Workers resolve paths below the sync folder of an account concurrently. *)
(* Three things remember folders: the provider itself (created, deleted),  *)
(* the client's listing cache (listed, known; Client.folderCache) and the  *)
(* runner's path cache (pathCache; Runner.folderCache), which a new        *)
(* process preloads from the folder_replicas rows (rows).  A mutex per     *)
(* account serialises the walk that lists and creates.                     *)
(*                                                                         *)
(* Two accounts share a tree when they have the same sync folder (Google:  *)
(* every backup account works inside the main account's shared folder);    *)
(* an account with a sync folder of its own has a private tree             *)
(* (OneDrive).                                                             *)
(***************************************************************************)
EXTENDS Naturals, Sequences, FiniteSets

CONSTANTS
    Accounts,       \* accounts of providers that have folders
    Workers,        \* goroutines that resolve paths
    Names,          \* folder names
    MaxDepth,       \* the deepest path considered
    Targets,        \* the paths the workers ask for
    Ids,            \* provider folder ids
    SyncFolder,     \* account -> id of its cloud-drives-sync-root
    SafeMode,       \* --safe: nothing is created
    None,
    MaxEvents       \* bound: user deletions, user creations and restarts

Paths == UNION {[1..n -> Names] : n \in 1..MaxDepth}
Roots == {SyncFolder[a] : a \in Accounts}

ASSUME FolderAssumption ==
    /\ MaxDepth \in Nat
    /\ Targets \subseteq Paths
    /\ SyncFolder \in [Accounts -> Ids]
    /\ None \notin Ids /\ None \notin Workers
    /\ SafeMode \in BOOLEAN
    /\ MaxEvents \in Nat

\* A folder is made by an acknowledged CreateFolder of the tool, by one whose
\* reply was lost, or by the user.  root and at are the place it was made in.
Folder == [id : Ids, parent : Ids, root : Ids, at : Paths,
           by : {"tool", "lost", "user"}]

VARIABLES
    created,    \* every folder ever made below a sync folder
    deleted,    \* ids the user has deleted
    listed,     \* account -> parent ids its client has a cached listing of
    known,      \* account -> the folders in those cached listings
    pathCache,  \* account -> path -> id or None
    rows,       \* account -> path -> ids of the folder_replicas rows
    lock,       \* account -> the worker that holds the folder lock, or None
    call,       \* worker -> the call it is in
    events      \* how many of the MaxEvents have happened

provider == <<created, deleted>>
caches   == <<listed, known, pathCache>>
vars     == <<provider, caches, rows, lock, call, events>>

NoCall == [pc |-> "idle", acct |-> None, path |-> <<>>, depth |-> 0,
           cur |-> None, retried |-> FALSE]
Call   == [pc : {"lock"}, acct : Accounts, path : Paths, depth : {0},
           cur : {None}, retried : BOOLEAN]
          \cup {c \in [pc : {"walk", "create", "use"}, acct : Accounts,
                       path : Paths, depth : 0..MaxDepth, cur : Ids,
                       retried : BOOLEAN] :
                    c.pc = "create" => c.depth < Len(c.path)}

-----------------------------------------------------------------------------
UsedIds    == Roots \cup {f.id : f \in created}
NewId      == CHOOSE i \in Ids : i \notin UsedIds
Live       == {f \in created : f.id \notin deleted}
LiveIds    == Roots \cup {f.id : f \in Live}
NameOf(f)  == f.at[Len(f.at)]
LiveChildren(i) == {f \in Live : f.parent = i}

\* The root and the path of a folder id.
Place(i) == IF i \in Roots THEN [root |-> i, at |-> <<>>]
            ELSE LET f == CHOOSE g \in created : g.id = i
                 IN  [root |-> f.root, at |-> f.at]

LiesAt(i, root, p) ==
    \/ i \in Roots /\ root = i /\ p = <<>>
    \/ \E f \in created : f.id = i /\ f.root = root /\ f.at = p

\* What the provider adds for a folder called n inside parent i.
Made(i, n, who) == [id |-> NewId, parent |-> i, root |-> Place(i).root,
                    at |-> Append(Place(i).at, n), by |-> who]
RoomIn(i) == /\ i \in LiveIds /\ UsedIds # Ids
             /\ Len(Place(i).at) < MaxDepth

\* The prefix a walk has resolved, the part it resolves next, and the prefix
\* that ends in that part.
Done(c)     == SubSeq(c.path, 1, c.depth)
Part(c)     == c.path[c.depth + 1]
NextPath(c) == Append(Done(c), Part(c))

\* The call c in phase pc, d parts resolved, in folder i.
At(c, pc, d, i) == [pc |-> pc, acct |-> c.acct, path |-> c.path, depth |-> d,
                    cur |-> i, retried |-> c.retried]

-----------------------------------------------------------------------------
Init ==
    /\ created = {} /\ deleted = {} /\ events = 0
    /\ listed = [a \in Accounts |-> {}]
    /\ known = [a \in Accounts |-> {}]
    /\ pathCache = [a \in Accounts |-> [p \in Paths |-> None]]
    /\ rows = [a \in Accounts |-> [p \in Paths |-> {}]]
    /\ lock = [a \in Accounts |-> None]
    /\ call = [w \in Workers |-> NoCall]

\* The start of ensureFolderStructure: the fast path answers from memory,
\* otherwise the worker asks for the account's lock.
Entered(a, p, cache, retried) ==
    [pc |-> IF cache[p] = None THEN "lock" ELSE "use", acct |-> a, path |-> p,
     depth |-> 0, cur |-> cache[p], retried |-> retried]

Ask(w) ==
    /\ call[w].pc = "idle"
    /\ \E a \in Accounts, p \in Targets :
          call' = [call EXCEPT ![w] = Entered(a, p, pathCache[a], FALSE)]
    /\ UNCHANGED <<provider, caches, rows, lock, events>>

\* Under the lock the cache is read again: a hit returns at once.
LockAndHit(w) ==
    LET c == call[w] IN
    /\ c.pc = "lock" /\ lock[c.acct] = None
    /\ pathCache[c.acct][c.path] # None
    /\ call' = [call EXCEPT ![w] = Entered(c.acct, c.path, pathCache[c.acct],
                                           c.retried)]
    /\ UNCHANGED <<provider, caches, rows, lock, events>>

\* Mutant: the walk does not start at the sync folder.
LockAndWalkFromNowhere(w) ==
    LET c == call[w] IN
    /\ c.pc = "lock" /\ lock[c.acct] = None
    /\ pathCache[c.acct][c.path] = None
    /\ lock' = [lock EXCEPT ![c.acct] = w]
    /\ call' = [call EXCEPT ![w] = [c EXCEPT !.pc = "walk"]]
    /\ UNCHANGED <<provider, caches, rows, events>>

\* Mutant: the walk does not take the mutex.
LockAndWalkUnlocked(w) ==
    LET c == call[w] IN
    /\ c.pc = "lock" /\ lock[c.acct] = None
    /\ pathCache[c.acct][c.path] = None
    /\ call' = [call EXCEPT ![w] = At(c, "walk", 0, SyncFolder[c.acct])]
    /\ UNCHANGED <<provider, caches, rows, lock, events>>

LockAndWalk(w) ==
    LET c == call[w] IN
    /\ c.pc = "lock" /\ lock[c.acct] = None
    /\ pathCache[c.acct][c.path] = None
    /\ lock' = [lock EXCEPT ![c.acct] = w]
    /\ call' = [call EXCEPT ![w] = At(c, "walk", 0, SyncFolder[c.acct])]
    /\ UNCHANGED <<provider, caches, rows, events>>

\* Mutant: an error path that keeps the lock.
FailKeepingLock(w) ==
    /\ lock' = lock
    /\ call' = [call EXCEPT ![w] = NoCall]

\* Every error returns through the deferred unlock.
Fail(w) ==
    /\ lock' = [lock EXCEPT ![call[w].acct] = None]
    /\ call' = [call EXCEPT ![w] = NoCall]

Walking(w) == call[w].pc = "walk" /\ call[w].depth < Len(call[w].path)

\* The next part is already in the path cache.
FollowCache(w) ==
    LET c == call[w]
        i == pathCache[c.acct][NextPath(c)]
    IN  /\ Walking(w) /\ i # None
        /\ call' = [call EXCEPT ![w] = At(c, "walk", c.depth + 1, i)]
        /\ UNCHANGED <<provider, caches, rows, lock, events>>

\* Every sibling of a listing goes into the path cache; of several with one
\* name the last of the listing stays, whichever that is.
OnePerName(entries) ==
    {S \in SUBSET entries : \A f \in entries :
        \E g \in S : {h \in S : NameOf(h) = NameOf(f)} = {g}}
\* Mutant: a sibling is cached under its bare name.
WithSiblingsByName(cache, parentPath, S) ==
    [p \in Paths |->
        IF \E f \in S : p = <<NameOf(f)>>
        THEN (CHOOSE f \in S : p = <<NameOf(f)>>).id
        ELSE cache[p]]
WithSiblings(cache, parentPath, S) ==
    [p \in Paths |->
        IF \E f \in S : p = Append(parentPath, NameOf(f))
        THEN (CHOOSE f \in S : p = Append(parentPath, NameOf(f))).id
        ELSE cache[p]]

\* ListFolders answers from the client's cache, or asks the provider and
\* caches the answer.  The part is found in it, or is to be created.
ListSiblings(w) ==
    LET c == call[w]
        a == c.acct
        entries == IF c.cur \in listed[a]
                   THEN {f \in known[a] : f.parent = c.cur}
                   ELSE LiveChildren(c.cur)
    IN  /\ Walking(w) /\ pathCache[a][NextPath(c)] = None
        /\ c.cur \in listed[a] \cup LiveIds
        /\ listed' = [listed EXCEPT ![a] = @ \cup {c.cur}]
        /\ known' = [known EXCEPT ![a] = @ \cup entries]
        /\ \E S \in OnePerName(entries) :
             pathCache' = [pathCache EXCEPT ![a] = WithSiblings(@, Done(c), S)]
        /\ LET found == pathCache'[a][NextPath(c)] IN
             IF found = None
             THEN /\ call' = [call EXCEPT ![w] = At(c, "create", c.depth, c.cur)]
                  /\ rows' = rows
             ELSE /\ call' = [call EXCEPT ![w] = At(c, "walk", c.depth + 1, found)]
                  /\ rows' = [rows EXCEPT ![a][NextPath(c)] = @ \cup {found}]
        /\ UNCHANGED <<provider, lock, events>>

\* A listing that is not cached can fail; it does when the parent is gone.
ListFails(w) ==
    /\ Walking(w) /\ pathCache[call[w].acct][NextPath(call[w])] = None
    /\ call[w].cur \notin listed[call[w].acct]
    /\ Fail(w)
    /\ UNCHANGED <<provider, caches, rows, events>>

\* Mutant: the client's cached listing does not learn of the new folder.
CreateFolderUnlisted(w) ==
    LET c == call[w]
        a == c.acct
        f == Made(c.cur, Part(c), "tool")
    IN  /\ c.pc = "create" /\ ~SafeMode /\ RoomIn(c.cur)
        /\ created' = created \cup {f}
        /\ known' = known
        /\ rows' = [rows EXCEPT ![a][NextPath(c)] = @ \cup {f.id}]
        /\ pathCache' = [pathCache EXCEPT ![a][NextPath(c)] = f.id]
        /\ call' = [call EXCEPT ![w] = At(c, "walk", c.depth + 1, f.id)]
        /\ UNCHANGED <<deleted, listed, lock, events>>

\* CreateFolder succeeds: the new folder enters the client's cached listing
\* of its parent, the rows and the path cache.
CreateFolder(w) ==
    LET c == call[w]
        a == c.acct
        f == Made(c.cur, Part(c), "tool")
    IN  /\ c.pc = "create" /\ ~SafeMode /\ RoomIn(c.cur)
        /\ created' = created \cup {f}
        /\ known' = [known EXCEPT ![a] =
                        IF c.cur \in listed[a] THEN @ \cup {f} ELSE @]
        /\ rows' = [rows EXCEPT ![a][NextPath(c)] = @ \cup {f.id}]
        /\ pathCache' = [pathCache EXCEPT ![a][NextPath(c)] = f.id]
        /\ call' = [call EXCEPT ![w] = At(c, "walk", c.depth + 1, f.id)]
        /\ UNCHANGED <<deleted, listed, lock, events>>

\* The provider makes the folder but the reply is lost: an error to the tool.
CreateReplyLost(w) ==
    LET c == call[w] IN
    /\ c.pc = "create" /\ ~SafeMode /\ RoomIn(c.cur)
    /\ created' = created \cup {Made(c.cur, Part(c), "lost")}
    /\ Fail(w)
    /\ UNCHANGED <<deleted, caches, rows, events>>

\* CreateFolder fails, or safe mode skips it.
CreateFails(w) ==
    /\ call[w].pc = "create"
    /\ Fail(w)
    /\ UNCHANGED <<provider, caches, rows, events>>

\* The walk is complete: the full path is cached and the lock released.
Resolve(w) ==
    LET c == call[w] IN
    /\ c.pc = "walk" /\ c.depth = Len(c.path)
    /\ pathCache' = [pathCache EXCEPT ![c.acct][c.path] = c.cur]
    /\ lock' = [lock EXCEPT ![c.acct] = None]
    /\ call' = [call EXCEPT ![w] = At(c, "use", c.depth, c.cur)]
    /\ UNCHANGED <<provider, listed, known, rows, events>>

\* The caller uses the folder (uploads into it, moves a file there) and goes
\* on, whether that worked or not.
Use(w) ==
    /\ call[w].pc = "use"
    /\ call' = [call EXCEPT ![w] = NoCall]
    /\ UNCHANGED <<provider, caches, rows, lock, events>>

\* moveReplicaToPath: the first MoveFile answered 404 (the folder or the file
\* is gone); the path and its prefixes leave the path cache and the path is
\* resolved once more.
InvalidateAndRetry(w) ==
    LET c == call[w]
        cleared == [p \in Paths |->
                      IF \E n \in 1..Len(c.path) : p = SubSeq(c.path, 1, n)
                      THEN None ELSE pathCache[c.acct][p]]
    IN  /\ c.pc = "use" /\ ~c.retried
        /\ pathCache' = [pathCache EXCEPT ![c.acct] = cleared]
        /\ call' = [call EXCEPT ![w] = Entered(c.acct, c.path, cleared, TRUE)]
        /\ UNCHANGED <<provider, listed, known, rows, lock, events>>

-----------------------------------------------------------------------------
\* The metadata scan of an account, which runs before any worker does:
\* ListFiles replaces the cached listing of every folder it visits, and
\* SyncLogicalFoldersFromFolders records every folder found.
Scan(a) ==
    LET tree == {f \in Live : f.root = SyncFolder[a]}
        seen == {SyncFolder[a]} \cup {f.id : f \in tree}
    IN  /\ \A w \in Workers : call[w].pc = "idle"
        /\ listed' = [listed EXCEPT ![a] = @ \cup seen]
        /\ known' = [known EXCEPT ![a] = {f \in @ : f.parent \notin seen} \cup tree]
        /\ rows' = [rows EXCEPT ![a] =
                      [p \in Paths |-> @[p] \cup {f.id : f \in {g \in tree : g.at = p}}]]
        /\ UNCHANGED <<provider, pathCache, lock, call, events>>

Event == events < MaxEvents /\ events' = events + 1

\* The user deletes a folder and everything below it.
UserDeletes ==
    /\ Event
    /\ \E f \in Live : \E D \in SUBSET {g.id : g \in Live} :
         /\ f.id \in D
         /\ \A g \in Live : g.id \in D <=> (g = f \/ g.parent \in D)
         /\ deleted' = deleted \cup D
    /\ UNCHANGED <<created, caches, rows, lock, call>>

UserCreates ==
    /\ Event
    /\ \E i \in LiveIds, n \in Names :
         RoomIn(i) /\ created' = created \cup {Made(i, n, "user")}
    /\ UNCHANGED <<deleted, caches, rows, lock, call>>

Recorded == {k \in Accounts \X Paths : rows[k[1]][k[2]] # {}}

\* The process ends or is killed, and a new one starts: the client caches are
\* empty and PreloadFolderCache fills the path cache from the rows.
Restart ==
    /\ Event
    /\ listed' = [a \in Accounts |-> {}]
    /\ known' = [a \in Accounts |-> {}]
    /\ \E pick \in [Recorded -> Ids] :
         /\ \A k \in Recorded : pick[k] \in rows[k[1]][k[2]]
         /\ pathCache' = [a \in Accounts |-> [p \in Paths |->
                IF <<a, p>> \in Recorded THEN pick[<<a, p>>] ELSE None]]
    /\ lock' = [a \in Accounts |-> None]
    /\ call' = [w \in Workers |-> NoCall]
    /\ UNCHANGED <<provider, rows>>

Worker(w) ==
    \/ Ask(w) \/ LockAndHit(w) \/ LockAndWalk(w) \/ FollowCache(w)
    \/ ListSiblings(w) \/ ListFails(w)
    \/ CreateFolder(w) \/ CreateReplyLost(w) \/ CreateFails(w)
    \/ Resolve(w) \/ Use(w) \/ InvalidateAndRetry(w)

Next ==
    \/ \E w \in Workers : Worker(w)
    \/ \E a \in Accounts : Scan(a)
    \/ UserDeletes \/ UserCreates \/ Restart

Spec == Init /\ [][Next]_vars

\* The API calls return and Go's mutex does not starve a waiter.
InCall(w) ==
    \/ LockAndHit(w) \/ LockAndWalk(w) \/ FollowCache(w)
    \/ ListSiblings(w) \/ ListFails(w)
    \/ CreateFolder(w) \/ CreateReplyLost(w) \/ CreateFails(w)
    \/ Resolve(w) \/ Use(w) \/ InvalidateAndRetry(w)
Fairness == \A w \in Workers : /\ WF_vars(InCall(w))
                               /\ SF_vars(LockAndHit(w) \/ LockAndWalk(w))
FairSpec == Spec /\ Fairness

-----------------------------------------------------------------------------
TypeOK ==
    /\ created \subseteq Folder /\ deleted \subseteq Ids
    /\ listed \in [Accounts -> SUBSET Ids]
    /\ known \in [Accounts -> SUBSET Folder]
    /\ pathCache \in [Accounts -> [Paths -> Ids \cup {None}]]
    /\ rows \in [Accounts -> [Paths -> SUBSET Ids]]
    /\ lock \in [Accounts -> Workers \cup {None}]
    /\ call \in [Workers -> Call \cup {NoCall}]
    /\ events \in Nat

\* ensureFolderStructure's promise: "a mutex prevents duplicate folder
\* creation".  No two live folders of one name and parent were both made by
\* acknowledged CreateFolder calls of the tool.
NoDuplicateFolder ==
    \A f, g \in Live :
        f.by = "tool" /\ g.by = "tool" /\ f.parent = g.parent
        /\ NameOf(f) = NameOf(g) => f = g

\* Whatever cache answered, the folder a caller gets was made at the path it
\* asked for, under the sync folder of its account: no memory gives the answer to
\* one path to a caller that asked for another.  The user may have deleted it.
ResolvesToPath ==
    \A w \in Workers : call[w].pc = "use" =>
        LiesAt(call[w].cur, SyncFolder[call[w].acct], call[w].path)

\* Why it was: an id has one place, as the user moves no folder, a folder lies
\* below its parent, and every memory of a path (both caches, the rows, a walk)
\* names a folder that was made there.
UniqueIds == /\ \A f, g \in created : f.id = g.id => f = g
             /\ \A f \in created : f.id \notin Roots
ParentAt(f) == SubSeq(f.at, 1, Len(f.at) - 1)
TreeShape == \A f \in created : /\ LiesAt(f.parent, f.root, ParentAt(f))
                                /\ f.at = Append(ParentAt(f), NameOf(f))
CacheSound == \A a \in Accounts, p \in Paths : pathCache[a][p] # None =>
                 LiesAt(pathCache[a][p], SyncFolder[a], p)
RowsSound == \A a \in Accounts, p \in Paths : \A i \in rows[a][p] :
                 LiesAt(i, SyncFolder[a], p)
KnownSound == \A a \in Accounts : known[a] \subseteq created
Positions ==
    \A w \in Workers :
        /\ call[w].pc \in {"walk", "create"} =>
             LiesAt(call[w].cur, SyncFolder[call[w].acct], Done(call[w]))
        /\ call[w].pc = "use" =>
             LiesAt(call[w].cur, SyncFolder[call[w].acct], call[w].path)
PlaceInv == /\ UniqueIds /\ TreeShape /\ CacheSound /\ RowsSound
            /\ KnownSound /\ Positions

\* Why a private tree gets no duplicate: only the holder of an account's lock
\* walks there, its client's cached listings miss no folder of the tool, and a
\* folder is about to be created only where none of that name is.
Mutex == \A w \in Workers :
             call[w].pc \in {"walk", "create"} => lock[call[w].acct] = w
KnownComplete ==
    \A a \in Accounts : \A f \in Live :
        f.by = "tool" /\ f.root = SyncFolder[a] /\ f.parent \in listed[a]
            => f \in known[a]
CreateReady ==
    \A w \in Workers : call[w].pc = "create" =>
        \A f \in Live : f.by = "tool" /\ f.parent = call[w].cur =>
            NameOf(f) # Part(call[w])

\* The inductive invariant of a private tree.
FolderInv == PlaceInv /\ Mutex /\ KnownComplete /\ CreateReady /\ NoDuplicateFolder

\* No error path keeps the account's lock: every call comes to an end.
CallsReturn ==
    \A w \in Workers : call[w].pc # "idle" ~> call[w].pc = "idle"
=============================================================================
