------------------------------- MODULE DbCache --------------------------------
(***************************************************************************)
(* The cache of open databases of exmdb_provider (db_engine.c): a hash     *)
(* table with one item per mailbox directory, under one lock; in the item  *)
(* a reference count, a lock and the sqlite handle.  Threads get and put   *)
(* items, a scan thread closes what nobody has used for an interval, and   *)
(* the administrator's tools ask for a directory to be unloaded.           *)
(*                                                                         *)
(* An item is taken in two steps, its reference under the lock of the      *)
(* table and then its own lock, and given back in two.  The thread that    *)
(* made an item opens it, in the step in which it gets its lock; whoever   *)
(* gets that lock before it finds the item with no handle.                 *)
(***************************************************************************)
EXTENDS Naturals, FiniteSetsExt

CONSTANTS
  Dir,         \* directories of mailboxes
  Thread,      \* threads that get and put items
  Unloader,    \* threads that run db_engine_unload_db
  NoDir,
  MaxWaiting,  \* MAX_DB_WAITING_THREADS
  TableSize,   \* g_table_size
  MaxTries     \* tries of db_engine_unload_db

ASSUME DbCacheAssumption ==
  /\ NoDir \notin Dir
  /\ IsFiniteSet(Thread) /\ IsFiniteSet(Dir)
  /\ MaxWaiting \in Nat /\ TableSize \in Nat /\ MaxTries \in Nat \ {0}

VARIABLES
  present,   \* the directories that have an item in g_hash_table
  reference, \* reference[d], for those
  open,      \* those whose psqlite is not NULL
  expired,   \* those whose last_time is more than g_cache_interval ago
  pc,        \* pc[t]: what thread t does about the item it has got
  dir,       \* dir[t]: the directory of that item
  creator,   \* threads with b_new TRUE: they are to open the item
  dangling,  \* threads that point to an item that has been freed
  udir,      \* udir[u]: the directory that u unloads
  tries,     \* how often it has tried
  unloaded,  \* the directories that are unloaded, for all the callers know
  g_notify_stop,
  scanning   \* the scan thread runs

itemVars   == <<present, reference, open, expired>>
threadVars == <<pc, dir, creator, dangling>>
unloadVars == <<udir, tries, unloaded>>
cacheVars  == <<itemVars, threadVars, unloadVars, g_notify_stop, scanning>>

Init ==
  /\ present = {} /\ open = {} /\ expired = {}
  /\ reference = [d \in Dir |-> 0]
  /\ pc = [t \in Thread |-> "idle"]
  /\ dir = [t \in Thread |-> NoDir]
  /\ creator = {} /\ dangling = {}
  /\ udir = [u \in Unloader |-> NoDir]
  /\ tries = [u \in Unloader |-> 0]
  /\ unloaded = {}
  /\ g_notify_stop = FALSE
  /\ scanning = TRUE

HasRoom == Cardinality(present) < TableSize

\* Threads with a reference to the item of d.
Users(d) == {t \in Thread \ dangling : dir[t] = d}

\* The item's lock is held.
Locked(d) == \E t \in Users(d) : pc[t] = "have"

-----------------------------------------------------------------------------
(* db_engine_get_db and db_engine_put_db.                                  *)

\* It returns NULL at once.
Refused(d) ==
  IF d \in present THEN reference[d] > MaxWaiting ELSE ~HasRoom

\* Mutant: an item that is there is taken without a reference.
QueryOnly(t, d) ==
  /\ d \in present
  /\ reference[d] <= MaxWaiting
  /\ UNCHANGED <<itemVars, creator, unloaded>>

\* Mutant: one thread more than MAX_DB_WAITING_THREADS is let in.
QueryOneMore(t, d) ==
  /\ d \in present
  /\ reference[d] <= MaxWaiting + 1
  /\ reference' = [reference EXCEPT ![d] = @ + 1]
  /\ UNCHANGED <<present, open, expired, creator, unloaded>>

QueryItem(t, d) ==
  /\ d \in present
  /\ reference[d] <= MaxWaiting
  /\ reference' = [reference EXCEPT ![d] = @ + 1]
  /\ UNCHANGED <<present, open, expired, creator, unloaded>>

AddItem(t, d) ==
  /\ d \notin present
  /\ HasRoom
  /\ present' = present \cup {d}
  /\ reference' = [reference EXCEPT ![d] = 1]
  /\ expired' = expired \ {d}
  /\ creator' = creator \cup {t}
  /\ unloaded' = unloaded \ {d}
  /\ UNCHANGED open

\* Up to the wait for the item's lock.
GetDb(t, d) ==
  /\ pc[t] = "idle"
  /\ QueryItem(t, d) \/ AddItem(t, d)
  /\ pc' = [pc EXCEPT ![t] = "lock"]
  /\ dir' = [dir EXCEPT ![t] = d]
  /\ UNCHANGED <<dangling, udir, tries, g_notify_stop, scanning>>

\* Mutant: whoever finds the item closed opens it.
OpenIfClosed(t) == open' \in {open, open \cup {dir[t]}}

\* sqlite3_open_v2 may fail.
OpenIfNew(t) ==
  open' \in IF t \in creator THEN {open, open \cup {dir[t]}} ELSE {open}

Lock(t) ==
  /\ pc[t] = "lock"
  /\ t \notin dangling
  /\ ~Locked(dir[t])
  /\ OpenIfNew(t)
  /\ pc' = [pc EXCEPT ![t] = "have"]
  /\ creator' = creator \ {t}
  /\ UNCHANGED <<present, reference, expired, dir, dangling, unloadVars,
                 g_notify_stop, scanning>>

\* Mutant: the wait for the lock has no end.
NeverTimeOut(t) == FALSE

\* The lock was not to be had for DB_LOCK_TIMEOUT.
TimeOut(t) ==
  /\ pc[t] = "lock"
  /\ t \notin dangling
  /\ Locked(dir[t])
  /\ pc' = [pc EXCEPT ![t] = "drop"]
  /\ creator' = creator \ {t}
  /\ UNCHANGED <<itemVars, dir, dangling, unloadVars, g_notify_stop, scanning>>

PutDb(t) ==
  /\ pc[t] = "have"
  /\ t \notin dangling
  /\ expired' = expired \ {dir[t]}
  /\ pc' = [pc EXCEPT ![t] = "drop"]
  /\ UNCHANGED <<present, reference, open, dir, creator, dangling, unloadVars,
                 g_notify_stop, scanning>>

\* The reference, after put_db or the timeout.
DropReference(t) ==
  /\ pc[t] = "drop"
  /\ t \notin dangling
  /\ reference' = [reference EXCEPT ![dir[t]] = @ - 1]
  /\ pc' = [pc EXCEPT ![t] = "idle"]
  /\ dir' = [dir EXCEPT ![t] = NoDir]
  /\ UNCHANGED <<present, open, expired, creator, dangling, unloadVars,
                 g_notify_stop, scanning>>

-----------------------------------------------------------------------------
(* db_engine_unload_db.                                                    *)

StartUnload(u, d) ==
  /\ udir[u] = NoDir
  /\ udir' = [udir EXCEPT ![u] = d]
  /\ tries' = [tries EXCEPT ![u] = 0]
  /\ UNCHANGED <<itemVars, threadVars, unloaded, g_notify_stop, scanning>>

\* The item is not there: one with no handle takes its place, if there is room,
\* and the answer is TRUE either way.
UnloadAbsent(u) ==
  /\ udir[u] # NoDir
  /\ udir[u] \notin present
  /\ present' = IF HasRoom THEN present \cup {udir[u]} ELSE present
  /\ reference' = [reference EXCEPT ![udir[u]] = 0]
  /\ expired' = expired \ {udir[u]}
  /\ unloaded' = unloaded \cup {udir[u]}
  /\ udir' = [udir EXCEPT ![u] = NoDir]
  /\ UNCHANGED <<open, threadVars, tries, g_notify_stop, scanning>>

\* It is there: it is made to look old, whoever uses it, for the scan thread.
UnloadPresent(u) ==
  /\ udir[u] \in present
  /\ expired' = expired \cup {udir[u]}
  /\ tries' = [tries EXCEPT ![u] = @ + 1]
  /\ udir' = IF tries[u] + 1 < MaxTries THEN udir ELSE [udir EXCEPT ![u] = NoDir]
  /\ UNCHANGED <<present, reference, open, threadVars, unloaded, g_notify_stop,
                 scanning>>

-----------------------------------------------------------------------------
(* The scan thread.                                                        *)

\* An item that nobody has given back for g_cache_interval.
Age(d) ==
  /\ d \in present \ expired
  /\ expired' = expired \cup {d}
  /\ UNCHANGED <<present, reference, open, threadVars, unloadVars,
                 g_notify_stop, scanning>>

\* Mutant: what is old is freed, used or not.
EveryOldItem == {d \in present : d \notin open \/ d \in expired}

Unwanted ==
  {d \in present : reference[d] = 0 /\ (d \notin open \/ d \in expired)}

\* Mutant: the handle is left open.
FreeItemOnly(S) ==
  /\ present' = present \ S
  /\ expired' = expired \ S
  /\ dangling' = dangling \cup {t \in Thread : dir[t] \in S}
  /\ creator' = {t \in creator : dir[t] \notin S}
  /\ reference' = [d \in Dir |-> IF d \in S THEN 0 ELSE reference[d]]
  /\ UNCHANGED open

\* db_engine_free_db and str_hash_iter_remove, of each of the items.
Free(S) ==
  /\ present' = present \ S
  /\ open' = open \ S
  /\ expired' = expired \ S
  /\ dangling' = dangling \cup {t \in Thread : dir[t] \in S}
  /\ creator' = {t \in creator : dir[t] \notin S}
  /\ reference' = [d \in Dir |-> IF d \in S THEN 0 ELSE reference[d]]

Scan ==
  /\ scanning
  /\ Unwanted # {}
  /\ Free(Unwanted)
  /\ UNCHANGED <<pc, dir, unloadVars, g_notify_stop, scanning>>

\* db_engine_stop, up to the join of the scan thread.
Stop ==
  /\ ~g_notify_stop
  /\ \A u \in Unloader : udir[u] = NoDir
  /\ g_notify_stop' = TRUE
  /\ UNCHANGED <<itemVars, threadVars, unloadVars, scanning>>

\* The scan thread ends: everything is freed, used or not.
ScanEnds ==
  /\ g_notify_stop
  /\ scanning
  /\ Free(present)
  /\ scanning' = FALSE
  /\ UNCHANGED <<pc, dir, unloadVars, g_notify_stop>>

-----------------------------------------------------------------------------
Use(t) == Lock(t) \/ TimeOut(t) \/ PutDb(t) \/ DropReference(t)

Unload(u) == UnloadAbsent(u) \/ UnloadPresent(u)

CacheNext ==
  \/ \E t \in Thread : Use(t) \/ \E d \in Dir : GetDb(t, d)
  \/ \E u \in Unloader :
       Unload(u) \/ (~g_notify_stop /\ \E d \in Dir : StartUnload(u, d))
  \/ \E d \in Dir : Age(d)
  \/ Scan \/ Stop \/ ScanEnds

CacheSpec == Init /\ [][CacheNext]_cacheVars

-----------------------------------------------------------------------------
(* Properties.                                                             *)

CacheTypeOK ==
  /\ present \subseteq Dir
  /\ reference \in [Dir -> Nat]
  /\ open \subseteq present
  /\ expired \subseteq present
  /\ pc \in [Thread -> {"idle", "lock", "have", "drop"}]
  /\ dir \in [Thread -> Dir \cup {NoDir}]
  /\ creator \subseteq Thread
  /\ dangling \subseteq Thread
  /\ udir \in [Unloader -> Dir \cup {NoDir}]
  /\ tries \in [Unloader -> 0..MaxTries]
  /\ unloaded \subseteq Dir
  /\ g_notify_stop \in BOOLEAN
  /\ scanning \in BOOLEAN

\* The reference of an item is the number of threads that use it, those that
\* wait for its lock and those on their way out counted.
ReferencesExact ==
  \A d \in present : reference[d] = Cardinality(Users(d))

\* The scan thread frees no item from under a thread, as long as the engine is
\* not stopping.
NothingFreedInUse == dangling # {} => g_notify_stop

\* A database has one user and MAX_DB_WAITING_THREADS threads behind it at most,
\* whatever happens between the look at the count and the wait.
UsersBounded == \A d \in present : Cardinality(Users(d)) <= MaxWaiting + 1

\* A database that the administrator was told is unloaded is closed, and no
\* thread opens it as long as the item that stands for it is there.
UnloadedIsClosed == unloaded \cap open = {}
=============================================================================
