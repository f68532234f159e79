---------------------------- MODULE DbCacheProofs -----------------------------
(***************************************************************************)
(* Proofs about the cache of databases, for any number of directories,     *)
(* threads and unloaders, and any size of the table.                       *)
(*                                                                         *)
(* The count of a reference says something only together with who holds    *)
(* what: CacheInv ties the program counters, the items in the table and    *)
(* the threads that have lost theirs, and with the counts exact the scan   *)
(* thread's test for zero is a test for nobody.                            *)
(***************************************************************************)
EXTENDS DbCache, FiniteSetTheorems, TLAPS

\* A thread has an item's directory from its reference on, a thread that has lost
\* its item is in the middle of using it, and the others' items are in the table.
ThreadInv ==
  \A t \in Thread :
    /\ dir[t] = NoDir <=> pc[t] = "idle"
    /\ t \in dangling => pc[t] # "idle"
    /\ t \notin dangling /\ dir[t] # NoDir => dir[t] \in present

\* A creator waits for the lock of an item that nobody has unloaded.
CreatorInv ==
  \A t \in creator :
    pc[t] = "lock" /\ t \notin dangling /\ dir[t] \notin unloaded

UnloadInv == \A u \in Unloader : udir[u] # NoDir => tries[u] < MaxTries

ReferencesBounded == \A d \in present : reference[d] <= MaxWaiting + 1

CacheInv ==
  /\ CacheTypeOK
  /\ ThreadInv
  /\ CreatorInv
  /\ UnloadInv
  /\ ReferencesExact
  /\ ReferencesBounded
  /\ NothingFreedInUse
  /\ UnloadedIsClosed

-----------------------------------------------------------------------------
(* Sets of threads.                                                        *)

\* There are finitely many threads, so any set of them can be counted.
LEMMA ThreadsFinite ==
  ASSUME NEW S \in SUBSET Thread
  PROVE  IsFiniteSet(S) /\ Cardinality(S) \in Nat
BY DbCacheAssumption, FS_Subset, FS_CardinalityType

\* An item that the table counts no reference of has no user.
LEMMA NoReferenceNoUser ==
  ASSUME CacheInv, NEW d \in present, reference[d] = 0
  PROVE  Users(d) = {}
<1>1. Users(d) \in SUBSET Thread
  BY DEF Users
<1>2. IsFiniteSet(Users(d)) /\ Cardinality(Users(d)) = 0
  BY <1>1, ThreadsFinite DEF CacheInv, ReferencesExact
<1> QED BY <1>2, FS_EmptySet

\* Threads that go on with the items they have leave the users as they are.
LEMMA SameUsers ==
  ASSUME UNCHANGED <<dir, dangling>>
  PROVE  \A d : Users(d)' = Users(d)
BY DEF Users

-----------------------------------------------------------------------------
(* What each step does to CacheInv.                                        *)

LEMMA GetDbInv ==
  ASSUME CacheInv, NEW t \in Thread, NEW d \in Dir, GetDb(t, d)
  PROVE  CacheInv'
<1> USE DbCacheAssumption
<1>1. /\ pc[t] = "idle" /\ dir[t] = NoDir /\ t \notin dangling /\ t \notin creator
      /\ pc' = [pc EXCEPT ![t] = "lock"]
      /\ dir' = [dir EXCEPT ![t] = d]
      /\ UNCHANGED <<open, dangling, udir, tries, g_notify_stop, scanning>>
  BY DEF CacheInv, GetDb, QueryItem, AddItem, ThreadInv, CreatorInv
<1>2. \/ QueryItem(t, d)
      \/ AddItem(t, d)
  BY DEF GetDb
<1>3. Users(d)' = Users(d) \cup {t} /\ t \notin Users(d)
  BY <1>1 DEF Users, CacheInv, CacheTypeOK
<1>4. \A e \in Dir \ {d} : Users(e)' = Users(e)
  BY <1>1 DEF Users, CacheInv, CacheTypeOK
<1>5. /\ present' = present \cup {d}
      /\ reference' \in [Dir -> Nat]
      /\ \A e \in Dir \ {d} : reference'[e] = reference[e]
      /\ reference'[d] = Cardinality(Users(d)) + 1
      /\ reference'[d] <= MaxWaiting + 1
  <2>1. CASE QueryItem(t, d)
    BY <2>1 DEF QueryItem, CacheInv, CacheTypeOK, ReferencesExact
  <2>2. CASE AddItem(t, d)
    <3>1. Users(d) = {}
      BY <2>2 DEF AddItem, Users, CacheInv, ThreadInv, CacheTypeOK
    <3> QED BY <2>2, <3>1, FS_EmptySet DEF AddItem, CacheInv, CacheTypeOK
  <2> QED BY <1>2, <2>1, <2>2
<1>6. CacheTypeOK'
  BY <1>1, <1>2, <1>5 DEF CacheInv, CacheTypeOK, QueryItem, AddItem
<1>7. ThreadInv'
  BY <1>1, <1>5 DEF CacheInv, CacheTypeOK, ThreadInv
<1>8. CreatorInv'
  <2>1. \A s \in creator : s # t /\ pc'[s] = pc[s] /\ dir'[s] = dir[s]
    BY <1>1 DEF CacheInv, CacheTypeOK
  <2>2. creator' \subseteq creator \cup {t} /\ unloaded' \subseteq unloaded
    BY <1>2 DEF QueryItem, AddItem
  <2>3. t \in creator' => d \notin unloaded'
    BY <1>1, <1>2 DEF QueryItem, AddItem
  <2> QED BY <1>1, <2>1, <2>2, <2>3 DEF CacheInv, CacheTypeOK, CreatorInv
<1>9. UnloadInv'
  BY <1>1 DEF CacheInv, UnloadInv
<1>10. ReferencesExact'
  <2>1. Cardinality(Users(d)') = Cardinality(Users(d)) + 1
    <3>1. Users(d) \in SUBSET Thread
      BY DEF Users
    <3> QED BY <1>3, <3>1, ThreadsFinite, FS_AddElement
  <2> QED BY <1>4, <1>5, <2>1 DEF CacheInv, CacheTypeOK, ReferencesExact
<1>11. ReferencesBounded'
  BY <1>5 DEF CacheInv, CacheTypeOK, ReferencesBounded
<1>12. NothingFreedInUse' /\ UnloadedIsClosed'
  BY <1>1, <1>2 DEF CacheInv, NothingFreedInUse, UnloadedIsClosed, QueryItem, AddItem
<1> QED BY <1>6, <1>7, <1>8, <1>9, <1>10, <1>11, <1>12 DEF CacheInv

\* Lock, TimeOut and PutDb: the thread keeps its item.
LEMMA HoldInv ==
  ASSUME CacheInv, NEW t \in Thread, Lock(t) \/ TimeOut(t) \/ PutDb(t)
  PROVE  CacheInv'
<1> USE DbCacheAssumption
<1>1. /\ t \notin dangling /\ pc[t] \in {"lock", "have"}
      /\ dir[t] \in present /\ dir[t] \in Dir
      /\ \E s \in {"have", "drop"} : pc' = [pc EXCEPT ![t] = s]
      /\ UNCHANGED <<present, reference, dir, dangling, unloadVars,
                     g_notify_stop, scanning>>
      /\ expired' \subseteq expired
  BY DEF CacheInv, CacheTypeOK, ThreadInv, Lock, TimeOut, PutDb, itemVars
<1>2. creator' = creator \ {t}
  BY DEF CacheInv, CreatorInv, Lock, TimeOut, PutDb
<1>3. open' \subseteq present /\ open' \cap unloaded = {}
  <2>1. CASE Lock(t)
    <3>1. CASE t \in creator
      BY <1>1, <2>1, <3>1
      DEF Lock, OpenIfNew, CacheInv, CacheTypeOK, CreatorInv, UnloadedIsClosed
    <3>2. CASE t \notin creator
      BY <2>1, <3>2 DEF Lock, OpenIfNew, CacheInv, CacheTypeOK, UnloadedIsClosed
    <3> QED BY <3>1, <3>2
  <2>2. CASE TimeOut(t) \/ PutDb(t)
    BY <2>2 DEF TimeOut, PutDb, itemVars, CacheInv, CacheTypeOK, UnloadedIsClosed
  <2> QED BY <2>1, <2>2
<1>4. CacheTypeOK'
  BY <1>1, <1>2, <1>3 DEF CacheInv, CacheTypeOK, unloadVars
<1>5. ThreadInv'
  BY <1>1 DEF CacheInv, CacheTypeOK, ThreadInv
<1>6. CreatorInv'
  BY <1>1, <1>2 DEF CacheInv, CacheTypeOK, CreatorInv, unloadVars
<1>7. UnloadInv' /\ ReferencesBounded' /\ NothingFreedInUse' /\ UnloadedIsClosed'
  BY <1>1, <1>3 DEF CacheInv, UnloadInv, ReferencesBounded, NothingFreedInUse,
                    UnloadedIsClosed, unloadVars
<1>8. ReferencesExact'
  BY <1>1, SameUsers DEF CacheInv, ReferencesExact
<1> QED BY <1>4, <1>5, <1>6, <1>7, <1>8 DEF CacheInv

LEMMA DropInv ==
  ASSUME CacheInv, NEW t \in Thread, DropReference(t)
  PROVE  CacheInv'
<1> USE DbCacheAssumption
<1>0. PICK d \in Dir : d = dir[t]
  BY DEF CacheInv, CacheTypeOK, ThreadInv, DropReference
<1>1. /\ t \notin dangling /\ pc[t] = "drop" /\ t \notin creator
      /\ d \in present /\ d \in Dir
      /\ reference' = [reference EXCEPT ![d] = @ - 1]
      /\ pc' = [pc EXCEPT ![t] = "idle"]
      /\ dir' = [dir EXCEPT ![t] = NoDir]
      /\ UNCHANGED <<present, open, expired, creator, dangling, unloadVars,
                     g_notify_stop, scanning>>
  BY <1>0 DEF CacheInv, CacheTypeOK, ThreadInv, CreatorInv, DropReference
<1>2. Users(d)' = Users(d) \ {t} /\ t \in Users(d)
  BY <1>0, <1>1 DEF Users, CacheInv, CacheTypeOK
<1>3. \A e \in Dir \ {d} : Users(e)' = Users(e)
  BY <1>0, <1>1 DEF Users, CacheInv, CacheTypeOK
<1>4. /\ Cardinality(Users(d)') = Cardinality(Users(d)) - 1
      /\ Cardinality(Users(d)') \in Nat
  <2>1. Users(d) \in SUBSET Thread /\ Users(d) \ {t} \in SUBSET Thread
    BY DEF Users
  <2> QED BY <1>2, <2>1, ThreadsFinite, FS_RemoveElement
<1>5. reference[d] = Cardinality(Users(d))
  BY <1>1 DEF CacheInv, ReferencesExact
<1>6. /\ reference' \in [Dir -> Nat]
      /\ reference'[d] = Cardinality(Users(d)')
      /\ reference'[d] <= reference[d]
      /\ \A e \in Dir \ {d} : reference'[e] = reference[e]
  BY <1>1, <1>4, <1>5 DEF CacheInv, CacheTypeOK
<1>7. CacheTypeOK'
  BY <1>1, <1>6 DEF CacheInv, CacheTypeOK, unloadVars
<1>8. ThreadInv'
  BY <1>1 DEF CacheInv, CacheTypeOK, ThreadInv
<1>9. CreatorInv'
  BY <1>1 DEF CacheInv, CacheTypeOK, CreatorInv, unloadVars
<1>10. ReferencesExact'
  BY <1>1, <1>3, <1>6 DEF CacheInv, CacheTypeOK, ReferencesExact
<1>11. ReferencesBounded'
  BY <1>1, <1>6 DEF CacheInv, CacheTypeOK, ReferencesBounded
<1>12. UnloadInv' /\ NothingFreedInUse' /\ UnloadedIsClosed'
  BY <1>1 DEF CacheInv, UnloadInv, NothingFreedInUse, UnloadedIsClosed, unloadVars
<1> QED BY <1>7, <1>8, <1>9, <1>10, <1>11, <1>12 DEF CacheInv

LEMMA UnloadStepInv ==
  ASSUME CacheInv, NEW u \in Unloader,
         Unload(u) \/ \E d \in Dir : StartUnload(u, d)
  PROVE  CacheInv'
<1> USE DbCacheAssumption
<1>1. UNCHANGED <<open, threadVars, g_notify_stop, scanning>>
  BY DEF Unload, UnloadAbsent, UnloadPresent, StartUnload, itemVars
<1>2. \A d : Users(d)' = Users(d)
  BY <1>1, SameUsers DEF threadVars
<1>3. CASE \E d \in Dir : StartUnload(u, d)
  <2>1. UNCHANGED <<itemVars, unloaded>>
    BY <1>3 DEF StartUnload
  <2>2. CacheTypeOK' /\ UnloadInv'
    BY <1>1, <1>3, <2>1 DEF StartUnload, CacheInv, CacheTypeOK, UnloadInv, itemVars,
                            threadVars
  <2> QED BY <1>1, <1>2, <2>1, <2>2
          DEF CacheInv, ThreadInv, CreatorInv, ReferencesExact, ReferencesBounded,
              NothingFreedInUse, UnloadedIsClosed, itemVars, threadVars
<1>4. CASE UnloadPresent(u)
  <2>1. udir[u] \in Dir /\ udir[u] \in present /\ tries[u] < MaxTries
    BY <1>4 DEF UnloadPresent, CacheInv, CacheTypeOK, UnloadInv
  <2>2. CacheTypeOK' /\ UnloadInv'
    BY <1>1, <1>4, <2>1 DEF UnloadPresent, CacheInv, CacheTypeOK, UnloadInv, threadVars
  <2> QED BY <1>1, <1>2, <1>4, <2>2
          DEF UnloadPresent, CacheInv, ThreadInv, CreatorInv, ReferencesExact,
              ReferencesBounded, NothingFreedInUse, UnloadedIsClosed, threadVars
<1>5. CASE UnloadAbsent(u)
  <2>0. PICK d \in Dir : d = udir[u]
    BY <1>5 DEF UnloadAbsent, CacheInv, CacheTypeOK
  <2>1. /\ d \in Dir /\ d \notin present
        /\ present \subseteq present' /\ present' \subseteq present \cup {d}
        /\ reference' = [reference EXCEPT ![d] = 0]
        /\ unloaded' = unloaded \cup {d}
        /\ udir' = [udir EXCEPT ![u] = NoDir] /\ tries' = tries
        /\ expired' \subseteq expired
    BY <1>5, <2>0 DEF UnloadAbsent, CacheInv, CacheTypeOK
  <2>2. Users(d) = {}
    BY <2>1 DEF Users, CacheInv, CacheTypeOK, ThreadInv
  <2>3. CacheTypeOK' /\ UnloadInv'
    BY <1>1, <2>1 DEF CacheInv, CacheTypeOK, UnloadInv, threadVars
  <2>4. ThreadInv'
    BY <1>1, <2>1 DEF CacheInv, ThreadInv, threadVars
  <2>5. CreatorInv'
    <3>1. \A t \in creator : dir[t] \in present
      BY DEF CacheInv, CacheTypeOK, CreatorInv, ThreadInv
    <3> QED BY <1>1, <2>1, <3>1 DEF CacheInv, CreatorInv, threadVars
  <2>6. ReferencesExact' /\ ReferencesBounded'
    <3>1. /\ Cardinality(Users(d)') = 0 /\ reference'[d] = 0
          /\ \A e \in present : reference'[e] = reference[e]
      BY <1>2, <2>1, <2>2, FS_EmptySet DEF CacheInv, CacheTypeOK
    <3>2. \A e \in present : Cardinality(Users(e)') = Cardinality(Users(e))
      BY <1>2
    <3>3. \A e \in present' : e = d \/ e \in present
      BY <2>1
    <3>4. ReferencesExact'
      BY <3>1, <3>2, <3>3 DEF CacheInv, ReferencesExact
    <3>5. ReferencesBounded'
      BY <3>1, <3>3 DEF CacheInv, ReferencesBounded
    <3> QED BY <3>4, <3>5
  <2>7. NothingFreedInUse' /\ UnloadedIsClosed'
    BY <1>1, <2>1 DEF CacheInv, CacheTypeOK, NothingFreedInUse, UnloadedIsClosed,
                      threadVars
  <2> QED BY <2>3, <2>4, <2>5, <2>6, <2>7 DEF CacheInv
<1> QED BY <1>3, <1>4, <1>5 DEF Unload

\* Freeing items: nobody who keeps an item is disturbed.
LEMMA FreeInv ==
  ASSUME CacheInv, NEW S \in SUBSET present, Free(S),
         UNCHANGED <<pc, dir, unloadVars, g_notify_stop>>,
         scanning' \in BOOLEAN,
         g_notify_stop \/ \A d \in S : reference[d] = 0
  PROVE  CacheInv'
<1> USE DbCacheAssumption
<1>1. /\ present' = present \ S /\ open' = open \ S /\ expired' = expired \ S
      /\ dangling' = dangling \cup {t \in Thread : dir[t] \in S}
      /\ creator' = {t \in creator : dir[t] \notin S}
      /\ reference' = [d \in Dir |-> IF d \in S THEN 0 ELSE reference[d]]
      /\ S \subseteq Dir
  BY DEF Free, CacheInv, CacheTypeOK
<1>2. \A d \in Dir \ S : Users(d)' = Users(d)
  BY <1>1 DEF Users
<1>3. CacheTypeOK'
  BY <1>1 DEF CacheInv, CacheTypeOK, unloadVars
<1>4. ThreadInv'
  BY <1>1 DEF CacheInv, CacheTypeOK, ThreadInv
<1>5. CreatorInv'
  BY <1>1 DEF CacheInv, CacheTypeOK, CreatorInv, unloadVars
<1>6. ReferencesExact' /\ ReferencesBounded'
  BY <1>1, <1>2 DEF CacheInv, CacheTypeOK, ReferencesExact, ReferencesBounded
<1>7. NothingFreedInUse'
  <2>1. ASSUME NEW t \in Thread, dir[t] \in S, ~g_notify_stop
        PROVE  t \in dangling
    <3>1. Users(dir[t]) = {}
      BY <2>1, NoReferenceNoUser
    <3> QED BY <3>1 DEF Users
  <2> QED BY <1>1, <2>1 DEF CacheInv, NothingFreedInUse
<1>8. UnloadInv' /\ UnloadedIsClosed'
  BY <1>1 DEF CacheInv, UnloadInv, UnloadedIsClosed, unloadVars
<1> QED BY <1>3, <1>4, <1>5, <1>6, <1>7, <1>8 DEF CacheInv

LEMMA AgeInv ==
  ASSUME CacheInv, NEW d \in Dir, Age(d)
  PROVE  CacheInv'
<1>1. /\ expired' = expired \cup {d} /\ d \in present
      /\ UNCHANGED <<present, reference, open, threadVars, unloadVars,
                     g_notify_stop, scanning>>
  BY DEF Age
<1>2. \A e : Users(e)' = Users(e)
  BY <1>1, SameUsers DEF threadVars
<1> QED BY <1>1, <1>2
        DEF CacheInv, CacheTypeOK, ThreadInv, CreatorInv, UnloadInv, ReferencesExact,
            ReferencesBounded, NothingFreedInUse, UnloadedIsClosed, threadVars,
            unloadVars

-----------------------------------------------------------------------------
LEMMA InitInv == Init => CacheInv
<1> SUFFICES ASSUME Init
             PROVE  CacheInv
  OBVIOUS
<1>1. CacheTypeOK
  <2>1. udir \in [Unloader -> Dir \cup {NoDir}] /\ tries \in [Unloader -> 0..MaxTries]
    BY DbCacheAssumption DEF Init
  <2>2. pc \in [Thread -> {"idle", "lock", "have", "drop"}]
    BY DEF Init
  <2>3. dir \in [Thread -> Dir \cup {NoDir}] /\ reference \in [Dir -> Nat]
    BY DEF Init
  <2> QED BY <2>1, <2>2, <2>3 DEF Init, CacheTypeOK
<1>2. ThreadInv /\ CreatorInv /\ UnloadInv
  BY DbCacheAssumption DEF Init, ThreadInv, CreatorInv, UnloadInv
<1>3. /\ ReferencesExact /\ ReferencesBounded
      /\ NothingFreedInUse /\ UnloadedIsClosed
  BY DEF Init, ReferencesExact, ReferencesBounded, NothingFreedInUse, UnloadedIsClosed
<1> QED BY <1>1, <1>2, <1>3 DEF CacheInv

\* Every step of the cache keeps CacheInv.
LEMMA NextInv ==
  ASSUME CacheInv, [CacheNext]_cacheVars
  PROVE  CacheInv'
<1>1. CASE UNCHANGED cacheVars
  BY <1>1, SameUsers
  DEF cacheVars, itemVars, threadVars, unloadVars, CacheInv, CacheTypeOK, ThreadInv,
      CreatorInv, UnloadInv, ReferencesExact, ReferencesBounded, NothingFreedInUse,
      UnloadedIsClosed
<1>2. CASE \E t \in Thread : Use(t) \/ \E d \in Dir : GetDb(t, d)
  BY <1>2, GetDbInv, HoldInv, DropInv DEF Use
<1>3. CASE \E u \in Unloader :
             Unload(u) \/ (~g_notify_stop /\ \E d \in Dir : StartUnload(u, d))
  BY <1>3, UnloadStepInv
<1>4. CASE \E d \in Dir : Age(d)
  BY <1>4, AgeInv
<1>5. CASE Scan
  <2>1. /\ Unwanted \in SUBSET present
        /\ \A d \in Unwanted : reference[d] = 0
        /\ Free(Unwanted)
        /\ scanning' \in BOOLEAN
        /\ UNCHANGED <<pc, dir, unloadVars, g_notify_stop>>
    BY <1>5 DEF Scan, Unwanted, CacheInv, CacheTypeOK
  <2> QED BY <2>1, FreeInv
<1>6. CASE ScanEnds
  BY <1>6, FreeInv DEF ScanEnds
<1>7. CASE Stop
  BY <1>7, SameUsers
  DEF Stop, itemVars, threadVars, unloadVars, CacheInv, CacheTypeOK, ThreadInv,
      CreatorInv, UnloadInv, ReferencesExact, ReferencesBounded, NothingFreedInUse,
      UnloadedIsClosed
<1> QED BY <1>1, <1>2, <1>3, <1>4, <1>5, <1>6, <1>7 DEF CacheNext

\* What the cache knows of its items and their users, in every state.
THEOREM CacheCorrect == CacheSpec => []CacheInv
BY InitInv, NextInv, PTL DEF CacheSpec

\* The reference counts are exact, through timeouts and refusals.
THEOREM ReferencesCorrect == CacheSpec => []ReferencesExact
<1>1. CacheInv => ReferencesExact
  BY DEF CacheInv
<1> QED BY <1>1, CacheCorrect, PTL

\* The scan thread takes no item from under a thread before the engine stops.
THEOREM ItemsAreSafe == CacheSpec => []NothingFreedInUse
<1>1. CacheInv => NothingFreedInUse
  BY DEF CacheInv
<1> QED BY <1>1, CacheCorrect, PTL

\* No more than MAX_DB_WAITING_THREADS wait behind the user of a database.
THEOREM UsersAreBounded == CacheSpec => []UsersBounded
<1>1. CacheInv => UsersBounded
  BY DEF CacheInv, ReferencesExact, ReferencesBounded, UsersBounded
<1> QED BY <1>1, CacheCorrect, PTL

\* A database that has been unloaded is closed until somebody makes a new item.
THEOREM UnloadedStaysClosed == CacheSpec => []UnloadedIsClosed
<1>1. CacheInv => UnloadedIsClosed
  BY DEF CacheInv
<1> QED BY <1>1, CacheCorrect, PTL
=============================================================================
