---------------------------- MODULE DbEngineProofs ----------------------------
(***************************************************************************)
(* Proofs about db_engine as a whole.  Every step of a request or of a     *)
(* populating thread is a step of the cache or leaves it alone, so what is *)
(* proved of the cache holds of the engine; and a search is in one place,  *)
(* from the criteria that ask for it to the end of its populating thread's *)
(* work.                                                                   *)
(***************************************************************************)
EXTENDS DbEngine, DbCacheProofs, ListLemmas

-----------------------------------------------------------------------------
(* Where a search is.                                                      *)

Asked == {asked[t] : t \in User} \ {NoSearch}
Taken == {task[p] : p \in Populator} \ {NoSearch}

\* Where a populating thread may be, where it has a search, and where it counts.
Stages == {"top", "enter", "waiting", "next", "scope", "search", "notify", "reload",
           "finish", "exit"}
AtWork == {"scope", "search", "notify", "reload", "finish"}
Counting == {"scope", "search", "reload"}

\* A search is with one user, once in the one list, or in the other with one
\* populating thread.
OnePlace ==
  /\ IsInjective(g_populating_list)
  /\ Queued \cap g_populating_list1 = {}
  /\ Asked \cap (Queued \cup g_populating_list1) = {}
  /\ \A t, s \in User : asked[t] = asked[s] /\ asked[t] # NoSearch => t = s
  /\ Taken \subseteq g_populating_list1
  /\ \A p, q \in Populator : task[p] = task[q] /\ task[p] # NoSearch => p = q

\* A search that is not over is for the folder's criteria or has been overtaken.
KnownAsOvertaken ==
  \A n \in Asked \cup Queued \cup g_populating_list1 :
    /\ n.criterion <= criterion[n.folder]
    /\ n.criterion = criterion[n.folder] \/ n \in overtaken

WorkInv ==
  \A p \in Populator :
    /\ Working(p) => task[p] # NoSearch
    /\ stage[p] \in Counting => left[p] > 0

SearchType ==
  /\ criterion \in [Folder -> 0..MaxCriteria]
  /\ results \in [Folder -> SUBSET (1..MaxCriteria)]
  /\ overtaken \subseteq Search
  /\ asked \in [User -> Search \cup {NoSearch}]
  /\ signals \subseteq User
  /\ g_populating_list \in Seq(Search)
  /\ g_populating_list1 \subseteq Search
  /\ stage \in [Populator -> Stages]
  /\ task \in [Populator -> Search \cup {NoSearch}]
  /\ left \in [Populator -> Nat]
  /\ stop_pc \in {"running", "joining", "stopped"}

SearchInv ==
  /\ SearchType
  /\ OnePlace
  /\ KnownAsOvertaken
  /\ WorkInv
  /\ OnlyOvertakenSearchesLinger

\* How many databases a thread at stage s with l things left has still to get.
Gets(s, l) ==
  CASE s = "scope" -> l + Pieces + 1 + Tables
    [] s = "search" -> l + 1 + Tables
    [] s = "notify" -> 1 + Tables
    [] s = "reload" -> l
    [] OTHER -> 0

LEMMA GetsAre ==
  ASSUME NEW l \in Nat
  PROVE  /\ Gets("scope", l) = l + Pieces + 1 + Tables
         /\ Gets("search", l) = l + 1 + Tables
         /\ Gets("notify", l) = 1 + Tables
         /\ Gets("reload", l) = l
         /\ Gets("finish", l) = 0
BY DEF Gets

\* A step that only moves populating threads on, or none of them.
LEMMA StageStep ==
  ASSUME SearchInv, UNCHANGED <<folderVars, searchVars, task>>,
         stop_pc' \in {"running", "joining", "stopped"},
         stage' \in [Populator -> Stages],
         left' \in [Populator -> Nat],
         \A p \in Populator :
           \/ stage'[p] = stage[p] /\ left'[p] = left[p]
           \/ /\ Working(p) \/ stage'[p] \notin AtWork
              /\ stage'[p] \in Counting => left'[p] > 0
  PROVE  SearchInv'
<1>1. SearchType'
  BY DEF SearchInv, SearchType, folderVars, searchVars
<1>2. OnePlace' /\ KnownAsOvertaken'
  BY DEF SearchInv, OnePlace, KnownAsOvertaken, Asked, Taken, Queued, folderVars,
         searchVars
<1>3. WorkInv'
  BY DEF SearchInv, WorkInv, Working, AtWork
<1>4. OnlyOvertakenSearchesLinger'
  BY DEF SearchInv, OnlyOvertakenSearchesLinger, folderVars
<1> QED BY <1>1, <1>2, <1>3, <1>4 DEF SearchInv

\* A thread that does not get the database has fewer of them to get.
LEMMA GoOnFalls ==
  ASSUME SearchInv, NEW p \in Populator, UsesDb(p), GoOn(p)
  PROVE  \E s \in {"notify", "reload", "finish"}, l \in Nat :
           /\ stage' = [stage EXCEPT ![p] = s]
           /\ left' = [left EXCEPT ![p] = l]
           /\ s \in Counting => l > 0
           /\ Gets(s, l) < Gets(stage[p], left[p])
<1> USE DbEngineAssumption
<1>1. /\ left \in [Populator -> Nat]
      /\ left[p] \in Nat
      /\ stage[p] \in Counting => left[p] > 0
  BY DEF SearchInv, SearchType, WorkInv
<1>2. CASE stage[p] = "reload"
  <2>1. left[p] > 0 /\ left[p] - 1 \in Nat
    BY <1>1, <1>2 DEF Counting
  <2>2. /\ left' = [left EXCEPT ![p] = left[p] - 1]
        /\ stage' = [stage EXCEPT ![p] = IF left[p] > 1 THEN "reload" ELSE "finish"]
    BY <1>2 DEF GoOn, NextTable, Goto
  <2>3. CASE left[p] > 1
    <3>1. Gets("reload", left[p] - 1) < Gets("reload", left[p])
      BY <1>1, <2>1, GetsAre
    <3>2. left[p] - 1 > 0
      BY <1>1, <2>3
    <3> QED BY <1>2, <2>1, <2>2, <2>3, <3>1, <3>2
  <2>4. CASE ~ (left[p] > 1)
    <3>1. Gets("finish", left[p] - 1) < Gets("reload", left[p])
      BY <1>1, <2>1, GetsAre
    <3> QED BY <1>2, <2>1, <2>2, <2>4, <3>1 DEF Counting
  <2> QED BY <2>3, <2>4
<1>3. CASE stage[p] # "reload"
  <2>1. left' = [left EXCEPT ![p] = left[p]]
    BY <1>1, <1>3 DEF GoOn
  <2>2. PICK s \in {"notify", "finish"} :
          stage' = [stage EXCEPT ![p] = s] /\ (s = "notify" => stage[p] = "search")
    BY <1>3 DEF GoOn, Goto, Searched
  <2>3. Gets(s, left[p]) < Gets(stage[p], left[p])
    <3>1. stage[p] \in {"scope", "search", "notify"}
      BY <1>3 DEF UsesDb
    <3>2. CASE s = "finish"
      BY <1>1, <3>1, <3>2, GetsAre DEF Counting
    <3>3. CASE s = "notify"
      BY <1>1, <2>2, <3>3, GetsAre DEF Counting
    <3> QED BY <3>2, <3>3
  <2> QED BY <1>1, <2>1, <2>2, <2>3 DEF Counting
<1> QED BY <1>2, <1>3

\* The steps by which a thread gets on with its search.
GetsOn(p) ==
  \/ GoWithoutDb(p) \/ SkipWhenStopping(p) \/ PopulatorTimeOut(p) \/ LeaveClosedDb(p)
  \/ LoadFolderDecendant(p) \/ SearchFolder(p) \/ NotifyCompletion(p)
  \/ ReloadContentTable(p)

\* Each of them leaves it fewer databases to get.
LEMMA GetsFall ==
  ASSUME SearchInv, NEW p \in Populator, GetsOn(p)
  PROVE  /\ stage[p] \in {"scope", "search", "notify", "reload"}
         /\ \E s \in AtWork, l \in Nat :
              /\ stage' = [stage EXCEPT ![p] = s]
              /\ left' = [left EXCEPT ![p] = l]
              /\ s \in Counting => l > 0
              /\ Gets(s, l) < Gets(stage[p], left[p])
<1> USE DbEngineAssumption
<1>1. /\ left \in [Populator -> Nat]
      /\ stage \in [Populator -> Stages]
      /\ left[p] \in Nat
      /\ stage[p] \in Counting => left[p] > 0
  BY DEF SearchInv, SearchType, WorkInv
<1>2. CASE GoWithoutDb(p) \/ PopulatorTimeOut(p) \/ LeaveClosedDb(p)
  <2>1. UsesDb(p) /\ GoOn(p)
    BY <1>2 DEF GoWithoutDb, PopulatorTimeOut, LeaveClosedDb, NeedsDb
  <2>2. \A s \in {"notify", "reload", "finish"} : s \in AtWork
    BY DEF AtWork
  <2> QED BY <2>1, <2>2, GoOnFalls DEF UsesDb
<1>3. CASE SkipWhenStopping(p)
  <2>1. /\ stage[p] \in {"search", "notify"}
        /\ stage' = [stage EXCEPT ![p] = "finish"]
        /\ left' = [left EXCEPT ![p] = left[p]]
    BY <1>1, <1>3 DEF SkipWhenStopping, Goto
  <2>2. Gets("finish", left[p]) < Gets(stage[p], left[p])
    BY <1>1, <2>1, GetsAre DEF Counting
  <2> QED BY <1>1, <2>1, <2>2 DEF AtWork, Counting
<1>4. CASE LoadFolderDecendant(p)
  <2>1. stage[p] = "scope" /\ left[p] > 0
    BY <1>1, <1>4 DEF LoadFolderDecendant, Counting
  <2>2. CASE left[p] > 1
    <3>1. /\ left' = [left EXCEPT ![p] = left[p] - 1]
          /\ stage' = [stage EXCEPT ![p] = "scope"]
      BY <1>1, <1>4, <2>1, <2>2 DEF LoadFolderDecendant
    <3>2. left[p] - 1 \in Nat /\ left[p] - 1 > 0
      BY <1>1, <2>2
    <3>3. Gets("scope", left[p] - 1) < Gets("scope", left[p])
      BY <1>1, <3>2, GetsAre
    <3> QED BY <2>1, <3>1, <3>2, <3>3 DEF AtWork
  <2>3. CASE left[p] = 1
    <3>1. /\ left' = [left EXCEPT ![p] = Pieces]
          /\ \E s \in {"finish", "search"} : stage' = [stage EXCEPT ![p] = s]
      BY <1>4, <2>3 DEF LoadFolderDecendant, Goto
    <3>2. Pieces \in Nat /\ Pieces > 0
      OBVIOUS
    <3>3. /\ Gets("finish", Pieces) < Gets("scope", left[p])
          /\ Gets("search", Pieces) < Gets("scope", left[p])
      BY <1>1, <2>1, <3>2, GetsAre
    <3> QED BY <2>1, <3>1, <3>2, <3>3 DEF AtWork
  <2> QED BY <1>1, <2>1, <2>2, <2>3
<1>5. CASE SearchFolder(p)
  <2>1. /\ stage[p] = "search" /\ left[p] > 0
        /\ left' = [left EXCEPT ![p] = left[p] - 1]
    BY <1>1, <1>5 DEF SearchFolder, Counting
  <2>2. PICK s \in {"search", "notify", "finish"} :
          stage' = [stage EXCEPT ![p] = s] /\ (s = "search" => left[p] > 1)
    BY <1>5 DEF SearchFolder, Goto, Searched
  <2>3. left[p] - 1 \in Nat /\ (s = "search" => left[p] - 1 > 0)
    BY <1>1, <2>1, <2>2
  <2>4. Gets(s, left[p] - 1) < Gets("search", left[p])
    BY <1>1, <2>1, <2>3, GetsAre
  <2> QED BY <2>1, <2>2, <2>3, <2>4 DEF AtWork, Counting
<1>6. CASE NotifyCompletion(p)
  <2>1. PICK n \in 0..Tables :
          /\ left' = [left EXCEPT ![p] = n]
          /\ stage' = [stage EXCEPT ![p] = IF n > 0 THEN "reload" ELSE "finish"]
    BY <1>6 DEF NotifyCompletion, Goto
  <2>2. stage[p] = "notify" /\ n \in Nat
    BY <1>6 DEF NotifyCompletion
  <2>3. Gets("reload", n) < Gets("notify", left[p])
    BY <1>1, <2>2, GetsAre
  <2>4. Gets("finish", n) < Gets("notify", left[p])
    BY <1>1, <2>2, GetsAre
  <2> QED BY <2>1, <2>2, <2>3, <2>4 DEF AtWork, Counting
<1>7. CASE ReloadContentTable(p)
  <2>1. stage[p] = "reload" /\ GoOn(p) /\ UsesDb(p)
    BY <1>7 DEF ReloadContentTable, GoOn, UsesDb
  <2>2. \A s \in {"notify", "reload", "finish"} : s \in AtWork
    BY DEF AtWork
  <2> QED BY <2>1, <2>2, GoOnFalls
<1> QED BY <1>2, <1>3, <1>4, <1>5, <1>6, <1>7 DEF GetsOn

LEMMA RequestStep ==
  ASSUME SearchInv, NEW t \in User, Request(t) \/ EndRequest(t) \/ UserStep(t)
  PROVE  SearchInv'
<1>1. UNCHANGED <<folderVars, searchVars, workVars, stop_pc>>
  BY DEF Request, EndRequest, UserStep
<1> QED BY <1>1, StageStep DEF workVars, SearchInv, SearchType

LEMMA SetStep ==
  ASSUME SearchInv, NEW t \in User, SetSearchCriteria(t)
  PROVE  SearchInv'
<1> USE DbEngineAssumption
<1>1. PICK f \in Folder :
        /\ criterion[f] < MaxCriteria
        /\ criterion' = [criterion EXCEPT ![f] = @ + 1]
        /\ results' = [results EXCEPT ![f] = {}]
        /\ overtaken' = overtaken \cup Pending(f)
        /\ \/ asked' = asked
           \/ asked' = [asked EXCEPT
                          ![t] = [folder |-> f, criterion |-> criterion[f] + 1]]
  BY DEF SetSearchCriteria, ClearSearchFolder
<1>2. UNCHANGED <<signals, g_populating_list, g_populating_list1, workVars, stop_pc>>
  BY DEF SetSearchCriteria
<1> DEFINE n == [folder |-> f, criterion |-> criterion[f] + 1]
<1>3. n \in Search /\ n.folder = f /\ n.criterion = criterion[f] + 1
  BY <1>1 DEF Search, SearchInv, SearchType
<1>4. Pending(f) \in SUBSET Search
  BY DEF Pending
<1>5. SearchType'
  <2>1. asked' \in [User -> Search \cup {NoSearch}]
    BY <1>1, <1>3 DEF SearchInv, SearchType
  <2>2. criterion' \in [Folder -> 0..MaxCriteria]
    BY <1>1 DEF SearchInv, SearchType
  <2>3. results' \in [Folder -> SUBSET (1..MaxCriteria)]
    BY <1>1 DEF SearchInv, SearchType
  <2> QED BY <1>1, <1>2, <1>4, <2>1, <2>2, <2>3 DEF SearchInv, SearchType, workVars
<1>6. n \notin Asked \cup Queued \cup g_populating_list1
  BY <1>1, <1>3 DEF SearchInv, KnownAsOvertaken, SearchType
<1>7. Asked' \subseteq Asked \cup {n}
  BY <1>1 DEF Asked, SearchInv, SearchType
<1>8. OnePlace'
  <2>1. \A s, r \in User : asked'[s] = asked'[r] /\ asked'[s] # NoSearch => s = r
    <3>1. CASE asked' = asked
      BY <3>1 DEF SearchInv, OnePlace
    <3>2. CASE asked' = [asked EXCEPT ![t] = n]
      BY <1>6, <3>2 DEF SearchInv, SearchType, OnePlace, Asked
    <3> QED BY <1>1, <3>1, <3>2
  <2> QED BY <1>2, <1>6, <1>7, <2>1
          DEF SearchInv, OnePlace, Queued, Taken, workVars
<1>9. KnownAsOvertaken'
  <2>1. \A m \in Asked \cup Queued \cup g_populating_list1 :
          m \in Search /\ (m.folder = f => m \in Pending(f))
    <3>1. Queued \subseteq Search
      BY DEF Queued, ToSet, SearchInv, SearchType
    <3> QED BY <3>1 DEF Pending, Asked, SearchInv, SearchType
  <2>2. Queued' = Queued
    BY <1>2 DEF Queued
  <2>3. \A m \in Asked \cup Queued \cup g_populating_list1 :
          /\ m.criterion <= criterion'[m.folder]
          /\ m.criterion = criterion'[m.folder] \/ m \in overtaken'
    <3>1. ASSUME NEW m \in Asked \cup Queued \cup g_populating_list1
          PROVE  /\ m.criterion <= criterion'[m.folder]
                 /\ m.criterion = criterion'[m.folder] \/ m \in overtaken'
      <4>1. m.folder \in Folder /\ m.criterion \in Nat
        BY <2>1 DEF Search
      <4>2. CASE m.folder = f
        BY <1>1, <2>1, <4>1, <4>2 DEF SearchInv, KnownAsOvertaken, SearchType
      <4>3. CASE m.folder # f
        BY <1>1, <4>1, <4>3 DEF SearchInv, KnownAsOvertaken, SearchType
      <4> QED BY <4>2, <4>3
    <3> QED BY <3>1
  <2>4. n.criterion = criterion'[n.folder] /\ criterion'[f] \in Nat
    BY <1>1, <1>3 DEF SearchInv, SearchType
  <2> QED BY <1>2, <1>3, <1>7, <2>2, <2>3, <2>4 DEF KnownAsOvertaken
<1>10. WorkInv'
  BY <1>2 DEF SearchInv, WorkInv, Working, workVars
<1>11. OnlyOvertakenSearchesLinger'
  BY <1>1 DEF SearchInv, SearchType, OnlyOvertakenSearchesLinger
<1> QED BY <1>5, <1>8, <1>9, <1>10, <1>11 DEF SearchInv

LEMMA EnqueueStep ==
  ASSUME SearchInv, NEW t \in User, Enqueue(t)
  PROVE  SearchInv'
<1>1. /\ asked[t] \in Search /\ asked[t] \in Asked
      /\ asked' = [asked EXCEPT ![t] = NoSearch]
      /\ g_populating_list' = Append(g_populating_list, asked[t])
      /\ signals' = signals \cup {t}
      /\ UNCHANGED <<folderVars, g_populating_list1, workVars, stop_pc>>
  BY DEF Enqueue, SearchInv, SearchType, Asked
<1>2. /\ g_populating_list' \in Seq(Search)
      /\ Queued' = Queued \cup {asked[t]}
      /\ IsInjective(g_populating_list')
  <2>1. asked[t] \notin Queued
    BY <1>1 DEF SearchInv, OnePlace
  <2> QED BY <1>1, <2>1, AppendOne DEF SearchInv, SearchType, OnePlace, Queued
<1>3. Asked' = Asked \ {asked[t]}
  BY <1>1 DEF Asked, SearchInv, SearchType, OnePlace
<1>4. SearchType'
  BY <1>1, <1>2 DEF SearchInv, SearchType, folderVars, workVars
<1>5. OnePlace'
  <2>1. \A s, r \in User : asked'[s] = asked'[r] /\ asked'[s] # NoSearch => s = r
    BY <1>1 DEF SearchInv, SearchType, OnePlace
  <2> QED BY <1>1, <1>2, <1>3, <2>1 DEF SearchInv, OnePlace, Taken, workVars
<1>6. KnownAsOvertaken'
  BY <1>1, <1>2, <1>3 DEF SearchInv, KnownAsOvertaken, folderVars
<1>7. WorkInv' /\ OnlyOvertakenSearchesLinger'
  BY <1>1 DEF SearchInv, WorkInv, Working, OnlyOvertakenSearchesLinger, workVars,
              folderVars
<1> QED BY <1>4, <1>5, <1>6, <1>7 DEF SearchInv

LEMMA SignalStep ==
  ASSUME SearchInv, NEW t \in User, Signal(t)
  PROVE  SearchInv'
<1>1. /\ signals' \subseteq signals
      /\ UNCHANGED <<folderVars, asked, g_populating_list, g_populating_list1, task,
                     left, stop_pc>>
  BY DEF Signal
<1>2. /\ stage' \in [Populator -> Stages]
      /\ \A p \in Populator : stage'[p] = stage[p] \/ (~Working(p) /\ stage'[p] = "next")
  <2>0. stage \in [Populator -> Stages]
    BY DEF SearchInv, SearchType
  <2>1. CASE UNCHANGED stage
    <3>1. stage' = stage
      BY <2>1
    <3> QED BY <3>1, <2>0
  <2>2. CASE \E q \in Waiting : stage' = [stage EXCEPT ![q] = "next"]
    <3>1. PICK q \in Populator :
            stage[q] = "waiting" /\ stage' = [stage EXCEPT ![q] = "next"]
      BY <2>2 DEF Waiting
    <3>2. stage' \in [Populator -> Stages]
      BY <2>0, <3>1 DEF Stages
    <3>3. \A p \in Populator : stage'[p] = stage[p] \/ (~Working(p) /\ stage'[p] = "next")
      BY <2>0, <3>1 DEF Working
    <3> QED BY <3>2, <3>3
  <2>3. UNCHANGED stage \/ \E q \in Waiting : stage' = [stage EXCEPT ![q] = "next"]
    BY DEF Signal
  <2> QED BY <2>1, <2>2, <2>3
<1>3. SearchType'
  BY <1>1, <1>2 DEF SearchInv, SearchType, folderVars
<1>4. OnePlace' /\ KnownAsOvertaken' /\ OnlyOvertakenSearchesLinger'
  BY <1>1 DEF SearchInv, OnePlace, KnownAsOvertaken, OnlyOvertakenSearchesLinger,
              Asked, Taken, Queued, folderVars
<1>5. WorkInv'
  BY <1>1, <1>2 DEF SearchInv, WorkInv, Working, Counting
<1> QED BY <1>3, <1>4, <1>5 DEF SearchInv

LEMMA TakeStep ==
  ASSUME SearchInv, NEW p \in Populator, TakeSearch(p)
  PROVE  SearchInv'
<1> USE DbEngineAssumption
<1> DEFINE list == g_populating_list
<1>1. PICK n \in Search : n = Head(list)
  BY DEF TakeSearch, SearchInv, SearchType
<1>2. /\ stage[p] = "next" /\ list # <<>>
      /\ g_populating_list1' = g_populating_list1 \cup {n}
      /\ list' = Tail(list)
      /\ task' = [task EXCEPT ![p] = n]
      /\ \E k \in Nat \ {0} : left' = [left EXCEPT ![p] = k]
      /\ \E s \in {"scope", "search"} : stage' = [stage EXCEPT ![p] = s]
      /\ UNCHANGED <<folderVars, asked, signals, stop_pc>>
  BY <1>1 DEF TakeSearch, MoveHead, Goto
<1>3. /\ n \in Queued /\ Queued' = Queued \ {n}
      /\ list' \in Seq(Search) /\ IsInjective(list')
  BY <1>1, <1>2, TakeHead DEF SearchInv, SearchType, OnePlace, Queued
<1>4. n \notin g_populating_list1 /\ n \notin Taken
  BY <1>3 DEF SearchInv, OnePlace
<1>5. SearchType'
  <2>1. left' \in [Populator -> Nat] /\ stage' \in [Populator -> Stages]
    BY <1>2 DEF SearchInv, SearchType, Stages
  <2> QED BY <1>2, <1>3, <2>1 DEF SearchInv, SearchType, folderVars
<1>6. OnePlace'
  <2>1. Taken' \subseteq Taken \cup {n}
    BY <1>2 DEF Taken, SearchInv, SearchType
  <2>2. \A q, r \in Populator : task'[q] = task'[r] /\ task'[q] # NoSearch => q = r
    BY <1>2, <1>4 DEF Taken, SearchInv, SearchType, OnePlace
  <2> QED BY <1>2, <1>3, <1>4, <2>1, <2>2 DEF SearchInv, OnePlace, Asked
<1>7. KnownAsOvertaken'
  <2>1. Asked' \cup Queued' \cup g_populating_list1'
          \subseteq Asked \cup Queued \cup g_populating_list1
    BY <1>2, <1>3 DEF Asked
  <2>2. UNCHANGED <<criterion, overtaken>>
    BY <1>2 DEF folderVars
  <2> QED BY <2>1, <2>2 DEF SearchInv, KnownAsOvertaken
<1>8. WorkInv'
  <2>1. n # NoSearch
    BY DEF Search
  <2> QED BY <1>2, <2>1 DEF SearchInv, SearchType, WorkInv, Working, Counting
<1>9. OnlyOvertakenSearchesLinger'
  BY <1>2 DEF SearchInv, OnlyOvertakenSearchesLinger, folderVars
<1> QED BY <1>5, <1>6, <1>7, <1>8, <1>9 DEF SearchInv

LEMMA PieceStep ==
  ASSUME SearchInv, NEW p \in Populator, SearchFolder(p)
  PROVE  SearchInv'
<1> USE DbEngineAssumption
<1>1. PICK n \in Search : n = task[p]
  BY DEF SearchFolder, SearchInv, SearchType, WorkInv, Working
<1>2. /\ stage[p] = "search"
      /\ \/ results' = results
         \/ results' = [results EXCEPT ![n.folder] = @ \cup {n.criterion}]
      /\ UNCHANGED <<criterion, overtaken, searchVars, task, stop_pc>>
  BY <1>1 DEF SearchFolder
<1>3. n.folder \in Folder /\ n.criterion \in 1..MaxCriteria
      /\ n = [folder |-> n.folder, criterion |-> n.criterion]
  BY DEF Search
<1>4. \E s \in AtWork, l \in Nat :
        /\ stage' = [stage EXCEPT ![p] = s]
        /\ left' = [left EXCEPT ![p] = l]
        /\ s \in Counting => l > 0
  BY GetsFall DEF GetsOn
<1>5. SearchType'
  <2>1. results' \in [Folder -> SUBSET (1..MaxCriteria)]
    <3>1. results \in [Folder -> SUBSET (1..MaxCriteria)]
      BY DEF SearchInv, SearchType
    <3>2. results[n.folder] \cup {n.criterion} \in SUBSET (1..MaxCriteria)
      BY <1>3, <3>1
    <3> QED BY <1>2, <1>3, <3>1, <3>2
  <2>2. left' \in [Populator -> Nat]
    BY <1>4 DEF SearchInv, SearchType
  <2>3. stage' \in [Populator -> Stages]
    BY <1>4 DEF SearchInv, SearchType, Stages, AtWork
  <2> QED BY <1>2, <2>1, <2>2, <2>3 DEF SearchInv, SearchType, searchVars
<1>6. OnePlace' /\ KnownAsOvertaken'
  BY <1>2 DEF SearchInv, OnePlace, KnownAsOvertaken, Asked, Taken, Queued, searchVars
<1>7. WorkInv'
  BY <1>2, <1>4 DEF SearchInv, SearchType, WorkInv, Working
<1>8. OnlyOvertakenSearchesLinger'
  <2>1. n \in g_populating_list1
    <3>1. n # NoSearch
      BY DEF Search
    <3> QED BY <1>1, <3>1 DEF SearchInv, OnePlace, Taken
  <2>2. n.criterion = criterion[n.folder] \/ n \in overtaken
    BY <2>1 DEF SearchInv, KnownAsOvertaken
  <2>3. ASSUME NEW f \in Folder, NEW c \in results'[f], c # criterion[f]
        PROVE  [folder |-> f, criterion |-> c] \in overtaken
    <3>1. c \in results[f] \/ (f = n.folder /\ c = n.criterion)
      BY <1>2, <1>3, <2>3 DEF SearchInv, SearchType
    <3>2. CASE c \in results[f]
      BY <2>3, <3>2 DEF SearchInv, OnlyOvertakenSearchesLinger
    <3>3. CASE f = n.folder /\ c = n.criterion
      BY <1>3, <2>2, <2>3, <3>3
    <3> QED BY <3>1, <3>2, <3>3
  <2> QED BY <1>2, <2>3 DEF OnlyOvertakenSearchesLinger
<1> QED BY <1>5, <1>6, <1>7, <1>8 DEF SearchInv

LEMMA FinishStep ==
  ASSUME SearchInv, NEW p \in Populator, FinishSearch(p)
  PROVE  SearchInv'
<1> USE DbEngineAssumption
<1>1. /\ stage[p] = "finish"
      /\ g_populating_list1' = g_populating_list1 \ {task[p]}
      /\ task' = [task EXCEPT ![p] = NoSearch]
      /\ left' = [left EXCEPT ![p] = 0]
      /\ stage' = [stage EXCEPT ![p] = "next"]
      /\ UNCHANGED <<folderVars, asked, signals, g_populating_list, stop_pc>>
  BY DEF FinishSearch, Goto
<1>2. SearchType'
  BY <1>1 DEF SearchInv, SearchType, Stages, folderVars
<1>3. OnePlace'
  <2>1. Taken' \subseteq Taken \ {task[p]}
    BY <1>1 DEF Taken, SearchInv, SearchType, OnePlace
  <2>2. \A q, r \in Populator : task'[q] = task'[r] /\ task'[q] # NoSearch => q = r
    BY <1>1 DEF SearchInv, SearchType, OnePlace
  <2> QED BY <1>1, <2>1, <2>2 DEF SearchInv, OnePlace, Asked, Queued
<1>4. KnownAsOvertaken'
  BY <1>1 DEF SearchInv, KnownAsOvertaken, Asked, Queued, folderVars
<1>5. WorkInv' /\ OnlyOvertakenSearchesLinger'
  BY <1>1 DEF SearchInv, SearchType, WorkInv, Working, Counting,
              OnlyOvertakenSearchesLinger, folderVars
<1> QED BY <1>2, <1>3, <1>4, <1>5 DEF SearchInv

LEMMA PopulateStep ==
  ASSUME SearchInv, NEW p \in Populator, Populate(p)
  PROVE  SearchInv'
<1>1. CASE TakeSearch(p) \/ SearchFolder(p) \/ FinishSearch(p)
  BY <1>1, TakeStep, PieceStep, FinishStep
<1>2. CASE AskForDb(p) \/ PopulatorStep(p)
  <2>1. UNCHANGED <<folderVars, searchVars, workVars, stop_pc>>
    BY <1>2 DEF AskForDb, PopulatorStep
  <2> QED BY <2>1, StageStep DEF workVars, SearchInv, SearchType
<1>3. CASE TestStop(p) \/ Wait(p) \/ NoSearchLeft(p)
  <2>1. UNCHANGED <<folderVars, searchVars, task, left, stop_pc>> /\ ~Working(p)
    BY <1>3 DEF TestStop, Wait, NoSearchLeft, Working
  <2>2. \E s \in {"top", "enter", "waiting", "exit"} : Goto(p, s)
    BY <1>3 DEF TestStop, Wait, NoSearchLeft
  <2> QED BY <2>1, <2>2, StageStep
          DEF Goto, SearchInv, SearchType, Stages, AtWork, Counting
<1>4. CASE GetsOn(p) /\ ~SearchFolder(p)
  <2>1. UNCHANGED <<folderVars, searchVars, task, stop_pc>>
    BY <1>4 DEF GetsOn, GoWithoutDb, SkipWhenStopping, PopulatorTimeOut, LeaveClosedDb,
                LoadFolderDecendant, NotifyCompletion, ReloadContentTable
  <2>2. /\ Working(p)
        /\ \E s \in AtWork, l \in Nat :
             /\ stage' = [stage EXCEPT ![p] = s]
             /\ left' = [left EXCEPT ![p] = l]
             /\ s \in Counting => l > 0
    BY <1>4, GetsFall DEF Working
  <2>3. /\ stage' \in [Populator -> Stages] /\ left' \in [Populator -> Nat]
        /\ stage'[p] \in Counting => left'[p] > 0
        /\ \A q \in Populator \ {p} : stage'[q] = stage[q] /\ left'[q] = left[q]
    BY <2>2 DEF SearchInv, SearchType, Stages, AtWork
  <2>4. stop_pc' \in {"running", "joining", "stopped"}
    BY <2>1 DEF SearchInv, SearchType
  <2> QED BY <2>1, <2>2, <2>3, <2>4, StageStep
<1> QED BY <1>1, <1>2, <1>3, <1>4 DEF Populate, GetsOn

LEMMA StopStep ==
  ASSUME SearchInv, CacheStep \/ StopEngine \/ StopBroadcast \/ StopFree
  PROVE  SearchInv'
<1>1. CASE CacheStep \/ StopEngine
  <2>1. UNCHANGED <<folderVars, searchVars, workVars, stop_pc>>
    BY <1>1 DEF CacheStep, StopEngine
  <2> QED BY <2>1, StageStep DEF workVars, SearchInv, SearchType
<1>2. CASE StopBroadcast
  <2>1. /\ stage' \in [Populator -> Stages]
        /\ \A p \in Populator : \/ stage'[p] = stage[p]
                                \/ ~Working(p) /\ stage'[p] = "next"
    BY <1>2 DEF StopBroadcast, Waiting, Working, SearchInv, SearchType, Stages
  <2>2. /\ UNCHANGED <<folderVars, searchVars, task, left>>
        /\ stop_pc' = "joining"
    BY <1>2 DEF StopBroadcast
  <2> QED BY <2>1, <2>2, StageStep DEF SearchInv, SearchType, AtWork, Counting
<1>3. CASE StopFree
  <2>1. /\ g_populating_list' = <<>> /\ stop_pc' = "stopped"
        /\ UNCHANGED <<folderVars, asked, signals, g_populating_list1, workVars>>
    BY <1>3 DEF StopFree
  <2>2. g_populating_list' \in Seq(Search) /\ Queued' = {}
        /\ IsInjective(g_populating_list')
    BY <2>1 DEF Queued, ToSet, IsInjective
  <2>3. SearchType'
    BY <2>1, <2>2 DEF SearchInv, SearchType, folderVars, workVars
  <2>4. OnePlace' /\ KnownAsOvertaken'
    BY <2>1, <2>2 DEF SearchInv, OnePlace, KnownAsOvertaken, Asked, Taken, folderVars,
                      workVars
  <2>5. WorkInv' /\ OnlyOvertakenSearchesLinger'
    BY <2>1 DEF SearchInv, WorkInv, Working, OnlyOvertakenSearchesLinger, folderVars,
                workVars
  <2> QED BY <2>3, <2>4, <2>5 DEF SearchInv
<1> QED BY <1>1, <1>2, <1>3

LEMMA SearchInit == EngineInit => SearchInv
<1> SUFFICES ASSUME EngineInit
             PROVE  SearchInv
  OBVIOUS
<1> USE DbEngineAssumption
<1>1. g_populating_list \in Seq(Search) /\ Queued = {} /\ IsInjective(g_populating_list)
  BY DEF EngineInit, Queued, ToSet, IsInjective
<1>2. Asked = {} /\ Taken = {}
  BY DEF EngineInit, Asked, Taken
<1>3. SearchType
  BY <1>1 DEF EngineInit, SearchType, Stages
<1>4. OnePlace /\ KnownAsOvertaken
  BY <1>1, <1>2 DEF EngineInit, OnePlace, KnownAsOvertaken
<1>5. WorkInv /\ OnlyOvertakenSearchesLinger
  BY DEF EngineInit, WorkInv, Working, Counting, OnlyOvertakenSearchesLinger
<1> QED BY <1>3, <1>4, <1>5 DEF SearchInv

\* Every step of the engine keeps SearchInv.
LEMMA SearchNext ==
  ASSUME SearchInv, [Next]_vars
  PROVE  SearchInv'
<1>1. CASE UNCHANGED vars
  BY <1>1, StageStep DEF vars, workVars, SearchInv, SearchType
<1>2. CASE Next
  BY <1>2, RequestStep, SetStep, EnqueueStep, SignalStep, PopulateStep, StopStep
  DEF Next
<1> QED BY <1>1, <1>2

\* Where each search is and whether it is overtaken, in every state.
THEOREM SearchesCorrect == Spec => []SearchInv
BY SearchInit, SearchNext, PTL DEF Spec

\* Only searches that were not over when criteria were set again leave results
\* of the older criteria behind.
THEOREM ResultsAreCurrent == Spec => []OnlyOvertakenSearchesLinger
<1>1. SearchInv => OnlyOvertakenSearchesLinger
  BY DEF SearchInv
<1> QED BY <1>1, SearchesCorrect, PTL

-----------------------------------------------------------------------------
(* The cache under the engine.                                             *)

\* Every step of the engine is one of the cache, or none.
LEMMA NextUsesCache ==
  ASSUME SearchInv, [Next]_vars
  PROVE  [CacheNext]_cacheVars
<1> SUFFICES CacheNext \/ UNCHANGED cacheVars
  OBVIOUS
<1> USE DbEngineAssumption
<1>1. CASE UNCHANGED vars
  BY <1>1 DEF vars
<1>2. ASSUME NEW t \in User,
             \/ Request(t) \/ SetSearchCriteria(t) \/ EndRequest(t) \/ UserStep(t)
             \/ Enqueue(t) \/ Signal(t)
      PROVE  CacheNext \/ UNCHANGED cacheVars
  BY <1>2 DEF Request, SetSearchCriteria, EndRequest, UserStep, Enqueue, Signal,
              CacheNext, Use
<1>3. ASSUME NEW p \in Populator, Populate(p)
      PROVE  CacheNext \/ UNCHANGED cacheVars
  <2>1. CASE AskForDb(p)
    <3>1. TaskDir(p) \in Dir
      BY <2>1 DEF AskForDb, NeedsDb, UsesDb, TaskDir, Search, SearchInv, SearchType, WorkInv,
                  Working
    <3> QED BY <2>1, <3>1 DEF AskForDb, CacheNext
  <2>2. CASE \/ PopulatorTimeOut(p) \/ PopulatorStep(p) \/ LeaveClosedDb(p)
             \/ LoadFolderDecendant(p) \/ SearchFolder(p) \/ NotifyCompletion(p)
             \/ ReloadContentTable(p)
    BY <2>2 DEF PopulatorTimeOut, PopulatorStep, LeaveClosedDb, LoadFolderDecendant,
                SearchFolder, NotifyCompletion, ReloadContentTable, CacheNext, Use
  <2>3. CASE \/ TestStop(p) \/ Wait(p) \/ TakeSearch(p) \/ NoSearchLeft(p)
             \/ GoWithoutDb(p) \/ SkipWhenStopping(p) \/ FinishSearch(p)
    BY <2>3 DEF TestStop, Wait, TakeSearch, NoSearchLeft, GoWithoutDb,
                SkipWhenStopping, FinishSearch
  <2> QED BY <1>3, <2>1, <2>2, <2>3 DEF Populate
<1>4. CASE CacheStep \/ StopEngine \/ StopBroadcast \/ StopFree
  BY <1>4 DEF CacheStep, StopEngine, StopBroadcast, StopFree, CacheNext
<1> QED BY <1>1, <1>2, <1>3, <1>4 DEF Next

\* The engine uses the cache as DbCache has it used.
THEOREM EngineUsesCache == Spec => CacheSpec
<1>1. EngineInit => Init
  BY DEF EngineInit
<1> QED BY <1>1, NextUsesCache, SearchesCorrect, PTL DEF Spec, CacheSpec

\* What is proved of the cache holds with requests, searches and stops around it.
THEOREM CacheSafeInEngine ==
  Spec => [](ReferencesExact /\ NothingFreedInUse /\ UsersBounded /\ UnloadedIsClosed)
BY EngineUsesCache, ReferencesCorrect, ItemsAreSafe, UsersAreBounded,
   UnloadedStaysClosed, PTL
\* The types of the engine's variables, those of the cache among them.
THEOREM EngineTypesCorrect == Spec => []TypeOK
<1>1. SearchInv /\ CacheTypeOK => TypeOK
  BY DEF SearchInv, SearchType, Stages, TypeOK
<1> QED BY <1>1, SearchesCorrect, EngineUsesCache, CacheCorrect, PTL DEF CacheInv

\* A search adds results only while its folder is shown as being rebuilt.
THEOREM ResultsGrowInView == Spec => PopulatingIsTold
<1>1. ASSUME SearchInv, [Next]_vars,
             NEW f \in Folder, results'[f] \ results[f] # {}
      PROVE  CheckPopulating(f)
  <2>1. CASE \E p \in Populator : SearchFolder(p)
    <3>1. PICK p \in Populator : SearchFolder(p)
      BY <2>1
    <3>2. task[p] \in g_populating_list1
      <4>1. task[p] # NoSearch
        BY <1>1, <3>1 DEF SearchFolder, SearchInv, WorkInv, Working
      <4>2. task[p] \in Taken
        BY <4>1 DEF Taken
      <4> QED BY <1>1, <4>2 DEF SearchInv, OnePlace
    <3>3. \/ results' = results
          \/ results' = [results EXCEPT ![task[p].folder] = @ \cup {task[p].criterion}]
      BY <3>1 DEF SearchFolder
    <3>4. task[p].folder = f
      BY <1>1, <3>3 DEF SearchInv, SearchType
    <3> QED BY <3>2, <3>4 DEF CheckPopulating
  <2>2. CASE \E t \in User : SetSearchCriteria(t)
    BY <1>1, <2>2 DEF SetSearchCriteria, ClearSearchFolder, SearchInv, SearchType
  <2>3. CASE UNCHANGED results
    BY <1>1, <2>3
  <2>4. \/ \E p \in Populator : SearchFolder(p)
        \/ \E t \in User : SetSearchCriteria(t)
        \/ UNCHANGED results
    BY <1>1 DEF Next, vars, folderVars, Request, EndRequest, UserStep, Enqueue, Signal,
                Populate, TestStop, Wait, TakeSearch, NoSearchLeft, AskForDb,
                GoWithoutDb, SkipWhenStopping, PopulatorTimeOut, PopulatorStep,
                LeaveClosedDb, LoadFolderDecendant, NotifyCompletion,
                ReloadContentTable, FinishSearch, CacheStep, StopEngine, StopBroadcast, StopFree
  <2> QED BY <2>1, <2>2, <2>3, <2>4
<1>2. SearchInv /\ [Next]_vars =>
        [\A f \in Folder : results'[f] \ results[f] # {} => CheckPopulating(f)]_vars
  BY <1>1
<1> QED BY <1>2, SearchesCorrect, PTL DEF Spec, PopulatingIsTold

-----------------------------------------------------------------------------
(* The progress of the populating threads.                                 *)

\* A populating thread has a database only in the middle of a search, and gives it
\* back before it ends one.
StageInv ==
  \A p \in Populator :
    /\ ~ Working(p) => pc[p] = "idle"
    /\ stage[p] = "finish" => pc[p] \in {"idle", "drop"}

\* When the engine stops nobody asks it for anything, and the scan thread ends
\* first.
RestInv ==
  /\ g_notify_stop => \A t \in User : AtRest(t)
  /\ stop_pc # "running" => g_notify_stop /\ ~ scanning

GoInv == SearchInv /\ CacheTypeOK /\ StageInv /\ RestInv

\* Where a thread is with the database it gets.
Counters == {"drop", "idle", "lock", "have"}
Rank(c) == [drop |-> 3, idle |-> 2, lock |-> 1, have |-> 0][c]

\* StepsLeft of a thread at stage s with l things left, the cache's counter at c.
Steps(s, l, c) ==
  IF s \in AtWork
  THEN 4 * Gets(s, l) + Rank(c)
  ELSE CASE s = "waiting" -> 2 [] s = "exit" -> 0 [] OTHER -> 1

LEMMA StepsOf ==
  ASSUME NEW p \in Populator
  PROVE  /\ StepsLeft(p) = Steps(stage[p], left[p], pc[p])
         /\ StepsLeft(p)' = Steps(stage'[p], left'[p], pc'[p])
BY DEF StepsLeft, Steps, DbsLeft, Gets, Rank, Working, AtWork

LEMMA RankIs ==
  /\ Rank("drop") = 3 /\ Rank("idle") = 2 /\ Rank("lock") = 1 /\ Rank("have") = 0
  /\ \A c \in Counters : Rank(c) \in 0..3
BY DEF Rank, Counters

LEMMA GetsIsNat ==
  ASSUME NEW s \in AtWork, NEW l \in Nat
  PROVE  Gets(s, l) \in Nat
BY DbEngineAssumption DEF Gets, AtWork

\* The steps out of work.
LEMMA StepsAre ==
  ASSUME NEW l, NEW c
  PROVE  /\ Steps("waiting", l, c) = 2
         /\ \A s \in {"next", "top", "enter"} : Steps(s, l, c) = 1
         /\ Steps("exit", l, c) = 0
BY DEF Steps, AtWork

\* Fewer databases to get, or a step on with the one.
LEMMA StepsFall ==
  ASSUME NEW s \in AtWork, NEW l \in Nat, NEW c \in Counters,
         NEW r \in AtWork, NEW k \in Nat, NEW d \in Counters,
         \/ Gets(r, k) < Gets(s, l)
         \/ Gets(r, k) = Gets(s, l) /\ Rank(d) < Rank(c)
  PROVE  Steps(r, k, d) < Steps(s, l, c)
<1> DEFINE G == Gets(s, l)
           H == Gets(r, k)
           R == Rank(c)
           Q == Rank(d)
<1>1. /\ G \in Nat /\ H \in Nat /\ R \in 0..3 /\ Q \in 0..3
      /\ H < G \/ (H = G /\ Q < R)
  BY GetsIsNat, RankIs
<1>2. Steps(r, k, d) = 4 * H + Q /\ Steps(s, l, c) = 4 * G + R
  BY DEF Steps
<1> HIDE DEF G, H, R, Q
<1>3. 4 * H + Q < 4 * G + R
  BY <1>1
<1> QED BY <1>2, <1>3

\* What a populating thread's step leaves alone.
LEMMA PopulatorKeeps ==
  ASSUME GoInv, NEW p \in Populator, Populate(p)
  PROVE  /\ \A q \in Populator \ {p} :
              stage'[q] = stage[q] /\ pc'[q] = pc[q] /\ left'[q] = left[q]
         /\ \A t \in User : pc'[t] = pc[t]
         /\ UNCHANGED <<asked, signals, stop_pc, g_notify_stop, scanning, dangling>>
<1> USE DbEngineAssumption
<1>1. /\ p \in Thread
      /\ stage \in [Populator -> Stages]
      /\ left \in [Populator -> Nat]
      /\ pc \in [Thread -> {"idle", "lock", "have", "drop"}]
  BY DEF GoInv, SearchInv, SearchType, CacheTypeOK
<1>2. /\ UNCHANGED left \/ \E l : left' = [left EXCEPT ![p] = l]
      /\ UNCHANGED stage \/ \E s : stage' = [stage EXCEPT ![p] = s]
      /\ UNCHANGED pc \/ \E c : pc' = [pc EXCEPT ![p] = c]
      /\ UNCHANGED <<asked, signals, stop_pc, g_notify_stop, scanning, dangling>>
  <2>1. CASE TestStop(p) \/ Wait(p) \/ NoSearchLeft(p)
    BY <2>1 DEF TestStop, Wait, NoSearchLeft, Goto, cacheVars, threadVars, searchVars
  <2>2. CASE TakeSearch(p) \/ FinishSearch(p)
    BY <2>2 DEF TakeSearch, FinishSearch, Goto, cacheVars, threadVars
  <2>3. CASE AskForDb(p)
    BY <2>3 DEF AskForDb, GetDb, searchVars, workVars
  <2>4. CASE PopulatorStep(p)
    BY <2>4 DEF PopulatorStep, Lock, DropReference, searchVars, workVars
  <2>5. CASE GetsOn(p)
    <3>1. /\ \E l : left' = [left EXCEPT ![p] = l]
          /\ \E s : stage' = [stage EXCEPT ![p] = s]
      BY <2>5, GetsFall DEF GoInv
    <3>2. /\ UNCHANGED pc \/ \E c : pc' = [pc EXCEPT ![p] = c]
          /\ UNCHANGED <<asked, signals, stop_pc, g_notify_stop, scanning, dangling>>
      BY <2>5 DEF GetsOn, GoWithoutDb, SkipWhenStopping, PopulatorTimeOut,
                  LeaveClosedDb, LoadFolderDecendant, SearchFolder, NotifyCompletion,
                  ReloadContentTable, TimeOut, PutDb, cacheVars, threadVars, searchVars
    <3> QED BY <3>1, <3>2
  <2> QED BY <2>1, <2>2, <2>3, <2>4, <2>5 DEF Populate, GetsOn
<1>3. \A q \in Populator \ {p} :
        stage'[q] = stage[q] /\ pc'[q] = pc[q] /\ left'[q] = left[q]
  BY <1>1, <1>2
<1>4. \A t \in User : pc'[t] = pc[t]
  BY <1>1, <1>2
<1> QED BY <1>2, <1>3, <1>4

\* A populating thread's steps at its search, each with what it leads to.
LEMMA PopulatorFalls ==
  ASSUME GoInv, NEW p \in Populator, Populate(p)
  PROVE  /\ stage'[p] \notin AtWork => pc'[p] = "idle"
         /\ stage'[p] = "finish" => pc'[p] \in {"idle", "drop"}
         /\ stage'[p] \in {"enter", "waiting"} =>
              ~g_notify_stop \/ stage[p] = "enter"
         /\ Working(p) \/ Stopping =>
              Steps(stage'[p], left'[p], pc'[p]) < Steps(stage[p], left[p], pc[p])
<1> USE DbEngineAssumption
<1>1. /\ p \in Thread
      /\ stage \in [Populator -> Stages]
      /\ left \in [Populator -> Nat]
      /\ left[p] \in Nat
      /\ pc \in [Thread -> Counters]
      /\ Working(p) <=> stage[p] \in AtWork
      /\ ~Working(p) => pc[p] = "idle"
      /\ stage[p] = "finish" => pc[p] \in {"idle", "drop"}
  BY DEF GoInv, SearchInv, SearchType, CacheTypeOK, StageInv, Working, AtWork, Counters
<1>2. CASE TestStop(p) \/ NoSearchLeft(p)
  <2>1. /\ stage[p] \in {"top", "next"} /\ pc'[p] = pc[p] /\ left'[p] = left[p]
        /\ stage'[p] \in {"exit", "enter", "top"}
        /\ g_notify_stop => stage'[p] = "exit"
    BY <1>1, <1>2 DEF TestStop, NoSearchLeft, Goto, cacheVars, threadVars
  <2> QED BY <1>1, <2>1, StepsAre DEF AtWork, Stopping
<1>3. CASE Wait(p)
  <2>1. stage[p] = "enter" /\ pc'[p] = pc[p] /\ stage'[p] = "waiting"
    BY <1>1, <1>3 DEF Wait, Goto, cacheVars, threadVars
  <2> QED BY <1>1, <2>1 DEF AtWork, Stopping
<1>4. CASE TakeSearch(p)
  <2>1. stage[p] = "next" /\ ~g_notify_stop /\ stage'[p] \in {"scope", "search"}
    BY <1>1, <1>4 DEF TakeSearch, Goto
  <2> QED BY <1>1, <2>1 DEF AtWork, Stopping
<1>5. CASE AskForDb(p)
  <2>1. /\ stage[p] \in {"scope", "search", "notify", "reload"} /\ pc[p] = "idle"
        /\ pc'[p] = "lock" /\ stage'[p] = stage[p] /\ left'[p] = left[p]
    BY <1>1, <1>5 DEF AskForDb, NeedsDb, UsesDb, GetDb, workVars
  <2>2. Steps(stage[p], left[p], "lock") < Steps(stage[p], left[p], "idle")
    BY <1>1, <2>1, StepsFall, RankIs DEF AtWork, Counters
  <2> QED BY <2>1, <2>2 DEF AtWork
<1>6. CASE GetsOn(p)
  <2>1. /\ stage[p] \in {"scope", "search", "notify", "reload"}
        /\ stage'[p] \in AtWork /\ left'[p] \in Nat
        /\ Gets(stage'[p], left'[p]) < Gets(stage[p], left[p])
    BY <1>1, <1>6, GetsFall DEF GoInv
  <2>2. pc[p] \in Counters /\ pc'[p] \in {"idle", "drop"}
    BY <1>1, <1>6 DEF GetsOn, GoWithoutDb, SkipWhenStopping, PopulatorTimeOut,
                  LeaveClosedDb, LoadFolderDecendant, SearchFolder, NotifyCompletion,
                  ReloadContentTable, NeedsDb, TimeOut, PutDb, cacheVars, threadVars
  <2>3. Steps(stage'[p], left'[p], pc'[p]) < Steps(stage[p], left[p], pc[p])
    <3>1. stage[p] \in AtWork /\ pc'[p] \in Counters
      BY <2>1, <2>2 DEF AtWork, Counters
    <3> QED BY <1>1, <2>1, <2>2, <3>1, StepsFall
  <2> QED BY <2>1, <2>2, <2>3 DEF AtWork
<1>7. CASE PopulatorStep(p)
  <2>1. /\ stage'[p] = stage[p] /\ left'[p] = left[p]
        /\ \/ pc[p] = "lock" /\ pc'[p] = "have"
           \/ pc[p] = "drop" /\ pc'[p] = "idle"
    BY <1>1, <1>7 DEF PopulatorStep, Lock, DropReference, workVars
  <2>2. stage[p] \in AtWork /\ (stage[p] = "finish" => pc[p] = "drop")
    BY <1>1, <2>1
  <2>3. Rank(pc'[p]) < Rank(pc[p]) /\ pc[p] \in Counters /\ pc'[p] \in Counters
    BY <2>1, RankIs DEF Counters
  <2>4. Steps(stage[p], left[p], pc'[p]) < Steps(stage[p], left[p], pc[p])
    BY <1>1, <2>2, <2>3, StepsFall
  <2> QED BY <2>1, <2>2, <2>4 DEF AtWork
<1>8. CASE FinishSearch(p)
  <2>1. /\ stage[p] = "finish" /\ pc[p] = "idle"
        /\ pc'[p] = "idle" /\ left'[p] = 0 /\ stage'[p] = "next"
    BY <1>1, <1>8 DEF FinishSearch, Goto, cacheVars, threadVars
  <2>2. Steps("finish", left[p], "idle") = 2
    BY <1>1, GetsAre, RankIs DEF Steps, AtWork
  <2>3. Steps("next", 0, "idle") = 1
    BY StepsAre
  <2> QED BY <2>1, <2>2, <2>3 DEF AtWork
<1> QED BY <1>2, <1>3, <1>4, <1>5, <1>6, <1>7, <1>8 DEF Populate, GetsOn

\* A user acts only before the stop, and leaves the populating threads where they
\* are in their searches.
LEMMA UserKeeps ==
  ASSUME GoInv, NEW t \in User,
         \/ Request(t) \/ SetSearchCriteria(t) \/ EndRequest(t) \/ UserStep(t)
         \/ Enqueue(t) \/ Signal(t)
  PROVE  /\ ~g_notify_stop
         /\ UNCHANGED <<left, stop_pc, g_notify_stop, scanning>>
         /\ \A p \in Populator :
              /\ pc'[p] = pc[p]
              /\ \/ stage'[p] = stage[p]
                 \/ stage[p] = "waiting" /\ stage'[p] = "next"
<1> USE DbEngineAssumption
<1>1. /\ stage \in [Populator -> Stages]
      /\ pc \in [Thread -> {"idle", "lock", "have", "drop"}]
      /\ t \in Thread /\ t \notin Populator
      /\ g_notify_stop => pc[t] = "idle" /\ asked[t] = NoSearch /\ t \notin signals
  BY DEF GoInv, SearchInv, SearchType, CacheTypeOK, RestInv, AtRest
<1>2. CASE Request(t) \/ SetSearchCriteria(t) \/ EndRequest(t) \/ UserStep(t)
  <2>1. /\ ~g_notify_stop
        /\ UNCHANGED <<workVars, stop_pc, g_notify_stop, scanning>>
        /\ \E c : pc' = [pc EXCEPT ![t] = c]
    BY <1>1, <1>2 DEF Request, GetDb, SetSearchCriteria, EndRequest, PutDb, UserStep,
                      Lock, TimeOut, DropReference
  <2> QED BY <1>1, <2>1 DEF workVars
<1>3. CASE Enqueue(t)
  BY <1>1, <1>3 DEF Enqueue, workVars, cacheVars, threadVars
<1>4. CASE Signal(t)
  <2>1. /\ ~g_notify_stop
        /\ UNCHANGED <<left, stop_pc, g_notify_stop, scanning, pc>>
        /\ UNCHANGED stage \/ \E q \in Waiting : stage' = [stage EXCEPT ![q] = "next"]
    BY <1>1, <1>4 DEF Signal, cacheVars, threadVars
  <2>2. \A p \in Populator : \/ stage'[p] = stage[p]
                             \/ stage[p] = "waiting" /\ stage'[p] = "next"
    BY <1>1, <2>1 DEF Waiting
  <2> QED BY <2>1, <2>2
<1> QED BY <1>2, <1>3, <1>4

\* The same of the cache's own steps: it loses an item only before the scan thread
\* has ended.
LEMMA CacheKeeps ==
  ASSUME GoInv, CacheStep
  PROVE  /\ UNCHANGED <<pc, asked, signals, stage, left, stop_pc, g_notify_stop>>
         /\ scanning \/ UNCHANGED <<scanning, dangling>>
         /\ scanning' => scanning
<1>1. UNCHANGED <<asked, signals, stage, left, stop_pc>>
  BY DEF CacheStep, searchVars, workVars
<1>2. CASE Scan \/ ScanEnds
  BY <1>1, <1>2 DEF Scan, ScanEnds
<1>3. CASE ~Scan /\ ~ScanEnds
  <2>1. UNCHANGED <<threadVars, g_notify_stop, scanning>>
    BY <1>3 DEF CacheStep, Unload, UnloadAbsent, UnloadPresent, StartUnload, Age
  <2> QED BY <1>1, <2>1 DEF threadVars
<1> QED BY <1>2, <1>3

\* A step on which a populating thread moves out of the wait, or not at all.
LEMMA OthersGoOn ==
  ASSUME GoInv, UNCHANGED left,
         Stopping => Stopping',
         \A p \in Populator :
           /\ pc'[p] = pc[p]
           /\ \/ stage'[p] = stage[p]
              \/ stage[p] = "waiting" /\ stage'[p] = "next"
  PROVE  /\ StageInv'
         /\ \A p \in Populator :
              Working(p) \/ Stopping =>
                \/ UNCHANGED <<stage[p], pc[p], left[p]>>
                \/ StepsLeft(p)' < StepsLeft(p)
<1>1. StageInv'
  BY DEF GoInv, StageInv, Working
<1>2. ASSUME NEW p \in Populator, Working(p) \/ Stopping
      PROVE  \/ UNCHANGED <<stage[p], pc[p], left[p]>>
             \/ StepsLeft(p)' < StepsLeft(p)
  <2>1. CASE stage'[p] = stage[p]
    BY <2>1
  <2>2. CASE stage[p] = "waiting" /\ stage'[p] = "next"
    BY <2>2, StepsOf DEF Steps, AtWork
  <2> QED BY <2>1, <2>2
<1> QED BY <1>1, <1>2

\* Every step keeps the invariant and does what the property says.
LEMMA GoNext ==
  ASSUME GoInv, [Next]_vars
  PROVE  /\ StageInv' /\ RestInv'
         /\ Stopping => Stopping'
         /\ \A p \in Populator :
              Working(p) \/ Stopping =>
                \/ UNCHANGED <<stage[p], pc[p], left[p]>>
                \/ StepsLeft(p)' < StepsLeft(p)
<1>1. CASE UNCHANGED vars
  <2>1. UNCHANGED <<pc, asked, signals, stage, left, stop_pc, g_notify_stop, scanning,
                    dangling>>
    BY <1>1 DEF vars, cacheVars, threadVars, searchVars, workVars
  <2> QED BY <2>1, OthersGoOn DEF GoInv, RestInv, AtRest, Stopping
<1>2. CASE \E t \in User :
             \/ Request(t) \/ SetSearchCriteria(t) \/ EndRequest(t) \/ UserStep(t)
             \/ Enqueue(t) \/ Signal(t)
  <2>1. /\ ~g_notify_stop
        /\ UNCHANGED <<left, stop_pc, g_notify_stop, scanning>>
        /\ \A p \in Populator :
              /\ pc'[p] = pc[p]
              /\ \/ stage'[p] = stage[p]
                 \/ stage[p] = "waiting" /\ stage'[p] = "next"
    BY <1>2, UserKeeps
  <2> QED BY <2>1, OthersGoOn DEF GoInv, RestInv, Stopping
<1>3. CASE \E p \in Populator : Populate(p)
  <2>1. PICK p \in Populator : Populate(p)
    BY <1>3
  <2>2. /\ \A q \in Populator \ {p} :
             stage'[q] = stage[q] /\ pc'[q] = pc[q] /\ left'[q] = left[q]
        /\ \A t \in User : pc'[t] = pc[t]
        /\ UNCHANGED <<asked, signals, stop_pc, g_notify_stop, scanning, dangling>>
    BY <2>1, PopulatorKeeps
  <2>3. RestInv'
    BY <2>2 DEF GoInv, RestInv, AtRest
  <2>4. StageInv'
    BY <2>1, <2>2, PopulatorFalls DEF GoInv, StageInv, Working, AtWork
  <2>5. ASSUME Stopping
        PROVE  Stopping'
    <3>1. stage'[p] \notin {"enter", "waiting"}
      BY <2>1, <2>5, PopulatorFalls DEF Stopping
    <3> QED BY <2>2, <2>5, <3>1 DEF Stopping
  <2>6. ASSUME NEW q \in Populator, Working(q) \/ Stopping
        PROVE  \/ UNCHANGED <<stage[q], pc[q], left[q]>>
               \/ StepsLeft(q)' < StepsLeft(q)
    <3>1. CASE q = p
      BY <2>1, <2>6, <3>1, PopulatorFalls, StepsOf
    <3>2. CASE q # p
      BY <2>2, <3>2
    <3> QED BY <3>1, <3>2
  <2> QED BY <2>3, <2>4, <2>5, <2>6
<1>4. CASE CacheStep
  <2>1. /\ UNCHANGED <<pc, asked, signals, stage, left, stop_pc, g_notify_stop>>
        /\ scanning \/ UNCHANGED <<scanning, dangling>>
        /\ scanning' => scanning
    BY <1>4, CacheKeeps
  <2>2. RestInv'
    BY <2>1 DEF GoInv, RestInv, AtRest
  <2>3. Stopping => Stopping'
    BY <2>1 DEF Stopping
  <2> QED BY <2>1, <2>2, <2>3, OthersGoOn
<1>5. CASE StopEngine
  <2>1. /\ ~g_notify_stop
        /\ \A t \in User : AtRest(t)
        /\ UNCHANGED <<pc, asked, signals, stage, left, stop_pc>>
    BY <1>5 DEF StopEngine, Stop, threadVars, searchVars, workVars
  <2>2. RestInv'
    BY <2>1 DEF GoInv, RestInv, AtRest
  <2> QED BY <2>1, <2>2, OthersGoOn DEF Stopping
<1>6. CASE StopBroadcast
  <2>1. /\ g_notify_stop /\ ~scanning
        /\ stop_pc' = "joining"
        /\ UNCHANGED <<pc, asked, signals, left, g_notify_stop, scanning, dangling>>
        /\ \A p \in Populator :
             stage'[p] = IF stage[p] = "waiting" THEN "next" ELSE stage[p]
    BY <1>6 DEF StopBroadcast, Waiting, cacheVars, threadVars, searchVars
  <2>2. RestInv'
    BY <2>1 DEF GoInv, RestInv, AtRest
  <2>3. Stopping => Stopping'
    BY <2>1 DEF Stopping
  <2> QED BY <2>1, <2>2, <2>3, OthersGoOn
<1>7. CASE StopFree
  <2>1. /\ stop_pc = "joining"
        /\ UNCHANGED <<pc, asked, signals, stage, left, g_notify_stop, scanning,
                       dangling>>
    BY <1>7 DEF StopFree, cacheVars, threadVars, workVars
  <2>2. RestInv'
    BY <2>1 DEF GoInv, RestInv, AtRest
  <2>3. Stopping => Stopping'
    BY <2>1 DEF Stopping
  <2> QED BY <2>1, <2>2, <2>3, OthersGoOn
<1> QED BY <1>1, <1>2, <1>3, <1>4, <1>5, <1>6, <1>7 DEF Next

\* Where the threads are when the engine stops, in every state.
THEOREM StopIsOrderly == Spec => [](StageInv /\ RestInv)
<1>1. EngineInit => StageInv /\ RestInv
  <2> SUFFICES ASSUME EngineInit
               PROVE  StageInv /\ RestInv
    OBVIOUS
  <2> QED BY DbEngineAssumption DEF EngineInit, Init, StageInv, RestInv, Working
<1>2. /\ SearchInv /\ CacheTypeOK /\ StageInv /\ RestInv /\ [Next]_vars
      => (StageInv /\ RestInv)'
  BY GoNext DEF GoInv
<1>3. CacheInv => CacheTypeOK
  BY DEF CacheInv
<1> QED BY <1>1, <1>2, <1>3, SearchesCorrect, EngineUsesCache, CacheCorrect, PTL DEF Spec

\* Every step of a populating thread brings its search, or in a stop its end, nearer,
\* and no other step undoes that.
THEOREM PopulatorsGoOn == Spec => PopulatingGoesOn
<1>1. /\ SearchInv /\ CacheTypeOK /\ StageInv /\ RestInv /\ [Next]_vars
      => [/\ Stopping => Stopping'
          /\ \A p \in Populator :
               Working(p) \/ Stopping =>
                 \/ UNCHANGED <<stage[p], pc[p], left[p]>>
                 \/ StepsLeft(p)' < StepsLeft(p)]_vars
  BY GoNext DEF GoInv
<1>2. CacheInv => CacheTypeOK
  BY DEF CacheInv
<1> QED BY <1>1, <1>2, SearchesCorrect, EngineUsesCache, CacheCorrect, StopIsOrderly, PTL
        DEF Spec, PopulatingGoesOn
=============================================================================
