------------------------------- MODULE DbEngine -------------------------------
(***************************************************************************)
(* db_engine.c as a whole: the cache of databases, the threads that        *)
(* populate search folders, and the requests that use databases and set    *)
(* the criteria of search folders.                                         *)
(*                                                                         *)
(* A search that is asked for waits in g_populating_list; the populating   *)
(* thread that takes it moves it to g_populating_list1, and gets and puts  *)
(* the database once for the descendants of each of its folders, once for  *)
(* each piece of 200 messages or folder, once for the notifications, and   *)
(* once for each table that shows the results.                             *)
(***************************************************************************)
EXTENDS DbCache, SequencesExt

CONSTANTS
  User,        \* threads that serve requests
  Populator,   \* populating threads
  Folder,      \* search folders
  FolderDir,   \* FolderDir[f]: the mailbox of a search folder
  NoSearch,
  Scopes,      \* bound: folders whose descendants a search covers
  Pieces,      \* bound: pieces of a search
  Tables,      \* bound: content tables of a folder
  MaxCriteria  \* bound: how often a folder's criteria are set

ASSUME DbEngineAssumption ==
  /\ Thread = User \cup Populator
  /\ User \cap Populator = {}
  /\ FolderDir \in [Folder -> Dir]
  /\ Scopes \in Nat \ {0} /\ Pieces \in Nat \ {0} /\ Tables \in Nat
  /\ MaxCriteria \in Nat
  /\ NoSearch \notin [folder : Folder, criterion : 1..MaxCriteria]

VARIABLES
  criterion, \* criterion[f]: the number of the criteria set last, 0 for none
  results,   \* results[f]: the criteria by which search_result was filled
  overtaken, \* searches not over when the criteria were set again
  asked,     \* asked[t]: the search that user t is about to append
  signals,   \* users that have appended one and not signalled yet
  g_populating_list,
  g_populating_list1,
  stage,     \* stage[p]: where populating thread p is
  task,      \* task[p]: its search
  left,      \* left[p]: the folders, pieces or tables that it has still to do
  stop_pc    \* db_engine_stop, after the flag is set

folderVars == <<criterion, results, overtaken>>
searchVars == <<asked, signals, g_populating_list, g_populating_list1>>
workVars   == <<stage, task, left>>
vars == <<cacheVars, folderVars, searchVars, workVars, stop_pc>>

Search == [folder : Folder, criterion : 1..MaxCriteria]

Queued == ToSet(g_populating_list)

EngineInit ==
  /\ Init
  /\ criterion = [f \in Folder |-> 0]
  /\ results = [f \in Folder |-> {}]
  /\ overtaken = {}
  /\ asked = [t \in User |-> NoSearch]
  /\ signals = {}
  /\ g_populating_list = <<>> /\ g_populating_list1 = {}
  /\ stage = [p \in Populator |-> "top"]
  /\ task = [p \in Populator |-> NoSearch]
  /\ left = [p \in Populator |-> 0]
  /\ stop_pc = "running"

-----------------------------------------------------------------------------
(* Requests.                                                               *)

AtRest(t) == pc[t] = "idle" /\ asked[t] = NoSearch /\ t \notin signals

Request(t) ==
  /\ ~g_notify_stop
  /\ AtRest(t)
  /\ \E d \in Dir : GetDb(t, d)
  /\ UNCHANGED <<folderVars, searchVars, workVars, stop_pc>>

\* The searches of a folder that are not over.
Pending(f) ==
  {n \in Search : n.folder = f /\ (\/ n \in Queued \cup g_populating_list1
                                  \/ \E t \in User : asked[t] = n)}

\* Mutant: the results of the old criteria stay.
ClearNothing(f) == results' = results

\* folder_clear_search_folder.
ClearSearchFolder(f) == results' = [results EXCEPT ![f] = {}]

\* exmdb_server_set_search_criteria, on a database it has got: the criteria are
\* saved and the results removed, the database is put, and then, if the flags
\* have SEARCH_FLAG_RESTART, the search is asked for.
SetSearchCriteria(t) ==
  /\ pc[t] = "have" /\ dir[t] \in open
  /\ \E f \in Folder :
       /\ FolderDir[f] = dir[t]
       /\ criterion[f] < MaxCriteria
       /\ criterion' = [criterion EXCEPT ![f] = @ + 1]
       /\ ClearSearchFolder(f)
       /\ overtaken' = overtaken \cup Pending(f)
       /\ \/ UNCHANGED asked
          \/ asked' = [asked EXCEPT
                         ![t] = [folder |-> f, criterion |-> criterion[f] + 1]]
  /\ PutDb(t)
  /\ UNCHANGED <<signals, g_populating_list, g_populating_list1, workVars, stop_pc>>

\* Any other request; one that finds the database closed returns FALSE.
EndRequest(t) ==
  /\ PutDb(t)
  /\ UNCHANGED <<folderVars, searchVars, workVars, stop_pc>>

UserStep(t) ==
  /\ Lock(t) \/ TimeOut(t) \/ DropReference(t)
  /\ UNCHANGED <<folderVars, searchVars, workVars, stop_pc>>

\* db_engine_enqueue_populating_criteria, first under the lock of the list.
Enqueue(t) ==
  /\ asked[t] # NoSearch /\ pc[t] = "idle"
  /\ g_populating_list' = Append(g_populating_list, asked[t])
  /\ asked' = [asked EXCEPT ![t] = NoSearch]
  /\ signals' = signals \cup {t}
  /\ UNCHANGED <<cacheVars, folderVars, g_populating_list1, workVars, stop_pc>>

Waiting == {p \in Populator : stage[p] = "waiting"}

\* Then pthread_cond_signal, which nobody may hear.
Signal(t) ==
  /\ t \in signals
  /\ signals' = signals \ {t}
  /\ \/ \E p \in Waiting : stage' = [stage EXCEPT ![p] = "next"]
     \/ Waiting = {} /\ UNCHANGED stage
  /\ UNCHANGED <<cacheVars, folderVars, asked, g_populating_list,
                 g_populating_list1, task, left, stop_pc>>

-----------------------------------------------------------------------------
(* A populating thread.                                                    *)

Goto(p, s) == stage' = [stage EXCEPT ![p] = s]

\* The test of the outer loop.
TestStop(p) ==
  /\ stage[p] = "top"
  /\ Goto(p, IF g_notify_stop THEN "exit" ELSE "enter")
  /\ UNCHANGED <<cacheVars, folderVars, searchVars, task, left, stop_pc>>

\* pthread_cond_wait, with no condition.
Wait(p) ==
  /\ stage[p] = "enter"
  /\ Goto(p, "waiting")
  /\ UNCHANGED <<cacheVars, folderVars, searchVars, task, left, stop_pc>>

\* Mutant: a search that is taken is in neither list.
MoveNowhere == g_populating_list1' = g_populating_list1

MoveHead == g_populating_list1' = g_populating_list1 \cup {Head(g_populating_list)}

\* NEXT_SEARCH.
TakeSearch(p) ==
  /\ stage[p] = "next"
  /\ ~g_notify_stop
  /\ g_populating_list # <<>>
  /\ MoveHead
  /\ g_populating_list' = Tail(g_populating_list)
  /\ task' = [task EXCEPT ![p] = Head(g_populating_list)]
  /\ \/ Goto(p, "scope") /\ left' = [left EXCEPT ![p] = Scopes]  \* b_recursive
     \/ Goto(p, "search") /\ left' = [left EXCEPT ![p] = Pieces]
  /\ UNCHANGED <<cacheVars, folderVars, asked, signals, stop_pc>>

\* Mutant: a thread that finds no search ends.
NoSearchEnds(p) ==
  /\ stage[p] = "next"
  /\ g_notify_stop \/ g_populating_list = <<>>
  /\ Goto(p, "exit")
  /\ UNCHANGED <<cacheVars, folderVars, searchVars, task, left, stop_pc>>

NoSearchLeft(p) ==
  /\ stage[p] = "next"
  /\ g_notify_stop \/ g_populating_list = <<>>
  /\ Goto(p, IF g_notify_stop THEN "exit" ELSE "top")
  /\ UNCHANGED <<cacheVars, folderVars, searchVars, task, left, stop_pc>>

TaskDir(p) == FolderDir[task[p].folder]

Searched == IF g_notify_stop THEN "finish" ELSE "notify"

NextTable(p) ==
  /\ left' = [left EXCEPT ![p] = @ - 1]
  /\ Goto(p, IF left[p] > 1 THEN "reload" ELSE "finish")

\* What a thread does next when it does not get the database: without its
\* descendants a folder is not searched, a search that breaks off is completed
\* all the same, and a table that is not loaded again keeps nobody from the next.
GoOn(p) ==
  \/ stage[p] = "reload" /\ NextTable(p)
  \/ /\ stage[p] # "reload"
     /\ Goto(p, IF stage[p] = "search" THEN Searched ELSE "finish")
     /\ UNCHANGED left

UsesDb(p) == stage[p] \in {"scope", "search", "notify", "reload"}

NeedsDb(p) == UsesDb(p) /\ pc[p] = "idle"

AskForDb(p) ==
  /\ NeedsDb(p)
  /\ GetDb(p, TaskDir(p))
  /\ UNCHANGED <<folderVars, searchVars, workVars, stop_pc>>

\* db_engine_get_db returns NULL.
GoWithoutDb(p) ==
  /\ NeedsDb(p)
  /\ Refused(TaskDir(p))
  /\ GoOn(p)
  /\ UNCHANGED <<cacheVars, folderVars, searchVars, task, stop_pc>>

\* g_notify_stop is looked at before each folder and before the notifications.
SkipWhenStopping(p) ==
  /\ g_notify_stop
  /\ NeedsDb(p) /\ stage[p] \in {"search", "notify"}
  /\ Goto(p, "finish")
  /\ UNCHANGED <<cacheVars, folderVars, searchVars, task, left, stop_pc>>

PopulatorTimeOut(p) ==
  /\ UsesDb(p)
  /\ TimeOut(p)
  /\ GoOn(p)
  /\ UNCHANGED <<folderVars, searchVars, task, stop_pc>>

PopulatorStep(p) ==
  /\ Lock(p) \/ DropReference(p)
  /\ UNCHANGED <<folderVars, searchVars, workVars, stop_pc>>

\* The database is closed.
LeaveClosedDb(p) ==
  /\ UsesDb(p) /\ pc[p] = "have" /\ dir[p] \notin open
  /\ PutDb(p)
  /\ GoOn(p)
  /\ UNCHANGED <<folderVars, searchVars, task, stop_pc>>

\* One folder of the scope; the flag is not looked at before all of them are done.
LoadFolderDecendant(p) ==
  /\ stage[p] = "scope" /\ pc[p] = "have" /\ dir[p] \in open
  /\ PutDb(p)
  /\ \/ /\ left[p] > 1
        /\ left' = [left EXCEPT ![p] = @ - 1]
        /\ UNCHANGED stage
     \/ /\ left[p] = 1
        /\ left' = [left EXCEPT ![p] = Pieces]
        /\ Goto(p, IF g_notify_stop THEN "finish" ELSE "search")
  /\ UNCHANGED <<folderVars, searchVars, task, stop_pc>>

\* A piece of db_engine_search_folder: messages that match go to the results.
\* A search told to stop searches nothing.
SearchFolder(p) ==
  /\ stage[p] = "search" /\ pc[p] = "have" /\ dir[p] \in open
  /\ results' = IF g_notify_stop THEN results
                ELSE [results EXCEPT ![task[p].folder] = @ \cup {task[p].criterion}]
  /\ left' = [left EXCEPT ![p] = @ - 1]
  /\ PutDb(p)
  /\ Goto(p, IF left[p] > 1 /\ ~g_notify_stop THEN "search" ELSE Searched)
  /\ UNCHANGED <<criterion, overtaken, searchVars, task, stop_pc>>

\* db_engine_notify_search_completion; tables that show the folder are noted down.
NotifyCompletion(p) ==
  /\ stage[p] = "notify" /\ pc[p] = "have" /\ dir[p] \in open
  /\ PutDb(p)
  /\ \E n \in 0..Tables :
       /\ left' = [left EXCEPT ![p] = n]
       /\ Goto(p, IF n > 0 THEN "reload" ELSE "finish")
  /\ UNCHANGED <<folderVars, searchVars, task, stop_pc>>

\* exmdb_server_reload_content_table.
ReloadContentTable(p) ==
  /\ stage[p] = "reload" /\ pc[p] = "have" /\ dir[p] \in open
  /\ PutDb(p)
  /\ NextTable(p)
  /\ UNCHANGED <<folderVars, searchVars, task, stop_pc>>

\* db_engine_free_populating_node.
FinishSearch(p) ==
  /\ stage[p] = "finish" /\ pc[p] = "idle"
  /\ g_populating_list1' = g_populating_list1 \ {task[p]}
  /\ task' = [task EXCEPT ![p] = NoSearch]
  /\ left' = [left EXCEPT ![p] = 0]
  /\ Goto(p, "next")
  /\ UNCHANGED <<cacheVars, folderVars, asked, signals, g_populating_list, stop_pc>>

Populate(p) ==
  \/ TestStop(p) \/ Wait(p) \/ TakeSearch(p) \/ NoSearchLeft(p)
  \/ AskForDb(p) \/ GoWithoutDb(p) \/ SkipWhenStopping(p)
  \/ PopulatorTimeOut(p) \/ PopulatorStep(p)
  \/ LeaveClosedDb(p) \/ LoadFolderDecendant(p) \/ SearchFolder(p)
  \/ NotifyCompletion(p) \/ ReloadContentTable(p) \/ FinishSearch(p)

-----------------------------------------------------------------------------
(* The unloading of databases, the scan thread and db_engine_stop.         *)

CacheStep ==
  /\ \/ \E u \in Unloader :
          Unload(u) \/ (~g_notify_stop /\ \E d \in Dir : StartUnload(u, d))
     \/ \E d \in Dir : Age(d)
     \/ Scan \/ ScanEnds
  /\ UNCHANGED <<folderVars, searchVars, workVars, stop_pc>>

\* The parser and the other plugins' callers have been stopped before.
StopEngine ==
  /\ Stop
  /\ \A t \in User : AtRest(t)
  /\ UNCHANGED <<folderVars, searchVars, workVars, stop_pc>>

\* Mutant: nobody is woken.
StopSilent ==
  /\ g_notify_stop /\ ~scanning
  /\ stop_pc = "running"
  /\ stop_pc' = "joining"
  /\ UNCHANGED <<cacheVars, folderVars, searchVars, workVars>>

\* The scan thread has been joined.
StopBroadcast ==
  /\ g_notify_stop /\ ~scanning
  /\ stop_pc = "running"
  /\ stop_pc' = "joining"
  /\ stage' = [p \in Populator |-> IF p \in Waiting THEN "next" ELSE stage[p]]
  /\ UNCHANGED <<cacheVars, folderVars, searchVars, task, left>>

\* The populating threads have been joined: the table goes, with the handles in
\* it, and the searches that nobody has taken.
StopFree ==
  /\ stop_pc = "joining"
  /\ \A p \in Populator : stage[p] = "exit"
  /\ stop_pc' = "stopped"
  /\ g_populating_list' = <<>>
  /\ UNCHANGED <<cacheVars, folderVars, asked, signals, g_populating_list1,
                 workVars>>

Next ==
  \/ \E t \in User :
       \/ Request(t) \/ SetSearchCriteria(t) \/ EndRequest(t) \/ UserStep(t)
       \/ Enqueue(t) \/ Signal(t)
  \/ \E p \in Populator : Populate(p)
  \/ CacheStep
  \/ StopEngine \/ StopBroadcast \/ StopFree

Spec == EngineInit /\ [][Next]_vars

\* Threads run, handlers give back what they got, and a stop goes on.
Fairness ==
  /\ \A t \in User : WF_vars(EndRequest(t) \/ UserStep(t) \/ Enqueue(t) \/ Signal(t))
  /\ \A p \in Populator : WF_vars(Populate(p))
  /\ WF_vars(CacheStep /\ ScanEnds)
  /\ WF_vars(StopBroadcast) /\ WF_vars(StopFree)

FairSpec == Spec /\ Fairness

-----------------------------------------------------------------------------
(* Properties.                                                             *)

TypeOK ==
  /\ CacheTypeOK
  /\ criterion \in [Folder -> 0..MaxCriteria]
  /\ results \in [Folder -> SUBSET (1..MaxCriteria)]
  /\ overtaken \subseteq Search
  /\ asked \in [User -> Search \cup {NoSearch}]
  /\ signals \subseteq User
  /\ g_populating_list \in Seq(Search)
  /\ g_populating_list1 \subseteq Search
  /\ stage \in [Populator -> {"top", "enter", "waiting", "next", "scope",
                              "search", "notify", "reload", "finish", "exit"}]
  /\ task \in [Populator -> Search \cup {NoSearch}]
  /\ left \in [Populator -> Nat]
  /\ stop_pc \in {"running", "joining", "stopped"}

\* db_engine_check_populating.
CheckPopulating(f) ==
  \E n \in Queued \cup g_populating_list1 : n.folder = f

\* Clients are told that a search folder is rebuilt as long as a search adds to
\* its results.
PopulatingIsTold ==
  [][\A f \in Folder : results'[f] \ results[f] # {} => CheckPopulating(f)]_vars

\* A folder shows results of older criteria only from searches that were not
\* over when its criteria were set again: nobody cancels those.
OnlyOvertakenSearchesLinger ==
  \A f \in Folder : \A c \in results[f] \ {criterion[f]} :
    [folder |-> f, criterion |-> c] \in overtaken

\* Nobody will take the search before another one is asked for: its signal came
\* when no thread was waiting for it.
Overheard ==
  /\ signals = {}
  /\ \A p \in Populator : stage[p] = "waiting"

\* A search that is asked for comes to its end, unless the signals have been lost
\* on all the threads or the engine stops.
SearchEnds ==
  \A n \in Search :
    n \in Queued \cup g_populating_list1 ~>
      \/ n \notin Queued \cup g_populating_list1
      \/ Overheard
      \/ g_notify_stop

\* A request that asks for a database has it or an error in the end, and gives
\* back what it got.
RequestEnds == \A t \in User : pc[t] = "lock" ~> pc[t] = "idle"

ReadyToStop ==
  /\ g_notify_stop /\ ~scanning /\ stop_pc = "running"
  /\ dangling = {}
  /\ \A p \in Populator : stage[p] # "enter"

\* The same, and after the broadcast.
Stopping ==
  /\ g_notify_stop /\ ~scanning
  /\ dangling = {}
  /\ \A p \in Populator :
       stage[p] # "enter" /\ (stage[p] = "waiting" => stop_pc = "running")

Working(p) == stage[p] \in {"scope", "search", "notify", "reload", "finish"}

\* How many times a search gets the database, at most, and what a thread has still
\* to do of one of them.
DbsLeft(p) ==
  CASE stage[p] = "scope" -> left[p] + Pieces + 1 + Tables
    [] stage[p] = "search" -> left[p] + 1 + Tables
    [] stage[p] = "notify" -> 1 + Tables
    [] stage[p] = "reload" -> left[p]
    [] OTHER -> 0

\* The steps of a populating thread that are left, at most, to the end of its
\* search, or to its own end when the engine stops.
StepsLeft(p) ==
  IF Working(p)
  THEN 4 * DbsLeft(p) + [drop |-> 3, idle |-> 2, lock |-> 1, have |-> 0][pc[p]]
  ELSE CASE stage[p] = "waiting" -> 2 [] stage[p] = "exit" -> 0 [] OTHER -> 1

\* A search that a thread has taken gets nearer to its end with each step of that
\* thread, and by nobody's step farther from it: whether databases are refused,
\* waited for in vain or closed.  So does the end of the threads once the engine
\* stops, and neither of the two exceptions that StopEnds makes comes up later.
PopulatingGoesOn ==
  [][/\ Stopping => Stopping'
     /\ \A p \in Populator :
          Working(p) \/ Stopping =>
            \/ UNCHANGED <<stage[p], pc[p], left[p]>>
            \/ StepsLeft(p)' < StepsLeft(p)]_vars

\* db_engine_stop comes to its end, unless a thread has lost its item to the end
\* of the scan thread, or had looked at the flag before it was set and waits
\* after the broadcast.
StopEnds == ReadyToStop ~> stop_pc = "stopped"
=============================================================================
