# TLA+ models of STEEP_SYSTEM

STEEP_SYSTEM is a groupware server in C: an SMTP front end with anti-spam
plugins, a mail queue, a delivery process with plugin hooks, IMAP and POP3
servers, an Exchange-compatible server (RPC over HTTP, MAPI, a mailbox store
on SQLite), small agents, an archive and administration tools. This directory
models its parts where threads and processes meet, checks them with TLC and
proves theorems about them with TLAPS.

The core is the **MTA's mail queue**, the piece that turns "250 OK" into a
delivered mail. It is modelled completely: the process that fills it, the
process that empties it, the store in between that outlives both. The second
subject is the **contexts pool**, the scheduler under all the servers; the
third the **cache of open databases** of the mailbox store, with the threads that
populate search folders; the fourth the **delivery process** behind the mail
queue: its threads, the gateway hook and the hook's own queue of mails to try
again.

## Inventory

| Part | State | Operations | What is hard | What makes it correct |
|---|---|---|---|---|
| Store of the mail queue (`message_enqueue.c`, `message_dequeue.c`) | tape: 128K blocks in shared memory, first word = length, 0 = free; `mess/`: a file per flush ID, zero length word = unfinished; a System V message queue of notices | write, erase, notify | two processes, no common lock, survives both | an accepted mail is stored until handled |
| Flusher and `message_enqueue` plugin (smtp process) | queue of entities, flush IDs, the open file of a context | put, take, save in a block or a file, partial flush, cancel, notify, feed back, recover the last ID at start | crash between any two writes, error paths after a stream is used up, a kernel queue that is full | every context is fed back; unfinished files are never taken for mails, complete ones never overwritten |
| `message_dequeue` (delivery process) | free list, used list, two hash tables, memory count | receive notices, scan the store when idle, load, get, put | four locks, never two at once; a node is public before its key is | no slot in two hands, no node lost, memory within the limit |
| Transporter (delivery process) | threads, their contexts, a queue of thrown contexts | take a message, run the hooks, put it back; grow, wake | condition variables without predicates, cancellation | every queued message finds a thread |
| Contexts pool, threads pool (`LIBRARY/epoll_scheduler`) | five lists of contexts by state, epoll set, worker threads | get, put, signal, wake, activate, scan for timeouts | stale epoll events, unlocked reads of a context's state | a context is in one list or one thread's hands |
| smtp, imap, pop3, http protocol parsers | a context per connection | commands, transitions, TLS, timeouts | partial input, timeouts racing with late data; IMAP's IDLE sleeping list | dialogue states are those of the protocol |
| Mailbox database caches (`exmdb_provider/db_engine.c`, `midb/mail_engine.c`) | hash of open databases, reference counts, timed locks | get, put, expire, unload, populate search folders | item published before it is initialised; expiry racing with a new user | no database is freed while in use |
| Retry queues of the hooks (`mpc_plugins/*/cache_queue.c`) | files with attempt counts | put, scan, retry, bounce | crash between delivery and removal | a mail is retried or bounced, not dropped |
| exmdb RPC, emsmdb, nsp, zcore | sessions, object trees | several hundred calls | size | mostly data translation |
| Agents, archive, administration | tables and files | network daemons, batch jobs, CGI | little | - |
| `LIBRARY` containers, MIME, MAPI and RPC codecs | - | pure functions | input formats | out of scope, except as sets, sequences and pools |

How they interact: a connection's context is moved between the lists of the
contexts pool; a worker runs the protocol parser on it; the smtp parser puts
the context to sleep and hands it to the flusher; the flushing thread saves
the mail, sends a notice and turns the context back; in the other process the
loader receives the notice and makes a node; a transporter thread takes the
node, runs the hooks (local delivery into exmdb, relay through the gateway)
and puts the node back, which erases the mail. `PROJECT.json` lists every
part with its status, and every hazard at its line.

## Modules

| Module | What it models |
|---|---|
| `MailStore` | the tape, the mess directory and the kernel queue, with the constants they share |
| `MessageEnqueue` | the smtp side: contexts that hand mails over, the flushing thread, the restart |
| `MessageDequeue` | the delivery side: the loader, the workers, the restart |
| `MailQueue` | both, interleaved; the properties; the fairness |
| `DurableQueue` | the abstract specification: what the queue promises |
| `MCMailQueue` | the instances for TLC |
| `MailQueueProofs`, `MailOnceProofs`, `MailWindowProofs` | the theorems about it, each module on top of the one before |
| `ContextsPool` | the contexts pool, the epoll set, the workers and everybody else who moves a connection's context |
| `Scheduler` | the abstract specification: parked, runnable, running |
| `MCContextsPool` | its instance for TLC |
| `ContextsPoolProofs` | the theorems about it |
| `DbCache` | the cache of open databases of `db_engine.c`: references, locks, the scan thread, unloading. It is complete by itself, and is what `DbEngine` must respect |
| `DbEngine` | the whole of `db_engine.c`: requests and populating threads that use the cache, the searches of search folders, the stop |
| `MCDbEngine` | its instance for TLC |
| `DbCacheProofs`, `DbEngineProofs` | the theorems about them; every behaviour of `DbEngine` is one of `DbCache` |
| `Transporter` | the threads of the delivery process, their pool and condition variable, the contexts of the hooks |
| `RetryQueue` | the gateway hook and its cache queue: what becomes of a message |
| `Delivery` | both, with mishaps (a death of the process, a failing `remove`) at any step; the properties; the fairness |
| `MailCustody` | the abstract specification of `Delivery`: what may become of a mail, step by step |
| `MCDelivery` | its instances for TLC |
| `DeliveryProofs` | the theorems about it |
| `ListLemmas` | lemmas about sequences without duplicates that several proofs need |

### State and code

A **mail** is a model value, and a block or a file holds a mail, nothing, or
(a file) the beginning of one. Formats, envelopes and lengths are left out:
that a small mail's recipients do not fit in its block is the constant set
`Overlong`; the memory a file takes is the constant `Units`.

*smtp side.* `client[m]` is how far the client of `m` has come; `flush_ID`,
`flush_ptr` and `flush_action` are the fields of the context's flusher record.
`PutToQueue` is `flusher_put_to_queue`, with parts of large mails and whole
ones; `Cancel` is `message_enqueue_cancel`. The thread
`message_enqueue_thread_work_func` is a program counter `fpc`: `Take`
chooses tape or file, `FindBlock` looks at one block of the tape after the other
(the last block written is not where it begins: `g_last_pos` is set to 0 at
line 487 every time), `WriteBlock` is `try_save_tape`, `OpenFile`, `WritePart`, `WriteWhole`, `OpenFails` and
`WriteFails` are `try_save_mess`, then `Notify` and `Feedback`. `EnqRestart`
is the death of the process and `retrieve_max_ID` at its next start: it
chooses the next flush ID, which for a 64-bit build may be anything once the
tape holds a mail, and removes some unfinished files.

*delivery side.* `lpc` is the loader's program counter, with one step per
critical section and per access to the store: `Receive` a notice or none, then
`Idle` decides on a scan (`ScanTape`, `OpenScanMess`, `ScanMess`; a file made after
`opendir` may be shown by `readdir` or not, so any file may be met); a load is
`Query` the hash table, `Test` the block or `stat` the file, `TakeMem`, `Pop`
a node, `Read`, `PutToUsed`, `AddToHash`. A worker is `Get`, `Serve` (the
hooks), then `message_dequeue_put`: `Erase`, `Unhash`, `ReturnMem`,
`AppendFree`. `DeqRestart` is the death of the process: its memory is gone,
the store stays.

`lseen` and `cut` record that a file was read with a size that `stat` gave
before the file was complete; `body_read` that a tape save has used up a
mail's stream; `handled` counts how often the hooks were given a mail.

*contexts pool.* The five lists are sets, but the turning list, whose order
decides who is served, is a sequence. `type` is the field of that name: it is
written by whoever holds the context and read under the lock of the list it is
to be taken from, or with none (`WakeSleeper`). A step is one critical
section or one thing done to a context in hand: `Wait`, `Look`, `SwitchEvent`
are the epoll thread (it may be told that a socket can be written at any time, and
must be told of input only where `polling_mask` asks for it: `reading`), `ScanPolling`, `ScanIdling`, `ScanTurning` the scan
thread, `Take`, `Process`, `Put` a worker, `GetFree` to `Reject` a listener,
`Signal`, `Activate`, `SwitchCalled` threads that only point to a context,
`PickSleeper`, `WakeSleeper`, `SwitchWoken` smtp's flushing thread or imap's
thread. `registered` and `armed` are the kernel's epoll set under
EPOLLONESHOT; `Register` has every outcome of its two system calls. The
dialogue is abstracted to its result, with the four ways to be polled as two:
those that watch the input (`POLLING`: RDONLY, RDWR) and those that do not
(`POLLING_OUT`: NONE, WRONLY). When a context's time is out is left to choice.

*database cache.* An item of `g_hash_table` is known by its directory:
`present`, `reference`, `open` (the sqlite handle) and `expired` are its fields.
`GetDb` is `db_engine_get_db` under the table's lock, `Lock` and `TimeOut` are
the two results of its timed wait for the item's own lock, `PutDb` and
`DropReference` the two halves of `db_engine_put_db`. `creator` holds the threads
that have made an item and are to open it: whoever else gets the lock before
the creator finds no handle. `Scan` frees what has no reference and is old or
closed, `Unload...` is `db_engine_unload_db` with its tries, `ScanEnds` frees
everything when the engine stops, used or not. `dangling` is not in the code:
it holds the threads whose item has been freed under them.

*search folders.* `SetSearchCriteria` is what the exmdb calls do under the
database: criteria are set, results are cleared, a search is queued
(`Enqueue`), and a thread signalled after the lock is given back (`Signal`).
A populating thread takes a search (`TakeSearch`) and gets the database once for
each folder of the scope (`LoadFolderDecendant`), once for each piece of the search
(`SearchFolder`), once to notify (`NotifyCompletion`, which also notes down the
tables that show the folder), and once to load each of these again
(`ReloadContentTable`). `left` counts what it has still to do of one of these.
`GoOn` is where it goes when `db_engine_get_db` fails, times out or finds the
database closed. `StopEngine`,
`StopBroadcast` and `StopFree` are `db_engine_stop` between its joins.

*delivery.* `pc[t]` is where a transporter thread is: at the condition variable
(`waiting`), at one of its two lists (`get`, `dequeue`), not served
(`idle`, `leave`), in the hook (`hook`, `signal`, `open`, `write`), or about to
put back what it had (`put`). `Load` and `LoadSignal` stand for
`message_dequeue`, whose store and nodes are a set and a list here. `WakeOne` is
`pthread_cond_signal`: it wakes one waiting thread, or nobody, and `unheard`
records the latter. `AddThread` is the scan thread. `item[t]` is a mail or a
context that bounces one; `free` counts the contexts on `g_free_list`.
The hook has four results for a message: `HookDelivers`, `HookDefers` (the cache
queue), `HookBounces`, `HookGivesUp`. `OpenFile`, `CommitFile` and `SaveFails`
are `cache_queue_put`, whose last write turns the first word of the file
from 0 to 1. The cache queue's thread is a program counter `cpc`: a pass over
the directory (`StartPass`, `StatFile`, `EndPass`) looks at one file at a time
(`ReadFile`, `SkipFile`) and tries it (`CacheDelivers`, `CacheDefers`,
`CacheRefused`), then removes or bounces it. `cwhole` says whether what it reads is
the whole file: `stat` gives the size first, the attempts are looked at after
that, and a file finished in between is read as far as the old size (`ReadSize`).
What a server then acknowledges, or refuses, is not the mail (`Mangle`), and
whether it is bounced depends on bytes that were never read (`BounceCut`). A count
that is not written (`CacheDefers`) is only logged; a failing `remove` is ignored
(`RemoveFails`). `delivered`, `bounced`, `given_up`, `dropped` and `mangled` record
what has become of a mail; `mishaps` counts the deaths of the process and the
files that could not be removed.

## Runs

| Run | Instance | Shows |
|---|---|---|
| `mail_queue` | 3 mails of one unit (one always a file), 1 block, 1 unit of memory, 2 nodes, 2 workers, kernel queue of 1 | the safety invariants without restarts; memory and keys go astray in two windows only |
| `mail_queue_restart` | 2 mails (a small one, a file of two units), 1 block, 2 units of memory, 3 nodes, 2 workers, one restart of each process at any step | the composition implements `DurableQueue`, so nothing accepted is lost; no sleeping context is forgotten or overtaken |
| `mail_queue_files` | the same with files only | an ID given out again never takes the file of a queued mail: `DurableQueue` again |
| `mail_queue_live` | 2 mails, 2 blocks, 3 nodes, 1 worker, weak fairness | every flush is answered; every stored mail is handled, but for two findings and workers that nobody wakes |
| `mail_queue_memory` | 3 mails of one unit, 1 worker | violated: `g_current_mem` counts memory nothing holds |
| `mail_queue_stuck` | 2 small mails, 1 worker, fair | violated: a stale key keeps a stored mail from ever being loaded |
| `mail_queue_body` | a small mail that does not fit | violated: it is accepted and saved without its body |
| `mail_queue_cut` | 2 file mails, one restart of the smtp process | violated: a file is read only as far as an old size said |
| `pool` | 2 contexts, 2 workers, a listener, a caller, the waker, fair | the safety of the contexts pool; it implements `Scheduler`; data, lost signals and early wake-ups are served |
| `db_engine` | 1 mailbox with a search folder, 2 users, 1 populating thread, 1 unloader, one waiting place; 2 folders in a scope, 2 pieces, 2 tables; fair | items are not freed in use, results are those of the criteria, searches and the stop come to an end |
| `delivery` | 1 mail, 2 threads of which one may leave, 2 contexts, 1 file, 2 attempts, one mishap, fair | a mail is somewhere until its one end, it is handed on as `MailCustody` says, contexts are not lost, what is queued is served but for lost signals |
| `delivery_cut` | 1 mail, 1 thread, 1 file, no mishap | violated: a file is read only as far as an old size said, and taken for the mail |

The properties of the mail queue:

- `AcceptedIsStored`: a mail whose client was, or is about to be, told 250 and
  which the hooks have not been given is whole in some slot.
- `NodeKeepsItsSlot`, `OneNodePerSlot`: a node's slot still holds the node's
  mail, and no two threads have the same slot; blocks are reused with no lock
  between the processes, and the key is added after the node is public.
- `HandledOncePerLife`: duplicates come from a crash only.
- `NodesAccounted`: every node is in one place; the idle scan, and with it
  every lost notice, relies on the free list becoming full again.
- `MemoryBounded`: what the nodes hold is counted and within the limit. It is
  an inequality because the equality, `MemoryExact`, fails.
- `MailsReadWhole`: no file is read while it is being written.
- `OnlyTwoWindows`: memory that was counted exactly goes astray only by a load
  that finds no node while a worker is between the two critical sections of
  `put_to_free`, and a key outlives its node only by being added after it. The two
  findings about memory and keys have these causes and no others.
- `KeepsPromise`: the composition implements `DurableQueue` under the mapping
  in `MailQueue` (stored = some slot holds the mail, accepted = the client was
  told 250).
- `FlushGoesOn`: the count of steps until the flushing thread feeds a context back,
  seven at most for each context in front of it, gets smaller with each step of that
  thread on any path of success or failure, and never larger.
- `FlushAnswered`, `StoredIsHandled`: see Fairness.

The properties of the contexts pool:

- `OnePlace`: a context is on one list or in one thread's hands, though events,
  timeouts, signals and wake-ups all take it from where they believe it is.
- `TypeTells`: the type, read under one list's lock and written under others', is
  right about that list; a worker's context is nobody else's to take.
- `WaitingIsRegistered`: `b_waiting` follows the epoll set through timeouts,
  failing calls and reuse.
- `NoDeafContext`: no polled context waits for an event that cannot come.
- `IsScheduler`: the pool implements `Scheduler`.
- `ReadyIsServed`, `WaitersAreServed`: what arrives where input is watched is seen; an
  idle or sleeping context is turned again whatever was thrown away.

The properties of the database cache and its engine:

- `ReferencesExact`: the count under the table's lock is the number of threads
  that use the item, those that wait for it and those on their way out included.
- `NothingFreedInUse`: nothing but the end of the engine frees an item from under
  a thread.
- `UsersBounded`: the limit of waiting threads holds although a thread looks at
  the count before it waits.
- `UnloadedIsClosed`: a database that was reported unloaded is closed, and no
  thread opens it as long as the item that stands for it is there.
- `OnlyOvertakenSearchesLinger`: results of old criteria come only from searches
  that were under way when the criteria were set again.
- `PopulatingIsTold`: a search folder whose results grow is one that
  `db_engine_check_populating` reports.
- `PopulatingGoesOn`: the count of steps that a populating thread has left to the end
  of its search, or to its own end when the engine stops, gets smaller with each of
  its steps, whether databases are refused, waited for in vain or closed, and never
  larger; and once the stop is on its way, neither of the two exceptions that
  `StopEnds` makes comes up.
- `SearchEnds`, `RequestEnds`, `StopEnds`: see Fairness.

The properties of delivery:

- `ContextsAccounted`: contexts of the hooks, which hooks, threads, their queue and
  the cache thread hand to each other, are each in one place.
- `MailKept`: a mail that has left the mail queue is in a complete file, on its way
  to be bounced, or at an end that the code knows of; two windows are named in which
  it is lost: a death in the middle of a bounce (`dropped`) and a file read cut
  (`mangled`). `MailsSentWhole`, that there is no mail of the second kind, fails.
- `KeepsCustody`: `Delivery` implements `MailCustody`. A mail leaves the mail
  queue only for the cache queue or an end, and the cache queue only for an end;
  until the first mishap it goes into the cache queue once and has one end; a
  death ends a mail only where the cache queue is about to bounce it; only what was
  in the cache queue is mangled. `MailKept` and
  `OneOutcome` speak of states, this speaks of how one follows from another.
- `OneOutcome`: the mail does not get two ends, though two threads and a pass over
  an unlocked directory meet it. A death, or a file that stays although it was to be
  removed, may repeat what was done, and is excepted.
- `QueuedIsServed`: what is on one of the two lists is taken. The exception is in
  the property: a signal that found nobody waiting, with all the threads at the
  condition variable. For the used list it also takes that no thread is left to
  be added; for the contexts' queue nobody looks again (a hazard of the list).
- `CachedIsSettled`: a complete file leaves the cache queue.

**Bounds.** `MaxID` (flush IDs of a behaviour), `MsgCap`, `MaxEnqRestarts`
and `MaxDeqRestarts` are the only bounds that the code does not have in this
form. One block and two or three mails make the tape full, force a file, make
a block and a key be used again; a kernel queue of one makes notices get lost;
one unit of memory less than the files need makes loads be refused; two workers
are the smallest number that can have the same slot. One restart of each process
at any step reaches every crash point once; more are covered by the proofs.
The constants of `mail_queue` give both nodes to two mails while the third is
loaded (`Pop` on an empty list, and memory that is counted for nobody), those of
the restart run make an ID be given out again and have a file whose size is not
one unit. Two blocks and three nodes in `mail_queue_live` let a search pass over a
block and let both mails be loaded at once.
`CHECK_DEADLOCK FALSE`: when the clients are done and IDs and restarts are used
up, the smtp side stops; the loader never does.

The pool needs no bounds: its state is finite, for its liveness too. Two contexts let one be held
while the other is moved, and let the turning list have an order; two workers
are the fewest that can have one context; a context closed and used again is
reached by the same context twice.

In `db_engine` two users and the populating thread compete for one item with one
waiting place, so that each of waiting, being refused, timing out and losing
the item happens; two criteria let a search be overtaken; two folders in a scope, two
pieces and two tables let the database be closed or unloaded between one and the
next of each; a hash table of one item is full or empty. `Scopes`, `Pieces`, `Tables`
and `MaxCriteria` are the bounds that the code does not have. The proofs are for any
number of each.

In `delivery` one mail is enough for a mail, its bounce and its file to be in
different hands at once; of two threads one may leave the pool and be added again,
which the first may too, and two contexts, one of them the cache
thread's, run out. One mishap reaches every step once, a death as well as a file
that stays. `MaxMessID` ends the saving of files (a mail deferred after that fails to be saved): with one, no two files
are there at once. The theorems have no bound but that it is a natural number.

**Fairness.** The flushing thread and the loader are endless loops with short
sleeps, so weak fairness of each is what the code's scheduling gives. A worker
that holds a node runs to the end of `message_dequeue_put`. An idle worker owes
nothing: it sleeps on a condition variable with no predicate (`transporter.c:687`),
which is signalled without its mutex. Clients and restarts are not fair.
`StoredIsHandled` excepts three things: a key left behind (`StaleKeys`) and
memory never given back (`~ MemoryExact`), which are findings, and workers that are
all idle for ever with a node on the used list (`[]Slept`). When the last can happen
is the question of `QueuedIsServed` in `delivery`, where the condition variable,
its signals and the scan thread are modelled.
In `pool` the epoll, scan, worker and waker threads are weakly fair, as
endless loops with waits of at most a second are, and a caller that has taken a
context goes on. `epoll_wait` need return for input only, and where it is watched:
there may never be room to write. The waker is strongly fair to each sleeper: smtp's queue is
first in, first out, and imap's thread goes round its list. Clients, listeners
and timeouts owe nothing.

In `db_engine` a request that has a database gives it back, a populating thread
goes on (each of its waits for a database is timed), and the scan thread sees the
flag of the stop; nobody has to ask for anything, and timeouts need not happen.
`SearchEnds` excepts a search whose signal came when no thread was waiting
(`Overheard`), and `StopEnds` starts where no thread has lost its item to
the end of the scan thread and none is between its look at the flag and its wait:
both are hazards of the list.
In `delivery` transporter threads, the loader, the scan thread and the cache
thread are endless loops with short sleeps; that `pthread_create` does not fail for
ever is fairness of `AddThread`, and that the reading of a complete file and the write
of its count do not fail for ever is strong fairness of both, file by file. A
thread stays at its condition variable until it
is woken. Which result a server gives is never fair, so `CachedIsSettled` rests
on the limit of the attempts alone.

## Findings

Five places where the code does not do what its comments say; `PROJECT.json`
quotes the lines.

1. `message_dequeue_get_from_free` keeps the memory when it finds no node
   (`MemoryExact`).
2. `put_to_used` before `int_hash_add` leaves stale keys, and a mail saved in
   such a block is not loaded until a restart (`StoredIsAlwaysHandled`).
3. The fallback from tape to file saves a mail without its body
   (`AcceptedWhole`).
4. `load_from_mess` uses the size `stat` gave for a file that was unfinished
   then (`MailsReadWhole`); it takes a flush ID given out again.
5. So does the cache queue of the gateway hook, where a hook that finishes a file
   while a pass looks at it is enough: a mail is sent cut, to recipients from memory
   that was never read, and its file removed (`MailsSentWhole`).

## Proofs

### The mail queue

`MailQueueProofs`, on top of it `MailOnceProofs` (from `OneCopyStored`) and on top
of that `MailWindowProofs` (from `NodesFit`) prove, for all values of the
constants that satisfy the named assumptions (any number of mails, blocks, nodes,
workers and restarts):

| Theorem | Says |
|---|---|
| `TypeCorrect`, `TypeOKCorrect` | types; what each program counter implies |
| `NodesNeverLost` | `Spec => []NodesAccounted` |
| `FilesHaveOwners` | who may write which file |
| `SlotsStandAlone`, `NodesKeepTheirSlots`, `SlotsHaveOneNode` | `Spec /\ []HashRoom =>` one node per slot, with its mail |
| `AcceptedNeverLost` | `Spec /\ []HashRoom => []AcceptedIsStored` |
| `FilesSettle`, `MailsAreReadWhole` | `MaxEnqRestarts = 0` implies `Spec => []WholeInv`, and `MailsReadWhole` from it |
| `FlushNeverForgets` | `Spec => FlushGoesOn` |
| `OneCopyStored` | `Spec /\ []HashRoom => []OnceInv`: one copy of a mail in the store |
| `HandledOnce` | `Spec /\ []HashRoom => []HandledOncePerLife` |
| `QueueKeepsPromise` | `Spec /\ []HashRoom => KeepsPromise`, the refinement of `DurableQueue` |
| `MemoryCounted`, `MemoryStaysBounded` | `Spec => []MemInv`, and `MemoryBounded` from it |
| `NodesFit` | `Spec => []WindowInv`: sizes of nodes, and one node for a block |
| `NodesAreEnough` | `Spec => []NodesSuffice`: a load with its memory finds no node only while a worker has given back its memory and not yet its node |
| `TwoWindows` | `Spec => OnlyTwoWindows` |
| `MemoryExactOutsideTheWindow` | `Spec /\ []NodeFirst => []MemoryExact` |
| `KeysHaveRoom`, `NoStaleKeys` | `Spec /\ []KeyFirst => []HashRoom`, and no stale keys |
| `PromiseKeptWithKeysInTime` | `Spec /\ []KeyFirst =>` `KeepsPromise`, `AcceptedIsStored`, `HandledOncePerLife` and one node per slot |
| `NodesSettled`, `AcceptedNeverLostInOneLife` | `MaxEnqRestarts = 0` implies `Spec => []AcceptedIsStored`, with no hypothesis on the tables |

The argument is in layers, each an invariant that the next assumes. `TypeInv`
adds to the types what the program counters say (a thread past `Take` works on
a mail whose client is flushing). `NodesAccounted` is inductive on top of it.
`FilesInv` says that flush IDs are not shared, that a complete file's ID has been
given out, and that a context's own file is complete only between the write
of the length word and the feedback; it is what makes opening, cancelling
and giving up harmless. `SlotInv` has three parts: keys (every keyed node but
the one just published is in a hash table, alone for its slot), loads (the slot
the loader is past querying is in nobody's hands) and served nodes (their
slot holds their mail). `AcceptedIsStored` follows: only `Erase` empties a
complete slot, and it does so for the mail that was just served.

`HandledOncePerLife` is far from inductive. `OnceInv` adds that a mail which has
not been handed over whole is nowhere, that a mail is in one slot only, and that
a mail already handled in this life is still stored only between its worker's
`Serve` and `Erase`: a second worker that served it would hold a second node for
the same slot, which `SlotInv` excludes. From the same invariant every step is
one of `DurableQueue`'s or a stutter: `WriteBlock` and `WriteWhole` store a
mail, `Feedback` accepts one, `Serve` handles it, `Erase` discards it, `DeqRestart`
begins a life, and whatever else the threads, locks and lists do is invisible; a
restart of the smtp process takes no "accepted" back, as a context whose client
has been answered has no flush ID.

`MemoryBounded` needs `NodesAccounted` and that a node being loaded holds what
was taken for it. `MemHeld` is the number of pairs of a counted node and a unit
of its memory, so that one node more or less is a disjoint union of finite sets.

**The two windows.** `OnlyTwoWindows` needs to know what a node weighs and that the
nodes suffice. `SizeInv` says that a node for a block takes no memory, one for a
file at least a unit; `BlockInv` that no two nodes stand for one block, which
holds with no assumption on room: there are fewer blocks than places in their
table. Then (`NodesAreEnough`) nodes for blocks are at most as many as blocks, nodes
for files at most as many as units of counted memory, and the sum of both is
what `message_dequeue_init` allots: a load that got its memory and finds the free
list empty must have met a worker that has given its memory back and not its node.
Every other step takes and gives memory with what holds it, and takes a key out
only with its node (`TwoWindows`).

The **hypotheses** of the theorems that have one:

- `HashRoom`: `int_hash_add` is not refused. It is not an invariant of the code:
  keys left behind (finding 2) for files stay in the table, as flush IDs are not
  used twice, until the table is full; then a file may be loaded twice.
- `KeyFirst`: when the loader comes to add a key, its node is still with somebody
  who will take the key out. It is finding 2 turned round, and implies `HashRoom`
  for any number of files: then the keys are those of nodes in use
  (`KeysKeepNodes`), and the tables have twice the room for these. So
  `PromiseKeptWithKeysInTime` says that adding the key before the node is made
  public would be enough for all that the queue promises.
- `NodeFirst`: no load finds the free list empty. It is finding 1 turned round:
  then `g_current_mem` is exact.
- `MaxEnqRestarts = 0`, for `MailsAreReadWhole` and `AcceptedNeverLostInOneLife`. The
  first fails without it (finding 4). The second says that no accepted mail is
  lost even if tables are full and files are loaded twice: `CustodyInv` settles
  each node on its mail, or on a file that has been emptied for good, so that
  whatever is erased has been handled. A restart gives out flush IDs
  again, and a second node for an emptied file then stands for another mail: in
  a variant of the model whose file table refuses every key, TLC finds 36 steps
  after which an accepted mail has been erased and not handled. In the code
  that takes a full table, a file loaded twice and a restart in one life of the
  delivery process.

**Only model-checked**: liveness (`FlushAnswered`, `StoredIsHandled`), which is
outside the prover's reach under fairness. For `FlushAnswered` the part that is
not fairness is `FlushNeverForgets`: a natural number that each step of the
flushing thread makes smaller; what is left to TLC is that this thread can
always take one.

### The contexts pool

`ContextsPoolProofs` proves, for any finite set of contexts and any workers,
listeners and callers:

| Theorem | Says |
|---|---|
| `PlacesCorrect`, `PoolTypesCorrect` | the inductive invariant `PlaceInv`, and `TypeOK` |
| `ContextsHaveOnePlace` | `Spec => []OnePlace` |
| `TypesTell` | `Spec => []TypeTells` |
| `PoolIsScheduler` | `Spec => IsScheduler`, the refinement of `Scheduler` |
| `ConnectionsCorrect` | `Spec => []EpollInv` |
| `WaitingMatches` | `Spec => []WaitingIsRegistered` |
| `NoContextIsDeaf` | `Spec => []NoDeafContext` |

A context is on one of eleven *spots*: five lists and the hands of six kinds of
thread. `OnePlace` and `TypeTells` are not inductive: nothing in them says what
type a context has in the epoll thread's, the scan thread's, a caller's or the
waker's hands, and without that a caller could find it "idling" there.
`PlaceInv` gives every spot its types, and says besides that the scan thread holds
nothing between two passes. The lemmas `...Moves` show that each step moves
a set of contexts along one of twenty arrows between spots, or moves none;
`MoveKeeps` shows that any such move keeps `PlaceInv`. The refinement uses the
same arrows: each of them is a step of `Scheduler` or a stutter (`MovesMap`); only
the scan thread moves more than one context, and between spots that `Scheduler`
takes for runnable or parked.

`WaitingIsRegistered` and `NoDeafContext` need `OpenInv` on top of it: a free
context has no connection and is not waiting, a listener's has a
connection from when it is marked and is not in the epoll set yet (a failed
`EPOLL_CTL_ADD` resets `b_waiting`, which must not hide an older
registration), a worker's has one until it is closed, all others have one.

`ReadyIsServed` and `WaitersAreServed` are only model-checked, as liveness is.

### The database cache

For any finite sets of directories and threads, any number of unloaders, folders,
scopes, pieces, tables and criteria, any size of the table and any limit of waiting threads:

| Theorem | Says |
|---|---|
| `CacheCorrect` | the inductive invariant `CacheInv` of `DbCache` |
| `ReferencesCorrect`, `ItemsAreSafe`, `UsersAreBounded`, `UnloadedStaysClosed` | `CacheSpec =>` each of the four properties |
| `EngineUsesCache` | `Spec => CacheSpec`: the engine implements the cache |
| `CacheSafeInEngine` | so the four properties hold in the engine |
| `SearchesCorrect`, `ResultsAreCurrent` | `SearchInv`, and `OnlyOvertakenSearchesLinger` from it |
| `ResultsGrowInView` | `Spec => PopulatingIsTold` |
| `EngineTypesCorrect` | `Spec => []TypeOK` |
| `StopIsOrderly` | `Spec => [](StageInv /\ RestInv)` |
| `PopulatorsGoOn` | `Spec => PopulatingGoesOn` |

A count says something only together with who holds what. `ThreadInv` ties a
thread's program counter to its directory and to the item in the table, and makes
`ReferencesExact` inductive: a step adds one thread to the users of an item and
one to the count, or takes one from both. Then a count of zero, which is all that
the scan thread tests, means nobody (`NoReferenceNoUser`), and nothing is freed in
use. `CreatorInv` is what `UnloadedIsClosed` needs: only a thread that made an
item opens it, and the item that stands for an unloaded database was made by
no such thread.

In the engine, `OnePlace` says that a search is with the user that asks for it,
once in the one list, or in the other with one populating thread. With
it, results written late are those of a search still known, so either current or
`overtaken`.

`PopulatorsGoOn` is the part of `StopEnds` that is not fairness, and that of `SearchEnds`
after a thread has taken the search. `StepsLeft` counts four steps for each time that a
thread still gets the database and up to three for the time it is at; it is a bound
only because a thread at a scope, a search or its tables has some left (`WorkInv`)
and because it gives the database back before it ends a search (`StageInv`).
`GetsFall` is the heart of it: whatever a thread does with its database, or without
it, leaves it fewer times to get one. `RestInv` says
that after the flag is set nobody asks for a search or a database, so that nobody
signals, and that the scan thread, the only one to take items away, has ended before the
broadcast. That a thread takes its steps is fairness and left to TLC.

### Delivery

For any finite set of threads and any number of mails, contexts, attempts, files
and mishaps:

| Theorem | Says |
|---|---|
| `CoreCorrect`, `DeliveryTypesCorrect` | the inductive invariant `CoreInv`, and `TypeOK` |
| `ContextsCorrect` | `Spec => []ContextsAccounted` |
| `KeptCorrect`, `MailIsKept` | `Spec => []KeptInv`, and `MailKept` from it |
| `NodesCorrect` | `Spec => []NodeInv` |
| `FateCorrect`, `OneOutcomeHolds` | before the first mishap `Fate`, and `OneOutcome` from it |
| `DeliveryKeepsCustody` | `Spec => KeepsCustody`, the refinement of `MailCustody` |

`CoreInv` is `PoolInv` (a thread has an item exactly when it is past its lists and
not at rest; the threads that may be added are off, once each; only bounces are
queued; the contexts add up) and `FileInv` (a file with a 0 in front belongs to
the one thread that writes it; what the cache thread has read stays in its
complete file until it removes it; what it removes after a delivery has been
delivered, or, if it was read cut, is counted as mangled).

`MailKept` is not inductive: it does not say what a thread that is about to erase
a mail has done with it. `KeptInv` adds that such a mail is `Settled`, which every
step keeps (`SettledStep`): complete files go only to a bounce or after a delivery
(`CompleteStays`), a bounce under way only to a context, to the log or with
the process (`BounceEnds`).

`OneOutcome` needs to know that a mail has only one of its chances at a time.
`NodeInv` gives each mail one thread; `Fate` gives it one stage: *fresh* (its thread
has not decided; it has no end, and its only file is the one being written), in one
complete file, or on its way to be bounced from there. A mail is never fresh
again (`FreshBack`) while the process lives; a death makes it fresh again whatever
had been done with it, and a file that stays is sent again, which is why the theorem
stops at the first mishap.

`DeliveryKeepsCustody` maps the mails in complete files, and the one under way to a
bounce, to `cached`; only what is in there can be mangled. It rests on all four invariants: `KeptInv` says that what
`Put` erases is cached or has its end (`CustodyTransport`), `NodeInv` that a
hook's mail is still in the mail queue, `Fate` that it is not cached and has no
end when it is cached or ended before the first mishap (`CustodyHook`), `FileInv`
that what the cache thread delivers or bounces is what its file holds
(`CustodyCacheThread`). Counting an attempt, removing a file to bounce it, opening
a file and signalling are stutters.

`QueuedIsServed` and `CachedIsSettled` are only model-checked.

## Not modelled

- Allocation failures and read errors of the loader (each puts the node back or
  gives the load up as the modelled error paths do).
- The wrap of the flush ID; `MaxID` ends a behaviour instead.
- A reboot, which loses the tape but not the files; unequal tape sizes of the
  two processes' configurations; operation without tape.
- stdio's buffer: what is written is taken to be in the file. A file that
  has been created is taken to have its length word.
- The console, `message_dequeue_save`, statistics.
- The contexts pool's shutdown, its counters and the number of seconds of its
  timeouts; the threads pool's growing, shrinking and condition variable (a
  worker polls the turning list, as the timed wait of a second makes it do).
- Two wakers of one context: smtp's flusher and imap's thread each are one
  thread, and `contexts_pool_wakeup_context` relies on that.
- In `MailQueue` the hooks: `Serve` is the whole of `pass_mpc_hooks`. `Delivery`
  opens it, with the store reduced to a set.
- Of the database cache: requests' work under a database is a choice of what
  touches searches; the dynamic searches and the notification tables that live in
  an item (which keep it from being unloaded), the table's own limit of open
  files, and searches that are asked for again when a database is opened.
- Of the transporter: `transporter_throw_context`, with which a hook runs the
  hooks on a context of its own before it goes on; loading and unloading of hook
  libraries. A hook that runs for ever is not a behaviour.
- `pthread_create` and the append to `g_threads_list` are one step (`AddThread`). In
  the code a thread that leaves in between counts a list that is one shorter
  (`transporter.c:666-668`), and may stay where the model lets it go; the thread
  that is new cannot reach that test in time, for it has to go unserved many times first.
- Of the gateway hook: `delivered` means acknowledged. When the reply to the final
  dot is lost (`smtp_dispatch.c:400-407`) the server may have the mail, but the code
  takes it for a temporary error, and so does `HookDefers`: the mail is sent again,
  and an end it then meets is its first as far as the process can know.
- How recipients are split over servers and hooks (a message has one result);
  backoff between the passes of the cache queue.
  `exmdb_local` has a cache queue built the same way, which is not modelled.
- What `PROJECT.json` lists as not modelled is left out for its size and for what
  it is: the codecs, exmdb's several hundred calls, the mail and calendar
  conversions and the consoles are sequential translations of data, more than
  nine tenths of the repository's lines, with little state that a model checker
  would add to their tests.

## Plan

What is modelled came first because it is what everything else passes through.
Left for later, most important first:

1. `midb`'s `mail_engine.c`, which has its own copy of the cache of databases with
   a load and synchronisation step in `GetDb`, as a second user of `DbCache`'s
   invariant.
2. The flusher's handshake of smtp (sleep, feedback, wake) composed with
   `ContextsPool`, and imap's IDLE list with it.
3. `ThreadsPool`: the workers' pool of `threads_pool.c`, growing and shrinking.
4. `Delivery` over `MessageDequeue` in place of its set of mails.

Every invariant, action property and refinement of the passing runs is a theorem. What
is only model-checked is liveness under fairness. What a hash table without room
does is proved as far as accepted mails of one life of the smtp process go
(`AcceptedNeverLostInOneLife`); that the hooks see no mail twice and that no two
threads have one slot is then false, and assumed away by `HashRoom` or `KeyFirst`.

Left to prove: the parts of the other liveness properties that are not fairness, as
`FlushNeverForgets` is for `FlushAnswered` and `PopulatorsGoOn` for `StopEnds`. First
comes the way of a search through the list until a thread takes it, whose exception
`Overheard` ought to be shown to be the only one; then `WaitersAreServed` of the pool
and `QueuedIsServed` of delivery.
