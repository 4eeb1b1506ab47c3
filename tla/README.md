# A TLA+ model of the file storage server

The program is a file storage server for one machine: client processes connect over a
Unix socket and create, open, read, write, append, lock, unlock, close and remove files
that the server keeps in memory; when the store is full it expels files, FIFO or LRU.
This directory holds TLA+ modules that model its core, configurations that check them with
TLC, and proofs checked by TLAPS. `PROJECT.json` is the machine-readable index: components,
runs, theorems, hazards, findings, the source lines each definition models, and the mutants.

Paths below are relative to `src/src/`; `files.c`, `caching.c`, `session.c`, `operations.c`,
`worker.c`, `main.c`, `requestqueue.c`, `intqueue.c` are in `server/src/`.

## 1. Inventory

### Server

| Component | State | Operations | What makes it correct |
|---|---|---|---|
| **Replacement policy** `caching.c` | ring `cache` of `maxFileCount + 1` pointers, `head`, `tail`, file count, running total of bytes | `handleInsertion`, `handleUsage`, `handleEdit`, `handleRemoval` in a FIFO and an LRU version; only the core and the victims are returned, the caller frees them | holds each stored file exactly once; expels oldest first and only when needed; never looks outside `head..tail`; the running total is the number of bytes stored and within the limit |
| **File table and locks** `files.c` | hash table of `fileEntry` (owner, length, content) with a waiting queue of 32 requests each; `tableLock` | open, read, readN, write, append, lock, unlock, remove, connection closed | a lock has one holder who can release it; waiting requests are served in order, answered once and with the right reason; table and ring agree |
| **Sessions** `session.c` | per descriptor: 32 slots of opened files with a right-to-write flag, the path name of the queued lock request, the status to send | init, clear, find slot, find free slot | no file in two slots; the right to write ends with the slot; nothing is inherited by the next connection with the same descriptor |
| **Request operations** `operations.c` | none of its own | one function per request, each a few calls of `files.c` and `session.c` | every early return leaves session and table consistent |
| **Workers and notifier** `worker.c` | the worker's current request | `worker_start` (take a descriptor, read a message, `worker_body`, answer, give the descriptor back), `worker_notify` (take a queued request whose wait is over, answer, give the descriptor back) | one answer per request; a request is freed once, by whoever owns it |
| **Main and select threads** `main.c` | descriptor set, number of connections, a pipe, exit flags | accept; watch descriptors; hand readable ones to workers; messages *close*, *restore*, *new connection*, *terminate* through the pipe; signals; shutdown | a descriptor is watched iff nobody serves it; the shutdown ends |
| **Bounded queues** `requestqueue.c`, `intqueue.c` | ring buffers of 100 requests and 500 descriptors, a mutex, two condition variables, a closed flag | insert (blocks when full), get (blocks when empty), close | FIFO, nothing lost or duplicated, everybody is woken by close |
| **Requests** `request.c`, **configuration** `args.c` | - | parse a message, free a request; parse the configuration file | fields are taken from where the client put them; limits as configured |

### Clients and common code

| Component | State | Operations | What makes it correct |
|---|---|---|---|
| **Client library** `api/src/api.c` | the socket | connect (with retries until a time), a blocking call per request: write the whole message, read the whole answer; close | a call returns the answer to its own request; it returns; it fails rather than hang when the server is gone |
| **Client program** `client/src/` | the list of requests, and which call of which request is next | parse the command line, attach the directories of `-d` and `-D` to the requests before them, perform the requests in order, disconnect | options mean what the help says; a call that fails leaves no lock behind; the program ends |
| **Common** `common/src/` | - | `readn`, `writen`, ints as four bytes, locks, strings, vectors, local files | all of a message or nothing, however reads and writes cut it |

### How the parts interact

A connection is accepted by the main thread and reported through the pipe to the select
thread, which initialises its session and watches its descriptor. A readable descriptor is
taken out of the set and queued for the workers. A worker reads one request and performs
it: `operations.c` calls `files.c`, which takes `tableLock`, calls `caching.c`, and takes
what was expelled out of the table. The worker answers, with the expelled files, frees them
and returns the descriptor through the pipe. The
exception is a request for a lock that somebody holds: it stays in the waiting queue of the
file and its client gets no answer and is not watched, until an unlock, a close, a
disconnection (hand-over) or a removal or eviction (file gone) moves the request to the
notifier's queue; the notifier answers it and returns the descriptor.

### What is hard

* *Locks across everything else.* Six operations end the ownership of a file, two of them on
  files the caller never named (evictions), and each must deal with the waiting queue.
* *Time between a decision and its answer.* The status a waiting client is sent is written
  under `tableLock` and read later by the notifier.
* *Index arithmetic.* The two versions of the four cache handlers differ in their shifting
  loops, and a window that has wrapped round makes each of them delicate.
* *`readNFiles` takes no lock* and reorders the ring between other operations, at a time when
  files that have left the table may not have been freed yet.
* *Flags read some time after the deed.* A worker looks at the exit flag when select and the
  clients may already have acted on the last thing it did.
* *Descriptors as identities.* They are reused, by the kernel, and index the sessions.
* *Blocking queues, `tableLock` and the shutdown*, for a deadlock.
* *Partial reads and writes* over a socket that may hold less than a message, and processes
  that die in the middle of one.
* *Calls that fail halfway through a request of the client*, with locks and slots taken.

Every hazard we know of is in `PROJECT.json`, at its line, with the properties that would
catch it going wrong, or the reason why none does; hazards of one cause are one entry.

## 2. The modules

```
  Caching  (operators on a ring: caching.c)          EvictionQueue (abstract)
     |  \                                               ^
     |   CacheRing (the ring as a state machine) -------' implements
     |       ^-- MCCacheRing
  Filesystem (files.c, session.c, operations.c, -----> LockService (abstract), CacheRing
     ^        worker_body, worker_notify)   implements
     |-- MCFilesystem
     '-- ClientProgram (client main.c) <-- MCClientProgram
           '-- CommandLine (operators: client args.c)
  BoundedQueue (requestqueue.c, intqueue.c) ---------> Channel (abstract)
                                            implements
  Server (main.c, the loops of worker.c) ------------> Exchange (abstract)
     ^-- MCServer                                       ^
  Wire (api.c, comunication.c, worker.c, request.c) ----'
     ^-- MCWire                             implement
```

The proofs (section 4) are in modules of their own, each of which extends the module it is
about and those whose lemmas it uses:

```
  FilesystemProofs <-- ClientProgramProofs            CachingProofs <-- CacheRingProofs
     ^                                                   ^
     '------------------ CacheTableProofs ---------------'
  BoundedQueueProofs     ServerProofs     WireProofs
```

**Caching** has no variables. A ring is a record and each handler of `caching.c` an operator
from the ring before to the ring after, so that a module that owns a ring can make several
calls in one step, as `files.c` does. A slot that points to a freed entry, or was never
written, holds `NoFile`. The handlers free nothing: `Free` is what the caller does to the ring
when it frees an entry that slots outside the window still point to. The loops that shift pointers are one operator, `ShiftUp`. The
decision loop of `handleEdit` is the recursive function `ExpectedSize`. Where the code would
read a slot outside the window, or calls `exit`, an operator says so (`InsertionReadsDangling`,
`EditOverruns`, `UsageExits`, `EditExits`) and the modules that use it stop there with a
`fault`: what a process does after undefined behaviour is not a behaviour to reason about.

**CacheRing** drives the ring with the sequences of calls the operations make: `Create`
(insertion, then usage), `Use`, `Edit`, `Remove`, and `ReadN` (the reservoir sample and its
reads). It has one caller, who frees what it expels before it calls again. `len` is `fileEntry.length`, the part of the caller's state that the ring depends on.

**EvictionQueue** is what a replacement policy promises: the files in a sequence, oldest
first, that leave from the front. It knows nothing of rings, sizes or indices. `Without` is
`SelectSeq`, as a recursive function that the provers can expand.

**Filesystem** is the server as a client's requests see it.

| TLA+ | code |
|---|---|
| `stored`, `owner`, `len` | the hash table and `fileEntry.owner`, `.length` (`server/include/files.h`) |
| `waitingQueue` | `hashEntry.waitingQueue`; a request is represented by its client |
| `ring` | the globals of `caching.c` |
| `connected`, `openedFiles`, `canWriteOnFile`, `pathnamePendingLock`, `opStatus` | `sessions[]` (`server/include/session.h`) |
| `request[c]` | the file of c's lock request whose answer is outstanding; from the moment a worker leaves it unanswered until the notifier answers |
| `clientsToNotify[c]` | how often c's request is in the notifier's queue (a bag: order of answers to different clients is left open) |
| `toRead[c]` | the ring slots that c's `readNFiles` still has to visit |
| a slot with `<<c, f>>` | a pointer to the entry of file f that c's request has expelled and its worker has not freed yet (`Expelled`) |
| `CreateFile`, `OpenStoredFile` | `openFile` of `operations.c` and `filesystem_openFile` |
| `ReadFile`, `WriteFile`, `AppendToFile`, `LockFile`, `UnlockFile`, `CloseFile`, `RemoveFile` | the functions of those names and what they call |
| `ReadNFiles`, `ReadNext` | `filesystem_get_n_fileEntry`, start and one round of its loop |
| `FreeExpelled` | one round of the loop of `worker_body` that frees what was expelled, after it was sent (`worker.c:195-207`) |
| `Connect` | the pipe message *new connection*: `session_init` |
| `ConnectionClosed` | end of file at a worker, `filesystem_handle_connectionClosed`, `clear_session` |
| `Notify` | one round of `worker_notify` |

*Granularity.* An operation runs under `tableLock` from its first look at the table to its
last change, so it is one step, and the session it changes belongs to the client it serves.
Its answer is sent before the descriptor is watched again, so nothing can see the time
between. The four places where this is not so are steps of their own: queued requests
(`Notify`), `readNFiles` (`ReadNext`, one step per file read), expelled files
(`FreeExpelled`), and the life of a session.
`Ready(c)` says that c is connected and none of its requests is being served: this is the
set of watched descriptors of `main.c:284-398`. An operation that fails without changing
anything is not a step.

*Expelled files.* A creation or an edit takes files out of the table under `tableLock`, and the
worker sends them, which may block, and frees them when the lock has been released. Meanwhile
the slots outside the window that pointed to them still do, and `readNFiles` can reach these
(finding 3). So the step of the operation turns them into `<<c, f>>` (`Expel`), and only
`FreeExpelled`, entry by entry, into `NoFile`; `c` is not `Ready` before. An entry no slot
points to can no longer be seen, and its free is not a step. Until then a `ReadNext` of another
client copies the entry validly and calls `handleUsage` on it. Under FIFO this does nothing.
Under LRU the entry is not in the window, and the number of pointers to shift is reduced modulo
the size of the ring: from any slot but one the whole window moves one slot on, the file it
"uses" stays out, and nothing has changed but the places. From the slot before `head` the number
is 0: nothing is shifted, the entry gets the last place in the window and the oldest file
loses the first (`BringsBack`). From then on the ring is not the table's any more, and holds a
file that is about to be freed. The step is taken with its effect, is marked by the fault
`"expelled_use"`, and the model stops after it. A read of a slot that points to a freed entry
is undefined at once (`"dangling_read"`).

*Two functions in one.* `unlockfiles(F)` and `remove_hashEntries(F, ...)` are
`unlockfileWithSession` and `remove_hashEntry_ref` for a set of files, because a
disconnection and an edit make several such calls in one step.

**BoundedQueue** is the ring buffer through which threads pass descriptors (`intqueue.c`)
and requests (`requestqueue.c`), the same code twice. `items`, `head`, `tail` and `closed`
are the fields of the struct; `pc` says for each thread whether it is in a call, and whether
it sleeps on `itemAdded` or on `itemRemoved`. A call holds the queue's mutex from its first
line to its return or to a sleep, so these stretches are the steps: `Insert`, `AwaitRoom`,
`Remove`, `AwaitItem`, `RemoveFromClosed`, `Close`. A thread that is woken is back at
"inserting" or "removing", where it competes with new calls and tests its condition again;
`WakeSpuriously` is the wake-up for no reason that POSIX allows. `Signal` wakes one sleeper,
any one. `wait_..._queue_empty`, which nothing calls, and `free_...` are left out.

**Channel** is what that promises: a bounded sequence, `Put` at one end, `Take` at the other,
`Refuse` once it is closed. `Content` is the refinement mapping.

**Server** is the other view of the program: the threads, what they hand to each other, and
how they end. It knows nothing of files; of a request it matters only whether it is answered
at once or waits for a lock, and whose waits it ends, both left open.

| TLA+ | code |
|---|---|
| `main`, `select`, `worker`, `notifier` | where each thread is in its loop |
| `mainExitSig`, `threadExitSig`, `sighupReceived` | the flags of `main.c:42-44` |
| `client`, `unread` | the other end of each descriptor: none, idle, asked (waits for an answer), gone, reset (gone with an answer unread), and whether a request lies in the socket |
| `pipe` | the messages of `writeToPipe`: closed 0, restore 1, accepted 2, terminate 3 |
| `set`, `_maxFds`, `rdset`, `hand`, `clientsConnected`, `selectExit` | the locals of `thread_select`; `hand` is the descriptor it is inserting |
| `session` | which `sessions[]` are initialised |
| `requestQueue`, `closed` | the queue to the workers, and that main has closed both queues |
| `waiting`, `clientsToNotify` | the descriptors of requests in a waiting queue, or with the notifier |
| `TestExit`, `CallAccept`, `Accept`, `Terminate`, `CloseQueues`, `Finish` | `main`, `main.c:233-281` |
| `SelectReturns`, `ConnectionClosed`, `Restore`, `NewConnection`, `Termination`, `Dispatch`, `InsertRequest`, `EndRound` | `thread_select` |
| `TestThreadExit`, `Pop`, `PopClosed`, `ReadFails`, `ReadEnds`, `Serve`, `Queue` | `worker_start` |
| `NotifierTests`, `NotifyClient`, `TakeClosed` | `worker_notify` |
| `Ask`, `Disconnect`, `Crash`, `Abandon`, `Accept`, `Interrupt`, `HangUp` | clients, new connections and signals: the environment |

*Granularity.* A thread's step goes from one blocking call, or one look at what others write,
to the next. A request is read and performed in one step: the answer is sent and the
descriptor written to the pipe, or the request queued, before the worker looks at anything
again. Its next look, at the exit flag at the head of the loop, is a step of its own
(`TestThreadExit`, and `NotifierTests` of the notifier): select may have watched, found and
queued again what it gave back, and a signal may have come. Main's test of its flag and its call to `accept` are two steps, so a signal can come
between; it interrupts `accept` only when that has begun. The other threads mask the
signals, which therefore interrupt none of them. A message is read as a whole (`Wire` shows that this is how it looks), and a write to the pipe never blocks
(8 bytes each, at most one per descriptor). A descriptor that is closed is given to the next
connection, the lowest free one first, as the kernel does. Which requests must wait and which
waits end is free but for `HoldersRemain`: somebody who waits does so for a connected client,
which `LockHolderCanRelease` says of `Filesystem`.

**LockService** is what the server promises about locks: one owner per file, a queue for
those who have to wait, hand-over to its head, "gone" for all of it when the file leaves the
store, and nobody told anything else. It has no store, cache, session or notifier;
`outcome[c]`, in `Filesystem` a function of `request`, `pathnamePendingLock` and `opStatus`,
is what a client that asked is yet to be told. `Filesystem` implements it, and, for its ring,
`CacheRing` (with every `fault` that is not the cache's mapped to none).

**Exchange** is one connection without bytes or threads: a client that is idle, has asked, or
has gone, and whether its request is still to be taken. It is the seam between `Server` and
`Wire`: `Server`, where a message is read as a whole, implements it for each descriptor
(`ConnectionsAreExchanges`), and `Wire`, where it is not, implements it too
(`ImplementsExchange`), with `Stop` for the end of the process.

**Wire** follows the bytes of one connection.

| TLA+ | code |
|---|---|
| `serializeInt`, `requestPayload`, `answerPayload`, `new_request`, `Strings` | the formats, each from the function that writes or parses it; an int is four digits to the base `Base` (256 in the source), negative ones as complements |
| `api`, `out`, `got`, `payload`, `call`, `result` | where the library is, the rest that `writen` has to write, what `readn` has read, the length in the header, the request of the call and what it returned |
| `worker`, `in`, `msgSize`, `request`, `reply`, `given` | the same for the worker that serves the connection; `worker = "away"` means that its descriptor is watched |
| `Movable` | one `read` or `write`: any number of bytes, from one to all that is there or fits |
| `Connect`, `SleepOver`, `Call`, `WriteRequest`, `ReadAnswer`, `AnswerLost`, `BrokenPipe`, `Leave` | `api.c` |
| `Pick`, `ReadHeader`, `ReadPayload`, `Dropped`, `ReadFails`, `Perform`, `Queue`, `WriteAnswer`, `WriteFails`, `Notify` | `worker.c` |
| `server` | the process: accepts, has left its loop after SIGHUP ("draining"), after SIGINT or SIGQUIT ("stopping"), is gone |
| `Listen`, `Accept`, `Signal`, `Exit`, `Close` | what `main.c` does for the connection |

**CommandLine** has no variables: `getopt`'s options from the words (`Options`), the requests
from the options (`parseCommandLineArguments`), the directories (`expandRequests`). Its
`DirsAreRight` says what the comment `client/src/args.c:231` says, without indices.

**ClientProgram** composes it with `Filesystem`: clients with command lines connect, make one
call after the other and end, in place of the arbitrary requests of `Filesystem`'s `Next`.

| TLA+ | code |
|---|---|
| `argv`, `program` | the command line, until it is read; whether the process has begun, runs, has ended |
| `todo`, `stage` | the index of the loop `client/src/main.c:210` and the call within its `case` |
| `kept` | no variable of the code: the files whose locks the requests were to keep, for `LocksAreKeptOnPurpose` |
| `Calls`, `Tolerates`, `Returned` | the calls of each `case`, and where the program goes when one fails |
| `Perform`, `Refuse`, `Answered` | a call: the step of `Filesystem`, or the refusal, or the wait and the notifier's answer |
| `Start`, `NeverConnects`, `Finish`, `Kill`, `Disconnected` | connect; help, a crash on `-d` first, or no server; `closeConnection`; the end of the process; the server's notice of it |

A definition that a comment marks *Mutant* is a plausible mistake in the definition that
follows it. The specifications do not use it; `PROJECT.json` pairs every checked property
with one that breaks it, which shows that the run would have noticed.

## 3. What is checked

`tlc -config X.cfg M`, with M the module that X.cfg is named after, up to an underscore.

| Run | Shows |
|---|---|
| `MCCacheRing` | passes: `RingWellFormed`: everything has its type, and the shifting loops lose and duplicate no file and keep no freed entry, under both policies and in every position of the window; `EvictsOldestFirst`: the ring implements `EvictionQueue`; `OperationsFollowPolicy`: and each operation is the abstract one of its name, which excludes that, say, an edit only passes for a removal; `RunningTotalWithinLimit`; `SizeErrsOnlyAtCountLimit`: the running total follows the bytes stored in every step but one kind |
| `MCFilesystem_locks` | passes: `TypeOK`, `LockHolderCanRelease`, `WaitersAreBlocked`, `EveryRequestIsPendingOnce`, `NoDoubleFree`, `NoBarging`, `WaitEndsWithItsReason`, `ImplementsLockService`: all of that is the abstract lock service |
| `MCFilesystem_store` | passes: `CacheMatchesTable`: table and ring hold the same files, with unlocked reads between the operations and before the free of what these expel, and differ exactly when a read has brought an expelled file back (`expelled_use`); `ImplementsCacheRing`: each step is one of the operations that `MCCacheRing` checks the ring with, with the right length before and after, so what holds of `CacheRing` holds of the ring in the server. A read of an expelled file is no operation of `CacheRing`; if it brings nothing back it keeps the files, their order, count, total and lengths (`ReadsExpelled`) |
| `MCClientProgram` | passes: `DirsGoWithTheirRequests`: each request has the directory of the option right behind its own and no other; `LocksAreKeptOnPurpose`: a client that goes on holds the lock of its current file, and of others only after `-l` or a failed write of `-w`; `SlotsAreConsistent`; `ProgramsEnd` (liveness): every program comes to its end, unless it is in a circle of clients that wait for each other, or a fault stops the server |
| `MCWire` | passes: `MessagesArriveAsSent`: what the worker performs is what the library was called for, and what a call returns is what was given to it, for every cutting of the bytes; `ImplementsExchange`; `CallsReturn` and `WorkersAreReleased` (liveness): the two ends never wait for each other, and a worker does not stay with a dead client; excepted is a call that nobody takes because the server is to end (`Neglected`) |
| `BoundedQueue` | passes: `TypeOK`; `WakeupsSuffice`: with one signal per operation no consumer is left asleep beside an item and no producer beside a free place; `ImplementsChannel`: nothing is lost, duplicated or overtaken, also when the counters are moved back at the end of the array; `BlockedInsertReturns` (liveness): a producer that waits for room goes on, unless the queue is closed. No deadlock |
| `MCServer` | passes: `OneHolder`: everything has its type, and an open descriptor is in exactly one of the select set, the pipe, select's hand, the queue, a worker, a waiting queue and the notifier's queue, and a closed one in none, so nothing reaches the next connection with its number; `SessionsAreCounted`; `SetWithinBound`; `ReadersDoNotBlock`; `SoftShutdownServesAll`: after SIGHUP alone the server leaves nobody it has accepted; `ConnectionsAreExchanges`: its client sees one answer per request, after it was taken, and a new connection starts afresh |
| `MCServer_ends` | passes (liveness): `RequestsAreServed`; `ShutdownEnds`: after SIGINT every thread is joined whatever the clients do, unless all workers have gone while select waits for a place in the queue (`InsertsForEver`); `SoftShutdownEnds`: after SIGHUP so it is when the clients have left, if SIGINT does not come meanwhile (`Interrupted`) |
| `MCCacheRing_index`, `_exit`, `_readall`, `MCFilesystem_descriptor` | each is violated: section 5 |

`MCFilesystem_locks` and `_store` divide the work. The first has four clients in a store for
one file with lengths of zero: locks and queues, with evictions by clients that have nothing
to do with them. The second has two clients, three files, all operations and lengths 0 to 2,
under both policies: enough for the ring to wrap and for edits to expel. `MCClientProgram`
adds what neither has: clients that do one thing after the other, as the real ones do, so that
what they leave behind, and whether they ever end, can be asked.

### Bounds, and why they are enough

* *Clients 4, files 2, `MaxWaiting` 2, `MaxFileCount` 1* (`locks`): a holder, a full queue of
  two, and a third party whose creation expels the file under all of them; the queue's limit
  is reached, and a second file lets clients wait in a circle.
* *Files 4, `MaxFileCount` 3, `MaxMemorySize` 4, `MaxFileSize` 2* (`ring`): a ring of four
  slots with one file more than fits; edits that expel none, one or two files, before, at and
  after the edited one. One byte stands for any number.
* *`MaxFileSize` 2, `MaxFileCount` 2, `MaxMemorySize` 2* (`store`): two files fit if neither
  has more than a byte; edits and creations expel. No request waits for a lock here
  (`MaxWaiting` 0): `locks` has those. What one client has expelled and is
  yet to free the other can read, or expel again under its new entry, in every order.
* *`MaxDrift`.* The error of the running total (finding 1) grows with every eviction at the
  file limit, without a bound. A state constraint, `BoundedDrift`, cuts behaviours where it
  passes `MaxDrift`; in `ring` states on both sides of zero are reached, so both consequences
  of the error are explored. `store`, which is not about the total, keeps to an exact one.
* *`SCAN_LIMIT` is the 100 of the code*, so the run `_exit` has a real ring of 102 slots; it
  follows behaviours in which all slots but the youngest point to one file
  (`UseSpec`, `OneOtherFile`), which is all it takes to send the index round.
* *Symmetry* in clients and files is used where no liveness is checked. No definition tells
  two clients or two files apart; each `CHOOSE` is of a descriptor.
* *One producer, two consumers, two items, `Size` 2* (`BoundedQueue`): full and empty, with
  all three places of the counters (`tail` up to 3), a signal that can wake either consumer,
  and a consumer that takes the item another one was woken for. The queues have one producer
  at a time: the select thread for `requestQueue`, the holder of `tableLock` for
  `clientsToNotify` (which stays locked while an insertion sleeps). With two competing
  producers one of them can be overtaken for ever, so `BlockedInsertReturns` would be too
  much to ask; the safety properties are proved for any number of both.
* *Two descriptors, two workers, a queue for one* (`MCServer`): both descriptors can be with
  workers, wait, or be in the pipe at once; the queue fills while select holds the other
  descriptor; a number is closed and given out again while the other connection is served, and
  the higher one closed while the lower stays. With three
  descriptors the state space is too large to finish; its first eight million states
  show no violation. `MCServer_ends` has one worker: a second one only makes it
  easier to go on. With one place for two descriptors it reaches the state that `ShutdownEnds`
  excepts: the worker gives a descriptor back, select queues it again and wants to queue the
  other one, SIGINT comes, and the worker leaves at its next look at the flag, so that nobody
  makes room and main's join of select never returns (`main.c:258`, 386). `LongQueueSuffices`
  (proved) says that this takes more connections than the 500 places of the queue. To keep the
  graph small for the liveness checks, `FewCrashes` lets no socket be reset and only one of
  the clients go in the middle of a request; `MCServer` has all of it.
* *`Base` 3, `Capacity` 5* (`MCWire`): an int is four bytes, as in the source, of
  three values each; a socket holds one byte more than a header, and messages have 18 to 31,
  so each is cut in several places and both ends get blocked. The three requests have empty
  parts, bytes that look like lengths and separators, and a negative int; the answers are both
  statuses and arrays of two and of four strings.
* *Three clients, seven command lines* (`MCClientProgram`): any two of them with a third client
  that makes room (`MaxFileCount` 2), 28 combinations. The command lines have all requests,
  lists, options between a request and its `-d`, options that are not understood, and `-R` in
  the middle and at the end; one file is longer than the server takes, so writes fail. With
  three slots per session nobody runs out of them (`MCFilesystem_descriptor` shows what then
  happens).
* *`CHECK_DEADLOCK FALSE`* in every run but that of `BoundedQueue`: the system may stop. After
  a fault there is no step, and clients that wait for each other in a circle are blocked by
  design.

### Fairness

`ProgramsEnd` assumes of each connected client that it gets on as long as it can (`GetsOn`):
its next call is performed or refused, its answer delivered, a round of its `readNFiles` made,
what it has expelled freed, its end noticed. These are steps of worker threads, the select thread and the notifier, which
`MCServer_ends` shows to be made (`RequestsAreServed`), and of a program that does nothing but
call. It is weak fairness of `Proceed(c)`, written with the guard of `Proceed(c)` in place of
`ENABLED`, which TLC would evaluate very slowly. Nothing is assumed about who comes first, that
a client starts, or that anybody is killed, and a client that waits for a lock is not forced:
that those it waits for end is what the property has to show, and follows from their command
lines being finite.

`MCWire` assumes weak fairness of the library within a call (a blocked process does nothing
else), of `Accept`, of a worker that picks up what select found, both until they are stopped,
and of a worker's iteration, which it ends also after a signal. Nothing is assumed about when a
client calls, leaves, or dies, that a lock is granted, that the server is ever stopped, or that
the process ends once it is to: after SIGHUP select waits for every accepted client, which
may stay or be in a circle, and after SIGINT it may be stuck as above. A client whose connection
nobody accepts, or whose request nobody picks up, may then wait as long as the process lasts;
`CallsReturn` excepts these two cases by name (`Neglected`). It also ends at "waits for a
lock", where `ProgramsEnd` takes over.

`BlockedInsertReturns` assumes that a thread that wants the queue's mutex gets it, and that
the workers and the notifier come back for the next item, as their loops do; nothing of
wake-ups for no reason, nor that anybody calls insert.

`MCServer_ends` assumes weak fairness of the main thread, of the select thread, of the notifier
and of each worker: they are threads, and each disjunct that can stay enabled is the next thing
its thread does. Written with what each step of the thread changes (`main`; `select` and
`rdset`; `notifier`; a worker's `worker[w]`), so that it asks for a step of the thread and not
for one of another. Main's weak fairness does not bring a connection or a signal: `Accept` is no
part of `Main`. Nothing is assumed of clients. `SoftShutdownEnds` has two premises:
`ClientsLeave`, that in the end nobody is left who is connected and asks for nothing, since a
client performs a finite list of requests and ends (`ProgramsEnd`), and that no lock is waited
for for ever; and it excepts a SIGINT or SIGQUIT that comes while select is at work, after which
`InsertsForEver` can arise, or select can be asleep with nobody to wake it (`main.c:313`).
`RequestsAreServed` ends at "waits for a lock", where `ProgramsEnd` takes over.

The conclusion of `ProgramsEnd` excepts a circle of waiting clients explicitly (`Deadlocked`), since the code
neither detects nor prevents one.

## 4. What is proved

TLAPS checks the following for every value of the constants that satisfies the `ASSUME`s of
the modules: any sets of clients, files, descriptors and workers, any sizes and limits, both
policies. The assumptions are what the types and the checks of the configuration guarantee;
TLC evaluates them in the runs. Each invariant below was checked by TLC before it was proved.

| Module | Theorem | `Spec =>` |
|---|---|---|
| `FilesystemProofs` | `Invariance` | `[]IndInv` |
| | `TypeCorrect` | `[]TypeOK` |
| | `LocksCanBeReleased` | `[]LockHolderCanRelease` |
| | `WaitersWait` | `[]WaitersAreBlocked` |
| | `RequestsArePendingOnce` | `[]EveryRequestIsPendingOnce` |
| | `NeverFreedTwice` | `[]NoDoubleFree` |
| | `SlotsConsistent` | `[]SlotsAreConsistent` |
| | `LocksAreHandedOver` | `NoBarging` |
| | `WaitersAreToldWhy` | `WaitEndsWithItsReason` |
| | `FilesystemImplementsLockService` | `ImplementsLockService` |
| `CacheRingProofs` | `RingInvariance` | `[]RingInv` |
| | `RingStaysWellFormed` | `[]RingWellFormed` |
| | `RunningTotalStaysWithinLimit` | `[]RunningTotalWithinLimit` |
| | `OperationsAlwaysFollowPolicy` | `OperationsFollowPolicy` |
| | `RingImplementsQueue` | `EvictsOldestFirst` |
| | `TotalErrsOnlyAtCountLimit` | `SizeErrsOnlyAtCountLimit` |
| `CacheTableProofs` | `TableInvariance` | `[]TableInv` |
| | `TableAndCacheAgree` | `[]CacheMatchesTable` |
| | `StoreImplementsCacheRing` | `ImplementsCacheRing` |
| `ClientProgramProofs` | `ClientInvariance` | `[]ProgramInv` (of `ClientSpec`) |
| | `LocksKeptOnPurpose` | `[]LocksAreKeptOnPurpose` (of `ClientSpec`) |
| | `ProgramsKeepSlotsConsistent` | `[]SlotsAreConsistent` (of `ClientSpec`) |
| | `DirsGoRight` | `[]DirsGoWithTheirRequests` (of `ClientSpec`) |
| `BoundedQueueProofs` | `QueueTypeCorrect` | `[]TypeOK` |
| | `NoWakeupIsLost` | `[]WakeupsSuffice` |
| | `QueueImplementsChannel` | `ImplementsChannel` |
| `ServerProofs` | `ServerInvariance` | `[]ServerInv` |
| | `DescriptorsHaveOneHolder` | `[]OneHolder` |
| | `SessionsCounted` | `[]SessionsAreCounted` |
| | `WatchedWithinBound` | `[]SetWithinBound` |
| | `ReadersFindSomething` | `[]ReadersDoNotBlock` |
| | `SoftShutdownIsComplete` | `SoftShutdownServesAll` |
| | `ConnectionsImplementExchange` | `ConnectionsAreExchanges` |
| | `LongQueueSuffices` | `[]~InsertsForEver`, if `Cardinality(Fds) <= QueueSize` |
| `WireProofs` | `WireInvariance` | `[]WireInv` |
| | `WhatIsSentArrives` | `[]MessagesArriveAsSent` |
| | `ConnectionImplementsExchange` | `ImplementsExchange` |

### Locks

*The inductive invariant* `IndInv` is the conjunction of the invariants that
`FilesystemProofs` states and two more: `QueuesBounded` (a queue
fits its array) and `BlockedAreConnected` (a client with an outstanding answer keeps its
session). None of the parts is inductive alone:

* that a lock passes to a client that can release it (`LockHolderCanRelease`) needs what is
  known of the first request in the queue (`WaitersAreBlocked`): its client is connected and
  has the file open;
* that this stays true while the request waits needs that its client does nothing in the
  meantime: it is not `Ready`, because `request` is set;
* that `request` stays set until the request has left the queue needs that the notifier has
  only requests that are in no queue (`EveryRequestIsPendingOnce`);
* which in turn needs that a request is in one queue and once (`WaitersAreBlocked` again), so
  that a hand-over or a removal reports each client once;
* `NoDoubleFree` is then the remark that a `Ready` client has no pending path name.

*The argument* never looks at what the cache expels. `ShortenedQueues` covers all the
operations that take requests out of queues at once: an unlock takes the first places of the
queues of a set of files, a removal all the places of the queues of a set of files; in
both, what is taken is reported once and what remains still satisfies the invariant. The
file-removing steps use it with an arbitrary set of expelled files, so a change of policy
would not touch the proof. Each action then has one lemma, `...Preserves`, with one step per
conjunct it can disturb.

*The two action properties* need the invariant only in the state before the step: queues of
different files have no client in common (`WaitersAreBlocked`), so what a step says of the
first requests of some queues, or of all the requests of some others, is said once of each
client. The second part of `FilesystemProofs` sorts the steps by what they do to the queues: extend one
(`LockResult`), take first places (`unlockfiles`), empty some (`remove_hashEntries`), nothing.

*The lock service* is then implemented step by step: `OutcomeOfNotified` says what the step
that notifies some clients does to the refinement mapping, `UnlockIsRelease` and
`RemovalIsVanish` that the two kinds of hand-over are the abstract ones, and each operation is
one of these, an `Acquire`, an `Enqueue`, a `Tell`, or leaves it all alone.

### The cache

`CachingProofs` has no specification, only lemmas on the operators of `Caching`: what each
handler does to a ring that is in order. `WellFormed` is stronger than what the runs check.
`RingWellFormed` counts the files of the window, which is what one wants to know; what the
shifting loops keep is that no two positions have the same file (`WellFormed`), and, when the
caller has freed what it expelled, that a slot outside the window points to no file that has
left (`NoStrays`), since `readNFiles` can look there. `Contents` is the
set of files the ring holds, and each handler adds or takes the files it should:
`InsertionBelowLimit` and `InsertionAtLimit`, `UsageKeeps`, `EditKeeps`, `RemovalKeeps`. Positions are counted from `head`
by `Turn`, a rotation, and `TurnIsOnto` with its companions is all the modular arithmetic there
is. The counting is in `ContentsOfWindow`, by the cardinality of an image under an injection.
The lemmas also say at which position each file that stays was before, and what total
`handleEdit` stops with.

`RingInv` adds to this for `CacheRing` that files outside the ring have no length, and that the
running total is within the limit: this last holds whatever the total has to do with the bytes
stored (finding 1), because each handler compares it with the limit before it enters something.

*The ring implements the queue* of `EvictionQueue`, and each operation is the action of the
queue that has its name. A queue is described by where its files were before:
`WithoutIs` says what taking out a set of files leaves, by an increasing list of the positions
that stay, and `DropIs`, `MoveIs` and `ShortIs` what that comes to for one file, for one file put
back at the end, and for the first `k` files without one. The other side, from which position of
the ring each file of the window came, is in `CachingProofs`; that the two agree is
`UseTouches`, `RemovalDrops`, `EditTouches` and `InsertionAppends`. A `readNFiles` is several
uses: that it puts some of the files, in some order, behind the others is kept from one read to
the next (`MoveReorders`, `ReadsReorder`). `EvictionQueue` takes files out with the recursive
function `Without`, which is `SelectSeq`, the provers having no definition of the latter. The
policy is followed by the operations that return; one that ends the process does nothing
(`Failed`), which is why `NoFault` must be different from every fault (`NoFaultAssumption`).
With `StoreImplementsCacheRing` this holds of what all clients do together.

*The bytes* are a sum over the files. Any function that gives the sums of the parts of a set,
whichever file is taken off first, is the sum of the library (`SumsExist`, `SumIs`), so a file
can be taken off where a proof needs it (`BytesSteps`, `BytesAgree`). The loop of `handleEdit`
takes one file after the other off the total, and at each of them the total and the bytes of
the files it has not looked at go down by the same (`LoopTakesBytes`); so `Excess`, the
total less the bytes, is what it was before (`EditCounts`). No other operation but the creation
at the file limit changes it either, which is the whole extent of finding 1: the total
of a server that never creates a file when the store is full is exact.

`TableInv` is the same for `Filesystem`, whose ring can also hold expelled entries. `Plain` is the
ring without them, a ring of `Caching`; `Shaped` says what the slots can hold, `SlotsToRead`
that a `readNFiles` still has to visit slots of the ring. `Agrees`: the plain ring is well formed,
holds the files of the table and has no strays, so that an expelled entry is never in the
window. Expelling and freeing change slots outside the window only. The new case is the use of an
expelled entry: `SearchLength` finds it outside the window, so at least `count` slots from
head; if it is not the last slot of the ring, the loop moves the whole window one on, and
`Agrees` holds again with the same queue; if it is, `BroughtBack` is what is left to say.
`TableInv` is inductive by itself; only the types of lengths come from `IndInv`. For `ImplementsCacheRing` one has to know
that what the cache expels is in the table (`VictimIsStored`, `EditKeeps`), since the store
resets the lengths of the files it removes and `CacheRing` those of the victims. The operators
that `CacheRing` inherits are first shown to be those of the store (`SameRing` to `SameEdit`).

### Client programs

`LocksAreKeptOnPurpose` allows the current request to hold its file's lock at any time; that
it has let go of it when it ends needs to know in which of its calls it can hold it at all.
`HoldsItsFile` says so: after the call that locks (`create_locked` or `open_locked` of the
types that have one) until the call that releases; or while the call has not returned but the
server has granted the lock. `HeldOrKept` with `HoldsItsFile` is inductive together with
`IndInv`, `WaitsInItsCall` (a blocked client is in a call that locks that file) and the types of
the program's variables. Three facts carry the proof: a step for one client gives another
client a lock only if it waits for it, and tells it so (`OthersServed`); after a release,
performed or refused, the client does not own the file, because an owner has its file open
(`LockHolderCanRelease`); and what `LeavesLocks` says of a call is what the next stage of the
request expects (`ReturnedKeepsLocks`), by the table of calls in `IsCall`. That command lines
give work whose files are files is an assumption (`WorkAssumption`), since `Files` is a constant.

`DirsGoWithTheirRequests` says nothing of what a program does, but of every command line it may
be given: any list of words (`LinesAssumption`, `Words`). The argument goes along with
the data. `OptionsType` says that `getopt` finds options, with words for arguments;
`FlattenedComes` that the requests are those of the options, in order; `ParsedInOrder`
that each has the index of its option, that indices do not decrease, and that every `-d` and
`-D` has its request. Then the requests which `expandRequests` looks at for a directory are
those of the option behind (`DirIsBehind`), and if that option is a directory it finds it
(`DirIsFound`). Each of the recursions is used by a least counterexample (`LeastIn`), as below.

### Queues

`QueueTypeCorrect` and `NoWakeupIsLost` together are inductive. `WakeupsSuffice` counts: an
item more comes with a signal that makes one more consumer awake, or finds nobody asleep; an
item less uses up the consumer that takes it. That an operation changes the count of at most
two places, each by one, is a handful of lemmas on cardinalities (`Signals`). The refinement
needs only the types: `Stretch` describes a part of the array that wraps round,
`AppendToStretch` and `TailOfStretch` relate it to `Append` and `Tail`, and everything but
`Insert`, `Remove`, `RemoveFromClosed` and `Close` is a stutter of the channel.

### Threads

`ServerInv` looks at the server as nine places where a descriptor can be (`at`): three kinds
of messages in the pipe, the select set, select's hand, the queue, a worker, a waiting queue,
the notifier's queue. `Partition` says that each open descriptor is in exactly one of them and
a closed one in none, and every step is a `Move` of some descriptors from one place to another,
an `Enter` or a `Leave`. The rest is what keeps that going:

* `ReadyUntilRead`: what select found readable is so until a worker has read it, which needs that
  nobody else can read it meanwhile (`Partition`) and that its client cannot take back what it
  has sent; from it follows `ReadersDoNotBlock`;
* `UnreadWasAsked`, `WaitersHaveAsked`, `ClosedHaveGone`: how the client's state goes with the
  place its descriptor is in; these make each step a step of `Exchange`;
* `SessionsKnown`: the sessions are those of the connections that select has been told of;
* `MainLeavesLast`: main's last message comes after that of each connection it has accepted, so
  that select cannot leave one behind (`SoftShutdownServesAll`).

`LongQueueSuffices` is counting: the descriptors in the queue are different from each other and
from the one in select's hand (`Partition`), so a full queue with one more to insert needs more
than `QueueSize` of them.

### Bytes

*What is written is found where it is looked for.* `IntRoundTrip` takes an int through its four
digits and back, by division with remainder and the bounds of what four digits can hold;
negative ones come back because they are taken modulo `IntRange`. `PartAt` then says that a
part put anywhere in a message is read there, by `MiddlePart`, and `RequestRoundTrip` follows
the four parts of a request. The strings of an answer are as many as there are: the lemma
`AnswerRoundTrip` needs a recursion on each side to agree, `FlattenSeq`'s with the library's
loop over lengths. The induction theorems of the prover's library cannot be used: they
take an operator as a parameter, which its provers cannot instantiate. A least
counterexample does as well (`LeastOf`, from the well-foundedness of `<`): there is no first
index at which a function differs from the one its recursion determines.

*The invariant* `WireInv` says what a byte in transit is part of:

* `RequestOnItsWay`: until the worker has the request, the bytes it has read, those in the
  socket and those the library has still to write are together the request's message, or, after
  the header, the rest of it; and `msgSize` is its length;
* `AnswerOnItsWay`: the same for the answer, on its way back;
* `RequestTaken` and `WorkerKnows`: nothing is in a socket that belongs to neither, and in which
  states of the worker there is a request, or an answer, at all;
* `Places`: how the states of the two ends and the connection go together.

A read or a write moves bytes between two of the three places (`ReadMoves`, `WriteMoves`), and
the last one leaves the other two empty (`ReadInFull`): the loop of `readn` ends with all of the
message and nothing of the next. What a call returns is then the round trip. For the exchange,
reads and writes change what is seen only with the last byte of a request read, or of an answer
written; the other steps that are not stutters are a call, the client's coming and going, the
error that its going leaves behind, and the two ways a connection is closed.

The assumptions are about the data: strings are bytes, a kind is one, the flags are an int,
lengths fit an int (`LengthsFitAssumption`; the program does not check it, `worker.c:53`).

### Not proved, and why

* *Liveness* (`ProgramsEnd`, `CallsReturn`, `WorkersAreReleased`, `BlockedInsertReturns`,
  `RequestsAreServed`, `ShutdownEnds`, `SoftShutdownEnds`) is out of the prover's reach, with
  `ENABLED`.
* *What the code does not do*: the four properties of section 5 are violated, and TLC shows how.

Every invariant, action property and refinement that a passing run checks is also a theorem.
`CacheMatchesTable` and `ImplementsCacheRing` say what they say up to the step that brings an
expelled file back: the program goes on from there, the model does not.

## 5. Findings

Each is a run that TLC ends with a violation of one property that quotes the repository.

1. `NoBadIndex` (`_index`): at the file limit the bytes of the *next* file, not of the one
   that leaves, are taken off the running total (`caching.c:92`, LRU 225); when it is too high
   `handleEdit` runs past the last file (`caching.c:135`), which its comment excludes. When it
   is too low the store holds more than `maxMemorySize`.
2. `UsageNeverExits` (`_exit`): a leftover check ends the server when a search passes index
   100 (`caching.c:263`); the default configuration allows 1000 files.
3. `ReadAllReadsEveryFile` (`_readall`): `readNFiles` reduces ring indices modulo the wrong
   number (`files.c:392`): once the ring has wrapped it reads slots outside the window, of
   files that have left, and misses stored ones.
4. `DescriptorInRange` (`_descriptor`): with all slots taken, opening a stored file writes to
   slot -1, because `files.c:475` clears the failure.

Met while modelling, and without a run of their own:

* `-R` as the last word of a command line is reported as a missing argument and becomes a
  request of type `:`, which the client ignores, although the comment `client/src/args.c:83` and
  the help text (`client/src/main.c:53`) give it a default. `RequestsOf` has this step.
* `-e`, which is to disable error logging, does nothing, and `-q` does it too:
  `client/src/main.c:175` tests `qFlag` a second time.
* A client whose file was expelled between the hand-over of its lock and the notification is
  told that it acquired the lock (`worker.c:319`), although `files.c:332` promises 0 for a deleted
  file. `Filesystem` has these steps.
* Under LRU, `readNFiles` can put a file that another request has expelled back into the ring
  before it is freed (`files.c:392-394`, `worker.c:195-207`): the ring then points to an entry
  that the table does not have and that will be freed. `Filesystem` has this step and stops
  there (`BringsBack`).
* SIGINT can leave the server waiting for a queue that nobody empties (`InsertsForEver`), when
  there are more connections than the queue has places (500).
* `connect` waits without limit while the socket's queue of connections is full
  (`api.c:231`), whatever time `openConnection` is given; and the length of an answer is cast to
  int (`worker.c:53`), so `Wire` assumes that lengths fit.

## 6. What is not modelled

* *Contents.* A file is its length. Hash buckets: the table is a set of names. The report's
  counters and high-water marks, and the log: nothing reads them back.
* *Inside one read of `readNFiles`.* Copying a file and reporting it as used is one step, so
  the races of two such reads, or of one with an operation, inside `handleUsageLRU` and
  `deep_copy_file` are not explored. `MCFilesystem_store` explores what comes between the reads,
  the time between the expulsion of a file and its free included.
* *Holes in the waiting queue.* `clean_pending_lock_request` would set a place to null;
  `NoDoubleFree` (proved) says it is never reached with anything to clean.
* *After a fault* nothing happens, also where the program would go on in a defined way for a
  while (`expelled_use`). `clear_session`'s reset of the status is left to `Connect`,
  the next step that could show it.
* *Memory at the shutdown and of requests.* `Server` ends when the threads are joined;
  `free_request_queue`, which walks the array without wrapping round (`requestqueue.c:75`), and
  who owns a request after it is queued (`operations.c:26`) are about memory that no model has.
* *Failing system calls* other than a failed read or write, a failed connection and an
  interrupted `accept`; the limit of descriptors.
* *The configuration* (`server/src/args.c`) and the scripts: sequential, and done before
  anything else begins. Its results are constants. The overflow of the memory limit
  (`args.c:168`) is in the hazards.
* *Of the command line*: options with the argument in the same word (`-R5`; of these `-R-5`
  makes the parser find the same word for ever), and the values of `-t` and `-f`. Of the client: nested
  directories, which are a longer list of files, and the files it writes.

## 7. Plan

Done, in this order: `Caching`, `EvictionQueue`, `CacheRing`, `Filesystem`, its proofs,
`Channel`, `BoundedQueue`, its proofs, `Server`, `Exchange`, `Wire`, `LockService`,
`CommandLine`, `ClientProgram`; the proofs about `Server`, `LockService`, the cache, the table
with the cache, client programs, and `Wire`; then that the ring is the policy's queue, how far
its running total can be trusted, and where the directories of a command line go.

To model: a finer `readNFiles`, with the copy and the two halves of `handleUsageLRU`
interleaved with the operations under `tableLock`.
