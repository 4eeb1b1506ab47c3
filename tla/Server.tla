------------------------------- MODULE Server -------------------------------
(***************************************************************************)
(* The threads of the server and what they pass to each other: main        *)
(* accepts connections, the select thread watches descriptors, workers     *)
(* read and serve requests, the notifier answers those whose wait for a    *)
(* lock is over.  A descriptor goes round from one to the next, through a  *)
(* pipe and two queues.                                                    *)
(*                                                                         *)
(* Of a request it matters only whether it is answered at once or waits    *)
(* for a lock, and whose waits it ends: Filesystem says which.  The queues *)
(* between threads are Channels, which BoundedQueue implements.            *)
(***************************************************************************)
EXTENDS Integers, Sequences, FiniteSets, FiniteSetsExt

CONSTANTS
    Fds,          \* the descriptors of connections; 0 stands for the pipe's
    Workers,
    QueueSize     \* INT_QUEUE_SIZE

ASSUME FdsAssumption == IsFiniteSet(Fds) /\ Fds \subseteq Nat \ {0}
ASSUME WorkersAssumption == IsFiniteSet(Workers)
ASSUME QueueSizeAssumption == QueueSize \in Nat \ {0}

VARIABLES
    main,              \* where each thread is
    select,
    worker,
    notifier,
    mainExitSig,
    threadExitSig,
    sighupReceived,
    client,            \* the other end of each descriptor
    unread,            \* whether a request waits in its socket
    pipe,              \* the messages to the select thread
    session,           \* the descriptors between init_session and clear_session
    clientsConnected,
    selectExit,
    set,               \* the descriptors select watches
    _maxFds,
    rdset,             \* what is left of those the last select found ready
    hand,              \* the descriptor select is putting in the queue, or 0
    requestQueue,
    closed,            \* of both queues
    serving,           \* the descriptor each worker has, or 0
    waiting,           \* the descriptors whose requests wait for a lock
    clientsToNotify    \* those whose wait is over

signals == <<mainExitSig, threadExitSig, sighupReceived>>
clients == <<client, unread>>
selecting == <<select, session, clientsConnected, selectExit, set, _maxFds, rdset, hand>>
working == <<worker, serving>>
locks == <<waiting, clientsToNotify>>
vars == <<main, signals, clients, selecting, working, notifier, locks, pipe, requestQueue, closed>>

Open == {fd \in Fds : client[fd] # "none"}

Init ==
    /\ main = "testing" /\ select = "dispatching" /\ notifier = "testing"
    /\ worker = [w \in Workers |-> "testing"]
    /\ mainExitSig = FALSE /\ threadExitSig = FALSE /\ sighupReceived = FALSE
    /\ client = [fd \in Fds |-> "none"]
    /\ unread = [fd \in Fds |-> FALSE]
    /\ pipe = << >>
    /\ session = {} /\ clientsConnected = 0 /\ selectExit = FALSE
    /\ set = {} /\ _maxFds = 0 /\ rdset = {} /\ hand = 0
    /\ requestQueue = << >> /\ closed = FALSE
    /\ serving = [w \in Workers |-> 0]
    /\ waiting = {} /\ clientsToNotify = {}

writeToPipe(kind, fd) == pipe' = Append(pipe, <<kind, fd>>)

----------------------------------------------------------------------------
(* Clients.  "gone": the client has closed its end; "reset": it has, with  *)
(* its answer unread, so that the next read fails once.                    *)

\* A client asks for one thing at a time (api.c).
Ask(fd) ==
    /\ main # "done" /\ client[fd] = "idle"
    /\ client' = [client EXCEPT ![fd] = "asked"]
    /\ unread' = [unread EXCEPT ![fd] = TRUE]
    /\ UNCHANGED <<main, signals, selecting, working, notifier, locks, pipe,
                   requestQueue, closed>>

Leaves(fd, from, to) ==
    /\ main # "done" /\ client[fd] \in from
    /\ client' = [client EXCEPT ![fd] = to]
    /\ UNCHANGED <<main, signals, unread, selecting, working, notifier, locks, pipe,
                   requestQueue, closed>>

Disconnect(fd) == Leaves(fd, {"idle"}, "gone")
Crash(fd) == Leaves(fd, {"asked"}, "gone") \/ Leaves(fd, {"idle"}, "reset")

\* The client goes when it has sent only the beginning of its request.
Abandon(fd) ==
    /\ main # "done" /\ client[fd] = "asked" /\ unread[fd]
    /\ client' = [client EXCEPT ![fd] = "gone"]
    /\ unread' = [unread EXCEPT ![fd] = FALSE]
    /\ UNCHANGED <<main, signals, selecting, working, notifier, locks, pipe,
                   requestQueue, closed>>

Answered(fd) ==
    client' = IF client[fd] = "asked" THEN [client EXCEPT ![fd] = "idle"] ELSE client

----------------------------------------------------------------------------
(* The signals, whose handler runs in the main thread.  It interrupts the  *)
(* call to accept if that has begun, and nothing else.                     *)

Interrupt ==
    /\ main # "done"
    /\ mainExitSig' = TRUE /\ threadExitSig' = TRUE
    /\ main' = IF main = "accepting" THEN "testing" ELSE main
    /\ UNCHANGED <<sighupReceived, clients, selecting, working, notifier, locks, pipe,
                   requestQueue, closed>>

HangUp ==
    /\ main # "done"
    /\ mainExitSig' = TRUE /\ sighupReceived' = TRUE
    /\ main' = IF main = "accepting" THEN "testing" ELSE main
    /\ UNCHANGED <<threadExitSig, clients, selecting, working, notifier, locks, pipe,
                   requestQueue, closed>>

----------------------------------------------------------------------------
(* The main thread.                                                        *)

MainGoes(from, to) ==
    /\ main = from /\ main' = to
    /\ UNCHANGED <<signals, selecting, working, notifier, locks, requestQueue>>

TestExit ==
    /\ MainGoes("testing", IF mainExitSig \/ sighupReceived THEN "leaving" ELSE "calling")
    /\ UNCHANGED <<clients, pipe, closed>>

CallAccept == MainGoes("calling", "accepting") /\ UNCHANGED <<clients, pipe, closed>>

\* A connection arrives.  It gets the lowest descriptor that is free.
Accept ==
    /\ MainGoes("accepting", "testing")
    /\ Open # Fds
    /\ LET conn == Min(Fds \ Open)
       IN  /\ client' = [client EXCEPT ![conn] = "idle"]
           /\ writeToPipe("accepted", conn)
    /\ UNCHANGED <<unread, closed>>

Terminate ==
    /\ MainGoes("leaving", "joining_select")
    /\ writeToPipe("terminate", 0)
    /\ UNCHANGED <<clients, closed>>

\* Mutant: the queues stay open.
CloseQueues_Unclosed ==
    /\ MainGoes("joining_select", "joining_workers")
    /\ select = "exited"
    /\ UNCHANGED <<clients, pipe, closed>>

CloseQueues ==
    /\ MainGoes("joining_select", "joining_workers")
    /\ select = "exited"
    /\ closed' = TRUE
    /\ UNCHANGED <<clients, pipe>>

Finish ==
    /\ MainGoes("joining_workers", "done")
    /\ notifier = "exited" /\ \A w \in Workers : worker[w] = "exited"
    /\ UNCHANGED <<clients, pipe, closed>>

Main == TestExit \/ CallAccept \/ Terminate \/ CloseQueues \/ Finish

----------------------------------------------------------------------------
(* The select thread.                                                      *)

\* Mutant: a soft shutdown does not wait for the clients.
SelectExits_AtOnce == threadExitSig \/ selectExit

SelectExits == threadExitSig \/ (selectExit /\ (sighupReceived => clientsConnected = 0))

\* Something can be read: a request, or that the client has gone.
Readable(fd) == unread[fd] \/ client[fd] \in {"gone", "reset"}

SelectReturns ==
    LET found == {fd \in set : fd <= _maxFds /\ Readable(fd)} \cup {0 : m \in 1 .. Len(pipe)}
    IN  /\ select = "selecting" /\ found # {}
        /\ select' = "dispatching"
        /\ rdset' = found
        /\ UNCHANGED <<main, signals, clients, session, clientsConnected, selectExit, set, _maxFds,
                       hand, working, notifier, locks, pipe, requestQueue, closed>>

\* One message, in the round of each select that finds the pipe ready.
Message(kind, fd) ==
    /\ select = "dispatching" /\ 0 \in rdset
    /\ Head(pipe) = <<kind, fd>>
    /\ pipe' = Tail(pipe)
    /\ rdset' = rdset \ {0}
    /\ UNCHANGED <<main, signals, select, hand, working, notifier, requestQueue, closed>>

(***************************************************************************)
(* Requests may wait only as long as there is somebody else to hold the    *)
(* locks (LockHolderCanRelease of Filesystem): `left' wait when `others'   *)
(* are connected.                                                          *)
(***************************************************************************)
HoldersRemain(left, others) == left # {} => Cardinality(others) > 1

\* Mutant: the counter is not decremented.
ConnectionClosed_Uncounted(fd, told) ==
    /\ Message("closed", fd)
    /\ HoldersRemain(waiting \ told, session \ {fd})
    /\ waiting' = waiting \ told
    /\ clientsToNotify' = clientsToNotify \cup told
    /\ session' = session \ {fd}
    /\ client' = [client EXCEPT ![fd] = "none"]
    /\ UNCHANGED <<unread, clientsConnected, selectExit, set, _maxFds>>

\* Its locks are released, which ends the waits of `told', and the descriptor is free again.
ConnectionClosed(fd, told) ==
    /\ Message("closed", fd)
    /\ HoldersRemain(waiting \ told, session \ {fd})
    /\ waiting' = waiting \ told
    /\ clientsToNotify' = clientsToNotify \cup told
    /\ session' = session \ {fd}
    /\ clientsConnected' = clientsConnected - 1
    /\ client' = [client EXCEPT ![fd] = "none"]
    /\ UNCHANGED <<unread, selectExit, set, _maxFds>>

Restore(fd) ==
    /\ Message("restore", fd)
    /\ set' = set \cup {fd}
    /\ _maxFds' = Max({_maxFds, fd})
    /\ UNCHANGED <<clients, locks, session, clientsConnected, selectExit>>

\* Mutant: a new descriptor does not count for the highest one.
NewConnection_MaxKept(fd) ==
    /\ Message("accepted", fd)
    /\ session' = session \cup {fd}
    /\ set' = set \cup {fd}
    /\ clientsConnected' = clientsConnected + 1
    /\ UNCHANGED <<clients, locks, selectExit, _maxFds>>

NewConnection(fd) ==
    /\ Message("accepted", fd)
    /\ session' = session \cup {fd}
    /\ set' = set \cup {fd}
    /\ _maxFds' = Max({_maxFds, fd})
    /\ clientsConnected' = clientsConnected + 1
    /\ UNCHANGED <<clients, locks, selectExit>>

Termination ==
    /\ Message("terminate", 0)
    /\ selectExit' = TRUE
    /\ UNCHANGED <<clients, locks, session, clientsConnected, set, _maxFds>>

\* Mutant: the descriptor stays in the set.
Dispatch_StillWatched(fd) ==
    /\ select = "dispatching" /\ fd \in rdset /\ fd <= _maxFds /\ \A d \in rdset : fd <= d
    /\ select' = "inserting" /\ hand' = fd
    /\ rdset' = rdset \ {fd}
    /\ _maxFds' = Max({0} \cup {d \in Open : d <= _maxFds})
    /\ UNCHANGED <<main, signals, clients, session, clientsConnected, selectExit, set, working,
                   notifier, locks, pipe, requestQueue, closed>>

\* The descriptors in ascending order, the pipe's first; fstat finds those that are open.
Dispatch(fd) ==
    /\ select = "dispatching" /\ fd \in rdset /\ fd <= _maxFds /\ \A d \in rdset : fd <= d
    /\ select' = "inserting" /\ hand' = fd
    /\ rdset' = rdset \ {fd}
    /\ set' = set \ {fd}
    /\ _maxFds' = Max({0} \cup {d \in Open : d <= _maxFds})
    /\ UNCHANGED <<main, signals, clients, session, clientsConnected, selectExit, working,
                   notifier, locks, pipe, requestQueue, closed>>

InsertRequest ==
    /\ select = "inserting" /\ Len(requestQueue) < QueueSize
    /\ requestQueue' = Append(requestQueue, hand)
    /\ select' = "dispatching" /\ hand' = 0
    /\ UNCHANGED <<main, signals, clients, session, clientsConnected, selectExit, set, _maxFds,
                   rdset, working, notifier, locks, pipe, closed>>

\* The end of a round, and the tests at the head of the loop.
EndRound ==
    /\ select = "dispatching" /\ \A fd \in rdset : fd > _maxFds
    /\ select' = IF SelectExits THEN "exited" ELSE "selecting"
    /\ rdset' = {}
    /\ threadExitSig' = (threadExitSig \/ SelectExits)
    /\ UNCHANGED <<main, mainExitSig, sighupReceived, clients, session, clientsConnected,
                   selectExit, set, _maxFds, hand, working, notifier, locks, pipe, requestQueue,
                   closed>>

SelectThread ==
    \/ SelectReturns \/ InsertRequest \/ EndRound \/ Termination
    \/ \E fd \in Fds :
        \/ \E told \in SUBSET waiting : ConnectionClosed(fd, told)
        \/ Restore(fd) \/ NewConnection(fd) \/ Dispatch(fd)

----------------------------------------------------------------------------
(* The workers.                                                            *)

WorkerGoes(w, from, to) ==
    /\ worker[w] = from
    /\ worker' = [worker EXCEPT ![w] = to]
    /\ UNCHANGED <<main, signals, selecting, notifier, closed>>

\* Where the test at the head of its loop sends a worker or the notifier.
AfterTest == IF threadExitSig THEN "exited" ELSE "removing"

\* The test comes after all that ended the last iteration: others may have acted on it before.
TestThreadExit(w) ==
    /\ WorkerGoes(w, "testing", AfterTest)
    /\ UNCHANGED <<client, unread, serving, locks, pipe, requestQueue>>

Pop(w) ==
    /\ WorkerGoes(w, "removing", "reading")
    /\ ~closed /\ requestQueue # << >>
    /\ serving' = [serving EXCEPT ![w] = Head(requestQueue)]
    /\ requestQueue' = Tail(requestQueue)
    /\ UNCHANGED <<client, unread, locks, pipe>>

PopClosed(w) ==
    /\ WorkerGoes(w, "removing", "testing")
    /\ closed
    /\ UNCHANGED <<client, unread, serving, locks, pipe, requestQueue>>

\* Nothing to read: the client has gone, at once or after one error.
ReadFails(w) ==
    /\ WorkerGoes(w, "reading", "testing")
    /\ ~unread[serving[w]] /\ client[serving[w]] = "reset"
    /\ client' = [client EXCEPT ![serving[w]] = "gone"]
    /\ writeToPipe("restore", serving[w])
    /\ serving' = [serving EXCEPT ![w] = 0]
    /\ UNCHANGED <<unread, locks, requestQueue>>

ReadEnds(w) ==
    /\ WorkerGoes(w, "reading", "testing")
    /\ ~unread[serving[w]] /\ client[serving[w]] = "gone"
    /\ writeToPipe("closed", serving[w])
    /\ serving' = [serving EXCEPT ![w] = 0]
    /\ UNCHANGED <<client, unread, locks, requestQueue>>

\* A request is read and performed, which may end the waits of others; `left' wait still.
Performed(w, told, left) ==
    /\ WorkerGoes(w, "reading", "testing")
    /\ unread[serving[w]]
    /\ unread' = [unread EXCEPT ![serving[w]] = FALSE]
    /\ HoldersRemain(left, session)
    /\ waiting' = left
    /\ clientsToNotify' = clientsToNotify \cup told
    /\ serving' = [serving EXCEPT ![w] = 0]
    /\ UNCHANGED requestQueue

\* The client is answered and the descriptor given back ...
Serve(w, told) ==
    /\ Performed(w, told, waiting \ told)
    /\ Answered(serving[w])
    /\ writeToPipe("restore", serving[w])

\* Mutant: the descriptor is given back although the request waits.
Queue_GivenBack(w, told) ==
    /\ Performed(w, told, (waiting \ told) \cup {serving[w]})
    /\ writeToPipe("restore", serving[w])
    /\ UNCHANGED client

\* Mutant: a request that has to wait is answered as well (result 0 taken for success).
Queue_Answered(w, told) ==
    /\ Performed(w, told, (waiting \ told) \cup {serving[w]})
    /\ Answered(serving[w])
    /\ UNCHANGED pipe

\* ... or somebody holds the lock, and the notifier will do that.
Queue(w, told) ==
    /\ Performed(w, told, (waiting \ told) \cup {serving[w]})
    /\ UNCHANGED <<client, pipe>>

Worker(w) ==
    \/ TestThreadExit(w) \/ Pop(w) \/ PopClosed(w) \/ ReadFails(w) \/ ReadEnds(w)
    \/ \E told \in SUBSET waiting : Serve(w, told) \/ Queue(w, told)

----------------------------------------------------------------------------
(* The notifier.                                                           *)

NotifierGoes(from, to) ==
    /\ notifier = from /\ notifier' = to
    /\ UNCHANGED <<main, signals, unread, selecting, working, waiting, requestQueue, closed>>

NotifierTests ==
    /\ NotifierGoes("testing", AfterTest)
    /\ UNCHANGED <<client, clientsToNotify, pipe>>

\* Mutant: the descriptor does not go back.
NotifyClient_NotGivenBack(fd) ==
    /\ NotifierGoes("removing", "testing")
    /\ ~closed /\ fd \in clientsToNotify
    /\ clientsToNotify' = clientsToNotify \ {fd}
    /\ Answered(fd)
    /\ UNCHANGED pipe

\* A client whose wait is over is answered, and its descriptor goes back.
NotifyClient(fd) ==
    /\ NotifierGoes("removing", "testing")
    /\ ~closed /\ fd \in clientsToNotify
    /\ clientsToNotify' = clientsToNotify \ {fd}
    /\ Answered(fd)
    /\ writeToPipe("restore", fd)

TakeClosed ==
    /\ NotifierGoes("removing", "testing")
    /\ closed
    /\ UNCHANGED <<client, clientsToNotify, pipe>>

Notifier == NotifierTests \/ TakeClosed \/ \E fd \in Fds : NotifyClient(fd)

Next ==
    \/ Interrupt \/ HangUp \/ Accept
    \/ \E fd \in Fds : Ask(fd) \/ Disconnect(fd) \/ Crash(fd) \/ Abandon(fd)
    \/ Main \/ SelectThread \/ Notifier
    \/ \E w \in Workers : Worker(w)

Spec == Init /\ [][Next]_vars

(***************************************************************************)
(* Every thread goes on when it can: each of its steps changes where it    *)
(* is, or what is left of a round.  Nothing is assumed of clients, of new  *)
(* connections and of signals.                                             *)
(***************************************************************************)
Fairness ==
    /\ WF_main(Main) /\ WF_<<select, rdset>>(SelectThread) /\ WF_notifier(Notifier)
    /\ \A w \in Workers : WF_worker(Worker(w))

\* A client performs a finite list of requests and disconnects (client/src/main.c): in the
\* end nobody is left who is connected and has nothing on its way.
ClientsLeave == <>[](\A fd \in Fds : client[fd] # "idle")

----------------------------------------------------------------------------
TypeOK ==
    /\ main \in {"testing", "calling", "accepting", "leaving", "joining_select", "joining_workers",
                 "done"}
    /\ select \in {"selecting", "dispatching", "inserting", "exited"}
    /\ worker \in [Workers -> {"testing", "removing", "reading", "exited"}]
    /\ notifier \in {"testing", "removing", "exited"}
    /\ mainExitSig \in BOOLEAN /\ threadExitSig \in BOOLEAN /\ sighupReceived \in BOOLEAN
    /\ client \in [Fds -> {"none", "idle", "asked", "reset", "gone"}]
    /\ unread \in [Fds -> BOOLEAN]
    /\ pipe \in Seq({"closed", "restore", "accepted"} \X Fds \cup {<<"terminate", 0>>})
    /\ session \subseteq Fds
    /\ clientsConnected \in Nat
    /\ selectExit \in BOOLEAN
    /\ set \subseteq Fds
    /\ _maxFds \in Fds \cup {0}
    /\ rdset \subseteq Fds \cup {0}
    /\ hand \in Fds \cup {0} /\ (hand # 0 <=> select = "inserting")
    /\ requestQueue \in Seq(Fds) /\ Len(requestQueue) <= QueueSize
    /\ closed \in BOOLEAN
    /\ serving \in [Workers -> Fds \cup {0}]
    /\ \A w \in Workers : serving[w] # 0 <=> worker[w] = "reading"
    /\ waiting \subseteq Fds /\ clientsToNotify \subseteq Fds

\* The places a descriptor can be in, each with a number to tell them apart.
Holders(fd) ==
    {<<"pipe", i>> : i \in {i \in DOMAIN pipe : pipe[i][2] = fd}}
    \cup {<<"queue", i>> : i \in {i \in DOMAIN requestQueue : requestQueue[i] = fd}}
    \cup {<<"worker", w>> : w \in {w \in Workers : serving[w] = fd}}
    \cup {p \in {<<"set", fd>>} : fd \in set}
    \cup {p \in {<<"hand", fd>>} : fd = hand}
    \cup {p \in {<<"waiting", fd>>} : fd \in waiting}
    \cup {p \in {<<"to_notify", fd>>} : fd \in clientsToNotify}

(***************************************************************************)
(* Everything has its type, and an open descriptor is in one place and a   *)
(* closed one in none: nobody else can read from it ("remove fd from set   *)
(* so nobody can read except the thread that will handle the request",     *)
(* main.c:377), it is never forgotten, and when the kernel gives it to the *)
(* next connection nothing that was meant for the last one is on its way.  *)
(***************************************************************************)
OneHolder ==
    /\ TypeOK
    /\ \A fd \in Fds : Cardinality(Holders(fd)) = IF fd \in Open THEN 1 ELSE 0

(***************************************************************************)
(* The counter that decides when a soft shutdown ends counts the sessions, *)
(* and a descriptor has a session from the message of its connection until *)
(* it is closed (main.c:337-370).                                          *)
(***************************************************************************)
SessionsAreCounted ==
    /\ clientsConnected = Cardinality(session)
    /\ session = {fd \in Open : \A i \in DOMAIN pipe : pipe[i] # <<"accepted", fd>>}

\* The bound that select and its loop are given reaches every descriptor they are to watch.
SetWithinBound == \A fd \in set : fd <= _maxFds

\* A worker that reads from a socket finds something there: it never waits for a silent client.
ReadersDoNotBlock == \A w \in Workers : worker[w] = "reading" => Readable(serving[w])

(***************************************************************************)
(* After SIGHUP alone the select thread goes only when every connection    *)
(* that was accepted has been closed (main.c:307-310).                     *)
(***************************************************************************)
SoftShutdownServesAll ==
    [][select # "exited" /\ select' = "exited" /\ ~threadExitSig => Open = {}]_vars

(***************************************************************************)
(* Each connection, on its way through all the threads and queues, is the  *)
(* exchange of single requests and answers that Exchange describes: none   *)
(* is answered before it is taken or answered twice, none is closed with a *)
(* request left, and a new connection starts afresh (worker.c:225-286,     *)
(* 305-335, main.c:326-386).                                               *)
(***************************************************************************)
Connection(fd) == INSTANCE Exchange WITH client <- client[fd], unread <- unread[fd]
ConnectionsAreExchanges ==
    /\ \A fd \in Fds : Connection(fd)!Init
    /\ [][\A fd \in Fds : [Connection(fd)!Next]_<<client[fd], unread[fd]>>]_vars

\* A request is answered, unless it has to wait for a lock or the server is stopped.
RequestsAreServed ==
    \A fd \in Fds : client[fd] = "asked" ~> client[fd] # "asked" \/ fd \in waiting \/ threadExitSig

\* Select is to put a descriptor in the queue, which is full, and no worker is left to empty it.
InsertsForEver ==
    /\ select = "inserting" /\ Len(requestQueue) = QueueSize
    /\ \A w \in Workers : worker[w] = "exited"

(***************************************************************************)
(* When main leaves its loop after SIGINT or SIGQUIT, all threads end and  *)
(* main joins them, whatever the clients do (main.c:250-281), unless the   *)
(* workers have all seen the flag and gone while the select thread waits   *)
(* for a place in the queue (main.c:386, worker.c:226).                    *)
(***************************************************************************)
ShutdownEnds == main = "leaving" /\ threadExitSig ~> main = "done" \/ InsertsForEver

\* The flag has been set by a signal: the select thread sets it only as it goes.
Interrupted == threadExitSig /\ select # "exited"

(***************************************************************************)
(* After SIGHUP, once main has left its loop, the server ends when its     *)
(* clients have left, if no lock is waited for for ever and SIGINT or      *)
(* SIGQUIT does not come while the select thread is at work                *)
(* (main.c:307-310).                                                       *)
(***************************************************************************)
SoftShutdownEnds ==
    ClientsLeave /\ []<>(waiting = {}) => (main = "leaving" ~> main = "done" \/ Interrupted)
=============================================================================
