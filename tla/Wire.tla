-------------------------------- MODULE Wire --------------------------------
(***************************************************************************)
(* One connection, byte by byte: the client library (api.c) builds a       *)
(* request and writes it, a worker reads it, parses it (request.c) and     *)
(* writes the answer or leaves it to the notifier, and the library reads   *)
(* and parses that.  A message is an int with the length of what follows,  *)
(* then that; read and write move any part of what is asked for, and the   *)
(* loops of readn and writen (comunication.c) go on until it is complete.  *)
(* The client can die, and the server end, between any two of them.        *)
(*                                                                         *)
(* An int is 4 digits to the base Base, lowest first; in the source, Base  *)
(* is 256.  What becomes of a request is not looked at: the answer is any  *)
(* of Answers.                                                             *)
(***************************************************************************)
EXTENDS Integers, Sequences, SequencesExt

CONSTANTS
    Base,
    Capacity,       \* the bytes a socket holds for the reader
    Requests,       \* the requests the client may make
    QueuingKinds,   \* the kinds of request that can have to wait for a lock
    FileArrays,     \* the strings a worker may answer with: names and contents
    Nothing         \* no request, no answer

Bytes == 0 .. Base - 1
Separator == 0   \* the ' ' after a path or a string
IntLen == 4
IntRange == Base * Base * Base * Base

\* The values an int can have.
Ints == {v \in Int : -IntRange <= 2 * v /\ 2 * v < IntRange}

ASSUME BaseAssumption == Base \in Nat \ {0, 1}
ASSUME CapacityAssumption == Capacity \in Nat \ {0}

\* The digits of v modulo IntRange: a negative int is stored as its complement.
serializeInt(v) ==
    LET second == v \div Base
        third == second \div Base
        fourth == third \div Base
    IN  <<v % Base, second % Base, third % Base, fourth % Base>>

deserializeInt(bytes) ==
    LET value == bytes[1] + Base * (bytes[2] + Base * (bytes[3] + Base * bytes[4]))
    IN  IF 2 * value < IntRange THEN value ELSE value - IntRange

\* An int, then as many bytes: a path or a content.
Counted(s) == serializeInt(Len(s)) \o s

\* writeMessage of the library, and of the worker.
requestPayload(r) ==
    <<r.kind>> \o Counted(r.path) \o <<Separator>> \o Counted(r.content) \o serializeInt(r.flags)
answerPayload(strings) ==
    serializeInt(Len(strings))
        \o FlattenSeq([i \in DOMAIN strings |-> Append(Counted(strings[i]), Separator)])

\* An answer is a status, or files: pingOk, pingKo, writeFileArray.
Ok == [status |-> 0, strings |-> << >>]
Ko == [status |-> -2, strings |-> << >>]
Answers == {Ok, Ko} \cup {[status |-> 0, strings |-> s] : s \in FileArrays}

answerMessage(a) == IF a.strings = << >> THEN serializeInt(a.status)
                    ELSE Counted(answerPayload(a.strings))

(***************************************************************************)
(* Lengths fit an int.  The worker casts the length of its answer to int   *)
(* (worker.c:53): more would be sent with a length that is not its own.    *)
(***************************************************************************)
ASSUME LengthsFitAssumption ==
    /\ \A r \in Requests : 2 * Len(requestPayload(r)) < IntRange
    /\ \A s \in FileArrays : s # << >> /\ 2 * Len(answerPayload(s)) < IntRange

\* Paths, contents and names are bytes; a kind is one (api.c:48), and the flags are an int.
ASSUME PartsAssumption ==
    /\ \A r \in Requests :
         /\ r \in [kind : Bytes, path : Seq(Bytes), content : Seq(Bytes), flags : Int]
         /\ r.flags \in Ints
    /\ FileArrays \subseteq Seq(Seq(Bytes))
    /\ Nothing \notin Requests \cup Answers

\* Reading an int, or a part, after the first i bytes.
IntAfter(msg, i) == deserializeInt(SubSeq(msg, i + 1, i + IntLen))
PartAfter(msg, i) == SubSeq(msg, i + IntLen + 1, i + IntLen + IntAfter(msg, i))

\* Mutant: the byte after the path is taken for the beginning of the content's length.
new_request_NoSkip(msg) ==
    LET afterPath == 1 + IntLen + IntAfter(msg, 1)
        afterContent == afterPath + IntLen + IntAfter(msg, afterPath)
    IN  [kind |-> msg[1], path |-> PartAfter(msg, 1), content |-> PartAfter(msg, afterPath),
         flags |-> IntAfter(msg, afterContent)]

new_request(msg) ==
    LET afterPath == 1 + IntLen + IntAfter(msg, 1) + 1
        afterContent == afterPath + IntLen + IntAfter(msg, afterPath)
    IN  [kind |-> msg[1], path |-> PartAfter(msg, 1), content |-> PartAfter(msg, afterPath),
         flags |-> IntAfter(msg, afterContent)]

\* The library's loop over the strings of an answer; after[k] bytes hold the first k of them.
Strings(msg) ==
    LET n == IntAfter(msg, 0)
        after[k \in 0 .. n] ==
            IF k = 0 THEN IntLen ELSE after[k - 1] + IntLen + IntAfter(msg, after[k - 1]) + 1
    IN  [k \in 1 .. n |-> PartAfter(msg, after[k - 1])]

----------------------------------------------------------------------------
VARIABLES
    server,       \* the process: "starting", "listening", "draining" after SIGHUP, "stopping"
                  \* after SIGINT or SIGQUIT, "down"
    connection,   \* "none", "backlog", "accepted", "closing" (a message to select), "closed"
    toServer, toClient,   \* the bytes in the socket, each way
    reset,        \* the client has gone with bytes unread, and no read has failed yet
    \* the library
    api,          \* where it is
    call,         \* the last request it was asked to make
    out,          \* what writen has still to write
    got,          \* what readn has read
    payload,      \* the length it has read
    result,       \* what the call has returned
    \* the worker
    worker,       \* where it is, "away" if the descriptor is watched
    in,           \* what readn has read
    msgSize,      \* the length it has read
    request,      \* the request it has read for the last call
    given,        \* the answer it has given to it
    reply         \* what writen has still to write

connecting == <<server, connection>>
library == <<api, call, out, got, payload, result, reset>>
serving == <<worker, in, msgSize, request, given, reply>>
vars == <<connecting, toServer, toClient, library, serving>>

Init ==
    /\ server = "starting" /\ connection = "none"
    /\ toServer = << >> /\ toClient = << >> /\ reset = FALSE
    /\ api = "connecting" /\ call = Nothing /\ out = << >> /\ got = << >> /\ payload = 0
    /\ result = Nothing
    /\ worker = "away" /\ in = << >> /\ msgSize = 0
    /\ request = Nothing /\ given = Nothing /\ reply = << >>

Calling == api \in {"writing", "header", "payload"}

\* What one read, or one write, can move from src to dst when dst may grow to limit bytes.
Movable(src, dst, limit) == {k \in 1 .. Len(src) : Len(dst) + k <= limit}
First(k, s) == SubSeq(s, 1, k)
After(k, s) == SubSeq(s, k + 1, Len(s))

\* Mutant: one successful read is enough.
readnEnds_AtOnce(buf, n) == buf # << >>

\* The loop of readn goes on until all n bytes have been read.
readnEnds(buf, n) == Len(buf) = n

----------------------------------------------------------------------------
(* The connection.                                                         *)

Listen == server = "starting" /\ server' = "listening"
          /\ UNCHANGED <<connection, toServer, toClient, library, serving>>

\* openConnection tries until it succeeds or its time is over.
Connect ==
    /\ api = "connecting"
    /\ IF server \in {"listening", "draining", "stopping"}
       THEN api' = "idle" /\ connection' = "backlog"
       ELSE api' = "sleeping" /\ UNCHANGED connection
    /\ UNCHANGED <<server, toServer, toClient, call, out, got, payload, result, reset, serving>>

SleepOver ==
    /\ api = "sleeping" /\ api' \in {"connecting", "gone"}
    /\ UNCHANGED <<connecting, toServer, toClient, call, out, got, payload, result, reset, serving>>

Accept ==
    /\ server = "listening" /\ connection = "backlog"
    /\ connection' = "accepted"
    /\ UNCHANGED <<server, toServer, toClient, library, serving>>

\* A signal makes main leave its loop; nobody accepts any more.
Signal ==
    /\ \/ server = "listening" /\ server' = "draining"
       \/ server \in {"listening", "draining"} /\ server' = "stopping"
    /\ UNCHANGED <<connection, toServer, toClient, library, serving>>

(***************************************************************************)
(* The threads are joined when they are through with what they have, after *)
(* SIGHUP only when every connection that was accepted has been closed.    *)
(***************************************************************************)
Exit ==
    /\ \/ server = "draining" /\ connection \in {"none", "backlog", "closed"}
       \/ server = "stopping"
    /\ worker \in {"away", "waiting"}
    /\ server' = "down" /\ connection' = "closed" /\ toServer' = << >>
    /\ UNCHANGED <<toClient, library, serving>>

\* closeConnection, or the end of the client, at any time.
Leave ==
    /\ api = "idle" \/ Calling
    /\ api' = "gone"
    /\ reset' = (toClient # << >>)
    /\ toClient' = << >> /\ got' = << >>
    /\ UNCHANGED <<connecting, toServer, call, out, payload, result, serving>>

\* thread_select closes the descriptor.
Close ==
    /\ connection = "closing" /\ connection' = "closed"
    /\ UNCHANGED <<server, toServer, toClient, library, serving>>

----------------------------------------------------------------------------
(* The library, one call at a time.                                        *)

Call(r) ==
    /\ api = "idle" /\ api' = "writing"
    /\ call' = r /\ out' = Counted(requestPayload(r))
    /\ result' = Nothing /\ request' = Nothing /\ given' = Nothing
    /\ UNCHANGED <<connecting, toServer, toClient, got, payload, reset, worker, in, msgSize, reply>>

WriteRequest ==
    /\ api = "writing" /\ server # "down"
    /\ \E k \in Movable(out, toServer, Capacity) :
         /\ toServer' = toServer \o First(k, out)
         /\ out' = After(k, out)
         /\ api' = IF k = Len(out) THEN "header" ELSE "writing"
    /\ UNCHANGED <<connecting, toClient, call, got, payload, result, reset, serving>>

\* SIGPIPE: the client does not handle it.
BrokenPipe ==
    /\ api = "writing" /\ server = "down"
    /\ api' = "gone"
    /\ UNCHANGED <<connecting, toServer, toClient, call, out, got, payload, result, reset, serving>>

Lost == [status |-> -1, strings |-> << >>]

Returns(outcome) == api' = "idle" /\ result' = outcome /\ got' = << >> /\ UNCHANGED payload

HeaderRead(bytes) ==
    LET size == deserializeInt(bytes)
    IN  IF Len(bytes) # IntLen THEN Returns(Lost)
        ELSE IF size <= 0 THEN Returns([status |-> size, strings |-> << >>])
        ELSE api' = "payload" /\ payload' = size /\ got' = << >> /\ UNCHANGED result

PayloadRead(bytes) ==
    IF Len(bytes) # payload THEN Returns(Lost)
    ELSE Returns([status |-> 0, strings |-> Strings(bytes)])

ReadAnswer ==
    /\ api \in {"header", "payload"}
    /\ LET size == IF api = "header" THEN IntLen ELSE payload
       IN  \E k \in Movable(toClient, got, size) :
             LET bytes == got \o First(k, toClient)
             IN  /\ toClient' = After(k, toClient)
                 /\ IF ~readnEnds(bytes, size) THEN got' = bytes /\ UNCHANGED <<api, payload, result>>
                    ELSE IF api = "header" THEN HeaderRead(bytes)
                    ELSE PayloadRead(bytes)
    /\ UNCHANGED <<connecting, toServer, call, out, reset, serving>>

\* End of file, or the connection was reset.
AnswerLost ==
    /\ api \in {"header", "payload"} /\ server = "down" /\ toClient = << >>
    /\ Returns(Lost)
    /\ UNCHANGED <<connecting, toServer, toClient, call, out, reset, serving>>

Library == \/ WriteRequest \/ BrokenPipe \/ ReadAnswer \/ AnswerLost
           \/ \E r \in Requests : Call(r)

----------------------------------------------------------------------------
(* The worker, and the notifier for a request that has to wait.            *)

WorkerGoes(from, to) ==
    /\ server # "down" /\ worker = from /\ worker' = to
    /\ UNCHANGED <<server, api, call, out, got, payload, result>>

\* Select finds the descriptor readable and a worker gets it.
Pick ==
    /\ WorkerGoes("away", "header")
    /\ connection = "accepted" /\ (toServer # << >> \/ api = "gone")
    /\ in' = << >>
    /\ UNCHANGED <<connection, toServer, toClient, reset, msgSize, request, given, reply>>

\* One read that succeeds, of k bytes ...
Reads(k) ==
    /\ toServer' = After(k, toServer)
    /\ UNCHANGED <<connecting, toClient, library, given, reply>>

\* ... and the loop of readn goes on.
ReadsOn(bytes) == in' = bytes /\ UNCHANGED <<worker, msgSize, request>>

\* readMessage returns -2: nobody answers, and the descriptor is not given back.
Dropped == worker' = "dropped" /\ in' = << >> /\ UNCHANGED <<msgSize, request>>

ReadHeader ==
    /\ worker = "header"
    /\ \E k \in Movable(toServer, in, IntLen) :
         LET bytes == in \o First(k, toServer)
         IN  /\ Reads(k)
             /\ IF ~readnEnds(bytes, IntLen) THEN ReadsOn(bytes)
                ELSE IF Len(bytes) < IntLen THEN Dropped
                ELSE /\ worker' = "payload" /\ msgSize' = deserializeInt(bytes) /\ in' = << >>
                     /\ UNCHANGED request

ReadPayload ==
    /\ worker = "payload"
    /\ \E k \in Movable(toServer, in, msgSize) :
         LET bytes == in \o First(k, toServer)
         IN  /\ Reads(k)
             /\ IF ~readnEnds(bytes, msgSize) THEN ReadsOn(bytes)
                ELSE IF Len(bytes) < msgSize THEN Dropped
                ELSE /\ worker' = "performing" /\ request' = new_request(bytes) /\ in' = << >>
                     /\ UNCHANGED msgSize

\* Mutant: end of file does not end the loop of readn.
ReadFails_Retried ==
    /\ worker \in {"header", "payload"} /\ WorkerGoes(worker, "away")
    /\ toServer = << >> /\ api = "gone" /\ reset
    /\ in' = << >> /\ reset' = FALSE
    /\ UNCHANGED <<connection, toServer, toClient, msgSize, request, given, reply>>

(***************************************************************************)
(* The client has gone: once an error if it left bytes unread, then end of *)
(* file.  After an error the descriptor is watched again, after the end it *)
(* is to be closed.  The rest of a message that has begun will not come.   *)
(***************************************************************************)
ReadFails ==
    /\ worker \in {"header", "payload"} /\ WorkerGoes(worker, "away")
    /\ toServer = << >> /\ api = "gone"
    /\ in' = << >> /\ reset' = FALSE
    /\ connection' = IF reset THEN connection ELSE "closing"
    /\ UNCHANGED <<toServer, toClient, msgSize, request, given, reply>>

\* The answer is ready to be written: from worker_body, or from worker_notify.
Answered(from, a) ==
    /\ WorkerGoes(from, "answering")
    /\ given' = a /\ reply' = answerMessage(a)
    /\ UNCHANGED <<connection, toServer, toClient, reset, in, msgSize, request>>

Perform(a) == Answered("performing", a)
Notify(a) == Answered("waiting", a)

\* Mutant: a request that is queued is answered as well (result 0 taken for success).
Queue_Answered ==
    /\ WorkerGoes("performing", "waiting")
    /\ request.kind \in QueuingKinds
    /\ Len(toClient) + IntLen <= Capacity
    /\ toClient' = IF api = "gone" THEN toClient ELSE toClient \o answerMessage(Ok)
    /\ UNCHANGED <<connection, toServer, reset, in, msgSize, request, given, reply>>

Queue ==
    /\ WorkerGoes("performing", "waiting")
    /\ request.kind \in QueuingKinds
    /\ UNCHANGED <<connection, toServer, toClient, reset, in, msgSize, request, given, reply>>

WriteAnswer ==
    /\ worker = "answering" /\ api # "gone"
    /\ \E k \in Movable(reply, toClient, Capacity) :
         /\ toClient' = toClient \o First(k, reply)
         /\ reply' = After(k, reply)
         /\ worker' = IF k = Len(reply) THEN "away" ELSE "answering"
    /\ UNCHANGED <<connecting, toServer, library, in, msgSize, request, given>>

\* EPIPE; SIGPIPE is blocked in the threads of the server.
WriteFails ==
    /\ WorkerGoes("answering", "away") /\ api = "gone"
    /\ reply' = << >>
    /\ UNCHANGED <<connection, toServer, toClient, reset, in, msgSize, request, given>>

\* What a worker does with a request once it has the descriptor.
Iteration ==
    \/ ReadHeader \/ ReadPayload \/ ReadFails \/ WriteAnswer \/ WriteFails
    \/ \E a \in Answers : Perform(a)

Next ==
    \/ Listen \/ Connect \/ SleepOver \/ Accept \/ Signal \/ Exit \/ Leave \/ Close
    \/ Library \/ Pick \/ Iteration \/ Queue \/ \E a \in {Ok, Ko} : Notify(a)

Spec == Init /\ [][Next]_vars

(***************************************************************************)
(* The library goes on with a call it has begun, unless the client dies.   *)
(* Main accepts, and workers take requests, until they are stopped, and a  *)
(* worker ends the iteration it is in (worker.c:226).  That the process    *)
(* ends is not assumed: after SIGHUP select waits for the clients          *)
(* (main.c:307-310), and after SIGINT it may wait for ever for a place in  *)
(* its queue (InsertsForEver in Server).                                   *)
(***************************************************************************)
Fairness ==
    /\ WF_vars(WriteRequest \/ BrokenPipe \/ ReadAnswer \/ AnswerLost)
    /\ WF_vars(Accept)
    /\ WF_vars(server # "stopping" /\ Pick)
    /\ WF_vars(Iteration)

FairSpec == Spec /\ Fairness

----------------------------------------------------------------------------
(***************************************************************************)
(* What the two ends see of each other.  A call has been answered when the *)
(* last byte of the answer has been written, and it is to be taken until   *)
(* its last byte has been read.                                            *)
(***************************************************************************)
Replied == given # Nothing /\ reply = << >>

clientSeen ==
    IF connection \in {"none", "closed"} THEN "none"
    ELSE IF api = "gone" THEN IF reset THEN "reset" ELSE "gone"
    ELSE IF Calling /\ ~Replied THEN "asked" ELSE "idle"

unreadSeen ==
    /\ connection \notin {"none", "closed"}
    /\ request = Nothing /\ call # Nothing
    /\ Calling \/ out = << >>

(***************************************************************************)
(* However the messages are cut into reads and writes, and whoever stops   *)
(* in the middle of one, the connection is the exchange of requests and    *)
(* answers that the modules above it assume (comunication.c, worker.c:94). *)
(***************************************************************************)
Seen == INSTANCE Exchange WITH client <- clientSeen, unread <- unreadSeen
ImplementsExchange == Seen!SpecWithStop

(***************************************************************************)
(* The request a worker performs is the one the library was called for,    *)
(* and a call returns what was given for it: lengths, separators and parts *)
(* are put where the other side looks for them, no byte of a message is    *)
(* left for the next one, and a call gives up only if the server is down   *)
(* (api.c:48-163, worker.c:36-73, request.c:17-60).                        *)
(***************************************************************************)
MessagesArriveAsSent ==
    /\ request # Nothing => request = call
    /\ api = "idle" /\ result # Nothing =>
           \/ result = given
           \/ result = Lost /\ server = "down"
    /\ api = "idle" => toClient = << >>

(***************************************************************************)
(* Nobody takes the request of a call: main accepts no connection after a  *)
(* signal, and after SIGINT or SIGQUIT workers leave without a look at     *)
(* what is ready (main.c:233, worker.c:226).                               *)
(***************************************************************************)
Neglected ==
    \/ connection = "backlog" /\ server \in {"draining", "stopping"}
    \/ worker = "away" /\ request = Nothing /\ server = "stopping"

(***************************************************************************)
(* A call returns, unless its request has to wait for a lock or nobody     *)
(* takes it because the server is to end: the two ends never both wait for *)
(* the other to write or to read, even if a socket holds less than a       *)
(* message.                                                                *)
(***************************************************************************)
CallsReturn ==
    Calling ~> ~Calling \/ worker = "waiting" \/ Neglected

(***************************************************************************)
(* A worker that has begun with a connection gets free again, whatever its *)
(* client has sent of the message when it dies (worker.c:103, 121).        *)
(***************************************************************************)
WorkersAreReleased ==
    worker \notin {"away", "waiting"} ~> worker \in {"away", "waiting"}
=============================================================================
