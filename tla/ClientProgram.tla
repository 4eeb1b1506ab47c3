---------------------------- MODULE ClientProgram ----------------------------
(***************************************************************************)
(* Client programs (client/src/main.c) at work on the file store: each     *)
(* reads its command line, connects, makes the calls of one request after  *)
(* the other and disconnects.  A call is one step of Filesystem and its    *)
(* answer; a call that waits for a lock gets its answer from the notifier. *)
(* What the program does after a failed call depends on the request.  It   *)
(* can be killed at any time; the server notices when it reads next.       *)
(***************************************************************************)
EXTENDS Filesystem, CommandLine

CONSTANTS
    Invocations,   \* the command lines of all clients, the combinations to consider
    LocalSize,     \* the length of each file on the client's side, -1 if there is none
    FilesIn        \* the files below a directory, in the order in which they are visited

VARIABLES
    argv,      \* the command line, until it has been read
    program,   \* "started", "running", "ended"
    todo,      \* the requests left, the current one first
    stage,     \* which call of the current request is the next one
    kept       \* the files whose locks the requests so far were to keep

progress == <<argv, program, todo, stage>>
clientVars == <<progress, kept>>

\* The calls for a request, in order.
Calls(type) ==
    CASE type \in {"W", "w"} -> <<"create_locked", "write", "close">>
      [] type = "r" -> <<"open", "read", "close">>
      [] type = "R" -> <<"readN">>
      [] type = "l" -> <<"open", "lock">>
      [] type = "u" -> <<"unlock", "close">>
      [] type = "c" -> <<"open_locked", "remove">>
      [] type = "a" -> <<"open", "append", "close">>
      [] OTHER -> << >>

\* Mutant: -W gives up after a failed write, as -w does.
Tolerates_NotWrite(type, call) == <<type, call>> \in {<<"r", "read">>, <<"u", "unlock">>}

\* A failed call ends its request, with three exceptions.
Tolerates(type, call) ==
    <<type, call>> \in {<<"W", "write">>, <<"r", "read">>, <<"u", "unlock">>}

\* handleSmallWFlag: the first `extra' files below the directory, or all of them.
FirstFiles(dir, extra) ==
    SubSeq(FilesIn[dir], 1, IF extra = 0 \/ extra > Len(FilesIn[dir]) THEN Len(FilesIn[dir])
                            ELSE extra)

\* The calls' requests of one request: -w has one for each file, -a none for a missing file.
Work(r) ==
    LET item(f) == [type |-> r.type, file |-> f, n |-> r.extra]
    IN  IF r.type = "w"
        THEN [k \in DOMAIN FirstFiles(r.content, r.extra) |-> item(FirstFiles(r.content, r.extra)[k])]
        ELSE IF Calls(r.type) = << >> \/ (r.type = "a" /\ LocalSize[r.content] = -1) THEN << >>
        ELSE <<item(r.content)>>

WorkOf(requests) == FlattenSeq([k \in DOMAIN requests |-> Work(requests[k])])

\* Each command line is read, expanded and turned into work once.
Lines == UNION {Range(lines) : lines \in Invocations}
RequestsOn == [line \in Lines |-> parseCommandLineArguments(line)]
WorkFor == [line \in Lines |-> WorkOf(expandRequests(RequestsOn[line]))]

(***************************************************************************)
(* Files are the names that occur: each client has some command line, and  *)
(* what it asks for by name has its name there.                            *)
(***************************************************************************)
Items ==
    [type : {"W", "w", "r", "l", "u", "c"}, file : Files, n : Nat]
        \cup [type : {"a"}, file : {f \in Files : LocalSize[f] # -1}, n : Nat]
        \cup [type : {"R"}, file : {""}, n : Nat]

ASSUME InvocationsAssumption == \A lines \in Invocations : lines \in [Clients -> Lines]
ASSUME LinesAssumption == Lines \subseteq Seq(Words)
ASSUME LocalSizeAssumption == LocalSize \in [Files -> Nat \cup {-1}]
ASSUME WorkAssumption == \A line \in Lines : WorkFor[line] \in Seq(Items)

Current(c) == Head(todo[c])
NextCall(c) == Calls(Current(c).type)[stage[c]]

\* The step of the server for a call.
Operation(c, call, r) ==
    CASE call = "create_locked" -> CreateFile(c, r.file, TRUE) \/ OpenStoredFile(c, r.file, TRUE, TRUE)
      [] call = "open" -> OpenStoredFile(c, r.file, FALSE, FALSE)
      [] call = "open_locked" -> OpenStoredFile(c, r.file, FALSE, TRUE)
      [] call = "write" -> WriteFile(c, r.file, LocalSize[r.file])
      [] call = "append" -> AppendToFile(c, r.file, LocalSize[r.file])
      [] call = "read" -> ReadFile(c, r.file)
      [] call = "readN" -> ReadNFiles(c, r.n)
      [] call = "lock" -> LockFile(c, r.file)
      [] call = "unlock" -> UnlockFile(c, r.file)
      [] call = "close" -> CloseFile(c, r.file)
      [] call = "remove" -> RemoveFile(c, r.file)

\* Whether the server performs a call, or refuses it: the guards of the operations.
Succeeds(c, call, r) ==
    LET f == r.file
        size == LocalSize[f]
    IN  CASE call = "create_locked" -> OpenResult(c, f, TRUE, TRUE) # -1
          [] call = "open" -> OpenResult(c, f, FALSE, FALSE) # -1
          [] call = "open_locked" -> OpenResult(c, f, FALSE, TRUE) # -1
          [] call = "write" -> /\ size \in 0 .. MaxFileSize /\ OwnedBy(c, {f}) = {f}
                               /\ Opened(c, f) /\ canWriteOnFile[c][isFileOpened(c, f)]
          [] call = "append" -> Opened(c, f) /\ f \in stored /\ len[f] + size <= MaxFileSize
          [] call = "read" -> f \in stored
          [] call = "readN" -> TRUE
          [] call = "lock" -> Opened(c, f) /\ LockResult(c, f) # -1
          [] call \in {"unlock", "close"} -> Opened(c, f)
          [] call = "remove" -> Opened(c, f) /\ OwnedBy(c, {f}) = {f}

\* The next call of the request, or the next request.  A failed -w leaves its file locked.
Returned(c, ok) ==
    LET type == Current(c).type
        call == NextCall(c)
        f == {Current(c).file}
        goesOn == stage[c] < Len(Calls(type)) /\ (ok \/ Tolerates(type, call))
    IN  /\ stage' = [stage EXCEPT ![c] = IF goesOn THEN @ + 1 ELSE 1]
        /\ todo' = [todo EXCEPT ![c] = IF goesOn THEN @ ELSE Tail(@)]
        /\ kept' = [kept EXCEPT ![c] =
                       IF call = "close" THEN @ \ f
                       ELSE IF (call = "lock" /\ ok) \/ (type = "w" /\ call = "write" /\ ~ok)
                       THEN @ \cup f ELSE @]
        /\ UNCHANGED <<argv, program>>

Ends(c) ==
    /\ program' = [program EXCEPT ![c] = "ended"]
    /\ argv' = [argv EXCEPT ![c] = << >>]
    /\ todo' = [todo EXCEPT ![c] = << >>]
    /\ stage' = [stage EXCEPT ![c] = 1]
    /\ kept' = [kept EXCEPT ![c] = {}]
    /\ UNCHANGED vars

----------------------------------------------------------------------------
ClientInit ==
    /\ Init
    /\ argv \in Invocations
    /\ program = [c \in Clients |-> "started"]
    /\ todo = [c \in Clients |-> << >>]
    /\ stage = [c \in Clients |-> 1]
    /\ kept = [c \in Clients |-> {}]

\* Help is printed, or the first option is -d, or nobody listens: no connection.
NeverConnects(c) ==
    /\ program[c] = "started"
    /\ Ends(c)

Start(c) ==
    /\ program[c] = "started"
    /\ ~AsksForHelp(argv[c]) /\ ~ExpansionCrashes(RequestsOn[argv[c]])
    /\ Connect(c)
    /\ program' = [program EXCEPT ![c] = "running"]
    /\ todo' = [todo EXCEPT ![c] = WorkFor[argv[c]]]
    /\ argv' = [argv EXCEPT ![c] = << >>]
    /\ UNCHANGED <<stage, kept>>

Calling(c) == program[c] = "running" /\ Ready(c) /\ todo[c] # << >>

\* A call that the server performs: it succeeds, or waits for a lock ...
Perform(c) ==
    /\ Calling(c)
    /\ Succeeds(c, NextCall(c), Current(c))
    /\ Operation(c, NextCall(c), Current(c))
    /\ IF request'[c] # NULL THEN UNCHANGED clientVars ELSE Returned(c, TRUE)

\* ... or that it refuses.
Refuse(c) ==
    /\ Calling(c)
    /\ ~Succeeds(c, NextCall(c), Current(c))
    /\ Returned(c, FALSE)
    /\ UNCHANGED vars

\* The notifier's answer; a client that has been killed does not read it.
Answered(c) ==
    /\ Notify(c)
    /\ IF program[c] = "running" THEN Returned(c, opStatus[c]) ELSE UNCHANGED clientVars

Finish(c) == program[c] = "running" /\ Ready(c) /\ todo[c] = << >> /\ Ends(c)

Kill(c) == program[c] = "running" /\ Ends(c)

Disconnected(c) == program[c] = "ended" /\ ConnectionClosed(c) /\ UNCHANGED clientVars

ServeOn(c) == (ReadNext(c) \/ FreeExpelled(c)) /\ UNCHANGED clientVars

\* What happens without anybody's doing: the server serves, and the program goes on.
Proceed(c) ==
    /\ fault = NoFault
    /\ Perform(c) \/ Refuse(c) \/ Answered(c) \/ Finish(c) \/ Disconnected(c) \/ ServeOn(c)

\* A step of c after it has connected, Proceed(c) or, once, Kill(c).
Proceeds(c) ==
    /\ c \in connected
    /\ \/ <<program[c], todo[c], stage[c], request[c], toRead[c], c \in connected, fault>>'
              # <<program[c], todo[c], stage[c], request[c], toRead[c], c \in connected, fault>>
       \/ ExpelledBy(c)' = {} /\ ExpelledBy(c) # {}

ClientNext ==
    \E c \in Clients :
        \/ Proceed(c)
        \/ fault = NoFault /\ (Start(c) \/ NeverConnects(c) \/ Kill(c))

(***************************************************************************)
(* A connected client that does not wait for a lock gets on: workers, the  *)
(* notifier and the select thread serve it (RequestsAreServed in Server),  *)
(* and its program makes one call after the other.  This is the weak       *)
(* fairness of Proceed(c), with the guard of Proceed(c) for its ENABLED.   *)
(***************************************************************************)
GetsOn(c) ==
    \/ []<>~(fault = NoFault /\ c \in connected /\ (request[c] # NULL => clientsToNotify[c] > 0))
    \/ []<><<Proceeds(c)>>_<<vars, clientVars>>

ClientSpec ==
    ClientInit /\ [][ClientNext]_<<vars, clientVars>> /\ \A c \in Clients : GetsOn(c)

----------------------------------------------------------------------------
\* Every command line's directories go where they belong (DirsAreRight in CommandLine).
RightlyRead == {line \in Lines : DirsAreRight(line)}
DirsGoWithTheirRequests == \A c \in Clients : program[c] = "started" => argv[c] \in RightlyRead

(***************************************************************************)
(* A running client holds the lock of the file of its current request, and *)
(* of others only if it asked to keep them: -W, -r, -c and -a release what *)
(* they lock, also if one of their calls fails, a lock comes after a wait  *)
(* or the file has been evicted meanwhile (main.c:229-323).                *)
(***************************************************************************)
LocksAreKeptOnPurpose ==
    \A c \in Clients, f \in Files :
        program[c] = "running" /\ owner[f] = c =>
            f \in kept[c] \/ (todo[c] # << >> /\ Current(c).file = f)

(***************************************************************************)
(* Clients wait for each other in a circle: each one of a set waits for a  *)
(* file that another one of the set holds.  The server does not detect it. *)
(***************************************************************************)
Deadlocked(S) ==
    S # {} /\ \A c \in S : pathnamePendingLock[c] # NULL /\ owner[pathnamePendingLock[c]] \in S

(***************************************************************************)
(* Every client comes to the end of its command line, unless clients wait  *)
(* for each other in a circle: its waits end because those who hold the    *)
(* locks end too, or are killed (main.c:199-345, files.c:297-314).         *)
(***************************************************************************)
ProgramsEnd ==
    \A c \in Clients :
        program[c] = "running" ~>
            program[c] = "ended" \/ fault # NoFault \/ \E S \in SUBSET Clients : Deadlocked(S)
=============================================================================
