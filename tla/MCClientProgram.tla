--------------------------- MODULE MCClientProgram ---------------------------
EXTENDS ClientProgram

CONSTANTS First, Second, f1, f2, f3

O(letter) == Option(letter)
A(parts) == Argument(parts)
File(f) == A(<<f>>)

CommandLines ==
    << \* write a list of files and read one of them, each with its directory
      <<O("W"), A(<<f1, f2>>), O("D"), File("d1"), O("r"), File(f1), O("d"), File("d2")>>,
      \* write a directory and remove a file
      <<O("p"), O("w"), A(<<"dir", "0">>), O("D"), File("d1"), O("c"), File(f1)>>,
      \* write, lock, read all (with an option behind -R), unlock
      <<O("W"), File(f1), O("l"), File(f1), O("R"), O("d"), File("d1"), O("u"), File(f1)>>,
      \* append, with an option between the request and the directory; read another file
      <<O("a"), File(f1), O("r"), File(f2), O("q"), O("d"), File("d1")>>,
      \* a request that is not understood before -D, and -R at the end
      <<O("W"), File(f2), O("w"), A(<<"dir", "1", "2">>), O("D"), File("d1"), O("R")>>,
      \* a list of locks
      <<O("l"), A(<<f1, f2>>)>>,
      \* -d first
      <<O("d"), File("d1"), O("r"), File(f2)>> >>

(***************************************************************************)
(* Two clients with any two of the command lines, in one order, since the  *)
(* clients are alike, and a third that makes room for a file of its own.   *)
(***************************************************************************)
MakesRoom == <<O("W"), File(f3)>>
MCInvocations ==
    LET n == Len(CommandLines)
    IN  {[c \in Clients |-> IF c = First THEN CommandLines[p[1]]
                            ELSE IF c = Second THEN CommandLines[p[2]] ELSE MakesRoom] :
            p \in {q \in (1 .. n) \X (1 .. n) : q[1] <= q[2]}}

\* f2 is too long for the server.
MCLocalSize == [f \in Files |-> IF f = f2 THEN 2 ELSE 1]
MCFilesIn == [dir \in {"dir"} |-> <<f2, f1>>]
=============================================================================
