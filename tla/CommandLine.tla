----------------------------- MODULE CommandLine -----------------------------
(***************************************************************************)
(* The command line of the client as a list of requests (args.c): the      *)
(* options in order, one request for each name in an option's list, and    *)
(* then the directories of -d and -D, which are options of their own but   *)
(* belong to the requests of the option before them.                       *)
(*                                                                         *)
(* A word is a record: its option letter, or "" if it does not begin with  *)
(* a dash, and its parts between commas.  Options with the argument in the *)
(* same word (-R5) are left out.                                           *)
(***************************************************************************)
EXTENDS Integers, Sequences, SequencesExt

CONSTANTS
    NoDir,   \* request.dir = NULL
    Names    \* the names of files in arguments, whatever stands for them

Flags == {"h", "p", "q", "e"}
Lists == {"W", "r", "l", "u", "c", "a"}
WithArgument == Lists \cup {"f", "w", "d", "D", "R", "t"}

Words == [letter : STRING, parts : Seq(STRING \cup Names)]
Option(letter) == [letter |-> letter, parts |-> <<"-" \o letter>>]
Argument(parts) == [letter |-> "", parts |-> parts]
IsOption(word) == word.letter # ""

\* strtol, for the numbers that are used; other strings are not numbers.
Numbers == [s \in {"0", "1", "2"} |-> CASE s = "0" -> 0 [] s = "1" -> 1 [] s = "2" -> 2]
strToInt(s) == Numbers[s]
IsInt(s) == s \in DOMAIN Numbers

\* What getopt returns for the option at word i: whether it has an argument, and which.
HasArgument(argv, i) == argv[i].letter \in WithArgument /\ i < Len(argv)

\* -R takes the next word for its argument, finds that it is an option, and puts it back.
PutsBack(argv, i) == argv[i].letter = "R" /\ IsOption(argv[i + 1])

(***************************************************************************)
(* The options that getopt finds from word i on.  Any other option takes   *)
(* an option word behind it for its argument, as getopt does.              *)
(***************************************************************************)
Options(argv) ==
    LET from[i \in 1 .. Len(argv) + 2] ==
            IF i > Len(argv) THEN << >>
            ELSE IF ~IsOption(argv[i]) THEN from[i + 1]
            ELSE IF ~HasArgument(argv, i)
                 THEN <<[letter |-> IF argv[i].letter \in WithArgument THEN ":" ELSE argv[i].letter,
                         optopt |-> argv[i].letter, parts |-> << >>]>> \o from[i + 1]
            ELSE IF PutsBack(argv, i)
                 THEN <<[letter |-> "R", optopt |-> "", parts |-> <<"0">>]>> \o from[i + 1]
            ELSE <<[letter |-> argv[i].letter, optopt |-> "", parts |-> argv[i + 1].parts]>>
                     \o from[i + 2]
    IN  from[1]

new_request_without_dir(type, content, extra, index) ==
    [type |-> type, content |-> content, extra |-> extra, dir |-> NoDir, index |-> index]

(***************************************************************************)
(* The requests of one option, all with its index.  A missing argument is  *)
(* an error, except that -R at the end becomes a request of type ':'.      *)
(***************************************************************************)
RequestsOf(option, index) ==
    LET p == option.parts
        one(content, extra) ==
            <<new_request_without_dir(option.letter, content, extra, index)>>
    IN  CASE option.letter \in Lists ->
                 [k \in DOMAIN p |-> new_request_without_dir(option.letter, p[k], 0, index)]
          [] option.letter \in {"d", "D"} -> one(p[1], 0)
          [] option.letter = "R" -> IF IsInt(p[1]) THEN one("", strToInt(p[1])) ELSE << >>
          [] option.letter = ":" -> IF option.optopt = "R" THEN one("", 0) ELSE << >>
          [] option.letter = "w" ->
                 IF Len(p) = 1 THEN one(p[1], 0)
                 ELSE IF Len(p) = 2 /\ IsInt(p[2]) THEN one(p[1], strToInt(p[2]))
                 ELSE << >>
          [] OTHER -> << >>

parseCommandLineArguments(argv) ==
    LET opts == Options(argv)
    IN  FlattenSeq([i \in DOMAIN opts |-> RequestsOf(opts[i], i - 1)])

\* expandRequests reads the type of the request before the first one, a null pointer.
ExpansionCrashes(requests) == requests # << >> /\ requests[1].type \in {"d", "D"}

\* Request i is a directory for the request before it.
IsDirFor(requests, i) ==
    /\ i > 1
    /\ \/ requests[i].type = "d" /\ requests[i - 1].type \in {"r", "R"}
       \/ requests[i].type = "D" /\ requests[i - 1].type \in {"w", "W"}

\* Mutant: whatever the option of the request before it was.
SameOption_Unchecked(requests, k, i) == requests[k].index = requests[i - 1].index

\* Going back from request i, k and all those between come from the option before it.
SameOption(requests, k, i) ==
    \A m \in k .. i - 1 : requests[m].index = requests[i].index - 1

expandRequests(requests) ==
    [k \in DOMAIN requests |->
        LET dirs == {i \in k + 1 .. Len(requests) :
                         IsDirFor(requests, i) /\ SameOption(requests, k, i)}
        IN  IF dirs = {} THEN requests[k]
            ELSE [requests[k] EXCEPT !.dir = requests[CHOOSE i \in dirs : TRUE].content]]

AsksForHelp(argv) == \E option \in ToSet(Options(argv)) : option.letter = "h"

(***************************************************************************)
(* "these flags are set RIGHT AFTER the request they are referred to"      *)
(* (args.c:232): a request has the directory of the option right behind    *)
(* its own, all requests of a list have the same, and no other directory   *)
(* is taken, whatever stands between (args.c:230-279).                     *)
(***************************************************************************)
DirsAreRight(argv) ==
    LET opts == Options(argv)
        parsed == parseCommandLineArguments(argv)
        DirAfter(i, type) ==
            IF i < Len(opts) /\ \/ opts[i + 1].letter = "d" /\ type \in {"r", "R"}
                                \/ opts[i + 1].letter = "D" /\ type \in {"w", "W"}
            THEN opts[i + 1].parts[1] ELSE NoDir
    IN  \A k \in DOMAIN parsed :
            expandRequests(parsed)[k].dir = DirAfter(parsed[k].index + 1, parsed[k].type)
=============================================================================
