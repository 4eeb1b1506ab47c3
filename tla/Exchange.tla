------------------------------ MODULE Exchange ------------------------------
(***************************************************************************)
(* What happens on one connection, as the client and the server's threads  *)
(* see it, without bytes, buffers, queues or threads: the client asks for  *)
(* one thing at a time, each request that arrives whole is taken once,     *)
(* each client that lives gets one answer to it and not before it is       *)
(* taken, and the connection is closed once its client has gone and        *)
(* nothing is left to read.  Wire implements this with partial reads and   *)
(* writes, Server with its threads.                                        *)
(***************************************************************************)
VARIABLES
    client,   \* "none": not connected; "idle"; "asked"; "gone": has closed its end;
              \* "reset": has closed it with an answer unread, the next read will fail
    unread    \* a request is still to be taken

Init == client = "none" /\ unread = FALSE

Becomes(from, to) == client \in from /\ client' = to

Connect == Becomes({"none"}, "idle") /\ UNCHANGED unread
Ask == Becomes({"idle"}, "asked") /\ unread' = TRUE

\* Also the request of a client that has gone meanwhile is taken.
Take == unread /\ unread' = FALSE /\ UNCHANGED client
Answer == ~unread /\ Becomes({"asked"}, "idle") /\ UNCHANGED unread
Serve == unread /\ unread' = FALSE /\ Becomes({"asked"}, "idle")

Disconnect == Becomes({"idle"}, "gone") /\ UNCHANGED unread

\* A client can go with its request sent, or only the beginning of it, or with an answer unread.
Crash ==
    \/ Becomes({"asked"}, "gone") /\ UNCHANGED unread
    \/ Becomes({"asked"}, "gone") /\ unread /\ unread' = FALSE
    \/ ~unread /\ Becomes({"idle", "asked"}, "reset") /\ UNCHANGED unread

Fail == Becomes({"reset"}, "gone") /\ UNCHANGED unread
Close == ~unread /\ Becomes({"gone"}, "none") /\ UNCHANGED unread

Next == Connect \/ Ask \/ Take \/ Answer \/ Serve \/ Disconnect \/ Crash \/ Fail \/ Close

Spec == Init /\ [][Next]_<<client, unread>>

\* The server process ends, and the connection with it.
Stop == client' = "none" /\ unread' = FALSE

SpecWithStop == Init /\ [][Next \/ Stop]_<<client, unread>>
=============================================================================
