---------------------------- MODULE ServerProofs ----------------------------
(***************************************************************************)
(* The way of a descriptor through the server's threads, for any numbers   *)
(* of connections and workers and any size of the queue.  Every step takes *)
(* some descriptors from one place to another, and that is all there is    *)
(* to know about where they are.  The last part is about one connection:   *)
(* who holds its descriptor, that nobody leaves it behind, and that its    *)
(* requests and answers are exchanged as Exchange says.                    *)
(***************************************************************************)
EXTENDS Server, FiniteSetTheorems, SequenceTheorems, TLAPS

Kinds == {"closed", "restore", "accepted"}
Messages == Kinds \X Fds \cup {<<"terminate", 0>>}

\* The descriptors that messages of a kind are about, and those in a queue.
Sent(messages, kind) == {fd \in Fds : \E i \in DOMAIN messages : messages[i] = <<kind, fd>>}
Queued(queue) == {fd \in Fds : \E i \in DOMAIN queue : queue[i] = fd}

Places == Kinds \cup {"set", "hand", "queue", "worker", "waiting", "to_notify"}

\* The descriptors in each place.
at ==
    [closed |-> Sent(pipe, "closed"),
     restore |-> Sent(pipe, "restore"),
     accepted |-> Sent(pipe, "accepted"),
     set |-> set,
     hand |-> {hand} \cap Fds,
     queue |-> Queued(requestQueue),
     worker |-> {fd \in Fds : \E w \in Workers : serving[w] = fd},
     waiting |-> waiting,
     to_notify |-> clientsToNotify]

\* Nothing is in two places, and the descriptors in some place are those of D.
Partition(places, D) ==
    /\ \A p, q \in Places : p # q => places[p] \cap places[q] = {}
    /\ \A fd \in Fds : fd \in D <=> \E p \in Places : fd \in places[p]

\* Nothing is twice in the same place.
NoMessageTwice(messages) ==
    \A i, j \in DOMAIN messages : messages[i][2] = messages[j][2] /\ messages[i][2] # 0 => i = j

NoneTwice ==
    /\ NoMessageTwice(pipe)
    /\ \A i, j \in DOMAIN requestQueue : requestQueue[i] = requestQueue[j] => i = j
    /\ \A v, w \in Workers : serving[v] = serving[w] /\ serving[v] # 0 => v = w

\* Only a client that asked, even if it has gone since, has a request in its socket.
UnreadWasAsked == \A fd \in Fds : unread[fd] => client[fd] \in {"asked", "gone"}

\* A request that waits has been read, and its client can ask for nothing else meanwhile.
WaitersHaveAsked ==
    \A fd \in waiting \cup clientsToNotify : ~unread[fd] /\ client[fd] \in {"asked", "gone"}

\* A connection is closed when its client has gone and nothing is left to read.
ClosedHaveGone == \A fd \in Sent(pipe, "closed") : ~unread[fd] /\ client[fd] = "gone"

\* A descriptor that select found ready stays so until a worker has read from it.
ReadyUntilRead ==
    /\ rdset \ {0} \subseteq set
    /\ \A fd \in (rdset \ {0}) \cup at.hand \cup at.queue \cup at.worker : Readable(fd)
    /\ 0 \in rdset => pipe # << >>

\* The sessions are of the connections whose first message was taken, and they are counted.
SessionsKnown ==
    /\ clientsConnected = Cardinality(session)
    /\ session = Open \ Sent(pipe, "accepted")

AfterLoop == {"leaving", "joining_select", "joining_workers", "done"}

\* No message of a connection follows the last message of main.
TerminateIsLast(messages) ==
    \A i, j \in DOMAIN messages :
        messages[i][1] = "terminate" /\ messages[j][1] = "accepted" => j < i

\* Main leaves its loop for a signal, sends its last message and accepts nothing after it.
MainLeavesLast ==
    /\ mainExitSig => threadExitSig \/ sighupReceived
    /\ main \in AfterLoop => mainExitSig \/ sighupReceived
    /\ selectExit \/ (\E i \in DOMAIN pipe : pipe[i][1] = "terminate") =>
           main \in AfterLoop \ {"leaving"}
    /\ selectExit => Sent(pipe, "accepted") = {}
    /\ TerminateIsLast(pipe)

(***************************************************************************)
(* The inductive invariant.  That a descriptor is in one place is, but     *)
(* that a worker finds something to read needs what is known of the        *)
(* clients, and that no connection is left behind the order of messages.   *)
(***************************************************************************)
ServerInv ==
    /\ TypeOK
    /\ Partition(at, Open)
    /\ NoneTwice
    /\ SessionsKnown
    /\ SetWithinBound
    /\ UnreadWasAsked
    /\ WaitersHaveAsked
    /\ ClosedHaveGone
    /\ ReadyUntilRead
    /\ MainLeavesLast
----------------------------------------------------------------------------
(* From place to place.                                                    *)

\* Several descriptors go from one place to another,
LEMMA Move ==
    ASSUME NEW A \in [Places -> SUBSET Fds], NEW B \in [Places -> SUBSET Fds], NEW D,
           Partition(A, D), NEW from \in Places, NEW to \in Places, from # to,
           NEW F \in SUBSET A[from], B[from] = A[from] \ F, B[to] = A[to] \cup F,
           \A p \in Places \ {from, to} : B[p] = A[p]
    PROVE  Partition(B, D)
<1>1. \A p \in Places : B[p] = IF p = from THEN A[p] \ F ELSE IF p = to THEN A[p] \cup F ELSE A[p]
  OBVIOUS
<1>2. \A p, q \in Places : p # q => B[p] \cap B[q] = {}
  BY <1>1 DEF Partition
<1>3. \A fd \in Fds : fd \in D <=> \E p \in Places : fd \in B[p]
  BY <1>1 DEF Partition
<1>. QED BY <1>2, <1>3 DEF Partition

\* or just one,
LEMMA MoveOne ==
    ASSUME NEW A \in [Places -> SUBSET Fds], NEW B \in [Places -> SUBSET Fds], NEW D,
           Partition(A, D), NEW from \in Places, NEW to \in Places, from # to,
           NEW fd \in A[from], B[from] = A[from] \ {fd}, B[to] = A[to] \cup {fd},
           \A p \in Places \ {from, to} : B[p] = A[p]
    PROVE  Partition(B, D)
<1>. DEFINE F == {fd}
<1>1. F \in SUBSET A[from] /\ B[from] = A[from] \ F /\ B[to] = A[to] \cup F
  OBVIOUS
<1>. HIDE DEF F
<1>. QED BY <1>1, Move

\* a new one comes to a place,
LEMMA Enter ==
    ASSUME NEW A \in [Places -> SUBSET Fds], NEW B \in [Places -> SUBSET Fds], NEW D,
           Partition(A, D), NEW to \in Places, NEW fd \in Fds \ D, B[to] = A[to] \cup {fd},
           \A p \in Places \ {to} : B[p] = A[p]
    PROVE  Partition(B, D \cup {fd})
<1>1. \A p \in Places : B[p] = IF p = to THEN A[p] \cup {fd} ELSE A[p]
  OBVIOUS
<1>2. \A p, q \in Places : p # q => B[p] \cap B[q] = {}
  BY <1>1 DEF Partition
<1>3. \A d \in Fds : d \in D \cup {fd} <=> \E p \in Places : d \in B[p]
  BY <1>1 DEF Partition
<1>. QED BY <1>2, <1>3 DEF Partition

\* and one leaves the last place it was in.
LEMMA Leave ==
    ASSUME NEW A \in [Places -> SUBSET Fds], NEW B \in [Places -> SUBSET Fds], NEW D,
           Partition(A, D), NEW from \in Places, NEW fd \in A[from], B[from] = A[from] \ {fd},
           \A p \in Places \ {from} : B[p] = A[p]
    PROVE  Partition(B, D \ {fd})
<1>1. \A p \in Places : B[p] = IF p = from THEN A[p] \ {fd} ELSE A[p]
  OBVIOUS
<1>2. \A p, q \in Places : p # q => B[p] \cap B[q] = {}
  BY <1>1 DEF Partition
<1>3. \A d \in Fds : d \in D \ {fd} <=> \E p \in Places : d \in B[p]
  BY <1>1 DEF Partition
<1>. QED BY <1>2, <1>3 DEF Partition

\* The places are sets of descriptors.
LEMMA PlacesType ==
    ASSUME TypeOK
    PROVE  at \in [Places -> SUBSET Fds]
BY DEF at, Places, Kinds, Sent, Queued, TypeOK

----------------------------------------------------------------------------
(* Messages and requests, put in last and taken out first.                 *)

\* A message that is sent is the only one about its descriptor, if none was there before.
LEMMA SendMessage ==
    ASSUME NEW s \in Seq(Messages), NoMessageTwice(s), NEW kind \in Kinds, NEW fd \in Fds,
           \A k \in Kinds : fd \notin Sent(s, k)
    PROVE  LET t == Append(s, <<kind, fd>>)
           IN  /\ t \in Seq(Messages) /\ t # << >>
               /\ Sent(t, kind) = Sent(s, kind) \cup {fd}
               /\ \A k \in Kinds \ {kind} : Sent(t, k) = Sent(s, k)
               /\ NoMessageTwice(t)
<1>. DEFINE t == Append(s, <<kind, fd>>)
<1>1. t \in Seq(Messages) /\ t # << >>
  BY DEF Messages
<1>2. /\ DOMAIN s = 1 .. Len(s) /\ DOMAIN t = 1 .. Len(s) + 1 /\ Len(s) \in Nat
      /\ \A i \in DOMAIN s : t[i] = s[i] /\ s[i] \in Messages
      /\ t[Len(s) + 1] = <<kind, fd>>
  BY DEF Messages
<1>. HIDE DEF t
<1>3. \A k \in Kinds, d \in Fds : d \in Sent(t, k) <=> d \in Sent(s, k) \/ <<k, d>> = <<kind, fd>>
  BY <1>2 DEF Sent
<1>4. \A i \in DOMAIN s : s[i][2] # fd
  <2>1. SUFFICES ASSUME NEW i \in DOMAIN s, s[i][2] = fd
                 PROVE  FALSE
    OBVIOUS
  <2>2. s[i][1] \in Kinds /\ s[i] = <<s[i][1], fd>>
    BY <1>2, <2>1, FdsAssumption DEF Messages
  <2>. QED BY <2>1, <2>2 DEF Sent
<1>5. NoMessageTwice(t)
  BY <1>2, <1>4 DEF NoMessageTwice
<1>6. Sent(t, kind) = Sent(s, kind) \cup {fd}
  BY <1>3 DEF Sent
<1>7. \A k \in Kinds \ {kind} : Sent(t, k) = Sent(s, k)
  BY <1>3 DEF Sent
<1>. QED BY <1>1, <1>5, <1>6, <1>7 DEF t

\* It is last, and so may follow the last message of main only if it is not of a new connection.
LEMMA SendInOrder ==
    ASSUME NEW s \in Seq(Messages), TerminateIsLast(s), NEW m \in Messages,
           m[1] = "accepted" => \A i \in DOMAIN s : s[i][1] # "terminate"
    PROVE  LET t == Append(s, m)
           IN  /\ TerminateIsLast(t)
               /\ (\E i \in DOMAIN t : t[i][1] = "terminate") <=>
                      (\E i \in DOMAIN s : s[i][1] = "terminate") \/ m[1] = "terminate"
<1>. DEFINE t == Append(s, m)
<1>1. /\ DOMAIN s = 1 .. Len(s) /\ DOMAIN t = 1 .. Len(s) + 1 /\ Len(s) \in Nat
      /\ \A i \in DOMAIN s : t[i] = s[i]
      /\ t[Len(s) + 1] = m
  OBVIOUS
<1>. HIDE DEF t
<1>2. TerminateIsLast(t)
  BY <1>1 DEF TerminateIsLast
<1>3. (\E i \in DOMAIN t : t[i][1] = "terminate") <=>
          (\E i \in DOMAIN s : s[i][1] = "terminate") \/ m[1] = "terminate"
  BY <1>1
<1>. QED BY <1>2, <1>3 DEF t

\* The message of main is about no descriptor.
LEMMA SendTerminate ==
    ASSUME NEW s \in Seq(Messages), NoMessageTwice(s)
    PROVE  LET t == Append(s, <<"terminate", 0>>)
           IN  /\ t \in Seq(Messages) /\ t # << >>
               /\ \A k \in Kinds : Sent(t, k) = Sent(s, k)
               /\ NoMessageTwice(t)
<1>. DEFINE t == Append(s, <<"terminate", 0>>)
<1>1. t \in Seq(Messages) /\ t # << >>
  BY DEF Messages
<1>2. /\ DOMAIN s = 1 .. Len(s) /\ DOMAIN t = 1 .. Len(s) + 1 /\ Len(s) \in Nat
      /\ \A i \in DOMAIN s : t[i] = s[i]
      /\ t[Len(s) + 1] = <<"terminate", 0>>
  OBVIOUS
<1>. HIDE DEF t
<1>3. \A k \in Kinds : Sent(t, k) = Sent(s, k)
  BY <1>2, FdsAssumption DEF Sent, Kinds
<1>4. NoMessageTwice(t)
  BY <1>2 DEF NoMessageTwice
<1>. QED BY <1>1, <1>3, <1>4 DEF t

\* The message taken was the only one about its descriptor; the others stay, in their order.
LEMMA TakeMessage ==
    ASSUME NEW s \in Seq(Messages), s # << >>, NoMessageTwice(s), TerminateIsLast(s)
    PROVE  LET t == Tail(s)
               m == Head(s)
           IN  /\ t \in Seq(Messages) /\ m \in Messages
               /\ \A k \in Kinds, fd \in Fds :
                      fd \in Sent(t, k) <=> fd \in Sent(s, k) /\ m # <<k, fd>>
               /\ \A k \in Kinds, fd \in Fds : m = <<k, fd>> => fd \in Sent(s, k)
               /\ NoMessageTwice(t) /\ TerminateIsLast(t)
               /\ (\E i \in DOMAIN t : t[i][1] = "terminate") =>
                      \E i \in DOMAIN s : s[i][1] = "terminate"
               /\ m[1] = "terminate" =>
                      Sent(s, "accepted") = {} /\ \E i \in DOMAIN s : s[i][1] = "terminate"
<1>. DEFINE t == Tail(s)
            m == Head(s)
<1>1. /\ DOMAIN s = 1 .. Len(s) /\ Len(s) \in Nat \ {0} /\ DOMAIN t = 1 .. Len(s) - 1
      /\ t \in Seq(Messages) /\ m = s[1] /\ 1 \in DOMAIN s
      /\ \A i \in DOMAIN t : t[i] = s[i + 1] /\ i + 1 \in DOMAIN s
      /\ \A i \in DOMAIN s : i = 1 \/ (i - 1 \in DOMAIN t /\ t[i - 1] = s[i])
      /\ \A i \in DOMAIN s : s[i] \in Messages
  BY EmptySeq, LenProperties, HeadTailProperties
<1>. HIDE DEF t, m
<1>2. ASSUME NEW i \in DOMAIN t, NEW j \in DOMAIN t
      PROVE  /\ t[i][2] = t[j][2] /\ t[i][2] # 0 => i = j
             /\ t[i][1] = "terminate" /\ t[j][1] = "accepted" => j < i
  <2>1. /\ t[i] = s[i + 1] /\ t[j] = s[j + 1] /\ i + 1 \in DOMAIN s /\ j + 1 \in DOMAIN s
        /\ i \in Int /\ j \in Int
    BY <1>1
  <2>2. t[i][2] = t[j][2] /\ t[i][2] # 0 => i + 1 = j + 1
    BY <2>1 DEF NoMessageTwice
  <2>3. t[i][1] = "terminate" /\ t[j][1] = "accepted" => j + 1 < i + 1
    BY <2>1 DEF TerminateIsLast
  <2>. QED BY <2>1, <2>2, <2>3
<1>8. NoMessageTwice(t) /\ TerminateIsLast(t)
  BY <1>2 DEF NoMessageTwice, TerminateIsLast
<1>3. ASSUME NEW k \in Kinds, NEW fd \in Fds
      PROVE  fd \in Sent(t, k) <=> fd \in Sent(s, k) /\ m # <<k, fd>>
  <2>1. ASSUME fd \in Sent(t, k)
        PROVE  fd \in Sent(s, k) /\ m # <<k, fd>>
    <3>1. PICK i \in DOMAIN t : t[i] = <<k, fd>>
      BY <2>1 DEF Sent
    <3>2. s[i + 1] = <<k, fd>> /\ i + 1 \in DOMAIN s /\ i + 1 # 1
      BY <1>1, <3>1
    <3>3. m # <<k, fd>>
      <4>1. SUFFICES ASSUME s[1] = <<k, fd>>
                     PROVE  FALSE
        BY <1>1
      <4>2. s[1][2] = s[i + 1][2] /\ s[1][2] # 0
        BY <3>2, <4>1, FdsAssumption
      <4>3. 1 = i + 1
        BY <1>1, <3>2, <4>2 DEF NoMessageTwice
      <4>. QED BY <3>2, <4>3
    <3>. QED BY <3>2, <3>3 DEF Sent
  <2>2. ASSUME fd \in Sent(s, k), m # <<k, fd>>
        PROVE  fd \in Sent(t, k)
    BY <1>1, <2>2 DEF Sent
  <2>. QED BY <2>1, <2>2
<1>5. \A k \in Kinds, fd \in Fds : m = <<k, fd>> => fd \in Sent(s, k)
  BY <1>1 DEF Sent
<1>6. (\E i \in DOMAIN t : t[i][1] = "terminate") => \E i \in DOMAIN s : s[i][1] = "terminate"
  BY <1>1
<1>7. m[1] = "terminate" => Sent(s, "accepted") = {} /\ \E i \in DOMAIN s : s[i][1] = "terminate"
  <2>1. ASSUME s[1][1] = "terminate", NEW fd \in Fds, NEW j \in DOMAIN s,
               s[j] = <<"accepted", fd>>
        PROVE  FALSE
    <3>1. s[j][1] = "accepted"
      BY <2>1
    <3>2. j < 1
      BY <1>1, <2>1, <3>1 DEF TerminateIsLast
    <3>. QED BY <1>1, <3>2
  <2>. QED BY <1>1, <2>1 DEF Sent
<1>. QED BY <1>1, <1>3, <1>8, <1>5, <1>6, <1>7 DEF t, m

\* The queue of requests, in which each descriptor is once.
LEMMA PutInQueue ==
    ASSUME NEW s \in Seq(Fds), \A i, j \in DOMAIN s : s[i] = s[j] => i = j,
           NEW fd \in Fds \ Queued(s)
    PROVE  LET t == Append(s, fd)
           IN  /\ t \in Seq(Fds) /\ Len(t) = Len(s) + 1
               /\ Queued(t) = Queued(s) \cup {fd}
               /\ \A i, j \in DOMAIN t : t[i] = t[j] => i = j
<1>. DEFINE t == Append(s, fd)
<1>1. /\ DOMAIN s = 1 .. Len(s) /\ DOMAIN t = 1 .. Len(s) + 1 /\ Len(s) \in Nat
      /\ \A i \in DOMAIN s : t[i] = s[i]
      /\ t[Len(s) + 1] = fd
      /\ t \in Seq(Fds) /\ Len(t) = Len(s) + 1
  OBVIOUS
<1>. HIDE DEF t
<1>2. Queued(t) = Queued(s) \cup {fd}
  BY <1>1 DEF Queued
<1>3. \A i, j \in DOMAIN t : t[i] = t[j] => i = j
  BY <1>1 DEF Queued
<1>. QED BY <1>1, <1>2, <1>3 DEF t

\* The worker takes the first descriptor: it leaves the queue and no other place changes.
LEMMA TakeFromQueue ==
    ASSUME NEW s \in Seq(Fds), s # << >>, \A i, j \in DOMAIN s : s[i] = s[j] => i = j
    PROVE  LET t == Tail(s)
           IN  /\ t \in Seq(Fds) /\ Len(t) = Len(s) - 1
               /\ Head(s) \in Queued(s) /\ Queued(t) = Queued(s) \ {Head(s)}
               /\ \A i, j \in DOMAIN t : t[i] = t[j] => i = j
<1>. DEFINE t == Tail(s)
<1>1. /\ DOMAIN s = 1 .. Len(s) /\ Len(s) \in Nat \ {0} /\ DOMAIN t = 1 .. Len(s) - 1
      /\ t \in Seq(Fds) /\ Len(t) = Len(s) - 1 /\ Head(s) = s[1] /\ 1 \in DOMAIN s
      /\ \A i \in DOMAIN t : t[i] = s[i + 1] /\ i + 1 \in DOMAIN s
      /\ \A i \in DOMAIN s : i = 1 \/ (i - 1 \in DOMAIN t /\ t[i - 1] = s[i])
      /\ \A i \in DOMAIN s : s[i] \in Fds
  BY EmptySeq, LenProperties, HeadTailProperties
<1>. HIDE DEF t
<1>2. Queued(t) = Queued(s) \ {Head(s)}
  BY <1>1, SMTT(30) DEF Queued
<1>3. \A i, j \in DOMAIN t : t[i] = t[j] => i = j
  BY <1>1
<1>. QED BY <1>1, <1>2, <1>3 DEF t, Queued

----------------------------------------------------------------------------
(* The lowest and the highest descriptor.                                  *)

\* A finite set of numbers has a greatest element: without one, there would be a
\* smallest such set, and one without any of its elements would be smaller.
LEMMA MaxIsGreatest ==
    ASSUME NEW S \in SUBSET Nat, S # {}, IsFiniteSet(S)
    PROVE  Max(S) \in S /\ \A x \in S : Max(S) >= x
<1>. DEFINE Unbounded == {T \in SUBSET S : T # {} /\ \A x \in T : \E y \in T : x < y}
<1>1. SUFFICES ASSUME Unbounded # {}
               PROVE  FALSE
  <2>1. SUFFICES ASSUME Unbounded = {}
                 PROVE  \E x \in S : \A y \in S : x >= y
    BY DEF Max
  <2>2. S \notin Unbounded
    BY <2>1
  <2>. QED BY <2>2
<1>2. IsWellFoundedOn(StrictSubsetOrdering(S), SUBSET S)
  BY FS_StrictSubsetOrderingWellFounded, FS_FiniteSubsetsOfFinite
<1>3. Unbounded \subseteq SUBSET S
  OBVIOUS
<1>. HIDE DEF Unbounded
<1>4. PICK T \in Unbounded : \A U \in Unbounded : ~ (<<U, T>> \in StrictSubsetOrdering(S))
  BY <1>1, <1>2, <1>3, WFMin
<1>. USE DEF Unbounded
<1>5. PICK x \in T : TRUE
  BY <1>4
<1>. DEFINE U == T \ {x}
<1>6. U \in SUBSET S /\ U # {} /\ \A z \in U : \E y \in U : z < y
  BY <1>4, <1>5
<1>7. <<U, T>> \in StrictSubsetOrdering(S)
  BY <1>4, <1>5, <1>6 DEF StrictSubsetOrdering
<1>. QED BY <1>4, <1>6, <1>7

\* And a least one: the complement of the greatest of the complements.
LEMMA MinIsElement ==
    ASSUME NEW S \in SUBSET Nat, S # {}, IsFiniteSet(S)
    PROVE  Min(S) \in S
<1>1. PICK m \in S : \A x \in S : m >= x
  BY MaxIsGreatest
<1>. DEFINE T == {m - x : x \in S}
<1>5. T \in SUBSET Nat /\ T # {} /\ \A y \in T : y <= m
  BY <1>1
<1>2. IsFiniteSet(T)
  BY <1>5, FS_BoundedSetOfNaturals
<1>3. PICK y \in T : \A z \in T : y >= z
  BY <1>2, <1>5, MaxIsGreatest
<1>4. \E x \in S : \A z \in S : x <= z
  <2>1. PICK x \in S : y = m - x
    BY <1>3
  <2>2. ASSUME NEW z \in S
        PROVE  x <= z
    <3>1. m - z \in T
      OBVIOUS
    <3>2. y >= m - z
      BY <1>3, <3>1
    <3>. QED BY <2>1, <3>2
  <2>. QED BY <2>2
<1>. QED BY <1>4 DEF Min

\* The higher of two.
LEMMA MaxOfTwo ==
    ASSUME NEW a \in Nat, NEW b \in Nat
    PROVE  Max({a, b}) \in {a, b} /\ Max({a, b}) >= a /\ Max({a, b}) >= b
<1>1. IsFiniteSet({a, b})
  <2>1. IsFiniteSet({a})
    BY FS_Singleton
  <2>2. IsFiniteSet({a} \cup {b})
    BY <2>1, FS_AddElement
  <2>3. {a, b} = {a} \cup {b}
    OBVIOUS
  <2>. QED BY <2>2, <2>3
<1>2. {a, b} \in SUBSET Nat /\ {a, b} # {}
  OBVIOUS
<1>. QED BY <1>1, <1>2, MaxIsGreatest

----------------------------------------------------------------------------
(* What most steps leave alone.                                            *)

\* The pipe is a sequence of messages (TypeOK says it in terms of `Message`).
LEMMA PipeType == TypeOK => pipe \in Seq(Messages)
BY DEF TypeOK, Messages, Kinds

\* Whoever is in one place is in no other.
LEMMA OnlyThere ==
    ASSUME NEW A, NEW D, Partition(A, D), NEW p \in Places, NEW fd \in Fds, fd \in A[p]
    PROVE  fd \in D /\ \A q \in Places : q # p => fd \notin A[q]
BY DEF Partition

\* A step that changes neither the places nor the clients, nor the order of the messages.
LEMMA ElsewhereKeepsInv ==
    ASSUME ServerInv, TypeOK', ReadyUntilRead', MainLeavesLast',
           UNCHANGED <<clients, session, clientsConnected, set, _maxFds, hand, serving, locks,
                       pipe,
                       requestQueue>>
    PROVE  ServerInv'
<1>1. UNCHANGED <<at, Open>>
  BY DEF at, clients, locks, Open
<1>2. Partition(at, Open)'
  BY <1>1 DEF Partition, ServerInv
<1>3. NoneTwice' /\ SessionsKnown' /\ SetWithinBound'
  BY <1>1 DEF ServerInv, NoneTwice, SessionsKnown, SetWithinBound
<1>4. UnreadWasAsked' /\ WaitersHaveAsked' /\ ClosedHaveGone'
  BY DEF ServerInv, UnreadWasAsked, WaitersHaveAsked, ClosedHaveGone, clients, locks
<1>. QED BY <1>2, <1>3, <1>4 DEF ServerInv

\* The order of the messages holds on when none is sent but those of main.
LEMMA OrderIsKept ==
    ASSUME MainLeavesLast, UNCHANGED <<main, signals, selectExit>>,
           TerminateIsLast(pipe'), Sent(pipe', "accepted") \subseteq Sent(pipe, "accepted"),
           (\E i \in DOMAIN pipe' : pipe'[i][1] = "terminate") =>
               \E i \in DOMAIN pipe : pipe[i][1] = "terminate"
    PROVE  MainLeavesLast'
BY DEF MainLeavesLast, signals

----------------------------------------------------------------------------
(* Clients.                                                                *)

\* What a client does (ask, leave, die) moves no descriptor between the nine places.
LEMMA ClientKeepsInv ==
    ASSUME ServerInv, NEW fd \in Fds, Ask(fd) \/ Disconnect(fd) \/ Crash(fd) \/ Abandon(fd)
    PROVE  ServerInv'
<1>0. TypeOK
  BY DEF ServerInv
<1>1. UNCHANGED <<main, signals, selecting, working, notifier, locks, pipe, requestQueue, closed>>
  BY DEF Ask, Disconnect, Crash, Abandon, Leaves
<1>2. client[fd] \in {"idle", "asked"}
      /\ client' \in [Fds -> {"none", "idle", "asked", "reset", "gone"}]
      /\ client'[fd] \in {"asked", "reset", "gone"}
      /\ \A d \in Fds \ {fd} : client'[d] = client[d]
  BY <1>0 DEF Ask, Disconnect, Crash, Abandon, Leaves, TypeOK
<1>3. unread' \in [Fds -> BOOLEAN] /\ \A d \in Fds \ {fd} : unread'[d] = unread[d]
  BY <1>0 DEF Ask, Disconnect, Crash, Abandon, Leaves, TypeOK
<1>4. /\ unread'[fd] => client'[fd] \in {"asked", "gone"}
      /\ client[fd] = "asked" /\ ~unread[fd] => ~unread'[fd] /\ client'[fd] = "gone"
      /\ Readable(fd) => Readable(fd)'
  BY <1>0 DEF Ask, Disconnect, Crash, Abandon, Leaves, TypeOK, Readable, ServerInv, UnreadWasAsked
<1>5. TypeOK'
  BY <1>0, <1>1, <1>2, <1>3 DEF TypeOK, signals, selecting, working, locks
<1>6. UNCHANGED <<at, Open>>
  <2>1. Open' = Open
    BY <1>2 DEF Open
  <2>. QED BY <1>1, <2>1 DEF at, locks, selecting, working
<1>7. Partition(at, Open)'
  BY <1>6 DEF Partition, ServerInv
<1>8. NoneTwice' /\ SessionsKnown' /\ SetWithinBound'
  BY <1>1, <1>6 DEF ServerInv, NoneTwice, SessionsKnown, SetWithinBound, selecting, working
<1>9. UnreadWasAsked'
  BY <1>2, <1>3, <1>4 DEF ServerInv, UnreadWasAsked
<1>10. WaitersHaveAsked'
  BY <1>0, <1>1, <1>2, <1>3, <1>4 DEF ServerInv, WaitersHaveAsked, locks, TypeOK
<1>11. ClosedHaveGone'
  BY <1>1, <1>2, <1>3 DEF ServerInv, ClosedHaveGone, Sent
<1>12. ReadyUntilRead'
  <2>1. \A d \in Fds : Readable(d) => Readable(d)'
    BY <1>2, <1>3, <1>4 DEF Readable
  <2>2. rdset \subseteq Fds \cup {0} /\ at.hand \cup at.queue \cup at.worker \subseteq Fds
    BY <1>0 DEF TypeOK, at, Queued
  <2>. QED BY <1>1, <1>6, <2>1, <2>2 DEF ServerInv, ReadyUntilRead, selecting
<1>13. MainLeavesLast'
  BY <1>1 DEF ServerInv, MainLeavesLast, selecting, signals
<1>. QED BY <1>5, <1>7, <1>8, <1>9, <1>10, <1>11, <1>12, <1>13 DEF ServerInv

----------------------------------------------------------------------------
(* The signals and the main thread.                                        *)

\* A step that leaves the pipe and what select found alone leaves what is ready so.
LEMMA ReadinessIsKept ==
    ASSUME ServerInv, UNCHANGED <<clients, rdset, set, hand, serving, locks, pipe, requestQueue>>
    PROVE  ReadyUntilRead'
<1>1. UNCHANGED at
  BY DEF at, locks
<1>. QED BY <1>1 DEF ServerInv, ReadyUntilRead, Readable, clients

\* A signal sets a flag of main and touches no connection.
LEMMA SignalKeepsInv ==
    ASSUME ServerInv, Interrupt \/ HangUp
    PROVE  ServerInv'
<1>1. TypeOK'
  BY ZenonT(30) DEF ServerInv, TypeOK, Interrupt, HangUp, clients, selecting, working, locks
<1>2. ReadyUntilRead'
  BY ReadinessIsKept DEF Interrupt, HangUp, selecting, working
<1>3. MainLeavesLast'
  BY DEF ServerInv, MainLeavesLast, AfterLoop, Interrupt, HangUp, selecting
<1>. QED BY <1>1, <1>2, <1>3, ElsewhereKeepsInv DEF Interrupt, HangUp, selecting, working

\* The steps of main that send nothing.
LEMMA SilentMainKeepsInv ==
    ASSUME ServerInv, TestExit \/ CallAccept \/ CloseQueues \/ Finish
    PROVE  ServerInv'
<1>1. UNCHANGED <<signals, selecting, working, notifier, locks, requestQueue, clients, pipe>>
  BY DEF TestExit, CallAccept, CloseQueues, Finish, MainGoes
<1>2. TypeOK'
  <2>1. /\ main' \in {"testing", "calling", "accepting", "leaving", "joining_select",
                     "joining_workers", "done"}
        /\ closed' \in BOOLEAN
    BY DEF ServerInv, TypeOK, TestExit, CallAccept, CloseQueues, Finish, MainGoes
  <2>. QED BY <1>1, <2>1 DEF ServerInv, TypeOK, clients, selecting, working, locks, signals
<1>3. ReadyUntilRead'
  BY <1>1, ReadinessIsKept DEF selecting, working
<1>4. MainLeavesLast'
  BY <1>1 DEF ServerInv, MainLeavesLast, AfterLoop, TestExit, CallAccept, CloseQueues, Finish,
              MainGoes, selecting, signals
<1>. QED BY <1>1, <1>2, <1>3, <1>4, ElsewhereKeepsInv DEF selecting, working

\* Main leaves its loop and sends its last message, the termination.
LEMMA TerminateKeepsInv ==
    ASSUME ServerInv, Terminate
    PROVE  ServerInv'
<1>0. TypeOK /\ pipe \in Seq(Messages) /\ NoMessageTwice(pipe) /\ TerminateIsLast(pipe)
  BY PipeType DEF ServerInv, NoneTwice, MainLeavesLast
<1>1. /\ main = "leaving" /\ main' = "joining_select"
      /\ pipe' = Append(pipe, <<"terminate", 0>>)
      /\ UNCHANGED <<signals, selecting, working, notifier, locks, requestQueue, clients, closed>>
  BY DEF Terminate, MainGoes, writeToPipe
<1>2. /\ pipe' \in Seq(Messages) /\ pipe' # << >> /\ NoMessageTwice(pipe')
      /\ \A k \in Kinds : Sent(pipe', k) = Sent(pipe, k)
  BY <1>0, <1>1, SendTerminate
<1>3. TerminateIsLast(pipe')
  BY <1>0, <1>1, SendInOrder DEF Messages
<1>4. TypeOK'
  <2>1. pipe' \in Seq({"closed", "restore", "accepted"} \X Fds \cup {<<"terminate", 0>>})
    BY <1>2 DEF Messages, Kinds
  <2>. QED BY <1>0, <1>1, <2>1 DEF TypeOK, clients, selecting, working, locks, signals
<1>5. UNCHANGED <<at, Open>>
  BY <1>1, <1>2 DEF at, Open, Kinds, clients, selecting, working, locks
<1>6. Partition(at, Open)' /\ NoneTwice' /\ SessionsKnown' /\ SetWithinBound'
  BY <1>1, <1>2, <1>5 DEF ServerInv, Partition, NoneTwice, SessionsKnown, SetWithinBound, Kinds,
                          selecting, working
<1>7. UnreadWasAsked' /\ WaitersHaveAsked' /\ ClosedHaveGone'
  BY <1>1, <1>2 DEF ServerInv, UnreadWasAsked, WaitersHaveAsked, ClosedHaveGone, Kinds,
     clients, locks
<1>8. ReadyUntilRead'
  BY <1>1, <1>2, <1>5 DEF ServerInv, ReadyUntilRead, Readable, clients, selecting
<1>9. MainLeavesLast'
  BY <1>1, <1>2, <1>3 DEF ServerInv, MainLeavesLast, AfterLoop, Kinds, selecting, signals
<1>. QED BY <1>4, <1>6, <1>7, <1>8, <1>9 DEF ServerInv

\* A descriptor is free for the next connection only when it is nowhere.
LEMMA AcceptKeepsInv ==
    ASSUME ServerInv, Accept
    PROVE  ServerInv'
<1>. DEFINE conn == Min(Fds \ Open)
<1>0. /\ TypeOK /\ pipe \in Seq(Messages) /\ NoMessageTwice(pipe) /\ TerminateIsLast(pipe)
      /\ Partition(at, Open) /\ at \in [Places -> SUBSET Fds]
  BY PipeType, PlacesType DEF ServerInv, NoneTwice, MainLeavesLast
<1>1. /\ main = "accepting" /\ main' = "testing" /\ Open # Fds
      /\ client' = [client EXCEPT ![conn] = "idle"]
      /\ pipe' = Append(pipe, <<"accepted", conn>>)
      /\ UNCHANGED <<signals, selecting, working, notifier, locks, requestQueue, unread, closed>>
  BY DEF Accept, MainGoes, writeToPipe
<1>2. conn \in Fds \ Open
  <2>1. Fds \ Open \in SUBSET Nat /\ Fds \ Open # {}
    BY <1>1, FdsAssumption DEF Open
  <2>2. IsFiniteSet(Fds \ Open)
    BY FdsAssumption, FS_Subset
  <2>. QED BY <2>1, <2>2, MinIsElement
<1>. HIDE DEF conn
<1>3. client[conn] = "none" /\ \A p \in Places : conn \notin at[p]
  BY <1>0, <1>2 DEF Open, Partition
<1>4. \A k \in Kinds : conn \notin Sent(pipe, k)
  BY <1>3 DEF at, Kinds, Places
<1>5. /\ pipe' \in Seq(Messages) /\ pipe' # << >> /\ NoMessageTwice(pipe')
      /\ Sent(pipe', "accepted") = Sent(pipe, "accepted") \cup {conn}
      /\ \A k \in Kinds \ {"accepted"} : Sent(pipe', k) = Sent(pipe, k)
  BY <1>0, <1>1, <1>2, <1>4, SendMessage DEF Kinds
<1>15. /\ Sent(pipe', "closed") = Sent(pipe, "closed")
       /\ Sent(pipe', "restore") = Sent(pipe, "restore")
  BY <1>5 DEF Kinds
<1>16. conn \notin set \cup {hand} \cup at.queue \cup at.worker \cup waiting \cup clientsToNotify
       /\ conn \notin Sent(pipe, "closed")
  <2>1. /\ conn \notin at.set /\ conn \notin at.hand /\ conn \notin at.queue
        /\ conn \notin at.worker /\ conn \notin at.waiting /\ conn \notin at.to_notify
        /\ conn \notin at.closed
    BY <1>3 DEF Places, Kinds
  <2>. QED BY <1>2, <2>1 DEF at
<1>6. Open' = Open \cup {conn}
  BY <1>0, <1>1, <1>2 DEF Open, TypeOK
<1>7. TypeOK'
  <2>1. pipe' \in Seq({"closed", "restore", "accepted"} \X Fds \cup {<<"terminate", 0>>})
    BY <1>5 DEF Messages, Kinds
  <2>. QED BY <1>0, <1>1, <2>1 DEF TypeOK, selecting, working, locks, signals
<1>8. Partition(at, Open)'
  <2>5. /\ at'.closed = at.closed /\ at'.restore = at.restore
        /\ at'.accepted = at.accepted \cup {conn}
        /\ at'.set = at.set /\ at'.hand = at.hand /\ at'.queue = at.queue
        /\ at'.worker = at.worker /\ at'.waiting = at.waiting /\ at'.to_notify = at.to_notify
    BY <1>1, <1>5, <1>15 DEF at, selecting, working, locks
  <2>1. at'.accepted = at.accepted \cup {conn} /\ \A p \in Places \ {"accepted"} : at'[p] = at[p]
    BY <2>5 DEF Places, Kinds
  <2>2. at' \in [Places -> SUBSET Fds]
    BY <1>7 DEF at, Places, Kinds, Sent, Queued, TypeOK
  <2>3. "accepted" \in Places
    BY DEF Places, Kinds
  <2>4. Partition(at', Open \cup {conn})
    BY <1>0, <1>2, <2>1, <2>2, <2>3, Enter
  <2>. QED BY <1>6, <2>4 DEF Partition
<1>9. NoneTwice' /\ SetWithinBound'
  BY <1>1, <1>5 DEF ServerInv, NoneTwice, SetWithinBound, selecting, working
<1>10. SessionsKnown'
  BY <1>1, <1>2, <1>5, <1>6 DEF ServerInv, SessionsKnown, selecting
<1>11. UnreadWasAsked'
  BY <1>0, <1>1, <1>3 DEF ServerInv, UnreadWasAsked, TypeOK
<1>12. WaitersHaveAsked' /\ ClosedHaveGone'
  BY <1>0, <1>1, <1>15, <1>16 DEF ServerInv, WaitersHaveAsked, ClosedHaveGone, TypeOK, locks, Sent
<1>13. ReadyUntilRead'
  <2>1. /\ at'.hand = at.hand /\ at'.queue = at.queue /\ at'.worker = at.worker
        /\ rdset' = rdset /\ set' = set
    BY <1>1 DEF at, selecting, working
  <2>2. \A d \in Fds \ {conn} : Readable(d) => Readable(d)'
    BY <1>0, <1>1 DEF Readable, TypeOK
  <2>3. rdset \subseteq Fds \cup {0} /\ at.hand \cup at.queue \cup at.worker \subseteq Fds
    BY <1>0 DEF TypeOK, at, Queued
  <2>4. conn \notin at.hand \cup at.queue \cup at.worker \cup set
    BY <1>16 DEF at
  <2>. QED BY <1>5, <2>1, <2>2, <2>3, <2>4 DEF ServerInv, ReadyUntilRead
<1>14. MainLeavesLast'
  <2>1. ~selectExit /\ \A i \in DOMAIN pipe : pipe[i][1] # "terminate"
    BY <1>1 DEF ServerInv, MainLeavesLast, AfterLoop
  <2>2. /\ TerminateIsLast(pipe')
        /\ \A i \in DOMAIN pipe' : pipe'[i][1] # "terminate"
    BY <1>0, <1>1, <1>2, <2>1, SendInOrder DEF Messages, Kinds
  <2>. QED BY <1>1, <2>1, <2>2 DEF ServerInv, MainLeavesLast, AfterLoop, selecting, signals
<1>. QED BY <1>7, <1>8, <1>9, <1>10, <1>11, <1>12, <1>13, <1>14 DEF ServerInv

----------------------------------------------------------------------------
(* The select thread.                                                      *)

\* select() returns: descriptors to look at, all of them watched.
LEMMA SelectReturnsKeepsInv ==
    ASSUME ServerInv, SelectReturns
    PROVE  ServerInv'
<1>. DEFINE found == {fd \in set : fd <= _maxFds /\ Readable(fd)} \cup {0 : m \in 1 .. Len(pipe)}
<1>0. TypeOK /\ pipe \in Seq(Messages)
  BY PipeType DEF ServerInv
<1>1. /\ select = "selecting" /\ select' = "dispatching" /\ rdset' = found
      /\ UNCHANGED <<main, signals, clients, session, clientsConnected, selectExit, set, _maxFds,
                     hand, working, notifier, locks, pipe, requestQueue, closed>>
  BY DEF SelectReturns
<1>2. TypeOK'
  BY <1>0, <1>1 DEF TypeOK, signals, clients, working, locks
<1>3. ReadyUntilRead'
  <2>1. UNCHANGED at
    BY <1>1 DEF at, working, locks
  <2>2. \A fd \in found \ {0} : fd \in set /\ Readable(fd)
    OBVIOUS
  <2>3. 0 \in found => pipe # << >>
    BY <1>0, FdsAssumption DEF TypeOK
  <2>. HIDE DEF found
  <2>. QED BY <1>1, <2>1, <2>2, <2>3 DEF ServerInv, ReadyUntilRead, Readable, clients
<1>4. MainLeavesLast'
  BY <1>1 DEF ServerInv, MainLeavesLast, signals
<1>. QED BY <1>1, <1>2, <1>3, <1>4, ElsewhereKeepsInv DEF working

\* A round of the select thread ends when every readable descriptor has been looked at.
LEMMA EndRoundKeepsInv ==
    ASSUME ServerInv, EndRound
    PROVE  ServerInv'
<1>1. /\ select = "dispatching" /\ select' \in {"exited", "selecting"} /\ rdset' = {}
      /\ threadExitSig' = (threadExitSig \/ SelectExits)
      /\ UNCHANGED <<main, mainExitSig, sighupReceived, clients, session, clientsConnected,
                     selectExit, set, _maxFds, hand, working, notifier, locks, pipe, requestQueue,
                     closed>>
  BY DEF EndRound
<1>2. TypeOK'
  BY <1>1 DEF ServerInv, TypeOK, clients, working, locks
<1>3. ReadyUntilRead'
  <2>1. UNCHANGED at
    BY <1>1 DEF at, working, locks
  <2>. QED BY <1>1, <2>1 DEF ServerInv, ReadyUntilRead, Readable, clients
<1>4. MainLeavesLast'
  BY <1>1 DEF ServerInv, MainLeavesLast
<1>. QED BY <1>1, <1>2, <1>3, <1>4, ElsewhereKeepsInv DEF working

\* What a message that is taken leaves behind.
LEMMA MessageTaken ==
    ASSUME ServerInv, NEW kind, NEW fd, Message(kind, fd)
    PROVE  /\ select = "dispatching" /\ <<kind, fd>> \in Messages
           /\ UNCHANGED <<main, signals, select, hand, working, notifier, requestQueue, closed>>
           /\ rdset' = rdset \ {0}
           /\ pipe' \in Seq(Messages) /\ NoMessageTwice(pipe') /\ TerminateIsLast(pipe')
           /\ (\E i \in DOMAIN pipe' : pipe'[i][1] = "terminate") =>
                  \E i \in DOMAIN pipe : pipe[i][1] = "terminate"
           /\ \A k \in Kinds, d \in Fds :
                  d \in Sent(pipe', k) <=> d \in Sent(pipe, k) /\ <<kind, fd>> # <<k, d>>
           /\ \A k \in Kinds, d \in Fds : <<kind, fd>> = <<k, d>> => d \in Sent(pipe, k)
           /\ kind = "terminate" => /\ Sent(pipe, "accepted") = {}
                                    /\ \E i \in DOMAIN pipe : pipe[i][1] = "terminate"
<1>1. /\ pipe \in Seq(Messages) /\ pipe # << >> /\ NoMessageTwice(pipe) /\ TerminateIsLast(pipe)
      /\ Head(pipe) = <<kind, fd>> /\ pipe' = Tail(pipe)
  BY PipeType DEF Message, ServerInv, NoneTwice, MainLeavesLast, ReadyUntilRead
<1>. QED BY <1>1, TakeMessage DEF Message

\* It was the only one about its descriptor.
LEMMA MessageOfDescriptor ==
    ASSUME ServerInv, NEW kind \in Kinds, NEW fd \in Fds, Message(kind, fd)
    PROVE  /\ fd \in Sent(pipe, kind) /\ Sent(pipe', kind) = Sent(pipe, kind) \ {fd}
           /\ \A k \in Kinds \ {kind} : Sent(pipe', k) = Sent(pipe, k)
<1>1. \A k \in Kinds, d \in Fds :
          d \in Sent(pipe', k) <=> d \in Sent(pipe, k) /\ <<kind, fd>> # <<k, d>>
  BY MessageTaken
<1>2. Sent(pipe', kind) = Sent(pipe, kind) \ {fd}
  BY <1>1 DEF Sent
<1>3. \A k \in Kinds \ {kind} : Sent(pipe', k) = Sent(pipe, k)
  BY <1>1 DEF Sent
<1>4. fd \in Sent(pipe, kind)
  BY MessageTaken
<1>. QED BY <1>2, <1>3, <1>4

\* The select thread reads a termination message.
LEMMA TerminationKeepsInv ==
    ASSUME ServerInv, Termination
    PROVE  ServerInv'
<1>0. TypeOK
  BY DEF ServerInv
<1>1. /\ selectExit' = TRUE
      /\ UNCHANGED <<main, signals, select, hand, working, notifier, requestQueue, closed,
                     clients,
                     locks, session, clientsConnected, set, _maxFds>>
      /\ rdset' = rdset \ {0}
      /\ pipe' \in Seq(Messages) /\ NoMessageTwice(pipe') /\ TerminateIsLast(pipe')
      /\ Sent(pipe, "accepted") = {} /\ \E i \in DOMAIN pipe : pipe[i][1] = "terminate"
  BY MessageTaken DEF Termination
<1>2. /\ Sent(pipe', "closed") = Sent(pipe, "closed")
      /\ Sent(pipe', "restore") = Sent(pipe, "restore")
      /\ Sent(pipe', "accepted") = Sent(pipe, "accepted")
  <2>1. \A k \in Kinds, d \in Fds : d \in Sent(pipe', k) <=> d \in Sent(pipe, k)
    BY MessageTaken DEF Termination, Kinds
  <2>. QED BY <2>1 DEF Sent, Kinds
<1>3. TypeOK'
  <2>1. pipe' \in Seq({"closed", "restore", "accepted"} \X Fds \cup {<<"terminate", 0>>})
    BY <1>1 DEF Messages, Kinds
  <2>. QED BY <1>0, <1>1, <2>1 DEF TypeOK, clients, working, locks, signals
<1>4. UNCHANGED <<at, Open>>
  BY <1>1, <1>2 DEF at, Open, clients, working, locks
<1>5. Partition(at, Open)' /\ NoneTwice' /\ SessionsKnown' /\ SetWithinBound'
  BY <1>1, <1>2, <1>4 DEF ServerInv, Partition, NoneTwice, SessionsKnown, SetWithinBound, working
<1>6. UnreadWasAsked' /\ WaitersHaveAsked' /\ ClosedHaveGone'
  BY <1>1, <1>2 DEF ServerInv, UnreadWasAsked, WaitersHaveAsked, ClosedHaveGone, clients, locks
<1>7. ReadyUntilRead'
  BY <1>1, <1>4 DEF ServerInv, ReadyUntilRead, Readable, clients
<1>8. MainLeavesLast'
  BY <1>1, <1>2 DEF ServerInv, MainLeavesLast, signals
<1>. QED BY <1>3, <1>5, <1>6, <1>7, <1>8 DEF ServerInv

\* A served descriptor comes back: from the pipe to the set.
LEMMA RestoreKeepsInv ==
    ASSUME ServerInv, NEW fd \in Fds, Restore(fd)
    PROVE  ServerInv'
<1>0. TypeOK /\ Partition(at, Open) /\ at \in [Places -> SUBSET Fds]
  BY PlacesType DEF ServerInv
<1>1. /\ set' = set \cup {fd} /\ _maxFds' = Max({_maxFds, fd})
      /\ UNCHANGED <<main, signals, select, hand, working, notifier, requestQueue, closed,
                     clients,
                     locks, session, clientsConnected, selectExit>>
      /\ rdset' = rdset \ {0}
      /\ pipe' \in Seq(Messages) /\ NoMessageTwice(pipe') /\ TerminateIsLast(pipe')
  BY MessageTaken DEF Restore
<1>2. /\ Sent(pipe', "closed") = Sent(pipe, "closed")
      /\ Sent(pipe', "restore") = Sent(pipe, "restore") \ {fd} /\ fd \in Sent(pipe, "restore")
      /\ Sent(pipe', "accepted") = Sent(pipe, "accepted")
  BY MessageOfDescriptor DEF Restore, Kinds
<1>3. _maxFds' \in Fds \cup {0} /\ _maxFds' >= _maxFds /\ _maxFds' >= fd
  <2>1. _maxFds \in Nat /\ fd \in Nat /\ _maxFds \in Fds \cup {0}
    BY <1>0, FdsAssumption DEF TypeOK
  <2>2. _maxFds' \in {_maxFds, fd} /\ _maxFds' >= _maxFds /\ _maxFds' >= fd
    BY <1>1, <2>1, MaxOfTwo
  <2>. QED BY <2>1, <2>2
<1>4. TypeOK'
  <2>1. pipe' \in Seq({"closed", "restore", "accepted"} \X Fds \cup {<<"terminate", 0>>})
    BY <1>1 DEF Messages, Kinds
  <2>. QED BY <1>0, <1>1, <1>3, <2>1 DEF TypeOK, clients, working, locks, signals
<1>5. Open' = Open
  BY <1>1 DEF Open, clients
<1>6. /\ at'.closed = at.closed /\ at'.restore = at.restore \ {fd} /\ at'.accepted = at.accepted
      /\ at'.set = at.set \cup {fd} /\ at'.hand = at.hand /\ at'.queue = at.queue
      /\ at'.worker = at.worker /\ at'.waiting = at.waiting /\ at'.to_notify = at.to_notify
      /\ fd \in at.restore
  BY <1>1, <1>2 DEF at, working, locks
<1>7. Partition(at, Open)'
  <2>1. at' \in [Places -> SUBSET Fds]
    BY <1>4 DEF at, Places, Kinds, Sent, Queued, TypeOK
  <2>2. \A p \in Places \ {"restore", "set"} : at'[p] = at[p]
    BY <1>6 DEF Places, Kinds
  <2>3. "restore" \in Places /\ "set" \in Places
    BY DEF Places, Kinds
  <2>4. Partition(at', Open)
    BY <1>0, <1>6, <2>1, <2>2, <2>3, MoveOne
  <2>. QED BY <1>5, <2>4 DEF Partition
<1>8. NoneTwice' /\ SessionsKnown'
  BY <1>1, <1>2, <1>5 DEF ServerInv, NoneTwice, SessionsKnown, working
<1>9. SetWithinBound'
  BY <1>0, <1>1, <1>3, FdsAssumption DEF ServerInv, SetWithinBound, TypeOK
<1>10. UnreadWasAsked' /\ WaitersHaveAsked' /\ ClosedHaveGone'
  BY <1>1, <1>2 DEF ServerInv, UnreadWasAsked, WaitersHaveAsked, ClosedHaveGone, clients, locks
<1>11. ReadyUntilRead'
  BY <1>1, <1>6 DEF ServerInv, ReadyUntilRead, Readable, clients
<1>12. MainLeavesLast'
  BY <1>1, <1>2, MessageTaken, OrderIsKept DEF ServerInv, Restore
<1>. QED BY <1>4, <1>7, <1>8, <1>9, <1>10, <1>11, <1>12 DEF ServerInv

\* A connection is reported: its session is initialised and it joins the set.
LEMMA NewConnectionKeepsInv ==
    ASSUME ServerInv, NEW fd \in Fds, NewConnection(fd)
    PROVE  ServerInv'
<1>0. TypeOK /\ Partition(at, Open) /\ at \in [Places -> SUBSET Fds]
  BY PlacesType DEF ServerInv
<1>1. /\ session' = session \cup {fd} /\ clientsConnected' = clientsConnected + 1
      /\ set' = set \cup {fd} /\ _maxFds' = Max({_maxFds, fd})
      /\ UNCHANGED <<main, signals, select, hand, working, notifier, requestQueue, closed,
                     clients,
                     locks, selectExit>>
      /\ rdset' = rdset \ {0}
      /\ pipe' \in Seq(Messages) /\ NoMessageTwice(pipe') /\ TerminateIsLast(pipe')
  BY MessageTaken DEF NewConnection
<1>2. /\ Sent(pipe', "closed") = Sent(pipe, "closed")
      /\ Sent(pipe', "restore") = Sent(pipe, "restore")
      /\ Sent(pipe', "accepted") = Sent(pipe, "accepted") \ {fd} /\ fd \in Sent(pipe, "accepted")
  BY MessageOfDescriptor DEF NewConnection, Kinds
<1>3. _maxFds' \in Fds \cup {0} /\ _maxFds' >= _maxFds /\ _maxFds' >= fd
  <2>1. _maxFds \in Nat /\ fd \in Nat /\ _maxFds \in Fds \cup {0}
    BY <1>0, FdsAssumption DEF TypeOK
  <2>2. _maxFds' \in {_maxFds, fd} /\ _maxFds' >= _maxFds /\ _maxFds' >= fd
    BY <1>1, <2>1, MaxOfTwo
  <2>. QED BY <2>1, <2>2
<1>4. TypeOK'
  <2>1. pipe' \in Seq({"closed", "restore", "accepted"} \X Fds \cup {<<"terminate", 0>>})
    BY <1>1 DEF Messages, Kinds
  <2>. QED BY <1>0, <1>1, <1>3, <2>1 DEF TypeOK, clients, working, locks, signals
<1>5. Open' = Open
  BY <1>1 DEF Open, clients
<1>6. /\ at'.closed = at.closed /\ at'.restore = at.restore /\ at'.accepted = at.accepted \ {fd}
      /\ at'.set = at.set \cup {fd} /\ at'.hand = at.hand /\ at'.queue = at.queue
      /\ at'.worker = at.worker /\ at'.waiting = at.waiting /\ at'.to_notify = at.to_notify
      /\ fd \in at.accepted
  BY <1>1, <1>2 DEF at, working, locks
<1>7. Partition(at, Open)'
  <2>1. at' \in [Places -> SUBSET Fds]
    BY <1>4 DEF at, Places, Kinds, Sent, Queued, TypeOK
  <2>2. \A p \in Places \ {"accepted", "set"} : at'[p] = at[p]
    BY <1>6 DEF Places, Kinds
  <2>3. "accepted" \in Places /\ "set" \in Places
    BY DEF Places, Kinds
  <2>4. Partition(at', Open)
    BY <1>0, <1>6, <2>1, <2>2, <2>3, MoveOne
  <2>. QED BY <1>5, <2>4 DEF Partition
<1>8. NoneTwice'
  BY <1>1 DEF ServerInv, NoneTwice, working
<1>9. SessionsKnown'
  <2>1. fd \in Open
    BY <1>2, <1>0, <1>6, OnlyThere DEF Places, Kinds
  <2>2. session = Open \ Sent(pipe, "accepted") /\ clientsConnected = Cardinality(session)
    BY DEF ServerInv, SessionsKnown
  <2>3. IsFiniteSet(session) /\ fd \notin session
    BY <1>0, <1>2, <2>2, FdsAssumption, FS_Subset DEF TypeOK
  <2>4. Cardinality(session') = clientsConnected + 1
    BY <1>1, <2>2, <2>3, FS_AddElement
  <2>. QED BY <1>1, <1>2, <1>5, <2>1, <2>2, <2>4 DEF SessionsKnown
<1>10. SetWithinBound'
  BY <1>0, <1>1, <1>3, FdsAssumption DEF ServerInv, SetWithinBound, TypeOK
<1>11. UnreadWasAsked' /\ WaitersHaveAsked' /\ ClosedHaveGone'
  BY <1>1, <1>2 DEF ServerInv, UnreadWasAsked, WaitersHaveAsked, ClosedHaveGone, clients, locks
<1>12. ReadyUntilRead'
  BY <1>1, <1>6 DEF ServerInv, ReadyUntilRead, Readable, clients
<1>13. MainLeavesLast'
  BY <1>1, <1>2, MessageTaken, OrderIsKept DEF ServerInv, NewConnection
<1>. QED BY <1>4, <1>7, <1>8, <1>9, <1>10, <1>11, <1>12, <1>13 DEF ServerInv

\* A connection that ended is closed, and uncounted.
LEMMA ConnectionClosedKeepsInv ==
    ASSUME ServerInv, NEW fd \in Fds, NEW told \in SUBSET waiting, ConnectionClosed(fd, told)
    PROVE  ServerInv'
<1>0. TypeOK /\ Partition(at, Open) /\ at \in [Places -> SUBSET Fds]
  BY PlacesType DEF ServerInv
<1>1. /\ waiting' = waiting \ told /\ clientsToNotify' = clientsToNotify \cup told
      /\ session' = session \ {fd} /\ clientsConnected' = clientsConnected - 1
      /\ client' = [client EXCEPT ![fd] = "none"]
      /\ UNCHANGED <<main, signals, select, hand, working, notifier, requestQueue, closed, unread,
                     selectExit, set, _maxFds>>
      /\ rdset' = rdset \ {0}
      /\ pipe' \in Seq(Messages) /\ NoMessageTwice(pipe') /\ TerminateIsLast(pipe')
  BY MessageTaken DEF ConnectionClosed
<1>2. /\ Sent(pipe', "closed") = Sent(pipe, "closed") \ {fd} /\ fd \in Sent(pipe, "closed")
      /\ Sent(pipe', "restore") = Sent(pipe, "restore")
      /\ Sent(pipe', "accepted") = Sent(pipe, "accepted")
  BY MessageOfDescriptor DEF ConnectionClosed, Kinds
<1>3. client' \in [Fds -> {"none", "idle", "asked", "reset", "gone"}]
      /\ client'[fd] = "none" /\ \A d \in Fds \ {fd} : client'[d] = client[d]
  BY <1>0, <1>1 DEF TypeOK
<1>4. fd \in Open /\ \A p \in Places \ {"closed"} : fd \notin at[p]
  <2>1. fd \in at.closed /\ "closed" \in Places
    BY <1>2 DEF at, Places, Kinds
  <2>. QED BY <1>0, <2>1, OnlyThere
<1>5. /\ fd \notin at.accepted /\ fd \notin at.set /\ fd \notin at.hand /\ fd \notin at.queue
      /\ fd \notin at.worker /\ fd \notin at.waiting /\ fd \notin at.to_notify
  BY <1>4 DEF Places, Kinds
<1>6. session = Open \ Sent(pipe, "accepted") /\ clientsConnected = Cardinality(session)
  BY DEF ServerInv, SessionsKnown
<1>7. fd \in session
  BY <1>4, <1>5, <1>6 DEF at
<1>8. clientsConnected' \in Nat /\ clientsConnected' = Cardinality(session')
  <2>1. IsFiniteSet(session)
    BY <1>0, FdsAssumption, FS_Subset DEF TypeOK
  <2>2. IsFiniteSet(session') /\ Cardinality(session') = Cardinality(session) - 1
    BY <1>1, <1>7, <2>1, FS_RemoveElement
  <2>. QED BY <1>1, <1>6, <2>2, FS_CardinalityType
<1>9. TypeOK'
  <2>1. pipe' \in Seq({"closed", "restore", "accepted"} \X Fds \cup {<<"terminate", 0>>})
    BY <1>1 DEF Messages, Kinds
  <2>2. waiting' \subseteq Fds /\ clientsToNotify' \subseteq Fds /\ rdset' \subseteq Fds \cup {0}
        /\ session' \subseteq Fds
    BY <1>0, <1>1 DEF TypeOK
  <2>. QED BY <1>0, <1>1, <1>3, <1>8, <2>1, <2>2 DEF TypeOK, working, signals
<1>10. Open' = Open \ {fd}
  BY <1>3 DEF Open
<1>11. Partition(at, Open)'
  <2>. DEFINE B == [at EXCEPT !.waiting = @ \ told, !.to_notify = @ \cup told]
  <2>1. /\ B \in [Places -> SUBSET Fds] /\ B.waiting = at.waiting \ told
        /\ B.to_notify = at.to_notify \cup told /\ told \in SUBSET at.waiting
        /\ \A p \in Places \ {"waiting", "to_notify"} : B[p] = at[p]
    <3>1. told \in SUBSET Fds /\ told \in SUBSET at.waiting
      BY <1>0 DEF TypeOK, at
    <3>. HIDE DEF at
    <3>. QED BY <1>0, <3>1 DEF Places, Kinds
  <2>. HIDE DEF B
  <2>2. "waiting" \in Places /\ "to_notify" \in Places /\ "closed" \in Places
    BY DEF Places, Kinds
  <2>3. Partition(B, Open)
    BY <1>0, <2>1, <2>2, Move
  <2>4. /\ B.closed = at.closed /\ B.restore = at.restore /\ B.accepted = at.accepted
        /\ B.set = at.set /\ B.hand = at.hand /\ B.queue = at.queue /\ B.worker = at.worker
    BY <2>1 DEF Places, Kinds
  <2>5. /\ at'.closed = at.closed \ {fd} /\ at'.restore = at.restore /\ at'.accepted = at.accepted
        /\ at'.set = at.set /\ at'.hand = at.hand /\ at'.queue = at.queue
        /\ at'.worker = at.worker /\ at'.waiting = at.waiting \ told
        /\ at'.to_notify = at.to_notify \cup told /\ fd \in at.closed
    BY <1>1, <1>2 DEF at, working
  <2>6. at' \in [Places -> SUBSET Fds]
    BY <1>9 DEF at, Places, Kinds, Sent, Queued, TypeOK
  <2>7. /\ \A p \in Places \ {"closed"} : at'[p] = B[p]
        /\ at'.closed = B.closed \ {fd} /\ fd \in B.closed
    BY <2>1, <2>4, <2>5 DEF Places, Kinds
  <2>8. Partition(at', Open \ {fd})
    BY <2>1, <2>2, <2>3, <2>6, <2>7, Leave
  <2>. QED BY <1>10, <2>8 DEF Partition
<1>12. NoneTwice' /\ SetWithinBound'
  BY <1>1 DEF ServerInv, NoneTwice, SetWithinBound, working
<1>13. SessionsKnown'
  BY <1>1, <1>2, <1>6, <1>8, <1>10 DEF SessionsKnown
<1>14. UnreadWasAsked'
  BY <1>1, <1>2, <1>3 DEF ServerInv, UnreadWasAsked, ClosedHaveGone
<1>15. WaitersHaveAsked'
  <2>1. fd \notin waiting /\ fd \notin clientsToNotify
    BY <1>5 DEF at
  <2>. QED BY <1>0, <1>1, <1>3, <2>1 DEF ServerInv, WaitersHaveAsked, TypeOK
<1>16. ClosedHaveGone'
  BY <1>1, <1>2, <1>3 DEF ServerInv, ClosedHaveGone, Sent
<1>17. ReadyUntilRead'
  <2>1. \A d \in Fds \ {fd} : Readable(d) => Readable(d)'
    BY <1>1, <1>3 DEF Readable
  <2>2. /\ rdset \subseteq Fds \cup {0} /\ at.hand \cup at.queue \cup at.worker \subseteq Fds
        /\ rdset \ {0} \subseteq set /\ fd \notin set
    BY <1>0, <1>5 DEF ServerInv, ReadyUntilRead, TypeOK, at, Queued
  <2>3. at'.hand = at.hand /\ at'.queue = at.queue /\ at'.worker = at.worker
    BY <1>1 DEF at, working
  <2>. QED BY <1>1, <1>5, <2>1, <2>2, <2>3 DEF ServerInv, ReadyUntilRead
<1>18. MainLeavesLast'
  BY <1>1, <1>2, MessageTaken, OrderIsKept DEF ServerInv, ConnectionClosed
<1>. QED BY <1>9, <1>11, <1>12, <1>13, <1>14, <1>15, <1>16, <1>17, <1>18 DEF ServerInv

\* The bound still reaches what is watched when it is computed anew.
LEMMA DispatchKeepsInv ==
    ASSUME ServerInv, NEW fd \in Fds, Dispatch(fd)
    PROVE  ServerInv'
<1>. DEFINE below == {0} \cup {d \in Open : d <= _maxFds}
<1>0. TypeOK /\ Partition(at, Open) /\ at \in [Places -> SUBSET Fds]
  BY PlacesType DEF ServerInv
<1>1. /\ select = "dispatching" /\ fd \in rdset /\ select' = "inserting" /\ hand' = fd
      /\ rdset' = rdset \ {fd} /\ set' = set \ {fd} /\ _maxFds' = Max(below)
      /\ UNCHANGED <<main, signals, clients, session, clientsConnected, selectExit, working,
                     notifier, locks, pipe, requestQueue, closed>>
  BY DEF Dispatch
<1>2. below \in SUBSET Nat /\ below # {} /\ IsFiniteSet(below) /\ below \subseteq Fds \cup {0}
  <2>1. IsFiniteSet({d \in Open : d <= _maxFds})
    BY FdsAssumption, FS_Subset DEF Open
  <2>2. IsFiniteSet({d \in Open : d <= _maxFds} \cup {0})
    BY <2>1, FS_AddElement
  <2>3. below = {d \in Open : d <= _maxFds} \cup {0}
    OBVIOUS
  <2>4. IsFiniteSet(below)
    BY <2>2, <2>3
  <2>5. below \subseteq Fds \cup {0} /\ 0 \in below
    BY DEF Open
  <2>. HIDE DEF below
  <2>. QED BY <2>4, <2>5, FdsAssumption
<1>3. _maxFds' \in below /\ \A d \in below : _maxFds' >= d
  BY <1>1, <1>2, MaxIsGreatest
<1>. HIDE DEF below
<1>4. fd # 0 /\ hand = 0 /\ 0 \notin Fds
  BY <1>0, <1>1, FdsAssumption DEF TypeOK
<1>5. TypeOK'
  <2>1. _maxFds' \in Fds \cup {0} /\ rdset' \subseteq Fds \cup {0} /\ set' \subseteq Fds
    BY <1>0, <1>1, <1>2, <1>3 DEF TypeOK
  <2>. QED BY <1>0, <1>1, <1>4, <2>1 DEF TypeOK, clients, working, locks, signals
<1>6. fd \in set /\ Readable(fd)
  BY <1>1, <1>4 DEF ServerInv, ReadyUntilRead
<1>7. Open' = Open
  BY <1>1 DEF Open, clients
<1>8. /\ at'.closed = at.closed /\ at'.restore = at.restore /\ at'.accepted = at.accepted
      /\ at'.set = at.set \ {fd} /\ at'.hand = at.hand \cup {fd} /\ at'.queue = at.queue
      /\ at'.worker = at.worker /\ at'.waiting = at.waiting /\ at'.to_notify = at.to_notify
      /\ fd \in at.set
  BY <1>1, <1>4, <1>6 DEF at, working, locks
<1>9. Partition(at, Open)'
  <2>1. at' \in [Places -> SUBSET Fds]
    BY <1>5 DEF at, Places, Kinds, Sent, Queued, TypeOK
  <2>2. \A p \in Places \ {"set", "hand"} : at'[p] = at[p]
    BY <1>8 DEF Places, Kinds
  <2>3. "set" \in Places /\ "hand" \in Places
    BY DEF Places, Kinds
  <2>4. Partition(at', Open)
    BY <1>0, <1>8, <2>1, <2>2, <2>3, MoveOne
  <2>. QED BY <1>7, <2>4 DEF Partition
<1>10. NoneTwice' /\ SessionsKnown'
  BY <1>1, <1>7 DEF ServerInv, NoneTwice, SessionsKnown, working
<1>11. SetWithinBound'
  <2>1. ASSUME NEW d \in set
        PROVE  d <= _maxFds'
    <3>1. d \in Open
      <4>1. d \in at.set /\ d \in Fds /\ "set" \in Places
        BY <1>0 DEF TypeOK, at, Places
      <4>. QED BY <1>0, <4>1, OnlyThere
    <3>2. d <= _maxFds
      BY DEF ServerInv, SetWithinBound
    <3>3. d \in below
      BY <3>1, <3>2 DEF below
    <3>. QED BY <1>2, <1>3, <3>3
  <2>. QED BY <1>1, <2>1 DEF SetWithinBound
<1>12. UnreadWasAsked' /\ WaitersHaveAsked' /\ ClosedHaveGone'
  BY <1>1 DEF ServerInv, UnreadWasAsked, WaitersHaveAsked, ClosedHaveGone, clients, locks
<1>13. ReadyUntilRead'
  BY <1>1, <1>4, <1>6, <1>8 DEF ServerInv, ReadyUntilRead, Readable, clients
<1>14. MainLeavesLast'
  BY <1>1 DEF ServerInv, MainLeavesLast, signals
<1>. QED BY <1>5, <1>9, <1>10, <1>11, <1>12, <1>13, <1>14 DEF ServerInv

\* The descriptor in select's hand enters the queue to the workers.
LEMMA InsertRequestKeepsInv ==
    ASSUME ServerInv, InsertRequest
    PROVE  ServerInv'
<1>0. TypeOK /\ Partition(at, Open) /\ at \in [Places -> SUBSET Fds]
  BY PlacesType DEF ServerInv
<1>1. /\ select = "inserting" /\ Len(requestQueue) < QueueSize
      /\ requestQueue' = Append(requestQueue, hand) /\ select' = "dispatching" /\ hand' = 0
      /\ UNCHANGED <<main, signals, clients, session, clientsConnected, selectExit, set, _maxFds,
                     rdset, working, notifier, locks, pipe, closed>>
  BY DEF InsertRequest
<1>2. hand \in Fds /\ 0 \notin Fds /\ requestQueue \in Seq(Fds)
  BY <1>0, <1>1, FdsAssumption DEF TypeOK
<1>3. hand \in at.hand /\ hand \in Open /\ hand \notin at.queue
  <2>1. hand \in at.hand /\ "hand" \in Places /\ "queue" \in Places
    BY <1>2 DEF at, Places
  <2>. QED BY <1>0, <1>2, <2>1, OnlyThere
<1>4. /\ requestQueue' \in Seq(Fds) /\ Len(requestQueue') = Len(requestQueue) + 1
      /\ Queued(requestQueue') = Queued(requestQueue) \cup {hand}
      /\ \A i, j \in DOMAIN requestQueue' : requestQueue'[i] = requestQueue'[j] => i = j
  <2>1. hand \notin Queued(requestQueue)
    BY <1>3 DEF at
  <2>. QED BY <1>1, <1>2, <2>1, PutInQueue DEF ServerInv, NoneTwice
<1>5. TypeOK'
  BY <1>0, <1>1, <1>4, QueueSizeAssumption DEF TypeOK, clients, working, locks, signals
<1>6. Open' = Open
  BY <1>1 DEF Open, clients
<1>7. /\ at'.closed = at.closed /\ at'.restore = at.restore /\ at'.accepted = at.accepted
      /\ at'.set = at.set /\ at'.hand = at.hand \ {hand} /\ at'.queue = at.queue \cup {hand}
      /\ at'.worker = at.worker /\ at'.waiting = at.waiting /\ at'.to_notify = at.to_notify
  BY <1>1, <1>2, <1>4 DEF at, working, locks
<1>8. Partition(at, Open)'
  <2>1. at' \in [Places -> SUBSET Fds]
    BY <1>5 DEF at, Places, Kinds, Sent, Queued, TypeOK
  <2>2. \A p \in Places \ {"hand", "queue"} : at'[p] = at[p]
    BY <1>7 DEF Places, Kinds
  <2>3. "hand" \in Places /\ "queue" \in Places
    BY DEF Places, Kinds
  <2>4. Partition(at', Open)
    BY <1>0, <1>3, <1>7, <2>1, <2>2, <2>3, MoveOne
  <2>. QED BY <1>6, <2>4 DEF Partition
<1>9. NoneTwice' /\ SessionsKnown' /\ SetWithinBound'
  BY <1>1, <1>4, <1>6 DEF ServerInv, NoneTwice, SessionsKnown, SetWithinBound, working
<1>10. UnreadWasAsked' /\ WaitersHaveAsked' /\ ClosedHaveGone'
  BY <1>1 DEF ServerInv, UnreadWasAsked, WaitersHaveAsked, ClosedHaveGone, clients, locks
<1>11. ReadyUntilRead'
  BY <1>1, <1>3, <1>7 DEF ServerInv, ReadyUntilRead, Readable, clients
<1>12. MainLeavesLast'
  BY <1>1 DEF ServerInv, MainLeavesLast, signals
<1>. QED BY <1>5, <1>8, <1>9, <1>10, <1>11, <1>12 DEF ServerInv

----------------------------------------------------------------------------
(* The workers and the notifier.                                           *)

\* The test at the head of a loop ends it or lets it go on.
LEMMA AfterTestType == AfterTest \in {"exited", "removing"}
BY DEF AfterTest

\* A worker leaves the descriptor it has, or takes one that no worker has.
LEMMA ServingOne ==
    ASSUME TypeOK, \A u, v \in Workers : serving[u] = serving[v] /\ serving[u] # 0 => u = v,
           NEW w \in Workers, NEW fd \in Fds \cup {0}, fd = 0 \/ \A v \in Workers : serving[v] # fd,
           serving' = [serving EXCEPT ![w] = fd]
    PROVE  /\ serving' \in [Workers -> Fds \cup {0}]
           /\ \A u, v \in Workers : serving'[u] = serving'[v] /\ serving'[u] # 0 => u = v
           /\ \A v \in Workers \ {w} : serving'[v] = serving[v]
           /\ serving'[w] = fd
BY DEF TypeOK

\* A worker takes a descriptor from the queue.
LEMMA PopKeepsInv ==
    ASSUME ServerInv, NEW w \in Workers, Pop(w)
    PROVE  ServerInv'
<1>. DEFINE fd == Head(requestQueue)
<1>0. TypeOK /\ Partition(at, Open) /\ at \in [Places -> SUBSET Fds] /\ requestQueue \in Seq(Fds)
  BY PlacesType DEF ServerInv, TypeOK
<1>1. /\ worker[w] = "removing" /\ worker' = [worker EXCEPT ![w] = "reading"]
      /\ requestQueue # << >>
      /\ serving' = [serving EXCEPT ![w] = fd] /\ requestQueue' = Tail(requestQueue)
      /\ UNCHANGED <<main, signals, selecting, notifier, closed, client, unread, locks, pipe>>
  BY DEF Pop, WorkerGoes
<1>2. /\ requestQueue' \in Seq(Fds) /\ Len(requestQueue') = Len(requestQueue) - 1
      /\ fd \in Queued(requestQueue) /\ Queued(requestQueue') = Queued(requestQueue) \ {fd}
      /\ \A i, j \in DOMAIN requestQueue' : requestQueue'[i] = requestQueue'[j] => i = j
  BY <1>0, <1>1, TakeFromQueue DEF ServerInv, NoneTwice
<1>. HIDE DEF fd
<1>3. fd \in Fds /\ fd # 0 /\ fd \in at.queue /\ fd \notin at.worker
  <2>1. fd \in Fds /\ fd \in at.queue /\ "queue" \in Places /\ "worker" \in Places
    BY <1>2 DEF at, Places, Queued
  <2>. QED BY <1>0, <2>1, OnlyThere, FdsAssumption
<1>4. \A v \in Workers : serving[v] # fd
  BY <1>3 DEF at
<1>5. /\ serving' \in [Workers -> Fds \cup {0}] /\ serving'[w] = fd
      /\ \A u, v \in Workers : serving'[u] = serving'[v] /\ serving'[u] # 0 => u = v
      /\ \A v \in Workers \ {w} : serving'[v] = serving[v]
  BY <1>0, <1>1, <1>3, <1>4, ServingOne DEF ServerInv, NoneTwice
<1>6. serving[w] = 0
  BY <1>0, <1>1 DEF TypeOK
<1>7. TypeOK'
  <2>1. worker' \in [Workers -> {"testing", "removing", "reading", "exited"}]
        /\ \A v \in Workers : serving'[v] # 0 <=> worker'[v] = "reading"
    BY <1>0, <1>1, <1>3, <1>5 DEF TypeOK
  <2>2. Len(requestQueue') <= QueueSize
    BY <1>0, <1>2, QueueSizeAssumption DEF TypeOK
  <2>. QED BY <1>0, <1>1, <1>2, <1>5, <2>1, <2>2 DEF TypeOK, selecting, locks, signals
<1>8. Open' = Open
  BY <1>1 DEF Open
<1>9. /\ at'.closed = at.closed /\ at'.restore = at.restore /\ at'.accepted = at.accepted
      /\ at'.set = at.set /\ at'.hand = at.hand /\ at'.queue = at.queue \ {fd}
      /\ at'.worker = at.worker \cup {fd} /\ at'.waiting = at.waiting
      /\ at'.to_notify = at.to_notify
  <2>1. at'.worker = at.worker \cup {fd}
    BY <1>3, <1>5, <1>6, FdsAssumption DEF at
  <2>. QED BY <1>1, <1>2, <2>1 DEF at, selecting, locks
<1>10. Partition(at, Open)'
  <2>1. at' \in [Places -> SUBSET Fds]
    BY <1>7 DEF at, Places, Kinds, Sent, Queued, TypeOK
  <2>2. \A p \in Places \ {"queue", "worker"} : at'[p] = at[p]
    BY <1>9 DEF Places, Kinds
  <2>3. "queue" \in Places /\ "worker" \in Places
    BY DEF Places, Kinds
  <2>4. Partition(at', Open)
    BY <1>0, <1>3, <1>9, <2>1, <2>2, <2>3, MoveOne
  <2>. QED BY <1>8, <2>4 DEF Partition
<1>11. NoneTwice' /\ SessionsKnown' /\ SetWithinBound'
  BY <1>1, <1>2, <1>5, <1>8 DEF ServerInv, NoneTwice, SessionsKnown, SetWithinBound, selecting
<1>12. UnreadWasAsked' /\ WaitersHaveAsked' /\ ClosedHaveGone'
  BY <1>1 DEF ServerInv, UnreadWasAsked, WaitersHaveAsked, ClosedHaveGone, locks
<1>13. ReadyUntilRead'
  BY <1>1, <1>3, <1>9 DEF ServerInv, ReadyUntilRead, Readable, selecting
<1>14. MainLeavesLast'
  BY <1>1 DEF ServerInv, MainLeavesLast, signals, selecting
<1>. QED BY <1>7, <1>10, <1>11, <1>12, <1>13, <1>14 DEF ServerInv

\* A worker looks at the flag.
LEMMA TestThreadExitKeepsInv ==
    ASSUME ServerInv, NEW w \in Workers, TestThreadExit(w)
    PROVE  ServerInv'
<1>1. /\ worker[w] = "testing" /\ worker' = [worker EXCEPT ![w] = AfterTest]
      /\ UNCHANGED <<main, signals, selecting, notifier, closed, clients, serving, locks, pipe,
                     requestQueue>>
  BY DEF TestThreadExit, WorkerGoes, clients
<1>2. TypeOK'
  BY <1>1, AfterTestType DEF ServerInv, TypeOK, selecting, clients, locks, signals
<1>3. ReadyUntilRead'
  BY <1>1, ReadinessIsKept DEF selecting
<1>4. MainLeavesLast'
  BY <1>1 DEF ServerInv, MainLeavesLast, signals, selecting
<1>. QED BY <1>1, <1>2, <1>3, <1>4, ElsewhereKeepsInv DEF selecting

\* A worker finds the queue closed.
LEMMA PopClosedKeepsInv ==
    ASSUME ServerInv, NEW w \in Workers, PopClosed(w)
    PROVE  ServerInv'
<1>1. /\ worker[w] = "removing" /\ worker' = [worker EXCEPT ![w] = "testing"]
      /\ UNCHANGED <<main, signals, selecting, notifier, closed, clients, serving, locks, pipe,
                     requestQueue>>
  BY DEF PopClosed, WorkerGoes, clients
<1>2. TypeOK'
  BY <1>1 DEF ServerInv, TypeOK, selecting, clients, locks, signals
<1>3. ReadyUntilRead'
  BY <1>1, ReadinessIsKept DEF selecting
<1>4. MainLeavesLast'
  BY <1>1 DEF ServerInv, MainLeavesLast, signals, selecting
<1>. QED BY <1>1, <1>2, <1>3, <1>4, ElsewhereKeepsInv DEF selecting

\* What a worker does with the descriptor it has, when it is done with it.
LEMMA WorkerIsDone ==
    ASSUME ServerInv, NEW w \in Workers, WorkerGoes(w, "reading", "testing"),
           serving' = [serving EXCEPT ![w] = 0]
    PROVE  /\ serving[w] \in Fds /\ serving[w] \in at.worker /\ serving[w] \in Open
           /\ \A p \in Places \ {"worker"} : serving[w] \notin at[p]
           /\ at'.worker = at.worker \ {serving[w]}
           /\ worker' \in [Workers -> {"testing", "removing", "reading", "exited"}]
           /\ serving' \in [Workers -> Fds \cup {0}]
           /\ \A v \in Workers : serving'[v] # 0 <=> worker'[v] = "reading"
           /\ \A u, v \in Workers : serving'[u] = serving'[v] /\ serving'[u] # 0 => u = v
<1>0. TypeOK /\ Partition(at, Open)
      /\ \A u, v \in Workers : serving[u] = serving[v] /\ serving[u] # 0 => u = v
  BY DEF ServerInv, NoneTwice
<1>1. worker[w] = "reading" /\ worker' = [worker EXCEPT ![w] = "testing"]
  BY DEF WorkerGoes
<1>2. serving[w] \in Fds /\ serving[w] # 0
  BY <1>0, <1>1 DEF TypeOK
<1>3. serving[w] \in at.worker /\ "worker" \in Places
  BY <1>2 DEF at, Places
<1>4. serving[w] \in Open /\ \A p \in Places \ {"worker"} : serving[w] \notin at[p]
  BY <1>0, <1>2, <1>3, OnlyThere
<1>5. /\ serving' \in [Workers -> Fds \cup {0}] /\ serving'[w] = 0
      /\ \A u, v \in Workers : serving'[u] = serving'[v] /\ serving'[u] # 0 => u = v
      /\ \A v \in Workers \ {w} : serving'[v] = serving[v]
  BY <1>0, ServingOne
<1>6. at'.worker = at.worker \ {serving[w]}
  BY <1>0, <1>2, <1>5, FdsAssumption DEF at
<1>7. /\ worker' \in [Workers -> {"testing", "removing", "reading", "exited"}]
      /\ \A v \in Workers : serving'[v] # 0 <=> worker'[v] = "reading"
  BY <1>0, <1>1, <1>5 DEF TypeOK
<1>. QED BY <1>2, <1>3, <1>4, <1>5, <1>6, <1>7

\* A message of a descriptor that the pipe holds no message of.
LEMMA OneMessageMore ==
    ASSUME ServerInv, NEW kind \in Kinds, NEW fd \in Fds, writeToPipe(kind, fd),
           fd \notin at.closed \cup at.restore \cup at.accepted
    PROVE  /\ pipe' \in Seq(Messages) /\ pipe' # << >> /\ NoMessageTwice(pipe')
           /\ Sent(pipe', kind) = Sent(pipe, kind) \cup {fd}
           /\ \A k \in Kinds \ {kind} : Sent(pipe', k) = Sent(pipe, k)
<1>1. pipe \in Seq(Messages) /\ NoMessageTwice(pipe) /\ pipe' = Append(pipe, <<kind, fd>>)
  BY PipeType DEF ServerInv, NoneTwice, writeToPipe
<1>2. \A k \in Kinds : fd \notin Sent(pipe, k)
  BY DEF Kinds, at
<1>. QED BY <1>1, <1>2, SendMessage

\* A message other than a termination, sent before main has left, keeps TerminateIsLast.
LEMMA OneMessageMoreInOrder ==
    ASSUME ServerInv, NEW kind \in Kinds \ {"accepted"}, NEW fd \in Fds, writeToPipe(kind, fd),
           fd \notin at.closed \cup at.restore \cup at.accepted,
           UNCHANGED <<main, signals, selectExit>>
    PROVE  MainLeavesLast'
<1>1. /\ pipe \in Seq(Messages) /\ TerminateIsLast(pipe) /\ pipe' = Append(pipe, <<kind, fd>>)
      /\ <<kind, fd>> \in Messages /\ kind # "terminate"
  BY PipeType DEF ServerInv, MainLeavesLast, writeToPipe, Messages, Kinds
<1>2. /\ TerminateIsLast(pipe')
      /\ (\E i \in DOMAIN pipe' : pipe'[i][1] = "terminate") =>
             \E i \in DOMAIN pipe : pipe[i][1] = "terminate"
  BY <1>1, SendInOrder
<1>3. Sent(pipe', "accepted") = Sent(pipe, "accepted")
  BY OneMessageMore DEF Kinds
<1>. QED BY <1>2, <1>3, OrderIsKept DEF ServerInv

\* A worker's read fails: the descriptor goes back to be watched again.
LEMMA ReadFailsKeepsInv ==
    ASSUME ServerInv, NEW w \in Workers, ReadFails(w)
    PROVE  ServerInv'
<1>. DEFINE fd == serving[w]
<1>0. TypeOK /\ Partition(at, Open) /\ at \in [Places -> SUBSET Fds]
  BY PlacesType DEF ServerInv
<1>1. /\ WorkerGoes(w, "reading", "testing") /\ serving' = [serving EXCEPT ![w] = 0]
      /\ writeToPipe("restore", fd)
      /\ UNCHANGED <<main, signals, selecting, notifier, closed, unread, locks, requestQueue>>
  BY DEF ReadFails, WorkerGoes
<1>2. /\ fd \in Fds /\ fd \in at.worker /\ fd \in Open
      /\ \A p \in Places \ {"worker"} : fd \notin at[p]
      /\ at'.worker = at.worker \ {fd}
      /\ worker' \in [Workers -> {"testing", "removing", "reading", "exited"}]
      /\ serving' \in [Workers -> Fds \cup {0}]
      /\ \A v \in Workers : serving'[v] # 0 <=> worker'[v] = "reading"
      /\ \A u, v \in Workers : serving'[u] = serving'[v] /\ serving'[u] # 0 => u = v
  BY <1>1, WorkerIsDone
<1>3. /\ client' \in [Fds -> {"none", "idle", "asked", "reset", "gone"}]
      /\ client[fd] = "reset" /\ ~unread[fd] /\ client'[fd] = "gone"
      /\ \A d \in Fds \ {fd} : client'[d] = client[d]
  BY <1>0, <1>2 DEF ReadFails, TypeOK
<1>. HIDE DEF fd
<1>4. /\ fd \notin at.closed /\ fd \notin at.restore /\ fd \notin at.accepted
      /\ fd \notin at.set /\ fd \notin at.hand /\ fd \notin at.queue
      /\ fd \notin at.waiting /\ fd \notin at.to_notify
  BY <1>2 DEF Places, Kinds
<1>5. /\ pipe' \in Seq(Messages) /\ pipe' # << >> /\ NoMessageTwice(pipe')
      /\ Sent(pipe', "restore") = Sent(pipe, "restore") \cup {fd}
      /\ Sent(pipe', "closed") = Sent(pipe, "closed")
      /\ Sent(pipe', "accepted") = Sent(pipe, "accepted")
  BY <1>1, <1>2, <1>4, OneMessageMore DEF Kinds
<1>6. TypeOK'
  <2>1. pipe' \in Seq({"closed", "restore", "accepted"} \X Fds \cup {<<"terminate", 0>>})
    BY <1>5 DEF Messages, Kinds
  <2>. QED BY <1>0, <1>1, <1>2, <1>3, <2>1 DEF TypeOK, selecting, locks, signals
<1>7. Open' = Open
  BY <1>0, <1>2, <1>3 DEF Open
<1>8. /\ at'.restore = at.restore \cup {fd} /\ at'.closed = at.closed
      /\ at'.accepted = at.accepted
      /\ at'.set = at.set /\ at'.hand = at.hand /\ at'.queue = at.queue
      /\ at'.worker = at.worker \ {fd} /\ at'.waiting = at.waiting
      /\ at'.to_notify = at.to_notify
  BY <1>1, <1>2, <1>5 DEF at, selecting, locks
<1>9. Partition(at, Open)'
  <2>1. at' \in [Places -> SUBSET Fds]
    BY <1>6 DEF at, Places, Kinds, Sent, Queued, TypeOK
  <2>2. \A p \in Places \ {"worker", "restore"} : at'[p] = at[p]
    BY <1>8 DEF Places, Kinds
  <2>3. "worker" \in Places /\ "restore" \in Places
    BY DEF Places, Kinds
  <2>4. Partition(at', Open)
    BY <1>0, <1>2, <1>8, <2>1, <2>2, <2>3, MoveOne
  <2>. QED BY <1>7, <2>4 DEF Partition
<1>10. NoneTwice' /\ SessionsKnown' /\ SetWithinBound'
  BY <1>1, <1>2, <1>5, <1>7 DEF ServerInv, NoneTwice, SessionsKnown, SetWithinBound, selecting
<1>11. UnreadWasAsked'
  BY <1>1, <1>3 DEF ServerInv, UnreadWasAsked
<1>12. WaitersHaveAsked' /\ ClosedHaveGone'
  <2>1. fd \notin waiting /\ fd \notin clientsToNotify /\ fd \notin Sent(pipe, "closed")
    BY <1>4 DEF at
  <2>. QED BY <1>0, <1>1, <1>3, <1>5, <2>1 DEF ServerInv, WaitersHaveAsked, ClosedHaveGone,
     TypeOK, locks, Sent
<1>13. ReadyUntilRead'
  <2>1. \A d \in Fds : Readable(d) => Readable(d)'
    BY <1>1, <1>3 DEF Readable
  <2>2. rdset \subseteq Fds \cup {0} /\ at.hand \cup at.queue \cup at.worker \subseteq Fds
    BY <1>0 DEF TypeOK, at, Queued
  <2>. QED BY <1>1, <1>5, <1>8, <2>1, <2>2 DEF ServerInv, ReadyUntilRead, selecting
<1>14. MainLeavesLast'
  BY <1>1, <1>2, <1>4, OneMessageMoreInOrder DEF selecting, Kinds
<1>. QED BY <1>6, <1>9, <1>10, <1>11, <1>12, <1>13, <1>14 DEF ServerInv

\* A worker's read ends: the client has left, and its descriptor goes back as closed.
LEMMA ReadEndsKeepsInv ==
    ASSUME ServerInv, NEW w \in Workers, ReadEnds(w)
    PROVE  ServerInv'
<1>. DEFINE fd == serving[w]
<1>0. TypeOK /\ Partition(at, Open) /\ at \in [Places -> SUBSET Fds]
  BY PlacesType DEF ServerInv
<1>1. /\ WorkerGoes(w, "reading", "testing") /\ serving' = [serving EXCEPT ![w] = 0]
      /\ writeToPipe("closed", fd)
      /\ UNCHANGED <<main, signals, selecting, notifier, closed, unread, locks, requestQueue>>
  BY DEF ReadEnds, WorkerGoes
<1>2. /\ fd \in Fds /\ fd \in at.worker /\ fd \in Open
      /\ \A p \in Places \ {"worker"} : fd \notin at[p]
      /\ at'.worker = at.worker \ {fd}
      /\ worker' \in [Workers -> {"testing", "removing", "reading", "exited"}]
      /\ serving' \in [Workers -> Fds \cup {0}]
      /\ \A v \in Workers : serving'[v] # 0 <=> worker'[v] = "reading"
      /\ \A u, v \in Workers : serving'[u] = serving'[v] /\ serving'[u] # 0 => u = v
  BY <1>1, WorkerIsDone
<1>3. client[fd] = "gone" /\ ~unread[fd] /\ client' = client
  BY DEF ReadEnds
<1>. HIDE DEF fd
<1>4. /\ fd \notin at.closed /\ fd \notin at.restore /\ fd \notin at.accepted
      /\ fd \notin at.set /\ fd \notin at.hand /\ fd \notin at.queue
      /\ fd \notin at.waiting /\ fd \notin at.to_notify
  BY <1>2 DEF Places, Kinds
<1>5. /\ pipe' \in Seq(Messages) /\ pipe' # << >> /\ NoMessageTwice(pipe')
      /\ Sent(pipe', "closed") = Sent(pipe, "closed") \cup {fd}
      /\ Sent(pipe', "restore") = Sent(pipe, "restore")
      /\ Sent(pipe', "accepted") = Sent(pipe, "accepted")
  BY <1>1, <1>2, <1>4, OneMessageMore DEF Kinds
<1>6. TypeOK'
  <2>1. pipe' \in Seq({"closed", "restore", "accepted"} \X Fds \cup {<<"terminate", 0>>})
    BY <1>5 DEF Messages, Kinds
  <2>. QED BY <1>0, <1>1, <1>2, <1>3, <2>1 DEF TypeOK, selecting, locks, signals
<1>7. Open' = Open
  BY <1>0, <1>2, <1>3 DEF Open
<1>8. /\ at'.closed = at.closed \cup {fd} /\ at'.restore = at.restore
      /\ at'.accepted = at.accepted
      /\ at'.set = at.set /\ at'.hand = at.hand /\ at'.queue = at.queue
      /\ at'.worker = at.worker \ {fd} /\ at'.waiting = at.waiting
      /\ at'.to_notify = at.to_notify
  BY <1>1, <1>2, <1>5 DEF at, selecting, locks
<1>9. Partition(at, Open)'
  <2>1. at' \in [Places -> SUBSET Fds]
    BY <1>6 DEF at, Places, Kinds, Sent, Queued, TypeOK
  <2>2. \A p \in Places \ {"worker", "closed"} : at'[p] = at[p]
    BY <1>8 DEF Places, Kinds
  <2>3. "worker" \in Places /\ "closed" \in Places
    BY DEF Places, Kinds
  <2>4. Partition(at', Open)
    BY <1>0, <1>2, <1>8, <2>1, <2>2, <2>3, MoveOne
  <2>. QED BY <1>7, <2>4 DEF Partition
<1>10. NoneTwice' /\ SessionsKnown' /\ SetWithinBound'
  BY <1>1, <1>2, <1>5, <1>7 DEF ServerInv, NoneTwice, SessionsKnown, SetWithinBound, selecting
<1>11. UnreadWasAsked'
  BY <1>1, <1>3 DEF ServerInv, UnreadWasAsked
<1>12. WaitersHaveAsked' /\ ClosedHaveGone'
  <2>1. fd \notin waiting /\ fd \notin clientsToNotify /\ fd \notin Sent(pipe, "closed")
    BY <1>4 DEF at
  <2>. QED BY <1>0, <1>1, <1>3, <1>5, <2>1 DEF ServerInv, WaitersHaveAsked, ClosedHaveGone,
     TypeOK, locks, Sent
<1>13. ReadyUntilRead'
  <2>1. \A d \in Fds : Readable(d) => Readable(d)'
    BY <1>1, <1>3 DEF Readable
  <2>2. rdset \subseteq Fds \cup {0} /\ at.hand \cup at.queue \cup at.worker \subseteq Fds
    BY <1>0 DEF TypeOK, at, Queued
  <2>. QED BY <1>1, <1>5, <1>8, <2>1, <2>2 DEF ServerInv, ReadyUntilRead, selecting
<1>14. MainLeavesLast'
  BY <1>1, <1>2, <1>4, OneMessageMoreInOrder DEF selecting, Kinds
<1>. QED BY <1>6, <1>9, <1>10, <1>11, <1>12, <1>13, <1>14 DEF ServerInv

\* A worker answers: the descriptor goes back, and so may others leave the waiting queues.
LEMMA ServeKeepsInv ==
    ASSUME ServerInv, NEW w \in Workers, NEW told \in SUBSET waiting, Serve(w, told)
    PROVE  ServerInv'
<1>. DEFINE fd == serving[w]
<1>0. TypeOK /\ Partition(at, Open) /\ at \in [Places -> SUBSET Fds]
  BY PlacesType DEF ServerInv
<1>1. /\ WorkerGoes(w, "reading", "testing") /\ serving' = [serving EXCEPT ![w] = 0]
      /\ unread[fd] /\ unread' = [unread EXCEPT ![fd] = FALSE]
      /\ clientsToNotify' = clientsToNotify \cup told
      /\ UNCHANGED <<main, signals, selecting, notifier, closed, requestQueue>>
      /\ waiting' = waiting \ told /\ writeToPipe("restore", fd) /\ Answered(fd)
  BY DEF Serve, Performed, WorkerGoes
<1>2. /\ fd \in Fds /\ fd \in at.worker /\ fd \in Open
      /\ \A p \in Places \ {"worker"} : fd \notin at[p]
      /\ at'.worker = at.worker \ {fd}
      /\ worker' \in [Workers -> {"testing", "removing", "reading", "exited"}]
      /\ serving' \in [Workers -> Fds \cup {0}]
      /\ \A v \in Workers : serving'[v] # 0 <=> worker'[v] = "reading"
      /\ \A u, v \in Workers : serving'[u] = serving'[v] /\ serving'[u] # 0 => u = v
  BY <1>1, WorkerIsDone
<1>3. /\ client[fd] \in {"asked", "gone"}
      /\ unread' \in [Fds -> BOOLEAN] /\ ~unread'[fd]
      /\ \A d \in Fds \ {fd} : unread'[d] = unread[d]
  BY <1>0, <1>1, <1>2 DEF TypeOK, ServerInv, UnreadWasAsked
<1>4. /\ client' \in [Fds -> {"none", "idle", "asked", "reset", "gone"}]
      /\ client'[fd] \in {"idle", "gone"} /\ \A d \in Fds \ {fd} : client'[d] = client[d]
  BY <1>0, <1>1, <1>2, <1>3 DEF TypeOK, Answered
<1>. HIDE DEF fd
<1>5. /\ fd \notin at.closed /\ fd \notin at.restore /\ fd \notin at.accepted
      /\ fd \notin at.set /\ fd \notin at.hand /\ fd \notin at.queue
      /\ fd \notin at.waiting /\ fd \notin at.to_notify
  BY <1>2 DEF Places, Kinds
<1>6. /\ pipe' \in Seq(Messages) /\ NoMessageTwice(pipe') /\ (pipe # << >> => pipe' # << >>)
      /\ Sent(pipe', "restore") = Sent(pipe, "restore") \cup {fd}
      /\ Sent(pipe', "closed") = Sent(pipe, "closed")
      /\ Sent(pipe', "accepted") = Sent(pipe, "accepted")
  BY <1>1, <1>2, <1>5, OneMessageMore DEF Kinds
<1>7. TypeOK'
  <2>1. waiting' \subseteq Fds /\ clientsToNotify' \subseteq Fds
    BY <1>0, <1>1, <1>2 DEF TypeOK
  <2>2. pipe' \in Seq({"closed", "restore", "accepted"} \X Fds \cup {<<"terminate", 0>>})
    BY <1>0, <1>6 DEF Messages, Kinds, TypeOK
  <2>. QED BY <1>0, <1>1, <1>2, <1>3, <1>4, <2>1, <2>2 DEF TypeOK, selecting, signals
<1>8. Open' = Open
  BY <1>0, <1>2, <1>3, <1>4 DEF Open
<1>9. /\ at'.closed = at.closed /\ at'.accepted = at.accepted
      /\ at'.restore = at.restore \cup {fd}
      /\ at'.set = at.set /\ at'.hand = at.hand /\ at'.queue = at.queue
      /\ at'.worker = at.worker \ {fd} /\ at'.waiting = at.waiting \ told
      /\ at'.to_notify = at.to_notify \cup told
  BY <1>1, <1>2, <1>6 DEF at, selecting
<1>10. Partition(at, Open)'
  <2>. DEFINE B == [at EXCEPT !.waiting = @ \ told, !.to_notify = @ \cup told]
  <2>1. /\ B \in [Places -> SUBSET Fds] /\ B.waiting = at.waiting \ told
        /\ B.to_notify = at.to_notify \cup told /\ told \in SUBSET at.waiting
        /\ \A p \in Places \ {"waiting", "to_notify"} : B[p] = at[p]
    <3>1. told \in SUBSET Fds /\ told \in SUBSET at.waiting
      BY <1>0 DEF TypeOK, at
    <3>. HIDE DEF at
    <3>. QED BY <1>0, <3>1 DEF Places, Kinds
  <2>. HIDE DEF B
  <2>2. "waiting" \in Places /\ "to_notify" \in Places /\ "worker" \in Places
        /\ "restore" \in Places
    BY DEF Places, Kinds
  <2>3. Partition(B, Open)
    BY <1>0, <2>1, <2>2, Move
  <2>4. /\ B.closed = at.closed /\ B.restore = at.restore /\ B.accepted = at.accepted
        /\ B.set = at.set /\ B.hand = at.hand /\ B.queue = at.queue /\ B.worker = at.worker
    BY <2>1 DEF Places, Kinds
  <2>5. at' \in [Places -> SUBSET Fds]
    BY <1>7 DEF at, Places, Kinds, Sent, Queued, TypeOK
  <2>6. /\ \A p \in Places \ {"worker", "restore"} : at'[p] = B[p]
        /\ at'.worker = B.worker \ {fd} /\ fd \in B.worker /\ at'.restore = B.restore \cup {fd}
    BY <1>2, <1>9, <2>1, <2>4 DEF Places, Kinds
  <2>7. Partition(at', Open)
    BY <2>1, <2>2, <2>3, <2>5, <2>6, MoveOne
  <2>. QED BY <1>8, <2>7 DEF Partition
<1>11. NoneTwice' /\ SessionsKnown' /\ SetWithinBound'
  BY <1>1, <1>2, <1>6, <1>8 DEF ServerInv, NoneTwice, SessionsKnown, SetWithinBound, selecting
<1>12. UnreadWasAsked'
  BY <1>3, <1>4 DEF ServerInv, UnreadWasAsked
<1>13. WaitersHaveAsked'
  <2>1. fd \notin waiting /\ fd \notin clientsToNotify
    BY <1>5 DEF at
  <2>2. waiting' \cup clientsToNotify' = waiting \cup clientsToNotify
    BY <1>1
  <2>. QED BY <1>0, <1>3, <1>4, <2>1, <2>2 DEF ServerInv, WaitersHaveAsked, TypeOK
<1>14. ClosedHaveGone'
  <2>1. fd \notin Sent(pipe, "closed")
    BY <1>5 DEF at
  <2>. QED BY <1>3, <1>4, <1>6, <2>1 DEF ServerInv, ClosedHaveGone, Sent
<1>15. ReadyUntilRead'
  <2>1. \A d \in Fds \ {fd} : Readable(d) => Readable(d)'
    BY <1>3, <1>4 DEF Readable
  <2>2. /\ rdset \subseteq Fds \cup {0} /\ at.hand \cup at.queue \cup at.worker \subseteq Fds
        /\ rdset \ {0} \subseteq set /\ fd \notin set
    BY <1>0, <1>5 DEF ServerInv, ReadyUntilRead, TypeOK, at, Queued
  <2>. QED BY <1>1, <1>5, <1>6, <1>9, <2>1, <2>2 DEF ServerInv, ReadyUntilRead, selecting
<1>16. MainLeavesLast'
  BY <1>1, <1>2, <1>5, OneMessageMoreInOrder DEF selecting, Kinds
<1>. QED BY <1>7, <1>10, <1>11, <1>12, <1>13, <1>14, <1>15, <1>16 DEF ServerInv

\* A worker leaves a request in a waiting queue: its descriptor stays with it.
LEMMA QueueKeepsInv ==
    ASSUME ServerInv, NEW w \in Workers, NEW told \in SUBSET waiting, Queue(w, told)
    PROVE  ServerInv'
<1>. DEFINE fd == serving[w]
<1>0. TypeOK /\ Partition(at, Open) /\ at \in [Places -> SUBSET Fds]
  BY PlacesType DEF ServerInv
<1>1. /\ WorkerGoes(w, "reading", "testing") /\ serving' = [serving EXCEPT ![w] = 0]
      /\ unread[fd] /\ unread' = [unread EXCEPT ![fd] = FALSE]
      /\ clientsToNotify' = clientsToNotify \cup told
      /\ UNCHANGED <<main, signals, selecting, notifier, closed, requestQueue>>
      /\ waiting' = (waiting \ told) \cup {fd} /\ UNCHANGED <<client, pipe>>
  BY DEF Queue, Performed, WorkerGoes
<1>2. /\ fd \in Fds /\ fd \in at.worker /\ fd \in Open
      /\ \A p \in Places \ {"worker"} : fd \notin at[p]
      /\ at'.worker = at.worker \ {fd}
      /\ worker' \in [Workers -> {"testing", "removing", "reading", "exited"}]
      /\ serving' \in [Workers -> Fds \cup {0}]
      /\ \A v \in Workers : serving'[v] # 0 <=> worker'[v] = "reading"
      /\ \A u, v \in Workers : serving'[u] = serving'[v] /\ serving'[u] # 0 => u = v
  BY <1>1, WorkerIsDone
<1>3. /\ client[fd] \in {"asked", "gone"}
      /\ unread' \in [Fds -> BOOLEAN] /\ ~unread'[fd]
      /\ \A d \in Fds \ {fd} : unread'[d] = unread[d]
  BY <1>0, <1>1, <1>2 DEF TypeOK, ServerInv, UnreadWasAsked
<1>4. client' = client
  BY <1>1
<1>. HIDE DEF fd
<1>5. /\ fd \notin at.closed /\ fd \notin at.restore /\ fd \notin at.accepted
      /\ fd \notin at.set /\ fd \notin at.hand /\ fd \notin at.queue
      /\ fd \notin at.waiting /\ fd \notin at.to_notify
  BY <1>2 DEF Places, Kinds
<1>6. pipe' = pipe /\ pipe \in Seq(Messages) /\ NoMessageTwice(pipe)
  BY <1>1, PipeType DEF ServerInv, NoneTwice
<1>7. TypeOK'
  <2>1. waiting' \subseteq Fds /\ clientsToNotify' \subseteq Fds
    BY <1>0, <1>1, <1>2 DEF TypeOK
  <2>2. pipe' \in Seq({"closed", "restore", "accepted"} \X Fds \cup {<<"terminate", 0>>})
    BY <1>0, <1>6 DEF Messages, Kinds, TypeOK
  <2>. QED BY <1>0, <1>1, <1>2, <1>3, <1>4, <2>1, <2>2 DEF TypeOK, selecting, signals
<1>8. Open' = Open
  BY <1>0, <1>2, <1>3, <1>4 DEF Open
<1>9. /\ at'.closed = at.closed /\ at'.accepted = at.accepted /\ at'.restore = at.restore
      /\ at'.set = at.set /\ at'.hand = at.hand /\ at'.queue = at.queue
      /\ at'.worker = at.worker \ {fd} /\ at'.waiting = (at.waiting \ told) \cup {fd}
      /\ at'.to_notify = at.to_notify \cup told
  BY <1>1, <1>2, <1>6 DEF at, selecting
<1>10. Partition(at, Open)'
  <2>. DEFINE B == [at EXCEPT !.waiting = @ \ told, !.to_notify = @ \cup told]
  <2>1. /\ B \in [Places -> SUBSET Fds] /\ B.waiting = at.waiting \ told
        /\ B.to_notify = at.to_notify \cup told /\ told \in SUBSET at.waiting
        /\ \A p \in Places \ {"waiting", "to_notify"} : B[p] = at[p]
    <3>1. told \in SUBSET Fds /\ told \in SUBSET at.waiting
      BY <1>0 DEF TypeOK, at
    <3>. HIDE DEF at
    <3>. QED BY <1>0, <3>1 DEF Places, Kinds
  <2>. HIDE DEF B
  <2>2. "waiting" \in Places /\ "to_notify" \in Places /\ "worker" \in Places
        /\ "restore" \in Places
    BY DEF Places, Kinds
  <2>3. Partition(B, Open)
    BY <1>0, <2>1, <2>2, Move
  <2>4. /\ B.closed = at.closed /\ B.restore = at.restore /\ B.accepted = at.accepted
        /\ B.set = at.set /\ B.hand = at.hand /\ B.queue = at.queue /\ B.worker = at.worker
    BY <2>1 DEF Places, Kinds
  <2>5. at' \in [Places -> SUBSET Fds]
    BY <1>7 DEF at, Places, Kinds, Sent, Queued, TypeOK
  <2>6. /\ \A p \in Places \ {"worker", "waiting"} : at'[p] = B[p]
        /\ at'.worker = B.worker \ {fd} /\ fd \in B.worker /\ at'.waiting = B.waiting \cup {fd}
    BY <1>2, <1>9, <2>1, <2>4 DEF Places, Kinds
  <2>7. Partition(at', Open)
    BY <2>1, <2>2, <2>3, <2>5, <2>6, MoveOne
  <2>. QED BY <1>8, <2>7 DEF Partition
<1>11. NoneTwice' /\ SessionsKnown' /\ SetWithinBound'
  BY <1>1, <1>2, <1>6, <1>8 DEF ServerInv, NoneTwice, SessionsKnown, SetWithinBound, selecting
<1>12. UnreadWasAsked'
  BY <1>3, <1>4 DEF ServerInv, UnreadWasAsked
<1>13. WaitersHaveAsked'
  <2>1. fd \notin waiting /\ fd \notin clientsToNotify
    BY <1>5 DEF at
  <2>2. waiting' \cup clientsToNotify' = waiting \cup clientsToNotify \cup {fd}
    BY <1>1
  <2>. QED BY <1>0, <1>3, <1>4, <2>1, <2>2 DEF ServerInv, WaitersHaveAsked, TypeOK
<1>14. ClosedHaveGone'
  <2>1. fd \notin Sent(pipe, "closed")
    BY <1>5 DEF at
  <2>. QED BY <1>3, <1>4, <1>6, <2>1 DEF ServerInv, ClosedHaveGone, Sent
<1>15. ReadyUntilRead'
  <2>1. \A d \in Fds \ {fd} : Readable(d) => Readable(d)'
    BY <1>3, <1>4 DEF Readable
  <2>2. /\ rdset \subseteq Fds \cup {0} /\ at.hand \cup at.queue \cup at.worker \subseteq Fds
        /\ rdset \ {0} \subseteq set /\ fd \notin set
    BY <1>0, <1>5 DEF ServerInv, ReadyUntilRead, TypeOK, at, Queued
  <2>. QED BY <1>1, <1>5, <1>6, <1>9, <2>1, <2>2 DEF ServerInv, ReadyUntilRead, selecting
<1>16. MainLeavesLast'
  BY <1>1, <1>6 DEF ServerInv, MainLeavesLast, selecting, signals
<1>. QED BY <1>7, <1>10, <1>11, <1>12, <1>13, <1>14, <1>15, <1>16 DEF ServerInv

\* The notifier answers a request and returns its descriptor.
LEMMA NotifyClientKeepsInv ==
    ASSUME ServerInv, NEW fd \in Fds, NotifyClient(fd)
    PROVE  ServerInv'
<1>0. TypeOK /\ Partition(at, Open) /\ at \in [Places -> SUBSET Fds]
  BY PlacesType DEF ServerInv
<1>1. /\ notifier' = "testing" /\ fd \in clientsToNotify
      /\ clientsToNotify' = clientsToNotify \ {fd} /\ Answered(fd) /\ writeToPipe("restore", fd)
      /\ UNCHANGED <<main, signals, unread, selecting, working, waiting, requestQueue, closed>>
  BY DEF NotifyClient, NotifierGoes
<1>2. fd \in at.to_notify /\ \A p \in Places \ {"to_notify"} : fd \notin at[p]
  <2>1. fd \in at.to_notify /\ "to_notify" \in Places
    BY <1>1 DEF at, Places
  <2>. QED BY <1>0, <2>1, OnlyThere
<1>3. client[fd] \in {"asked", "gone"} /\ ~unread[fd]
  BY <1>1 DEF ServerInv, WaitersHaveAsked
<1>4. /\ client' \in [Fds -> {"none", "idle", "asked", "reset", "gone"}]
      /\ client'[fd] \in {"idle", "gone"} /\ \A d \in Fds \ {fd} : client'[d] = client[d]
      /\ client[fd] = "gone" => client'[fd] = "gone"
  BY <1>0, <1>1, <1>3 DEF TypeOK, Answered
<1>5. /\ fd \notin at.closed /\ fd \notin at.restore /\ fd \notin at.accepted
      /\ fd \notin at.set /\ fd \notin at.hand /\ fd \notin at.queue
      /\ fd \notin at.worker /\ fd \notin at.waiting
  BY <1>2 DEF Places, Kinds
<1>6. /\ pipe' \in Seq(Messages) /\ pipe' # << >> /\ NoMessageTwice(pipe')
      /\ Sent(pipe', "restore") = Sent(pipe, "restore") \cup {fd}
      /\ Sent(pipe', "closed") = Sent(pipe, "closed")
      /\ Sent(pipe', "accepted") = Sent(pipe, "accepted")
  BY <1>1, <1>5, OneMessageMore DEF Kinds
<1>7. TypeOK'
  <2>1. pipe' \in Seq({"closed", "restore", "accepted"} \X Fds \cup {<<"terminate", 0>>})
    BY <1>6 DEF Messages, Kinds
  <2>2. clientsToNotify' \subseteq Fds
    BY <1>0, <1>1 DEF TypeOK
  <2>. QED BY <1>0, <1>1, <1>4, <2>1, <2>2 DEF TypeOK, selecting, working, signals
<1>8. Open' = Open
  BY <1>0, <1>3, <1>4 DEF Open
<1>9. /\ at'.closed = at.closed /\ at'.restore = at.restore \cup {fd}
      /\ at'.accepted = at.accepted
      /\ at'.set = at.set /\ at'.hand = at.hand /\ at'.queue = at.queue
      /\ at'.worker = at.worker /\ at'.waiting = at.waiting /\ at'.to_notify = at.to_notify \ {fd}
  BY <1>1, <1>6 DEF at, selecting, working
<1>10. Partition(at, Open)'
  <2>1. at' \in [Places -> SUBSET Fds]
    BY <1>7 DEF at, Places, Kinds, Sent, Queued, TypeOK
  <2>2. \A p \in Places \ {"to_notify", "restore"} : at'[p] = at[p]
    BY <1>9 DEF Places, Kinds
  <2>3. "to_notify" \in Places /\ "restore" \in Places
    BY DEF Places, Kinds
  <2>4. Partition(at', Open)
    BY <1>0, <1>2, <1>9, <2>1, <2>2, <2>3, MoveOne
  <2>. QED BY <1>8, <2>4 DEF Partition
<1>11. NoneTwice' /\ SessionsKnown' /\ SetWithinBound'
  BY <1>1, <1>6, <1>8 DEF ServerInv, NoneTwice, SessionsKnown, SetWithinBound, selecting, working
<1>12. UnreadWasAsked' /\ WaitersHaveAsked' /\ ClosedHaveGone'
  <2>1. fd \notin waiting /\ fd \notin Sent(pipe, "closed")
    BY <1>5 DEF at
  <2>2. UnreadWasAsked'
    BY <1>1, <1>3, <1>4 DEF ServerInv, UnreadWasAsked
  <2>3. WaitersHaveAsked'
    BY <1>0, <1>1, <1>4, <2>1 DEF ServerInv, WaitersHaveAsked, TypeOK
  <2>4. ClosedHaveGone'
    BY <1>1, <1>4, <1>6, <2>1 DEF ServerInv, ClosedHaveGone, Sent
  <2>. QED BY <2>2, <2>3, <2>4
<1>13. ReadyUntilRead'
  <2>1. \A d \in Fds : Readable(d) => Readable(d)'
    BY <1>1, <1>3, <1>4 DEF Readable
  <2>2. rdset \subseteq Fds \cup {0} /\ at.hand \cup at.queue \cup at.worker \subseteq Fds
    BY <1>0 DEF TypeOK, at, Queued
  <2>. QED BY <1>1, <1>6, <1>9, <2>1, <2>2 DEF ServerInv, ReadyUntilRead, selecting
<1>14. MainLeavesLast'
  BY <1>1, <1>5, OneMessageMoreInOrder DEF selecting, Kinds
<1>. QED BY <1>7, <1>10, <1>11, <1>12, <1>13, <1>14 DEF ServerInv

\* The notifier looks at the flag.
LEMMA NotifierTestsKeepsInv ==
    ASSUME ServerInv, NotifierTests
    PROVE  ServerInv'
<1>1. /\ notifier' = AfterTest
      /\ UNCHANGED <<main, signals, clients, selecting, working, locks, requestQueue, closed,
                     pipe>>
  BY DEF NotifierTests, NotifierGoes, clients, locks
<1>2. TypeOK'
  BY <1>1, AfterTestType DEF ServerInv, TypeOK, selecting, working, clients, locks, signals
<1>3. ReadyUntilRead'
  BY <1>1, ReadinessIsKept DEF selecting, working
<1>4. MainLeavesLast'
  BY <1>1 DEF ServerInv, MainLeavesLast, signals, selecting
<1>. QED BY <1>1, <1>2, <1>3, <1>4, ElsewhereKeepsInv DEF selecting, working

\* The notifier finds its queue closed.
LEMMA TakeClosedKeepsInv ==
    ASSUME ServerInv, TakeClosed
    PROVE  ServerInv'
<1>1. /\ notifier' = "testing"
      /\ UNCHANGED <<main, signals, clients, selecting, working, locks, requestQueue, closed,
                     pipe>>
  BY DEF TakeClosed, NotifierGoes, clients, locks
<1>2. TypeOK'
  BY <1>1 DEF ServerInv, TypeOK, selecting, working, clients, locks, signals
<1>3. ReadyUntilRead'
  BY <1>1, ReadinessIsKept DEF selecting, working
<1>4. MainLeavesLast'
  BY <1>1 DEF ServerInv, MainLeavesLast, signals, selecting
<1>. QED BY <1>1, <1>2, <1>3, <1>4, ElsewhereKeepsInv DEF selecting, working

----------------------------------------------------------------------------
(* The invariant.                                                          *)

\* The server starts with nobody connected and every place empty.
LEMMA InitServerInv == Init => ServerInv
<1>. SUFFICES ASSUME Init
              PROVE  ServerInv
  OBVIOUS
<1>1. TypeOK
  <2>1. /\ pipe \in Seq({"closed", "restore", "accepted"} \X Fds \cup {<<"terminate", 0>>})
        /\ requestQueue \in Seq(Fds) /\ Len(requestQueue) <= QueueSize
    BY QueueSizeAssumption, EmptySeq DEF Init
  <2>2. /\ worker \in [Workers -> {"testing", "removing", "reading", "exited"}]
        /\ serving \in [Workers -> Fds \cup {0}]
        /\ client \in [Fds -> {"none", "idle", "asked", "reset", "gone"}]
        /\ unread \in [Fds -> BOOLEAN]
    BY DEF Init
  <2>3. \A w \in Workers : serving[w] # 0 <=> worker[w] = "reading"
    BY DEF Init
  <2>. QED BY <2>1, <2>2, <2>3 DEF Init, TypeOK
<1>2. Open = {} /\ \A k : Sent(pipe, k) = {}
  BY DEF Init, Open, Sent
<1>3. Partition(at, Open)
  <2>1. /\ at.closed = {} /\ at.restore = {} /\ at.accepted = {} /\ at.set = {} /\ at.hand = {}
        /\ at.queue = {} /\ at.worker = {} /\ at.waiting = {} /\ at.to_notify = {}
    BY <1>2, FdsAssumption DEF Init, at, Queued
  <2>2. \A p \in Places : at[p] = {}
    BY <2>1 DEF Places, Kinds
  <2>. QED BY <1>2, <2>2 DEF Partition
<1>4. NoneTwice
  BY DEF Init, NoneTwice, NoMessageTwice
<1>5. SessionsKnown
  BY <1>2, FS_EmptySet DEF Init, SessionsKnown
<1>6. SetWithinBound /\ UnreadWasAsked /\ WaitersHaveAsked /\ ClosedHaveGone
  BY <1>2 DEF Init, SetWithinBound, UnreadWasAsked, WaitersHaveAsked, ClosedHaveGone
<1>7. ReadyUntilRead
  BY FdsAssumption DEF Init, ReadyUntilRead, at, Queued
<1>8. MainLeavesLast
  <2>1. DOMAIN pipe = {} /\ main = "testing" /\ ~mainExitSig /\ ~selectExit
    BY DEF Init
  <2>. QED BY <1>2, <2>1 DEF MainLeavesLast, TerminateIsLast, AfterLoop
<1>. QED BY <1>1, <1>3, <1>4, <1>5, <1>6, <1>7, <1>8 DEF ServerInv

\* A step that changes nothing keeps everything.
LEMMA StutterKeepsServerInv ==
    ASSUME ServerInv, UNCHANGED vars
    PROVE  ServerInv'
<1>1. UNCHANGED <<main, signals, clients, selecting, working, notifier, locks, pipe,
                  requestQueue, closed>>
  BY DEF vars
<1>2. TypeOK'
  BY <1>1 DEF ServerInv, TypeOK, signals, clients, selecting, working, locks
<1>3. ReadyUntilRead'
  BY <1>1, ReadinessIsKept DEF selecting, working
<1>4. MainLeavesLast'
  BY <1>1 DEF ServerInv, MainLeavesLast, signals, selecting
<1>. QED BY <1>1, <1>2, <1>3, <1>4, ElsewhereKeepsInv DEF selecting, working

\* The invariant is inductive: one lemma for each action of Next.
LEMMA NextKeepsServerInv == ServerInv /\ [Next]_vars => ServerInv'
<1>. SUFFICES ASSUME ServerInv, [Next]_vars
              PROVE  ServerInv'
  OBVIOUS
<1>1. CASE Interrupt \/ HangUp
  BY <1>1, SignalKeepsInv
<1>2. CASE Accept
  BY <1>2, AcceptKeepsInv
<1>3. CASE \E fd \in Fds : Ask(fd) \/ Disconnect(fd) \/ Crash(fd) \/ Abandon(fd)
  BY <1>3, ClientKeepsInv
<1>4. CASE Main
  BY <1>4, SilentMainKeepsInv, TerminateKeepsInv DEF Main
<1>5. CASE SelectThread
  <2>1. CASE SelectReturns \/ InsertRequest \/ EndRound \/ Termination
    BY <2>1, SelectReturnsKeepsInv, InsertRequestKeepsInv, EndRoundKeepsInv, TerminationKeepsInv
  <2>2. ASSUME NEW fd \in Fds,
               \/ \E told \in SUBSET waiting : ConnectionClosed(fd, told)
               \/ Restore(fd) \/ NewConnection(fd) \/ Dispatch(fd)
        PROVE  ServerInv'
    BY <2>2, ConnectionClosedKeepsInv, RestoreKeepsInv, NewConnectionKeepsInv, DispatchKeepsInv
  <2>. QED BY <1>5, <2>1, <2>2 DEF SelectThread
<1>6. CASE Notifier
  BY <1>6, NotifierTestsKeepsInv, TakeClosedKeepsInv, NotifyClientKeepsInv DEF Notifier
<1>7. ASSUME NEW w \in Workers, Worker(w)
      PROVE  ServerInv'
  BY <1>7, TestThreadExitKeepsInv, PopKeepsInv, PopClosedKeepsInv, ReadFailsKeepsInv,
     ReadEndsKeepsInv, ServeKeepsInv, QueueKeepsInv DEF Worker
<1>8. CASE UNCHANGED vars
  BY <1>8, StutterKeepsServerInv
<1>. QED BY <1>1, <1>2, <1>3, <1>4, <1>5, <1>6, <1>7, <1>8 DEF Next

\* The invariant holds in every state, whatever the clients, the connections and the signals.
THEOREM ServerInvariance == Spec => []ServerInv
BY InitServerInv, NextKeepsServerInv, PTL DEF Spec

\* What select watches is within the bound it is given (main.c:340-386).
THEOREM WatchedWithinBound == Spec => []SetWithinBound
<1>1. ServerInv => SetWithinBound
  BY DEF ServerInv
<1>. QED BY <1>1, ServerInvariance, PTL

(***************************************************************************)
(* A worker that reads from a socket finds something there: the descriptor *)
(* was readable when select returned, and nobody has read from it since    *)
(* (main.c:372-386, worker.c:225-286).                                     *)
(***************************************************************************)
THEOREM ReadersFindSomething == Spec => []ReadersDoNotBlock
<1>1. ServerInv => ReadersDoNotBlock
  <2>1. SUFFICES ASSUME ServerInv, NEW w \in Workers, worker[w] = "reading"
                 PROVE  Readable(serving[w])
    BY DEF ReadersDoNotBlock
  <2>2. serving[w] \in Fds
    BY <2>1 DEF ServerInv, TypeOK
  <2>3. serving[w] \in at.worker
    BY <2>2 DEF at
  <2>. QED BY <2>1, <2>3 DEF ServerInv, ReadyUntilRead
<1>. QED BY <1>1, ServerInvariance, PTL

\* The counter counts the sessions of the connections that are not closed (main.c:337-370).
THEOREM SessionsCounted == Spec => []SessionsAreCounted
<1>1. ServerInv => SessionsAreCounted
  <2>1. SUFFICES ASSUME ServerInv
                 PROVE  SessionsAreCounted
    OBVIOUS
  <2>2. Open \ Sent(pipe, "accepted")
            = {fd \in Open : \A i \in DOMAIN pipe : pipe[i] # <<"accepted", fd>>}
    BY DEF Sent, Open
  <2>. QED BY <2>1, <2>2 DEF ServerInv, SessionsKnown, SessionsAreCounted
<1>. QED BY <1>1, ServerInvariance, PTL

----------------------------------------------------------------------------
(* One holder.                                                             *)

\* A message, a request in the queue or a worker about a descriptor puts it in that place.
LEMMA HoldersAreInPlaces ==
    ASSUME ServerInv, NEW fd \in Fds
    PROVE  /\ \A i \in DOMAIN pipe : pipe[i][2] = fd =>
                  fd \in at.closed \/ fd \in at.restore \/ fd \in at.accepted
           /\ \A i \in DOMAIN requestQueue : requestQueue[i] = fd => fd \in at.queue
           /\ \A w \in Workers : serving[w] = fd => fd \in at.worker
           /\ fd \in set <=> fd \in at.set
           /\ fd = hand <=> fd \in at.hand
           /\ fd \in waiting <=> fd \in at.waiting
           /\ fd \in clientsToNotify <=> fd \in at.to_notify
<1>1. ASSUME NEW i \in DOMAIN pipe, pipe[i][2] = fd
      PROVE  fd \in at.closed \/ fd \in at.restore \/ fd \in at.accepted
  <2>1. pipe[i] \in Messages
    BY PipeType, ElementOfSeq, LenProperties DEF ServerInv
  <2>2. pipe[i][1] \in Kinds /\ pipe[i] = <<pipe[i][1], fd>>
    BY <1>1, <2>1, FdsAssumption DEF Messages
  <2>3. fd \in Sent(pipe, pipe[i][1])
    BY <2>2 DEF Sent
  <2>. QED BY <2>2, <2>3 DEF at, Kinds
<1>2. \A i \in DOMAIN requestQueue : requestQueue[i] = fd => fd \in at.queue
  BY DEF at, Queued
<1>3. \A w \in Workers : serving[w] = fd => fd \in at.worker
  BY DEF at
<1>4. /\ fd \in set <=> fd \in at.set
      /\ fd = hand <=> fd \in at.hand
      /\ fd \in waiting <=> fd \in at.waiting
      /\ fd \in clientsToNotify <=> fd \in at.to_notify
  BY DEF at
<1>. QED BY <1>1, <1>2, <1>3, <1>4

\* A closed descriptor is held by nobody.
LEMMA ClosedIsNotHeld ==
    ASSUME ServerInv, NEW fd \in Fds \ Open
    PROVE  Holders(fd) = {}
<1>1. \A p \in Places : fd \notin at[p]
  BY DEF ServerInv, Partition
<1>2. /\ fd \notin at.closed /\ fd \notin at.restore /\ fd \notin at.accepted
      /\ fd \notin at.set /\ fd \notin at.hand /\ fd \notin at.queue
      /\ fd \notin at.worker /\ fd \notin at.waiting /\ fd \notin at.to_notify
  BY <1>1 DEF Places, Kinds
<1>. QED BY <1>2, HoldersAreInPlaces DEF Holders

\* An open one is held once.
LEMMA OpenIsHeldOnce ==
    ASSUME ServerInv, NEW fd \in Open
    PROVE  \E h : Holders(fd) = {h}
<1>0. fd \in Fds /\ fd # 0
  BY FdsAssumption DEF Open
<1>1. PICK p \in Places : fd \in at[p]
  BY <1>0 DEF ServerInv, Partition
<1>2. \A q \in Places \ {p} : fd \notin at[q]
  BY <1>0, <1>1, OnlyThere DEF ServerInv
<1>3. CASE p \in Kinds
  <2>1. /\ fd \notin at.set /\ fd \notin at.hand /\ fd \notin at.queue
        /\ fd \notin at.worker /\ fd \notin at.waiting /\ fd \notin at.to_notify
    BY <1>2, <1>3 DEF Places, Kinds
  <2>2. fd \in Sent(pipe, p)
    BY <1>1, <1>3 DEF at, Kinds
  <2>3. PICK i \in DOMAIN pipe : pipe[i][2] = fd
    BY <2>2 DEF Sent
  <2>4. \A j \in DOMAIN pipe : pipe[j][2] = fd => j = i
    BY <1>0, <2>3 DEF ServerInv, NoneTwice, NoMessageTwice
  <2>5. Holders(fd) = {<<"pipe", i>>}
    BY <1>0, <2>1, <2>3, <2>4, HoldersAreInPlaces DEF Holders
  <2>. QED BY <2>5
<1>4. CASE p \in {"set", "hand", "waiting", "to_notify"}
  <2>1. /\ fd \notin at.closed /\ fd \notin at.restore /\ fd \notin at.accepted
        /\ fd \notin at.queue /\ fd \notin at.worker
    BY <1>2, <1>4 DEF Places, Kinds
  <2>2. /\ fd \in set <=> p = "set"
        /\ fd = hand <=> p = "hand"
        /\ fd \in waiting <=> p = "waiting"
        /\ fd \in clientsToNotify <=> p = "to_notify"
    BY <1>0, <1>1, <1>2, HoldersAreInPlaces DEF Places
  <2>3. Holders(fd) = {<<p, fd>>}
    BY <1>0, <1>4, <2>1, <2>2, HoldersAreInPlaces DEF Holders
  <2>. QED BY <2>3
<1>5. CASE p = "queue"
  <2>1. /\ fd \notin at.closed /\ fd \notin at.restore /\ fd \notin at.accepted
        /\ fd \notin at.set /\ fd \notin at.hand
        /\ fd \notin at.worker /\ fd \notin at.waiting /\ fd \notin at.to_notify
    BY <1>2, <1>5 DEF Places, Kinds
  <2>2. PICK i \in DOMAIN requestQueue : requestQueue[i] = fd
    BY <1>1, <1>5 DEF at, Queued
  <2>3. \A j \in DOMAIN requestQueue : requestQueue[j] = fd => j = i
    BY <2>2 DEF ServerInv, NoneTwice
  <2>4. Holders(fd) = {<<"queue", i>>}
    BY <1>0, <2>1, <2>2, <2>3, HoldersAreInPlaces DEF Holders
  <2>. QED BY <2>4
<1>6. CASE p = "worker"
  <2>1. /\ fd \notin at.closed /\ fd \notin at.restore /\ fd \notin at.accepted
        /\ fd \notin at.set /\ fd \notin at.hand
        /\ fd \notin at.queue /\ fd \notin at.waiting /\ fd \notin at.to_notify
    BY <1>2, <1>6 DEF Places, Kinds
  <2>2. PICK w \in Workers : serving[w] = fd
    BY <1>1, <1>6 DEF at
  <2>3. \A v \in Workers : serving[v] = fd => v = w
    BY <1>0, <2>2 DEF ServerInv, NoneTwice
  <2>4. Holders(fd) = {<<"worker", w>>}
    BY <1>0, <2>1, <2>2, <2>3, HoldersAreInPlaces DEF Holders
  <2>. QED BY <2>4
<1>. QED BY <1>3, <1>4, <1>5, <1>6 DEF Places

(***************************************************************************)
(* An open descriptor is in one place and a closed one in none ("remove fd *)
(* from set so nobody can read except the thread that will handle the      *)
(* request", main.c:377): no two threads ever have the same connection,    *)
(* none is forgotten, and a descriptor the kernel gives again is nowhere.  *)
(***************************************************************************)
THEOREM DescriptorsHaveOneHolder == Spec => []OneHolder
<1>1. ServerInv => OneHolder
  <2>1. SUFFICES ASSUME ServerInv, NEW fd \in Fds
                 PROVE  Cardinality(Holders(fd)) = IF fd \in Open THEN 1 ELSE 0
    BY DEF OneHolder, ServerInv
  <2>2. CASE fd \in Open
    BY <2>1, <2>2, OpenIsHeldOnce, FS_Singleton
  <2>3. CASE fd \notin Open
    BY <2>1, <2>3, ClosedIsNotHeld, FS_EmptySet
  <2>. QED BY <2>2, <2>3
<1>. QED BY <1>1, ServerInvariance, PTL

----------------------------------------------------------------------------
(* Soft shutdown.                                                          *)

(***************************************************************************)
(* After SIGHUP alone the select thread ends only when every connection    *)
(* that was accepted has been closed: the message that makes it leave its  *)
(* loop follows those of all connections, and the counter is exact         *)
(* (main.c:307-310).                                                       *)
(***************************************************************************)
THEOREM SoftShutdownIsComplete == Spec => SoftShutdownServesAll
<1>1. ServerInv /\ [Next]_vars =>
          [select # "exited" /\ select' = "exited" /\ ~threadExitSig => Open = {}]_vars
  <2>1. SUFFICES ASSUME ServerInv, Next, select # "exited", select' = "exited", ~threadExitSig
                 PROVE  Open = {}
    OBVIOUS
  <2>2. select' # select
    BY <2>1
  <2>3. EndRound
    BY <2>1, <2>2
       DEF Next, Interrupt, HangUp, Accept, Ask, Disconnect, Crash, Leaves, Abandon, Main,
          TestExit,
           CallAccept, Terminate, CloseQueues, Finish, MainGoes, SelectThread, SelectReturns,
           InsertRequest, Termination, ConnectionClosed, Restore, NewConnection, Message, Dispatch,
           Notifier, NotifierTests, TakeClosed, NotifyClient, NotifierGoes, Worker, TestThreadExit,
           Pop, PopClosed, ReadFails, ReadEnds, Serve, Queue, Performed, WorkerGoes, selecting
  <2>4. selectExit /\ (sighupReceived => clientsConnected = 0)
    BY <2>1, <2>3 DEF EndRound, SelectExits
  <2>5. sighupReceived /\ Sent(pipe, "accepted") = {}
    BY <2>1, <2>4 DEF ServerInv, MainLeavesLast
  <2>6. Open = session /\ Cardinality(session) = 0 /\ IsFiniteSet(session)
    BY <2>1, <2>4, <2>5, FdsAssumption, FS_Subset DEF ServerInv, SessionsKnown, TypeOK
  <2>. QED BY <2>6, FS_EmptySet
<1>. QED BY <1>1, ServerInvariance, PTL DEF Spec, SoftShutdownServesAll

----------------------------------------------------------------------------
(* A queue that is long enough.                                            *)

(***************************************************************************)
(* The one way in which the shutdown after SIGINT does not end, the select *)
(* thread before a full queue that no worker is left to empty, needs more  *)
(* connections than the queue has places: each is in it at most once, and  *)
(* the one in the hand of select is not (main.c:386, worker.c:226).        *)
(***************************************************************************)
THEOREM LongQueueSuffices ==
    ASSUME Cardinality(Fds) <= QueueSize
    PROVE  Spec => []~InsertsForEver
<1>1. ServerInv => ~InsertsForEver
  <2>1. SUFFICES ASSUME ServerInv, select = "inserting", Len(requestQueue) = QueueSize
                 PROVE  FALSE
    BY DEF InsertsForEver
  <2>2. /\ Partition(at, Open) /\ at \in [Places -> SUBSET Fds]
        /\ hand \in Fds /\ requestQueue \in Seq(Fds)
        /\ \A i, j \in DOMAIN requestQueue : requestQueue[i] = requestQueue[j] => i = j
    BY <2>1, PlacesType, FdsAssumption DEF ServerInv, TypeOK, NoneTwice
  <2>3. hand \notin Queued(requestQueue)
    <3>1. hand \in at.hand /\ "hand" \in Places /\ "queue" \in Places
      BY <2>2 DEF at, Places
    <3>2. hand \notin at.queue
      BY <2>2, <3>1, OnlyThere
    <3>. QED BY <3>2 DEF at
  <2>4. requestQueue \in Injection(1 .. Len(requestQueue), Fds \ {hand})
    <3>1. \A i \in 1 .. Len(requestQueue) : requestQueue[i] \in Fds \ {hand}
      BY <2>2, <2>3 DEF Queued
    <3>2. requestQueue \in [1 .. Len(requestQueue) -> Fds \ {hand}]
      BY <2>2, <3>1
    <3>3. IsInjective(requestQueue)
      BY <2>2 DEF IsInjective
    <3>. QED BY <3>2, <3>3 DEF Injection
  <2>5. /\ IsFiniteSet(Fds \ {hand}) /\ Cardinality(Fds \ {hand}) = Cardinality(Fds) - 1
        /\ Cardinality(Fds) \in Nat
    BY <2>2, FdsAssumption, FS_RemoveElement, FS_CardinalityType
  <2>6. Cardinality(1 .. Len(requestQueue)) <= Cardinality(Fds \ {hand})
    BY <2>4, <2>5, FS_Injection
  <2>7. Cardinality(1 .. Len(requestQueue)) = Len(requestQueue)
    BY <2>1, FS_Interval, QueueSizeAssumption
  <2>. QED BY <2>1, <2>5, <2>6, <2>7, QueueSizeAssumption
<1>. QED BY <1>1, ServerInvariance, PTL

----------------------------------------------------------------------------
(* The exchange on one connection.                                         *)

\* A step of the exchange on one connection, or none.
Exchanges(fd) == [Connection(fd)!Next]_<<client[fd], unread[fd]>>

\* Clients ask, leave and crash as Exchange lets them.
LEMMA ClientExchanges ==
    ASSUME ServerInv, NEW fd \in Fds, Ask(fd) \/ Disconnect(fd) \/ Crash(fd) \/ Abandon(fd)
    PROVE  Connection(fd)!Next /\ \A d \in Fds \ {fd} : UNCHANGED <<client[d], unread[d]>>
<1>1. TypeOK /\ (unread[fd] => client[fd] \in {"asked", "gone"})
  BY DEF ServerInv, UnreadWasAsked
<1>2. CASE Ask(fd)
  BY <1>1, <1>2 DEF TypeOK, Ask, Connection!Next, Connection!Ask, Connection!Becomes
<1>3. CASE Disconnect(fd)
  BY <1>1, <1>3
     DEF TypeOK, Disconnect, Leaves, Connection!Next, Connection!Disconnect, Connection!Becomes
<1>4. CASE Crash(fd)
  BY <1>1, <1>4 DEF TypeOK, Crash, Leaves, Connection!Next, Connection!Crash, Connection!Becomes
<1>5. CASE Abandon(fd)
  BY <1>1, <1>5 DEF TypeOK, Abandon, Connection!Next, Connection!Crash, Connection!Becomes
<1>. QED BY <1>2, <1>3, <1>4, <1>5

\* A new connection starts afresh: nothing is left to read of the last one.
LEMMA AcceptExchanges ==
    ASSUME ServerInv, Accept
    PROVE  \E fd \in Fds : /\ Connection(fd)!Next
                           /\ \A d \in Fds \ {fd} : UNCHANGED <<client[d], unread[d]>>
<1>1. Min(Fds \ Open) \in Fds \ Open
  <2>1. Fds \ Open \in SUBSET Nat /\ Fds \ Open # {}
    BY FdsAssumption DEF Open, Accept
  <2>2. IsFiniteSet(Fds \ Open)
    BY FdsAssumption, FS_Subset
  <2>. QED BY <2>1, <2>2, MinIsElement
<1>2. PICK conn \in Fds : conn = Min(Fds \ Open)
  BY <1>1
<1>3. client[conn] = "none" /\ client' = [client EXCEPT ![conn] = "idle"] /\ unread' = unread
  BY <1>1, <1>2 DEF Accept, Open
<1>4. Connection(conn)!Next
  BY <1>3 DEF ServerInv, TypeOK, Connection!Next, Connection!Connect, Connection!Becomes
<1>5. \A d \in Fds \ {conn} : UNCHANGED <<client[d], unread[d]>>
  BY <1>3 DEF ServerInv, TypeOK
<1>. QED BY <1>4, <1>5

\* A connection is closed with nothing left to read, and only when its client has gone.
LEMMA ClosingExchanges ==
    ASSUME ServerInv, NEW fd \in Fds, NEW told \in SUBSET waiting, ConnectionClosed(fd, told)
    PROVE  Connection(fd)!Next /\ \A d \in Fds \ {fd} : UNCHANGED <<client[d], unread[d]>>
<1>1. fd \in Sent(pipe, "closed")
  BY MessageOfDescriptor DEF ConnectionClosed, Kinds
<1>2. ~unread[fd] /\ client[fd] = "gone"
  BY <1>1 DEF ServerInv, ClosedHaveGone
<1>. QED BY <1>2 DEF ConnectionClosed, ServerInv, TypeOK, Connection!Next, Connection!Close,
                     Connection!Becomes

\* A worker takes the request it reads, and answers it at once or leaves it to the notifier.
LEMMA WorkerExchanges ==
    ASSUME ServerInv, NEW w \in Workers,
           \/ ReadFails(w)
           \/ \E told \in SUBSET waiting : Serve(w, told) \/ Queue(w, told)
    PROVE  \E fd \in Fds : /\ Connection(fd)!Next
                           /\ \A d \in Fds \ {fd} : UNCHANGED <<client[d], unread[d]>>
<1>1. worker[w] = "reading"
  BY DEF ReadFails, Serve, Queue, Performed, WorkerGoes
<1>2. PICK fd \in Fds : fd = serving[w]
  BY <1>1 DEF ServerInv, TypeOK
<1>3. TypeOK /\ (unread[fd] => client[fd] \in {"asked", "gone"})
  BY DEF ServerInv, UnreadWasAsked
<1>4. CASE ReadFails(w)
  <2>1. client[fd] = "reset" /\ client' = [client EXCEPT ![fd] = "gone"] /\ unread' = unread
    BY <1>2, <1>4 DEF ReadFails
  <2>2. Connection(fd)!Next
    BY <1>3, <2>1 DEF TypeOK, Connection!Next, Connection!Fail, Connection!Becomes
  <2>3. \A d \in Fds \ {fd} : UNCHANGED <<client[d], unread[d]>>
    BY <1>3, <2>1 DEF TypeOK
  <2>. QED BY <2>2, <2>3
<1>5. CASE \E told \in SUBSET waiting : Serve(w, told)
  <2>1. unread[fd] /\ unread' = [unread EXCEPT ![fd] = FALSE] /\ Answered(fd)
    BY <1>2, <1>5 DEF Serve, Performed, Answered
  <2>2. Connection(fd)!Next
    BY <1>3, <2>1
       DEF TypeOK, Answered, Connection!Next, Connection!Serve, Connection!Take,
          Connection!Becomes
  <2>3. \A d \in Fds \ {fd} : UNCHANGED <<client[d], unread[d]>>
    BY <1>3, <2>1 DEF TypeOK, Answered
  <2>. QED BY <2>2, <2>3
<1>6. CASE \E told \in SUBSET waiting : Queue(w, told)
  <2>1. unread[fd] /\ unread' = [unread EXCEPT ![fd] = FALSE] /\ client' = client
    BY <1>2, <1>6 DEF Queue, Performed
  <2>2. Connection(fd)!Next
    BY <1>3, <2>1 DEF TypeOK, Connection!Next, Connection!Take
  <2>3. \A d \in Fds \ {fd} : UNCHANGED <<client[d], unread[d]>>
    BY <1>3, <2>1 DEF TypeOK
  <2>. QED BY <2>2, <2>3
<1>. QED BY <1>4, <1>5, <1>6

\* The notifier answers only what has been taken and not been answered.
LEMMA NotifyingExchanges ==
    ASSUME ServerInv, NEW fd \in Fds, NotifyClient(fd)
    PROVE  Exchanges(fd) /\ \A d \in Fds \ {fd} : UNCHANGED <<client[d], unread[d]>>
<1>1. TypeOK /\ ~unread[fd] /\ unread' = unread /\ Answered(fd)
  BY DEF ServerInv, WaitersHaveAsked, NotifyClient, NotifierGoes
<1>. QED BY <1>1 DEF TypeOK, Answered, Exchanges, Connection!Next, Connection!Answer,
                     Connection!Becomes

\* The other steps concern no client.
LEMMA OthersExchangeNothing ==
    ASSUME \/ Interrupt \/ HangUp \/ Main \/ SelectReturns \/ InsertRequest \/ EndRound
           \/ Termination
           \/ (\E fd \in Fds : Restore(fd) \/ NewConnection(fd) \/ Dispatch(fd))
           \/ NotifierTests \/ TakeClosed
           \/ (\E w \in Workers : TestThreadExit(w) \/ Pop(w) \/ PopClosed(w) \/ ReadEnds(w))
           \/ UNCHANGED vars
    PROVE  UNCHANGED <<client, unread>>
BY DEF Interrupt, HangUp, Main, TestExit, CallAccept, Terminate, CloseQueues, Finish,
   SelectReturns,
       InsertRequest, EndRound, Termination, Restore, NewConnection, Dispatch, NotifierTests,
   TakeClosed, NotifierGoes, TestThreadExit, Pop, PopClosed, ReadEnds, clients, vars

(***************************************************************************)
(* Each connection is the exchange of single requests and answers that     *)
(* Exchange describes, however many there are: no request is answered      *)
(* before it is taken or answered twice, no connection is closed with one  *)
(* left, and a descriptor that is given again starts afresh                *)
(* (worker.c:225-286, 305-335, main.c:326-386).                            *)
(***************************************************************************)
THEOREM ConnectionsImplementExchange == Spec => ConnectionsAreExchanges
<1>1. Init => \A fd \in Fds : Connection(fd)!Init
  BY DEF Init, Connection!Init
<1>2. ASSUME ServerInv, [Next]_vars, NEW fd \in Fds
      PROVE  Exchanges(fd)
  <2>1. SUFFICES \/ UNCHANGED <<client[fd], unread[fd]>>
                 \/ Exchanges(fd)
                 \/ \E f \in Fds : /\ Connection(f)!Next
                                   /\ \A d \in Fds \ {f} : UNCHANGED <<client[d], unread[d]>>
    BY DEF Exchanges
  <2>2. CASE Accept
    BY <1>2, <2>2, AcceptExchanges
  <2>3. CASE \E f \in Fds : Ask(f) \/ Disconnect(f) \/ Crash(f) \/ Abandon(f)
    BY <1>2, <2>3, ClientExchanges
  <2>4. CASE \E f \in Fds : \E told \in SUBSET waiting : ConnectionClosed(f, told)
    BY <1>2, <2>4, ClosingExchanges
  <2>5. CASE \E w \in Workers : \/ ReadFails(w)
                                \/ \E told \in SUBSET waiting : Serve(w, told) \/ Queue(w, told)
    BY <1>2, <2>5, WorkerExchanges
  <2>6. CASE \E f \in Fds : NotifyClient(f)
    BY <1>2, <2>6, NotifyingExchanges
  <2>7. CASE \/ Interrupt \/ HangUp \/ Main \/ SelectReturns \/ InsertRequest \/ EndRound
             \/ Termination
             \/ (\E f \in Fds : Restore(f) \/ NewConnection(f) \/ Dispatch(f))
             \/ NotifierTests \/ TakeClosed
             \/ (\E w \in Workers : TestThreadExit(w) \/ Pop(w) \/ PopClosed(w) \/ ReadEnds(w))
             \/ UNCHANGED vars
    BY <2>7, OthersExchangeNothing
  <2>. QED BY <1>2, <2>2, <2>3, <2>4, <2>5, <2>6, <2>7 DEF Next, SelectThread, Notifier, Worker
<1>3. ServerInv /\ [Next]_vars =>
          [\A fd \in Fds : [Connection(fd)!Next]_<<client[fd], unread[fd]>>]_vars
  BY <1>2 DEF Exchanges
<1>. QED BY <1>1, <1>3, ServerInvariance, PTL DEF Spec, ConnectionsAreExchanges
=============================================================================
