------------------------ MODULE SocketClientProofs -------------------------
(***************************************************************************)
(* Proofs about SocketClient: as long as no thread has met another's       *)
(* connection on its descriptor, clients_conf, the descriptors and the     *)
(* epoll set agree whenever no call is between its steps, for every number *)
(* of threads, descriptors and sockets; and until then every step is one   *)
(* of ConnectionService.                                                   *)
(***************************************************************************)
EXTENDS SocketClient, SequenceTheorems, NaturalsInduction,
        WellFoundedInduction, TLAPS

Labels == {"create", "wait", "next", "ended", "idle", "socket", "dial",
           "check", "push", "add", "find", "close", "erase", "undefined"}

\* Where a thread's call has a descriptor.
Using == {"dial", "check", "push", "add", "find", "close", "erase"}

\* What the program stores in its variables.
TypeOK ==
  /\ made \in Nat
  /\ desc \in [Fds -> 0 .. made]
  /\ clients \in Seq([fd : Fds, sock : Nat])
  /\ early \subseteq 1 .. made
  /\ pc \in [Threads -> Labels]
  /\ fd \in [Threads -> Fds \cup {Nothing}]
  /\ \A t \in Threads : pc[t] \in Using => fd[t] \in Fds
  /\ mine \in [Callers -> SUBSET Fds]
  /\ \A e \in events : e.fd \in Fds
  /\ meant \in [Threads -> 0 .. made]
  /\ crossed \in BOOLEAN
  /\ pc[Loop] = "create" => efd = "none"

Opening(t) == pc[t] \in {"dial", "check", "push"}
Adding(t)  == pc[t] = "add"
Erasing(t) == pc[t] = "erase"

Booked == {clients[n] : n \in 1 .. Len(clients)}
InBook(s) == \E e \in Booked : e.sock = s
IsOpen(s) == \E f \in Fds : desc[f] = s

\* A socket is behind one descriptor at most.
OneDescriptor ==
  \A f, g \in Fds : desc[f] = desc[g] /\ desc[f] # Nothing => f = g

\* A socket has one entry at most.
OneEntry ==
  \A n, m \in 1 .. Len(clients) : clients[n].sock = clients[m].sock => n = m

\* An entry is that of the socket behind its descriptor, or a disconnect()
\* that has closed the socket is about to erase it.
EntryLive ==
  \A e \in Booked :
    /\ e.sock \in 1 .. made
    /\ \/ desc[e.fd] = e.sock
       \/ \E t \in Threads : Erasing(t) /\ fd[t] = e.fd /\ meant[t] = e.sock

\* A connect() under way has a socket, which is listed once it was pushed and
\* came to no thread's notice before.
CallHasSocket ==
  \A t \in Threads : Opening(t) \/ Adding(t) =>
    /\ Sock(t) \in 1 .. made /\ Sock(t) \notin early
    /\ InBook(Sock(t)) <=> Adding(t)

\* No two of them have one descriptor.
CallsApart ==
  \A t, u \in Threads :
    (Opening(t) \/ Adding(t)) /\ (Opening(u) \/ Adding(u)) /\ fd[t] = fd[u]
    => t = u

\* A socket that was closed does not come back.
ClosedForGood ==
  \A t \in Threads : \A f \in Fds :
    Erasing(t) /\ desc[f] # Nothing => desc[f] # meant[t]

\* The epoll set holds the listed sockets that are open, but those that came
\* before it and those about to be added.
SetFollows ==
  efd # "gone" =>
    /\ watched \subseteq 1 .. made
    /\ \A s \in 1 .. made :
         s \in watched <=> /\ InBook(s) /\ IsOpen(s) /\ s \notin early
                           /\ \A t \in Threads : Adding(t) => Sock(t) # s

Books ==
  /\ OneDescriptor /\ OneEntry /\ EntryLive /\ CallHasSocket /\ CallsApart
  /\ ClosedForGood /\ SetFollows

\* No thread has met another's connection, and no two were in the vector.
Sane == ~crossed /\ \A t \in Threads : pc[t] # "undefined"

IInv == TypeOK /\ (Sane => Books)

-----------------------------------------------------------------------------
(* The vector and the descriptors *)

\* An element is taken out of a sequence: the others keep their order.
LEMMA RemoveAtProperties ==
  ASSUME NEW S, NEW s \in Seq(S), NEW k \in 1 .. Len(s)
  PROVE  /\ RemoveAt(s, k) \in Seq(S)
         /\ Len(RemoveAt(s, k)) = Len(s) - 1
         /\ \A n \in 1 .. Len(s) - 1 :
              RemoveAt(s, k)[n] = IF n < k THEN s[n] ELSE s[n + 1]
<1> DEFINE a == SubSeq(s, 1, k - 1)
           b == SubSeq(s, k + 1, Len(s))
<1>1. Len(s) \in Nat /\ k \in Int
  OBVIOUS
<1>2. /\ a \in Seq(S) /\ Len(a) = k - 1
      /\ \A n \in 1 .. k - 1 : a[n] = s[n]
  <2>1. \A n \in 1 .. k - 1 : s[n] \in S
    BY ElementOfSeq, <1>1
  <2>2. /\ a \in Seq(S)
        /\ Len(a) = IF 1 <= k - 1 THEN k - 1 - 1 + 1 ELSE 0
        /\ \A n \in 1 .. k - 1 - 1 + 1 : a[n] = s[1 + n - 1]
    BY <1>1, <2>1, SubSeqProperties
  <2>. QED BY <1>1, <2>2
<1>3. /\ b \in Seq(S) /\ Len(b) = Len(s) - k
      /\ \A n \in 1 .. Len(s) - k : b[n] = s[k + n]
  <2>1. \A n \in k + 1 .. Len(s) : s[n] \in S
    BY ElementOfSeq, <1>1
  <2>2. /\ b \in Seq(S)
        /\ Len(b) = IF k + 1 <= Len(s) THEN Len(s) - (k + 1) + 1 ELSE 0
        /\ \A n \in 1 .. Len(s) - (k + 1) + 1 : b[n] = s[k + 1 + n - 1]
    BY <1>1, <2>1, SubSeqProperties
  <2>. QED BY <1>1, <2>2
<1>4. /\ a \o b \in Seq(S)
      /\ Len(a \o b) = Len(a) + Len(b)
      /\ \A n \in 1 .. Len(a) + Len(b) :
           (a \o b)[n] = IF n <= Len(a) THEN a[n] ELSE b[n - Len(a)]
  BY <1>2, <1>3, ConcatProperties
<1> HIDE DEF a, b
<1>5. \A n \in 1 .. Len(s) - 1 :
        (a \o b)[n] = IF n < k THEN s[n] ELSE s[n + 1]
  <2> TAKE n \in 1 .. Len(s) - 1
  <2>1. CASE n < k
    <3>1. n \in 1 .. k - 1 /\ n <= Len(a) /\ n \in 1 .. Len(a) + Len(b)
      BY <1>1, <1>2, <1>3, <2>1
    <3>. QED BY <1>2, <1>4, <2>1, <3>1
  <2>2. CASE n >= k
    <3>1. /\ n - (k - 1) \in 1 .. Len(s) - k /\ ~(n <= k - 1) /\ ~(n < k)
          /\ n \in 1 .. (k - 1) + (Len(s) - k) /\ k + (n - (k - 1)) = n + 1
      BY <1>1, <2>2
    <3>2. (a \o b)[n] = b[n - (k - 1)]
      BY <1>2, <1>3, <1>4, <3>1
    <3>. QED BY <1>3, <3>1, <3>2
  <2>3. n < k \/ n >= k
    BY <1>1
  <2>. QED BY <2>1, <2>2, <2>3, Zenon
<1>6. Len(a \o b) = Len(s) - 1
  BY <1>1, <1>2, <1>3, <1>4
<1>7. RemoveAt(s, k) = a \o b
  BY DEF RemoveAt, a, b
<1>. QED BY <1>4, <1>5, <1>6, <1>7, Zenon

\* What is erased is one entry, and no other.
LEMMA EraseEntry ==
  ASSUME NEW S, NEW s \in Seq(S), NEW k \in 1 .. Len(s)
  PROVE  LET t == RemoveAt(s, k) IN
         /\ \A n \in 1 .. Len(t) :
              \E m \in 1 .. Len(s) \ {k} : t[n] = s[m]
         /\ \A m \in 1 .. Len(s) \ {k} :
              \E n \in 1 .. Len(t) : t[n] = s[m]
         /\ \A n, m \in 1 .. Len(t) : n # m =>
              \E i, j \in 1 .. Len(s) : i # j /\ t[n] = s[i] /\ t[m] = s[j]
<1> DEFINE t == RemoveAt(s, k)
           At(n) == IF n < k THEN n ELSE n + 1
<1>1. /\ Len(s) \in Nat /\ Len(t) = Len(s) - 1
      /\ \A n \in 1 .. Len(t) : t[n] = s[At(n)]
  <2> HIDE DEF t
  <2>1. /\ Len(s) \in Nat /\ Len(t) = Len(s) - 1
        /\ \A n \in 1 .. Len(s) - 1 :
             t[n] = IF n < k THEN s[n] ELSE s[n + 1]
    BY RemoveAtProperties DEF t
  <2>. QED BY <2>1
<1> HIDE DEF t
<1>2. \A n \in 1 .. Len(t) : At(n) \in 1 .. Len(s) \ {k}
  BY <1>1
<1>3. \A n, m \in 1 .. Len(t) : n # m => At(n) # At(m)
  BY <1>1
<1>4. \A m \in 1 .. Len(s) \ {k} :
        \E n \in 1 .. Len(t) : At(n) = m
  <2> TAKE m \in 1 .. Len(s) \ {k}
  <2>1. CASE m < k
    <3>1. m \in 1 .. Len(t) /\ At(m) = m
      BY <1>1, <2>1
    <3>. QED BY <3>1
  <2>2. CASE m > k
    <3>1. m - 1 \in 1 .. Len(t) /\ At(m - 1) = m
      BY <1>1, <2>2
    <3>. QED BY <3>1
  <2>. QED BY <1>1, <2>1, <2>2
<1> HIDE DEF At
<1>5. \A n \in 1 .. Len(t) : \E m \in 1 .. Len(s) \ {k} : t[n] = s[m]
  BY <1>1, <1>2
<1>6. \A m \in 1 .. Len(s) \ {k} : \E n \in 1 .. Len(t) : t[n] = s[m]
  BY <1>1, <1>4
<1>7. ASSUME NEW n \in 1 .. Len(t), NEW m \in 1 .. Len(t), n # m
      PROVE  \E i, j \in 1 .. Len(s) : i # j /\ t[n] = s[i] /\ t[m] = s[j]
  <2>1. /\ At(n) \in 1 .. Len(s) /\ At(m) \in 1 .. Len(s) /\ At(n) # At(m)
        /\ t[n] = s[At(n)] /\ t[m] = s[At(m)]
    BY <1>1, <1>2, <1>3, <1>7
  <2>. QED BY <2>1
<1>. QED BY <1>5, <1>6, <1>7, Zenon DEF t

\* The order of the numbers, as a set of pairs.
LEMMA NumbersWellFounded ==
  \E R : /\ IsWellFoundedOn(R, Nat)
        /\ \A x, y \in Nat : x < y => <<x, y>> \in R
<1>1. IsWellFoundedOn(OpToRel(<, Nat), Nat)
  BY NatLessThanWellFounded, Zenon
<1>2. \A x, y \in Nat : x < y => <<x, y>> \in OpToRel(<, Nat)
  BY Zenon DEF OpToRel
<1>. QED BY <1>1, <1>2, Zenon

LEMMA MinimalElement ==
  ASSUME NEW R, NEW D, IsWellFoundedOn(R, D), NEW A, A \subseteq D, A # {}
  PROVE  \E x \in A : \A y \in A : ~(<<y, x>> \in R)
  BY WFMin, Zenon

\* The first of some numbers is one of them.
LEMMA FirstOf ==
  ASSUME NEW A, A \subseteq Nat, A # {}
  PROVE  (CHOOSE n \in A : \A m \in A : n <= m) \in A
<1>1. PICK R : /\ IsWellFoundedOn(R, Nat)
               /\ \A x, y \in Nat : x < y => <<x, y>> \in R
  BY NumbersWellFounded
<1>2. IsWellFoundedOn(R, Nat)
  BY <1>1
<1>3. PICK x \in A : \A y \in A : ~(<<y, x>> \in R)
  BY <1>2, MinimalElement, ZenonT(30)
<1>4. ASSUME NEW y \in A PROVE x <= y
  <2>1. x \in Nat /\ y \in Nat
    OBVIOUS
  <2>2. ~(y < x)
    BY <1>1, <1>3, <2>1, Zenon
  <2>. QED BY <2>1, <2>2
<1>5. \E n \in A : \A m \in A : n <= m
  BY <1>3, <1>4
<1>. QED BY <1>5, Zenon

\* socket() finds a descriptor that is free.
LEMMA LowestIsFree ==
  ASSUME Free # {}
  PROVE  Lowest \in Fds /\ desc[Lowest] = Nothing
<1>1. Free \subseteq Nat
  BY ConstantsAssumption DEF Free, Fds
<1>2. Lowest \in Free
  BY <1>1, FirstOf DEF Lowest
<1>. QED BY <1>2 DEF Free

\* disconnect() finds an entry of its descriptor.
LEMMA WhichIsEntry ==
  ASSUME TypeOK, NEW f, Entries(f) # {}
  PROVE  Which(f) \in 1 .. Len(clients) /\ clients[Which(f)].fd = f
<1>1. Entries(f) \subseteq Nat
  BY DEF Entries, TypeOK
<1>2. Which(f) \in Entries(f)
  BY <1>1, FirstOf DEF Which
<1>. QED BY <1>2 DEF Entries

-----------------------------------------------------------------------------
(* Types *)

LEMMA TypeInit == Init => TypeOK
<1> SUFFICES ASSUME Init PROVE TypeOK
  OBVIOUS
<1>1. /\ made \in Nat /\ desc \in [Fds -> 0 .. made]
      /\ early \subseteq 1 .. made
  BY DEF Init, Nothing
<1>2. \A e \in events : e.fd \in Fds
  BY DEF Init
<1>3. crossed \in BOOLEAN
  BY Zenon DEF Init
<1>4. clients \in Seq([fd : Fds, sock : Nat])
  BY DEF Init
<1>5. pc \in [Threads -> {"create", "idle"}]
  BY DEF Init
<1>6. /\ fd \in [Threads -> Fds \cup {Nothing}]
      /\ mine \in [Callers -> SUBSET Fds]
  BY DEF Init
<1>7. meant \in [Threads -> 0 .. made] /\ efd = "none"
  BY DEF Init, Nothing
<1>. QED
  BY <1>1, <1>2, <1>3, <1>4, <1>5, <1>6, <1>7 DEF TypeOK, Labels, Using

\* A step of a call.
LEMMA TypeCall ==
  ASSUME TypeOK, NEW t \in Threads, Call(t)
  PROVE  TypeOK'
<1> USE DEF Threads, Nothing
<1>1. CASE Socket(t)
  <2>1. CASE Free = {}
    BY <1>1, <2>1 DEF Socket, Return, Goto, After, TypeOK, Using, Labels
  <2>2. CASE Free # {}
    <3>1. Lowest \in Fds
      BY <2>2, LowestIsFree
    <3>2. /\ made' = made + 1
          /\ desc' = [desc EXCEPT ![Lowest] = made + 1]
          /\ fd' = [fd EXCEPT ![t] = Lowest]
          /\ pc' = [pc EXCEPT ![t] = "dial"]
          /\ UNCHANGED <<clients, efd, events, mine, meant, early, crossed>>
      BY <1>1, <2>2 DEF Socket, Goto
    <3>. QED BY <3>1, <3>2 DEF TypeOK, Using, Labels
  <2>. QED BY <2>1, <2>2
<1>2. CASE Dial(t)
  BY <1>2 DEF Dial, Goto, TypeOK, Using, Labels
<1>3. CASE Check(t)
  BY <1>3 DEF Check, Goto, TypeOK, Using, Labels
<1>4. CASE GiveUp(t)
  BY <1>4 DEF GiveUp, Return, Goto, After, TypeOK, Using, Labels
<1>5. CASE Push(t)
  <2>1. [fd |-> fd[t], sock |-> Sock(t)] \in [fd : Fds, sock : Nat]
    BY <1>5 DEF Push, Sock, TypeOK, Using
  <2>2. clients' \in Seq([fd : Fds, sock : Nat])
    BY <1>5, <2>1, AppendProperties DEF Push, TypeOK
  <2>. QED BY <1>5, <2>2 DEF Push, Goto, TypeOK, Using, Labels
<1>6. CASE Add(t)
  <2>1. pc' = [pc EXCEPT ![t] = IF t = Loop THEN "next" ELSE "idle"]
    BY <1>6 DEF Add, Return, Goto, After
  <2>2. mine' \in [Callers -> SUBSET Fds]
    BY <1>6 DEF Add, TypeOK, Using
  <2>3. early' \subseteq 1 .. made
    <3>1. {Sock(t)} \ {Nothing} \subseteq 1 .. made
      BY <1>6 DEF Add, Sock, TypeOK, Using
    <3>. QED BY <1>6, <3>1 DEF Add, TypeOK
  <2>. QED BY <1>6, <2>1, <2>2, <2>3 DEF Add, TypeOK, Using, Labels
<1>7. CASE Find(t)
  BY <1>7 DEF Find, Goto, TypeOK, Using, Labels
<1>8. CASE CloseFd(t)
  BY <1>8 DEF CloseFd, Sock, Dialled, Goto, TypeOK, Using, Labels
<1>9. CASE Erase(t)
  <2>1. clients' \in Seq([fd : Fds, sock : Nat]) /\ crossed' \in BOOLEAN
    <3>1. CASE Entries(fd[t]) = {}
      BY <1>9, <3>1 DEF Erase, TypeOK
    <3>2. CASE Entries(fd[t]) # {}
      <4>1. Which(fd[t]) \in 1 .. Len(clients)
        BY <3>2, WhichIsEntry
      <4>2. RemoveAt(clients, Which(fd[t])) \in Seq([fd : Fds, sock : Nat])
        BY <4>1, RemoveAtProperties DEF TypeOK
      <4>3. clients' = RemoveAt(clients, Which(fd[t])) /\ crossed' \in BOOLEAN
        BY <1>9, <3>2 DEF Erase, Without, TypeOK
      <4>. QED BY <4>2, <4>3
    <3>. QED BY <3>1, <3>2
  <2>2. /\ pc' = [pc EXCEPT ![t] = "socket"]
           \/ pc' = [pc EXCEPT ![t] = "next"]
           \/ pc' = [pc EXCEPT ![t] = "idle"]
        /\ UNCHANGED <<desc, made, efd, events, fd, mine, meant, early>>
    BY <1>9 DEF Erase, Goto, After
  <2>. QED BY <2>1, <2>2 DEF TypeOK, Using, Labels
<1>. QED
  BY <1>1, <1>2, <1>3, <1>4, <1>5, <1>6, <1>7, <1>8, <1>9 DEF Call

\* The steps of the kernel, of the callers and of the event thread between
\* their calls.
Outside ==
  \/ Kernel \/ Create \/ Wait \/ Callback \/ Lost \/ BreakOff \/ Turn
  \/ \E t \in Callers : CallerStarts(t) \/ Stop(t)

LEMMA TypeOutside ==
  ASSUME TypeOK, Outside
  PROVE  TypeOK'
<1> USE DEF Threads, Nothing
<1>1. CASE Kernel
  BY <1>1 DEF Kernel, Answer, Hangup, Data, threadVars, TypeOK
<1>2. CASE Create
  BY <1>2 DEF Create, Goto, TypeOK, Using, Labels
<1>3. CASE Wait
  BY <1>3 DEF Wait, Goto, TypeOK, Using, Labels
<1>4. CASE Callback
  BY <1>4 DEF Callback, TypeOK
<1>5. CASE Lost
  BY <1>5 DEF Lost, Goto, TypeOK, Using, Labels
<1>6. CASE BreakOff
  BY <1>6 DEF BreakOff, TypeOK
<1>7. CASE Turn
  BY <1>7 DEF Turn, Goto, TypeOK, Using, Labels
<1>8. ASSUME NEW t \in Callers, CallerStarts(t) PROVE TypeOK'
  <2>1. CASE pc' = [pc EXCEPT ![t] = "socket"] /\ UNCHANGED <<fd, mine>>
    BY <1>8, <2>1 DEF CallerStarts, TypeOK, Using, Labels
  <2>2. CASE \E f \in mine[t] :
               /\ fd' = [fd EXCEPT ![t] = f]
               /\ mine' = [mine EXCEPT ![t] = @ \ {f}]
               /\ \/ pc' = [pc EXCEPT ![t] = "close"]
                  \/ pc' = [pc EXCEPT ![t] = "find"]
    <3>1. PICK f \in mine[t] :
               /\ fd' = [fd EXCEPT ![t] = f]
               /\ mine' = [mine EXCEPT ![t] = @ \ {f}]
               /\ \/ pc' = [pc EXCEPT ![t] = "close"]
                  \/ pc' = [pc EXCEPT ![t] = "find"]
      BY <2>2
    <3>2. f \in Fds
      BY DEF TypeOK
    <3>3. mine' \in [Callers -> SUBSET Fds]
      BY <3>1 DEF TypeOK
    <3>. QED BY <1>8, <3>1, <3>2, <3>3 DEF CallerStarts, TypeOK, Using, Labels
  <2>. QED BY <1>8, <2>1, <2>2 DEF CallerStarts, Goto
<1>9. ASSUME NEW t \in Callers, Stop(t) PROVE TypeOK'
  BY <1>9 DEF Stop, TypeOK
<1>. QED
  BY <1>1, <1>2, <1>3, <1>4, <1>5, <1>6, <1>7, <1>8, <1>9 DEF Outside

LEMMA TypeUndefined ==
  ASSUME TypeOK, Undefined
  PROVE  TypeOK'
  BY DEF Undefined, TypeOK, Using, Labels, Threads

\* What a step can be.
LEMMA StepKinds ==
  ASSUME [Next]_vars
  PROVE  \/ \E t \in Threads : Call(t)
         \/ Outside \/ Undefined \/ UNCHANGED vars
  BY DEF Next, EventThread, AnyCaller, Outside, Threads

LEMMA TypeNext ==
  ASSUME TypeOK, [Next]_vars
  PROVE  TypeOK'
<1>1. CASE UNCHANGED vars
  BY <1>1 DEF vars, TypeOK
<1>. QED
  BY <1>1, StepKinds, TypeCall, TypeOutside, TypeUndefined

-----------------------------------------------------------------------------
(* The books *)

LEMMA BooksInit == Init => Books
<1> SUFFICES ASSUME Init PROVE Books
  OBVIOUS
<1>1. \A f \in Fds : desc[f] = Nothing
  BY DEF Init
<1>2. Len(clients) = 0 /\ Booked = {}
  BY DEF Init, Booked
<1>3. \A t \in Threads : ~Opening(t) /\ ~Adding(t) /\ ~Erasing(t)
  BY DEF Init, Opening, Adding, Erasing
<1>4. watched = {} /\ made = 0
  BY DEF Init
<1>5. OneDescriptor /\ OneEntry /\ EntryLive
  BY <1>1, <1>2 DEF OneDescriptor, OneEntry, EntryLive
<1>6. CallHasSocket /\ CallsApart /\ ClosedForGood
  BY <1>3 DEF CallHasSocket, CallsApart, ClosedForGood
<1>7. SetFollows
  BY <1>4 DEF SetFollows
<1>. QED BY <1>5, <1>6, <1>7 DEF Books

LEMMA BookedType ==
  ASSUME TypeOK, NEW e \in Booked
  PROVE  e.fd \in Fds /\ e.sock \in Nat
<1>1. PICK n \in 1 .. Len(clients) : e = clients[n]
  BY DEF Booked
<1>2. clients \in Seq([fd : Fds, sock : Nat])
  BY DEF TypeOK
<1>3. clients[n] \in [fd : Fds, sock : Nat]
  BY <1>2, ElementOfSeq
<1>. QED BY <1>1, <1>3

\* A step that leaves the books alone: no call gets a descriptor, adds or
\* erases, though one may end or go on.
Quiet ==
  /\ UNCHANGED <<desc, made, clients, early, meant, crossed>>
  /\ efd' # "gone" => efd # "gone" /\ watched' = watched
  /\ \A t \in Threads :
       /\ Adding(t)' <=> Adding(t)
       /\ Erasing(t)' <=> Erasing(t)
       /\ Opening(t)' => Opening(t)
       /\ Opening(t)' \/ Adding(t) \/ Erasing(t) => fd'[t] = fd[t]

LEMMA QuietKeepsBooks ==
  ASSUME Books, Quiet
  PROVE  Books'
<1>1. OneDescriptor' /\ OneEntry'
  BY DEF Books, Quiet, OneDescriptor, OneEntry
<1>2. Booked' = Booked /\ \A s : InBook(s)' <=> InBook(s)
  BY DEF Quiet, Booked, InBook
<1>3. EntryLive'
  BY <1>2 DEF Books, Quiet, EntryLive
<1>4. CallHasSocket'
  BY <1>2 DEF Books, Quiet, CallHasSocket, Sock
<1>5. CallsApart'
  BY DEF Books, Quiet, CallsApart
<1>6. ClosedForGood'
  BY DEF Books, Quiet, ClosedForGood
<1>7. SetFollows'
  <2> SUFFICES ASSUME efd' # "gone"
               PROVE  /\ watched' \subseteq 1 .. made'
                      /\ \A s \in 1 .. made' :
                           s \in watched' <=>
                             /\ InBook(s)' /\ IsOpen(s)' /\ s \notin early'
                             /\ \A t \in Threads :
                                  Adding(t)' => Sock(t)' # s
    BY DEF SetFollows
  <2>1. watched' = watched /\ made' = made /\ early' = early
    BY DEF Quiet
  <2>2. \A s : IsOpen(s)' <=> IsOpen(s)
    BY DEF Quiet, IsOpen
  <2>3. \A t \in Threads : Adding(t)' => Adding(t) /\ Sock(t)' = Sock(t)
    BY DEF Quiet, Sock
  <2>4. \A t \in Threads : Adding(t) => Adding(t)' /\ Sock(t)' = Sock(t)
    BY DEF Quiet, Sock
  <2>5. efd # "gone"
    BY DEF Quiet
  <2>6. /\ watched \subseteq 1 .. made
        /\ \A s \in 1 .. made :
             s \in watched <=> /\ InBook(s) /\ IsOpen(s) /\ s \notin early
                               /\ \A t \in Threads : Adding(t) => Sock(t) # s
    BY <2>5 DEF Books, SetFollows
  <2>. QED BY <1>2, <2>1, <2>2, <2>3, <2>4, <2>6
<1>. QED
  BY <1>1, <1>3, <1>4, <1>5, <1>6, <1>7 DEF Books

LEMMA OutsideIsQuiet ==
  ASSUME TypeOK, Outside
  PROVE  Quiet
<1> USE DEF Quiet, Opening, Adding, Erasing, Threads
<1>1. CASE Kernel
  BY <1>1 DEF Kernel, Answer, Hangup, Data, threadVars
<1>2. CASE Create
  <2>1. /\ pc[Loop] = "create" /\ watched' = watched /\ fd' = fd
        /\ UNCHANGED <<desc, made, clients, early, meant, crossed>>
        /\ efd' = "open" \/ efd' = efd
        /\ \/ pc' = [pc EXCEPT ![Loop] = "wait"]
           \/ pc' = [pc EXCEPT ![Loop] = "ended"]
    BY <1>2 DEF Create, Goto
  <2>2. efd' # "gone" => efd # "gone" /\ watched' = watched
    BY <1>2 DEF Create, TypeOK
  <2>. QED BY <2>1, <2>2 DEF TypeOK
<1>3. CASE Wait
  BY <1>3 DEF Wait, Goto, TypeOK
<1>4. CASE Callback
  BY <1>4 DEF Callback
<1>5. CASE Lost
  BY <1>5 DEF Lost, Goto, TypeOK
<1>6. CASE BreakOff
  BY <1>6 DEF BreakOff
<1>7. CASE Turn
  BY <1>7 DEF Turn, Goto, TypeOK
<1>8. ASSUME NEW t \in Callers, CallerStarts(t) PROVE Quiet
  <2>1. /\ pc[t] = "idle"
        /\ \/ pc' = [pc EXCEPT ![t] = "socket"] /\ fd' = fd
           \/ /\ \/ pc' = [pc EXCEPT ![t] = "close"]
                 \/ pc' = [pc EXCEPT ![t] = "find"]
              /\ \E f \in mine[t] : fd' = [fd EXCEPT ![t] = f]
        /\ UNCHANGED <<desc, made, clients, early, meant, crossed, efd,
                       watched>>
    BY <1>8 DEF CallerStarts, Goto
  <2>. QED BY <2>1 DEF TypeOK
<1>9. ASSUME NEW t \in Callers, Stop(t) PROVE Quiet
  BY <1>9 DEF Stop
<1>. QED
  BY <1>1, <1>2, <1>3, <1>4, <1>5, <1>6, <1>7, <1>8, <1>9 DEF Outside

LEMMA CallIsQuiet ==
  ASSUME TypeOK, NEW t \in Threads, Dial(t) \/ Check(t) \/ GiveUp(t) \/ Find(t)
  PROVE  Quiet
<1> USE DEF Quiet, Opening, Adding, Erasing
<1>1. CASE Dial(t)
  BY <1>1 DEF Dial, Goto, TypeOK
<1>2. CASE Check(t)
  BY <1>2 DEF Check, Goto, TypeOK
<1>3. CASE GiveUp(t)
  BY <1>3 DEF GiveUp, Return, Goto, After, TypeOK
<1>4. CASE Find(t)
  BY <1>4 DEF Find, Goto, TypeOK
<1>. QED BY <1>1, <1>2, <1>3, <1>4

\* socket(): the new one is behind one descriptor, in no entry and unknown.
LEMMA SocketKeepsBooks ==
  ASSUME TypeOK, Books, NEW t \in Threads, Socket(t)
  PROVE  Books'
<1>1. CASE Free = {}
  <2>1. Quiet
    BY <1>1 DEF Socket, Return, Goto, After, TypeOK, Quiet, Opening, Adding,
       Erasing
  <2>. QED BY <2>1, QuietKeepsBooks
<1>2. CASE Free # {}
  <2> DEFINE d == Lowest
  <2>1. d \in Fds /\ desc[d] = 0
    BY <1>2, LowestIsFree DEF Nothing
  <2>2. /\ made' = made + 1 /\ desc' = [desc EXCEPT ![d] = made + 1]
        /\ fd' = [fd EXCEPT ![t] = d]
        /\ pc[t] = "socket" /\ pc' = [pc EXCEPT ![t] = "dial"]
        /\ UNCHANGED <<clients, efd, watched, meant, early>>
    BY <1>2 DEF Socket, Goto
  <2> HIDE DEF d
  <2>3. /\ made \in Nat /\ desc \in [Fds -> 0 .. made]
        /\ early \subseteq 1 .. made /\ meant \in [Threads -> 0 .. made]
        /\ pc \in [Threads -> Labels] /\ fd \in [Threads -> Fds \cup {Nothing}]
    BY DEF TypeOK
  <2>4. desc'[d] = made + 1 /\ \A f \in Fds : f # d => desc'[f] = desc[f]
    BY <2>1, <2>2, <2>3
  <2>5. \A f \in Fds : desc[f] \in Nat /\ desc[f] <= made /\ desc[f] # made + 1
    BY <2>3
  <2>6. /\ fd'[t] = d /\ \A u \in Threads \ {t} : fd'[u] = fd[u]
        /\ ~Opening(t) /\ ~Adding(t) /\ ~Erasing(t)
        /\ Opening(t)' /\ ~Adding(t)' /\ ~Erasing(t)'
        /\ \A u \in Threads \ {t} : /\ Opening(u)' <=> Opening(u)
                                    /\ Adding(u)' <=> Adding(u)
                                    /\ Erasing(u)' <=> Erasing(u)
    BY <2>2, <2>3 DEF Opening, Adding, Erasing
  <2>7. Booked' = Booked /\ \A s : InBook(s)' <=> InBook(s)
    BY <2>2 DEF Booked, InBook
  <2>8. \A e \in Booked : e.sock \in 1 .. made
    BY DEF Books, EntryLive
  <2>9. \A u \in Threads : Opening(u) \/ Adding(u) =>
          /\ fd[u] \in Fds /\ desc[fd[u]] \in 1 .. made /\ fd[u] # d
          /\ Sock(u) \in 1 .. made /\ Sock(u) \notin early
          /\ InBook(Sock(u)) <=> Adding(u)
    BY <2>1, <2>3 DEF Books, CallHasSocket, Sock, TypeOK, Opening, Adding,
       Using
  <2>10. Sock(t)' = made + 1
         /\ \A u \in Threads \ {t} :
              Opening(u) \/ Adding(u) => Sock(u)' = Sock(u)
    BY <2>4, <2>6, <2>9 DEF Sock
  <2>11. OneDescriptor'
    BY <2>3, <2>4, <2>5 DEF Books, OneDescriptor, Nothing
  <2>12. OneEntry'
    BY <2>2 DEF Books, OneEntry
  <2>13. EntryLive'
    <3> SUFFICES ASSUME NEW e \in Booked
                 PROVE  /\ e.sock \in 1 .. made'
                        /\ \/ desc'[e.fd] = e.sock
                           \/ \E u \in Threads :
                                Erasing(u)' /\ fd'[u] = e.fd
                                /\ meant'[u] = e.sock
      BY <2>7 DEF EntryLive
    <3>1. e.sock \in 1 .. made'
      BY <2>2, <2>3, <2>8
    <3>2. CASE desc[e.fd] = e.sock
      <4>1. e.fd \in Fds
        BY BookedType
      <4>2. e.fd # d
        BY <2>1, <2>3, <2>8, <3>2
      <4>. QED BY <2>4, <3>1, <3>2, <4>1, <4>2
    <3>3. ASSUME NEW u \in Threads, Erasing(u), fd[u] = e.fd, meant[u] = e.sock
          PROVE  Erasing(u)' /\ fd'[u] = e.fd /\ meant'[u] = e.sock
      BY <2>2, <2>6, <3>3
    <3>. QED BY <3>1, <3>2, <3>3 DEF Books, EntryLive
  <2>14. CallHasSocket'
    <3> SUFFICES ASSUME NEW u \in Threads, Opening(u)' \/ Adding(u)'
                 PROVE  /\ Sock(u)' \in 1 .. made' /\ Sock(u)' \notin early'
                        /\ InBook(Sock(u)') <=> Adding(u)'
      BY <2>7 DEF CallHasSocket, InBook
    <3>1. CASE u = t
      <4>1. ~InBook(made + 1)
        BY <2>3, <2>8 DEF InBook
      <4>. QED BY <2>2, <2>3, <2>6, <2>10, <3>1, <4>1
    <3>2. CASE u # t
      <4>1. Opening(u) \/ Adding(u)
        BY <2>6, <3>2
      <4>2. Sock(u)' = Sock(u) /\ (Adding(u)' <=> Adding(u))
        BY <2>6, <2>10, <3>2, <4>1
      <4>. QED BY <2>2, <2>3, <2>9, <4>1, <4>2
    <3>. QED BY <3>1, <3>2
  <2>15. CallsApart'
    BY <2>6, <2>9 DEF Books, CallsApart
  <2>16. ClosedForGood'
    <3> SUFFICES ASSUME NEW u \in Threads, NEW f \in Fds, Erasing(u)',
                        desc'[f] # Nothing
                 PROVE  desc'[f] # meant'[u]
      BY DEF ClosedForGood
    <3>1. Erasing(u) /\ meant'[u] \in 0 .. made /\ meant'[u] = meant[u]
      BY <2>2, <2>3, <2>6
    <3>2. CASE f = d
      BY <2>3, <2>4, <3>1, <3>2
    <3>3. CASE f # d
      BY <2>4, <3>1, <3>3 DEF Books, ClosedForGood
    <3>. QED BY <3>2, <3>3
  <2>17. SetFollows'
    <3> SUFFICES ASSUME efd # "gone"
                 PROVE  /\ watched \subseteq 1 .. made + 1
                        /\ \A s \in 1 .. made + 1 :
                             s \in watched <=>
                               /\ InBook(s) /\ IsOpen(s)' /\ s \notin early
                               /\ \A u \in Threads :
                                    Adding(u)' => Sock(u)' # s
      BY <2>2, <2>7 DEF SetFollows
    <3>1. /\ watched \subseteq 1 .. made
          /\ \A s \in 1 .. made :
               s \in watched <=>
                 /\ InBook(s) /\ IsOpen(s) /\ s \notin early
                 /\ \A u \in Threads : Adding(u) => Sock(u) # s
      BY DEF Books, SetFollows
    <3>2. \A s \in 1 .. made : IsOpen(s)' <=> IsOpen(s)
      BY <2>1, <2>3, <2>4 DEF IsOpen
    <3>3. \A u \in Threads : (Adding(u)' <=> Adding(u))
                             /\ (Adding(u) => Sock(u)' = Sock(u))
      BY <2>6, <2>10
    <3>4. ~InBook(made + 1) /\ made + 1 \notin watched
      BY <2>3, <2>8, <3>1 DEF InBook
    <3>5. \A s \in 1 .. made + 1 : s \in 1 .. made \/ s = made + 1
      BY <2>3
    <3>6. watched \subseteq 1 .. made + 1
      BY <2>3, <3>1
    <3>. QED BY <3>1, <3>2, <3>3, <3>4, <3>5, <3>6
  <2>. QED
    BY <2>11, <2>12, <2>13, <2>14, <2>15, <2>16, <2>17 DEF Books
<1>. QED BY <1>1, <1>2

\* clients_conf.push_back(): the new entry is that of an open socket.
LEMMA PushKeepsBooks ==
  ASSUME TypeOK, Books, NEW t \in Threads, Push(t)
  PROVE  Books'
<1> DEFINE s == Sock(t)
           entry == [fd |-> fd[t], sock |-> s]
<1>1. /\ pc[t] = "push" /\ pc' = [pc EXCEPT ![t] = "add"]
      /\ clients' = Append(clients, entry)
      /\ UNCHANGED <<desc, made, efd, watched, fd, meant, early>>
  BY DEF Push, Goto
<1>2. /\ made \in Nat /\ fd[t] \in Fds /\ pc \in [Threads -> Labels]
      /\ clients \in Seq([fd : Fds, sock : Nat])
  BY <1>1 DEF TypeOK, Using
<1>3. Opening(t) /\ ~Adding(t) /\ ~Erasing(t)
  BY <1>1 DEF Opening, Adding, Erasing
<1>4. s \in 1 .. made /\ s \notin early /\ ~InBook(s)
  BY <1>3 DEF Books, CallHasSocket
<1>5. entry \in [fd : Fds, sock : Nat] /\ entry.sock = s /\ entry.fd = fd[t]
  BY <1>2, <1>4
<1>6. desc[fd[t]] = s
  BY DEF Sock
<1>7. \A u \in Threads : Sock(u)' = Sock(u)
  BY <1>1 DEF Sock
<1> HIDE DEF s, entry
<1>8. /\ Len(clients) \in Nat /\ Len(clients') = Len(clients) + 1
      /\ clients'[Len(clients) + 1] = entry
      /\ \A n \in 1 .. Len(clients) : clients'[n] = clients[n]
  BY <1>1, <1>2, <1>5, AppendProperties
<1>9. Booked' = Booked \cup {entry}
  BY <1>8 DEF Booked
<1>10. \A x : InBook(x)' <=> InBook(x) \/ x = s
  BY <1>5, <1>9 DEF InBook
<1>11. /\ ~Opening(t)' /\ Adding(t)' /\ ~Erasing(t)'
       /\ \A u \in Threads \ {t} : /\ Opening(u)' <=> Opening(u)
                                   /\ Adding(u)' <=> Adding(u)
                                   /\ Erasing(u)' <=> Erasing(u)
  BY <1>1, <1>2 DEF Opening, Adding, Erasing
<1>12. OneDescriptor' /\ ClosedForGood'
  BY <1>1, <1>3, <1>11 DEF Books, OneDescriptor, ClosedForGood
<1>13. OneEntry'
  <2> SUFFICES ASSUME NEW n \in 1 .. Len(clients'),
                      NEW m \in 1 .. Len(clients'),
                      clients'[n].sock = clients'[m].sock
               PROVE  n = m
    BY DEF OneEntry
  <2>1. \A i \in 1 .. Len(clients) : clients[i].sock # s
    BY <1>4 DEF InBook, Booked
  <2>2. /\ n \in 1 .. Len(clients) \/ n = Len(clients) + 1
        /\ m \in 1 .. Len(clients) \/ m = Len(clients) + 1
    BY <1>8
  <2>3. CASE n \in 1 .. Len(clients) /\ m \in 1 .. Len(clients)
    BY <1>8, <2>3 DEF Books, OneEntry
  <2>. QED BY <1>5, <1>8, <2>1, <2>2, <2>3
<1>14. EntryLive'
  <2> SUFFICES ASSUME NEW e \in Booked'
               PROVE  /\ e.sock \in 1 .. made
                      /\ \/ desc[e.fd] = e.sock
                         \/ \E u \in Threads :
                              Erasing(u)' /\ fd[u] = e.fd /\ meant[u] = e.sock
    BY <1>1 DEF EntryLive
  <2>1. CASE e = entry
    BY <1>4, <1>5, <1>6, <2>1
  <2>2. CASE e \in Booked
    <3>1. \A u \in Threads : Erasing(u) => Erasing(u)'
      BY <1>3, <1>11
    <3>. QED BY <2>2, <3>1 DEF Books, EntryLive
  <2>. QED BY <1>9, <2>1, <2>2
<1>15. \A u \in Threads \ {t} : Opening(u) \/ Adding(u) => Sock(u) # s
  <2> SUFFICES ASSUME NEW u \in Threads, u # t, Opening(u) \/ Adding(u)
               PROVE  Sock(u) # s
    OBVIOUS
  <2>1. fd[u] # fd[t]
    BY <1>3 DEF Books, CallsApart
  <2>2. fd[u] \in Fds
    BY DEF TypeOK, Opening, Adding, Using
  <2>. QED BY <1>2, <1>4, <1>6, <2>1, <2>2
       DEF Books, OneDescriptor, Sock, Nothing
<1>16. CallHasSocket'
  <2> SUFFICES ASSUME NEW u \in Threads, Opening(u)' \/ Adding(u)'
               PROVE  /\ Sock(u) \in 1 .. made /\ Sock(u) \notin early
                      /\ (InBook(Sock(u)) \/ Sock(u) = s) <=> Adding(u)'
    BY <1>1, <1>7, <1>10 DEF CallHasSocket, InBook
  <2>1. CASE u = t
    BY <1>4, <1>11, <2>1 DEF s
  <2>2. CASE u # t
    BY <1>11, <1>15, <2>2 DEF Books, CallHasSocket
  <2>. QED BY <2>1, <2>2
<1>17. CallsApart'
  BY <1>1, <1>3, <1>11 DEF Books, CallsApart
<1>18. SetFollows'
  <2> SUFFICES ASSUME efd # "gone"
               PROVE  /\ watched \subseteq 1 .. made
                      /\ \A x \in 1 .. made :
                           x \in watched <=>
                             /\ InBook(x) \/ x = s
                             /\ IsOpen(x) /\ x \notin early
                             /\ \A u \in Threads : Adding(u)' => Sock(u) # x
    BY <1>1, <1>7, <1>10 DEF SetFollows, IsOpen
  <2>1. /\ watched \subseteq 1 .. made
        /\ \A x \in 1 .. made :
             x \in watched <=>
               /\ InBook(x) /\ IsOpen(x) /\ x \notin early
               /\ \A u \in Threads : Adding(u) => Sock(u) # x
    BY DEF Books, SetFollows
  <2>2. \A u \in Threads : Adding(u)' <=> Adding(u) \/ u = t
    BY <1>11
  <2>. QED BY <1>3, <1>4, <2>1, <2>2 DEF s
<1>. QED
  BY <1>12, <1>13, <1>14, <1>16, <1>17, <1>18 DEF Books

\* Where two calls have their sockets apart.
LEMMA SocketsApart ==
  ASSUME TypeOK, Books, NEW t \in Threads, Opening(t) \/ Adding(t)
  PROVE  \A u \in Threads \ {t} :
           Opening(u) \/ Adding(u) => Sock(u) # Sock(t)
<1> SUFFICES ASSUME NEW u \in Threads, u # t, Opening(u) \/ Adding(u)
             PROVE  Sock(u) # Sock(t)
  OBVIOUS
<1>1. fd[u] # fd[t]
  BY DEF Books, CallsApart
<1>2. fd[u] \in Fds /\ fd[t] \in Fds
  BY DEF TypeOK, Opening, Adding, Using
<1>3. Sock(t) \in 1 .. made /\ made \in Nat
  BY DEF Books, CallHasSocket, TypeOK
<1>. QED BY <1>1, <1>2, <1>3 DEF Books, OneDescriptor, Sock, Nothing

\* ep_add_fd(): the new socket is watched, or counts as early.
LEMMA AddKeepsBooks ==
  ASSUME TypeOK, Books, NEW t \in Threads, Add(t)
  PROVE  Books'
<1> DEFINE s == Sock(t)
<1>1. /\ pc[t] = "add"
      /\ pc' = [pc EXCEPT ![t] = IF t = Loop THEN "next" ELSE "idle"]
      /\ UNCHANGED <<desc, made, clients, efd, fd, meant>>
  BY DEF Add, Return, Goto, After
<1>2. Adding(t) /\ ~Opening(t) /\ ~Erasing(t)
  BY <1>1 DEF Opening, Adding, Erasing
<1>3. s \in 1 .. made /\ s \notin early /\ InBook(s) /\ s # Nothing
  <2>1. made \in Nat
    BY DEF TypeOK
  <2>. QED BY <1>2, <2>1 DEF Books, CallHasSocket, Nothing
<1>4. IF efd = "open"
      THEN watched' = watched \cup {s} /\ early' = early
      ELSE watched' = watched /\ early' = early \cup {s}
  BY <1>3 DEF Add, Watchable
<1>5. IsOpen(s)
  BY <1>1 DEF IsOpen, Sock, TypeOK, Using
<1>6. /\ \A u \in Threads : Sock(u)' = Sock(u)
      /\ Booked' = Booked
      /\ \A x : (InBook(x)' <=> InBook(x)) /\ (IsOpen(x)' <=> IsOpen(x))
  BY <1>1 DEF Sock, Booked, InBook, IsOpen
<1>7. \A u \in Threads \ {t} : Opening(u) \/ Adding(u) => Sock(u) # s
  BY <1>2, SocketsApart
<1> HIDE DEF s
<1>8. pc \in [Threads -> Labels]
  BY DEF TypeOK
<1>9. /\ ~Opening(t)' /\ ~Adding(t)' /\ ~Erasing(t)'
      /\ \A u \in Threads \ {t} : /\ Opening(u)' <=> Opening(u)
                                  /\ Adding(u)' <=> Adding(u)
                                  /\ Erasing(u)' <=> Erasing(u)
  BY <1>1, <1>8 DEF Opening, Adding, Erasing
<1>10. OneDescriptor' /\ OneEntry' /\ ClosedForGood'
  BY <1>1, <1>9
     DEF Books, OneDescriptor, OneEntry, ClosedForGood
<1>11. EntryLive'
  <2>1. \A u \in Threads : Erasing(u) => Erasing(u)'
    BY <1>2, <1>9
  <2>. QED BY <1>1, <1>6, <2>1 DEF Books, EntryLive
<1>12. CallHasSocket'
  <2> SUFFICES ASSUME NEW u \in Threads, Opening(u)' \/ Adding(u)'
               PROVE  /\ Sock(u) \in 1 .. made /\ Sock(u) \notin early'
                      /\ InBook(Sock(u)) <=> Adding(u)'
    BY <1>1, <1>6 DEF CallHasSocket, InBook
  <2>1. u # t /\ (Opening(u) \/ Adding(u)) /\ (Adding(u)' <=> Adding(u))
    BY <1>9
  <2>2. Sock(u) # s
    BY <1>7, <2>1
  <2>3. Sock(u) \in 1 .. made /\ Sock(u) \notin early
        /\ (InBook(Sock(u)) <=> Adding(u))
    BY <2>1 DEF Books, CallHasSocket
  <2>. QED BY <1>4, <2>1, <2>2, <2>3
<1>13. CallsApart'
  BY <1>1, <1>9 DEF Books, CallsApart
<1>14. SetFollows'
  <2> SUFFICES ASSUME efd # "gone"
               PROVE  /\ watched' \subseteq 1 .. made
                      /\ \A x \in 1 .. made :
                           x \in watched' <=>
                             /\ InBook(x) /\ IsOpen(x) /\ x \notin early'
                             /\ \A u \in Threads : Adding(u)' => Sock(u) # x
    BY <1>1, <1>6 DEF SetFollows
  <2>1. /\ watched \subseteq 1 .. made
        /\ \A x \in 1 .. made :
             x \in watched <=>
               /\ InBook(x) /\ IsOpen(x) /\ x \notin early
               /\ \A u \in Threads : Adding(u) => Sock(u) # x
    BY DEF Books, SetFollows
  <2>2. watched' \subseteq 1 .. made
    BY <1>3, <1>4, <2>1
  <2>3. ASSUME NEW x \in 1 .. made, x # s
        PROVE  x \in watched' <=>
                 /\ InBook(x) /\ IsOpen(x) /\ x \notin early'
                 /\ \A u \in Threads : Adding(u)' => Sock(u) # x
    <3>1. (\A u \in Threads : Adding(u)' => Sock(u) # x)
            <=> (\A u \in Threads : Adding(u) => Sock(u) # x)
      BY <1>9, <2>3 DEF s
    <3>2. (x \in watched' <=> x \in watched) /\ (x \in early' <=> x \in early)
      BY <1>4, <2>3
    <3>. QED BY <2>1, <3>1, <3>2
  <2>4. s \in watched' <=>
          /\ InBook(s) /\ IsOpen(s) /\ s \notin early'
          /\ \A u \in Threads : Adding(u)' => Sock(u) # s
    <3>1. \A u \in Threads : Adding(u)' => Sock(u) # s
      BY <1>7, <1>9
    <3>2. s \notin watched
      BY <1>2, <1>3, <2>1 DEF s
    <3>. QED BY <1>3, <1>4, <1>5, <3>1, <3>2
  <2>. QED BY <2>2, <2>3, <2>4
<1>. QED
  BY <1>10, <1>11, <1>12, <1>13, <1>14 DEF Books

\* disconnect() closes a descriptor on which no other connects.
LEMMA CloseKeepsBooks ==
  ASSUME TypeOK, Books, NEW t \in Threads, CloseFd(t), ~crossed'
  PROVE  Books'
<1> DEFINE f == fd[t]
           s == Sock(t)
<1>1. /\ pc[t] = "close" /\ pc' = [pc EXCEPT ![t] = "erase"]
      /\ desc' = [desc EXCEPT ![f] = 0] /\ watched' = watched \ {s}
      /\ meant' = [meant EXCEPT ![t] = s]
      /\ UNCHANGED <<made, clients, efd, fd, early>>
  BY DEF CloseFd, Goto, Nothing
<1>2. /\ f \in Fds /\ desc \in [Fds -> 0 .. made] /\ made \in Nat
      /\ meant \in [Threads -> 0 .. made] /\ pc \in [Threads -> Labels]
  BY <1>1 DEF TypeOK, Using
<1>3. ~Opening(t) /\ ~Adding(t) /\ ~Erasing(t)
  BY <1>1 DEF Opening, Adding, Erasing
<1>4. /\ ~Opening(t)' /\ ~Adding(t)' /\ Erasing(t)'
      /\ \A u \in Threads \ {t} : /\ Opening(u)' <=> Opening(u)
                                  /\ Adding(u)' <=> Adding(u)
                                  /\ Erasing(u)' <=> Erasing(u)
  BY <1>1, <1>2 DEF Opening, Adding, Erasing
<1>5. \A u \in Threads : Opening(u) \/ Adding(u) => fd[u] # f
  <2>1. ~Dialled(f, t)
    BY DEF CloseFd
  <2>. QED BY <1>3, <2>1 DEF Dialled, Opening, Adding
<1>6. \A u \in Threads : Opening(u) \/ Adding(u) =>
        fd[u] \in Fds /\ Sock(u)' = Sock(u)
  BY <1>1, <1>2, <1>5 DEF Sock, TypeOK, Opening, Adding, Using
<1>7. desc[f] = s
  BY DEF Sock
<1> HIDE DEF f, s
<1>8. desc'[f] = 0 /\ \A g \in Fds : g # f => desc'[g] = desc[g]
  BY <1>1, <1>2
<1>9. meant'[t] = s /\ \A u \in Threads \ {t} : meant'[u] = meant[u]
  BY <1>1, <1>2
<1>10. Booked' = Booked /\ \A x : InBook(x)' <=> InBook(x)
  BY <1>1 DEF Booked, InBook
<1>11. OneDescriptor' /\ OneEntry'
  BY <1>1, <1>8 DEF Books, OneDescriptor, OneEntry, Nothing
<1>12. EntryLive'
  <2> SUFFICES ASSUME NEW e \in Booked
               PROVE  /\ e.sock \in 1 .. made
                      /\ \/ desc'[e.fd] = e.sock
                         \/ \E u \in Threads :
                              Erasing(u)' /\ fd[u] = e.fd
                              /\ meant'[u] = e.sock
    BY <1>1, <1>10 DEF EntryLive
  <2>1. e.fd \in Fds /\ e.sock \in 1 .. made
    BY BookedType DEF Books, EntryLive
  <2>2. CASE desc[e.fd] = e.sock
    <3>1. CASE e.fd = f
      BY <1>4, <1>7, <1>9, <2>1, <2>2, <3>1 DEF f
    <3>2. CASE e.fd # f
      BY <1>8, <2>1, <2>2, <3>2
    <3>. QED BY <3>1, <3>2
  <2>3. ASSUME NEW u \in Threads, Erasing(u), fd[u] = e.fd, meant[u] = e.sock
        PROVE  Erasing(u)' /\ meant'[u] = e.sock
    BY <1>3, <1>4, <1>9, <2>3
  <2>. QED BY <2>1, <2>2, <2>3 DEF Books, EntryLive
<1>13. CallHasSocket'
  <2> SUFFICES ASSUME NEW u \in Threads, Opening(u)' \/ Adding(u)'
               PROVE  /\ Sock(u)' \in 1 .. made /\ Sock(u)' \notin early
                      /\ InBook(Sock(u)') <=> Adding(u)'
    BY <1>1, <1>10 DEF CallHasSocket, InBook
  <2>1. (Opening(u) \/ Adding(u)) /\ (Adding(u)' <=> Adding(u))
    BY <1>3, <1>4
  <2>2. Sock(u)' = Sock(u)
    BY <1>6, <2>1
  <2>3. Sock(u) \in 1 .. made /\ Sock(u) \notin early
        /\ (InBook(Sock(u)) <=> Adding(u))
    BY <2>1 DEF Books, CallHasSocket
  <2>. QED BY <2>1, <2>2, <2>3
<1>14. CallsApart'
  BY <1>1, <1>3, <1>4 DEF Books, CallsApart
<1>15. ClosedForGood'
  <2> SUFFICES ASSUME NEW u \in Threads, NEW g \in Fds, Erasing(u)',
                      desc'[g] # 0
               PROVE  desc'[g] # meant'[u]
    BY DEF ClosedForGood, Nothing
  <2>1. g # f /\ desc'[g] = desc[g] /\ desc[g] # 0
    BY <1>8
  <2>2. CASE u = t
    BY <1>2, <1>7, <1>9, <2>1, <2>2 DEF Books, OneDescriptor, Nothing
  <2>3. CASE u # t
    BY <1>4, <1>9, <2>1, <2>3 DEF Books, ClosedForGood, Nothing
  <2>. QED BY <2>2, <2>3
<1>16. SetFollows'
  <2> SUFFICES ASSUME efd # "gone"
               PROVE  /\ watched' \subseteq 1 .. made
                      /\ \A x \in 1 .. made :
                           x \in watched' <=>
                             /\ InBook(x) /\ IsOpen(x)' /\ x \notin early
                             /\ \A u \in Threads : Adding(u)' => Sock(u)' # x
    BY <1>1, <1>10 DEF SetFollows
  <2>1. /\ watched \subseteq 1 .. made
        /\ \A x \in 1 .. made :
             x \in watched <=>
               /\ InBook(x) /\ IsOpen(x) /\ x \notin early
               /\ \A u \in Threads : Adding(u) => Sock(u) # x
    BY DEF Books, SetFollows
  <2>2. \A u \in Threads : (Adding(u)' <=> Adding(u))
                           /\ (Adding(u) => Sock(u)' = Sock(u))
    BY <1>3, <1>4, <1>6
  <2>3. \A x \in 1 .. made : IsOpen(x)' <=> IsOpen(x) /\ x # s
    <3> TAKE x \in 1 .. made
    <3>1. ASSUME IsOpen(x)' PROVE IsOpen(x) /\ x # s
      <4>1. PICK g \in Fds : desc'[g] = x
        BY <3>1 DEF IsOpen
      <4>2. g # f /\ desc[g] = x /\ x # 0
        BY <1>2, <1>8, <4>1
      <4>. QED
        BY <1>2, <1>7, <4>2 DEF Books, OneDescriptor, Nothing, IsOpen
    <3>2. ASSUME IsOpen(x), x # s PROVE IsOpen(x)'
      <4>1. PICK g \in Fds : desc[g] = x
        BY <3>2 DEF IsOpen
      <4>2. g # f /\ desc'[g] = x
        BY <1>7, <1>8, <3>2, <4>1
      <4>. QED BY <4>2 DEF IsOpen
    <3>. QED BY <3>1, <3>2
  <2>4. watched' \subseteq 1 .. made
    BY <1>1, <2>1
  <2>. QED BY <1>1, <2>1, <2>2, <2>3, <2>4
<1>. QED
  BY <1>11, <1>12, <1>13, <1>14, <1>15, <1>16 DEF Books

\* disconnect() erases the entry of the socket it has closed, or finds none.
LEMMA EraseKeepsBooks ==
  ASSUME TypeOK, Books, NEW t \in Threads, Erase(t), ~crossed'
  PROVE  Books'
<1>1. /\ pc[t] = "erase"
      /\ \/ pc' = [pc EXCEPT ![t] = "socket"]
         \/ pc' = [pc EXCEPT ![t] = "next"]
         \/ pc' = [pc EXCEPT ![t] = "idle"]
      /\ UNCHANGED <<desc, made, efd, watched, fd, meant, early>>
  BY DEF Erase, Goto, After
<1>2. /\ fd[t] \in Fds /\ pc \in [Threads -> Labels] /\ made \in Nat
      /\ clients \in Seq([fd : Fds, sock : Nat])
  BY <1>1 DEF TypeOK, Using
<1>3. Erasing(t) /\ ~Opening(t) /\ ~Adding(t)
  BY <1>1 DEF Opening, Adding, Erasing
<1>4. /\ ~Opening(t)' /\ ~Adding(t)' /\ ~Erasing(t)'
      /\ \A u \in Threads \ {t} : /\ Opening(u)' <=> Opening(u)
                                  /\ Adding(u)' <=> Adding(u)
                                  /\ Erasing(u)' <=> Erasing(u)
  BY <1>1, <1>2 DEF Opening, Adding, Erasing
<1>5. \A u \in Threads : Sock(u)' = Sock(u)
  BY <1>1 DEF Sock
<1>6. /\ OneEntry'
      /\ Booked' = {e \in Booked : ~(e.fd = fd[t] /\ e.sock = meant[t])}
  <2>1. CASE Entries(fd[t]) = {}
    <3>1. clients' = clients
      BY <2>1 DEF Erase
    <3>2. \A e \in Booked : e.fd # fd[t]
      BY <2>1 DEF Entries, Booked
    <3>. QED BY <3>1, <3>2 DEF Books, OneEntry, Booked
  <2>2. CASE Entries(fd[t]) # {}
    <3> DEFINE k == Which(fd[t])
               r == RemoveAt(clients, k)
    <3>1. k \in 1 .. Len(clients) /\ clients[k].fd = fd[t]
      BY <2>2, WhichIsEntry
    <3>2. clients' = r /\ clients[k].sock = meant[t]
      BY <2>2 DEF Erase, Without
    <3> HIDE DEF k
    <3>3. /\ \A n \in 1 .. Len(r) :
               \E m \in 1 .. Len(clients) \ {k} : r[n] = clients[m]
          /\ \A m \in 1 .. Len(clients) \ {k} :
               \E n \in 1 .. Len(r) : r[n] = clients[m]
          /\ \A n, m \in 1 .. Len(r) : n # m =>
               \E i, j \in 1 .. Len(clients) :
                 i # j /\ r[n] = clients[i] /\ r[m] = clients[j]
      <4> DEFINE S == [fd : Fds, sock : Nat]
      <4>1. clients \in Seq(S)
        BY <1>2
      <4> HIDE DEF S
      <4>. QED BY ZenonT(60), <4>1, <3>1, EraseEntry
    <3> HIDE DEF r
    <3>4. \A n \in 1 .. Len(clients) :
            clients[n].fd = fd[t] /\ clients[n].sock = meant[t] <=> n = k
      BY <3>1, <3>2 DEF Books, OneEntry
    <3>5. OneEntry'
      <4> SUFFICES ASSUME NEW n \in 1 .. Len(r), NEW m \in 1 .. Len(r),
                          r[n].sock = r[m].sock, n # m
                   PROVE  FALSE
        BY <3>2 DEF OneEntry
      <4>1. PICK i \in 1 .. Len(clients), j \in 1 .. Len(clients) :
              i # j /\ r[n] = clients[i] /\ r[m] = clients[j]
        BY <3>3
      <4>. QED BY <4>1 DEF Books, OneEntry
    <3>6. Booked' = {clients[n] : n \in 1 .. Len(clients) \ {k}}
      <4>1. Booked' = {r[n] : n \in 1 .. Len(r)}
        BY <3>2 DEF Booked
      <4>2. ASSUME NEW n \in 1 .. Len(r)
            PROVE  r[n] \in {clients[i] : i \in 1 .. Len(clients) \ {k}}
        <5>1. PICK i \in 1 .. Len(clients) \ {k} : r[n] = clients[i]
          BY <3>3
        <5>. QED BY <5>1
      <4>3. ASSUME NEW i \in 1 .. Len(clients) \ {k}
            PROVE  clients[i] \in {r[n] : n \in 1 .. Len(r)}
        <5>1. PICK n \in 1 .. Len(r) : r[n] = clients[i]
          BY <3>3
        <5>. QED BY <5>1
      <4>. QED BY <4>1, <4>2, <4>3
    <3>7. {clients[n] : n \in 1 .. Len(clients) \ {k}}
            = {e \in Booked : ~(e.fd = fd[t] /\ e.sock = meant[t])}
      BY <3>4 DEF Booked
    <3>. QED BY <3>5, <3>6, <3>7
  <2>. QED BY <2>1, <2>2
<1>7. \A x \in 1 .. made : IsOpen(x) => x # meant[t]
  BY <1>2, <1>3 DEF Books, ClosedForGood, IsOpen, Nothing
<1>8. \A x \in 1 .. made : IsOpen(x) => (InBook(x)' <=> InBook(x))
  BY <1>6, <1>7 DEF InBook
<1>9. OneDescriptor' /\ ClosedForGood'
  BY <1>1, <1>4 DEF Books, OneDescriptor, ClosedForGood
<1>10. EntryLive'
  <2> SUFFICES ASSUME NEW e \in Booked,
                      ~(e.fd = fd[t] /\ e.sock = meant[t])
               PROVE  /\ e.sock \in 1 .. made
                      /\ \/ desc[e.fd] = e.sock
                         \/ \E u \in Threads :
                              Erasing(u)' /\ fd[u] = e.fd /\ meant[u] = e.sock
    BY <1>1, <1>6 DEF EntryLive
  <2>1. ASSUME NEW u \in Threads, Erasing(u), fd[u] = e.fd, meant[u] = e.sock
        PROVE  Erasing(u)'
    BY <1>4, <2>1
  <2>. QED BY <2>1 DEF Books, EntryLive
<1>11. CallHasSocket'
  <2> SUFFICES ASSUME NEW u \in Threads, Opening(u)' \/ Adding(u)'
               PROVE  /\ Sock(u) \in 1 .. made /\ Sock(u) \notin early
                      /\ (\E e \in Booked' : e.sock = Sock(u))
                           <=> Adding(u)'
    BY <1>1, <1>5 DEF CallHasSocket, InBook
  <2>1. (Opening(u) \/ Adding(u)) /\ (Adding(u)' <=> Adding(u))
    BY <1>4
  <2>2. Sock(u) \in 1 .. made /\ Sock(u) \notin early
        /\ (InBook(Sock(u)) <=> Adding(u))
    BY <2>1 DEF Books, CallHasSocket
  <2>3. IsOpen(Sock(u))
    BY <2>1 DEF IsOpen, Sock, TypeOK, Opening, Adding, Using
  <2>4. (\E e \in Booked' : e.sock = Sock(u)) <=> InBook(Sock(u))
    BY <1>8, <2>2, <2>3 DEF InBook
  <2>. QED BY <2>1, <2>2, <2>4
<1>12. CallsApart'
  BY <1>1, <1>4 DEF Books, CallsApart
<1>13. SetFollows'
  <2> SUFFICES ASSUME efd # "gone"
               PROVE  /\ watched \subseteq 1 .. made
                      /\ \A x \in 1 .. made :
                           x \in watched <=>
                             /\ InBook(x)' /\ IsOpen(x) /\ x \notin early
                             /\ \A u \in Threads : Adding(u)' => Sock(u) # x
    BY <1>1, <1>5 DEF SetFollows, IsOpen
  <2>1. /\ watched \subseteq 1 .. made
        /\ \A x \in 1 .. made :
             x \in watched <=>
               /\ InBook(x) /\ IsOpen(x) /\ x \notin early
               /\ \A u \in Threads : Adding(u) => Sock(u) # x
    BY DEF Books, SetFollows
  <2>2. \A u \in Threads : Adding(u)' <=> Adding(u)
    BY <1>3, <1>4
  <2>. QED BY <1>8, <2>1, <2>2
<1>. QED
  BY <1>6, <1>9, <1>10, <1>11, <1>12, <1>13 DEF Books

\* No step takes back that threads have met.
LEMMA SaneBefore ==
  ASSUME TypeOK, Next, Sane'
  PROVE  Sane
<1>1. CASE Outside
  <2>1. crossed' = crossed
    BY <1>1, OutsideIsQuiet DEF Quiet
  <2>2. \A u \in Threads : pc[u] = "undefined" => pc'[u] = "undefined"
    BY <1>1 DEF Outside, Kernel, Answer, Hangup, Data, threadVars, Create,
       Wait, Callback, Lost, BreakOff, Turn, CallerStarts, Stop, Goto, TypeOK
  <2>. QED BY <2>1, <2>2 DEF Sane
<1>2. ASSUME NEW t \in Threads, Call(t) PROVE Sane
  <2>1. crossed => crossed'
    BY <1>2 DEF Call, Socket, Dial, Check, GiveUp, Push, Add, Find, CloseFd,
       Erase
  <2>2. /\ pc[t] # "undefined"
        /\ \A u \in Threads \ {t} : pc'[u] = pc[u]
    BY <1>2 DEF Call, Socket, Dial, Check, GiveUp, Push, Add, Find, CloseFd,
       Erase, Return, Goto, TypeOK
  <2>. QED BY <2>1, <2>2 DEF Sane
<1>3. CASE Undefined
  BY <1>3 DEF Undefined, Sane, Threads
<1>. QED
  BY <1>1, <1>2, <1>3 DEF Next, EventThread, AnyCaller, Outside, Threads

LEMMA BooksNext ==
  ASSUME TypeOK, Sane => Books, [Next]_vars, Sane'
  PROVE  Books'
<1>1. CASE UNCHANGED vars
  <2>1. Quiet
    BY <1>1 DEF vars, Quiet, Opening, Adding, Erasing
  <2>2. Sane
    BY <1>1 DEF vars, Sane
  <2>. QED BY <2>1, <2>2, QuietKeepsBooks
<1>2. CASE Next
  <2>1. Books /\ ~crossed'
    BY <1>2, SaneBefore DEF Sane
  <2>2. CASE Outside
    BY <2>1, <2>2, OutsideIsQuiet, QuietKeepsBooks
  <2>3. ASSUME NEW t \in Threads, Call(t) PROVE Books'
    <3>1. CASE Socket(t)
      BY <2>1, <3>1, SocketKeepsBooks
    <3>2. CASE Dial(t) \/ Check(t) \/ GiveUp(t) \/ Find(t)
      BY <2>1, <3>2, CallIsQuiet, QuietKeepsBooks
    <3>3. CASE Push(t)
      BY <2>1, <3>3, PushKeepsBooks
    <3>4. CASE Add(t)
      BY <2>1, <3>4, AddKeepsBooks
    <3>5. CASE CloseFd(t)
      BY <2>1, <3>5, CloseKeepsBooks
    <3>6. CASE Erase(t)
      BY <2>1, <3>6, EraseKeepsBooks
    <3>. QED BY <2>3, <3>1, <3>2, <3>3, <3>4, <3>5, <3>6 DEF Call
  <2>4. CASE Undefined
    BY <2>4 DEF Undefined, Sane, Threads
  <2>. QED
    BY <1>2, <2>2, <2>3, <2>4
       DEF Next, EventThread, AnyCaller, Outside, Threads
<1>. QED BY <1>1, <1>2

-----------------------------------------------------------------------------
(* The theorems *)

\* A thread inside a call has a descriptor, a caller disconnects only what it
\* was given, and every entry names a descriptor of the process (connect(),
\* disconnect(), event_handler()).
THEOREM TypeCorrect == Spec => []TypeOK
<1>1. Init => TypeOK
  BY TypeInit
<1>2. TypeOK /\ [Next]_vars => TypeOK'
  BY TypeNext
<1>. QED BY <1>1, <1>2, PTL DEF Spec

\* Until threads meet on one descriptor, a socket has one descriptor and one
\* entry at most, an entry without its socket is about to be erased by the
\* disconnect() that closed it, and the epoll set holds the listed sockets
\* that are open (connect(), disconnect()).
THEOREM Invariant == Spec => []IInv
<1>1. Init => IInv
  BY TypeInit, BooksInit DEF IInv
<1>2. IInv /\ [Next]_vars => IInv'
  BY TypeNext, BooksNext DEF IInv
<1>. QED BY <1>1, <1>2, PTL DEF Spec

\* clients_conf, the descriptors and the epoll set agree when no call is
\* between its steps and no two threads have met on one descriptor, for every
\* number of threads, descriptors and sockets (connect(), disconnect(),
\* re_connect()).
THEOREM Agreement == Spec => []BooksAgree
<1>1. IInv => BooksAgree
  <2> SUFFICES ASSUME IInv, Settled, ~crossed
               PROVE  /\ \A n \in 1 .. Len(clients) :
                           desc[clients[n].fd] = clients[n].sock
                      /\ \A n, m \in 1 .. Len(clients) :
                           clients[n].fd = clients[m].fd => n = m
                      /\ efd = "open" => Listed \ early = watched
    BY DEF BooksAgree
  <2>1. /\ TypeOK /\ Books
        /\ \A t \in Threads : ~Erasing(t) /\ ~Adding(t)
    BY DEF IInv, Sane, Settled, Erasing, Adding
  <2>2. \A e \in Booked : desc[e.fd] = e.sock /\ e.sock \in 1 .. made
    BY <2>1 DEF Books, EntryLive
  <2>3. \A n \in 1 .. Len(clients) : desc[clients[n].fd] = clients[n].sock
    BY <2>2 DEF Booked
  <2>4. \A n, m \in 1 .. Len(clients) :
          clients[n].fd = clients[m].fd => n = m
    BY <2>1, <2>3 DEF Books, OneEntry
  <2>5. ASSUME efd = "open" PROVE Listed \ early = watched
    <3>1. \A s : s \in Listed <=> InBook(s)
      BY DEF Listed, InBook, Booked
    <3>2. \A s : InBook(s) => IsOpen(s) /\ s \in 1 .. made
      BY <2>1, <2>2, BookedType DEF InBook, IsOpen
    <3>3. /\ watched \subseteq 1 .. made
          /\ \A s \in 1 .. made :
               s \in watched <=> InBook(s) /\ IsOpen(s) /\ s \notin early
      BY <2>1, <2>5 DEF Books, SetFollows
    <3>. QED BY <3>1, <3>2, <3>3
  <2>. QED BY <2>3, <2>4, <2>5
<1>. QED BY <1>1, Invariant, PTL

-----------------------------------------------------------------------------
(* The connection service *)

\* While the event thread is in its loop there is an epoll set, and nothing
\* is left of it afterwards.
LoopWatches ==
  /\ pc[Loop] \notin {"create", "ended", "undefined"} => efd = "open"
  /\ pc[Loop] = "create" => efd = "none"
  /\ efd = "gone" => watched = {}

EInv == LoopWatches /\ made <= MaxSock

LEMMA EInit == Init => EInv
  BY ConstantsAssumption DEF Init, EInv, LoopWatches, Threads

\* A call neither makes nor closes the epoll set.
LEMMA CallKeepsSet ==
  ASSUME TypeOK, EInv, NEW t \in Threads, Call(t)
  PROVE  EInv'
<1>1. efd' = efd
  BY DEF Call, Socket, Dial, Check, GiveUp, Push, Add, Find, CloseFd, Erase
<1>2. made' <= MaxSock
  BY ConstantsAssumption DEF Call, Socket, Dial, Check, GiveUp, Push, Add,
     Find, CloseFd, Erase, EInv, TypeOK
<1>3. pc[t] \notin {"create", "ended", "undefined"}
  BY DEF Call, Socket, Dial, Check, GiveUp, Push, Add, Find, CloseFd, Erase
<1>4. /\ \A u \in Threads \ {t} : pc'[u] = pc[u]
      /\ pc'[t] # "create"
  BY DEF Call, Socket, Dial, Check, GiveUp, Push, Add, Find, CloseFd, Erase,
     Return, After, Goto, TypeOK
<1>5. efd = "gone" => watched' \subseteq watched
  BY DEF Call, Socket, Dial, Check, GiveUp, Push, Add, Find, CloseFd, Erase,
     Watchable
<1>. QED
  BY <1>1, <1>2, <1>3, <1>4, <1>5 DEF EInv, LoopWatches, Threads

LEMMA ENext ==
  ASSUME TypeOK, EInv, [Next]_vars
  PROVE  EInv'
<1>1. CASE UNCHANGED vars
  BY <1>1 DEF vars, EInv, LoopWatches
<1>2. ASSUME NEW t \in Threads, Call(t) PROVE EInv'
  BY <1>2, CallKeepsSet
<1>3. CASE Outside
  <2> USE DEF EInv, LoopWatches
  <2>1. CASE Kernel
    BY <2>1 DEF Kernel, Answer, Hangup, Data, threadVars
  <2>2. CASE Create
    BY <2>2 DEF Create, Goto, TypeOK, Threads
  <2>3. CASE Wait \/ Callback \/ Lost \/ BreakOff
    BY <2>3 DEF Wait, Callback, Lost, BreakOff, Goto, TypeOK, Threads
  <2>4. CASE Turn
    BY <2>4 DEF Turn, Goto, TypeOK, Threads
  <2>5. ASSUME NEW t \in Callers, CallerStarts(t) \/ Stop(t) PROVE EInv'
    <3>1. /\ pc'[Loop] = pc[Loop] /\ made' = made
          /\ UNCHANGED <<efd, watched>>
      BY <2>5, ConstantsAssumption
         DEF CallerStarts, Stop, Goto, TypeOK, Threads
    <3>. QED BY <3>1
  <2>. QED BY <1>3, <2>1, <2>2, <2>3, <2>4, <2>5 DEF Outside
<1>4. CASE Undefined
  BY <1>4 DEF Undefined, EInv, LoopWatches, Threads
<1>. QED BY <1>1, <1>2, <1>3, <1>4, StepKinds

Served == UNCHANGED Service!vars \/ Service!Next

LEMMA ListedIs ==
  ASSUME NEW s
  PROVE  s \in Listed <=> InBook(s)
  BY DEF Listed, InBook, Booked

\* What is listed under a descriptor is behind it.
LEMMA ListedBehind ==
  ASSUME Books, NEW f \in Fds, ListedAt[f] # Nothing
  PROVE  ListedAt[f] = desc[f] /\ InBook(desc[f]) /\ desc[f] \in 1 .. made
<1>1. ListedAt[f] = desc[f] /\ desc[f] \in Listed
  BY DEF ListedAt
<1>. QED BY <1>1, ListedIs DEF Books, EntryLive, InBook

\* A step that leaves descriptors, list and epoll set alone, in which no call
\* reaches or leaves ep_add_fd().
LEMMA QuietServed ==
  ASSUME Quiet, watched' = watched, efd' = efd
  PROVE  UNCHANGED Service!vars
<1>1. Listed' = Listed /\ ListedAt' = ListedAt
  BY DEF Quiet, Listed, ListedAt
<1>2. Due' = Due
  <2>1. \A u \in Threads : /\ pc'[u] = "add" <=> pc[u] = "add"
                           /\ pc[u] = "add" => fd'[u] = fd[u]
    BY DEF Quiet, Adding
  <2>2. desc' = desc
    BY DEF Quiet
  <2>. QED BY <2>1, <2>2 DEF Due, Sock
<1>3. Closed' = Closed
  BY DEF Quiet, Closed
<1>. QED BY <1>1, <1>2, <1>3 DEF Service!vars

LEMMA OutsideServed ==
  ASSUME TypeOK, EInv, Outside
  PROVE  Served
<1>0. Quiet
  BY OutsideIsQuiet
<1>1. /\ Listed' = Listed /\ ListedAt' = ListedAt /\ Closed' = Closed
  BY <1>0 DEF Quiet, Listed, ListedAt, Closed
<1>2. Due' = Due
  <2>1. \A u \in Threads : /\ pc'[u] = "add" <=> pc[u] = "add"
                           /\ pc[u] = "add" => fd'[u] = fd[u]
    BY <1>0 DEF Quiet, Adding
  <2>2. desc' = desc
    BY <1>0 DEF Quiet
  <2>. QED BY <2>1, <2>2 DEF Due, Sock
<1>3. CASE watched' = watched /\ efd' = efd
  BY <1>0, <1>3, QuietServed DEF Served
<1>4. CASE Create
  <2>1. efd = "none" /\ watched' = watched /\ (efd' = "open" \/ efd' = efd)
    BY <1>4 DEF Create, EInv, LoopWatches
  <2>. QED BY <1>1, <1>2, <1>3, <2>1 DEF Served, Service!Next, Service!Open
<1>5. CASE Turn
  <2>1. efd = "open" /\ \/ efd' = "gone" /\ watched' = {}
                        \/ efd' = efd /\ watched' = watched
    BY <1>5 DEF Turn, EInv, LoopWatches
  <2>. QED BY <1>1, <1>2, <1>3, <2>1 DEF Served, Service!Next, Service!End
<1>6. CASE ~Create /\ ~Turn
  <2>1. watched' = watched /\ efd' = efd
    BY <1>6 DEF Outside, Kernel, Answer, Hangup, Data, threadVars, Wait,
       Callback, Lost, BreakOff, CallerStarts, Stop
  <2>. QED BY <1>3, <2>1
<1>. QED BY <1>4, <1>5, <1>6

\* socket(): nothing is listed under a descriptor that was free.
LEMMA SocketServed ==
  ASSUME TypeOK, Books, NEW t \in Threads, Socket(t)
  PROVE  Served
<1>1. CASE Free = {}
  <2>1. Quiet /\ watched' = watched /\ efd' = efd
    BY <1>1 DEF Socket, Return, Goto, After, TypeOK, Quiet, Opening, Adding,
       Erasing
  <2>. QED BY <2>1, QuietServed DEF Served
<1>2. CASE Free # {}
  <2> DEFINE d == Lowest
  <2>1. d \in Fds /\ desc[d] = Nothing
    BY <1>2, LowestIsFree
  <2>2. /\ made' = made + 1 /\ desc' = [desc EXCEPT ![d] = made + 1]
        /\ fd' = [fd EXCEPT ![t] = d]
        /\ pc[t] = "socket" /\ pc' = [pc EXCEPT ![t] = "dial"]
        /\ UNCHANGED <<clients, efd, watched>>
    BY <1>2 DEF Socket, Goto
  <2> HIDE DEF d
  <2>3. /\ made \in Nat /\ desc \in [Fds -> 0 .. made]
        /\ pc \in [Threads -> Labels] /\ fd \in [Threads -> Fds \cup {Nothing}]
    BY DEF TypeOK
  <2>4. desc'[d] = made + 1 /\ \A f \in Fds : f # d => desc'[f] = desc[f]
    BY <2>1, <2>2, <2>3
  <2>5. Listed' = Listed
    BY <2>2 DEF Listed
  <2>6. made + 1 \notin Listed
    <3>1. ~InBook(made + 1)
      BY <2>3 DEF Books, EntryLive, InBook
    <3>. QED BY <3>1, ListedIs
  <2>7. ListedAt' = ListedAt
    <3>1. \A f \in Fds :
            (IF desc'[f] \in Listed THEN desc'[f] ELSE Nothing)
              = IF desc[f] \in Listed THEN desc[f] ELSE Nothing
      BY <2>1, <2>4, <2>6
    <3>. QED BY <2>5, <3>1 DEF ListedAt
  <2>8. Due' = Due
    <3>1. \A u \in Threads : pc'[u] = "add" <=> pc[u] = "add"
      BY <2>2, <2>3
    <3>2. \A u \in Threads : pc[u] = "add" => fd'[u] = fd[u] /\ fd[u] # d
      <4> SUFFICES ASSUME NEW u \in Threads, pc[u] = "add"
                   PROVE  fd'[u] = fd[u] /\ fd[u] # d
        OBVIOUS
      <4>1. u # t
        BY <2>2
      <4>2. desc[fd[u]] \in 1 .. made
        BY DEF Books, CallHasSocket, Adding, Sock
      <4>. QED BY <2>1, <2>2, <2>3, <4>1, <4>2 DEF Nothing
    <3>3. \A u \in Threads : pc[u] = "add" => Sock(u)' = Sock(u)
      <4> SUFFICES ASSUME NEW u \in Threads, pc[u] = "add"
                   PROVE  Sock(u)' = Sock(u)
        OBVIOUS
      <4>1. fd[u] \in Fds /\ fd[u] # d /\ fd'[u] = fd[u]
        BY <3>2 DEF TypeOK, Using
      <4>. QED BY <2>4, <4>1 DEF Sock
    <3>. QED BY <3>1, <3>3 DEF Due
  <2>9. Closed' = Closed
    <3>1. \A s \in 1 .. made :
            (\A f \in Fds : desc'[f] # s) <=> \A f \in Fds : desc[f] # s
      BY <2>1, <2>3, <2>4 DEF Nothing
    <3>2. 1 .. made' = (1 .. made) \cup {made + 1}
      BY <2>2, <2>3
    <3>3. ~(\A f \in Fds : desc'[f] # made + 1)
      BY <2>1, <2>4
    <3>. QED BY <3>1, <3>2, <3>3 DEF Closed
  <2>. QED BY <2>2, <2>7, <2>8, <2>9 DEF Served, Service!vars
<1>. QED BY <1>1, <1>2

\* connect() lists a socket that was not listed, under the one descriptor it
\* is behind.
LEMMA PushServed ==
  ASSUME TypeOK, Books, EInv, NEW t \in Threads, Push(t)
  PROVE  Served
<1> DEFINE s == Sock(t)
           d == fd[t]
<1>1. /\ pc[t] = "push" /\ pc' = [pc EXCEPT ![t] = "add"]
      /\ clients' = Append(clients, [fd |-> d, sock |-> s])
      /\ UNCHANGED <<desc, made, efd, watched, fd>>
  BY DEF Push, Goto
<1>2. /\ d \in Fds /\ desc[d] = s /\ s \in 1 .. made /\ ~InBook(s)
  <2>1. Opening(t) /\ ~Adding(t)
    BY <1>1 DEF Opening, Adding
  <2>. QED BY <1>1, <2>1 DEF Books, CallHasSocket, Sock, TypeOK, Using
<1>3. s \in Socks /\ s # Nothing
  BY <1>2, ConstantsAssumption DEF Socks, EInv, TypeOK, Nothing
<1>4. \A f \in Fds : desc[f] = s => f = d
  BY <1>2, <1>3 DEF Books, OneDescriptor
<1>5. Listed' = Listed \cup {s}
  <2> DEFINE e == [fd |-> d, sock |-> s]
  <2>1. clients \in Seq([fd : Fds, sock : Nat]) /\ e \in [fd : Fds, sock : Nat]
    BY <1>2 DEF TypeOK
  <2> HIDE DEF e
  <2>2. /\ Len(clients) \in Nat /\ Len(clients') = Len(clients) + 1
        /\ \A n \in 1 .. Len(clients) : clients'[n] = clients[n]
        /\ clients'[Len(clients) + 1] = e
    BY <1>1, <2>1, AppendProperties DEF e
  <2>3. 1 .. Len(clients') = (1 .. Len(clients)) \cup {Len(clients) + 1}
    BY <2>2
  <2>4. Listed' = {clients'[n].sock : n \in 1 .. Len(clients')}
    BY DEF Listed
  <2>5. Listed' = {clients[n].sock : n \in 1 .. Len(clients)} \cup {e.sock}
    BY <2>2, <2>3, <2>4
  <2>6. e.sock = s
    BY DEF e
  <2>. QED BY <2>5, <2>6 DEF Listed
<1>6. s \notin Listed
  BY <1>2, ListedIs
<1> HIDE DEF s, d
<1>7. ListedAt[d] = Nothing /\ \A f \in Fds : ListedAt[f] # s
  <2>1. ListedAt[d] = Nothing
    BY <1>2, <1>6 DEF ListedAt
  <2>2. \A f \in Fds : ListedAt[f] # s
    BY <1>3, <1>6 DEF ListedAt
  <2>. QED BY <2>1, <2>2
<1>8. ListedAt' = [ListedAt EXCEPT ![d] = s]
  <2>1. \A f \in Fds :
          (IF desc[f] \in Listed \cup {s} THEN desc[f] ELSE Nothing)
            = IF f = d THEN s
                       ELSE IF desc[f] \in Listed THEN desc[f] ELSE Nothing
    BY <1>2, <1>4
  <2>2. ListedAt' = [f \in Fds |-> IF desc[f] \in Listed \cup {s}
                                   THEN desc[f] ELSE Nothing]
    BY <1>1, <1>5 DEF ListedAt
  <2>. QED BY <1>2, <2>1, <2>2 DEF ListedAt
<1>9. Due' = Due \cup {s}
  <2>1. \A u \in Threads : pc'[u] = "add" <=> pc[u] = "add" \/ u = t
    BY <1>1 DEF TypeOK
  <2>2. \A u \in Threads : Sock(u)' = Sock(u)
    BY <1>1 DEF Sock
  <2>3. Due' = {Sock(u) : u \in {v \in Threads : pc'[v] = "add"}}
    BY <2>2 DEF Due
  <2>. QED BY <2>1, <2>3 DEF Due, s
<1>10. Closed' = Closed /\ s \notin Closed
  BY <1>1, <1>2 DEF Closed
<1>11. Service!List(d, s)
  BY <1>1, <1>7, <1>8, <1>9, <1>10 DEF Service!List
<1>. QED BY <1>2, <1>3, <1>11 DEF Served, Service!Next

\* ep_add_fd().
LEMMA AddServed ==
  ASSUME TypeOK, Books, EInv, NEW t \in Threads, Add(t)
  PROVE  Served
<1> DEFINE s == Sock(t)
<1>1. /\ pc[t] = "add"
      /\ \/ pc' = [pc EXCEPT ![t] = "next"]
         \/ pc' = [pc EXCEPT ![t] = "idle"]
      /\ watched' = IF efd = "open" THEN watched \cup ({s} \ {Nothing})
                                    ELSE watched
      /\ UNCHANGED <<desc, made, clients, efd, fd>>
  BY DEF Add, Watchable, Return, Goto, After
<1>2. Adding(t) /\ s \in 1 .. made /\ fd[t] \in Fds
  BY <1>1 DEF Books, CallHasSocket, Adding, TypeOK, Using
<1>3. s \in Socks /\ s # Nothing
  BY <1>2, ConstantsAssumption DEF Socks, EInv, TypeOK, Nothing
<1>4. s \in Due /\ Due' = Due \ {s}
  <2>1. \A u \in Threads : pc'[u] = "add" <=> pc[u] = "add" /\ u # t
    BY <1>1 DEF TypeOK
  <2>2. \A u \in Threads : Sock(u)' = Sock(u)
    BY <1>1 DEF Sock
  <2>3. \A u \in Threads : pc[u] = "add" /\ Sock(u) = s => u = t
    <3> SUFFICES ASSUME NEW u \in Threads, pc[u] = "add", Sock(u) = s
                 PROVE  u = t
      OBVIOUS
    <3>1. Adding(u) /\ fd[u] \in Fds
      BY DEF Adding, TypeOK, Using
    <3>2. desc[fd[u]] = desc[fd[t]] /\ desc[fd[u]] # Nothing
      BY <1>3 DEF Sock
    <3>3. fd[u] = fd[t]
      BY <1>2, <3>1, <3>2 DEF Books, OneDescriptor
    <3>. QED BY <1>2, <3>1, <3>3 DEF Books, CallsApart
  <2>4. Due' = {Sock(u) : u \in {v \in Threads : pc'[v] = "add"}}
    BY <2>2 DEF Due
  <2> HIDE DEF s
  <2>5. s \in Due
    BY <1>1 DEF Due, s
  <2>. QED BY <2>1, <2>3, <2>4, <2>5 DEF Due, s
<1>5. ListedAt' = ListedAt /\ Closed' = Closed
  BY <1>1 DEF ListedAt, Listed, Closed
<1>6. watched' = IF efd = "open" THEN watched \cup {s} ELSE watched
  BY <1>1, <1>3
<1> HIDE DEF s
<1>7. Service!Watch(s)
  BY <1>1, <1>4, <1>5, <1>6 DEF Service!Watch
<1>. QED BY <1>3, <1>7 DEF Served, Service!Next

\* close(): nothing is behind the descriptor any more, and no connect() is
\* under way on it.
LEMMA CloseServed ==
  ASSUME TypeOK, Books, EInv, NEW t \in Threads, CloseFd(t), ~crossed'
  PROVE  Served
<1> DEFINE s == Sock(t)
           d == fd[t]
<1>1. /\ pc[t] = "close" /\ pc' = [pc EXCEPT ![t] = "erase"]
      /\ desc' = [desc EXCEPT ![d] = Nothing]
      /\ watched' = watched \ {s}
      /\ ~Dialled(d, t)
      /\ UNCHANGED <<made, clients, efd, fd>>
  BY DEF CloseFd, Goto
<1>2. d \in Fds /\ desc[d] = s /\ s \in 0 .. made /\ made \in Nat
  BY <1>1 DEF Sock, TypeOK, Using
<1>3. desc'[d] = Nothing /\ \A f \in Fds : f # d => desc'[f] = desc[f]
  BY <1>1, <1>2 DEF TypeOK
<1>4. Listed' = Listed
  BY <1>1 DEF Listed
<1>5. \A u \in Threads : /\ pc'[u] = "add" <=> pc[u] = "add"
                         /\ pc[u] = "add" => fd[u] # d /\ Sock(u)' = Sock(u)
  <2> SUFFICES ASSUME NEW u \in Threads
               PROVE  /\ pc'[u] = "add" <=> pc[u] = "add"
                      /\ pc[u] = "add" => fd[u] # d /\ Sock(u)' = Sock(u)
    OBVIOUS
  <2>1. pc'[u] = "add" <=> pc[u] = "add"
    BY <1>1 DEF TypeOK
  <2>2. ASSUME pc[u] = "add" PROVE fd[u] # d /\ fd[u] \in Fds
    <3>1. u # t
      BY <1>1, <2>2
    <3>. QED BY <1>1, <2>2, <3>1 DEF Dialled, TypeOK, Using
  <2>. QED BY <1>1, <1>3, <2>1, <2>2 DEF Sock
<1>6. Due' = Due
  BY <1>5 DEF Due
<1> HIDE DEF d
<1>7. CASE s = Nothing
  <2>1. desc' = desc
    BY <1>1, <1>2, <1>7 DEF TypeOK
  <2>2. ListedAt' = ListedAt /\ Closed' = Closed
    BY <1>1, <1>4, <2>1 DEF ListedAt, Closed
  <2>3. watched' = watched
    <3>1. Nothing \notin watched
      BY DEF Books, SetFollows, Nothing, EInv, LoopWatches
    <3>. QED BY <1>1, <1>7, <3>1
  <2>. QED BY <1>1, <1>6, <2>2, <2>3 DEF Served, Service!vars
<1>8. CASE s # Nothing
  <2>1. s \in 1 .. made /\ s \in Socks
    BY <1>2, <1>8, ConstantsAssumption DEF Socks, EInv, Nothing
  <2>2. \A f \in Fds : desc[f] = s <=> f = d
    BY <1>2, <1>8 DEF Books, OneDescriptor
  <2>3. s \notin Closed /\ Closed' = Closed \cup {s}
    <3>1. s \notin Closed
      BY <2>2, <1>2 DEF Closed
    <3>2. \A x \in 1 .. made : (\A f \in Fds : desc'[f] # x)
                               <=> x = s \/ \A f \in Fds : desc[f] # x
      BY <1>2, <1>3, <2>1, <2>2 DEF Nothing
    <3>3. Closed' = {x \in 1 .. made : \A f \in Fds : desc'[f] # x}
      BY <1>1 DEF Closed
    <3>. QED BY <2>1, <3>1, <3>2, <3>3 DEF Closed
  <2>4. s \notin Due
    <3>1. \A u \in Threads : pc[u] = "add" => Sock(u) # s
      BY <1>5, <2>2 DEF Sock, TypeOK, Using
    <3>. QED BY <3>1 DEF Due
  <2>5. ListedAt' = [f \in Fds |-> IF ListedAt[f] = s THEN Nothing
                                                      ELSE ListedAt[f]]
    <3>1. \A f \in Fds :
            (IF desc'[f] \in Listed THEN desc'[f] ELSE Nothing)
              = IF ListedAt[f] = s THEN Nothing ELSE ListedAt[f]
      <4> TAKE f \in Fds
      <4>1. CASE f = d
        BY <1>2, <1>3, <4>1 DEF ListedAt
      <4>2. CASE f # d
        BY <1>3, <1>8, <2>2, <4>2 DEF ListedAt
      <4>. QED BY <4>1, <4>2
    <3>2. ListedAt' = [f \in Fds |-> IF desc'[f] \in Listed
                                     THEN desc'[f] ELSE Nothing]
      BY <1>4 DEF ListedAt
    <3>. QED BY <3>1, <3>2
  <2> HIDE DEF s
  <2>6. Service!Close(s)
    BY <1>1, <1>6, <2>3, <2>4, <2>5 DEF Service!Close
  <2>. QED BY <2>1, <2>6 DEF Served, Service!Next
<1>. QED BY <1>7, <1>8

\* The entry that is erased is of a socket that is behind no descriptor.
LEMMA EraseServed ==
  ASSUME TypeOK, Books, NEW t \in Threads, Erase(t), ~crossed'
  PROVE  Served
<1>1. /\ pc[t] = "erase"
      /\ \/ pc' = [pc EXCEPT ![t] = "socket"]
         \/ pc' = [pc EXCEPT ![t] = "next"]
         \/ pc' = [pc EXCEPT ![t] = "idle"]
      /\ UNCHANGED <<desc, made, efd, watched, fd>>
  BY DEF Erase, Goto, After
<1>2. Due' = Due
  <2>1. \A u \in Threads : pc'[u] = "add" <=> pc[u] = "add"
    BY <1>1 DEF TypeOK
  <2>2. \A u \in Threads : Sock(u)' = Sock(u)
    BY <1>1 DEF Sock
  <2>. QED BY <2>1, <2>2 DEF Due
<1>3. Closed' = Closed
  BY <1>1 DEF Closed
<1>4. \A f \in Fds : desc[f] # Nothing =>
        (desc[f] \in Listed' <=> desc[f] \in Listed)
  <2>1. CASE Entries(fd[t]) = {}
    <3>1. clients' = clients
      BY <2>1 DEF Erase
    <3>. QED BY <3>1 DEF Listed
  <2>2. CASE Entries(fd[t]) # {}
    <3> DEFINE k == Which(fd[t])
               r == RemoveAt(clients, k)
    <3>1. k \in 1 .. Len(clients)
      BY <2>2, WhichIsEntry
    <3>2. clients' = r /\ clients[k].sock = meant[t]
      BY <2>2 DEF Erase, Without
    <3> HIDE DEF k
    <3>3. /\ \A n \in 1 .. Len(r) :
               \E m \in 1 .. Len(clients) \ {k} : r[n] = clients[m]
          /\ \A m \in 1 .. Len(clients) \ {k} :
               \E n \in 1 .. Len(r) : r[n] = clients[m]
      <4> DEFINE S == [fd : Fds, sock : Nat]
      <4>1. clients \in Seq(S)
        BY DEF TypeOK
      <4> HIDE DEF S
      <4>. QED BY ZenonT(60), <4>1, <3>1, EraseEntry
    <3> HIDE DEF r
    <3>4. \A f \in Fds : desc[f] # Nothing => desc[f] # meant[t]
      BY <1>1 DEF Books, ClosedForGood, Erasing
    <3>5. Listed' = {r[n].sock : n \in 1 .. Len(r)}
      BY <3>2 DEF Listed
    <3> SUFFICES ASSUME NEW f \in Fds, desc[f] # Nothing
                 PROVE  desc[f] \in Listed' <=> desc[f] \in Listed
      OBVIOUS
    <3>6. ASSUME desc[f] \in Listed' PROVE desc[f] \in Listed
      <4>1. PICK n \in 1 .. Len(r) : desc[f] = r[n].sock
        BY <3>5, <3>6
      <4>2. PICK m \in 1 .. Len(clients) \ {k} : r[n] = clients[m]
        BY <3>3
      <4>. QED BY <4>1, <4>2 DEF Listed
    <3>7. ASSUME desc[f] \in Listed PROVE desc[f] \in Listed'
      <4>1. PICK m \in 1 .. Len(clients) : desc[f] = clients[m].sock
        BY <3>7 DEF Listed
      <4>2. m # k
        BY <3>2, <3>4, <4>1
      <4>3. PICK n \in 1 .. Len(r) : r[n] = clients[m]
        BY <3>3, <4>2
      <4>. QED BY <3>5, <4>1, <4>3
    <3>. QED BY <3>6, <3>7
  <2>. QED BY <2>1, <2>2
<1>5. ListedAt' = ListedAt
  <2>1. \A f \in Fds :
          (IF desc[f] \in Listed' THEN desc[f] ELSE Nothing)
            = IF desc[f] \in Listed THEN desc[f] ELSE Nothing
    BY <1>4
  <2>. QED BY <1>1, <2>1 DEF ListedAt
<1>. QED BY <1>1, <1>2, <1>3, <1>5 DEF Served, Service!vars

\* Every step after which threads have not met is one of the service.
LEMMA ServiceStep ==
  ASSUME IInv, EInv, [Next]_vars, ~Met'
  PROVE  Served
<1>1. CASE UNCHANGED vars
  BY <1>1 DEF vars, Served, Service!vars, ListedAt, Listed, Due, Sock, Closed
<1>2. CASE Next
  <2>1. TypeOK /\ Sane'
    BY DEF IInv, Sane, Met
  <2>2. Books /\ ~crossed'
    BY <1>2, <2>1, SaneBefore DEF IInv, Sane
  <2>3. CASE Outside
    BY <2>1, <2>3, OutsideServed
  <2>4. ASSUME NEW t \in Threads, Call(t) PROVE Served
    <3>1. CASE Dial(t) \/ Check(t) \/ GiveUp(t) \/ Find(t)
      <4>1. Quiet
        BY <2>1, <3>1, CallIsQuiet
      <4>2. watched' = watched /\ efd' = efd
        BY <3>1 DEF Dial, Check, GiveUp, Find
      <4>. QED BY <4>1, <4>2, QuietServed DEF Served
    <3>. QED
      BY <2>1, <2>2, <2>4, <3>1, SocketServed, PushServed, AddServed,
         CloseServed, EraseServed DEF Call
  <2>5. ~Undefined
    BY <2>1 DEF Undefined, Sane, Threads
  <2>. QED
    BY <1>2, <2>3, <2>4, <2>5, StepKinds, <1>1
<1>. QED BY <1>1, <1>2

\* For every number of threads, descriptors and sockets connect(),
\* disconnect() and re_connect() take the steps of the connection service,
\* until threads meet on one descriptor or in the vector.
THEOREM ServedUntilMet == Spec => ServiceUntilMet
<1>1. IInv /\ EInv /\ [Next]_vars
        => [Met' \/ UNCHANGED Service!vars \/ Service!Next]_vars
  BY ServiceStep DEF Served
<1>. QED
  BY <1>1, Invariant, EInit, ENext, PTL DEF Spec, IInv, ServiceUntilMet

\* So a client whose threads never meet implements the service.
THEOREM ImplementsUnlessMet == Spec /\ []~Met => Service!Spec
<1>1. Init => Service!Init
  <2> SUFFICES ASSUME Init PROVE Service!Init
    OBVIOUS
  <2>1. ListedAt = [f \in Fds |-> Nothing]
    BY DEF Init, ListedAt, Listed, Nothing
  <2>2. Due = {} /\ Closed = {}
    BY DEF Init, Due, Closed
  <2>. QED BY <2>1, <2>2 DEF Init, Service!Init
<1>2. IInv /\ EInv /\ [Next]_vars /\ ~Met'
        => [Service!Next]_(Service!vars)
  BY ServiceStep DEF Served
<1>. QED
  BY <1>1, <1>2, Invariant, EInit, ENext, PTL DEF Spec, IInv, Service!Spec
=============================================================================
