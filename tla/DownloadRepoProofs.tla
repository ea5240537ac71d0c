------------------------- MODULE DownloadRepoProofs -------------------------
(***************************************************************************)
(* Proofs about DownloadRepo, for any number of callers, positions, keys   *)
(* and calls.                                                              *)
(*                                                                         *)
(* IInv describes the ring: what is filled (Filled), and, until it is      *)
(* lapped, which task each position behind write_position has (Order).     *)
(* Apart says which key a semaphore can still be found by, whoever has     *)
(* removed which semaphores.  KInv is what holds until a call is given the *)
(* semaphore of another one (shared): every task has a semaphore of its    *)
(* own, found by its key as long as its call lasts, which is 0 until the   *)
(* download thread posts it (Fresh, Owners); Usable, that no call loses    *)
(* its semaphore, is proved together with it.  QInv adds a ring that is    *)
(* not lapped: what the thread has handed to whom (Handed), and that no    *)
(* semaphore was posted ahead of it (Unposted).  Unanswered completes what *)
(* the refinement of TaskService needs, Kept is VKept with the calls whose *)
(* SETVAL is still to come.                                                *)
(***************************************************************************)
EXTENDS DownloadRepo, FiniteSetTheorems, FunctionTheorems, TLAPS

USE DEF repoVars, semVars, workerVars, callVars, histVars, Goto, Oldest

\* The position d steps behind write_position.
Back(d) == IF d <= write THEN write - d ELSE write - d + RepoSize
InRing(i) == IF read <= write THEN read <= i /\ i < write
                              ELSE read <= i \/ i < write
Left == Len(accepted) - Len(served)
Ahead == IF read <= write THEN write - read ELSE write - read + RepoSize

\* Nobody has called before the thread is up.
Started ==
  wpc = "start" =>
    /\ ~status /\ ~lapped /\ accepted = <<>> /\ served = <<>>
    /\ read = 0 /\ write = 0 /\ \A p \in Callers : pc[p] = "idle"

\* What the thread relies on between its two steps.
Held ==
  /\ wpc = "call" => mutex /\ (lapped \/ write # read)
  /\ wpc \in {"call", "v"} => wsem \in 1 .. Len(semVal)

InTask ==
  \A p \in Callers :
    /\ pc[p] # "idle" => arg[p] \in Tasks /\ arg[p].by = p
    /\ InCall(p) => sem[p] \in 1 .. Len(semVal)

Filled ==
  \A i \in Positions :
    lapped \/ InRing(i) =>
      buffer[i].task \in Tasks /\ buffer[i].sem \in 1 .. Len(semVal)

\* Until it is lapped the ring is a queue that keeps its last tasks.
Order ==
  ~lapped =>
    /\ Left \in 0 .. RepoSize - 1 /\ Ahead = Left
    /\ \A i \in 1 .. Len(served) : served[i] = accepted[i]
    /\ \A d \in 1 .. RepoSize :
         d <= Len(accepted) =>
           /\ buffer[Back(d)].task = accepted[Len(accepted) + 1 - d]
           /\ d > Left =>
                buffer[Back(d)].ret = accepted[Len(accepted) + 1 - d]

IInv == TypeOK /\ Started /\ Held /\ InTask /\ Filled /\ Order

-----------------------------------------------------------------------------
(* Arithmetic and sequences *)

LEMMA SmallMod ==
  ASSUME NEW n \in Nat \ {0}, NEW x \in 0 .. n - 1
  PROVE  x % n = x
OBVIOUS

LEMMA NegativeMod ==
  ASSUME NEW n \in Nat \ {0}, NEW x \in 1 .. n
  PROVE  (x - n) % n = IF x = n THEN 0 ELSE x
OBVIOUS

LEMMA ModRange ==
  ASSUME NEW n \in Nat \ {0}, NEW x \in Nat
  PROVE  x % n \in 0 .. n - 1
OBVIOUS

LEMMA OneModSize == 1 % RepoSize = 1
  BY ConstantsAssumption, SmallMod

LEMMA AppendIs ==
  ASSUME NEW S, NEW s \in Seq(S), NEW e \in S
  PROVE  /\ Append(s, e) \in Seq(S)
         /\ Len(Append(s, e)) = Len(s) + 1
         /\ \A n \in 1 .. Len(s) : Append(s, e)[n] = s[n]
         /\ Append(s, e)[Len(s) + 1] = e
  OBVIOUS

\* A sequence with one element changed.
LEMMA ExceptIs ==
  ASSUME NEW S, NEW s \in Seq(S), NEW j, NEW e \in S
  PROVE  /\ [s EXCEPT ![j] = e] \in Seq(S)
         /\ Len([s EXCEPT ![j] = e]) = Len(s)
         /\ \A n \in 1 .. Len(s) : [s EXCEPT ![j] = e][n] =
                                    IF n = j THEN e ELSE s[n]
<1> DEFINE t == [s EXCEPT ![j] = e]
<1>1. s \in [1 .. Len(s) -> S] /\ Len(s) \in Nat
  OBVIOUS
<1>2. t \in [1 .. Len(s) -> S]
      /\ \A n \in 1 .. Len(s) : t[n] = IF n = j THEN e ELSE s[n]
  BY <1>1
<1>3. t \in Seq(S)
  BY <1>1, <1>2
<1>. HIDE DEF t
<1>4. Len(t) = Len(s)
  BY <1>1, <1>2, <1>3
<1>. QED BY <1>2, <1>3, <1>4 DEF t

LEMMA AdvanceIs ==
  \A i \in Positions : /\ Advance(i) \in Positions
                       /\ Advance(i) = IF i = RepoSize - 1 THEN 0 ELSE i + 1
  BY ConstantsAssumption DEF Advance, Positions

-----------------------------------------------------------------------------
(* Type correctness, with what the threads hold *)

Values == Nat \cup {Gone}

LEMMA SemCreated ==
  ASSUME TypeOK, CreateSem
  PROVE  /\ semVal' \in Seq(Values) /\ Len(semVal') \in Nat
         /\ Len(semVal) \in Nat /\ Len(semVal) <= Len(semVal')
         /\ SemGot \in 1 .. Len(semVal') /\ key' \in Keys
         /\ semOf' \in [Keys -> 0 .. Len(semVal')]
         /\ \A n \in 1 .. Len(semVal) : semVal'[n] = semVal[n]
<1>1. key \in Keys /\ semVal \in Seq(Values) /\ 0 \in Values
      /\ semOf \in [Keys -> 0 .. Len(semVal)] /\ Len(semVal) \in Nat
  BY DEF TypeOK, Values
<1>2. key' \in Keys
  BY <1>1, ModRange, ConstantsAssumption DEF CreateSem, KeyAfter, Keys
<1>3. /\ semVal' \in Seq(Values) /\ Len(semVal') \in Nat
      /\ Len(semVal) <= Len(semVal')
      /\ SemGot \in 1 .. Len(semVal')
      /\ \A n \in 1 .. Len(semVal) : semVal'[n] = semVal[n]
  <2>1. CASE semOf[key] = NoSem
    <3>1. semVal' = Append(semVal, 0) /\ SemGot = Len(semVal) + 1
      BY <2>1 DEF CreateSem, SemGot
    <3>2. /\ Append(semVal, 0) \in Seq(Values)
          /\ Len(Append(semVal, 0)) = Len(semVal) + 1
          /\ \A n \in 1 .. Len(semVal) : Append(semVal, 0)[n] = semVal[n]
      BY <1>1, AppendIs
    <3>. QED BY <1>1, <3>1, <3>2
  <2>2. CASE semOf[key] # NoSem
    <3>1. semVal' = semVal /\ SemGot = semOf[key]
      BY <2>2 DEF CreateSem, SemGot
    <3>. QED BY <1>1, <2>2, <3>1 DEF NoSem
  <2>. QED BY <2>1, <2>2
<1>4. semOf' \in [Keys -> 0 .. Len(semVal')]
  BY <1>1, <1>3 DEF CreateSem
<1>. QED BY <1>1, <1>2, <1>3, <1>4

\* SETVAL, semop() and IPC_RMID change one value.
LEMMA SemChanged ==
  ASSUME TypeOK, NEW n, NEW v \in Values, semVal' = [semVal EXCEPT ![n] = v]
  PROVE  /\ semVal' \in Seq(Values) /\ Len(semVal') = Len(semVal)
         /\ Len(semVal) \in Nat
         /\ \A m \in 1 .. Len(semVal) :
              semVal'[m] = IF m = n THEN v ELSE semVal[m]
<1>1. semVal \in Seq(Values) /\ Len(semVal) \in Nat
  BY DEF TypeOK, Values
<1>2. /\ [semVal EXCEPT ![n] = v] \in Seq(Values)
      /\ Len([semVal EXCEPT ![n] = v]) = Len(semVal)
      /\ \A m \in 1 .. Len(semVal) : [semVal EXCEPT ![n] = v][m] =
                                       IF m = n THEN v ELSE semVal[m]
  BY <1>1, ExceptIs
<1>. QED BY <1>1, <1>2

LEMMA TypeInit == Init => TypeOK
<1> SUFFICES ASSUME Init PROVE TypeOK
  OBVIOUS
<1>1. buffer \in [Positions -> Messages]
  BY DEF Init, Messages, NoTask, NoSem
<1>2. read \in Positions /\ write \in Positions /\ key \in Keys
  BY ConstantsAssumption DEF Init, Positions, Keys
<1>3. semVal \in Seq(Nat \cup {Gone}) /\ Len(semVal) = 0
  BY DEF Init
<1>4. calls \in [Callers -> 0 .. MaxCalls] /\ cpos \in [Callers -> Positions]
  BY ConstantsAssumption DEF Init, Positions
<1>. QED BY <1>1, <1>2, <1>3, <1>4
  DEF Init, TypeOK, WorkerLabels, CallerLabels, NoSem, NoTask

LEMMA StructureInit == Init => Started /\ Held /\ InTask /\ Filled /\ Order
<1> SUFFICES ASSUME Init PROVE Started /\ Held /\ InTask /\ Filled /\ Order
  OBVIOUS
<1>1. Started /\ Held /\ InTask
  BY DEF Init, Started, Held, InTask, InCall
<1>2. Filled
  BY DEF Init, Filled, InRing, Positions
<1>3. Order
  BY ConstantsAssumption DEF Init, Order, Left, Ahead
<1>. QED BY <1>1, <1>2, <1>3

LEMMA TypeCaller ==
  ASSUME TypeOK, InTask, NEW p \in Callers,
         CallerStep(p) \/ \E type \in Types : Call(p, type)
  PROVE  TypeOK'
<1> USE DEF TypeOK, CallerLabels, WorkerLabels
<1>1. ASSUME NEW type \in Types, Call(p, type) PROVE TypeOK'
  <2>1. calls[p] + 1 \in 1 .. MaxCalls
    BY <1>1, ConstantsAssumption DEF Call
  <2>2. [by |-> p, no |-> calls[p] + 1, type |-> type] \in Tasks
    BY <2>1, ConstantsAssumption DEF Tasks
  <2>3. calls' \in [Callers -> 0 .. MaxCalls]
    BY <1>1, <2>1 DEF Call
  <2>4. arg' \in [Callers -> Tasks \cup {NoTask}]
    BY <1>1, <2>2 DEF Call
  <2>. QED BY <1>1, <2>3, <2>4 DEF Call
<1>2. CASE WaitNotFull(p) BY <1>2 DEF WaitNotFull
<1>3. CASE Enqueue(p)
  <2>1. arg[p] \in Tasks /\ SemGot \in Nat
    BY SMTT(30), <1>3, SemCreated DEF Enqueue, InTask
  <2>2. [task |-> arg[p], ret |-> Unknown, sem |-> SemGot] \in Messages
    BY <2>1 DEF Messages
  <2>3. buffer' \in [Positions -> Messages]
    BY <1>3, <2>2 DEF Enqueue
  <2>4. accepted' \in Seq(Tasks) /\ Len(accepted) + 1 \in Nat
    BY <1>3, <2>1, AppendIs DEF Enqueue
  <2>5. /\ semVal' \in Seq(Values) /\ semOf' \in [Keys -> 0 .. Len(semVal')]
        /\ sem' \in [Callers -> 0 .. Len(semVal')]
        /\ wsem' \in 0 .. Len(semVal') /\ key' \in Keys
    <3>1. /\ Len(semVal') \in Nat /\ Len(semVal) \in Nat
          /\ Len(semVal) <= Len(semVal') /\ SemGot \in 1 .. Len(semVal')
          /\ semVal' \in Seq(Values) /\ key' \in Keys
          /\ semOf' \in [Keys -> 0 .. Len(semVal')]
      BY <1>3, SemCreated DEF Enqueue
    <3>2. \A n \in 0 .. Len(semVal) : n \in 0 .. Len(semVal')
      BY <3>1
    <3>. QED BY <1>3, <3>1, <3>2 DEF Enqueue
  <2>6. write' \in Positions
    BY <1>3, AdvanceIs DEF Enqueue
  <2>7. wpc' \in WorkerLabels
        /\ lapped' \in BOOLEAN /\ shared' \in BOOLEAN
        /\ pc' \in [Callers -> CallerLabels]
        /\ cpos' \in [Callers -> Positions] /\ nth' \in [Callers -> Nat]
    BY <1>3, <2>4 DEF Enqueue, Signalled
  <2>. QED
    BY <1>3, <2>3, <2>4, <2>5, <2>6, <2>7 DEF Enqueue, Values
<1>4. CASE SetSemvalue(p)
  <2>1. CASE semVal[sem[p]] = Gone
    BY <1>4, <2>1 DEF SetSemvalue
  <2>2. CASE semVal[sem[p]] # Gone
    <3>1. semVal' \in Seq(Values) /\ Len(semVal') = Len(semVal)
      BY <1>4, <2>2, SemChanged DEF SetSemvalue, Values
    <3>2. erased' \subseteq Callers
      BY <1>4, <2>2 DEF SetSemvalue, Users
    <3>. QED BY <1>4, <2>2, <3>1, <3>2 DEF SetSemvalue, Values
  <2>. QED BY <2>1, <2>2
<1>5. CASE SemaphoreP(p)
  <2>1. CASE Passes(sem[p]) /\ semVal' = [semVal EXCEPT ![sem[p]] = @ - 1]
             /\ pc' = [pc EXCEPT ![p] = "ret"]
    <3>1. semVal[sem[p]] \in Values
      BY <1>5 DEF SemaphoreP, InTask, InCall, Values
    <3>2. semVal[sem[p]] - 1 \in Values
      BY <3>1, <2>1 DEF Passes, Values, Gone
    <3>3. semVal' \in Seq(Values) /\ Len(semVal') = Len(semVal)
      BY <2>1, <3>2, SemChanged
    <3>. QED BY <1>5, <2>1, <3>3 DEF SemaphoreP, Values
  <2>. QED BY <1>5, <2>1 DEF SemaphoreP
<1>6. CASE ReadRet(p)
  BY <1>6 DEF ReadRet, Messages
<1>7. CASE DelSemvalue(p)
  <2>1. semVal' \in Seq(Values) /\ Len(semVal') = Len(semVal)
    BY <1>7, SemChanged DEF DelSemvalue, Values
  <2>2. semOf' \in [Keys -> 0 .. Len(semVal)]
    BY <1>7 DEF DelSemvalue, NoSem
  <2>. QED BY <1>7, <2>1, <2>2 DEF DelSemvalue, Values
<1>8. CASE Spin(p)
  BY <1>8 DEF Spin, Messages
<1>. QED BY <1>1, <1>2, <1>3, <1>4, <1>5, <1>6, <1>7, <1>8 DEF CallerStep

LEMMA TypeWorker ==
  ASSUME TypeOK, Held, Filled, Worker
  PROVE  TypeOK'
<1> USE DEF TypeOK, CallerLabels, WorkerLabels
<1>1. CASE WorkerStart
  <2>1. 0 \in Positions
    BY ConstantsAssumption DEF Positions
  <2>. QED BY <1>1, <2>1 DEF WorkerStart
<1>2. CASE WorkerWait BY <1>2 DEF WorkerWait
<1>3. CASE WorkerTake
  <2>1. InRing(read)
    BY <1>3, ConstantsAssumption DEF WorkerTake, IsEmpty, InRing, Positions
  <2>2. buffer[read].sem \in 1 .. Len(semVal)
    BY <2>1 DEF Filled
  <2>. QED BY <1>3, <2>2 DEF WorkerTake
<1>4. CASE WorkerAnswer
  <2>1. lapped \/ InRing(read)
    BY <1>4, ConstantsAssumption DEF WorkerAnswer, Held, InRing, Positions
  <2>2. buffer[read].task \in Tasks
    BY <2>1 DEF Filled
  <2>3. served' \in Seq(Tasks)
    BY <1>4, <2>2, AppendIs DEF WorkerAnswer
  <2>4. buffer' \in [Positions -> Messages]
    <3>1. buffer[read] \in Messages
      OBVIOUS
    <3>2. [buffer[read] EXCEPT !.ret = buffer[read].task] \in Messages
      BY <2>2, <3>1 DEF Messages
    <3>3. buffer' = [buffer EXCEPT
            ![read] = [buffer[read] EXCEPT !.ret = buffer[read].task]]
      BY <1>4 DEF WorkerAnswer
    <3>. QED BY <3>2, <3>3
  <2>5. read' \in Positions /\ pc' \in [Callers -> CallerLabels]
    BY <1>4, AdvanceIs DEF WorkerAnswer, Woken
  <2>. QED BY <1>4, <2>3, <2>4, <2>5 DEF WorkerAnswer
<1>5. CASE WorkerRaise BY <1>5 DEF WorkerRaise
<1>6. CASE WorkerV
  <2>1. CASE semVal[wsem] = Gone
    BY <1>6, <2>1 DEF WorkerV
  <2>2. CASE semVal[wsem] # Gone
    <3>1. semVal[wsem] + 1 \in Values
      BY <1>6, <2>2 DEF WorkerV, Held, Values, Gone
    <3>2. semVal' \in Seq(Values) /\ Len(semVal') = Len(semVal)
      BY <1>6, <2>2, <3>1, SemChanged DEF WorkerV
    <3>. QED BY <1>6, <2>2, <3>2 DEF WorkerV, Values
  <2>. QED BY <2>1, <2>2
<1>7. CASE WorkerEnd BY <1>7 DEF WorkerEnd
<1>. QED BY <1>1, <1>2, <1>3, <1>4, <1>5, <1>6, <1>7 DEF Worker
-----------------------------------------------------------------------------
(* The ring is a queue *)

\* Where the positions behind write_position are.
LEMMA BackIs ==
  ASSUME TypeOK
  PROVE  /\ \A d \in 1 .. RepoSize : Back(d) \in Positions
         /\ \A d, e \in 1 .. RepoSize : Back(d) = Back(e) => d = e
         /\ Back(RepoSize) = write
         /\ \A d \in 1 .. RepoSize : d = Ahead => Back(d) = read
<1>1. /\ RepoSize \in Nat /\ RepoSize >= 2
      /\ read \in 0 .. RepoSize - 1 /\ write \in 0 .. RepoSize - 1
  BY ConstantsAssumption DEF TypeOK, Positions
<1>2. \A d \in 1 .. RepoSize : Back(d) \in Positions
  BY <1>1 DEF Back, Positions
<1>3. \A d, e \in 1 .. RepoSize : Back(d) = Back(e) => d = e
  BY <1>1 DEF Back
<1>4. Back(RepoSize) = write
  BY <1>1 DEF Back
<1>5. \A d \in 1 .. RepoSize : d = Ahead => Back(d) = read
  BY <1>1 DEF Back, Ahead
<1>. QED BY <1>2, <1>3, <1>4, <1>5

LEMMA StructureEnqueue ==
  ASSUME IInv, NEW p \in Callers, Enqueue(p)
  PROVE  Filled' /\ Order'
<1> USE DEF TypeOK
<1>1. /\ Len(semVal') \in Nat /\ Len(semVal) \in Nat
      /\ Len(semVal) <= Len(semVal') /\ SemGot \in 1 .. Len(semVal')
  BY SemCreated DEF Enqueue, IInv
<1>2. arg[p] \in Tasks
  BY DEF Enqueue, IInv, InTask
<1>3. /\ buffer'[write].task = arg[p] /\ buffer'[write].sem = SemGot
      /\ \A i \in Positions : i # write => buffer'[i] = buffer[i]
  BY DEF Enqueue, IInv
<1>4. write' = Advance(write) /\ write' \in Positions /\ read' = read
      /\ write' = (IF write = RepoSize - 1 THEN 0 ELSE write + 1)
  BY AdvanceIs DEF Enqueue, IInv
<1>5. Filled'
  <2> SUFFICES ASSUME NEW i \in Positions, lapped' \/ InRing(i)'
               PROVE  /\ buffer'[i].task \in Tasks
                      /\ buffer'[i].sem \in 1 .. Len(semVal')
    BY DEF Filled
  <2>1. CASE i = write
    BY <2>1, <1>1, <1>2, <1>3
  <2>2. CASE i # write
    <3>1. lapped \/ InRing(i)
      BY <2>2, <1>4, ConstantsAssumption
      DEF Enqueue, InRing, Positions, IInv
    <3>2. buffer[i].task \in Tasks /\ buffer[i].sem \in 1 .. Len(semVal)
      BY <3>1 DEF IInv, Filled
    <3>. QED BY <2>2, <3>2, <1>1, <1>3
  <2>. QED BY <2>1, <2>2
<1>6. Order'
  <2> SUFFICES ASSUME ~lapped' PROVE Order'
    BY DEF Order
  <2>1. ~lapped /\ write' # read
    BY <1>4 DEF Enqueue, IInv
  <2>2. /\ Left \in 0 .. RepoSize - 1 /\ Ahead = Left
        /\ \A i \in 1 .. Len(served) : served[i] = accepted[i]
    BY <2>1 DEF IInv, Order
  <2>3. /\ accepted' = Append(accepted, arg[p]) /\ served' = served
        /\ accepted' \in Seq(Tasks)
        /\ Len(accepted') = Len(accepted) + 1
        /\ \A n \in 1 .. Len(accepted) : accepted'[n] = accepted[n]
        /\ accepted'[Len(accepted) + 1] = arg[p]
    BY <1>2, AppendIs DEF Enqueue, IInv
  <2>4. Len(accepted) \in Nat /\ Len(served) \in Nat
    BY DEF IInv
  <2>5. Left' = Left + 1 /\ Ahead' = Left' /\ Left' \in 0 .. RepoSize - 1
    <3>1. Left' = Left + 1
      BY <2>3, <2>4 DEF Left
    <3>2. Ahead' = Ahead + 1 /\ Ahead' \in 0 .. RepoSize - 1
      <4>1. /\ RepoSize \in Nat /\ RepoSize >= 2
            /\ read \in 0 .. RepoSize - 1 /\ write \in 0 .. RepoSize - 1
        BY ConstantsAssumption DEF Positions, IInv
      <4>. HIDE DEF TypeOK
      <4>2. CASE write = RepoSize - 1
        BY <1>4, <2>1, <4>1, <4>2 DEF Ahead
      <4>3. CASE write # RepoSize - 1
        BY <1>4, <2>1, <4>1, <4>3 DEF Ahead
      <4>. QED BY <4>2, <4>3
    <3>. QED BY <2>2, <3>1, <3>2
  <2>6. \A i \in 1 .. Len(served') : served'[i] = accepted'[i]
    <3>1. Len(served) <= Len(accepted)
      BY <2>2, <2>4, ConstantsAssumption DEF Left
    <3>. QED BY <2>2, <2>3, <2>4, <3>1
  <2>7. ASSUME NEW d \in 1 .. RepoSize, d <= Len(accepted')
        PROVE  /\ buffer'[Back(d)'].task = accepted'[Len(accepted') + 1 - d]
               /\ d > Left' =>
                  buffer'[Back(d)'].ret = accepted'[Len(accepted') + 1 - d]
    <3>1. CASE d = 1
      <4>1. Back(d)' = write
        BY <3>1, <1>4, ConstantsAssumption DEF Back, IInv, Positions
      <4>2. Len(accepted') + 1 - d = Len(accepted) + 1 /\ ~(d > Left')
        BY <3>1, <2>2, <2>3, <2>4, <2>5, ConstantsAssumption
      <4>. QED BY <4>1, <4>2, <1>3, <2>3
    <3>2. CASE d # 1
      <4>1. d - 1 \in 1 .. RepoSize /\ d - 1 <= Len(accepted)
            /\ d - 1 # RepoSize
        BY <3>2, <2>3, <2>4, <2>7, ConstantsAssumption
      <4>2. Back(d)' = Back(d - 1)
        BY <3>2, <1>4, ConstantsAssumption DEF Back, IInv, Positions
      <4>3. Back(d - 1) \in Positions /\ Back(d - 1) # write
        BY SMTT(30), <4>1, BackIs, ConstantsAssumption DEF IInv
      <4>4. /\ buffer[Back(d - 1)].task
                  = accepted[Len(accepted) + 1 - (d - 1)]
            /\ d - 1 > Left => buffer[Back(d - 1)].ret
                  = accepted[Len(accepted) + 1 - (d - 1)]
        BY <2>1, <4>1 DEF IInv, Order
      <4>5. /\ Len(accepted) + 1 - (d - 1) = Len(accepted') + 1 - d
            /\ Len(accepted') + 1 - d \in 1 .. Len(accepted)
            /\ d > Left' => d - 1 > Left
        BY SMTT(30), <4>1, <2>2, <2>3, <2>4, <2>5, ConstantsAssumption
      <4>6. accepted'[Len(accepted') + 1 - d]
              = accepted[Len(accepted') + 1 - d]
        BY <4>5, <2>3
      <4>7. buffer'[Back(d)'] = buffer[Back(d - 1)]
        BY <4>2, <4>3, <1>3
      <4>. QED BY <4>4, <4>5, <4>6, <4>7
    <3>. QED BY <3>1, <3>2
  <2>. QED BY <2>5, <2>6, <2>7 DEF Order
<1>. QED BY <1>5, <1>6

LEMMA StructureAnswer ==
  ASSUME IInv, WorkerAnswer
  PROVE  Filled' /\ Order'
<1> USE DEF TypeOK
<1>1. /\ RepoSize \in Nat /\ RepoSize >= 2
      /\ read \in 0 .. RepoSize - 1 /\ write \in 0 .. RepoSize - 1
      /\ read \in Positions
      /\ Len(accepted) \in Nat /\ Len(served) \in Nat
  BY ConstantsAssumption DEF Positions, IInv
<1>2. lapped \/ write # read
  BY DEF WorkerAnswer, IInv, Held
<1>3. buffer[read].task \in Tasks
  BY <1>1, <1>2 DEF IInv, Filled, InRing
<1>4. /\ read' = (IF read = RepoSize - 1 THEN 0 ELSE read + 1)
      /\ write' = write /\ lapped' = lapped /\ semVal' = semVal
      /\ accepted' = accepted
  BY <1>1, AdvanceIs DEF WorkerAnswer
<1>5. /\ \A i \in Positions : /\ buffer'[i].task = buffer[i].task
                              /\ buffer'[i].sem = buffer[i].sem
                              /\ i # read => buffer'[i] = buffer[i]
      /\ buffer'[read].ret = buffer[read].task
  <2>1. buffer' = [buffer EXCEPT
          ![read] = [buffer[read] EXCEPT !.ret = buffer[read].task]]
    BY DEF WorkerAnswer
  <2>2. buffer \in [Positions -> Messages]
    BY DEF IInv
  <2>. QED BY <2>1, <2>2, <1>1 DEF Messages
<1>. HIDE DEF TypeOK
<1>6. Filled'
  <2> SUFFICES ASSUME NEW i \in Positions, lapped' \/ InRing(i)'
               PROVE  /\ buffer'[i].task \in Tasks
                      /\ buffer'[i].sem \in 1 .. Len(semVal')
    BY DEF Filled
  <2>1. lapped \/ InRing(i)
    BY <1>1, <1>2, <1>4 DEF InRing, Positions
  <2>. QED BY <2>1, <1>4, <1>5 DEF IInv, Filled
<1>7. Order'
  <2> SUFFICES ASSUME ~lapped' PROVE Order'
    BY DEF Order
  <2>1. ~lapped /\ write # read
    BY <1>2, <1>4
  <2>2. /\ Left \in 0 .. RepoSize - 1 /\ Ahead = Left
        /\ \A i \in 1 .. Len(served) : served[i] = accepted[i]
    BY <2>1 DEF IInv, Order
  <2>3. Left \in 1 .. RepoSize /\ Left <= Len(accepted)
    BY <2>1, <2>2, <1>1 DEF Ahead, Left
  <2>4. Back(Left) = read
    BY <2>2, <2>3, BackIs DEF IInv
  <2>5. buffer[read].task = accepted[Len(accepted) + 1 - Left]
        /\ Len(accepted) + 1 - Left = Len(served) + 1
    BY <2>1, <2>3, <2>4, <1>1 DEF IInv, Order, Left
  <2>6. /\ served' = Append(served, buffer[read].task)
        /\ served' \in Seq(Tasks) /\ Len(served') = Len(served) + 1
        /\ \A n \in 1 .. Len(served) : served'[n] = served[n]
        /\ served'[Len(served) + 1] = buffer[read].task
    BY <1>3, AppendIs DEF WorkerAnswer, IInv, TypeOK
  <2>7. \A i \in 1 .. Len(served') : served'[i] = accepted'[i]
    BY <2>2, <2>5, <2>6, <1>1, <1>4
  <2>8. Left' = Left - 1 /\ Left' \in 0 .. RepoSize - 1
    BY <2>3, <2>6, <1>1, <1>4 DEF Left
  <2>9. Ahead' = Left'
    <3>1. Ahead' = Ahead - 1
      <4>1. CASE read = RepoSize - 1
        BY <2>1, <1>1, <1>4, <4>1 DEF Ahead
      <4>2. CASE read # RepoSize - 1
        BY <2>1, <1>1, <1>4, <4>2 DEF Ahead
      <4>. QED BY <4>1, <4>2
    <3>. QED BY <3>1, <2>2, <2>8
  <2>10. ASSUME NEW d \in 1 .. RepoSize, d <= Len(accepted')
         PROVE  /\ buffer'[Back(d)'].task = accepted'[Len(accepted') + 1 - d]
                /\ d > Left' =>
                   buffer'[Back(d)'].ret = accepted'[Len(accepted') + 1 - d]
    <3>1. Back(d)' = Back(d) /\ Back(d) \in Positions
      BY <1>4, BackIs DEF Back, IInv
    <3>2. /\ buffer[Back(d)].task = accepted[Len(accepted) + 1 - d]
          /\ d > Left =>
               buffer[Back(d)].ret = accepted[Len(accepted) + 1 - d]
      BY <2>1, <2>10, <1>4 DEF IInv, Order
    <3>3. buffer'[Back(d)'].task = accepted'[Len(accepted') + 1 - d]
      BY <3>1, <3>2, <1>4, <1>5
    <3>4. CASE d = Left
      BY <3>1, <3>3, <3>4, <2>4, <2>5, <1>4, <1>5
    <3>5. CASE d # Left
      <4>1. Back(d) # read
        BY <3>5, <2>3, <2>4, BackIs DEF IInv
      <4>2. d > Left' => d > Left
        BY <3>5, <2>3, <2>8
      <4>. QED BY <3>1, <3>2, <3>3, <4>1, <4>2, <1>4, <1>5
    <3>. QED BY <3>4, <3>5
  <2>. QED BY <2>7, <2>8, <2>9, <2>10 DEF Order
<1>. QED BY <1>6, <1>7

LEMMA ThreadsNext == IInv /\ [Next]_vars => Started' /\ Held' /\ InTask'
<1> SUFFICES ASSUME IInv, [Next]_vars PROVE Started' /\ Held' /\ InTask'
  OBVIOUS
<1> USE DEF IInv, Started, Held, InTask, InCall
<1>1. Len(semVal) \in Nat
  BY DEF TypeOK
<1>2. ASSUME NEW p \in Callers, NEW type \in Types, Call(p, type)
      PROVE  Started' /\ Held' /\ InTask'
  <2>1. calls[p] + 1 \in 1 .. MaxCalls
    BY <1>2, ConstantsAssumption DEF Call, TypeOK
  <2>2. [by |-> p, no |-> calls[p] + 1, type |-> type] \in Tasks
    BY <2>1, ConstantsAssumption DEF Tasks
  <2>. QED BY <1>2, <2>2 DEF Call, TypeOK
<1>3. ASSUME NEW p \in Callers, WaitNotFull(p)
      PROVE  Started' /\ Held' /\ InTask'
  BY <1>3 DEF WaitNotFull, TypeOK
<1>4. ASSUME NEW p \in Callers, Enqueue(p)
      PROVE  Started' /\ Held' /\ InTask'
  <2>1. /\ Len(semVal') \in Nat /\ Len(semVal) <= Len(semVal')
        /\ SemGot \in 1 .. Len(semVal')
    BY <1>4, SemCreated DEF Enqueue
  <2>2. \A n \in 1 .. Len(semVal) : n \in 1 .. Len(semVal')
    BY <1>1, <2>1
  <2>3. InTask'
    BY <1>4, <2>1, <2>2 DEF Enqueue, TypeOK
  <2>4. Started' /\ Held'
    BY <1>4, <2>2 DEF Enqueue, Signalled, TypeOK
  <2>. QED BY <2>3, <2>4
<1>5. ASSUME NEW p \in Callers,
             SetSemvalue(p) \/ SemaphoreP(p) \/ DelSemvalue(p)
      PROVE  Started' /\ Held' /\ InTask'
  <2>1. Len(semVal') = Len(semVal)
    BY <1>5, ExceptIs, SemChanged DEF SetSemvalue, SemaphoreP, DelSemvalue,
      TypeOK
  <2>. QED BY <1>5, <2>1 DEF SetSemvalue, SemaphoreP, DelSemvalue, TypeOK
<1>6. ASSUME NEW p \in Callers, ReadRet(p) \/ Spin(p)
      PROVE  Started' /\ Held' /\ InTask'
  BY <1>6 DEF ReadRet, Spin, TypeOK
<1>7. CASE WorkerStart BY <1>7 DEF WorkerStart, TypeOK
<1>8. CASE WorkerWait BY <1>8 DEF WorkerWait, TypeOK
<1>9. CASE WorkerTake
  <2>1. InRing(read)
    BY <1>9, ConstantsAssumption
    DEF WorkerTake, IsEmpty, InRing, Positions, TypeOK
  <2>2. buffer[read].sem \in 1 .. Len(semVal)
    BY <2>1 DEF Filled, TypeOK
  <2>. QED BY <1>9, <2>2 DEF WorkerTake, IsEmpty
<1>10. CASE WorkerAnswer
  BY <1>10 DEF WorkerAnswer, Woken, TypeOK
<1>11. CASE WorkerRaise BY <1>11 DEF WorkerRaise
<1>12. CASE WorkerV
  <2>1. Len(semVal') = Len(semVal)
    BY <1>12, ExceptIs DEF WorkerV, TypeOK
  <2>. QED BY <1>12, <2>1 DEF WorkerV
<1>13. CASE WorkerEnd BY <1>13 DEF WorkerEnd
<1>14. CASE UNCHANGED vars BY <1>14 DEF vars
<1>. QED
  BY <1>2, <1>3, <1>4, <1>5, <1>6, <1>7, <1>8, <1>9, <1>10, <1>11, <1>12,
     <1>13, <1>14
  DEF Next, CallerStep, Worker

\* What no step but Enqueue and WorkerAnswer writes.
LEMMA RingKept ==
  ASSUME IInv, Len(semVal') = Len(semVal),
         buffer' = buffer, read' = read, write' = write, lapped' = lapped,
         accepted' = accepted, served' = served
  PROVE  Filled' /\ Order'
  BY DEF IInv, Filled, Order, InRing, Left, Ahead, Back

THEOREM Inductive == Spec => []IInv
<1>1. Init => IInv
  BY TypeInit, StructureInit DEF IInv
<1>2. IInv /\ [Next]_vars => IInv'
  <2> SUFFICES ASSUME IInv, [Next]_vars PROVE IInv'
    OBVIOUS
  <2>1. TypeOK'
    <3>1. CASE Next BY <3>1, TypeCaller, TypeWorker DEF IInv, Next
    <3>2. CASE UNCHANGED vars BY <3>2 DEF IInv, TypeOK, vars
    <3>. QED BY <3>1, <3>2
  <2>2. Filled' /\ Order'
    <3>1. ASSUME NEW p \in Callers, Enqueue(p) PROVE Filled' /\ Order'
      BY <3>1, StructureEnqueue
    <3>2. CASE WorkerAnswer BY <3>2, StructureAnswer
    <3>3. ASSUME NEW p \in Callers, \/ WaitNotFull(p) \/ ReadRet(p) \/ Spin(p)
                                   \/ \E type \in Types : Call(p, type)
          PROVE Filled' /\ Order'
      BY <3>3, RingKept DEF WaitNotFull, ReadRet, Spin, Call
    <3>4. ASSUME NEW p \in Callers,
                 SetSemvalue(p) \/ SemaphoreP(p) \/ DelSemvalue(p)
          PROVE Filled' /\ Order'
      <4>1. Len(semVal') = Len(semVal)
        BY <3>4, ExceptIs DEF SetSemvalue, SemaphoreP, DelSemvalue, IInv,
          TypeOK
      <4>. QED
        BY <3>4, <4>1, RingKept DEF SetSemvalue, SemaphoreP, DelSemvalue
    <3>5. CASE WorkerStart
      BY <3>5, RingKept DEF WorkerStart, IInv, Started
    <3>6. CASE WorkerV
      <4>1. Len(semVal') = Len(semVal)
        BY <3>6, ExceptIs DEF WorkerV, IInv, TypeOK
      <4>. QED BY <3>6, <4>1, RingKept DEF WorkerV
    <3>7. CASE WorkerWait \/ WorkerTake \/ WorkerRaise \/ WorkerEnd
      BY <3>7, RingKept DEF WorkerWait, WorkerTake, WorkerRaise, WorkerEnd
    <3>8. CASE UNCHANGED vars BY <3>8, RingKept DEF vars
    <3>. QED BY <3>1, <3>2, <3>3, <3>4, <3>5, <3>6, <3>7, <3>8
      DEF Next, CallerStep, Worker
  <2>. QED BY <2>1, <2>2, ThreadsNext DEF IInv
<1>. QED BY <1>1, <1>2, PTL DEF Spec

\* Type correctness, for any number of callers, positions and keys.
THEOREM TypeCorrect == Spec => []TypeOK
<1>1. IInv => TypeOK
  BY DEF IInv
<1>. QED BY <1>1, Inductive, PTL

\* Until it is lapped the ring is a queue: tasks are answered in the order
\* they were accepted, and the two positions tell how many are left.
THEOREM Queue == Spec => []ServedInOrder
<1>1. IInv => ServedInOrder
  <2> SUFFICES ASSUME IInv, ~lapped
               PROVE  /\ Len(served) <= Len(accepted)
                      /\ \A i \in 1 .. Len(served) : served[i] = accepted[i]
                      /\ Len(accepted) - Len(served)
                           = (write - read) % RepoSize
    BY DEF ServedInOrder
  <2>1. /\ RepoSize \in Nat /\ RepoSize >= 2
        /\ read \in 0 .. RepoSize - 1 /\ write \in 0 .. RepoSize - 1
        /\ Len(accepted) \in Nat /\ Len(served) \in Nat
    BY ConstantsAssumption DEF IInv, TypeOK, Positions
  <2>2. Left \in 0 .. RepoSize - 1 /\ Ahead = Left
        /\ \A i \in 1 .. Len(served) : served[i] = accepted[i]
    BY DEF IInv, Order
  <2>3. Ahead = (write - read) % RepoSize
    <3>1. CASE read <= write
      <4>1. write - read \in 0 .. RepoSize - 1 /\ RepoSize \in Nat \ {0}
        BY <2>1, <3>1
      <4>2. (write - read) % RepoSize = write - read
        BY <4>1, SmallMod
      <4>. QED BY <3>1, <4>2 DEF Ahead
    <3>2. CASE ~(read <= write)
      <4>1. write - read + RepoSize \in 1 .. RepoSize - 1
            /\ RepoSize \in Nat \ {0}
            /\ write - read + RepoSize \in 1 .. RepoSize
            /\ (write - read + RepoSize) - RepoSize = write - read
        BY <2>1, <3>2
      <4>2. ((write - read + RepoSize) - RepoSize) % RepoSize
              = write - read + RepoSize
        BY <4>1, NegativeMod
      <4>. QED BY <3>2, <4>1, <4>2 DEF Ahead
    <3>. QED BY <3>1, <3>2
  <2>. QED BY <2>1, <2>2, <2>3 DEF Left
<1>. QED BY <1>1, Inductive, PTL

\* The test for a full ring fails at the turn of the ring and nowhere else.
THEOREM LappedAtTurn == Spec => LappedOnlyAtTurn
<1>1. IInv /\ [Next]_vars =>
        [~lapped /\ lapped' => write = RepoSize - 1 /\ read = 0]_vars
  <2> SUFFICES ASSUME IInv, [Next]_vars, ~lapped, lapped'
               PROVE  write = RepoSize - 1 /\ read = 0
    BY DEF vars
  <2>1. PICK p \in Callers : Enqueue(p)
    BY DEF Next, CallerStep, Worker, vars, WaitNotFull, SetSemvalue,
      SemaphoreP, ReadRet, DelSemvalue, Spin, Call, WorkerStart, WorkerWait,
      WorkerTake, WorkerAnswer, WorkerRaise, WorkerV, WorkerEnd
  <2>2. Advance(write) = read
    BY <2>1 DEF Enqueue
  <2>3. write + 1 # read
    BY <2>1, OneModSize DEF Enqueue, IsFull
  <2>. QED BY <2>2, <2>3, AdvanceIs DEF IInv, TypeOK
<1>. QED BY <1>1, Inductive, PTL DEF Spec, LappedOnlyAtTurn

\* No wakeup is lost, for any number of callers and whether or not the ring has
\* been lapped: the signal and the broadcast reach whoever waits before the
\* condition can change again.
THEOREM Awake == Spec => []NoLostWakeup
<1>1. Init => NoLostWakeup
  BY DEF Init, NoLostWakeup
<1>2. IInv /\ NoLostWakeup /\ [Next]_vars => NoLostWakeup'
  <2> SUFFICES ASSUME IInv, NoLostWakeup, [Next]_vars PROVE NoLostWakeup'
    OBVIOUS
  <2>1. pc \in [Callers -> CallerLabels]
    BY DEF IInv, TypeOK
  \* The positions stay and nobody else begins to wait.
  <2>2. ASSUME read' = read, write' = write,
               wpc' = "notEmpty" => wpc = "notEmpty",
               \A q \in Callers : pc'[q] = "notFull" => pc[q] = "notFull"
        PROVE  NoLostWakeup'
    BY <2>2 DEF NoLostWakeup, IsEmpty, IsFull
  <2>3. ASSUME NEW p \in Callers, WaitNotFull(p) PROVE NoLostWakeup'
    BY <2>3 DEF WaitNotFull, NoLostWakeup, IsEmpty, IsFull
  <2>4. ASSUME NEW p \in Callers, Enqueue(p) PROVE NoLostWakeup'
    <3>1. \A q \in Callers : pc[q] # "notFull"
      BY <2>4 DEF Enqueue, NoLostWakeup
    <3>2. \A q \in Callers : pc'[q] # "notFull"
      BY <2>1, <2>4, <3>1 DEF Enqueue
    <3>3. wpc' # "notEmpty"
      BY <2>4 DEF Enqueue, Signalled
    <3>. QED BY <3>2, <3>3 DEF NoLostWakeup
  <2>5. ASSUME NEW p \in Callers,
               \/ SetSemvalue(p) \/ SemaphoreP(p) \/ ReadRet(p)
               \/ DelSemvalue(p) \/ Spin(p)
               \/ \E type \in Types : Call(p, type)
        PROVE  NoLostWakeup'
    BY <2>1, <2>2, <2>5
    DEF SetSemvalue, SemaphoreP, ReadRet, DelSemvalue, Spin, Call
  <2>6. CASE WorkerStart
    <3>1. wpc' # "notEmpty" /\ \A q \in Callers : pc'[q] # "notFull"
      BY <2>6 DEF WorkerStart, IInv, Started
    <3>. QED BY <3>1 DEF NoLostWakeup
  <2>7. CASE WorkerWait
    BY <2>7 DEF WorkerWait, NoLostWakeup, IsEmpty, IsFull
  <2>8. CASE WorkerAnswer
    <3>1. wpc' # "notEmpty" /\ \A q \in Callers : pc'[q] # "notFull"
      BY <2>8 DEF WorkerAnswer, Woken
    <3>. QED BY <3>1 DEF NoLostWakeup
  <2>9. CASE WorkerTake \/ WorkerRaise \/ WorkerV \/ WorkerEnd
    BY <2>2, <2>9 DEF WorkerTake, WorkerRaise, WorkerV, WorkerEnd
  <2>10. CASE UNCHANGED vars
    BY <2>2, <2>10 DEF vars
  <2>. QED BY <2>3, <2>4, <2>5, <2>6, <2>7, <2>8, <2>9, <2>10
    DEF Next, CallerStep, Worker
<1>. QED BY <1>1, <1>2, Inductive, PTL DEF Spec

-----------------------------------------------------------------------------
(* Keys and semaphores                                                     *)

\* The place d places before place w of a ring of n.
Behind(w, n, d) == IF d <= w THEN w - d ELSE w - d + n

\* The key d keys before the next one.
KeyBack(d) == Behind(key, KeyCount, d)

\* How long ago the task of a call went in: 1 for the last one.
Since(p) == Len(accepted) + 1 - nth[p]

\* A semaphore has one key, and until KeyCount more have been given out it is
\* that of the call's turn.
Apart ==
  /\ \A p \in Callers : InCall(p) =>
       /\ nth[p] \in 1 .. Len(accepted)
       /\ \A k \in Keys :
            semOf[k] = sem[p] /\ Since(p) <= KeyCount => k = KeyBack(Since(p))
  /\ \A k, l \in Keys : semOf[k] = semOf[l] /\ semOf[k] # NoSem => k = l

LEMMA KeyBackIs ==
  ASSUME key \in Keys
  PROVE  /\ KeyAfter \in Keys
         /\ KeyAfter = IF key = KeyCount - 1 THEN 0 ELSE key + 1
         /\ \A d, e \in 1 .. KeyCount : KeyBack(d) = KeyBack(e) => d = e
         /\ KeyBack(KeyCount) = key
         /\ \A d \in 1 .. KeyCount : KeyBack(d) \in Keys
<1>1. KeyCount \in Nat \ {0} /\ key \in 0 .. KeyCount - 1
  BY ConstantsAssumption DEF Keys
<1>2. KeyAfter = IF key = KeyCount - 1 THEN 0 ELSE key + 1
  <2>1. CASE key = KeyCount - 1
    <3>1. KeyCount % KeyCount = 0
      BY <1>1
    <3>2. key + 1 = KeyCount
      BY <1>1, <2>1
    <3>. QED BY <2>1, <3>1, <3>2 DEF KeyAfter
  <2>2. CASE key # KeyCount - 1
    <3>1. key + 1 \in 0 .. KeyCount - 1
      BY <1>1, <2>2
    <3>. QED BY <1>1, <2>2, <3>1, SmallMod DEF KeyAfter
  <2>. QED BY <2>1, <2>2
<1>3. KeyAfter \in Keys
  BY <1>1, <1>2 DEF Keys
<1>4. \A d, e \in 1 .. KeyCount : KeyBack(d) = KeyBack(e) => d = e
  BY <1>1 DEF KeyBack, Behind
<1>5. KeyBack(KeyCount) = key
  BY <1>1 DEF KeyBack, Behind
<1>6. \A d \in 1 .. KeyCount : KeyBack(d) \in Keys
  BY <1>1 DEF KeyBack, Behind, Keys
<1>. QED BY <1>2, <1>3, <1>4, <1>5, <1>6

\* Giving out a key puts the others one further back.
LEMMA KeyBackNext ==
  ASSUME key \in Keys, key' = KeyAfter
  PROVE  /\ Behind(key', KeyCount, 1) = key
         /\ \A d \in 1 .. KeyCount - 1 :
              Behind(key', KeyCount, d + 1) = KeyBack(d)
<1>1. /\ KeyCount \in Nat \ {0} /\ key \in 0 .. KeyCount - 1
      /\ key' = IF key = KeyCount - 1 THEN 0 ELSE key + 1
  BY ConstantsAssumption, KeyBackIs DEF Keys
<1>2. Behind(key', KeyCount, 1) = key
  BY <1>1 DEF Behind
<1>3. \A d \in 1 .. KeyCount - 1 :
        Behind(key', KeyCount, d + 1) = KeyBack(d)
  BY <1>1 DEF KeyBack, Behind
<1>. QED BY <1>2, <1>3

\* Whose semaphore a call can be given: one of a task KeyCount or more before.
LEMMA GivenApart ==
  ASSUME IInv, Apart, NEW q \in Callers, InCall(q), sem[q] = SemGot
  PROVE  Since(q) >= KeyCount
<1>1. /\ key \in Keys /\ Len(semVal) \in Nat /\ Len(accepted) \in Nat
      /\ KeyCount \in Nat \ {0} /\ sem[q] \in 1 .. Len(semVal)
      /\ nth[q] \in 1 .. Len(accepted)
  BY ConstantsAssumption DEF IInv, TypeOK, InTask, Apart
<1>2. semOf[key] = sem[q]
  BY <1>1 DEF SemGot
<1>3. SUFFICES ASSUME Since(q) < KeyCount PROVE FALSE
  BY <1>1 DEF Since
<1>4. Since(q) \in 1 .. KeyCount /\ KeyCount \in 1 .. KeyCount
  BY <1>1, <1>3 DEF Since
<1>5. key = KeyBack(Since(q))
  BY <1>1, <1>2, <1>4 DEF Apart
<1>. QED BY <1>1, <1>3, <1>4, <1>5, KeyBackIs

LEMMA ApartEnqueue ==
  ASSUME IInv, Apart, SharedOnlyApart, NEW p \in Callers, Enqueue(p)
  PROVE  Apart' /\ SharedOnlyApart'
<1>1. /\ Len(accepted) \in Nat /\ Len(semVal) \in Nat
      /\ KeyCount \in Nat \ {0} /\ key \in Keys
      /\ semOf \in [Keys -> 0 .. Len(semVal)]
      /\ nth \in [Callers -> Nat] /\ sem \in [Callers -> 0 .. Len(semVal)]
      /\ \A q \in Callers : InCall(q) => sem[q] \in 1 .. Len(semVal)
  BY ConstantsAssumption DEF IInv, TypeOK, InTask
<1>2. Len(accepted') = Len(accepted) + 1
  BY AppendIs DEF Enqueue, IInv, TypeOK, InTask
<1>3. /\ key' = KeyAfter /\ semOf' = [semOf EXCEPT ![key] = SemGot]
      /\ sem' = [sem EXCEPT ![p] = SemGot]
      /\ nth' = [nth EXCEPT ![p] = Len(accepted) + 1]
      /\ SemGot = IF semOf[key] = NoSem THEN Len(semVal) + 1 ELSE semOf[key]
  BY DEF Enqueue, CreateSem, SemGot
<1>4. \A q \in Callers : InCall(q)' => q = p \/ InCall(q)
  BY DEF Enqueue, InCall, IInv, TypeOK
<1>5. /\ Behind(key', KeyCount, 1) = key
      /\ \A d \in 1 .. KeyCount - 1 :
           Behind(key', KeyCount, d + 1) = KeyBack(d)
  BY <1>1, <1>3, KeyBackNext
\* The calls before p, and p.
<1>6. ASSUME NEW q \in Callers, q # p, InCall(q)
      PROVE  /\ nth'[q] = nth[q] /\ sem'[q] = sem[q]
             /\ nth[q] \in 1 .. Len(accepted) /\ Since(q)' = Since(q) + 1
             /\ sem[q] = SemGot => nth[q] + KeyCount <= Len(accepted) + 1
  <2>1. nth'[q] = nth[q] /\ sem'[q] = sem[q] /\ nth[q] \in 1 .. Len(accepted)
    BY <1>1, <1>3, <1>6 DEF Apart
  <2>2. Since(q)' = Since(q) + 1
    BY <1>1, <1>2, <2>1 DEF Since
  <2>3. sem[q] = SemGot => Since(q) >= KeyCount
    BY <1>6, GivenApart
  <2>. QED BY <1>1, <2>1, <2>2, <2>3 DEF Since
<1>7. /\ nth'[p] = Len(accepted) + 1 /\ sem'[p] = SemGot
      /\ Since(p)' = 1
  BY <1>1, <1>2, <1>3 DEF Since
<1>8. \A k \in Keys : semOf'[k] = SemGot => k = key
  BY <1>1, <1>3 DEF Apart, NoSem
<1>9. SharedOnlyApart'
  BY <1>1, <1>4, <1>6, <1>7 DEF SharedOnlyApart
<1>10. ASSUME NEW q \in Callers, InCall(q)'
       PROVE  /\ nth'[q] \in 1 .. Len(accepted')
              /\ \A k \in Keys : semOf'[k] = sem'[q] /\ Since(q)' <= KeyCount
                   => k = Behind(key', KeyCount, Since(q)')
  <2>1. CASE q = p
    BY <1>1, <1>2, <1>5, <1>7, <1>8, <2>1
  <2>2. CASE q # p
    <3>1. InCall(q)
      BY <1>4, <1>10, <2>2
    <3>2. nth'[q] \in 1 .. Len(accepted')
      BY <1>1, <1>2, <1>6, <2>2, <3>1
    <3>3. ASSUME NEW k \in Keys, semOf'[k] = sem[q], Since(q)' <= KeyCount
          PROVE  k = Behind(key', KeyCount, Since(q)')
      <4>1. Since(q) \in 1 .. KeyCount - 1 /\ Since(q)' = Since(q) + 1
        <5>1. Since(q)' = Since(q) + 1 /\ nth[q] \in 1 .. Len(accepted)
          BY <1>6, <2>2, <3>1
        <5>2. Since(q) \in Nat /\ Since(q) >= 1
          BY <1>1, <5>1 DEF Since
        <5>3. Since(q) + 1 <= KeyCount
          BY <3>3, <5>1
        <5>. QED BY <1>1, <5>1, <5>2, <5>3
      <4>2. sem[q] # SemGot
        BY <1>1, <1>6, <2>2, <3>1, <4>1 DEF Since
      <4>3. semOf[k] = sem[q]
        BY <1>1, <1>3, <3>3, <4>2
      <4>4. k = KeyBack(Since(q))
        BY <1>1, <3>1, <4>1, <4>3 DEF Apart
      <4>. QED BY <1>5, <4>1, <4>4
    <3>. QED BY <1>6, <2>2, <3>1, <3>2, <3>3
  <2>. QED BY <2>1, <2>2
<1>11. \A k, l \in Keys : semOf'[k] = semOf'[l] /\ semOf'[k] # NoSem => k = l
  BY <1>1, <1>3, <1>8 DEF Apart
<1>. QED BY <1>9, <1>10, <1>11 DEF Apart, KeyBack

\* Semaphores are only removed.
LEMMA ApartKept ==
  ASSUME Apart, SharedOnlyApart, key' = key, sem' = sem, nth' = nth,
         accepted' = accepted,
         \A k \in Keys : semOf'[k] \in {NoSem, semOf[k]},
         \A q \in Callers : InCall(q)' => InCall(q) /\ sem[q] # NoSem
  PROVE  Apart' /\ SharedOnlyApart'
  BY DEF Apart, SharedOnlyApart, KeyBack, Since

\* What the calls and their semaphores are after the other steps.
LEMMA OtherSteps ==
  ASSUME IInv, [Next]_vars, ~\E p \in Callers : Enqueue(p)
  PROVE  /\ key' = key /\ sem' = sem /\ nth' = nth /\ cpos' = cpos
         /\ write' = write /\ accepted' = accepted /\ shared' = shared
         /\ lapped' = lapped /\ Len(semVal') = Len(semVal)
         /\ \A k \in Keys : semOf'[k] \in {NoSem, semOf[k]}
         /\ (\A p \in Callers : ~DelSemvalue(p)) => semOf' = semOf
         /\ \A q \in Callers : InCall(q)' => InCall(q) /\ arg'[q] = arg[q]
<1>1. pc \in [Callers -> CallerLabels] /\ semVal \in Seq(Values)
      /\ arg \in [Callers -> Tasks \cup {NoTask}]
      /\ semOf \in [Keys -> 0 .. Len(semVal)]
  BY DEF IInv, TypeOK, Values
<1>2. CASE \E p \in Callers : \/ WaitNotFull(p) \/ ReadRet(p) \/ Spin(p)
                              \/ \E type \in Types : Call(p, type)
  BY <1>1, <1>2 DEF WaitNotFull, ReadRet, Spin, Call, InCall
<1>3. ASSUME NEW p \in Callers, SetSemvalue(p) \/ SemaphoreP(p)
      PROVE  /\ Len(semVal') = Len(semVal) /\ semOf' = semOf
             /\ \A q \in Callers : InCall(q)' => InCall(q)
  <2>1. Len(semVal') = Len(semVal)
    BY <1>1, <1>3, ExceptIs DEF SetSemvalue, SemaphoreP
  <2>. QED BY <1>1, <1>3, <2>1 DEF SetSemvalue, SemaphoreP, InCall
<1>4. CASE \E p \in Callers : SetSemvalue(p) \/ SemaphoreP(p)
  BY <1>3, <1>4 DEF SetSemvalue, SemaphoreP
<1>5. CASE \E p \in Callers : DelSemvalue(p)
  <2>1. Len(semVal') = Len(semVal)
    BY <1>1, <1>5, ExceptIs DEF DelSemvalue
  <2>. QED BY <1>1, <1>5, <2>1 DEF DelSemvalue, InCall
<1>6. CASE WorkerStart
  BY <1>1, <1>6 DEF WorkerStart, IInv, Started, InCall
<1>7. CASE WorkerV
  <2>1. Len(semVal') = Len(semVal)
    BY <1>1, <1>7, ExceptIs DEF WorkerV
  <2>. QED BY <1>1, <1>7, <2>1 DEF WorkerV, InCall
<1>8. CASE WorkerAnswer
  BY <1>1, <1>8 DEF WorkerAnswer, Woken, InCall
<1>9. CASE WorkerWait \/ WorkerTake \/ WorkerRaise \/ WorkerEnd
           \/ UNCHANGED vars
  BY <1>9 DEF WorkerWait, WorkerTake, WorkerRaise, WorkerEnd, vars, InCall
<1>. QED
  BY <1>2, <1>4, <1>5, <1>6, <1>7, <1>8, <1>9 DEF Next, CallerStep, Worker

\* Two calls are on one semaphore only if the keys have come round between
\* them, for any number of callers and keys, after any removals.
THEOREM OnlyApart == Spec => []SharedOnlyApart
<1>1. Init => Apart /\ SharedOnlyApart
  BY DEF Init, Apart, SharedOnlyApart, InCall
<1>2. IInv /\ Apart /\ SharedOnlyApart /\ [Next]_vars
      => Apart' /\ SharedOnlyApart'
  <2> SUFFICES ASSUME IInv, Apart, SharedOnlyApart, [Next]_vars
               PROVE  Apart' /\ SharedOnlyApart'
    OBVIOUS
  <2>1. CASE \E p \in Callers : Enqueue(p)
    BY <2>1, ApartEnqueue
  <2>2. CASE ~\E p \in Callers : Enqueue(p)
    <3>1. \A q \in Callers : InCall(q) => sem[q] # NoSem
      BY DEF IInv, InTask, NoSem
    <3>. QED BY <2>2, <3>1, OtherSteps, ApartKept
  <2>. QED BY <2>1, <2>2
<1>. QED BY <1>1, <1>2, Inductive, PTL DEF Spec

-----------------------------------------------------------------------------
(* Until a semaphore is shared                                             *)

\* Every task has created a semaphore of its own, numbered as the task, and
\* the keys name those of the calls that are not over.
Fresh ==
  /\ Len(semVal) = Len(accepted)
  /\ \A k \in Keys : semOf[k] # NoSem =>
       \E p \in Callers : InCall(p) /\ sem[p] = semOf[k]

\* A call lasts no longer than its key takes to come round.
Owners ==
  \A p \in Callers : InCall(p) =>
    /\ sem[p] = nth[p] /\ nth[p] \in 1 .. Len(accepted)
    /\ accepted[nth[p]] = arg[p]
    /\ Since(p) <= KeyCount
    /\ semOf[KeyBack(Since(p))] = sem[p]
    /\ cpos[p] = Back(Since(p))

KInv == Fresh /\ Owners

\* A call never loses its semaphore, and so never ends in the busy loop.
Usable ==
  \A p \in Callers : /\ pc[p] # "spin"
                     /\ InCall(p) => semVal[sem[p]] # Gone

LEMMA OwnSem ==
  ASSUME IInv, KInv, NEW p \in Callers, NEW q \in Callers, p # q,
         InCall(p), InCall(q)
  PROVE  sem[p] # sem[q]
<1>1. arg[p].by = p /\ arg[q].by = q
  BY DEF IInv, InTask, InCall
<1>. QED BY <1>1 DEF KInv, Owners

LEMMA FreshEnqueue ==
  ASSUME IInv, KInv, ~shared', NEW p \in Callers, Enqueue(p)
  PROVE  /\ KInv' /\ SemGot = Len(accepted) + 1
         /\ semVal' = Append(semVal, 0)
         /\ accepted' = Append(accepted, arg[p])
         /\ arg[p] \in Tasks
<1>1. /\ Len(accepted) \in Nat /\ accepted \in Seq(Tasks)
      /\ arg[p] \in Tasks /\ accepted' = Append(accepted, arg[p])
      /\ semVal \in Seq(Values) /\ semOf \in [Keys -> 0 .. Len(semVal)]
      /\ nth \in [Callers -> Nat] /\ write \in Positions /\ key \in Keys
      /\ sem \in [Callers -> 0 .. Len(semVal)]
      /\ cpos \in [Callers -> Positions]
      /\ pc \in [Callers -> CallerLabels]
  BY DEF IInv, TypeOK, InTask, Enqueue, Values
<1>0. /\ Len(accepted) \in Nat /\ KeyCount \in Nat \ {0}
      /\ KeyCount <= RepoSize
      /\ RepoSize \in Nat /\ RepoSize >= 2 /\ write \in 0 .. RepoSize - 1
  BY <1>1, ConstantsAssumption, KeysAssumption DEF Positions
<1>2. /\ Len(accepted') = Len(accepted) + 1
      /\ \A n \in 1 .. Len(accepted) : accepted'[n] = accepted[n]
      /\ accepted'[Len(accepted) + 1] = arg[p]
  BY <1>1, AppendIs
<1>3. Users(SemGot) = {}
  BY DEF Enqueue
<1>4. semOf[key] = NoSem
  BY <1>1, <1>3 DEF SemGot, Users, KInv, Fresh
<1>5. /\ SemGot = Len(accepted) + 1 /\ semVal' = Append(semVal, 0)
      /\ semOf' = [semOf EXCEPT ![key] = SemGot] /\ key' = KeyAfter
  BY <1>4 DEF SemGot, Enqueue, CreateSem, KInv, Fresh
<1>6. /\ sem' = [sem EXCEPT ![p] = SemGot]
      /\ cpos' = [cpos EXCEPT ![p] = write]
      /\ nth' = [nth EXCEPT ![p] = Len(accepted) + 1]
      /\ pc' = [pc EXCEPT ![p] = "set"] /\ arg' = arg /\ pc[p] = "lock"
      /\ write' = IF write = RepoSize - 1 THEN 0 ELSE write + 1
  BY <1>1, AdvanceIs DEF Enqueue
<1>7. /\ Behind(key', KeyCount, 1) = key
      /\ \A d \in 1 .. KeyCount - 1 :
           Behind(key', KeyCount, d + 1) = KeyBack(d)
  BY <1>1, <1>5, KeyBackNext
<1>8. /\ Behind(write', RepoSize, 1) = write
      /\ \A n \in 1 .. RepoSize - 1 :
           Behind(write', RepoSize, n + 1) = Back(n)
  <2>1. write' = IF write = RepoSize - 1 THEN 0 ELSE write + 1
    BY <1>6
  <2>. QED BY <2>1, <1>0 DEF Back, Behind
\* The calls that are not over, one step further back.
<1>9. ASSUME NEW q \in Callers, q # p, InCall(q)
      PROVE  /\ sem'[q] = nth'[q] /\ nth'[q] \in 1 .. Len(accepted')
             /\ accepted'[nth'[q]] = arg'[q]
             /\ Since(q)' <= KeyCount
             /\ semOf'[Behind(key', KeyCount, Since(q)')] = sem'[q]
             /\ cpos'[q] = Behind(write', RepoSize, Since(q)')
             /\ sem'[q] = sem[q] /\ sem[q] # SemGot /\ InCall(q)'
  <2>1. /\ sem'[q] = sem[q] /\ nth'[q] = nth[q] /\ cpos'[q] = cpos[q]
        /\ InCall(q)' /\ arg' = arg
    BY <1>1, <1>6, <1>9 DEF InCall
  <2>2. /\ sem[q] = nth[q] /\ nth[q] \in 1 .. Len(accepted)
        /\ accepted[nth[q]] = arg[q] /\ Since(q) <= KeyCount
        /\ semOf[KeyBack(Since(q))] = sem[q] /\ cpos[q] = Back(Since(q))
    BY <1>9 DEF KInv, Owners
  <2>3. Since(q) \in 1 .. KeyCount /\ Since(q)' = Since(q) + 1
    BY <1>0, <1>2, <2>1, <2>2 DEF Since
  <2>4. KeyBack(Since(q)) # key /\ KeyBack(Since(q)) \in Keys
    BY <1>0, <1>1, <1>4, <2>2, <2>3, KeyBackIs DEF NoSem
  <2>5. Since(q) \in 1 .. KeyCount - 1 /\ Since(q) \in 1 .. RepoSize - 1
    <3>1. KeyBack(KeyCount) = key
      BY <1>1, KeyBackIs
    <3>2. Since(q) # KeyCount
      BY <2>4, <3>1
    <3>. QED BY <1>0, <2>3, <3>2
  <2>6. Behind(key', KeyCount, Since(q)') = KeyBack(Since(q))
        /\ Behind(write', RepoSize, Since(q)') = Back(Since(q))
    BY <1>7, <1>8, <2>3, <2>5
  <2>7. semOf'[KeyBack(Since(q))] = sem[q]
    BY <1>1, <1>5, <2>2, <2>4
  <2>8. nth[q] \in 1 .. Len(accepted') /\ accepted'[nth[q]] = arg[q]
        /\ sem[q] # SemGot /\ Since(q)' <= KeyCount
    BY <1>0, <1>2, <1>5, <2>2, <2>3, <2>5
  <2>. QED BY <2>1, <2>2, <2>6, <2>7, <2>8
<1>10. /\ sem'[p] = nth'[p] /\ nth'[p] \in 1 .. Len(accepted')
       /\ accepted'[nth'[p]] = arg'[p]
       /\ Since(p)' <= KeyCount
       /\ semOf'[Behind(key', KeyCount, Since(p)')] = sem'[p]
       /\ cpos'[p] = Behind(write', RepoSize, Since(p)')
       /\ InCall(p)' /\ sem'[p] = SemGot
  <2>1. /\ sem'[p] = SemGot /\ nth'[p] = Len(accepted) + 1
        /\ cpos'[p] = write /\ arg' = arg /\ pc'[p] = "set"
    BY <1>1, <1>6
  <2>2. Since(p)' = 1
    BY <1>0, <1>2, <2>1 DEF Since
  <2>3. semOf'[key] = SemGot
    BY <1>1, <1>5
  <2>. QED BY <1>0, <1>2, <1>5, <1>7, <1>8, <2>1, <2>2, <2>3 DEF InCall
<1>11. \A q \in Callers : InCall(q)' => q = p \/ InCall(q)
  BY <1>1, <1>6 DEF InCall
<1>12. Fresh'
  <2>1. Len(semVal') = Len(accepted')
    <3>1. Len(Append(semVal, 0)) = Len(semVal) + 1
      BY <1>1
    <3>. QED BY <3>1, <1>2, <1>5 DEF KInv, Fresh
  <2>2. ASSUME NEW k \in Keys, semOf'[k] # NoSem
        PROVE  \E q \in Callers : InCall(q)' /\ sem'[q] = semOf'[k]
    <3>1. CASE k = key
      BY <1>1, <1>5, <1>10, <3>1
    <3>2. CASE k # key
      <4>1. semOf'[k] = semOf[k]
        BY <1>1, <1>5, <3>2
      <4>2. PICK q \in Callers : InCall(q) /\ sem[q] = semOf[k]
        BY <2>2, <4>1 DEF KInv, Fresh
      <4>3. q # p
        BY <1>6, <4>2 DEF InCall
      <4>. QED BY <1>9, <4>1, <4>2, <4>3
    <3>. QED BY <3>1, <3>2
  <2>. QED BY <2>1, <2>2 DEF Fresh
<1>13. Owners'
  <2>1. \A d : Behind(key', KeyCount, d) = KeyBack(d)'
    BY DEF KeyBack
  <2>2. \A d : Behind(write', RepoSize, d) = Back(d)'
    BY DEF Back, Behind
  <2>. QED BY <1>9, <1>10, <1>11, <2>1, <2>2 DEF Owners, KeyBack, Back, Behind
<1>. QED BY <1>1, <1>5, <1>12, <1>13 DEF KInv

\* Until a semaphore is shared it is removed by the call it is of only, which
\* is over then.
LEMMA OwnersKept ==
  ASSUME IInv, KInv, Usable, [Next]_vars, ~\E p \in Callers : Enqueue(p)
  PROVE  KInv'
<1>1. /\ key' = key /\ sem' = sem /\ nth' = nth /\ cpos' = cpos
      /\ write' = write /\ accepted' = accepted
      /\ Len(semVal') = Len(semVal)
      /\ (\A p \in Callers : ~DelSemvalue(p)) => semOf' = semOf
      /\ \A q \in Callers : InCall(q)' => InCall(q) /\ arg'[q] = arg[q]
  BY OtherSteps
<1>2. pc \in [Callers -> CallerLabels] /\ key \in Keys
      /\ semOf \in [Keys -> 0 .. Len(semVal)]
      /\ KeyCount \in Nat \ {0} /\ Len(accepted) \in Nat
  BY ConstantsAssumption DEF IInv, TypeOK
<1>3. \A q \in Callers : Since(q)' = Since(q)
  BY <1>1 DEF Since
<1>4. \A d : KeyBack(d)' = KeyBack(d) /\ Back(d)' = Back(d)
  BY <1>1 DEF KeyBack, Back
<1>5. CASE \A p \in Callers : ~DelSemvalue(p)
  <2>1. semOf' = semOf
    BY <1>1, <1>5
  <2>2. \A q \in Callers : InCall(q) => InCall(q)'
    BY <1>2, <1>5
    DEF Next, CallerStep, Worker, vars, WaitNotFull, Enqueue, SetSemvalue,
      SemaphoreP, ReadRet, Spin, Call, WorkerStart, WorkerWait, WorkerTake,
      WorkerAnswer, Woken, WorkerRaise, WorkerV, WorkerEnd, InCall, Usable
  <2>3. Fresh'
    BY <1>1, <2>1, <2>2 DEF KInv, Fresh
  <2>4. Owners'
    BY <1>1, <1>3, <1>4, <2>1 DEF KInv, Owners
  <2>. QED BY <2>3, <2>4 DEF KInv
<1>6. ASSUME NEW p \in Callers, DelSemvalue(p) PROVE KInv'
  <2>1. /\ pc' = [pc EXCEPT ![p] = "idle"] /\ InCall(p)
        /\ semOf' = [k \in Keys |-> IF semOf[k] = sem[p] THEN NoSem
                                    ELSE semOf[k]]
    BY <1>6 DEF DelSemvalue, InCall
  <2>2. \A q \in Callers : q # p /\ InCall(q) => InCall(q)'
    BY <1>2, <2>1 DEF InCall
  <2>3. \A q \in Callers : InCall(q)' => q # p /\ InCall(q)
    BY <1>2, <2>1 DEF InCall
  <2>4. ASSUME NEW k \in Keys, semOf'[k] # NoSem
        PROVE  \E q \in Callers : InCall(q)' /\ sem'[q] = semOf'[k]
    <3>1. semOf'[k] = semOf[k] /\ semOf[k] # sem[p]
      BY <2>1, <2>4
    <3>2. PICK q \in Callers : InCall(q) /\ sem[q] = semOf[k]
      BY <2>4, <3>1 DEF KInv, Fresh
    <3>. QED BY <1>1, <2>2, <3>1, <3>2
  <2>5. Fresh'
    BY <1>1, <2>4 DEF KInv, Fresh
  <2>6. ASSUME NEW q \in Callers, InCall(q)'
        PROVE  semOf'[KeyBack(Since(q))] = sem[q]
    <3>1. sem[q] # sem[p] /\ InCall(q)
      BY <2>1, <2>3, <2>6, OwnSem
    <3>2. semOf[KeyBack(Since(q))] = sem[q] /\ Since(q) <= KeyCount
          /\ nth[q] \in 1 .. Len(accepted)
      BY <3>1 DEF KInv, Owners
    <3>3. KeyBack(Since(q)) \in Keys
      <4>1. Since(q) \in 1 .. KeyCount
        BY <1>2, <3>2 DEF Since
      <4>. QED BY <1>2, <4>1, KeyBackIs
    <3>. QED BY <2>1, <3>1, <3>2, <3>3
  <2>7. Owners'
    BY <1>1, <1>3, <1>4, <2>6 DEF KInv, Owners
  <2>. QED BY <2>5, <2>7 DEF KInv
<1>. QED BY <1>5, <1>6

LEMMA KNext ==
  IInv /\ KInv /\ Usable /\ ~shared' /\ [Next]_vars => KInv'
  BY FreshEnqueue, OwnersKept

LEMMA KInit == Init => KInv /\ Usable
<1> SUFFICES ASSUME Init PROVE KInv /\ Usable
  OBVIOUS
<1>1. Len(semVal) = 0 /\ Len(accepted) = 0
  BY DEF Init
<1>. QED BY <1>1 DEF Init, KInv, Usable, Fresh, Owners, InCall

LEMMA UsableNext ==
  IInv /\ KInv /\ Usable /\ ~shared' /\ [Next]_vars => Usable'
<1> SUFFICES ASSUME IInv, KInv, Usable, ~shared', [Next]_vars
             PROVE  Usable'
  OBVIOUS
<1>1. /\ pc \in [Callers -> CallerLabels] /\ semVal \in Seq(Values)
      /\ Len(semVal) \in Nat
      /\ \A p \in Callers : InCall(p) => sem[p] \in 1 .. Len(semVal)
      /\ wpc = "v" => wsem \in 1 .. Len(semVal)
      /\ sem \in [Callers -> 0 .. Len(semVal)]
  BY DEF IInv, TypeOK, InTask, Held, Values
\* No semaphore is removed and no other call begins.
<1>2. ASSUME \A n \in 1 .. Len(semVal) :
               semVal[n] # Gone => semVal'[n] # Gone,
             \A q \in Callers : /\ pc'[q] # "spin"
                                /\ InCall(q)' => InCall(q) /\ sem'[q] = sem[q]
      PROVE  Usable'
  BY <1>1, <1>2 DEF Usable
<1>3. ASSUME NEW p \in Callers, Enqueue(p) PROVE Usable'
  <2>1. /\ SemGot = Len(semVal) + 1 /\ semVal' = Append(semVal, 0)
        /\ sem' = [sem EXCEPT ![p] = SemGot]
        /\ pc' = [pc EXCEPT ![p] = "set"]
    BY <1>3, FreshEnqueue DEF Enqueue, KInv, Fresh
  <2>2. /\ \A n \in 1 .. Len(semVal) : semVal'[n] = semVal[n]
        /\ semVal'[Len(semVal) + 1] = 0
    <3>1. 0 \in Values
      BY DEF Values
    <3>. QED BY <1>1, <2>1, <3>1, AppendIs
  <2>3. ASSUME NEW q \in Callers
        PROVE  pc'[q] # "spin" /\ (InCall(q)' => semVal'[sem'[q]] # Gone)
    <3>1. CASE q = p
      <4>1. sem'[q] = Len(semVal) + 1 /\ pc'[q] = "set"
        BY <1>1, <2>1, <3>1
      <4>. QED BY <4>1, <2>2 DEF Gone
    <3>2. CASE q # p
      <4>1. sem'[q] = sem[q] /\ pc'[q] = pc[q]
        BY <1>1, <2>1, <3>2
      <4>. QED BY <4>1, <1>1, <2>2 DEF Usable, InCall
    <3>. QED BY <3>1, <3>2
  <2>. QED BY <2>3 DEF Usable
<1>4. ASSUME NEW p \in Callers, NEW type \in Types, Call(p, type)
      PROVE  Usable'
  BY <1>1, <1>2, <1>4 DEF Call, InCall, Usable
<1>5. ASSUME NEW p \in Callers, WaitNotFull(p) \/ ReadRet(p) \/ Spin(p)
      PROVE  Usable'
  BY <1>1, <1>2, <1>5 DEF WaitNotFull, ReadRet, Spin, InCall, Usable
<1>6. ASSUME NEW p \in Callers, SetSemvalue(p) PROVE Usable'
  <2>1. semVal[sem[p]] # Gone
    BY <1>6 DEF SetSemvalue, Usable, InCall
  <2>2. semVal' = [semVal EXCEPT ![sem[p]] = 0]
        /\ pc' = [pc EXCEPT ![p] = "p"] /\ sem' = sem
    BY <1>6, <2>1 DEF SetSemvalue
  <2>3. \A n \in 1 .. Len(semVal) : semVal[n] # Gone => semVal'[n] # Gone
    BY <1>1, <2>2 DEF Gone
  <2>4. \A q \in Callers : /\ pc'[q] # "spin"
                           /\ InCall(q)' => InCall(q) /\ sem'[q] = sem[q]
    BY <1>1, <1>6, <2>2 DEF InCall, Usable, SetSemvalue
  <2>. QED BY <1>2, <2>3, <2>4
<1>7. ASSUME NEW p \in Callers, SemaphoreP(p) PROVE Usable'
  <2>1. semVal[sem[p]] # Gone
    BY <1>7 DEF SemaphoreP, Usable, InCall
  <2>2. semVal' = [semVal EXCEPT ![sem[p]] = @ - 1] /\ Passes(sem[p])
        /\ pc' = [pc EXCEPT ![p] = "ret"] /\ sem' = sem
    BY <1>7, <2>1 DEF SemaphoreP
  <2>3. \A n \in 1 .. Len(semVal) : semVal[n] # Gone => semVal'[n] # Gone
    <3>1. sem[p] \in 1 .. Len(semVal)
      BY <1>1, <1>7 DEF SemaphoreP, InCall
    <3>2. semVal[sem[p]] - 1 # Gone
      BY <1>1, <2>2, <3>1 DEF Passes, Gone, Values
    <3>. QED BY <1>1, <2>2, <3>2
  <2>4. \A q \in Callers : /\ pc'[q] # "spin"
                           /\ InCall(q)' => InCall(q) /\ sem'[q] = sem[q]
    BY <1>1, <1>7, <2>2 DEF InCall, Usable, SemaphoreP
  <2>. QED BY <1>2, <2>3, <2>4
<1>8. ASSUME NEW p \in Callers, DelSemvalue(p) PROVE Usable'
  <2>1. /\ semVal' = [semVal EXCEPT ![sem[p]] = Gone] /\ sem' = sem
        /\ pc' = [pc EXCEPT ![p] = "idle"] /\ pc[p] = "del"
    BY <1>8 DEF DelSemvalue
  <2>2. \A q \in Callers : InCall(q)' => q # p /\ InCall(q)
    BY <1>1, <2>1 DEF InCall
  <2>3. \A q \in Callers : InCall(q)' => sem[q] # sem[p]
    BY <2>1, <2>2, OwnSem DEF InCall
  <2>. QED BY <1>1, <2>1, <2>2, <2>3 DEF Usable
<1>9. CASE WorkerV
  <2>1. \A n \in 1 .. Len(semVal) : semVal[n] # Gone => semVal'[n] # Gone
    BY <1>1, <1>9 DEF WorkerV, Gone, Values
  <2>. QED BY <1>2, <1>9, <2>1 DEF WorkerV, Usable, InCall
<1>10. CASE WorkerAnswer
  BY <1>1, <1>2, <1>10 DEF WorkerAnswer, Woken, Usable, InCall
<1>11. CASE WorkerStart \/ WorkerWait \/ WorkerTake \/ WorkerRaise
            \/ WorkerEnd \/ UNCHANGED vars
  BY <1>11 DEF WorkerStart, WorkerWait, WorkerTake, WorkerRaise,
    WorkerEnd, vars, Usable, InCall
<1>. QED
  BY <1>3, <1>4, <1>5, <1>6, <1>7, <1>8, <1>9, <1>10, <1>11
  DEF Next, CallerStep, Worker

\* What has happened is not undone.
LEMMA Monotone ==
  IInv /\ [Next]_vars => (shared => shared') /\ (lapped => lapped')
<1> SUFFICES ASSUME IInv, [Next]_vars
             PROVE  (shared => shared') /\ (lapped => lapped')
  OBVIOUS
<1>1. CASE \E p \in Callers : Enqueue(p)
  BY <1>1 DEF Enqueue
<1>2. CASE ~\E p \in Callers : Enqueue(p)
  BY <1>2, OtherSteps
<1>. QED BY <1>1, <1>2

-----------------------------------------------------------------------------
(* ... and the ring is not lapped                                          *)

Fewer == IsFiniteSet(Callers) /\ Cardinality(Callers) < RepoSize

\* The thread has the semaphore of the task it answers.
Handed ==
  /\ \A d \in 1 .. RepoSize :
       d <= Len(accepted) => buffer[Back(d)].sem = Len(accepted) + 1 - d
  /\ wpc = "call" => wsem = Len(served) + 1
  /\ wpc = "v" => wsem = Len(served)

\* The caller of a task waits until the task's semaphore is posted.
Waits(i, q) == pc[q] \in {"set", "p"} /\ nth[q] = i

Unposted ==
  /\ \A i \in Posted + 1 .. Len(accepted) :
       semVal[i] = 0 /\ \E q \in Callers : Waits(i, q)
  /\ \A p \in Callers :
       pc[p] \in {"ret", "del", "spin"} => nth[p] <= Posted

QInv == ~lapped /\ Handed /\ Unposted

\* Each task that is left has a caller of its own, which waits; so while
\* another one puts a task in, the ring has two positions free.
LEMMA RoomLeft ==
  ASSUME Fewer, IInv, KInv, QInv, NEW p \in Callers, pc[p] = "lock"
  PROVE  Left < RepoSize - 1
<1>1. /\ Len(accepted) \in Nat /\ Len(served) \in Nat
      /\ RepoSize \in Nat /\ Left \in 0 .. RepoSize - 1
  BY ConstantsAssumption DEF IInv, TypeOK, Order, QInv
<1> DEFINE Others == Callers \ {p}
           Caller == [i \in 1 .. Left |->
                        CHOOSE q \in Callers : Waits(Len(served) + i, q)]
<1>2. \A i \in 1 .. Left : Caller[i] \in Others
                          /\ nth[Caller[i]] = Len(served) + i
  <2> TAKE i \in 1 .. Left
  <2>1. Len(served) + i \in Posted + 1 .. Len(accepted)
    BY <1>1 DEF Left, Posted
  <2>2. \E q \in Callers : Waits(Len(served) + i, q)
    BY <2>1 DEF QInv, Unposted
  <2>3. Caller[i] \in Callers /\ Waits(Len(served) + i, Caller[i])
    BY <2>2
  <2>. QED BY <2>3 DEF Waits
<1>. HIDE DEF Caller
<1>3. Caller \in [1 .. Left -> Others]
  BY <1>2 DEF Caller
<1>4. \A i, j \in 1 .. Left : Caller[i] = Caller[j] => i = j
  BY <1>1, <1>2
<1>5. Caller \in Injection(1 .. Left, Others)
  BY <1>3, <1>4, Fun_IsInj
<1>6. IsFiniteSet(Others) /\ Cardinality(Others) = Cardinality(Callers) - 1
  BY FS_RemoveElement DEF Fewer
<1>7. Cardinality(1 .. Left) <= Cardinality(Others)
  BY <1>5, <1>6, FS_Injection
<1>8. Cardinality(1 .. Left) = Left
  BY <1>1, FS_Interval
<1>9. Cardinality(Callers) \in Nat
  BY FS_CardinalityType DEF Fewer
<1>. QED BY <1>1, <1>6, <1>7, <1>8, <1>9 DEF Fewer

\* ... and write_position does not reach read_position.
LEMMA LapEnqueue ==
  ASSUME Fewer, IInv, KInv, QInv, NEW p \in Callers, Enqueue(p)
  PROVE  ~lapped'
<1>1. /\ RepoSize \in Nat /\ RepoSize >= 2
      /\ read \in 0 .. RepoSize - 1 /\ write \in 0 .. RepoSize - 1
      /\ write \in Positions /\ Ahead = Left
  BY ConstantsAssumption DEF IInv, TypeOK, Order, QInv, Positions
<1>2. Left < RepoSize - 1
  BY RoomLeft DEF Enqueue
<1>3. write' = IF write = RepoSize - 1 THEN 0 ELSE write + 1
  BY <1>1, AdvanceIs DEF Enqueue
<1>4. write' # read
  <2>1. CASE write = RepoSize - 1
    BY <2>1, <1>1, <1>2, <1>3 DEF Ahead
  <2>2. CASE write # RepoSize - 1
    BY <2>2, <1>1, <1>2, <1>3 DEF Ahead
  <2>. QED BY <2>1, <2>2
<1>. QED BY <1>4 DEF Enqueue, QInv

LEMMA QEnqueue ==
  ASSUME IInv, KInv, QInv, ~shared', ~lapped', NEW p \in Callers,
         Enqueue(p)
  PROVE  QInv'
<1>1. /\ Len(accepted) \in Nat /\ Len(served) \in Nat
      /\ Len(accepted) \in Nat /\ accepted \in Seq(Tasks)
      /\ semVal \in Seq(Values) /\ Len(semVal) = Len(accepted)
      /\ RepoSize \in Nat /\ RepoSize >= 2
      /\ read \in 0 .. RepoSize - 1 /\ write \in 0 .. RepoSize - 1
      /\ write \in Positions /\ Left \in 0 .. RepoSize - 1 /\ Ahead = Left
  BY ConstantsAssumption
  DEF IInv, TypeOK, Order, QInv, Values, KInv, Fresh, Positions
<1>0. /\ Len(accepted) \in Nat /\ Len(served) \in Nat
      /\ RepoSize \in Nat /\ RepoSize >= 2
      /\ read \in 0 .. RepoSize - 1 /\ write \in 0 .. RepoSize - 1
      /\ Left \in 0 .. RepoSize - 1 /\ Ahead = Left
      /\ Len(semVal) = Len(accepted)
  BY <1>1
<1>2. /\ SemGot = Len(accepted) + 1 /\ semVal' = Append(semVal, 0)
      /\ accepted' = Append(accepted, arg[p]) /\ arg[p] \in Tasks
  BY FreshEnqueue
<1>3. /\ Len(accepted') = Len(accepted) + 1
      /\ \A n \in 1 .. Len(accepted) : semVal'[n] = semVal[n]
      /\ semVal'[Len(accepted) + 1] = 0
  <2>1. Len(Append(accepted, arg[p])) = Len(accepted) + 1
    BY <1>1, <1>2, AppendIs
  <2>2. /\ \A n \in 1 .. Len(semVal) : Append(semVal, 0)[n] = semVal[n]
        /\ Append(semVal, 0)[Len(semVal) + 1] = 0
    <3>1. 0 \in Values
      BY DEF Values
    <3>. QED BY <3>1, <1>1, AppendIs
  <2>. QED BY <2>1, <2>2, <1>1, <1>2
<1>4. write' = IF write = RepoSize - 1 THEN 0 ELSE write + 1
  BY <1>1, AdvanceIs DEF Enqueue
<1>6. Handed'
  <2> DEFINE After(m) == IF m <= write' THEN write' - m
                         ELSE write' - m + RepoSize
  <2>1. /\ After(1) = write
        /\ \A n \in 1 .. RepoSize - 1 : After(n + 1) = Back(n)
    BY <1>0, <1>4 DEF Back
  <2>. HIDE DEF After
  <2>2. ASSUME NEW d \in 1 .. RepoSize, d <= Len(accepted')
        PROVE  buffer'[After(d)].sem = Len(accepted') + 1 - d
    <3>1. buffer'[write].sem = SemGot
          /\ \A i \in Positions : i # write => buffer'[i] = buffer[i]
      BY <1>1 DEF Enqueue, IInv, TypeOK
    <3>2. CASE d = 1
      BY <3>1, <3>2, <2>1, <1>0, <1>2, <1>3
    <3>3. CASE d # 1
      <4>1. d - 1 \in 1 .. RepoSize - 1 /\ d - 1 <= Len(accepted)
            /\ d - 1 \in 1 .. RepoSize /\ d - 1 # RepoSize
            /\ (d - 1) + 1 = d
            /\ Len(accepted) + 1 - (d - 1) = Len(accepted') + 1 - d
        BY <2>2, <3>3, <1>0, <1>3
      <4>2. After(d) = Back(d - 1)
        BY <4>1, <2>1
      <4>3. Back(d - 1) \in Positions /\ Back(d - 1) # write
        BY <4>1, <1>0, BackIs DEF IInv
      <4>4. buffer[Back(d - 1)].sem = Len(accepted) + 1 - (d - 1)
        BY <4>1 DEF QInv, Handed
      <4>. QED BY <4>1, <4>2, <4>3, <4>4, <3>1
    <3>. QED BY <3>2, <3>3
  <2>3. \A d \in 1 .. RepoSize : d <= Len(accepted')
          => buffer'[Back(d)'].sem = Len(accepted') + 1 - d
    BY <2>2 DEF After, Back
  <2>4. /\ wpc' = "call" => wsem' = Len(served') + 1
        /\ wpc' = "v" => wsem' = Len(served')
    BY DEF Enqueue, Signalled, QInv, Handed
  <2>. QED BY <2>3, <2>4 DEF Handed
<1>7. Unposted'
  <2>1. Posted' = Posted /\ Posted \in Int
    BY <1>0 DEF Enqueue, Signalled, Posted
  <2>2. \A q \in Callers : q # p => pc'[q] = pc[q] /\ nth'[q] = nth[q]
    BY DEF Enqueue, IInv, TypeOK
  <2>3. pc[p] = "lock" /\ pc'[p] = "set" /\ nth'[p] = Len(accepted) + 1
    BY DEF Enqueue, IInv, TypeOK
  <2>4. ASSUME NEW i \in Posted + 1 .. Len(accepted')
        PROVE  semVal'[i] = 0 /\ \E q \in Callers : Waits(i, q)'
    <3>1. CASE i = Len(accepted) + 1
      BY <3>1, <1>3, <2>3 DEF Waits
    <3>2. CASE i # Len(accepted) + 1
      <4>1. i \in Posted + 1 .. Len(accepted)
        BY <3>2, <2>1, <1>0, <1>3
      <4>2. semVal[i] = 0 /\ \E q \in Callers : Waits(i, q)
        BY <4>1 DEF QInv, Unposted
      <4>3. i \in 1 .. Len(accepted)
        <5>1. Posted >= 0
          BY <1>0 DEF Posted, QInv, Handed, IInv, Held
        <5>. QED BY <5>1, <4>1, <2>1, <1>0
      <4>. QED BY <4>2, <4>3, <1>3, <2>2, <2>3 DEF Waits
    <3>. QED BY <3>1, <3>2
  <2>5. \A q \in Callers :
          pc'[q] \in {"ret", "del", "spin"} => nth'[q] <= Posted'
    BY <2>1, <2>2, <2>3 DEF QInv, Unposted
  <2>. QED BY <2>1, <2>4, <2>5 DEF Unposted
<1>. QED BY <1>6, <1>7 DEF QInv

LEMMA PostedIs ==
  ASSUME IInv, QInv
  PROVE  /\ Posted \in Nat /\ Posted <= Len(served)
         /\ Len(served) <= Len(accepted)
         /\ Len(accepted) \in Nat /\ Len(served) \in Nat
<1>1. Len(accepted) \in Nat /\ Len(served) \in Nat /\ RepoSize \in Nat
  BY ConstantsAssumption DEF IInv, TypeOK
<1>2. wpc = "v" => Len(served) >= 1
  <2>1. wpc = "v" => wsem = Len(served) /\ wsem >= 1
    BY DEF QInv, Handed, IInv, Held
  <2>. QED BY <2>1
<1>3. Left >= 0
  BY <1>1 DEF IInv, QInv, Order
<1>. QED BY <1>1, <1>2, <1>3 DEF Posted, Left

\* The calls change the semaphore of an answered task or set one to 0 that
\* is 0.
LEMMA QCaller ==
  ASSUME IInv, KInv, QInv, NEW p \in Callers,
         \/ \E type \in Types : Call(p, type)
         \/ WaitNotFull(p) \/ SetSemvalue(p) \/ SemaphoreP(p) \/ ReadRet(p)
         \/ DelSemvalue(p) \/ Spin(p)
  PROVE  QInv'
<1>1. /\ buffer' = buffer /\ write' = write /\ wpc' = wpc /\ wsem' = wsem
      /\ accepted' = accepted /\ served' = served /\ lapped' = lapped
      /\ nth' = nth
      /\ \A q \in Callers : q # p => pc'[q] = pc[q]
  <2>0. pc \in [Callers -> CallerLabels]
    BY DEF IInv, TypeOK
  <2>1. CASE \E type \in Types : Call(p, type) BY <2>0, <2>1 DEF Call
  <2>2. CASE WaitNotFull(p) BY <2>0, <2>2 DEF WaitNotFull
  <2>3. CASE SetSemvalue(p) BY <2>0, <2>3 DEF SetSemvalue
  <2>4. CASE SemaphoreP(p) BY <2>0, <2>4 DEF SemaphoreP
  <2>5. CASE ReadRet(p) BY <2>0, <2>5 DEF ReadRet
  <2>6. CASE DelSemvalue(p) BY <2>0, <2>6 DEF DelSemvalue
  <2>7. CASE Spin(p) BY <2>0, <2>7 DEF Spin
  <2>. QED BY <2>1, <2>2, <2>3, <2>4, <2>5, <2>6, <2>7
<1>2. ~lapped' /\ Handed' /\ Posted' = Posted
  BY <1>1 DEF QInv, Handed, Back, Posted
<1>3. /\ Posted \in Nat /\ Posted <= Len(accepted)
      /\ Len(accepted) \in Nat
  BY PostedIs
<1>4. pc \in [Callers -> CallerLabels] /\ Len(semVal) = Len(accepted)
      /\ 0 \in Values /\ Gone \in Values
  BY DEF IInv, TypeOK, KInv, Fresh, Values
\* The semaphore of p is 0 unless it is posted.
<1>5. InCall(p) => /\ nth[p] \in 1 .. Len(accepted) /\ sem[p] = nth[p]
                   /\ nth[p] > Posted => semVal[sem[p]] = 0
  <2> SUFFICES ASSUME InCall(p)
               PROVE  /\ nth[p] \in 1 .. Len(accepted) /\ sem[p] = nth[p]
                      /\ nth[p] > Posted => semVal[sem[p]] = 0
    OBVIOUS
  <2>1. nth[p] \in 1 .. Len(accepted) /\ sem[p] = nth[p]
    BY DEF KInv, Owners
  <2>2. nth[p] > Posted => nth[p] \in Posted + 1 .. Len(accepted)
    BY <2>1, <1>3
  <2>. QED BY <2>1, <2>2 DEF QInv, Unposted
<1>6. ASSUME pc'[p] \in {"ret", "del", "spin"} PROVE nth[p] <= Posted
  <2>1. CASE pc[p] \in {"ret", "del", "spin"}
    BY <2>1 DEF QInv, Unposted
  <2>2. CASE pc[p] \notin {"ret", "del", "spin"}
    <3>1. InCall(p) /\ (semVal[sem[p]] = Gone \/ Passes(sem[p]))
      BY <1>4, <1>6, <2>2
      DEF Call, WaitNotFull, SetSemvalue, SemaphoreP, ReadRet, DelSemvalue,
        Spin, InCall
    <3>2. semVal[sem[p]] # 0
      BY <3>1 DEF Passes, Gone
    <3>. QED BY <3>1, <3>2, <1>3, <1>5
  <2>. QED BY <2>1, <2>2
<1>7. ASSUME NEW i \in Posted + 1 .. Len(accepted)
      PROVE  semVal'[i] = 0 /\ \E q \in Callers : Waits(i, q)'
  <2>1. i \in 1 .. Len(semVal) /\ i > Posted
    BY <1>3, <1>4
  <2>2. semVal[i] = 0 /\ \E q \in Callers : Waits(i, q)
    BY DEF QInv, Unposted
  <2>3. semVal'[i] = 0
    <3>1. CASE SetSemvalue(p) /\ semVal[sem[p]] # Gone
      BY <3>1, <2>1, <2>2, <1>4, SemChanged DEF SetSemvalue, IInv
    <3>2. CASE (SemaphoreP(p) /\ Passes(sem[p])) \/ DelSemvalue(p)
      <4>1. sem[p] # i
        <5>1. CASE SemaphoreP(p) /\ Passes(sem[p])
          BY <5>1, <2>2 DEF Passes
        <5>2. CASE DelSemvalue(p)
          <6>1. nth[p] <= Posted /\ InCall(p)
            BY <5>2 DEF DelSemvalue, QInv, Unposted, InCall
          <6>. QED BY <6>1, <2>1, <1>3, <1>5
        <5>. QED BY <3>2, <5>1, <5>2
      <4>2. semVal' = semVal \/ \E v : semVal' = [semVal EXCEPT ![sem[p]] = v]
        BY <3>2 DEF SemaphoreP, DelSemvalue
      <4>. QED BY <4>1, <4>2, <2>1, <2>2 DEF IInv, TypeOK
    <3>3. CASE semVal' = semVal
      BY <3>3, <2>2
    <3>. QED BY <3>1, <3>2, <3>3
      DEF Call, WaitNotFull, SetSemvalue, SemaphoreP, ReadRet, DelSemvalue,
        Spin
  <2>4. PICK q \in Callers : Waits(i, q)
    BY <2>2
  <2>5. Waits(i, q)'
    <3>1. CASE q # p
      BY <3>1, <2>4, <1>1 DEF Waits
    <3>2. CASE q = p
      <4>1. pc'[p] \notin {"ret", "del", "spin"}
        BY <3>2, <2>1, <2>4, <1>3, <1>6 DEF Waits
      <4>2. pc'[p] \in {"set", "p"}
        BY <3>2, <4>1, <2>4, <1>4
        DEF Waits, Call, WaitNotFull, SetSemvalue, SemaphoreP, ReadRet,
          DelSemvalue, Spin
      <4>. QED BY <3>2, <4>2, <2>4, <1>1 DEF Waits
    <3>. QED BY <3>1, <3>2
  <2>. QED BY <2>3, <2>5
<1>8. \A q \in Callers :
        pc'[q] \in {"ret", "del", "spin"} => nth'[q] <= Posted'
  BY <1>1, <1>2, <1>6 DEF QInv, Unposted
<1>. QED BY <1>1, <1>2, <1>7, <1>8 DEF QInv, Unposted

LEMMA QWorker ==
  ASSUME IInv, KInv, QInv, Worker
  PROVE  QInv'
<1>1. /\ Posted \in Nat /\ Posted <= Len(served)
      /\ Len(served) <= Len(accepted)
      /\ Len(accepted) \in Nat /\ Len(served) \in Nat
      /\ Len(semVal) = Len(accepted)
  BY PostedIs DEF KInv, Fresh
<1>2. CASE WorkerAnswer
  <2>1. Len(served') = Len(served) + 1
    <3>1. InRing(read) /\ read \in Positions
      BY <1>2, ConstantsAssumption
      DEF WorkerAnswer, IInv, QInv, Held, InRing, Positions, TypeOK
    <3>2. buffer[read].task \in Tasks
      BY <3>1 DEF IInv, Filled
    <3>. QED BY <1>2, <3>2, AppendIs DEF WorkerAnswer, IInv, TypeOK
  <2>2. \A i \in Positions : buffer'[i].sem = buffer[i].sem
    <3>1. buffer' = [buffer EXCEPT
            ![read] = [buffer[read] EXCEPT !.ret = buffer[read].task]]
      BY <1>2 DEF WorkerAnswer
    <3>. QED BY <3>1 DEF IInv, TypeOK, Messages
  <2>3. Handed'
    <3>1. wpc = "call" /\ wpc' = "v" /\ wsem' = wsem /\ write' = write
          /\ accepted' = accepted
      BY <1>2 DEF WorkerAnswer
    <3>2. \A d \in 1 .. RepoSize : Back(d) \in Positions
      BY BackIs DEF IInv
    <3>. QED BY <3>1, <3>2, <2>1, <2>2 DEF QInv, Handed, Back
  <2>4. Posted' = Posted
    BY <1>1, <1>2, <2>1 DEF WorkerAnswer, Posted
  <2>5. \A q \in Callers :
          /\ pc[q] \in {"set", "p"} => pc'[q] = pc[q]
          /\ pc'[q] \in {"ret", "del", "spin"} => pc'[q] = pc[q]
    BY <1>2 DEF WorkerAnswer, Woken
  <2>. QED
    BY <1>2, <2>3, <2>4, <2>5 DEF WorkerAnswer, QInv, Unposted, Waits
<1>3. CASE WorkerV
  <2>1. wsem = Posted + 1 /\ wsem \in 1 .. Len(semVal)
        /\ wsem = Len(served) /\ wpc = "v"
    BY <1>1, <1>3 DEF WorkerV, QInv, Handed, Posted, IInv, Held
  <2>2. semVal[wsem] = 0
    BY <1>1, <2>1 DEF QInv, Unposted
  <2>3. semVal' = [semVal EXCEPT ![wsem] = @ + 1] /\ wpc' = "take"
    BY <1>3, <2>2 DEF WorkerV, Gone
  <2>4. Posted' = Posted + 1
    BY <1>1, <1>3, <2>1, <2>3 DEF WorkerV, Posted
  <2>5. \A i \in Posted' + 1 .. Len(accepted) :
          i \in Posted + 1 .. Len(accepted) /\ semVal'[i] = semVal[i]
    <3> TAKE i \in Posted' + 1 .. Len(accepted)
    <3>1. i \in 1 .. Len(semVal) /\ i # wsem
          /\ i \in Posted + 1 .. Len(accepted)
      BY <1>1, <2>1, <2>4
    <3>. QED BY <3>1, <2>3 DEF IInv, TypeOK
  <2>6. Unposted'
    BY <1>1, <1>3, <2>4, <2>5 DEF WorkerV, QInv, Unposted, Waits, IInv, TypeOK
  <2>. QED BY <1>3, <2>3, <2>6 DEF WorkerV, QInv, Handed, Back
<1>4. CASE WorkerTake
  <2>1. Left \in 1 .. RepoSize /\ Left <= Len(accepted) /\ Left = Ahead
    <3>1. /\ RepoSize \in Nat /\ Left \in 0 .. RepoSize - 1 /\ Ahead = Left
          /\ read \in 0 .. RepoSize - 1 /\ write \in 0 .. RepoSize - 1
          /\ write # read
      BY <1>4, ConstantsAssumption
      DEF IInv, TypeOK, QInv, Order, WorkerTake, IsEmpty, Positions
    <3>. QED BY <1>1, <3>1 DEF Ahead, Left
  <2>2. Back(Left) = read
    BY <2>1, BackIs DEF IInv
  <2>3. buffer[read].sem = Len(accepted) + 1 - Left
    BY <2>1, <2>2 DEF QInv, Handed
  <2>4. wsem' = Len(served) + 1
    BY <1>1, <1>4, <2>3 DEF WorkerTake, Left
  <2>. QED
    BY <1>4, <2>4
    DEF WorkerTake, QInv, Handed, Unposted, Waits, Posted, Back
<1>5. CASE WorkerStart
  BY <1>5
  DEF WorkerStart, IInv, Started, QInv, Handed, Unposted, Waits, Posted, Back
<1>6. CASE WorkerWait \/ WorkerRaise \/ WorkerEnd
  BY <1>6
  DEF WorkerWait, WorkerRaise, WorkerEnd, QInv, Handed, Unposted, Waits,
    Posted, Back
<1>. QED BY <1>2, <1>3, <1>4, <1>5, <1>6 DEF Worker

LEMMA QNext ==
  IInv /\ KInv /\ QInv /\ ~shared' /\ ~lapped' /\ [Next]_vars => QInv'
<1> SUFFICES ASSUME IInv, KInv, QInv, ~shared', ~lapped', [Next]_vars
             PROVE  QInv'
  OBVIOUS
<1>1. ASSUME NEW p \in Callers, Enqueue(p) PROVE QInv'
  BY <1>1, QEnqueue
<1>2. CASE UNCHANGED vars
  BY <1>2 DEF vars, QInv, Handed, Unposted, Waits, Posted, Back
<1>. QED BY <1>1, <1>2, QCaller, QWorker DEF Next, CallerStep

LEMMA QInit == Init => QInv
<1> SUFFICES ASSUME Init PROVE QInv
  OBVIOUS
<1>1. Len(accepted) = 0 /\ Len(served) = 0
  BY DEF Init
<1>. QED
  BY <1>1, ConstantsAssumption DEF Init, QInv, Handed, Unposted, Posted

-----------------------------------------------------------------------------
(* The task repository implements the task service                         *)

\* The tasks that are left have no result yet.
Unanswered ==
  \A d \in 1 .. RepoSize : d <= Left => buffer[Back(d)].ret = Unknown

LEMMA UnansweredNext ==
  ASSUME IInv, QInv, QInv', Unanswered, [Next]_vars
  PROVE  Unanswered'
<1>1. /\ RepoSize \in Nat /\ RepoSize >= 2
      /\ read \in 0 .. RepoSize - 1 /\ write \in 0 .. RepoSize - 1
      /\ read \in Positions /\ write \in Positions
      /\ Len(accepted) \in Nat /\ Len(served) \in Nat
      /\ Left \in 0 .. RepoSize - 1 /\ Ahead = Left
      /\ buffer \in [Positions -> Messages]
  BY ConstantsAssumption DEF IInv, TypeOK, Positions, QInv, Order
<1>0. /\ RepoSize \in Nat /\ RepoSize >= 2
      /\ read \in 0 .. RepoSize - 1 /\ write \in 0 .. RepoSize - 1
      /\ Len(accepted) \in Nat /\ Len(served) \in Nat
      /\ Left \in 0 .. RepoSize - 1 /\ Ahead = Left
  BY <1>1
<1>2. ASSUME buffer' = buffer, write' = write, accepted' = accepted,
             served' = served
      PROVE  Unanswered'
  BY <1>2 DEF Unanswered, Left, Back
<1>3. ASSUME NEW p \in Callers, Enqueue(p) PROVE Unanswered'
  <2>1. /\ buffer'[write].ret = Unknown
        /\ \A i \in Positions : i # write => buffer'[i] = buffer[i]
        /\ served' = served /\ arg[p] \in Tasks
    BY <1>1, <1>3 DEF Enqueue, IInv, InTask
  <2>2. Left' = Left + 1
    <3>1. Len(accepted') = Len(accepted) + 1
      BY <1>3, <2>1, AppendIs DEF Enqueue, IInv, TypeOK
    <3>. QED BY <1>0, <2>1, <3>1 DEF Left
  <2>3. write' = IF write = RepoSize - 1 THEN 0 ELSE write + 1
    BY <1>1, <1>3, AdvanceIs DEF Enqueue
  <2>4. ASSUME NEW d \in 1 .. RepoSize, d <= Left'
        PROVE  buffer'[Back(d)'].ret = Unknown
    <3>1. CASE d = 1
      <4>1. Back(d)' = write
        BY <1>0, <2>3, <3>1 DEF Back
      <4>. QED BY <2>1, <4>1
    <3>2. CASE d # 1
      <4>1. d - 1 \in 1 .. RepoSize /\ d - 1 <= Left /\ d - 1 # RepoSize
        BY <1>0, <2>2, <2>4, <3>2
      <4>2. Back(d)' = Back(d - 1)
        BY <1>0, <2>3, <3>2 DEF Back
      <4>3. Back(d - 1) \in Positions /\ Back(d - 1) # write
        <5>1. RepoSize \in 1 .. RepoSize
          BY <1>0
        <5>. QED BY <4>1, <5>1, BackIs DEF IInv
      <4>. QED BY <2>1, <4>1, <4>2, <4>3 DEF Unanswered
    <3>. QED BY <3>1, <3>2
  <2>. QED BY <2>4 DEF Unanswered
<1>4. CASE WorkerAnswer
  <2>1. buffer' = [buffer EXCEPT
          ![read] = [buffer[read] EXCEPT !.ret = buffer[read].task]]
        /\ write' = write /\ accepted' = accepted
    BY <1>4 DEF WorkerAnswer
  <2>2. Len(served') = Len(served) + 1
    <3>1. InRing(read)
      BY <1>1, <1>4 DEF WorkerAnswer, IInv, QInv, Held, InRing
    <3>2. buffer[read].task \in Tasks
      BY <1>1, <3>1 DEF IInv, Filled
    <3>. QED BY <1>4, <3>2, AppendIs DEF WorkerAnswer, IInv, TypeOK
  <2>3. Left' = Left - 1
    BY <1>0, <2>1, <2>2 DEF Left
  <2>4. ASSUME NEW d \in 1 .. RepoSize, d <= Left'
        PROVE  buffer'[Back(d)'].ret = Unknown
    <3>1. Back(d)' = Back(d) /\ Back(d) \in Positions
      BY <2>1, BackIs DEF Back, IInv
    <3>2. Left \in 1 .. RepoSize /\ d <= Left /\ d # Left
      BY <1>0, <2>3, <2>4
    <3>3. Back(d) # Back(Left) /\ Back(Left) = read
      BY <1>0, <3>2, BackIs DEF IInv
    <3>. QED BY <1>1, <2>1, <3>1, <3>2, <3>3 DEF Unanswered
  <2>. QED BY <2>4 DEF Unanswered
<1>5. ASSUME NEW p \in Callers,
             \/ WaitNotFull(p) \/ SetSemvalue(p) \/ SemaphoreP(p)
             \/ ReadRet(p) \/ DelSemvalue(p) \/ Spin(p)
             \/ \E type \in Types : Call(p, type)
      PROVE  Unanswered'
  BY <1>2, <1>5 DEF WaitNotFull, SetSemvalue, SemaphoreP, ReadRet,
    DelSemvalue, Spin, Call
<1>6. CASE WorkerStart
  BY <1>2, <1>6 DEF WorkerStart, IInv, Started
<1>7. CASE WorkerWait \/ WorkerTake \/ WorkerRaise \/ WorkerV \/ WorkerEnd
  BY <1>2, <1>7 DEF WorkerWait, WorkerTake, WorkerRaise, WorkerV, WorkerEnd
<1>8. CASE UNCHANGED vars
  BY <1>2, <1>8 DEF vars
<1>. QED BY <1>3, <1>4, <1>5, <1>6, <1>7, <1>8 DEF Next, CallerStep, Worker

LEMMA BackOnto ==
  ASSUME TypeOK, NEW i \in Positions
  PROVE  \E d \in 1 .. RepoSize : Back(d) = i
<1>1. /\ RepoSize \in Nat /\ RepoSize >= 2
      /\ i \in 0 .. RepoSize - 1 /\ write \in 0 .. RepoSize - 1
  BY ConstantsAssumption DEF TypeOK, Positions
<1>2. CASE i < write
  <2>1. write - i \in 1 .. RepoSize /\ Back(write - i) = i
    BY <1>1, <1>2 DEF Back
  <2>. QED BY <2>1
<1>3. CASE ~(i < write)
  <2>1. write - i + RepoSize \in 1 .. RepoSize
        /\ Back(write - i + RepoSize) = i
    BY <1>1, <1>3 DEF Back
  <2>. QED BY <2>1
<1>. QED BY <1>2, <1>3

\* The position of a task has its answer as long as its call lasts.
LEMMA ReadIs ==
  ASSUME IInv, KInv, QInv, NEW p \in Callers, InCall(p), nth[p] <= Posted
  PROVE  /\ nth[p] \in 1 .. Len(served) /\ served[nth[p]] = arg[p]
         /\ buffer[cpos[p]].ret = served[nth[p]]
<1> DEFINE d == Since(p)
<1>1. /\ nth[p] \in 1 .. Len(accepted) /\ cpos[p] = Back(d)
      /\ accepted[nth[p]] = arg[p] /\ d <= KeyCount
  BY DEF KInv, Owners
<1>2. /\ Posted \in Nat /\ Posted <= Len(served)
      /\ Len(served) <= Len(accepted)
      /\ Len(accepted) \in Nat /\ Len(served) \in Nat
      /\ RepoSize \in Nat /\ KeyCount \in Nat /\ KeyCount <= RepoSize
  BY PostedIs, ConstantsAssumption, KeysAssumption
<1>3. nth[p] \in 1 .. Len(served)
  BY <1>1, <1>2
<1>4. /\ d \in 1 .. RepoSize /\ d <= Len(accepted) /\ d > Left
      /\ Len(accepted) + 1 - d = nth[p]
  BY <1>1, <1>2, <1>3 DEF Left, Since
<1>. HIDE DEF d
<1>5. /\ served[nth[p]] = accepted[nth[p]]
      /\ buffer[Back(d)].ret = accepted[nth[p]]
  <2>1. Order /\ ~lapped
    BY DEF IInv, QInv
  <2>2. served[nth[p]] = accepted[nth[p]]
    BY <1>3, <2>1 DEF Order
  <2>3. buffer[Back(d)].ret = accepted[Len(accepted) + 1 - d]
    BY <1>4, <2>1 DEF Order
  <2>. QED BY <1>4, <2>2, <2>3
<1>. QED BY <1>1, <1>3, <1>5

LEMMA ServiceStep ==
  ASSUME IInv, KInv, QInv, QInv', Usable, Unanswered, Usable', [Next]_vars
  PROVE  [Service!Next]_(Service!vars)
<1> USE DEF Service!vars
<1>1. /\ pc \in [Callers -> CallerLabels] /\ nth \in [Callers -> Nat]
      /\ ret \in [Callers -> Tasks \cup {Unknown}]
      /\ Len(accepted) \in Nat /\ Len(served) \in Nat /\ RepoSize \in Nat
  BY ConstantsAssumption DEF IInv, TypeOK
<1>2. ASSUME NEW p \in Callers, Enqueue(p) PROVE Service!Submit(p)
  <2>1. Awaited[p] = 0
    BY <1>2 DEF Enqueue, Awaited
  <2>2. arg[p] \in Tasks /\ arg[p].by = p
        /\ accepted' = Append(accepted, arg[p])
        /\ served' = served
    BY <1>2 DEF Enqueue, IInv, InTask
  <2>3. Len(accepted) - Len(served) < RepoSize - 1
    <3>1. Len(accepted') = Len(accepted) + 1
      BY <2>2, AppendIs DEF IInv, TypeOK
    <3>2. Len(accepted') - Len(served') \in 0 .. RepoSize - 1
      BY <1>2, StructureEnqueue DEF Order, Left, QInv
    <3>. QED BY <1>1, <2>2, <3>1, <3>2
  <2>4. Awaited' = [Awaited EXCEPT ![p] = Len(accepted) + 1]
    BY <1>1, <1>2 DEF Enqueue, Awaited
  <2>. QED BY <1>2, <2>1, <2>2, <2>3, <2>4 DEF Service!Submit, Enqueue
<1>3. ASSUME NEW p \in Callers, ReadRet(p) PROVE Service!Return(p)
  <2>1. nth[p] \in 1 .. Len(served) /\ Awaited[p] = nth[p]
        /\ ret'[p] = served[nth[p]]
    BY <1>1, <1>3, ReadIs DEF ReadRet, Awaited, QInv, Unposted, InCall
  <2>2. ret' = [ret EXCEPT ![p] = ret'[p]]
    BY <1>1, <1>3 DEF ReadRet
  <2>3. Awaited' = [Awaited EXCEPT ![p] = 0]
    BY <1>1, <1>3 DEF ReadRet, Awaited
  <2>4. Awaited[p] # 0 /\ Awaited[p] <= Len(served)
    BY <1>1, <2>1
  <2>. QED BY <1>3, <2>1, <2>2, <2>3, <2>4 DEF Service!Return, ReadRet
<1>4. CASE WorkerAnswer
  <2>1. Order' /\ ~lapped' /\ accepted' = accepted
    BY <1>4, StructureAnswer DEF WorkerAnswer, QInv
  <2>2. InRing(read) /\ read \in Positions
    BY <1>4, ConstantsAssumption
    DEF WorkerAnswer, IInv, QInv, Held, InRing, Positions, TypeOK
  <2>3. buffer[read].task \in Tasks
    BY <2>2 DEF IInv, Filled
  <2>4. /\ Len(served') = Len(served) + 1
        /\ served' = Append(served, buffer[read].task)
        /\ served'[Len(served) + 1] = buffer[read].task
    BY <1>4, <2>3, AppendIs DEF WorkerAnswer, IInv, TypeOK
  <2>5. Len(accepted') - Len(served') \in 0 .. RepoSize - 1
        /\ \A i \in 1 .. Len(served') : served'[i] = accepted'[i]
    BY <2>1 DEF Order, Left
  <2>6. Len(served) < Len(accepted)
        /\ buffer[read].task = accepted[Len(served) + 1]
    BY <1>1, <2>1, <2>4, <2>5
  <2>7. Awaited' = Awaited /\ ret' = ret
    BY <1>1, <1>4 DEF WorkerAnswer, Woken, Awaited
  <2>. QED BY <2>1, <2>4, <2>6, <2>7 DEF Service!Answer, Service!Next
<1>5. ASSUME NEW p \in Callers,
             \/ \E type \in Types : Call(p, type)
             \/ WaitNotFull(p) \/ SetSemvalue(p) \/ SemaphoreP(p)
             \/ DelSemvalue(p)
      PROVE  UNCHANGED Service!vars
  <2>1. accepted' = accepted /\ served' = served /\ ret' = ret /\ nth' = nth
    BY <1>5 DEF Call, WaitNotFull, SetSemvalue, SemaphoreP, DelSemvalue
  <2>2. pc'[p] # "spin"
    BY DEF Usable
  <2>3. \A q \in Callers :
          pc'[q] \in {"set", "p", "ret"} <=> pc[q] \in {"set", "p", "ret"}
    <3>1. CASE \E type \in Types : Call(p, type)
      BY <1>1, <3>1 DEF Call
    <3>2. CASE WaitNotFull(p)
      BY <1>1, <3>2 DEF WaitNotFull
    <3>3. CASE SetSemvalue(p)
      BY <1>1, <2>2, <3>3 DEF SetSemvalue
    <3>4. CASE SemaphoreP(p)
      BY <1>1, <2>2, <3>4 DEF SemaphoreP
    <3>5. CASE DelSemvalue(p)
      BY <1>1, <3>5 DEF DelSemvalue
    <3>. QED BY <1>5, <3>1, <3>2, <3>3, <3>4, <3>5
  <2>4. Awaited' = Awaited
    BY <2>1, <2>3 DEF Awaited
  <2>. QED BY <2>1, <2>4
<1>6. ~\E p \in Callers : Spin(p)
  BY DEF Spin, Usable
<1>7. CASE \/ WorkerStart \/ WorkerWait \/ WorkerTake \/ WorkerRaise
           \/ WorkerV \/ WorkerEnd \/ UNCHANGED vars
  <2>1. accepted' = accepted /\ served' = served /\ ret' = ret
    BY <1>7 DEF WorkerStart, WorkerWait, WorkerTake, WorkerRaise, WorkerV,
      WorkerEnd, vars
  <2>2. Awaited' = Awaited
    BY <1>7 DEF WorkerStart, WorkerWait, WorkerTake, WorkerRaise, WorkerV,
      WorkerEnd, vars, Awaited
  <2>. QED BY <2>1, <2>2
<1>. QED
  BY <1>2, <1>3, <1>4, <1>5, <1>6, <1>7
  DEF Next, CallerStep, Worker, Service!Next

\* Between its answer and its passing a call's semaphore stays up, also while
\* SETVAL is still to come.
Kept ==
  \A p \in Callers :
    pc[p] \in {"set", "p"} /\ nth[p] <= Posted
    => semVal[sem[p]] > 0 \/ p \in erased

\* A step that posts nothing, takes no semaphore down and brings no call to
\* its SETVAL.
LEMMA KeptSame ==
  ASSUME IInv, Kept,
         \A q \in Callers :
           /\ pc'[q] \in {"set", "p"} => pc[q] = pc'[q] \/ pc[q] = "set"
           /\ pc'[q] \in {"set", "p"} =>
                /\ sem'[q] = sem[q] /\ nth'[q] = nth[q]
                /\ q \in erased => q \in erased'
                /\ semVal'[sem[q]] = semVal[sem[q]] \/ q \in erased',
         Posted' = Posted
  PROVE  Kept'
<1> SUFFICES ASSUME NEW q \in Callers, pc'[q] \in {"set", "p"},
                    nth'[q] <= Posted'
             PROVE  semVal'[sem'[q]] > 0 \/ q \in erased'
  BY DEF Kept
<1>1. pc[q] \in {"set", "p"} /\ nth[q] <= Posted
  OBVIOUS
<1>. QED BY <1>1 DEF Kept

LEMMA KeptNext ==
  IInv /\ KInv /\ QInv /\ Usable /\ Kept /\ ~shared' /\ [Next]_vars => Kept'
<1> SUFFICES ASSUME IInv, KInv, QInv, Usable, Kept, ~shared', [Next]_vars
             PROVE  Kept'
  OBVIOUS
<1>1. /\ pc \in [Callers -> CallerLabels] /\ semVal \in Seq(Values)
      /\ Len(semVal) \in Nat
      /\ \A p \in Callers : InCall(p) => sem[p] \in 1 .. Len(semVal)
      /\ sem \in [Callers -> 0 .. Len(semVal)]
      /\ nth \in [Callers -> Nat]
  BY DEF IInv, TypeOK, InTask, Held, Values
<1>2. ASSUME NEW p \in Callers, Enqueue(p) PROVE Kept'
  <2>1. /\ SemGot = Len(semVal) + 1 /\ semVal' = Append(semVal, 0)
        /\ sem' = [sem EXCEPT ![p] = SemGot]
        /\ nth' = [nth EXCEPT ![p] = Len(accepted) + 1]
        /\ pc' = [pc EXCEPT ![p] = "set"]
        /\ wpc' = Signalled /\ UNCHANGED <<served, erased>>
    BY <1>2, FreshEnqueue DEF Enqueue, KInv, Fresh
  <2>2. \A n \in 1 .. Len(semVal) : semVal'[n] = semVal[n]
    <3>1. 0 \in Values
      BY DEF Values
    <3>. QED BY <1>1, <2>1, <3>1, AppendIs
  <2>3. Posted' = Posted
    BY <2>1 DEF Posted, Signalled
  <2>4. Posted < Len(accepted) + 1
    BY PostedIs
  <2>5. ASSUME NEW q \in Callers, pc'[q] \in {"set", "p"}, nth'[q] <= Posted
        PROVE  semVal'[sem'[q]] > 0 \/ q \in erased'
    <3>1. q # p
      BY <1>1, <2>1, <2>4, <2>5, PostedIs
    <3>2. /\ sem'[q] = sem[q] /\ pc'[q] = pc[q] /\ nth'[q] = nth[q]
          /\ sem[q] \in 1 .. Len(semVal)
      BY <1>1, <2>1, <2>5, <3>1 DEF InCall
    <3>. QED BY <2>1, <2>2, <2>5, <3>2 DEF Kept
  <2>. QED BY <2>3, <2>5 DEF Kept
<1>3. ASSUME NEW p \in Callers, NEW type \in Types, Call(p, type)
      PROVE  Kept'
  <2>1. Posted' = Posted
    BY <1>3 DEF Call, Posted
  <2>. QED BY <1>1, <1>3, <2>1, KeptSame DEF Call
<1>4. ASSUME NEW p \in Callers, WaitNotFull(p) \/ ReadRet(p) \/ Spin(p)
      PROVE  Kept'
  <2>1. Posted' = Posted
    BY <1>4 DEF WaitNotFull, ReadRet, Spin, Posted
  <2>. QED BY <1>1, <1>4, <2>1, KeptSame DEF WaitNotFull, ReadRet, Spin
<1>5. ASSUME NEW p \in Callers, SetSemvalue(p) PROVE Kept'
  <2>1. pc[p] = "set" /\ InCall(p) /\ semVal[sem[p]] # Gone
    BY <1>5 DEF SetSemvalue, Usable, InCall
  <2>2. /\ semVal' = [semVal EXCEPT ![sem[p]] = 0]
        /\ erased' = IF semVal[sem[p]] > 0
                     THEN erased \cup Users(sem[p]) ELSE erased
        /\ pc' = [pc EXCEPT ![p] = "p"]
        /\ UNCHANGED <<sem, nth, served, wpc>>
    BY <1>5, <2>1 DEF SetSemvalue
  <2>3. Posted' = Posted
    BY <2>2 DEF Posted
  <2>4. ASSUME NEW q \in Callers, pc'[q] \in {"set", "p"}, nth[q] <= Posted
        PROVE  semVal'[sem[q]] > 0 \/ q \in erased'
    <3>1. pc[q] \in {"set", "p"} /\ InCall(q)
      BY <1>1, <2>1, <2>2, <2>4 DEF InCall
    <3>2. semVal[sem[q]] > 0 \/ q \in erased
      BY <2>4, <3>1 DEF Kept
    <3>3. CASE q = p
      BY <2>1, <2>2, <3>2, <3>3 DEF Users
    <3>4. CASE q # p
      <4>1. sem[q] # sem[p]
        BY <2>1, <3>1, <3>4, OwnSem
      <4>. QED BY <1>1, <2>2, <3>1, <3>2, <4>1
    <3>. QED BY <3>3, <3>4
  <2>. QED BY <2>2, <2>3, <2>4 DEF Kept
\* A semaphore is taken down, or removed, by the call it is of.
<1>6. ASSUME NEW p \in Callers, SemaphoreP(p) \/ DelSemvalue(p) PROVE Kept'
  <2>1. InCall(p) /\ semVal[sem[p]] # Gone
    BY <1>6 DEF SemaphoreP, DelSemvalue, Usable, InCall
  <2>2. /\ \E v : semVal' = [semVal EXCEPT ![sem[p]] = v]
        /\ pc' = [pc EXCEPT ![p] = "ret"] \/ pc' = [pc EXCEPT ![p] = "idle"]
        /\ UNCHANGED <<sem, nth, served, wpc, erased>>
    BY <1>6, <2>1 DEF SemaphoreP, DelSemvalue
  <2>3. Posted' = Posted
    BY <2>2 DEF Posted
  <2>4. ASSUME NEW q \in Callers, pc'[q] \in {"set", "p"}
        PROVE  pc[q] = pc'[q] /\ semVal'[sem[q]] = semVal[sem[q]]
    <3>1. q # p /\ pc[q] = pc'[q] /\ InCall(q)
      BY <1>1, <2>2, <2>4 DEF InCall
    <3>2. sem[q] # sem[p]
      BY <2>1, <3>1, OwnSem
    <3>. QED BY <1>1, <2>2, <3>1, <3>2
  <2>. QED BY <2>2, <2>3, <2>4, KeptSame
<1>7. CASE WorkerAnswer
  <2>1. wpc = "call" /\ wpc' = "v" /\ Len(served') = Len(served) + 1
    <3>1. read \in Positions /\ InRing(read)
      BY <1>7 DEF WorkerAnswer, IInv, TypeOK, Held, InRing, Positions, QInv
    <3>2. buffer[read].task \in Tasks
      BY <3>1 DEF IInv, Filled
    <3>. QED BY <1>7, <3>2, AppendIs DEF WorkerAnswer, IInv, TypeOK
  <2>2. Posted' = Posted
    BY <2>1, PostedIs DEF Posted
  <2>. QED BY <1>1, <1>7, <2>2, KeptSame DEF WorkerAnswer, Woken
\* The V of the task that was answered last.
<1>8. CASE WorkerV
  <2>1. wsem = Len(served) /\ Posted = Len(served) - 1 /\ wpc = "v"
    BY <1>8 DEF WorkerV, QInv, Handed, Posted
  <2>2. wsem \in Posted + 1 .. Len(accepted)
    BY <2>1, PostedIs
  <2>3. semVal[wsem] = 0
    BY <2>2 DEF QInv, Unposted
  <2>4. /\ semVal' = [semVal EXCEPT ![wsem] = 1] /\ wpc' = "take"
        /\ UNCHANGED <<served, erased, pc, sem, nth>>
    BY <1>8, <2>3 DEF WorkerV, Gone
  <2>5. Posted' = wsem
    BY <2>1, <2>4 DEF Posted
  <2>6. ASSUME NEW q \in Callers, pc[q] \in {"set", "p"}, nth[q] <= wsem
        PROVE  semVal'[sem[q]] > 0 \/ q \in erased
    <3>1. sem[q] = nth[q] /\ sem[q] \in 1 .. Len(semVal)
      BY <1>1, <2>6 DEF KInv, Owners, InCall
    <3>2. CASE nth[q] = wsem
      BY <1>1, <2>4, <3>1, <3>2
    <3>3. CASE nth[q] # wsem
      <4>1. nth[q] <= Posted
        BY <1>1, <2>1, <2>6, <3>3, PostedIs
      <4>2. semVal[sem[q]] > 0 \/ q \in erased
        BY <2>6, <4>1 DEF Kept
      <4>. QED BY <1>1, <2>4, <3>1, <3>3, <4>2
    <3>. QED BY <3>2, <3>3
  <2>. QED BY <2>4, <2>5, <2>6 DEF Kept
<1>9. CASE WorkerStart \/ WorkerWait \/ WorkerTake \/ WorkerRaise
           \/ WorkerEnd \/ UNCHANGED vars
  <2>1. Posted' = Posted
    BY <1>9 DEF WorkerStart, WorkerWait, WorkerTake, WorkerRaise, WorkerEnd,
       vars, Posted
  <2>. QED BY <1>9, <2>1, KeptSame
       DEF WorkerStart, WorkerWait, WorkerTake, WorkerRaise, WorkerEnd, vars
<1>. QED
  BY <1>2, <1>3, <1>4, <1>5, <1>6, <1>7, <1>8, <1>9
  DEF Next, CallerStep, Worker

-----------------------------------------------------------------------------
(* What holds until a semaphore is shared or the ring is lapped            *)

Owned   == ~shared => KInv /\ Usable
Orderly == Undisturbed => QInv /\ Unanswered /\ Kept

THEOREM OwnedOrderly == Spec => [](Owned /\ Orderly)
<1>1. Init => Owned /\ Orderly
  <2> SUFFICES ASSUME Init PROVE KInv /\ Usable /\ QInv /\ Unanswered /\ Kept
    BY DEF Owned, Orderly
  <2>1. Left = 0
    BY DEF Init, Left
  <2>. QED BY <2>1, KInit, QInit DEF Init, Unanswered, Kept
<1>2. IInv /\ Owned /\ Orderly /\ [Next]_vars => Owned' /\ Orderly'
  <2> SUFFICES ASSUME IInv, Owned, Orderly, [Next]_vars
               PROVE  Owned' /\ Orderly'
    OBVIOUS
  <2>1. ASSUME ~shared' PROVE IInv /\ KInv /\ Usable /\ KInv' /\ Usable'
    BY <2>1, Monotone, KNext, UsableNext DEF Owned
  <2>2. Owned'
    BY <2>1 DEF Owned
  <2>3. ASSUME Undisturbed' PROVE QInv' /\ Unanswered' /\ Kept'
    <3>1. ~shared' /\ ~lapped'
      BY <2>3 DEF Undisturbed
    <3>2. QInv /\ Unanswered /\ Kept /\ KInv /\ Usable
      BY <2>1, <3>1, Monotone DEF Orderly, Undisturbed
    <3>3. QInv'
      BY <3>1, <3>2, QNext
    <3>. QED BY <3>1, <3>2, <3>3, UnansweredNext, KeptNext
  <2>. QED BY <2>2, <2>3 DEF Orderly
<1>. QED BY <1>1, <1>2, Inductive, PTL DEF Spec

\* With fewer callers than positions a full ring is never written, however
\* often keys and positions come round, as long as no semaphore is shared.
THEOREM NoLap == ASSUME Fewer PROVE Spec => []NeverLapped
<1>1. Init => NeverLapped
  BY DEF Init, NeverLapped
<1>2. IInv /\ Owned /\ Orderly /\ NeverLapped /\ [Next]_vars => NeverLapped'
  <2> SUFFICES ASSUME IInv, Owned, Orderly, NeverLapped, [Next]_vars,
                      ~shared'
               PROVE  ~lapped'
    BY DEF NeverLapped
  <2>1. ~lapped /\ KInv /\ QInv
    BY Monotone DEF NeverLapped, Owned, Orderly, Undisturbed
  <2>2. CASE \E p \in Callers : Enqueue(p)
    BY <2>1, <2>2, LapEnqueue
  <2>3. CASE ~\E p \in Callers : Enqueue(p)
    BY <2>1, <2>3, OtherSteps
  <2>. QED BY <2>2, <2>3
<1>. QED BY <1>1, <1>2, OwnedOrderly, Inductive, PTL DEF Spec

\* The download thread finds the semaphore it has to post, until a semaphore
\* is shared or the ring lapped ...
THEOREM SemThere == Spec => []VNeverFails
<1>1. IInv /\ Owned /\ Orderly => VNeverFails
  <2> SUFFICES ASSUME IInv, QInv, wpc = "v" PROVE semVal[wsem] # Gone
    BY DEF VNeverFails, Orderly
  <2>1. wsem \in Posted + 1 .. Len(accepted)
    BY PostedIs DEF QInv, Handed, Posted
  <2>2. semVal[wsem] = 0
    BY <2>1 DEF QInv, Unposted
  <2>. QED BY <2>2 DEF Gone
<1>. QED BY <1>1, OwnedOrderly, Inductive, PTL

\* ... a call returns the result of its own task: its position is not given
\* away before it has read it, since its key is not ...
THEOREM OwnResult == Spec => OwnResultReturned
<1>1. IInv /\ Owned /\ Orderly /\ [Next]_vars =>
        [\A p \in Callers :
           Undisturbed /\ Returns(p) => ret'[p] = arg[p]]_vars
  <2> SUFFICES ASSUME IInv, KInv, QInv, [Next]_vars,
                      NEW p \in Callers, Returns(p)
               PROVE  ret'[p] = arg[p]
    BY DEF Owned, Orderly, Undisturbed
  <2>1. pc \in [Callers -> CallerLabels]
        /\ ret \in [Callers -> Tasks \cup {Unknown}]
    BY DEF IInv, TypeOK
  <2>2. ret'[p] = buffer[cpos[p]].ret
    <3>1. ASSUME NEW q \in Callers, CallerStep(q) PROVE q = p
      BY <3>1, <2>1
      DEF Returns, CallerStep, WaitNotFull, Enqueue, SetSemvalue, SemaphoreP,
        ReadRet, DelSemvalue, Spin
    <3>2. ~\E q \in Callers, type \in Types : Call(q, type)
      BY <2>1 DEF Returns, Call
    <3>3. ~Worker
      BY <2>1
      DEF Returns, Worker, WorkerStart, WorkerWait, WorkerTake, WorkerAnswer,
        Woken, WorkerRaise, WorkerV, WorkerEnd
    <3>4. ~UNCHANGED vars
      BY DEF Returns, vars
    <3>5. CallerStep(p)
      BY <3>1, <3>2, <3>3, <3>4 DEF Next
    <3>6. ReadRet(p) \/ Spin(p)
      BY <3>5, <2>1
      DEF Returns, CallerStep, WaitNotFull, Enqueue, SetSemvalue, SemaphoreP,
        DelSemvalue
    <3>. QED BY <3>6, <2>1 DEF ReadRet, Spin
  <2>3. nth[p] <= Posted /\ InCall(p)
    BY DEF Returns, QInv, Unposted, InCall
  <2>. QED BY <2>2, <2>3, ReadIs
<1>. QED
  BY <1>1, OwnedOrderly, Inductive, PTL DEF Spec, OwnResultReturned

\* ... and a caller is never left waiting on a semaphore that was posted, but
\* for a SETVAL that came too late.
THEOREM AnsweredMayPass == Spec => []VKept
<1>1. Orderly => VKept
  BY DEF Orderly, Kept, VKept
<1>. QED BY <1>1, OwnedOrderly, PTL

\* The ring, the semaphores and the threads implement the task service, for
\* any number of callers, positions and keys, as long as no call is given the
\* semaphore of another one that is not over and the ring is not lapped.
THEOREM Implements == Spec => ImplementsTasks
<1>1. Init => Service!Init
  BY DEF Init, Service!Init, Awaited
<1>2. /\ IInv /\ Owned /\ Orderly /\ Owned' /\ Orderly' /\ [Next]_vars
      => [shared' \/ lapped' \/ Service!Next \/ UNCHANGED Service!vars]_vars
  <2> SUFFICES ASSUME IInv, Owned, Orderly, Owned', Orderly', [Next]_vars,
                      ~shared', ~lapped'
               PROVE  Service!Next \/ UNCHANGED Service!vars
    OBVIOUS
  <2>1. Undisturbed /\ Undisturbed' /\ ~shared
    BY Monotone DEF Undisturbed
  <2>2. KInv /\ Usable /\ QInv /\ Unanswered /\ Usable' /\ QInv'
    BY <2>1 DEF Owned, Orderly
  <2>. QED BY <2>2, ServiceStep
<1>. QED
  BY <1>1, <1>2, OwnedOrderly, Inductive, PTL DEF Spec, ImplementsTasks
=============================================================================
