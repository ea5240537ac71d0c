---------------------------- MODULE LoggerProofs ----------------------------
(***************************************************************************)
(* Proofs about Logger, for any number of producers, slots and calls.      *)
(*                                                                         *)
(* The inductive invariant IInv describes the ring until it is overrun:    *)
(* how far _next is ahead of _written (Distance), what the slots between   *)
(* them hold (Content), what the mutex protects (Critical) and what a      *)
(* still valid is_full() guarantees (Room).  Until then each step is one of *)
(* LogService, which ServiceStep shows action by action.                   *)
(***************************************************************************)
EXTENDS Logger, TLAPS

\* The tuples of variables and the guards every action uses.
USE DEF callVars, producerVars, ringVars, workerVars, stopVars, notByLog,
        notByWorker, Alive, At, WorkerAt, Goto, Unlocked, MutexFree, WhenEmpty,
        CountAfterBatch, NothingLeft

Wrap(i) == IF i >= EntriesNum THEN i - EntriesNum ELSE i

InCritical(p) == pc[p] \in {"buff", "meta", "next"}
PastCheck(p)  == pc[p] \in {"lock", "buff", "meta", "next"}

\* Between shutdown() and the end.
Stopping ==
  /\ state = LOG_STATE_LASTCHANCE => shut
  /\ wpc \in {"last", "lastBump", "destroy", "end"} => shut
  /\ freed => wpc = "end"
  /\ cut <= Len(hist)

\* A producer inside log() has a call; inside the mutex it holds it and has
\* filled what it has passed.
Critical ==
  \A p \in Producers :
    /\ pc[p] # "idle" => arg[p] \in Calls
    /\ InCritical(p) => mutex = {p}
    /\ pc[p] \in {"meta", "next"} => entries[next].buff = arg[p]
    /\ pc[p] = "next" => entries[next].meta = arg[p]

\* The lines printed and the records pending are those accepted.
Distance ==
  /\ wpc \in {"bump", "lastBump"} => Len(out) > 0
  /\ ~overran => /\ Pending \in 0 .. EntriesNum - 1
                 /\ Len(out) <= Len(hist)
                 /\ next = Wrap(written + Pending)

Content ==
  ~overran => \A k \in 0 .. EntriesNum - 1 :
    k < Pending => entries[Wrap(written + k)] = LineOf(hist[Drained + k + 1])

\* An is_full() nobody has overtaken left room for one record.
Room ==
  \A p \in Producers :
    /\ PastCheck(p) => seen[p] <= Len(hist)
    /\ ~overran /\ PastCheck(p) /\ seen[p] = Len(hist)
         => Pending < EntriesNum - 1

IInv ==
  /\ TypeOK /\ Stopping /\ Critical /\ Distance /\ Content /\ Room
  /\ FifoUntilOverrun /\ DrainedBeforeStop

-----------------------------------------------------------------------------
(* Type correctness.                                                       *)

LEMMA AppendInSeq ==
  ASSUME NEW S, NEW s \in Seq(S), NEW e \in S
  PROVE  Append(s, e) \in Seq(S)
  OBVIOUS

LEMMA AdvanceInSlots == \A i \in Slots : Advance(i) \in Slots
  BY ConstantsAssumption DEF Advance, Slots

LEMMA CallIsCall ==
  ASSUME TypeOK, NEW p \in Producers, NEW api \in Apis, Call(p, api)
  PROVE  arg'[p] \in Calls
  BY ConstantsAssumption DEF Call, Calls, TypeOK

LEMMA TypeInit == Init => TypeOK
<1> SUFFICES ASSUME Init PROVE TypeOK
  OBVIOUS
<1>1. entries \in [Slots -> Entries]
  BY DEF Init, Entries, LineOf
<1>2. next \in Slots /\ written \in Slots
  BY ConstantsAssumption DEF Init, Slots
<1>3. done \in [Producers -> 0 .. MaxCalls]
  BY ConstantsAssumption DEF Init
<1>. QED
  BY <1>1, <1>2, <1>3
  DEF Init, TypeOK, ProducerLabels, WorkerLabels, LOG_STATE_INIT,
      LOG_STATE_STOPPED, LOG_PRI_CRIT, LOG_PRI_DEBUG, LOG_PRI_TRACE

LEMMA TypeProducer ==
  ASSUME TypeOK, Critical, NEW p \in Producers,
         ProducerStep(p) \/ CallFreed(p) \/ \E api \in Apis : Call(p, api)
  PROVE  TypeOK'
<1> USE DEF TypeOK, ProducerLabels
<1>1. ASSUME NEW api \in Apis, Call(p, api) PROVE TypeOK'
  <2>1. arg'[p] \in Calls
    BY <1>1, CallIsCall
  <2>3. done'[p] \in 0 .. MaxCalls
    BY <1>1, ConstantsAssumption DEF Call
  <2>2. pc' \in [Producers -> ProducerLabels]
    BY <1>1 DEF Call
  <2>. QED BY <1>1, <2>1, <2>2, <2>3 DEF Call
<1>2. CASE CheckState(p) BY <1>2 DEF CheckState
<1>3. CASE CheckFull(p) BY <1>3 DEF CheckFull
<1>4. CASE Lock(p) BY <1>4 DEF Lock
<1>5. CASE FillBuff(p)
  BY <1>5 DEF FillBuff, Entries
<1>6. CASE FillMeta(p)
  BY <1>6 DEF FillMeta, Entries
<1>7. CASE Publish(p)
  <2>1. arg[p] \in Calls BY <1>7 DEF Publish, Critical
  <2>2. hist' \in Seq(Calls) BY <1>7, <2>1 DEF Publish
  <2>3. next' \in Slots BY <1>7, AdvanceInSlots DEF Publish
  <2>4. overran' \in BOOLEAN BY <1>7 DEF Publish
  <2>. QED BY <1>7, <2>2, <2>3, <2>4 DEF Publish
<1>8. CASE CallFreed(p)
  <2>1. done' \in [Producers -> 0 .. MaxCalls]
    BY <1>8, ConstantsAssumption DEF CallFreed
  <2>. QED BY <1>8, <2>1 DEF CallFreed
<1>. QED
  BY <1>1, <1>2, <1>3, <1>4, <1>5, <1>6, <1>7, <1>8 DEF ProducerStep

LEMMA TypeWorker == TypeOK /\ Worker => TypeOK'
<1> SUFFICES ASSUME TypeOK, Worker PROVE TypeOK'
  OBVIOUS
<1> USE DEF TypeOK, WorkerLabels
<1>1. CASE WorkerStart
  BY <1>1 DEF WorkerStart, LOG_STATE_INIT, LOG_STATE_RUN, LOG_STATE_STOPPED
<1>2. CASE WorkerCheckState BY <1>2 DEF WorkerCheckState
<1>3. CASE WorkerCheckEmpty BY <1>3 DEF WorkerCheckEmpty
<1>4. CASE WorkerPrint \/ WorkerLastPrint
  <2>1. entries[written] \in Entries OBVIOUS
  <2>2. out' \in Seq(Entries)
    <3>1. out' = Append(out, entries[written]) \/ out' = out
      BY <1>4 DEF WorkerPrint, WorkerLastPrint, PrintLine
    <3>2. Append(out, entries[written]) \in Seq(Entries)
      BY <2>1, AppendInSeq
    <3>. QED BY <3>1, <3>2
  <2>3. size' \in Nat /\ count' \in Nat
    BY <1>4 DEF WorkerPrint, WorkerLastPrint, PrintLine
  <2>. QED BY <1>4, <2>2, <2>3 DEF WorkerPrint, WorkerLastPrint, PrintLine
<1>5. CASE WorkerBump
  BY <1>5, AdvanceInSlots DEF WorkerBump
<1>6. CASE WorkerFlush BY <1>6 DEF WorkerFlush
<1>7. CASE WorkerSplit BY <1>7 DEF WorkerSplit, OpenResults
<1>8. CASE WorkerStop
  BY <1>8 DEF WorkerStop, LOG_STATE_INIT, LOG_STATE_STOPPED
<1>9. CASE WorkerDestroy BY <1>9 DEF WorkerDestroy
<1>. QED
  BY <1>1, <1>2, <1>3, <1>4, <1>5, <1>6, <1>7, <1>8, <1>9 DEF Worker

LEMMA TypeOther ==
  TypeOK /\ ((\E l \in Levels : SetLogLevel(l)) \/ Shutdown \/ Exit
             \/ UNCHANGED vars) => TypeOK'
<1> SUFFICES ASSUME TypeOK,
                    (\E l \in Levels : SetLogLevel(l)) \/ Shutdown \/ Exit
                      \/ UNCHANGED vars
             PROVE  TypeOK'
  OBVIOUS
<1> USE DEF TypeOK
<1>1. CASE \E l \in Levels : SetLogLevel(l)
  BY <1>1, ConstantsAssumption DEF SetLogLevel
<1>2. CASE Shutdown
  BY <1>2 DEF Shutdown, LOG_STATE_INIT, LOG_STATE_LASTCHANCE,
              LOG_STATE_STOPPED
<1>3. CASE Exit BY <1>3 DEF Exit
<1>4. CASE UNCHANGED vars BY <1>4 DEF vars
<1>. QED BY <1>1, <1>2, <1>3, <1>4

LEMMA TypeStep == TypeOK /\ Critical /\ [Next]_vars => TypeOK'
  BY TypeProducer, TypeWorker, TypeOther DEF Next

-----------------------------------------------------------------------------
(* The mutex and the order of the end.                                     *)

LEMMA CriticalStep == TypeOK /\ Critical /\ [Next]_vars => Critical'
<1> SUFFICES ASSUME TypeOK, Critical, [Next]_vars,
                    NEW q \in Producers
             PROVE  /\ pc'[q] # "idle" => arg'[q] \in Calls
                    /\ InCritical(q)' => mutex' = {q}
                    /\ pc'[q] \in {"meta", "next"} =>
                         entries'[next'].buff = arg'[q]
                    /\ pc'[q] = "next" => entries'[next'].meta = arg'[q]
  BY DEF Critical, InCritical
<1> USE DEF Critical, InCritical
<1>0. /\ pc \in [Producers -> ProducerLabels] /\ next \in Slots
      /\ entries \in [Slots -> Entries]
      /\ arg \in [Producers -> Calls \cup {NoCall}]
  BY DEF TypeOK
<1>1. ASSUME NEW p \in Producers, NEW api \in Apis, Call(p, api)
      PROVE  Critical'
  <2>1. arg'[p] \in Calls
    BY <1>1, CallIsCall
  <2>. QED BY <1>0, <1>1, <2>1 DEF Call
<1>2. ASSUME NEW p \in Producers, CheckState(p) PROVE Critical'
  BY <1>0, <1>2 DEF CheckState
<1>3. ASSUME NEW p \in Producers, CheckFull(p) PROVE Critical'
  BY <1>0, <1>3 DEF CheckFull
<1>4. ASSUME NEW p \in Producers, Lock(p) PROVE Critical'
  BY <1>0, <1>4 DEF Lock
<1>5. ASSUME NEW p \in Producers, FillBuff(p) PROVE Critical'
  <2>1. \A r \in Producers : r # p => ~InCritical(r)
    BY <1>5 DEF FillBuff
  <2>2. pc' = [pc EXCEPT ![p] = "meta"] /\ UNCHANGED <<arg, next, mutex>>
    BY <1>5 DEF FillBuff
  <2>3. entries'[next].buff = arg[p]
    BY <1>0, <1>5 DEF FillBuff, Entries
  <2>. QED BY <1>0, <1>5, <2>1, <2>2, <2>3 DEF FillBuff
<1>6. ASSUME NEW p \in Producers, FillMeta(p) PROVE Critical'
  BY <1>0, <1>6 DEF FillMeta, Entries
<1>7. ASSUME NEW p \in Producers, Publish(p) PROVE Critical'
  BY <1>0, <1>7 DEF Publish
<1>8. ASSUME NEW p \in Producers, CallFreed(p) PROVE Critical'
  BY <1>0, <1>8 DEF CallFreed
<1>9. CASE Worker \/ Shutdown \/ Exit \/ UNCHANGED vars
           \/ \E l \in Levels : SetLogLevel(l)
  <2>1. UNCHANGED <<producerVars, ringVars>>
    BY <1>9 DEF Worker, WorkerStart, WorkerCheckState, WorkerCheckEmpty,
      WorkerPrint, WorkerBump, WorkerFlush, WorkerSplit, WorkerLastPrint,
      WorkerStop, WorkerDestroy, PrintLine, Shutdown, Exit, SetLogLevel, vars
  <2>. QED BY <2>1
<1>. QED
  BY <1>1, <1>2, <1>3, <1>4, <1>5, <1>6, <1>7, <1>8, <1>9
  DEF Next, ProducerStep

LEMMA StoppingStep ==
  TypeOK /\ Critical /\ Stopping /\ [Next]_vars => Stopping'
<1> SUFFICES ASSUME TypeOK, Critical, Stopping, [Next]_vars
             PROVE  Stopping'
  OBVIOUS
<1> USE DEF Stopping, LOG_STATE_RUN, LOG_STATE_LASTCHANCE, LOG_STATE_STOPPED
<1>0. hist \in Seq(Calls) /\ cut \in Nat
  BY DEF TypeOK
<1>1. ASSUME NEW p \in Producers,
             ProducerStep(p) \/ CallFreed(p) \/ \E api \in Apis : Call(p, api)
      PROVE  Stopping'
  <2>1. /\ UNCHANGED <<state, wpc, freed, shut, cut>>
        /\ hist' = hist \/ hist' = Append(hist, arg[p])
    BY <1>1 DEF ProducerStep, Call, CheckState, CheckFull, Lock, FillBuff,
        FillMeta, Publish, CallFreed
  <2>2. Len(hist') >= Len(hist)
    BY <2>1, <1>0
  <2>. QED BY <2>1, <2>2, <1>0
<1>2. CASE Worker
  BY <1>2 DEF Worker, WorkerStart, WorkerCheckState, WorkerCheckEmpty,
      WorkerPrint, WorkerBump, WorkerFlush, WorkerSplit, WorkerLastPrint,
          WorkerStop, WorkerDestroy, PrintLine
<1>3. CASE Shutdown
  BY <1>3, <1>0 DEF Shutdown
<1>4. CASE Exit \/ UNCHANGED vars \/ \E l \in Levels : SetLogLevel(l)
  BY <1>4 DEF Exit, SetLogLevel, vars
<1>. QED BY <1>1, <1>2, <1>3, <1>4 DEF Next

-----------------------------------------------------------------------------
(* The ring, until it is overrun.                                          *)

LEMMA StepOfRing == \A i \in Slots : (i + 1) % EntriesNum = Advance(i)
  BY ConstantsAssumption DEF Slots, Advance

\* Positions of the ring that are less than a turn apart are different slots.
LEMMA WrapInjective ==
  \A i \in Slots, j, k \in 0 .. EntriesNum - 1 :
    Wrap(i + j) = Wrap(i + k) => j = k
  BY ConstantsAssumption DEF Slots, Wrap

LEMMA WrapInSlots ==
  \A i \in Slots, k \in 0 .. EntriesNum - 1 : Wrap(i + k) \in Slots
  BY ConstantsAssumption DEF Slots, Wrap

LEMMA AdvanceWrap ==
  \A i \in Slots, k \in 0 .. EntriesNum - 2 :
    /\ Advance(Wrap(i + k)) = Wrap(i + k + 1)
    /\ Wrap(Advance(i) + k) = Wrap(i + k + 1)
  BY ConstantsAssumption DEF Slots, Wrap, Advance

\* Empty and full mean what they say.
LEMMA EmptyMeansEmpty ==
  TypeOK /\ Distance /\ ~overran => (IsEmpty <=> Pending = 0)
  BY ConstantsAssumption DEF Distance, IsEmpty, Wrap, TypeOK, Slots

LEMMA FullMeansFull ==
  TypeOK /\ Distance /\ ~overran => (IsFull <=> Pending = EntriesNum - 1)
<1> SUFFICES ASSUME TypeOK, Distance, ~overran
             PROVE  IsFull <=> Pending = EntriesNum - 1
  OBVIOUS
<1>1. /\ next \in Slots /\ written \in Slots
      /\ Pending \in 0 .. EntriesNum - 1
      /\ next = Wrap(written + Pending)
  BY DEF TypeOK, Distance
<1>2. IsFull <=> Advance(next) = written
  BY <1>1, StepOfRing DEF IsFull
<1>. QED
  BY <1>1, <1>2, ConstantsAssumption DEF Wrap, Advance, Slots

\* A step that does not touch the ring leaves the description of it alone.
LEMMA DrainedSame ==
  /\ out' = out
  /\ wpc' \in {"bump", "lastBump"} <=> wpc \in {"bump", "lastBump"}
  => Drained' = Drained
  BY DEF Drained

LEMMA PendingIsInt ==
  TypeOK => /\ Len(hist) \in Nat /\ Len(out) \in Nat
            /\ Drained \in Int /\ Pending \in Int
  BY DEF TypeOK, Drained, Pending

\* What the invariant says of the ring.
RingInv == Distance /\ Content /\ Room /\ FifoUntilOverrun

\* The steps that move neither end of the ring nor write into it.
Quiet ==
  /\ UNCHANGED <<entries, next, written, hist, out, overran>>
  /\ wpc' \in {"bump", "lastBump"} <=> wpc \in {"bump", "lastBump"}
  /\ \A p \in Producers : seen'[p] = seen[p] /\ (PastCheck(p)' => PastCheck(p))

LEMMA QuietStep == TypeOK /\ RingInv /\ Quiet => RingInv'
<1> SUFFICES ASSUME TypeOK, RingInv, Quiet PROVE RingInv'
  OBVIOUS
<1>1. Drained' = Drained /\ Pending' = Pending
  BY DrainedSame DEF Quiet, Pending
<1>2. Distance' BY <1>1 DEF RingInv, Quiet, Distance, Wrap
<1>3. Content' BY <1>1 DEF RingInv, Quiet, Content, Wrap, LineOf
<1>4. Room' BY <1>1 DEF RingInv, Quiet, Room
<1>5. FifoUntilOverrun' BY DEF RingInv, Quiet, FifoUntilOverrun, LineOf
<1>. QED BY <1>2, <1>3, <1>4, <1>5 DEF RingInv

\* is_full() grants room only when there is room.
LEMMA CheckFullStep ==
  ASSUME TypeOK, RingInv, NEW p \in Producers, CheckFull(p)
  PROVE  RingInv'
<1> USE DEF CheckFull
<1>1. UNCHANGED <<entries, next, written, hist, out, overran, wpc>>
  OBVIOUS
<1>2. Drained' = Drained /\ Pending' = Pending
  BY <1>1, DrainedSame DEF Pending
<1>3. Distance' BY <1>1, <1>2 DEF RingInv, Distance, Wrap
<1>4. Content' BY <1>1, <1>2 DEF RingInv, Content, Wrap, LineOf
<1>5. FifoUntilOverrun' BY <1>1 DEF RingInv, FifoUntilOverrun, LineOf
<1>6. Room'
  <2> SUFFICES ASSUME NEW q \in Producers, PastCheck(q)'
               PROVE  /\ seen'[q] <= Len(hist')
                      /\ ~overran' /\ seen'[q] = Len(hist')
                           => Pending' < EntriesNum - 1
    BY DEF Room
  <2>0. /\ pc \in [Producers -> ProducerLabels] /\ seen \in [Producers -> Nat]
    BY DEF TypeOK
  <2>1. CASE q = p
    <3>1. seen'[p] = Len(hist) BY <2>0
    <3>2. ~IsFull BY <2>0, <2>1 DEF PastCheck
    <3>3. ~overran => Pending < EntriesNum - 1
      BY <3>2, FullMeansFull, ConstantsAssumption DEF RingInv, Distance
    <3>. QED BY <1>1, <1>2, <2>1, <3>1, <3>3, PendingIsInt
  <2>2. CASE q # p
    <3>1. PastCheck(q) /\ seen'[q] = seen[q]
      BY <2>0, <2>2 DEF PastCheck
    <3>. QED BY <3>1, <1>1, <1>2 DEF RingInv, Room
  <2>. QED BY <2>1, <2>2
<1>. QED BY <1>3, <1>4, <1>5, <1>6 DEF RingInv

\* Filling the slot at _next touches no slot that waits for the worker.
LEMMA FillStep ==
  ASSUME TypeOK, RingInv, NEW p \in Producers, FillBuff(p) \/ FillMeta(p)
  PROVE  RingInv'
<1>1. /\ UNCHANGED <<next, written, hist, out, overran, wpc, seen>>
      /\ \A i \in Slots : i # next => entries'[i] = entries[i]
      /\ \A q \in Producers : PastCheck(q)' => PastCheck(q)
  BY DEF FillBuff, FillMeta, PastCheck, TypeOK
<1>2. Drained' = Drained /\ Pending' = Pending
  BY <1>1, DrainedSame DEF Pending
<1>3. Distance' BY <1>1, <1>2 DEF RingInv, Distance, Wrap
<1>4. Content'
  <2> SUFFICES ASSUME ~overran, NEW k \in 0 .. EntriesNum - 1, k < Pending
               PROVE  entries'[Wrap(written + k)] =
                        LineOf(hist[Drained + k + 1])
    BY <1>1, <1>2 DEF Content, Wrap, LineOf
  <2>1. Wrap(written + k) \in Slots
    BY WrapInSlots DEF TypeOK
  <2>2. Wrap(written + k) # next
    BY WrapInjective, PendingIsInt DEF RingInv, Distance, TypeOK
  <2>. QED BY <1>1, <2>1, <2>2 DEF RingInv, Content
<1>5. FifoUntilOverrun' BY <1>1 DEF RingInv, FifoUntilOverrun, LineOf
<1>6. Room' BY <1>1, <1>2 DEF RingInv, Room
<1>. QED BY <1>3, <1>4, <1>5, <1>6 DEF RingInv

\* ++_next makes the filled slot the last one that waits.
LEMMA PublishStep ==
  ASSUME TypeOK, Critical, RingInv, NEW p \in Producers, Publish(p)
  PROVE  RingInv'
<1>1. /\ UNCHANGED <<entries, written, out, wpc, seen>>
      /\ next' = Advance(next) /\ hist' = Append(hist, arg[p])
      /\ overran' = (overran \/ Pending + 1 >= EntriesNum)
      /\ \A q \in Producers : PastCheck(q)' => PastCheck(q)
  BY DEF Publish, PastCheck, TypeOK
<1>2. arg[p] \in Calls /\ entries[next] = LineOf(arg[p])
  BY DEF Publish, Critical, TypeOK, Entries, LineOf
<1>3. /\ hist \in Seq(Calls) /\ Len(hist') = Len(hist) + 1
      /\ hist'[Len(hist) + 1] = arg[p]
      /\ \A i \in 1 .. Len(hist) : hist'[i] = hist[i]
  BY <1>1, <1>2 DEF TypeOK
<1>4. Drained' = Drained
  BY <1>1, DrainedSame
<1>5. Pending' = Pending + 1
  BY <1>3, <1>4, PendingIsInt DEF Pending
<1>6. Distance'
  <2>1. ASSUME ~overran'
        PROVE  /\ Pending' \in 0 .. EntriesNum - 1
               /\ Len(out') <= Len(hist')
               /\ next' = Wrap(written' + Pending')
    <3>1. ~overran /\ Pending \in 0 .. EntriesNum - 2
      <4>1. ~overran /\ ~(Pending + 1 >= EntriesNum)
        BY <1>1, <2>1
      <4>2. Pending \in 0 .. EntriesNum - 1
        BY <4>1 DEF RingInv, Distance
      <4>. QED BY <4>1, <4>2, ConstantsAssumption
    <3>2. next' = Wrap(written + Pending + 1)
      BY <1>1, <3>1, AdvanceWrap DEF RingInv, Distance, TypeOK
    <3>3. Len(out) <= Len(hist)
      BY <3>1 DEF RingInv, Distance
    <3>. QED
      BY <1>1, <1>3, <1>5, <3>1, <3>2, <3>3, PendingIsInt, ConstantsAssumption
      DEF Wrap, TypeOK, Slots
  <2>2. wpc' \in {"bump", "lastBump"} => Len(out') > 0
    BY <1>1 DEF RingInv, Distance
  <2>. QED BY <2>1, <2>2 DEF Distance
<1>7. Content'
  <2> SUFFICES ASSUME ~overran', NEW k \in 0 .. EntriesNum - 1, k < Pending'
               PROVE  entries[Wrap(written + k)] =
                        LineOf(hist'[Drained + k + 1])
    BY <1>1, <1>4 DEF Content, Wrap, LineOf
  <2>0. ~overran /\ Pending \in 0 .. EntriesNum - 1
        /\ next = Wrap(written + Pending)
    BY <1>1 DEF RingInv, Distance
  <2>1. CASE k = Pending
    <3>1. Drained + k + 1 = Len(hist) + 1
      BY <2>1, PendingIsInt DEF Pending
    <3>. QED BY <1>2, <1>3, <2>0, <2>1, <3>1
  <2>2. CASE k < Pending
    <3>1. Drained + k + 1 \in 1 .. Len(hist)
      <4>1. Drained \in Nat
        BY DEF TypeOK, RingInv, Distance, Drained
      <4>. QED BY <2>2, <4>1, PendingIsInt DEF Pending
    <3>2. hist'[Drained + k + 1] = hist[Drained + k + 1]
      BY <3>1, <1>3
    <3>. QED BY <2>0, <2>2, <3>2 DEF RingInv, Content
  <2>. QED BY <1>5, <2>0, <2>1, <2>2
<1>8. FifoUntilOverrun'
  <2>1. ASSUME ~overran' PROVE FifoUntilOverrun'
    <3>1. ~overran /\ Len(out) <= Len(hist)
      BY <1>1, <2>1 DEF RingInv, Distance
    <3>2. \A i \in 1 .. Len(out) : out[i] = LineOf(hist'[i])
      BY <1>3, <3>1, PendingIsInt DEF RingInv, FifoUntilOverrun
    <3>. QED
      BY <1>1, <1>3, <3>1, <3>2, PendingIsInt DEF FifoUntilOverrun, LineOf
  <2>. QED BY <2>1 DEF FifoUntilOverrun
<1>9. Room'
  <2> SUFFICES ASSUME NEW q \in Producers, PastCheck(q)'
               PROVE  seen'[q] < Len(hist')
    BY <1>1, <1>3, PendingIsInt DEF Room, TypeOK
  <2>. QED BY <1>1, <1>3, PendingIsInt DEF RingInv, Room, TypeOK
<1>. QED BY <1>6, <1>7, <1>8, <1>9 DEF RingInv

\* The line printed is that of the oldest record that waits.
LEMMA PrintsOldest ==
  ASSUME TypeOK, RingInv, WorkerPrint \/ WorkerLastPrint, file = "open",
         ~overran
  PROVE  /\ Len(out) < Len(hist)
         /\ entries[written] = LineOf(hist[Len(out) + 1])
<1>1. ~IsEmpty /\ Drained = Len(out)
  BY DEF WorkerPrint, WorkerLastPrint, Drained
<1>2. Pending \in 1 .. EntriesNum - 1
  BY <1>1, EmptyMeansEmpty DEF RingInv, Distance
<1>3. Len(out) < Len(hist)
  BY <1>1, <1>2, PendingIsInt DEF Pending
<1>4. entries[Wrap(written + 0)] = LineOf(hist[Drained + 0 + 1])
  BY <1>2, ConstantsAssumption DEF RingInv, Content
<1>5. Wrap(written + 0) = written
  BY ConstantsAssumption DEF Wrap, TypeOK, Slots
<1>. QED BY <1>1, <1>3, <1>4, <1>5, PendingIsInt

LEMMA PrintStep ==
  ASSUME TypeOK, RingInv, WorkerPrint \/ WorkerLastPrint, file = "open"
  PROVE  RingInv'
<1>1. /\ UNCHANGED <<entries, next, written, hist, overran, seen, pc>>
      /\ out' = Append(out, entries[written])
      /\ wpc \notin {"bump", "lastBump"} /\ wpc' \in {"bump", "lastBump"}
  BY DEF WorkerPrint, WorkerLastPrint, PrintLine
<1>2. entries[written] \in Entries /\ out \in Seq(Entries)
  BY DEF TypeOK
<1>3. /\ Len(out') = Len(out) + 1
      /\ out'[Len(out) + 1] = entries[written]
      /\ \A i \in 1 .. Len(out) : out'[i] = out[i]
  BY <1>1, <1>2
<1>4. Drained = Len(out) /\ Drained' = Drained /\ Pending' = Pending
  BY <1>1, <1>3, PendingIsInt DEF Drained, Pending
<1>5. ~overran => /\ Len(out) < Len(hist)
                  /\ entries[written] = LineOf(hist[Len(out) + 1])
  BY PrintsOldest
<1>6. Distance'
  <2>1. Len(out') > 0 BY <1>3, PendingIsInt
  <2>2. ~overran => Len(out') <= Len(hist)
    BY <1>3, <1>5, PendingIsInt
  <2>. QED BY <1>1, <1>4, <2>1, <2>2 DEF RingInv, Distance, Wrap
<1>7. Content' BY <1>1, <1>4 DEF RingInv, Content, Wrap, LineOf
<1>8. Room' BY <1>1, <1>4 DEF RingInv, Room, PastCheck
<1>9. FifoUntilOverrun'
  <2> SUFFICES ASSUME ~overran
               PROVE  /\ Len(out') <= Len(hist)
                      /\ \A i \in 1 .. Len(out') : out'[i] = LineOf(hist[i])
    BY <1>1 DEF FifoUntilOverrun, LineOf
  <2>1. \A i \in 1 .. Len(out) : out'[i] = LineOf(hist[i])
    BY <1>3 DEF RingInv, FifoUntilOverrun
  <2>2. out'[Len(out) + 1] = LineOf(hist[Len(out) + 1])
    BY <1>3, <1>5
  <2>. QED BY <1>3, <1>5, <2>1, <2>2, PendingIsInt
<1>. QED BY <1>6, <1>7, <1>8, <1>9 DEF RingInv

\* ++_written takes the printed slot off the front.
LEMMA BumpStep ==
  ASSUME TypeOK, RingInv, WorkerBump
  PROVE  RingInv'
<1>1. /\ UNCHANGED <<entries, next, hist, out, overran, seen, pc>>
      /\ wpc \in {"bump", "lastBump"} /\ wpc' \notin {"bump", "lastBump"}
      /\ written' = Advance(written)
  BY DEF WorkerBump
<1>2. /\ Drained = Len(out) - 1 /\ Drained' = Drained + 1
      /\ Pending' = Pending - 1
  BY <1>1, PendingIsInt DEF Drained, Pending
<1>3. ASSUME ~overran
      PROVE  Pending \in 1 .. EntriesNum - 1
  BY <1>2, <1>3, PendingIsInt DEF RingInv, Distance, Pending
<1>4. Distance'
  <2>1. ASSUME ~overran PROVE next = Wrap(Advance(written) + (Pending - 1))
    <3>1. Pending - 1 \in 0 .. EntriesNum - 2
      BY <1>3, <2>1, ConstantsAssumption
    <3>2. Wrap(Advance(written) + (Pending - 1)) =
            Wrap(written + (Pending - 1) + 1)
      BY <3>1, AdvanceWrap DEF TypeOK
    <3>3. written + (Pending - 1) + 1 = written + Pending
      BY PendingIsInt DEF TypeOK, Slots
    <3>. QED BY <2>1, <3>2, <3>3 DEF RingInv, Distance
  <2>2. ~overran => Pending' \in 0 .. EntriesNum - 1
    BY <1>2, <1>3, ConstantsAssumption
  <2>3. ~overran => next' = Wrap(written' + Pending')
    BY <1>1, <1>2, <2>1 DEF Wrap
  <2>. QED BY <1>1, <2>2, <2>3 DEF RingInv, Distance
<1>5. Content'
  <2> SUFFICES ASSUME ~overran, NEW k \in 0 .. EntriesNum - 1, k < Pending - 1
               PROVE  entries[Wrap(Advance(written) + k)] =
                        LineOf(hist[Drained + 1 + k + 1])
    BY <1>1, <1>2 DEF Content, Wrap, LineOf
  <2>1. k \in 0 .. EntriesNum - 2 /\ k + 1 \in 0 .. EntriesNum - 1
        /\ k + 1 < Pending
    BY <1>3, ConstantsAssumption
  <2>2. Wrap(Advance(written) + k) = Wrap(written + (k + 1))
    <3>1. Wrap(Advance(written) + k) = Wrap(written + k + 1)
      BY <2>1, AdvanceWrap DEF TypeOK
    <3>2. written + k + 1 = written + (k + 1)
      BY DEF TypeOK, Slots
    <3>. QED BY <3>1, <3>2
  <2>3. Drained + 1 + k + 1 = Drained + (k + 1) + 1
    BY PendingIsInt
  <2>. QED BY <2>1, <2>2, <2>3 DEF RingInv, Content
<1>6. Room'
  BY <1>1, <1>2, PendingIsInt, ConstantsAssumption DEF RingInv, Room, PastCheck
<1>7. FifoUntilOverrun' BY <1>1 DEF RingInv, FifoUntilOverrun, LineOf
<1>. QED BY <1>4, <1>5, <1>6, <1>7 DEF RingInv

LEMMA RingStep ==
  TypeOK /\ Critical /\ RingInv /\ [Next]_vars => RingInv'
<1> SUFFICES ASSUME TypeOK, Critical, RingInv, [Next]_vars
             PROVE  RingInv'
  OBVIOUS
<1>1. ASSUME NEW p \in Producers,
             CheckState(p) \/ Lock(p) \/ CallFreed(p)
               \/ \E api \in Apis : Call(p, api)
      PROVE  RingInv'
  <2>1. UNCHANGED <<entries, next, written, hist, out, overran, wpc, seen>>
    BY <1>1 DEF CheckState, Lock, CallFreed, Call
  <2>2. \A q \in Producers : PastCheck(q)' => PastCheck(q)
    BY <1>1 DEF CheckState, Lock, CallFreed, Call, PastCheck, TypeOK
  <2>. QED BY <2>1, <2>2, QuietStep DEF Quiet
<1>2. ASSUME NEW p \in Producers, ProducerStep(p) PROVE RingInv'
  BY <1>1, <1>2, CheckFullStep, FillStep, PublishStep DEF ProducerStep
<1>3. CASE Worker
  <2>1. CASE (WorkerPrint \/ WorkerLastPrint) /\ file = "open"
    BY <2>1, PrintStep
  <2>2. CASE WorkerBump
    BY <2>2, BumpStep
  <2>3. CASE \/ (WorkerPrint \/ WorkerLastPrint) /\ file # "open"
             \/ WorkerStart \/ WorkerCheckState \/ WorkerCheckEmpty
             \/ WorkerFlush \/ WorkerSplit \/ WorkerStop \/ WorkerDestroy
    <3>1. Quiet
      BY <2>3 DEF Quiet, WorkerPrint, WorkerLastPrint, PrintLine, WorkerStart,
          WorkerCheckState, WorkerCheckEmpty, WorkerFlush, WorkerSplit,
              WorkerStop, WorkerDestroy, PastCheck
    <3>. QED BY <3>1, QuietStep
  <2>. QED BY <1>3, <2>1, <2>2, <2>3 DEF Worker
<1>4. CASE Shutdown \/ Exit \/ UNCHANGED vars
           \/ \E l \in Levels : SetLogLevel(l)
  <2>1. Quiet
    BY <1>4 DEF Quiet, Shutdown, Exit, SetLogLevel, vars, PastCheck
  <2>. QED BY <2>1, QuietStep
<1>. QED BY <1>1, <1>2, <1>3, <1>4 DEF Next

\* WorkerStop leaves only an empty ring behind, and shutdown() came before.
LEMMA DrainedStep ==
  TypeOK /\ Critical /\ Stopping /\ RingInv /\ DrainedBeforeStop /\ [Next]_vars
  => DrainedBeforeStop'
<1> SUFFICES ASSUME TypeOK, Critical, Stopping, RingInv, DrainedBeforeStop,
                    [Next]_vars
             PROVE  DrainedBeforeStop'
  OBVIOUS
<1>0. hist \in Seq(Calls) /\ out \in Seq(Entries) /\ cut \in Nat
  BY DEF TypeOK
<1>1. ASSUME NEW p \in Producers,
             ProducerStep(p) \/ CallFreed(p) \/ \E api \in Apis : Call(p, api)
      PROVE  DrainedBeforeStop'
  <2>1. UNCHANGED <<wpc, out, cut>>
    BY <1>1 DEF ProducerStep, Call, CheckState, CheckFull, Lock, FillBuff,
        FillMeta, Publish, CallFreed
  <2>2. ~overran' => ~overran
    <3>1. CASE Publish(p) BY <3>1, Zenon DEF Publish
    <3>2. CASE ~Publish(p)
      BY <1>1, <3>2 DEF ProducerStep, Call, CheckState, CheckFull, Lock,
          FillBuff, FillMeta, CallFreed
    <3>. QED BY <3>1, <3>2
  <2>. QED BY <2>1, <2>2 DEF DrainedBeforeStop
<1>2. CASE WorkerStop
  <2>1. UNCHANGED <<out, cut, overran>> /\ IsEmpty /\ wpc = "last"
    BY <1>2 DEF WorkerStop
  <2>2. ~overran => Pending = 0
    BY <2>1, EmptyMeansEmpty DEF RingInv
  <2>3. ~overran => Len(out) = Len(hist)
    BY <2>1, <2>2, PendingIsInt DEF Pending, Drained
  <2>. QED BY <2>1, <2>3, <1>0 DEF Stopping, DrainedBeforeStop
<1>3. CASE Worker /\ ~WorkerStop
  <2>1. /\ UNCHANGED <<cut, overran>>
        /\ wpc' \in {"destroy", "end"} =>
             wpc \in {"destroy", "end"} /\ out' = out
    BY <1>3 DEF Worker, WorkerStart, WorkerCheckState, WorkerCheckEmpty,
        WorkerPrint, WorkerBump, WorkerFlush, WorkerSplit, WorkerLastPrint,
            WorkerDestroy, PrintLine
  <2>. QED BY <2>1 DEF DrainedBeforeStop
<1>4. CASE Shutdown
  BY <1>4 DEF Shutdown, Stopping, DrainedBeforeStop
<1>5. CASE Exit \/ UNCHANGED vars \/ \E l \in Levels : SetLogLevel(l)
  BY <1>5 DEF Exit, SetLogLevel, vars, DrainedBeforeStop
<1>. QED BY <1>1, <1>2, <1>3, <1>4, <1>5 DEF Next

-----------------------------------------------------------------------------
(* The theorems.                                                           *)

LEMMA InitInv == Init => IInv
<1> SUFFICES ASSUME Init PROVE IInv
  OBVIOUS
<1>1. TypeOK BY TypeInit
<1>2. Len(hist) = 0 /\ Len(out) = 0 /\ Drained = 0 /\ Pending = 0
  BY DEF Init, Drained, Pending
<1>3. Stopping /\ DrainedBeforeStop
  BY <1>2 DEF Init, Stopping, DrainedBeforeStop, LOG_STATE_INIT,
    LOG_STATE_LASTCHANCE
<1>4. Critical /\ Room
  BY DEF Init, Critical, Room, InCritical, PastCheck
<1>5. Distance /\ Content
  BY <1>2, ConstantsAssumption DEF Init, Distance, Content, Wrap
<1>6. FifoUntilOverrun BY <1>2 DEF FifoUntilOverrun
<1>. QED BY <1>1, <1>3, <1>4, <1>5, <1>6 DEF IInv

LEMMA StepInv == IInv /\ [Next]_vars => IInv'
  BY TypeStep, CriticalStep, StoppingStep, RingStep, DrainedStep
  DEF IInv, RingInv

\* The invariant of the logger holds for every number of producers and slots.
LEMMA Invariant == Spec => []IInv
  BY InitInv, StepInv, PTL DEF Spec

\* The state of the logger is always of its type.
THEOREM TypeCorrect == Spec => []TypeOK
<1>1. IInv => TypeOK BY DEF IInv
<1>. QED BY <1>1, Invariant, PTL

\* Until an overrun the file holds the accepted records in order and whole,
\* however many threads log.
THEOREM Fifo == Spec => []FifoUntilOverrun
<1>1. IInv => FifoUntilOverrun BY DEF IInv
<1>. QED BY <1>1, Invariant, PTL

\* What was accepted before shutdown() is in the file at STOPPED.
THEOREM ShutdownDrains == Spec => []DrainedBeforeStop
<1>1. IInv => DrainedBeforeStop BY DEF IInv
<1>. QED BY <1>1, Invariant, PTL

\* The worker never prints the slot a producer is filling, until an overrun.
THEOREM SlotsApart == Spec => []NoSlotShared
<1>1. IInv => NoSlotShared
  <2> SUFFICES ASSUME IInv, ~overran, Drained < Len(hist)
               PROVE  next # written
    BY DEF NoSlotShared
  <2>1. Pending # 0
    BY PendingIsInt DEF IInv, Pending
  <2>. QED BY <2>1, EmptyMeansEmpty DEF IInv, IsEmpty
<1>. QED BY <1>1, Invariant, PTL

\* Only a stale is_full() overruns the ring.
THEOREM OverrunIsStale == Spec => OverrunOnlyWhenStale
<1>1. IInv /\ [Next]_vars /\ ~overran /\ overran' =>
        \E p \in Producers : pc[p] = "next" /\ seen[p] < Len(hist)
  <2> SUFFICES ASSUME IInv, [Next]_vars, ~overran, overran'
               PROVE  \E p \in Producers :
                        pc[p] = "next" /\ seen[p] < Len(hist)
    OBVIOUS
  <2>1. PICK p \in Producers : Publish(p)
    BY DEF Next, ProducerStep, Call, CheckState, CheckFull, Lock, FillBuff,
        FillMeta, CallFreed, Worker, WorkerStart, WorkerCheckState,
            WorkerCheckEmpty, WorkerPrint, WorkerBump, WorkerFlush,
                WorkerSplit, WorkerLastPrint, WorkerStop, WorkerDestroy,
                    PrintLine, Shutdown, Exit, SetLogLevel, vars
  <2>2. pc[p] = "next" /\ Pending + 1 >= EntriesNum
    BY <2>1 DEF Publish
  <2>3. /\ seen[p] \in Nat /\ Len(hist) \in Nat /\ seen[p] <= Len(hist)
        /\ seen[p] = Len(hist) => Pending < EntriesNum - 1
    BY <2>2, PendingIsInt DEF IInv, TypeOK, Room, PastCheck
  <2>. QED BY <2>2, <2>3, PendingIsInt, ConstantsAssumption DEF IInv
<1>2. IInv /\ [Next]_vars =>
        [~overran /\ overran' =>
           \E p \in Producers : pc[p] = "next" /\ seen[p] < Len(hist)]_vars
  BY <1>1
<1>. QED BY <1>2, Invariant, PTL DEF Spec, OverrunOnlyWhenStale

-----------------------------------------------------------------------------
(* The service *)

\* Every step that does not overrun the ring is a step of the service.
LEMMA ServiceStep ==
  ASSUME IInv, ~overran, ~overran', [Next]_vars
  PROVE  [Service!Next]_(Service!vars)
<1> USE DEF Service!vars
<1>1. ASSUME NEW p \in Producers, Publish(p) PROVE Service!Accept
  <2>1. Len(hist) - Len(out) < EntriesNum - 1
    <3>1. ~(Pending + 1 >= EntriesNum)
      BY <1>1, Zenon DEF Publish
    <3>. QED
      BY <3>1, PendingIsInt, ConstantsAssumption DEF IInv, Pending, Drained
  <2>2. arg[p] \in Calls /\ hist' = Append(hist, arg[p])
    BY <1>1 DEF Publish, IInv, Critical
  <2>3. ~freed /\ UNCHANGED <<out, freed, shut, cut>>
    BY <1>1 DEF Publish
  <2>. QED BY <2>1, <2>2, <2>3 DEF Service!Accept
<1>2. ASSUME WorkerPrint \/ WorkerLastPrint, file = "open"
      PROVE  Service!Store
  <2>1. UNCHANGED <<hist, freed, shut, cut>>
        /\ out' = Append(out, entries[written])
    BY <1>2 DEF WorkerPrint, WorkerLastPrint, PrintLine
  <2>2. Len(out) < Len(hist) /\ entries[written] = LineOf(hist[Len(out) + 1])
    BY <1>2, PrintsOldest DEF IInv, RingInv
  <2>. QED BY <2>1, <2>2 DEF Service!Store
<1>3. CASE Shutdown
  BY <1>3 DEF Shutdown, Service!Next, Service!Close
<1>4. CASE WorkerDestroy
  BY <1>4 DEF WorkerDestroy, Service!Next, Service!Stop, IInv, Stopping,
      DrainedBeforeStop
<1>5. ASSUME NEW p \in Producers, \/ ProducerStep(p) /\ ~Publish(p)
             \/ CallFreed(p) \/ \E api \in Apis : Call(p, api)
      PROVE  UNCHANGED <<hist, out, freed, shut, cut>>
  BY <1>5 DEF ProducerStep, Call, CheckState, CheckFull, Lock, FillBuff,
      FillMeta, CallFreed
<1>6. CASE \/ (WorkerPrint \/ WorkerLastPrint) /\ file # "open"
           \/ WorkerStart \/ WorkerCheckState \/ WorkerCheckEmpty
           \/ WorkerBump \/ WorkerFlush \/ WorkerSplit \/ WorkerStop
           \/ Exit \/ UNCHANGED vars \/ \E l \in Levels : SetLogLevel(l)
  <2>1. UNCHANGED <<hist, out, freed, shut, cut>>
    BY <1>6 DEF WorkerPrint, WorkerLastPrint, PrintLine, WorkerStart,
        WorkerCheckState, WorkerCheckEmpty, WorkerBump, WorkerFlush,
            WorkerSplit, WorkerStop, Exit, SetLogLevel, vars
  <2>. QED BY <2>1
<1>. QED
  BY <1>1, <1>2, <1>3, <1>4, <1>5, <1>6
  DEF Next, ProducerStep, Worker, Service!Next

\* An overrun is not undone.
LEMMA OverranStays == [Next]_vars /\ overran => overran'
<1> SUFFICES ASSUME [Next]_vars, overran PROVE overran'
  OBVIOUS
<1>1. CASE \E p \in Producers : Publish(p)
  BY <1>1, Zenon DEF Publish
<1>2. CASE ~\E p \in Producers : Publish(p)
  BY <1>2
  DEF Next, ProducerStep, Call, CheckState, CheckFull, Lock, FillBuff,
      FillMeta, CallFreed, Worker, WorkerStart, WorkerCheckState,
      WorkerCheckEmpty, WorkerPrint, WorkerBump, WorkerFlush, WorkerSplit,
      WorkerLastPrint, WorkerStop, WorkerDestroy, PrintLine, Shutdown, Exit,
      SetLogLevel, vars
<1>. QED BY <1>1, <1>2

\* However many threads log, until the ring is overrun every step of the logger
\* is a step of the service or changes nothing of it.
THEOREM ServedUntilOverrun == Spec => ServiceUntilOverrun
<1>1. IInv /\ [Next]_vars =>
        [overran' \/ Service!Next \/ UNCHANGED Service!vars]_vars
  <2> SUFFICES ASSUME IInv, [Next]_vars, ~overran'
               PROVE  Service!Next \/ UNCHANGED Service!vars
    OBVIOUS
  <2>1. ~overran
    BY OverranStays
  <2>. QED BY <2>1, ServiceStep
<1>. QED BY <1>1, Invariant, PTL DEF Spec, ServiceUntilOverrun

\* So a logger that is never overrun implements the service.
THEOREM ImplementsUnlessOverrun == Spec /\ []~overran => ImplementsService
<1>1. Init => Service!Init
  BY DEF Init, Service!Init
<1>2. IInv /\ ~overran /\ ~overran' /\ [Next]_vars =>
        [Service!Next]_(Service!vars)
  BY ServiceStep
<1>3. Spec /\ []~overran => Service!Spec
  BY <1>1, <1>2, Invariant, PTL DEF Spec, Service!Spec
<1>. QED BY <1>3 DEF ImplementsService

-----------------------------------------------------------------------------
(* One thread calls log().                                                 *)

Alone == \A p, q \in Producers : p = q

\* Nobody overtakes the only is_full().
FreshCheck ==
  ~overran /\ \A p \in Producers : PastCheck(p) => seen[p] = Len(hist)

LEMMA FreshStep ==
  ASSUME Alone PROVE IInv /\ FreshCheck /\ [Next]_vars => FreshCheck'
<1> SUFFICES ASSUME IInv, FreshCheck, [Next]_vars PROVE FreshCheck'
  OBVIOUS
<1>0. pc \in [Producers -> ProducerLabels] /\ seen \in [Producers -> Nat]
  BY DEF IInv, TypeOK
<1>1. ASSUME NEW p \in Producers, \/ ProducerStep(p) /\ ~Publish(p)
             \/ CallFreed(p) \/ \E api \in Apis : Call(p, api)
      PROVE  FreshCheck'
  <2>1. UNCHANGED <<hist, overran>>
    BY <1>1 DEF ProducerStep, Call, CheckState, CheckFull, Lock, FillBuff,
        FillMeta, CallFreed
  <2>2. PastCheck(p)' => seen'[p] = Len(hist)
    BY <1>0, <1>1 DEF FreshCheck, PastCheck, ProducerStep, Call, CheckState,
        CheckFull, Lock, FillBuff, FillMeta, CallFreed
  <2>. QED BY <2>1, <2>2 DEF FreshCheck, Alone
<1>2. ASSUME NEW p \in Producers, Publish(p) PROVE FreshCheck'
  <2>1. pc'[p] = "idle"
    BY <1>0, <1>2 DEF Publish
  <2>2. Pending < EntriesNum - 1
    BY <1>2 DEF Publish, IInv, Room, PastCheck, FreshCheck
  <2>3. ~(Pending + 1 >= EntriesNum)
    BY <2>2, PendingIsInt, ConstantsAssumption DEF IInv
  <2>4. ~overran'
    BY <1>2, <2>3, Zenon DEF Publish, FreshCheck
  <2>. QED BY <2>1, <2>4 DEF FreshCheck, Alone, PastCheck
<1>3. CASE Worker \/ Shutdown \/ Exit \/ UNCHANGED vars
           \/ \E l \in Levels : SetLogLevel(l)
  <2>1. UNCHANGED <<hist, overran, pc, seen>>
    BY <1>3 DEF Worker, WorkerStart, WorkerCheckState, WorkerCheckEmpty,
        WorkerPrint, WorkerBump, WorkerFlush, WorkerSplit, WorkerLastPrint,
            WorkerStop, WorkerDestroy, PrintLine, Shutdown, Exit, SetLogLevel,
                vars
  <2>. QED BY <2>1 DEF FreshCheck, PastCheck
<1>. QED BY <1>1, <1>2, <1>3 DEF Next

\* With one logging thread the ring never loses what it holds.
THEOREM OneProducerNoOverrun == Alone /\ Spec => []NoOverrun
<1>1. Init => FreshCheck
  BY DEF Init, FreshCheck, PastCheck
<1>2. IInv /\ FreshCheck => NoOverrun
  BY ConstantsAssumption DEF IInv, FreshCheck, NoOverrun, Distance
<1>3. Alone => (IInv /\ FreshCheck /\ [Next]_vars => FreshCheck')
  BY FreshStep
<1>4. CASE Alone
  <2>1. IInv /\ FreshCheck /\ [Next]_vars => FreshCheck'
    BY <1>3, <1>4
  <2>2. Spec => []NoOverrun
    BY <1>1, <1>2, <2>1, Invariant, PTL DEF Spec
  <2>. QED BY <2>2
<1>. QED BY <1>4

\* With one logging thread the logger implements the service.
THEOREM OneProducerImplements == Alone /\ Spec => ImplementsService
<1>1. NoOverrun => ~overran
  BY DEF NoOverrun
<1>. QED
  BY <1>1, OneProducerNoOverrun, ImplementsUnlessOverrun, PTL
=============================================================================
