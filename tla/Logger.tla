------------------------------- MODULE Logger -------------------------------
(***************************************************************************)
(* The asynchronous logger of cplusplus/cpplogger.  Application threads    *)
(* ("producers") call log(), which puts a record into a ring of            *)
(* _entries_num slots; one worker thread takes the records out, prints     *)
(* them into the log file, rotates that file, and after shutdown() drains  *)
(* the ring and frees the logger.                                          *)
(*                                                                         *)
(* log() is cut where another thread can get in between: the level test,   *)
(* the read of _state, the unlocked is_full(), the mutex, the two halves   *)
(* of filling the slot (vsnprintf, then time stamp, module and priority),  *)
(* and ++_next with the unlock.  The worker is cut at its reads of _state  *)
(* and _next and between fprintf and ++_written.                           *)
(*                                                                         *)
(* The model starts where instance() has returned and the worker thread is *)
(* created; instance(), with its race of first callers, and get_proc()     *)
(* come before and are not part of this module.                            *)
(***************************************************************************)
EXTENDS Integers, Sequences, FiniteSets

CONSTANTS
  Producers,      \* application threads that call log()
  EntriesNum,     \* _entries_num: slots of the ring
  EntryMax,       \* LOG_ENTRY_MAX: records printed before an fflush
  RotateAt,       \* records that fill the log file to __100MB
  MaxCalls,       \* bound: log() calls of one producer
  Apis,           \* the macros the application uses
  Levels,         \* the levels the application passes to set_log_level()
  FileOpsMayFail, \* whether fopen() and fstat() of the log file may fail
  NoCall          \* content of a slot that was never filled

\* The priorities of logger.h.
LOG_PRI_CRIT  == 0
LOG_PRI_ERROR == 1
LOG_PRI_WARN  == 2
LOG_PRI_INFO  == 3
LOG_PRI_DEBUG == 4
LOG_PRI_TRACE == 5

\* The states of logger.h.
LOG_STATE_INIT       == 0
LOG_STATE_RUN        == 1
LOG_STATE_LASTCHANCE == 2
LOG_STATE_STOPPED    == 3

AllApis == {"fatal", "error", "warn", "info", "debug", "trace"}

\* The priority a macro passes to log_impl(): log_warn and log_info pass
\* LOG_PRI_ERROR.
MacroPri(api) ==
  CASE api = "fatal" -> LOG_PRI_CRIT
    [] api \in {"error", "warn", "info"} -> LOG_PRI_ERROR
    [] api = "debug" -> LOG_PRI_DEBUG
    [] api = "trace" -> LOG_PRI_TRACE

\* One call of a macro: its caller, its number among the caller's calls, the
\* macro used.
Calls == [by : Producers, no : 1 .. MaxCalls, api : Apis]

ASSUME ConstantsAssumption ==
  /\ EntriesNum \in Nat \ {0, 1}
  /\ EntryMax \in Nat \ {0}
  /\ RotateAt \in Nat \ {0}
  /\ MaxCalls \in Nat
  /\ Apis \subseteq AllApis
  /\ Levels \subseteq LOG_PRI_CRIT .. LOG_PRI_TRACE
  /\ FileOpsMayFail \in BOOLEAN
  /\ NoCall \notin Calls

Slots == 0 .. EntriesNum - 1

\* A slot: what vsnprintf wrote, and the time stamp, module and priority.
Entries == [buff : Calls \cup {NoCall}, meta : Calls \cup {NoCall}]

VARIABLES
  state,     \* _state
  level,     \* _level
  entries,   \* _log_entries
  next,      \* _next, as an index
  written,   \* _written, as an index
  mutex,     \* the holders of _log_mutex: {} or one producer
  file,      \* _log_file: "open" or "null"
  size,      \* records in the current log file
  freed,     \* destroy() has run
  process,   \* "running", "crashed" or "exited"
  pc,        \* where each producer is in log()
  arg,       \* the call each producer is making, or made last
  done,      \* log() calls each producer has begun
  wpc,       \* where the worker is in _log_worker()
  count,     \* the worker's count
  shut,      \* shutdown() has been called
  seen,      \* history: Len(hist) at each producer's last is_full()
  hist,      \* history: the calls that put a record into the ring, in order
  out,       \* history: the lines printed, rotated files included
  overran,   \* history: _next has caught up with _written from behind
  cut        \* history: Len(hist) when shutdown() was called

callVars     == <<arg, done, seen>>
producerVars == <<pc, callVars>>
ringVars     == <<entries, next, mutex, hist, overran>>
workerVars   == <<written, file, size, wpc, count, out>>
stopVars     == <<freed, process, shut, cut>>
\* What log() leaves alone, and what the worker leaves alone.
notByLog     == <<state, level, workerVars, stopVars>>
notByWorker  == <<level, producerVars, ringVars, freed, shut, cut>>
vars == <<state, level, producerVars, ringVars, workerVars, stopVars>>

-----------------------------------------------------------------------------
(* The ring.                                                               *)

IsEmpty == next = written

\* Mutant: is_full() forgets the wrap.
IsFull_NoWrap == next + 1 = written

\* ((_next + 1) - _written) % _entries_num: only its being zero matters, which
\* does not depend on the sign C gives a remainder.
IsFull == (next + 1) % EntriesNum = written

\* Mutant: wrapping one slot early.
Advance_Early(i) == IF i + 1 >= EntriesNum - 1 THEN 0 ELSE i + 1

Advance(i) == IF i + 1 >= EntriesNum THEN 0 ELSE i + 1

\* Records printed and left: Len(out) less one between fprintf and ++_written.
Drained == IF wpc \in {"bump", "lastBump"} THEN Len(out) - 1 ELSE Len(out)
Pending == Len(hist) - Drained

\* The line the worker prints for call c when nobody interferes.
LineOf(c) == [buff |-> c, meta |-> c]

\* fopen("a+"): the file, or NULL.
OpenResults == {"open"} \cup (IF FileOpsMayFail THEN {"null"} ELSE {})

Init ==
  /\ state = LOG_STATE_INIT /\ level = LOG_PRI_DEBUG
  /\ entries = [i \in Slots |-> LineOf(NoCall)]
  /\ next = 0 /\ written = 0 /\ mutex = {}
  /\ file \in OpenResults /\ size = 0
  /\ freed = FALSE /\ process = "running" /\ shut = FALSE
  /\ pc = [p \in Producers |-> "idle"]
  /\ arg = [p \in Producers |-> NoCall]
  /\ done = [p \in Producers |-> 0]
  /\ seen = [p \in Producers |-> 0]
  /\ wpc = "start" /\ count = 0
  /\ hist = <<>> /\ out = <<>> /\ overran = FALSE /\ cut = 0

-----------------------------------------------------------------------------
(* Producers: log_impl() and log().                                        *)

Alive == process = "running"
At(p, label) == Alive /\ ~freed /\ pc[p] = label
Goto(p, label) == pc' = [pc EXCEPT ![p] = label]

\* log_impl(): a macro is used; log() returns at once when the priority is
\* above _level.
Call(p, api) ==
  /\ At(p, "idle") /\ done[p] < MaxCalls
  /\ done' = [done EXCEPT ![p] = @ + 1]
  /\ arg' = [arg EXCEPT ![p] = [by |-> p, no |-> done[p] + 1, api |-> api]]
  /\ Goto(p, IF MacroPri(api) > level THEN "idle" ELSE "state")
  /\ UNCHANGED <<notByLog, seen, ringVars>>

\* _state >= LOG_STATE_LASTCHANCE: return LOG_ERR_HAS_STOPPED.
CheckState(p) ==
  /\ At(p, "state")
  /\ Goto(p, IF state >= LOG_STATE_LASTCHANCE THEN "idle" ELSE "full")
  /\ UNCHANGED <<notByLog, callVars, ringVars>>

\* is_full(), before the mutex: return LOG_ERR_CACHEFULL.
CheckFull(p) ==
  /\ At(p, "full")
  /\ Goto(p, IF IsFull THEN "idle" ELSE "lock")
  /\ seen' = [seen EXCEPT ![p] = Len(hist)]
  /\ UNCHANGED <<notByLog, arg, done, ringVars>>

\* Mutant: log() without the mutex.
MutexFree_Ignored == TRUE

MutexFree == mutex = {}

Lock(p) ==
  /\ At(p, "lock") /\ MutexFree
  /\ mutex' = {p}
  /\ Goto(p, "buff")
  /\ UNCHANGED <<notByLog, callVars, entries, next, hist, overran>>

\* vsnprintf into the slot at _next.
FillBuff(p) ==
  /\ At(p, "buff")
  /\ entries' = [entries EXCEPT ![next].buff = arg[p]]
  /\ Goto(p, "meta")
  /\ UNCHANGED <<notByLog, callVars, next, mutex, hist, overran>>

\* ts, mod_id, priority, seq_no of the slot.
FillMeta(p) ==
  /\ At(p, "meta")
  /\ entries' = [entries EXCEPT ![next].meta = arg[p]]
  /\ Goto(p, "next")
  /\ UNCHANGED <<notByLog, callVars, next, mutex, hist, overran>>

\* Mutant: a return that forgets the unlock.
Unlocked_Forgotten == mutex

Unlocked == {}

\* ++_next with its wrap, the unlock, return LOG_SUCCESS.
Publish(p) ==
  /\ At(p, "next")
  /\ next' = Advance(next)
  /\ mutex' = Unlocked
  /\ hist' = Append(hist, arg[p])
  /\ overran' = (overran \/ Pending + 1 >= EntriesNum)
  /\ Goto(p, "idle")
  /\ UNCHANGED <<notByLog, callVars, entries>>

\* destroy() has freed the logger under a call, or before it, for instance()
\* still returns the old pointer: undefined.  The build crashes, or returns
\* one of the codes without a record being written, or hangs on the mutex it
\* destroyed.  So nothing says that this step is ever taken (see Fairness).
CallFreed(p) ==
  /\ Alive /\ freed
  /\ Goto(p, "idle")
  /\ process' \in {"running", "crashed"}
  /\ UNCHANGED <<state, level, callVars, ringVars, workerVars>>
  /\ UNCHANGED <<freed, shut, cut>>

-----------------------------------------------------------------------------
(* The application's other calls.                                          *)

SetLogLevel(l) ==
  /\ Alive /\ ~freed
  /\ level' = l
  /\ UNCHANGED <<state, producerVars, ringVars, workerVars, stopVars>>

\* shutdown() stores LASTCHANCE and returns; nothing joins the worker.
Shutdown ==
  /\ Alive /\ ~freed /\ ~shut
  /\ state' = LOG_STATE_LASTCHANCE
  /\ shut' = TRUE /\ cut' = Len(hist)
  /\ UNCHANGED <<level, producerVars, ringVars, workerVars, freed, process>>

\* main() returns, as test/main.cpp does, while the threads run.
Exit ==
  /\ Alive
  /\ process' = "exited"
  /\ UNCHANGED <<state, workerVars, notByWorker>>

-----------------------------------------------------------------------------
(* The worker: _log_worker().                                              *)

WorkerAt(label) == Alive /\ wpc = label

WorkerStart ==
  /\ WorkerAt("start")
  /\ state' = LOG_STATE_RUN    \* whatever it was
  /\ wpc' = "state"
  /\ UNCHANGED <<notByWorker, process, written, file, size, count, out>>

WorkerCheckState ==
  /\ WorkerAt("state")
  /\ wpc' = IF state = LOG_STATE_LASTCHANCE THEN "last" ELSE "empty"
  /\ UNCHANGED <<notByWorker, process, state, written, file, size, count, out>>

\* Mutant: the wait for a record does not look at _state again.
WhenEmpty_Waits == "empty"

\* usleep and continue.
WhenEmpty == "state"

WorkerCheckEmpty ==
  /\ WorkerAt("empty")
  /\ wpc' = IF IsEmpty THEN WhenEmpty ELSE "batch"
  /\ UNCHANGED <<notByWorker, process, state, written, file, size, count, out>>

\* One fprintf, of the batch or of the last chance: crashes on a NULL file.
PrintLine(nextLabel) ==
  /\ \/ /\ file = "open"
        /\ out' = Append(out, entries[written])
        /\ size' = size + 1
        /\ wpc' = nextLabel
        /\ UNCHANGED process
     \/ /\ file = "null"
        /\ process' = "crashed"
        /\ UNCHANGED <<out, size, wpc>>
  /\ UNCHANGED <<notByWorker, state, written, file>>

WorkerPrint ==
  /\ WorkerAt("batch") /\ ~IsEmpty /\ count < EntryMax
  /\ count' = count + 1
  /\ PrintLine("bump")

\* ++_written with its wrap.
WorkerBump ==
  /\ Alive
  /\ \/ wpc = "bump" /\ wpc' = "batch"
     \/ wpc = "lastBump" /\ wpc' = "last"
  /\ written' = Advance(written)
  /\ UNCHANGED <<notByWorker, process, state, file, size, count, out>>

\* Mutant: count is not reset after the batch.
CountAfterBatch_Kept == count

CountAfterBatch == 0

\* The batch is over: fflush, count = 0.
WorkerFlush ==
  /\ WorkerAt("batch") /\ (IsEmpty \/ count >= EntryMax)
  /\ count' = CountAfterBatch
  /\ wpc' = "split"
  /\ UNCHANGED <<notByWorker, process, state, written, file, size, out>>

\* split_log(): from __100MB on the file is renamed and opened anew; when
\* fopen fails _log_file stays NULL, and fileno(NULL) crashes.
WorkerSplit ==
  /\ WorkerAt("split")
  /\ \/ /\ file = "open" /\ (size < RotateAt \/ FileOpsMayFail)
        /\ wpc' = "state"
        /\ UNCHANGED <<file, size, process>>
     \/ /\ file = "open" /\ size >= RotateAt
        /\ wpc' = "state"
        /\ size' = 0 /\ file' \in OpenResults
        /\ UNCHANGED process
     \/ /\ file = "null"
        /\ process' = "crashed"
        /\ UNCHANGED <<file, size, wpc>>
  /\ UNCHANGED <<notByWorker, state, written, count, out>>

\* The last chance: print what is left, without a limit.
WorkerLastPrint ==
  /\ WorkerAt("last") /\ ~IsEmpty
  /\ UNCHANGED count
  /\ PrintLine("lastBump")

\* Mutant: the last chance is not taken.
NothingLeft_Assumed == TRUE

NothingLeft == IsEmpty

WorkerStop ==
  /\ WorkerAt("last") /\ NothingLeft
  /\ state' = LOG_STATE_STOPPED
  /\ wpc' = "destroy"
  /\ UNCHANGED <<notByWorker, process, written, file, size, count, out>>

\* destroy(): the slots, the file, the mutex and the instance are gone.
WorkerDestroy ==
  /\ WorkerAt("destroy")
  /\ freed' = TRUE
  /\ wpc' = "end"
  /\ UNCHANGED <<state, level, producerVars, ringVars, written, file, size>>
  /\ UNCHANGED <<count, out, process, shut, cut>>

-----------------------------------------------------------------------------
ProducerStep(p) ==
  \/ CheckState(p) \/ CheckFull(p) \/ Lock(p)
  \/ FillBuff(p) \/ FillMeta(p) \/ Publish(p)

Worker ==
  \/ WorkerStart \/ WorkerCheckState \/ WorkerCheckEmpty
  \/ WorkerPrint \/ WorkerBump \/ WorkerFlush \/ WorkerSplit
  \/ WorkerLastPrint \/ WorkerStop \/ WorkerDestroy

Next ==
  \/ \E p \in Producers :
       ProducerStep(p) \/ CallFreed(p) \/ \E api \in Apis : Call(p, api)
  \/ \E l \in Levels : SetLogLevel(l)
  \/ Shutdown
  \/ Exit
  \/ Worker

Spec == Init /\ [][Next]_vars

\* The kernel lets each thread go on while it can.  A mutex need not be handed
\* to its oldest waiter, so Lock gets no more than weak fairness; nothing
\* makes the application call anything, or a call on a freed logger return.
Fairness == WF_vars(Worker) /\ \A p \in Producers : WF_vars(ProducerStep(p))

FairSpec == Spec /\ Fairness

-----------------------------------------------------------------------------
(* Properties.                                                             *)

ProducerLabels == {"idle", "state", "full", "lock", "buff", "meta", "next"}
WorkerLabels   == {"start", "state", "empty", "batch", "bump", "split",
                   "last", "lastBump", "destroy", "end"}

\* Type correctness of the logger's state.
TypeOK ==
  /\ state \in LOG_STATE_INIT .. LOG_STATE_STOPPED
  /\ level \in LOG_PRI_CRIT .. LOG_PRI_TRACE
  /\ entries \in [Slots -> Entries]
  /\ next \in Slots /\ written \in Slots
  /\ mutex \in SUBSET Producers
  /\ file \in {"open", "null"}
  /\ size \in Nat
  /\ freed \in BOOLEAN
  /\ process \in {"running", "crashed", "exited"}
  /\ pc \in [Producers -> ProducerLabels]
  /\ arg \in [Producers -> Calls \cup {NoCall}]
  /\ done \in [Producers -> 0 .. MaxCalls]
  /\ wpc \in WorkerLabels
  /\ count \in Nat
  /\ shut \in BOOLEAN
  /\ seen \in [Producers -> Nat]
  /\ hist \in Seq(Calls) /\ out \in Seq(Entries)
  /\ overran \in BOOLEAN
  /\ cut \in Nat

\* Until the ring is overrun, the log file holds exactly the accepted records,
\* in the order log() accepted them, each line with the text and the stamp of
\* one call: none lost, doubled, reordered or torn between two calls.
FifoUntilOverrun ==
  ~overran => /\ Len(out) <= Len(hist)
              /\ \A i \in 1 .. Len(out) : out[i] = LineOf(hist[i])

\* The ring is overrun (_next catches up with _written, and everything in the
\* ring is forgotten) only by a log() whose unlocked is_full() has become
\* stale: another record went in between its test and its ++_next.
OverrunOnlyWhenStale ==
  [][~overran /\ overran' =>
       \E p \in Producers : pc[p] = "next" /\ seen[p] < Len(hist)]_vars

\* So with one thread calling log() the ring never takes more than
\* _entries_num - 1 records that are not yet written.
NoOverrun == ~overran /\ Pending < EntriesNum

\* The worker reads slots without the mutex: until an overrun the slot it
\* prints is never the one a producer is filling.
NoSlotShared ==
  \A p \in Producers :
    /\ ~overran /\ pc[p] \in {"buff", "meta", "next"}
    /\ wpc \in {"batch", "bump", "last", "lastBump"} /\ Drained < Len(hist)
    => next # written

\* Whatever was accepted before shutdown() was called is in the file when the
\* worker declares the logger stopped, unless the ring was overrun.
DrainedBeforeStop ==
  wpc \in {"destroy", "end"} /\ ~overran => Len(out) >= cut

\* A shutdown() that the worker's first store does not overwrite is honoured:
\* the ring is drained and freed, unless the process ends before.
ShutdownHonoured ==
  shut /\ wpc # "start" /\ state = LOG_STATE_LASTCHANCE ~> freed \/ ~Alive

\* Every accepted record is written in the end, unless the ring is overrun,
\* the logger is freed or the process ends.
AcceptedWritten ==
  \A n \in 1 .. MaxCalls * Cardinality(Producers) :
    Len(hist) >= n ~> Len(out) >= n \/ overran \/ freed \/ ~Alive

\* log() returns: with finitely many calls in the other threads no caller
\* waits for ever for the mutex, and the mutex is never left locked, unless
\* the worker frees the logger under the call or the process ends.
LogReturns ==
  \A p \in Producers :
    pc[p] # "idle" ~> pc[p] = "idle" \/ freed \/ ~Alive

\* What the logger promises as long as the ring is not overrun.
Service == INSTANCE LogService WITH
  Records  <- Calls,
  Capacity <- EntriesNum - 1,
  accepted <- hist,
  store    <- out,
  phase    <- IF freed THEN "stopped" ELSE IF shut THEN "closing" ELSE "open",
  sealed   <- cut

\* Until the ring is overrun every step of any number of logging threads, of
\* the worker and of shutdown() is a step of the service: log() accepts no more
\* than the ring can hold, the lines are stored whole and in order, and the
\* logger stops only when what came before shutdown() is stored.
ServiceUntilOverrun ==
  [][overran' \/ Service!Next \/ UNCHANGED Service!vars]_vars

\* With one logging thread the ring, the worker and the rotation implement
\* the service: bounded, in order, whole, and drained before it stops.
ImplementsService == Service!Spec
=============================================================================
