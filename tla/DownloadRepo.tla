---------------------------- MODULE DownloadRepo -----------------------------
(***************************************************************************)
(* python/remote_file_operation/download.cpp: threads ("callers") put      *)
(* tasks into a ring, the task repository, and block on a System V         *)
(* semaphore until the one download thread has called Python for them.     *)
(* download_file() and init_ssh_connection() differ in the type of their   *)
(* task only (the latter has no return statement, so its ret is lost).     *)
(*                                                                         *)
(* A caller's critical section is one action: nobody else touches what it  *)
(* writes without the mutex except ret_msg, which it stores once.  The     *)
(* download thread keeps the mutex while Python runs, so its critical      *)
(* section is two.  Semaphores belong to the kernel and are modelled as    *)
(* the code uses them.                                                     *)
(***************************************************************************)
EXTENDS Integers, Sequences, FiniteSets

CONSTANTS
  Callers,     \* threads that call download_file(), init_ssh_connection()
  RepoSize,    \* repository_size: length of the ring
  KeyCount,    \* MAX_SEM - sem_key_start: semaphore keys in turn
  MaxCalls,    \* bound: calls of one caller
  Types,       \* which of CMD_DOWNLOAD, CMD_INIT are used
  PyMayRaise,  \* whether a Python call may end in an exception
  Unknown      \* UNKNOWN: the ret_msg of a task that has no result yet

Tasks == [by : Callers, no : 1 .. MaxCalls, type : {"download", "init"}]

ASSUME ConstantsAssumption ==
  /\ RepoSize \in Nat \ {0, 1}
  /\ KeyCount \in Nat \ {0}
  /\ MaxCalls \in Nat
  /\ Types \subseteq {"download", "init"}
  /\ PyMayRaise \in BOOLEAN
  /\ Unknown \notin Tasks

\* The code has as many keys as positions: a key comes round no later than its
\* position does.
ASSUME KeysAssumption == KeyCount <= RepoSize

Positions == 0 .. RepoSize - 1
Keys      == 0 .. KeyCount - 1
NoSem     == 0
Gone      == -1      \* the value of a semaphore that does not exist
NoTask    == Unknown

\* ssh_rlf_msg_t: the task's parameters, its ret_msg (the result of a task
\* stands for itself) and its sem_id.
Messages == [task : Tasks \cup {NoTask}, ret : Tasks \cup {Unknown}, sem : Nat]

VARIABLES
  buffer,    \* tr.params_buffer
  read,      \* tr.read_position
  write,     \* tr.write_position
  mutex,     \* tr.mtx is held between two steps: by the download thread
  status,    \* dl_thread_status
  key,       \* c_sem_key
  semOf,     \* the semaphore a key names
  semVal,    \* values of the semaphores created so far
  wpc,       \* where download_thread() is
  wsem,      \* its sem_id
  pc,        \* where each caller is
  arg,       \* the task of its call
  cpos,      \* its cpos
  sem,       \* its sem_id
  ret,       \* its ret
  calls,     \* calls each caller has begun
  accepted,  \* history: the tasks put into the ring, in order
  nth,       \* history: Len(accepted) when the caller's task went in
  served,    \* history: the tasks Python has answered, in order
  lapped,    \* history: write_position has caught up with read_position
  shared,    \* history: a task was given a semaphore of a call not over yet
  erased     \* history: callers on whose semaphore SETVAL wiped out a V

repoVars   == <<buffer, read, write>>
semVars    == <<key, semOf, semVal>>
workerVars == <<wpc, wsem, status>>
callVars   == <<arg, cpos, sem, calls, nth>>
histVars   == <<accepted, served, lapped, shared>>
vars == <<repoVars, mutex, semVars, workerVars, pc, callVars, ret, histVars,
          erased>>

Init ==
  /\ buffer = [i \in Positions |->
                 [task |-> NoTask, ret |-> Unknown, sem |-> NoSem]]
  /\ read = 0 /\ write = 0 /\ mutex = FALSE /\ status = FALSE
  /\ key = 0 /\ semOf = [k \in Keys |-> NoSem] /\ semVal = <<>>
  /\ wpc = "start" /\ wsem = NoSem
  /\ pc = [p \in Callers |-> "idle"] /\ arg = [p \in Callers |-> NoTask]
  /\ cpos = [p \in Callers |-> 0] /\ sem = [p \in Callers |-> NoSem]
  /\ ret = [p \in Callers |-> Unknown] /\ calls = [p \in Callers |-> 0]
  /\ accepted = <<>> /\ nth = [p \in Callers |-> 0] /\ served = <<>>
  /\ lapped = FALSE /\ shared = FALSE /\ erased = {}

-----------------------------------------------------------------------------
(* The ring and the semaphores.                                            *)

IsEmpty == write = read

\* Mutant: the positions are swapped.
IsFull_Swapped == read + (1 % RepoSize) = write

\* write_position + 1 % repository_size == read_position: % binds first, so
\* the test is wrong at the last position.
IsFull == write + (1 % RepoSize) = read

\* Mutant: the last task put in is the first one taken.
Oldest_Last == IF write = 0 THEN RepoSize - 1 ELSE write - 1

\* The position the download thread works at.
Oldest == read

\* Mutant: the ring turns one position early.
Advance_Early(i) == IF i + 2 >= RepoSize THEN 0 ELSE i + 1

Advance(i) == IF i + 1 >= RepoSize THEN 0 ELSE i + 1

\* Mutant: every task gets the semaphore of the first key.
KeyAfter_Same == key

KeyAfter == (key + 1) % KeyCount

\* semget(IPC_CREAT): the semaphore the key names, or a new one, whose value
\* is 0.
SemGot == IF semOf[key] = NoSem THEN Len(semVal) + 1 ELSE semOf[key]

CreateSem ==
  /\ key' = KeyAfter
  /\ semOf' = [semOf EXCEPT ![key] = SemGot]
  /\ semVal' = IF semOf[key] = NoSem THEN Append(semVal, 0) ELSE semVal

Goto(p, label) == pc' = [pc EXCEPT ![p] = label]

InCall(p) == pc[p] \in {"set", "p", "ret", "del", "spin"}

\* The callers that use a semaphore: more than one once keys come round.
Users(s) == {p \in Callers : InCall(p) /\ sem[p] = s}

-----------------------------------------------------------------------------
(* Callers.                                                                *)

\* The check of dl_thread_status; the call is refused with FAIL.
Call(p, type) ==
  /\ pc[p] = "idle" /\ calls[p] < MaxCalls
  /\ calls' = [calls EXCEPT ![p] = @ + 1]
  /\ arg' = [arg EXCEPT ![p] = [by |-> p, no |-> calls[p] + 1, type |-> type]]
  /\ erased' = erased \ {p}
  /\ Goto(p, IF status THEN "lock" ELSE "idle")
  /\ UNCHANGED <<repoVars, mutex, semVars, workerVars, cpos, sem, nth, ret,
                 histVars>>

\* The buffer is full: pthread_cond_wait(repo_not_full).
WaitNotFull(p) ==
  /\ pc[p] = "lock" /\ ~mutex /\ IsFull
  /\ Goto(p, "notFull")
  /\ UNCHANGED <<repoVars, mutex, semVars, workerVars, callVars, ret,
                 histVars, erased>>

\* Mutant: the signal goes to the other condition variable.
Signalled_Nobody == wpc

\* pthread_cond_signal(repo_not_empty).
Signalled == IF wpc = "notEmpty" THEN "take" ELSE wpc

\* The critical section: fill the message, create_semid(), ++write_position,
\* signal, unlock.
Enqueue(p) ==
  /\ pc[p] = "lock" /\ ~mutex /\ ~IsFull
  /\ CreateSem
  /\ buffer' = [buffer EXCEPT ![write] =
                  [task |-> arg[p], ret |-> Unknown, sem |-> SemGot]]
  /\ sem' = [sem EXCEPT ![p] = SemGot]
  /\ cpos' = [cpos EXCEPT ![p] = write]
  /\ write' = Advance(write)
  /\ wpc' = Signalled
  /\ accepted' = Append(accepted, arg[p])
  /\ nth' = [nth EXCEPT ![p] = Len(accepted) + 1]
  /\ lapped' = (lapped \/ Advance(write) = read)
  /\ shared' = (shared \/ Users(SemGot) # {})
  /\ Goto(p, "set")
  /\ UNCHANGED <<read, mutex, wsem, status, arg, calls, ret, served, erased>>

\* set_semvalue(): SETVAL 0, which fails when the semaphore is gone.
SetSemvalue(p) ==
  /\ pc[p] = "set"
  /\ IF semVal[sem[p]] = Gone
     THEN Goto(p, "spin") /\ UNCHANGED <<semVal, erased>>
     ELSE /\ semVal' = [semVal EXCEPT ![sem[p]] = 0]
          /\ erased' = IF semVal[sem[p]] > 0
                       THEN erased \cup Users(sem[p]) ELSE erased
          /\ Goto(p, "p")
  /\ UNCHANGED <<repoVars, mutex, key, semOf, workerVars, callVars, ret,
                 histVars>>

\* Mutant: semop() does not wait.
Passes_Always(s) == semVal[s] # Gone

Passes(s) == semVal[s] > 0

\* semaphore_p(): waits for a V; fails when the semaphore is removed.
SemaphoreP(p) ==
  /\ pc[p] = "p"
  /\ \/ /\ Passes(sem[p])
        /\ semVal' = [semVal EXCEPT ![sem[p]] = @ - 1]
        /\ Goto(p, "ret")
     \/ /\ semVal[sem[p]] = Gone
        /\ Goto(p, "spin")
        /\ UNCHANGED semVal
  /\ UNCHANGED <<repoVars, mutex, key, semOf, workerVars, callVars, ret,
                 histVars, erased>>

\* ret = ret_msg, read without the mutex.
ReadRet(p) ==
  /\ pc[p] = "ret"
  /\ ret' = [ret EXCEPT ![p] = buffer[cpos[p]].ret]
  /\ Goto(p, "del")
  /\ UNCHANGED <<repoVars, mutex, semVars, workerVars, callVars, histVars,
                 erased>>

\* del_semvalue(): IPC_RMID; the call returns.
DelSemvalue(p) ==
  /\ pc[p] = "del"
  /\ semVal' = [semVal EXCEPT ![sem[p]] = Gone]
  /\ semOf' = [k \in Keys |-> IF semOf[k] = sem[p] THEN NoSem ELSE semOf[k]]
  /\ Goto(p, "idle")
  /\ UNCHANGED <<repoVars, mutex, key, workerVars, callVars, ret, histVars,
                 erased>>

\* The busy loop of a caller whose semaphore has failed.
Spin(p) ==
  /\ pc[p] = "spin" /\ buffer[cpos[p]].ret # Unknown
  /\ ret' = [ret EXCEPT ![p] = buffer[cpos[p]].ret]
  /\ Goto(p, "idle")
  /\ UNCHANGED <<repoVars, mutex, semVars, workerVars, callVars, histVars,
                 erased>>

-----------------------------------------------------------------------------
(* The download thread.                                                    *)

\* Python is ready, or is not and the thread ends.  (Where it ends by an
\* uninitialised pModule it may take the process with it: no task has been
\* accepted either way.)
WorkerStart ==
  /\ wpc = "start"
  /\ \/ /\ read' = 0 /\ write' = 0 /\ status' = TRUE
        /\ wpc' = "take"
     \/ /\ wpc' = "error"
        /\ UNCHANGED <<read, write, status>>
  /\ UNCHANGED <<buffer, mutex, semVars, wsem, pc, callVars, ret, histVars,
                 erased>>

\* Nothing to do: pthread_cond_wait(repo_not_empty).
WorkerWait ==
  /\ wpc = "take" /\ ~mutex /\ IsEmpty
  /\ wpc' = "notEmpty"
  /\ UNCHANGED <<repoVars, mutex, semVars, wsem, status, pc, callVars, ret,
                 histVars, erased>>

WorkerTake ==
  /\ wpc = "take" /\ ~mutex /\ ~IsEmpty
  /\ mutex' = TRUE
  /\ wsem' = buffer[Oldest].sem
  /\ wpc' = "call"
  /\ UNCHANGED <<repoVars, semVars, status, pc, callVars, ret, histVars,
                 erased>>

\* Mutant: repo_not_full wakes nobody.
Woken_Nobody == pc

\* pthread_cond_broadcast(repo_not_full).
Woken == [p \in Callers |-> IF pc[p] = "notFull" THEN "lock" ELSE pc[p]]

\* Python answers: store ret_msg, ++read_position, broadcast, unlock.
WorkerAnswer ==
  /\ wpc = "call"
  /\ buffer' = [buffer EXCEPT ![Oldest].ret = buffer[Oldest].task]
  /\ read' = Advance(read)
  /\ served' = Append(served, buffer[Oldest].task)
  /\ pc' = Woken
  /\ mutex' = FALSE
  /\ wpc' = "v"
  /\ UNCHANGED <<write, semVars, wsem, status, callVars, ret, accepted,
                 lapped, shared, erased>>

\* PyObject_CallObject() returns NULL: the loop is left, by CMD_INIT without
\* unlocking.
WorkerRaise ==
  /\ wpc = "call" /\ PyMayRaise
  /\ mutex' = (buffer[Oldest].task.type = "init")
  /\ wpc' = "error"
  /\ UNCHANGED <<repoVars, semVars, wsem, status, pc, callVars, ret,
                 histVars, erased>>

\* semaphore_v(); a failure ends the thread.
WorkerV ==
  /\ wpc = "v"
  /\ IF semVal[wsem] = Gone
     THEN wpc' = "error" /\ UNCHANGED semVal
     ELSE /\ semVal' = [semVal EXCEPT ![wsem] = @ + 1]
          /\ wpc' = "take"
  /\ UNCHANGED <<repoVars, mutex, key, semOf, wsem, status, pc, callVars, ret,
                 histVars, erased>>

\* PY_ERROR: dl_thread_status = FAIL, pthread_exit().
WorkerEnd ==
  /\ wpc = "error"
  /\ status' = FALSE
  /\ wpc' = "end"
  /\ UNCHANGED <<repoVars, mutex, semVars, wsem, pc, callVars, ret, histVars,
                 erased>>

-----------------------------------------------------------------------------
CallerStep(p) ==
  \/ WaitNotFull(p) \/ Enqueue(p) \/ SetSemvalue(p) \/ SemaphoreP(p)
  \/ ReadRet(p) \/ DelSemvalue(p) \/ Spin(p)

Worker ==
  \/ WorkerStart \/ WorkerWait \/ WorkerTake \/ WorkerAnswer \/ WorkerRaise
  \/ WorkerV \/ WorkerEnd

Next ==
  \/ \E p \in Callers : CallerStep(p) \/ \E type \in Types : Call(p, type)
  \/ Worker

Spec == Init /\ [][Next]_vars

\* The kernel runs every thread that can go on; nobody has to make a call.
FairSpec ==
  Spec /\ WF_vars(Worker) /\ \A p \in Callers : WF_vars(CallerStep(p))

-----------------------------------------------------------------------------
(* Properties.                                                             *)

CallerLabels == {"idle", "lock", "notFull", "set", "p", "ret", "del", "spin"}
WorkerLabels == {"start", "take", "notEmpty", "call", "v", "error", "end"}

\* Type correctness of the repository, the semaphores and the threads.
TypeOK ==
  /\ buffer \in [Positions -> Messages]
  /\ read \in Positions /\ write \in Positions
  /\ mutex \in BOOLEAN /\ status \in BOOLEAN
  /\ key \in Keys
  /\ semVal \in Seq(Nat \cup {Gone})
  /\ semOf \in [Keys -> 0 .. Len(semVal)]
  /\ wpc \in WorkerLabels /\ wsem \in 0 .. Len(semVal)
  /\ pc \in [Callers -> CallerLabels]
  /\ arg \in [Callers -> Tasks \cup {NoTask}]
  /\ cpos \in [Callers -> Positions]
  /\ sem \in [Callers -> 0 .. Len(semVal)]
  /\ ret \in [Callers -> Tasks \cup {Unknown}]
  /\ calls \in [Callers -> 0 .. MaxCalls]
  /\ accepted \in Seq(Tasks) /\ served \in Seq(Tasks)
  /\ nth \in [Callers -> Nat]
  /\ lapped \in BOOLEAN /\ shared \in BOOLEAN /\ erased \subseteq Callers

\* Until write_position laps read_position, the tasks are answered in the
\* order they were accepted, each once, and the two positions tell how many
\* are left.
ServedInOrder ==
  ~lapped =>
    /\ Len(served) <= Len(accepted)
    /\ \A i \in 1 .. Len(served) : served[i] = accepted[i]
    /\ Len(accepted) - Len(served) = (write - read) % RepoSize

\* The test for a full ring fails at one place only: write_position is laid
\* upon read_position where the ring turns over.
LappedOnlyAtTurn ==
  [][~lapped /\ lapped' => write = RepoSize - 1 /\ read = 0]_vars

\* No call has been given the semaphore of another one that is not over, and
\* the ring has not been lapped.
Undisturbed == ~shared /\ ~lapped

\* "buffer is full (preparing for process) then wait here" (download.cpp:138):
\* with fewer callers than positions a full ring is never written, unless a
\* semaphore has been shared and a call has come back too early.
NeverLapped == lapped => shared

\* "semaphore id for current task" (download.h:47): two calls are on the same
\* semaphore only if KeyCount tasks have gone in between theirs, whoever has
\* removed which semaphores meanwhile.
SharedOnlyApart ==
  \A p, q \in Callers :
    p # q /\ InCall(p) /\ InCall(q) /\ sem[p] = sem[q]
    => nth[p] + KeyCount <= nth[q] \/ nth[q] + KeyCount <= nth[p]

\* The download thread finds the semaphore it has to post.
VNeverFails == Undisturbed /\ wpc = "v" => semVal[wsem] # Gone

\* Nobody sleeps through a wakeup: who waits for a task finds none, and who
\* waits for a position finds the ring full, also when positions are left and
\* taken between the signal and the mutex.
NoLostWakeup ==
  /\ wpc = "notEmpty" => IsEmpty
  /\ \A p \in Callers : pc[p] = "notFull" => IsFull

\* The task a caller waits for or has yet to read the result of.
Awaited == [p \in Callers |->
              IF pc[p] \in {"set", "p", "ret"} THEN nth[p] ELSE 0]

Service ==
  INSTANCE TaskService
  WITH Owner <- LAMBDA t : t.by, Size <- RepoSize, Blank <- Unknown,
       answered <- served, place <- Awaited, result <- ret

\* Until a call is given the semaphore of another one that is not over, or the
\* ring is lapped, every step of the callers and the download thread is a step
\* of the task service: tasks are answered in the order they were accepted,
\* one position stays free, and a call returns the answer of its own task,
\* with keys and positions coming round meanwhile.
ImplementsTasks ==
  /\ Service!Init
  /\ [][shared' \/ lapped' \/ Service!Next \/ UNCHANGED Service!vars]_vars

Returns(p) == pc[p] \in {"ret", "spin"} /\ pc'[p] \notin {"ret", "spin"}

\* download_file() returns the result of its own task.
OwnResultReturned ==
  [][\A p \in Callers : Undisturbed /\ Returns(p) => ret'[p] = arg[p]]_vars

Posted == Len(served) - (IF wpc = "v" THEN 1 ELSE 0)

\* What ReturnsUnless rests on: a caller for whose task semaphore_v() was
\* called finds its semaphore up until it passes, unless its own SETVAL came
\* later and wiped the V out.  Holds until a semaphore is shared or the ring
\* lapped, with keys coming round all the time.
VKept ==
  Undisturbed =>
    \A p \in Callers :
      pc[p] = "p" /\ nth[p] <= Posted => semVal[sem[p]] > 0 \/ p \in erased

\* A call returns, even when keys have come round and another call removes its
\* semaphore, unless a SETVAL has wiped out a V of that semaphore, or the
\* download thread has ended, or the ring was lapped.
ReturnsUnless ==
  \A p \in Callers :
    pc[p] # "idle" ~> pc[p] = "idle" \/ p \in erased \/ wpc = "end" \/ lapped

\* "wait until the task is finished" (download.cpp:157): a call whose task is
\* finished returns.
FinishedReturns ==
  \A p \in Callers :
    pc[p] = "p" /\ (\E i \in 1 .. Len(served) : served[i] = arg[p])
    ~> pc[p] # "p"
=============================================================================
