---------------------------- MODULE AgentMaster -----------------------------
(***************************************************************************)
(* linux/daemon/master.c: a daemon that keeps proc_num agent processes     *)
(* running.  A lock file admits one master; its main loop forks an agent   *)
(* for every slot whose flag is 0 and sleeps; its SIGCHLD handler reaps    *)
(* the dead and clears the flag of the slot that holds their pid.          *)
(*                                                                         *)
(* The handler runs between any two steps of main(), as a signal does; all *)
(* it does is one action.  Fork, the store of the pid and the store of the *)
(* flag are separate steps, because the child lives already.  The kernel's *)
(* part (process table, pending SIGCHLD, who holds the lock file open) is  *)
(* modelled as the code uses it.                                           *)
(***************************************************************************)
EXTENDS Integers, FiniteSets

CONSTANTS
  MaxPid,      \* bound: processes ever created
  MaxProc,     \* MAX_PROC: length of agents[], whose slot 0 is not used
  ProcNums,    \* the values of -n the user gives
  StartLimit,  \* the 50 of start_process()
  ResetStarts  \* what reset_proc() may find in its uninitialised i

ASSUME ConstantsAssumption ==
  /\ MaxPid \in Nat \ {0}
  /\ MaxProc \in Nat \ {0}
  /\ ProcNums \subseteq 1 .. MaxProc - 1
  /\ StartLimit \in Nat
  /\ ResetStarts \subseteq Nat

Pids  == 1 .. MaxPid
NoPid == 0                    \* as bzero leaves agents[i].pid; init's children
Slots == 1 .. MaxProc - 1

\* agent_proc_t, and the memory of a process that runs master's code: its
\* agents[], proc_num, where main() is, its i and the result of its fork().
EmptyTable == [i \in Slots |-> [flag |-> 0, pid |-> NoPid]]

VARIABLES
  role,     \* "none", "master", "forked" (before execl), "agent", "zombie"
  parent,   \* NoPid once init has adopted the process
  job,      \* the slot a child was forked for
  num,      \* proc_num
  tab,      \* procs.agents
  pc,       \* "scan", "log", "fork", "storePid", "storeFlag", "sleep", "stuck"
  idx,      \* i of main()
  child,    \* the pid fork() gave start_process()
  pending,  \* the masters with a SIGCHLD to handle
  lock,     \* the processes that hold the locked file open
  nextPid,  \* pids are handed out in turn and do not come back
  early     \* history: <<m, i>> whose child was reaped before flag = 1

kernelVars == <<role, parent, job, pending, lock, nextPid>>
masterVars == <<num, tab, pc, idx, child>>
vars == <<kernelVars, masterVars, early>>

\* Masters, and those among them that a launch made: the others are children
\* whose execl() has failed.
Masters  == {m \in Pids : role[m] = "master"}
Launched == {m \in Masters : job[m] = 0}

Zombies(m) == {q \in Pids : parent[q] = m /\ role[q] = "zombie"}
Storing(m, i) == pc[m] \in {"storePid", "storeFlag"} /\ idx[m] = i

Init ==
  /\ role = [q \in Pids |-> "none"]
  /\ parent = [q \in Pids |-> NoPid] /\ job = [q \in Pids |-> 0]
  /\ num = [q \in Pids |-> 0] /\ tab = [q \in Pids |-> EmptyTable]
  /\ pc = [q \in Pids |-> "scan"] /\ idx = [q \in Pids |-> 1]
  /\ child = [q \in Pids |-> NoPid]
  /\ pending = {} /\ lock = {} /\ nextPid = 1
  /\ early = {}

-----------------------------------------------------------------------------
\* A process q ends: its children pass to init, its parent gets SIGCHLD, its
\* descriptors are closed.
Gone(q) ==
  /\ role' = [r \in Pids |->
       IF r = q THEN IF parent[q] = NoPid THEN "none" ELSE "zombie"
       ELSE IF r \in Zombies(q) THEN "none" ELSE role[r]]
  /\ parent' = [r \in Pids |-> IF parent[r] = q THEN NoPid ELSE parent[r]]
  /\ pending' = (pending \cup ({parent[q]} \ {NoPid})) \ {q}
  /\ lock' = lock \ {q}

\* Mutant: flock() is not asked.
LockFree_Assumed == TRUE
\* Mutant: execl() closes the lock file (FD_CLOEXEC).
LockFree_Closed == lock \cap Masters = {}

\* flock(LOCK_EX | LOCK_NB) succeeds: nobody holds the file open and locked.
LockFree == lock = {}

\* ./master -n n: fork, setsid, lock_check(), then the tables.
Launch(n) ==
  /\ nextPid <= MaxPid
  /\ nextPid' = nextPid + 1
  /\ IF LockFree
     THEN /\ role' = [role EXCEPT ![nextPid] = "master"]
          /\ num' = [num EXCEPT ![nextPid] = n]
          /\ lock' = {nextPid}
     ELSE UNCHANGED <<role, num, lock>>
  /\ UNCHANGED <<parent, job, tab, pc, idx, child, pending, early>>

MasterAt(m, label) == role[m] = "master" /\ pc[m] = label
Goto(m, label) == pc' = [pc EXCEPT ![m] = label]

\* The for loop of main(): the next slot whose flag is 0, then sleep(5).
Scan(m) ==
  /\ MasterAt(m, "scan")
  /\ IF idx[m] > num[m] THEN Goto(m, "sleep") /\ UNCHANGED idx
     ELSE IF tab[m][idx[m]].flag = 0 THEN Goto(m, "log") /\ UNCHANGED idx
     ELSE idx' = [idx EXCEPT ![m] = @ + 1] /\ UNCHANGED pc
  /\ UNCHANGED <<kernelVars, num, tab, child, early>>

\* Mutant: the scan begins where the last one ended.
ScanFrom_Here(m) == idx[m]

ScanFrom(m) == 1

\* sleep(5) is over, or a signal ended it.
Wake(m) ==
  /\ MasterAt(m, "sleep")
  /\ Goto(m, "scan")
  /\ idx' = [idx EXCEPT ![m] = ScanFrom(m)]
  /\ UNCHANGED <<kernelVars, num, tab, child, early>>

\* start_process(): "log" is inside log_info(), with _log_mutex held.
StartLogged(m) ==
  /\ MasterAt(m, "log") /\ idx[m] <= StartLimit
  /\ Goto(m, "fork")
  /\ UNCHANGED <<kernelVars, num, tab, idx, child, early>>

\* start_process() returns -1, or fork() fails: exit(EXIT_FAILURE).
StartFails(m) ==
  /\ \/ MasterAt(m, "log") /\ idx[m] > StartLimit
     \/ MasterAt(m, "fork")
  /\ Gone(m)
  /\ UNCHANGED <<job, nextPid, masterVars, early>>

\* fork(): the child has a copy of the master's memory and descriptors.
Fork(m) ==
  /\ MasterAt(m, "fork") /\ nextPid <= MaxPid
  /\ nextPid' = nextPid + 1
  /\ role' = [role EXCEPT ![nextPid] = "forked"]
  /\ parent' = [parent EXCEPT ![nextPid] = m]
  /\ job' = [job EXCEPT ![nextPid] = idx[m]]
  /\ lock' = lock \cup (IF m \in lock THEN {nextPid} ELSE {})
  /\ num' = [num EXCEPT ![nextPid] = num[m]]
  /\ tab' = [tab EXCEPT ![nextPid] = tab[m]]
  /\ child' = [child EXCEPT ![m] = nextPid]
  /\ Goto(m, "storePid")
  /\ UNCHANGED <<idx, pending, early>>

StorePid(m) ==
  /\ MasterAt(m, "storePid")
  /\ tab' = [tab EXCEPT ![m][idx[m]].pid = child[m]]
  /\ Goto(m, "storeFlag")
  /\ UNCHANGED <<kernelVars, num, idx, child, early>>

StoreFlag(m) ==
  /\ MasterAt(m, "storeFlag")
  /\ tab' = [tab EXCEPT ![m][idx[m]].flag = 1]
  /\ Goto(m, "scan")
  /\ idx' = [idx EXCEPT ![m] = @ + 1]
  /\ UNCHANGED <<kernelVars, num, child, early>>

\* The child becomes the agent; the lock file stays open across execl().
Exec(q) ==
  /\ role[q] = "forked"
  /\ role' = [role EXCEPT ![q] = "agent"]
  /\ UNCHANGED <<parent, job, pending, lock, nextPid, masterVars, early>>

\* execl() returns: nothing ends the child, which stores pid 0 and flag 1 in
\* its copy and goes on in main()'s loop.
ExecFails(q) ==
  /\ role[q] = "forked"
  /\ role' = [role EXCEPT ![q] = "master"]
  /\ tab' = [tab EXCEPT ![q][job[q]] = [flag |-> 1, pid |-> 0]]
  /\ idx' = [idx EXCEPT ![q] = job[q] + 1]
  /\ UNCHANGED <<parent, job, pending, lock, nextPid, num, pc, child, early>>

\* Mutants: the pid is not compared; the loop ends before the last slot.
Cleared_AnyPid(m, dead, start) == IF dead = {} THEN {} ELSE 1 .. num[m]
Cleared_Short(m, dead, start) ==
  {i \in 1 .. num[m] - 1 :
     \E z \in dead : tab[m][i].pid = z /\ start[z] <= i}

\* reset_proc(pid): the slots cleared when the processes in dead are reaped,
\* start[z] being what i holds when the loop looks for z.
Cleared(m, dead, start) ==
  {i \in 1 .. num[m] :
     \E z \in dead : tab[m][i].pid = z /\ start[z] <= i}

\* Mutant: one waitpid() for each signal.
AllReaped_One(m, dead) == dead \subseteq Zombies(m) /\ Cardinality(dead) = 1

\* The loop of waitpid(WNOHANG).
AllReaped(m, dead) == dead = Zombies(m)

\* sigchld_handler(): reap every dead child.  It logs each one; when it has
\* interrupted log_info() it waits for the mutex its own process holds.
Sigchld(m) ==
  /\ role[m] = "master" /\ pc[m] # "stuck" /\ m \in pending
  /\ pending' = pending \ {m}
  /\ \E dead \in SUBSET Zombies(m) : \E start \in [dead -> ResetStarts] :
       /\ IF pc[m] = "log" /\ Zombies(m) # {}
          THEN (\E z \in Zombies(m) : dead = {z}) /\ Goto(m, "stuck")
          ELSE AllReaped(m, dead) /\ UNCHANGED pc
       /\ role' = [q \in Pids |-> IF q \in dead THEN "none" ELSE role[q]]
       /\ tab' = [tab EXCEPT ![m] = [i \in Slots |->
            IF i \in Cleared(m, dead, start)
            THEN [tab[m][i] EXCEPT !.flag = 0] ELSE tab[m][i]]]
       /\ early' = early \cup
            {<<m, job[q]>> : q \in {z \in dead : Storing(m, job[z])}}
  /\ UNCHANGED <<parent, job, lock, nextPid, num, idx, child>>

\* An agent, a child that has not come to execl() yet or a master is killed,
\* or ends by itself.
Die(q) ==
  /\ role[q] \in {"agent", "forked", "master"}
  /\ Gone(q)
  /\ UNCHANGED <<job, nextPid, masterVars, early>>

-----------------------------------------------------------------------------
MasterStep(m) ==
  \/ Scan(m) \/ Wake(m) \/ StartLogged(m) \/ StartFails(m) \/ Fork(m)
  \/ StorePid(m) \/ StoreFlag(m)

Next ==
  \/ \E n \in ProcNums : Launch(n)
  \/ \E q \in Pids : MasterStep(q) \/ Sigchld(q) \/ Exec(q) \/ ExecFails(q)
                     \/ Die(q)

Spec == Init /\ [][Next]_vars

\* The kernel runs every process and delivers its signals; nobody has to die.
FairSpec ==
  /\ Spec
  /\ \A q \in Pids : /\ WF_vars(MasterStep(q)) /\ WF_vars(Sigchld(q))
                     /\ WF_vars(Exec(q))

-----------------------------------------------------------------------------
(* Properties.                                                             *)

\* Type correctness of the process table and of the masters' memory.
TypeOK ==
  /\ role \in [Pids -> {"none", "master", "forked", "agent", "zombie"}]
  /\ parent \in [Pids -> Pids \cup {NoPid}]
  /\ job \in [Pids -> Slots \cup {0}]
  /\ num \in [Pids -> ProcNums \cup {0}]
  /\ tab \in [Pids -> [Slots -> [flag : {0, 1}, pid : Pids \cup {NoPid}]]]
  /\ pc \in [Pids -> {"scan", "log", "fork", "storePid", "storeFlag", "sleep",
                      "stuck"}]
  /\ idx \in [Pids -> Nat \ {0}]
  /\ child \in [Pids -> Pids \cup {NoPid}]
  /\ pending \subseteq Pids /\ lock \subseteq Pids
  /\ nextPid \in 1 .. MaxPid + 1
  /\ early \subseteq Pids \X Slots

Running(q) == role[q] \in {"forked", "agent"}

\* lock_check() admits one master: two launches never both run, whatever their
\* children hold open and however masters die.
OneLaunched == \A m, n \in Launched : m = n

\* A master never runs two agents for one slot, however deaths, signals and
\* restarts fall together.
OneAgentPerSlot ==
  \A q, r \in Pids :
    Running(q) /\ Running(r) /\ parent[q] = parent[r] /\ parent[q] # NoPid
      /\ job[q] = job[r] => q = r

\* A child whose execl() has failed: in its copy of the table it has stored a
\* flag and the 0 that its fork() returned, at its own slot and for good.
Turned(q) ==
  job[q] # 0 /\ tab[q][job[q]] = [flag |-> 1, pid |-> NoPid]

AgentsFor == [i \in Slots |-> {q \in Pids : Running(q) /\ job[q] = i}]

Service ==
  INSTANCE AgentService WITH up <- Launched # {}, agents <- AgentsFor

\* Until an execl() fails, and a child becomes a master with agents of its own,
\* every step is one of the abstract service: across deaths and new launches a
\* slot has one agent on the whole host, since the agents that a dead master
\* leaves behind keep its lock.
ServiceUntilTurned ==
  [][(\E q \in Pids : Turned(q))' \/ UNCHANGED Service!vars
     \/ Service!Next]_vars

\* A dead agent whose slot still says "running", and whom no signal will
\* announce any more, was reaped before start_process() had stored its flag.
\* (A child whose execl() has failed is a master that lists others' agents.)
LostOnlyEarly ==
  \A m \in Launched, i \in Slots :
    /\ tab[m][i].flag = 1 /\ tab[m][i].pid # NoPid
    /\ role[tab[m][i].pid] = "none"
    => <<m, i>> \in early

\* No death is forgotten by the kernel's signals: where there is a zombie its
\* master, if it lives, has a SIGCHLD to handle or is stuck in the handler.
DeathsAnnounced ==
  \A m \in Masters : Zombies(m) # {} => m \in pending \/ pc[m] = "stuck"

\* A recorded agent that dies is replaced, unless its master dies or has
\* blocked itself in the handler's log_error().
RecordedRestarted ==
  \A q \in Pids :
    /\ role[q] = "zombie" /\ parent[q] \in Masters
    /\ tab[parent[q]][job[q]] = [flag |-> 1, pid |-> q]
    /\ ~Storing(parent[q], job[q])
    ~> \/ \E r \in Pids : r > q /\ job[r] = job[q] /\ parent[r] = parent[q]
       \/ parent[q] \notin Masters \/ pc[parent[q]] = "stuck"
       \/ nextPid > MaxPid

\* "restart monitored process if it dies" (master.c:7): what the header says.
DeadRestarted ==
  \A q \in Pids :
    role[q] = "zombie" /\ parent[q] \in Masters
    ~> \/ \E r \in Pids : r > q /\ job[r] = job[q] /\ parent[r] = parent[q]
       \/ parent[q] \notin Masters \/ nextPid > MaxPid
=============================================================================
