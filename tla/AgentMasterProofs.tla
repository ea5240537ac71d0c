-------------------------- MODULE AgentMasterProofs --------------------------
(***************************************************************************)
(* Proofs about AgentMaster, for every number of processes, slots and      *)
(* masters, and whatever fork() and execl() do.  LostOnlyEarly needs that  *)
(* reset_proc() begins at slot 1 or below; the others hold even where its  *)
(* uninitialised index may be anything.  FInv, at the end, is about all    *)
(* families at once: until an execl() has failed the agents on the host are *)
(* those of one master, which is the refinement of AgentService.           *)
(***************************************************************************)
EXTENDS AgentMaster, TLAPS

\* A pid that was never handed out has left no trace.
Fresh ==
  \A q \in Pids : q >= nextPid =>
    /\ role[q] = "none" /\ parent[q] = NoPid
    /\ pc[q] = "scan" /\ tab[q] = EmptyTable

\* Only masters have children.
Family == \A q \in Pids : parent[q] # NoPid => role[parent[q]] = "master"

\* What fork() leaves in a child.
Born ==
  \A q \in Pids :
    /\ Running(q) => job[q] \in Slots
    /\ role[q] = "forked" => pc[q] = "scan" /\ num[q] \in ProcNums

\* From its test of the flag to its store, the master is at a slot of its own
\* whose flag is 0.
Scanning ==
  \A m \in Masters :
    /\ num[m] \in ProcNums
    /\ pc[m] \in {"log", "fork", "storePid", "storeFlag"}
         => idx[m] <= num[m] /\ tab[m][idx[m]].flag = 0
    /\ pc[m] = "storeFlag" => tab[m][idx[m]].pid = child[m]

\* A running child is in its parent's table, or about to be.
Recorded ==
  \A q \in Pids :
    Running(q) /\ parent[q] # NoPid =>
      \/ tab[parent[q]][job[q]] = [flag |-> 1, pid |-> q]
      \/ Storing(parent[q], job[q]) /\ child[parent[q]] = q

\* Every launched master holds the lock file open.
LockHeld == \A m \in Launched : m \in lock

\* c is m's child for slot i, alive or not yet reaped, or was reaped early.
Kept(m, i, c) ==
  \/ c \in Pids /\ parent[c] = m /\ job[c] = i /\ role[c] # "none"
  \/ <<m, i>> \in early

\* The slot names such a child if it says "running", and so does the pid that
\* the master is about to store in it.
TrackedAt(m, i) ==
  /\ tab[m][i].flag = 1 => i <= num[m] /\ Kept(m, i, tab[m][i].pid)
  /\ Storing(m, i) => Kept(m, i, child[m])

Tracked ==
  ResetStarts \subseteq {0, 1} =>
    \A m \in Launched, i \in Slots : TrackedAt(m, i)

IInv ==
  /\ TypeOK /\ Fresh /\ Family /\ Born /\ Scanning /\ Recorded
  /\ DeathsAnnounced
  /\ LockHeld /\ OneLaunched /\ Tracked

-----------------------------------------------------------------------------
\* What the handler does, slot by slot and process by process: the slots of m
\* that named a dead child are cleared, unless the loop began above them.
Reaped(m, dead) ==
  /\ dead \subseteq Zombies(m)
  /\ role' = [q \in Pids |-> IF q \in dead THEN "none" ELSE role[q]]
  /\ tab' \in [Pids -> [Slots -> [flag : {0, 1}, pid : Pids \cup {NoPid}]]]
  /\ \A n \in Pids \ {m} : tab'[n] = tab[n]
  /\ \A i \in Slots :
       /\ tab'[m][i].pid = tab[m][i].pid
       /\ \/ tab'[m][i] = tab[m][i]
          \/ tab'[m][i].flag = 0 /\ tab[m][i].pid \in dead
       /\ ResetStarts \subseteq {0, 1} /\ i <= num[m] /\ tab[m][i].pid \in dead
            => tab'[m][i].flag = 0
  /\ early' = early \cup
       {<<m, job[q]>> : q \in {z \in dead : Storing(m, job[z])}}
  /\ \/ dead = Zombies(m) /\ pc' = pc
     \/ pc[m] = "log" /\ pc' = [pc EXCEPT ![m] = "stuck"]

-----------------------------------------------------------------------------
(* The initial state.                                                      *)

\* The next pid is a pid, as long as there is one.
LEMMA NextPid ==
  ASSUME TypeOK, nextPid <= MaxPid
  PROVE  nextPid \in Pids /\ nextPid # NoPid /\ nextPid + 1 \in 1 .. MaxPid + 1
  BY ConstantsAssumption DEF TypeOK, Pids, NoPid

LEMMA SlotInRange ==
  ASSUME NEW n \in ProcNums, NEW i \in Nat \ {0}, i <= n
  PROVE  i \in Slots
<1>1. n \in 1 .. MaxProc - 1 /\ MaxProc \in Nat
  BY ConstantsAssumption
<1>2. QED
  BY <1>1 DEF Slots

\* What Sigchld() comes to.
LEMMA HandlerReaps ==
  ASSUME TypeOK, NEW m \in Pids, Sigchld(m)
  PROVE  \E dead \in SUBSET Pids : Reaped(m, dead)
<1>1. PICK dead \in SUBSET Zombies(m) : \E start \in [dead -> ResetStarts] :
        /\ IF pc[m] = "log" /\ Zombies(m) # {}
           THEN (\E z \in Zombies(m) : dead = {z}) /\ Goto(m, "stuck")
           ELSE AllReaped(m, dead) /\ UNCHANGED pc
        /\ role' = [q \in Pids |-> IF q \in dead THEN "none" ELSE role[q]]
        /\ tab' = [tab EXCEPT ![m] = [i \in Slots |->
             IF i \in Cleared(m, dead, start)
             THEN [tab[m][i] EXCEPT !.flag = 0] ELSE tab[m][i]]]
        /\ early' = early \cup
             {<<m, job[q]>> : q \in {z \in dead : Storing(m, job[z])}}
  BY DEF Sigchld
<1>2. PICK start \in [dead -> ResetStarts] :
        tab' = [tab EXCEPT ![m] = [i \in Slots |->
             IF i \in Cleared(m, dead, start)
             THEN [tab[m][i] EXCEPT !.flag = 0] ELSE tab[m][i]]]
  BY <1>1
<1>3. DEFINE row == [i \in Slots |->
             IF i \in Cleared(m, dead, start)
             THEN [tab[m][i] EXCEPT !.flag = 0] ELSE tab[m][i]]
<1>4. row \in [Slots -> [flag : {0, 1}, pid : Pids \cup {NoPid}]]
  <2>1. ASSUME NEW i \in Slots
        PROVE  tab[m][i] \in [flag : {0, 1}, pid : Pids \cup {NoPid}]
    BY DEF TypeOK
  <2>2. ASSUME NEW i \in Slots
        PROVE  row[i] \in [flag : {0, 1}, pid : Pids \cup {NoPid}]
    BY <2>1
  <2>3. QED
    BY <2>2
<1>5. tab' \in [Pids -> [Slots -> [flag : {0, 1}, pid : Pids \cup {NoPid}]]]
  BY <1>2, <1>4 DEF TypeOK
<1>6. (\A n \in Pids \ {m} : tab'[n] = tab[n]) /\ tab'[m] = row
  BY <1>2 DEF TypeOK
<1>7. ASSUME NEW i \in Slots
      PROVE  /\ tab'[m][i].pid = tab[m][i].pid
             /\ \/ tab'[m][i] = tab[m][i]
                \/ tab'[m][i].flag = 0 /\ tab[m][i].pid \in dead
  <2>1. tab[m][i] \in [flag : {0, 1}, pid : Pids \cup {NoPid}]
    BY DEF TypeOK
  <2>2. i \in Cleared(m, dead, start) => tab[m][i].pid \in dead
    BY DEF Cleared
  <2>3. QED
    BY <1>6, <2>1, <2>2
<1>8. ASSUME NEW i \in Slots, ResetStarts \subseteq {0, 1}, i <= num[m],
             tab[m][i].pid \in dead
      PROVE  tab'[m][i].flag = 0
  <2>1. start[tab[m][i].pid] <= i
    <3>1. start[tab[m][i].pid] \in {0, 1}
      BY <1>2, <1>8
    <3>2. i \in Int /\ 1 <= i
      BY ConstantsAssumption DEF Slots
    <3>3. QED
      BY <3>1, <3>2
  <2>2. i \in Cleared(m, dead, start)
    BY <1>8, <2>1 DEF Cleared, Slots
  <2>3. tab[m][i] \in [flag : {0, 1}, pid : Pids \cup {NoPid}]
    BY DEF TypeOK
  <2>4. QED
    BY <1>6, <2>2, <2>3
<1>9. dead \in SUBSET Pids
  BY DEF Zombies
<1>10. Reaped(m, dead)
  BY <1>1, <1>5, <1>6, <1>7, <1>8 DEF Reaped, AllReaped, Goto
<1>11. QED
  BY <1>9, <1>10

LEMMA InitIInv == Init => IInv
<1>1. SUFFICES ASSUME Init PROVE IInv
  OBVIOUS
<1>2. TypeOK
  <2>1. EmptyTable \in [Slots -> [flag : {0, 1}, pid : Pids \cup {NoPid}]]
    BY DEF EmptyTable
  <2>2. nextPid \in 1 .. MaxPid + 1
    BY <1>1, ConstantsAssumption DEF Init
  <2>3. /\ role \in [Pids -> {"none", "master", "forked", "agent", "zombie"}]
        /\ parent \in [Pids -> Pids \cup {NoPid}]
        /\ job \in [Pids -> Slots \cup {0}]
    BY <1>1 DEF Init
  <2>4. /\ num \in [Pids -> ProcNums \cup {0}]
        /\ pc \in [Pids -> {"scan", "log", "fork", "storePid", "storeFlag",
                             "sleep", "stuck"}]
        /\ idx \in [Pids -> Nat \ {0}]
    BY <1>1 DEF Init
  <2>5. /\ child \in [Pids -> Pids \cup {NoPid}]
        /\ pending \subseteq Pids /\ lock \subseteq Pids
        /\ early \subseteq Pids \X Slots
    BY <1>1 DEF Init
  <2>6. tab \in [Pids -> [Slots -> [flag : {0, 1}, pid : Pids \cup {NoPid}]]]
    BY <1>1, <2>1 DEF Init
  <2>7. QED
    BY <2>2, <2>3, <2>4, <2>5, <2>6 DEF TypeOK
<1>3. Masters = {}
  BY <1>1 DEF Init, Masters
<1>4. Fresh /\ Family /\ Born /\ Recorded
  BY <1>1 DEF Init, Fresh, Family, Born, Recorded, Running
<1>5. Scanning /\ DeathsAnnounced
  BY <1>3 DEF Scanning, DeathsAnnounced
<1>6. LockHeld /\ OneLaunched /\ Tracked
  BY <1>3 DEF LockHeld, OneLaunched, Tracked, Launched
<1>7. QED
  BY <1>2, <1>4, <1>5, <1>6 DEF IInv

-----------------------------------------------------------------------------
(* One lemma for each conjunct of IInv.                                    *)

\* Types.
LEMMA TypeNext ==
  ASSUME TypeOK, Born, Scanning, [Next]_vars
  PROVE  TypeOK'
<1>1. CASE UNCHANGED vars
  BY <1>1 DEF vars, kernelVars, masterVars, TypeOK, Born, Running, Scanning,
     Masters
<1>2. ASSUME NEW k \in ProcNums, Launch(k) PROVE TypeOK'
  <2>1. role' \in [Pids -> {"none", "master", "forked", "agent", "zombie"}]
    BY <1>2, NextPid DEF Launch, TypeOK
  <2>2. num' \in [Pids -> ProcNums \cup {0}]
    BY <1>2, NextPid DEF Launch, TypeOK
  <2>3. lock' \subseteq Pids
    BY <1>2, NextPid DEF Launch, TypeOK
  <2>4. nextPid' \in 1 .. MaxPid + 1
    BY <1>2, NextPid DEF Launch
  <2>5. QED
    BY <1>2, <2>1, <2>2, <2>3, <2>4
       DEF Launch, kernelVars, masterVars, TypeOK
<1>3. ASSUME NEW m \in Pids, Scan(m) PROVE TypeOK'
  <2>1. idx' \in [Pids -> Nat \ {0}]
    <3>1. idx[m] \in Nat \ {0} /\ idx[m] + 1 \in Nat \ {0}
      BY DEF TypeOK
    <3>2. idx' = idx \/ idx' = [idx EXCEPT ![m] = idx[m] + 1]
      BY <1>3 DEF Scan
    <3>3. QED
      BY <3>1, <3>2 DEF TypeOK
  <2>2. QED
    BY <1>3, <2>1 DEF Scan, MasterAt, Goto, kernelVars, masterVars, TypeOK
<1>4. ASSUME NEW m \in Pids, Wake(m) PROVE TypeOK'
  BY <1>4, ConstantsAssumption DEF Wake, ScanFrom, MasterAt, Goto, kernelVars,
     masterVars, TypeOK, Born, Running, Scanning, Masters
<1>5. ASSUME NEW m \in Pids, StartLogged(m) PROVE TypeOK'
  BY <1>5, ConstantsAssumption DEF StartLogged, MasterAt, Goto, kernelVars,
     masterVars, TypeOK, Born, Running, Scanning, Masters
<1>6. ASSUME NEW m \in Pids, StartFails(m) PROVE TypeOK'
  BY <1>6, ConstantsAssumption DEF StartFails, MasterAt, Gone, Zombies,
     kernelVars, masterVars, TypeOK, Born, Running, Scanning, Masters
<1>7. ASSUME NEW m \in Pids, Fork(m) PROVE TypeOK'
  <2>1. nextPid \in Pids /\ nextPid' \in 1 .. MaxPid + 1
    BY <1>7, NextPid DEF Fork
  <2>2. m \in Masters /\ idx[m] \in Slots
    <3>1. m \in Masters /\ pc[m] = "fork"
      BY <1>7 DEF Fork, MasterAt, Masters
    <3>2. num[m] \in ProcNums /\ idx[m] <= num[m] /\ idx[m] \in Nat \ {0}
      BY <3>1 DEF Scanning, TypeOK
    <3>3. QED
      BY <3>1, <3>2, SlotInRange
  <2>3. role' \in [Pids -> {"none", "master", "forked", "agent", "zombie"}]
    BY <1>7, <2>1 DEF Fork, TypeOK
  <2>4. /\ parent' \in [Pids -> Pids \cup {NoPid}]
        /\ job' \in [Pids -> Slots \cup {0}]
    BY <1>7, <2>1, <2>2 DEF Fork, TypeOK
  <2>5. num' \in [Pids -> ProcNums \cup {0}] /\ lock' \subseteq Pids
    BY <1>7, <2>1 DEF Fork, TypeOK
  <2>6. tab' \in [Pids -> [Slots -> [flag : {0, 1}, pid : Pids \cup {NoPid}]]]
    BY <1>7, <2>1 DEF Fork, TypeOK
  <2>7. child' \in [Pids -> Pids \cup {NoPid}] /\ UNCHANGED <<idx, pending,
     early>>
    BY <1>7, <2>1 DEF Fork, TypeOK
  <2>8. pc' \in [Pids -> {"scan", "log", "fork", "storePid", "storeFlag",
     "sleep",
                       "stuck"}]
    BY <1>7 DEF Fork, Goto, TypeOK
  <2>9. QED
    BY <2>1, <2>3, <2>4, <2>5, <2>6, <2>7, <2>8 DEF TypeOK
<1>8. ASSUME NEW m \in Pids, StorePid(m) PROVE TypeOK'
  <2>1. tab' \in [Pids -> [Slots -> [flag : {0, 1}, pid : Pids \cup {NoPid}]]]
    <3>1. tab[m] \in [Slots -> [flag : {0, 1}, pid : Pids \cup {NoPid}]]
      BY DEF TypeOK
    <3>2. [tab[m] EXCEPT ![idx[m]].pid = child[m]]
            \in [Slots -> [flag : {0, 1}, pid : Pids \cup {NoPid}]]
      BY <3>1 DEF TypeOK
    <3>3. tab' = [tab EXCEPT ![m] = [tab[m] EXCEPT ![idx[m]].pid = child[m]]]
      BY <1>8 DEF StorePid, TypeOK
    <3>4. QED
      BY <3>2, <3>3 DEF TypeOK
  <2>2. QED
    BY <1>8, <2>1 DEF StorePid, MasterAt, Goto, kernelVars, masterVars, TypeOK
<1>9. ASSUME NEW m \in Pids, StoreFlag(m) PROVE TypeOK'
  <2>1. tab' \in [Pids -> [Slots -> [flag : {0, 1}, pid : Pids \cup {NoPid}]]]
    <3>1. tab[m] \in [Slots -> [flag : {0, 1}, pid : Pids \cup {NoPid}]]
      BY DEF TypeOK
    <3>2. [tab[m] EXCEPT ![idx[m]].flag = 1]
            \in [Slots -> [flag : {0, 1}, pid : Pids \cup {NoPid}]]
      BY <3>1
    <3>3. QED
      BY <1>9, <3>2 DEF StoreFlag, TypeOK
  <2>2. idx' \in [Pids -> Nat \ {0}]
    BY <1>9 DEF StoreFlag, TypeOK
  <2>3. QED
    BY <1>9, <2>1, <2>2 DEF StoreFlag, MasterAt, Goto, kernelVars, masterVars,
       TypeOK
<1>10. ASSUME NEW m \in Pids, Sigchld(m) PROVE TypeOK'
  <2>1. PICK dead \in SUBSET Pids : Reaped(m, dead)
    BY <1>10, HandlerReaps
  <2>2. early' \subseteq Pids \X Slots
    <3>1. ASSUME NEW z \in dead, Storing(m, job[z]) PROVE job[z] \in Slots
      <4>1. m \in Masters /\ idx[m] = job[z]
            /\ pc[m] \in {"storePid", "storeFlag"}
        BY <1>10, <3>1 DEF Sigchld, Masters, Storing
      <4>2. num[m] \in ProcNums /\ idx[m] <= num[m] /\ idx[m] \in Nat \ {0}
        BY <4>1 DEF Scanning, TypeOK
      <4>3. QED
        BY <4>1, <4>2, SlotInRange
    <3>2. QED
      BY <2>1, <3>1 DEF Reaped, TypeOK
  <2>3. /\ role' \in [Pids -> {"none", "master", "forked", "agent", "zombie"}]
        /\ pc' \in [Pids -> {"scan", "log", "fork", "storePid", "storeFlag",
                              "sleep", "stuck"}]
        /\ tab' \in [Pids -> [Slots -> [flag : {0, 1},
           pid : Pids \cup {NoPid}]]]
    BY <2>1 DEF Reaped, TypeOK
  <2>4. /\ UNCHANGED <<parent, job, lock, nextPid, num, idx, child>>
        /\ pending' \subseteq Pids
    BY <1>10 DEF Sigchld, TypeOK
  <2>5. QED
    BY <2>2, <2>3, <2>4 DEF TypeOK
<1>11. ASSUME NEW q \in Pids, Exec(q) PROVE TypeOK'
  BY <1>11, ConstantsAssumption DEF Exec, kernelVars, masterVars, TypeOK,
     Born, Running, Scanning, Masters
<1>12. ASSUME NEW q \in Pids, ExecFails(q) PROVE TypeOK'
  <2>1. job[q] \in Slots
    BY <1>12 DEF ExecFails, Born, Running
  <2>2. tab' \in [Pids -> [Slots -> [flag : {0, 1}, pid : Pids \cup {NoPid}]]]
    <3>1. tab[q] \in [Slots -> [flag : {0, 1}, pid : Pids \cup {NoPid}]]
      BY DEF TypeOK
    <3>2. [tab[q] EXCEPT ![job[q]] = [flag |-> 1, pid |-> 0]]
            \in [Slots -> [flag : {0, 1}, pid : Pids \cup {NoPid}]]
      BY <3>1, <2>1 DEF NoPid
    <3>3. QED
      BY <1>12, <3>2 DEF ExecFails, TypeOK
  <2>3. idx' \in [Pids -> Nat \ {0}]
    BY <1>12, <2>1, ConstantsAssumption DEF ExecFails, TypeOK, Slots
  <2>4. role' \in [Pids -> {"none", "master", "forked", "agent", "zombie"}]
    BY <1>12 DEF ExecFails, TypeOK
  <2>5. QED
    BY <1>12, <2>2, <2>3, <2>4 DEF ExecFails, kernelVars, masterVars, TypeOK
<1>13. ASSUME NEW q \in Pids, Die(q) PROVE TypeOK'
  BY <1>13, ConstantsAssumption DEF Die, Gone, Zombies, kernelVars,
     masterVars, TypeOK, Born, Running, Scanning, Masters
<1>14. QED
  BY <1>1, <1>2, <1>3, <1>4, <1>5, <1>6, <1>7, <1>8, <1>9, <1>10, <1>11,
     <1>12, <1>13 DEF Next, MasterStep

\* Pids are handed out once.
LEMMA FreshNext ==
  ASSUME TypeOK, Fresh, [Next]_vars
  PROVE  Fresh'
<1>1. CASE UNCHANGED vars
  BY <1>1 DEF vars, kernelVars, masterVars, TypeOK, Fresh, Pids, NoPid,
     EmptyTable
<1>2. ASSUME NEW k \in ProcNums, Launch(k) PROVE Fresh'
  BY <1>2, ConstantsAssumption DEF Launch, LockFree, kernelVars, masterVars,
     TypeOK, Fresh, Pids, NoPid, EmptyTable
<1>3. ASSUME NEW m \in Pids, Scan(m) PROVE Fresh'
  BY <1>3, ConstantsAssumption DEF Scan, MasterAt, Goto, kernelVars,
     masterVars, TypeOK, Fresh, Pids, NoPid, EmptyTable
<1>4. ASSUME NEW m \in Pids, Wake(m) PROVE Fresh'
  BY <1>4, ConstantsAssumption DEF Wake, ScanFrom, MasterAt, Goto, kernelVars,
     masterVars, TypeOK, Fresh, Pids, NoPid, EmptyTable
<1>5. ASSUME NEW m \in Pids, StartLogged(m) PROVE Fresh'
  BY <1>5, ConstantsAssumption DEF StartLogged, MasterAt, Goto, kernelVars,
     masterVars, TypeOK, Fresh, Pids, NoPid, EmptyTable
<1>6. ASSUME NEW m \in Pids, StartFails(m) PROVE Fresh'
  BY <1>6, ConstantsAssumption DEF StartFails, MasterAt, Gone, Zombies,
     kernelVars, masterVars, TypeOK, Fresh, Pids, NoPid, EmptyTable
<1>7. ASSUME NEW m \in Pids, Fork(m) PROVE Fresh'
  BY <1>7, ConstantsAssumption DEF Fork, MasterAt, Goto, kernelVars,
     masterVars, TypeOK, Fresh, Pids, NoPid, EmptyTable
<1>8. ASSUME NEW m \in Pids, StorePid(m) PROVE Fresh'
  BY <1>8, ConstantsAssumption DEF StorePid, MasterAt, Goto, kernelVars,
     masterVars, TypeOK, Fresh, Pids, NoPid, EmptyTable
<1>9. ASSUME NEW m \in Pids, StoreFlag(m) PROVE Fresh'
  BY <1>9, ConstantsAssumption DEF StoreFlag, MasterAt, Goto, kernelVars,
     masterVars, TypeOK, Fresh, Pids, NoPid, EmptyTable
<1>10. ASSUME NEW m \in Pids, Sigchld(m) PROVE Fresh'
  <2>1. PICK dead \in SUBSET Pids : Reaped(m, dead)
    BY <1>10, HandlerReaps
  <2>2. role[m] = "master" /\ parent' = parent /\ nextPid' = nextPid
    BY <1>10 DEF Sigchld
  <2>3. SUFFICES ASSUME NEW q \in Pids, q >= nextPid
                 PROVE  /\ role'[q] = "none" /\ parent[q] = NoPid
                        /\ pc'[q] = "scan" /\ tab'[q] = EmptyTable
    BY <2>2 DEF Fresh
  <2>4. q # m /\ role[q] = "none" /\ parent[q] = NoPid
        /\ pc[q] = "scan" /\ tab[q] = EmptyTable
    BY <2>2, <2>3 DEF Fresh
  <2>5. role'[q] = "none" /\ tab'[q] = EmptyTable
    BY <2>1, <2>4 DEF Reaped
  <2>6. pc'[q] = "scan"
    BY <2>1, <2>4 DEF Reaped, TypeOK
  <2>7. QED
    BY <2>4, <2>5, <2>6
<1>11. ASSUME NEW q \in Pids, Exec(q) PROVE Fresh'
  BY <1>11, ConstantsAssumption DEF Exec, kernelVars, masterVars, TypeOK,
     Fresh, Pids, NoPid, EmptyTable
<1>12. ASSUME NEW q \in Pids, ExecFails(q) PROVE Fresh'
  BY <1>12, ConstantsAssumption DEF ExecFails, kernelVars, masterVars, TypeOK,
     Fresh, Pids, NoPid, EmptyTable
<1>13. ASSUME NEW q \in Pids, Die(q) PROVE Fresh'
  BY <1>13, ConstantsAssumption DEF Die, Gone, Zombies, kernelVars,
     masterVars, TypeOK, Fresh, Pids, NoPid, EmptyTable
<1>14. QED
  BY <1>1, <1>2, <1>3, <1>4, <1>5, <1>6, <1>7, <1>8, <1>9, <1>10, <1>11,
     <1>12, <1>13 DEF Next, MasterStep

\* A parent is a master as long as it has children.
LEMMA FamilyNext ==
  ASSUME TypeOK, Fresh, Family, [Next]_vars
  PROVE  Family'
<1>1. CASE UNCHANGED vars
  BY <1>1 DEF vars, kernelVars, masterVars, TypeOK, Fresh, Family, Pids, NoPid
<1>2. ASSUME NEW k \in ProcNums, Launch(k) PROVE Family'
  BY <1>2, ConstantsAssumption DEF Launch, LockFree, kernelVars, masterVars,
     TypeOK, Fresh, Family, Pids, NoPid
<1>3. ASSUME NEW m \in Pids, Scan(m) PROVE Family'
  BY <1>3, ConstantsAssumption DEF Scan, MasterAt, Goto, kernelVars,
     masterVars, TypeOK, Fresh, Family, Pids, NoPid
<1>4. ASSUME NEW m \in Pids, Wake(m) PROVE Family'
  BY <1>4, ConstantsAssumption DEF Wake, ScanFrom, MasterAt, Goto, kernelVars,
     masterVars, TypeOK, Fresh, Family, Pids, NoPid
<1>5. ASSUME NEW m \in Pids, StartLogged(m) PROVE Family'
  BY <1>5, ConstantsAssumption DEF StartLogged, MasterAt, Goto, kernelVars,
     masterVars, TypeOK, Fresh, Family, Pids, NoPid
<1>6. ASSUME NEW m \in Pids, StartFails(m) PROVE Family'
  BY <1>6, ConstantsAssumption DEF StartFails, MasterAt, Gone, Zombies,
     kernelVars, masterVars, TypeOK, Fresh, Family, Pids, NoPid
<1>7. ASSUME NEW m \in Pids, Fork(m) PROVE Family'
  BY <1>7, ConstantsAssumption DEF Fork, MasterAt, Goto, kernelVars,
     masterVars, TypeOK, Fresh, Family, Pids, NoPid
<1>8. ASSUME NEW m \in Pids, StorePid(m) PROVE Family'
  BY <1>8, ConstantsAssumption DEF StorePid, MasterAt, Goto, kernelVars,
     masterVars, TypeOK, Fresh, Family, Pids, NoPid
<1>9. ASSUME NEW m \in Pids, StoreFlag(m) PROVE Family'
  BY <1>9, ConstantsAssumption DEF StoreFlag, MasterAt, Goto, kernelVars,
     masterVars, TypeOK, Fresh, Family, Pids, NoPid
<1>10. ASSUME NEW m \in Pids, Sigchld(m) PROVE Family'
  <2>1. PICK dead \in SUBSET Pids : Reaped(m, dead)
    BY <1>10, HandlerReaps
  <2>2. QED
    BY <1>10, <2>1 DEF Reaped, Sigchld, TypeOK, Fresh, Family, Pids, NoPid,
       Zombies
<1>11. ASSUME NEW q \in Pids, Exec(q) PROVE Family'
  BY <1>11, ConstantsAssumption DEF Exec, kernelVars, masterVars, TypeOK,
     Fresh, Family, Pids, NoPid
<1>12. ASSUME NEW q \in Pids, ExecFails(q) PROVE Family'
  BY <1>12, ConstantsAssumption DEF ExecFails, kernelVars, masterVars, TypeOK,
     Fresh, Family, Pids, NoPid
<1>13. ASSUME NEW q \in Pids, Die(q) PROVE Family'
  BY <1>13, ConstantsAssumption DEF Die, Gone, Zombies, kernelVars,
     masterVars, TypeOK, Fresh, Family, Pids, NoPid
<1>14. QED
  BY <1>1, <1>2, <1>3, <1>4, <1>5, <1>6, <1>7, <1>8, <1>9, <1>10, <1>11,
     <1>12, <1>13 DEF Next, MasterStep

\* What a child is born with stays.
LEMMA BornNext ==
  ASSUME TypeOK, Fresh, Born, Scanning, [Next]_vars
  PROVE  Born'
<1>1. CASE UNCHANGED vars
  BY <1>1 DEF vars, kernelVars, masterVars, TypeOK, Fresh, Born, Scanning,
     Masters, Running, Pids, Slots, NoPid
<1>2. ASSUME NEW k \in ProcNums, Launch(k) PROVE Born'
  BY <1>2, ConstantsAssumption DEF Launch, LockFree, kernelVars, masterVars,
     TypeOK, Fresh, Born, Scanning, Masters, Running, Pids, Slots, NoPid
<1>3. ASSUME NEW m \in Pids, Scan(m) PROVE Born'
  BY <1>3, ConstantsAssumption DEF Scan, MasterAt, Goto, kernelVars,
     masterVars, TypeOK, Fresh, Born, Scanning, Masters, Running, Pids, Slots,
        NoPid
<1>4. ASSUME NEW m \in Pids, Wake(m) PROVE Born'
  BY <1>4, ConstantsAssumption DEF Wake, ScanFrom, MasterAt, Goto, kernelVars,
     masterVars, TypeOK, Fresh, Born, Scanning, Masters, Running, Pids, Slots,
        NoPid
<1>5. ASSUME NEW m \in Pids, StartLogged(m) PROVE Born'
  BY <1>5, ConstantsAssumption DEF StartLogged, MasterAt, Goto, kernelVars,
     masterVars, TypeOK, Fresh, Born, Scanning, Masters, Running, Pids, Slots,
        NoPid
<1>6. ASSUME NEW m \in Pids, StartFails(m) PROVE Born'
  BY <1>6, ConstantsAssumption DEF StartFails, MasterAt, Gone, Zombies,
     kernelVars, masterVars, TypeOK, Fresh, Born, Scanning, Masters, Running,
        Pids, Slots, NoPid
<1>7. ASSUME NEW m \in Pids, Fork(m) PROVE Born'
  <2>1. m \in Masters /\ pc[m] = "fork"
    BY <1>7 DEF Fork, MasterAt, Masters
  <2>2. num[m] \in ProcNums /\ idx[m] \in Slots
    BY <2>1, SlotInRange DEF Scanning, TypeOK
  <2>3. nextPid \in Pids /\ nextPid # m /\ role[nextPid] = "none"
    BY <1>7, NextPid DEF Fork, Fresh, TypeOK, MasterAt
  <2>4. pc[nextPid] = "scan"
    BY <2>3, NextPid DEF Fresh, TypeOK
  <2>5. /\ role' = [role EXCEPT ![nextPid] = "forked"]
        /\ job' = [job EXCEPT ![nextPid] = idx[m]]
        /\ num' = [num EXCEPT ![nextPid] = num[m]]
        /\ pc' = [pc EXCEPT ![m] = "storePid"]
    BY <1>7 DEF Fork, Goto
  <2>6. QED
    BY <2>1, <2>2, <2>3, <2>4, <2>5 DEF Born, Running, TypeOK, Masters
<1>8. ASSUME NEW m \in Pids, StorePid(m) PROVE Born'
  BY <1>8, ConstantsAssumption DEF StorePid, MasterAt, Goto, kernelVars,
     masterVars, TypeOK, Fresh, Born, Scanning, Masters, Running, Pids, Slots,
        NoPid
<1>9. ASSUME NEW m \in Pids, StoreFlag(m) PROVE Born'
  BY <1>9, ConstantsAssumption DEF StoreFlag, MasterAt, Goto, kernelVars,
     masterVars, TypeOK, Fresh, Born, Scanning, Masters, Running, Pids, Slots,
        NoPid
<1>10. ASSUME NEW m \in Pids, Sigchld(m) PROVE Born'
  <2>1. PICK dead \in SUBSET Pids : Reaped(m, dead)
    BY <1>10, HandlerReaps
  <2>2. \A q \in Pids : role'[q] = role[q] \/ role'[q] = "none"
    BY <2>1 DEF Reaped
  <2>3. \A q \in Pids \ {m} : pc'[q] = pc[q]
    BY <2>1 DEF Reaped, TypeOK
  <2>4. role[m] = "master" /\ job' = job /\ num' = num
    BY <1>10 DEF Sigchld
  <2>5. QED
    BY <2>2, <2>3, <2>4 DEF Born, Running
<1>11. ASSUME NEW q \in Pids, Exec(q) PROVE Born'
  BY <1>11, ConstantsAssumption DEF Exec, kernelVars, masterVars, TypeOK,
     Fresh, Born, Scanning, Masters, Running, Pids, Slots, NoPid
<1>12. ASSUME NEW q \in Pids, ExecFails(q) PROVE Born'
  BY <1>12, ConstantsAssumption DEF ExecFails, kernelVars, masterVars, TypeOK,
     Fresh, Born, Scanning, Masters, Running, Pids, Slots, NoPid
<1>13. ASSUME NEW q \in Pids, Die(q) PROVE Born'
  BY <1>13, ConstantsAssumption DEF Die, Gone, Zombies, kernelVars,
     masterVars, TypeOK, Fresh, Born, Scanning, Masters, Running, Pids, Slots,
        NoPid
<1>14. QED
  BY <1>1, <1>2, <1>3, <1>4, <1>5, <1>6, <1>7, <1>8, <1>9, <1>10, <1>11,
     <1>12, <1>13 DEF Next, MasterStep

\* The slot the master works on.
LEMMA ScanningNext ==
  ASSUME TypeOK, Fresh, Born, Scanning, [Next]_vars
  PROVE  Scanning'
<1>1. CASE UNCHANGED vars
  BY <1>1 DEF vars, kernelVars, masterVars, TypeOK, Fresh, Born, Scanning,
     Masters, Running, Pids, Slots, NoPid, EmptyTable
<1>2. ASSUME NEW k \in ProcNums, Launch(k) PROVE Scanning'
  BY <1>2, ConstantsAssumption DEF Launch, LockFree, kernelVars, masterVars,
     TypeOK, Fresh, Born, Scanning, Masters, Running, Pids, Slots, NoPid,
        EmptyTable
<1>3. ASSUME NEW m \in Pids, Scan(m) PROVE Scanning'
  <2>1. \/ pc' = pc /\ pc[m] = "scan"
        \/ pc' = [pc EXCEPT ![m] = "sleep"]
        \/ /\ pc' = [pc EXCEPT ![m] = "log"] /\ idx' = idx
           /\ idx[m] <= num[m] /\ tab[m][idx[m]].flag = 0
    <3>1. num[m] \in ProcNums /\ idx[m] \in Nat
      BY <1>3 DEF Scan, MasterAt, Masters, Scanning, TypeOK
    <3>2. num[m] \in 1 .. MaxProc - 1 /\ MaxProc \in Nat
      BY <3>1, ConstantsAssumption
    <3>3. QED
      BY <1>3, <3>1, <3>2 DEF Scan, Goto, MasterAt
  <2>2. \A n \in Pids \ {m} : idx'[n] = idx[n]
    BY <1>3 DEF Scan, TypeOK
  <2>3. UNCHANGED <<role, num, tab, child>>
    BY <1>3 DEF Scan, kernelVars
  <2>4. QED
    BY <2>1, <2>2, <2>3 DEF Scanning, Masters, TypeOK
<1>4. ASSUME NEW m \in Pids, Wake(m) PROVE Scanning'
  BY <1>4, ConstantsAssumption DEF Wake, ScanFrom, MasterAt, Goto, kernelVars,
     masterVars, TypeOK, Fresh, Born, Scanning, Masters, Running, Pids, Slots,
        NoPid, EmptyTable
<1>5. ASSUME NEW m \in Pids, StartLogged(m) PROVE Scanning'
  BY <1>5, ConstantsAssumption DEF StartLogged, MasterAt, Goto, kernelVars,
     masterVars, TypeOK, Fresh, Born, Scanning, Masters, Running, Pids, Slots,
        NoPid, EmptyTable
<1>6. ASSUME NEW m \in Pids, StartFails(m) PROVE Scanning'
  BY <1>6, ConstantsAssumption DEF StartFails, MasterAt, Gone, Zombies,
     kernelVars, masterVars, TypeOK, Fresh, Born, Scanning, Masters, Running,
        Pids, Slots, NoPid, EmptyTable
<1>7. ASSUME NEW m \in Pids, Fork(m) PROVE Scanning'
  BY <1>7, ConstantsAssumption DEF Fork, MasterAt, Goto, kernelVars,
     masterVars, TypeOK, Fresh, Born, Scanning, Masters, Running, Pids, Slots,
        NoPid, EmptyTable
<1>8. ASSUME NEW m \in Pids, StorePid(m) PROVE Scanning'
  BY <1>8, ConstantsAssumption DEF StorePid, MasterAt, Goto, kernelVars,
     masterVars, TypeOK, Fresh, Born, Scanning, Masters, Running, Pids, Slots,
        NoPid, EmptyTable
<1>9. ASSUME NEW m \in Pids, StoreFlag(m) PROVE Scanning'
  BY <1>9, ConstantsAssumption DEF StoreFlag, MasterAt, Goto, kernelVars,
     masterVars, TypeOK, Fresh, Born, Scanning, Masters, Running, Pids, Slots,
        NoPid, EmptyTable
<1>10. ASSUME NEW m \in Pids, Sigchld(m) PROVE Scanning'
  <2>1. PICK dead \in SUBSET Pids : Reaped(m, dead)
    BY <1>10, HandlerReaps
  <2>2. SUFFICES ASSUME NEW n \in Masters'
                 PROVE  /\ num'[n] \in ProcNums
                        /\ pc'[n] \in {"log", "fork", "storePid", "storeFlag"}
                             => idx'[n] <= num'[n] /\ tab'[n][idx'[n]].flag = 0
                        /\ pc'[n] = "storeFlag"
                             => tab'[n][idx'[n]].pid = child'[n]
    BY DEF Scanning
  <2>3. n \in Masters /\ n \in Pids
    BY <2>1 DEF Reaped, Masters
  <2>4. UNCHANGED <<num, idx, child>>
    BY <1>10 DEF Sigchld
  <2>5. pc'[n] # "stuck" => pc'[n] = pc[n]
    BY <2>1, <2>3 DEF Reaped, TypeOK
  <2>6. idx[n] \in Slots /\ idx[n] <= num[n] =>
          /\ tab'[n][idx[n]].pid = tab[n][idx[n]].pid
          /\ tab[n][idx[n]].flag = 0 => tab'[n][idx[n]].flag = 0
    BY <2>1, <2>3 DEF Reaped
  <2>7. idx[n] <= num[n] => idx[n] \in Slots
    BY <2>3, SlotInRange DEF Scanning, TypeOK
  <2>8. QED
    BY <2>3, <2>4, <2>5, <2>6, <2>7 DEF Scanning
<1>11. ASSUME NEW q \in Pids, Exec(q) PROVE Scanning'
  BY <1>11, ConstantsAssumption DEF Exec, kernelVars, masterVars, TypeOK,
     Fresh, Born, Scanning, Masters, Running, Pids, Slots, NoPid, EmptyTable
<1>12. ASSUME NEW q \in Pids, ExecFails(q) PROVE Scanning'
  BY <1>12, ConstantsAssumption DEF ExecFails, kernelVars, masterVars, TypeOK,
     Fresh, Born, Scanning, Masters, Running, Pids, Slots, NoPid, EmptyTable
<1>13. ASSUME NEW q \in Pids, Die(q) PROVE Scanning'
  BY <1>13, ConstantsAssumption DEF Die, Gone, Zombies, kernelVars,
     masterVars, TypeOK, Fresh, Born, Scanning, Masters, Running, Pids, Slots,
        NoPid, EmptyTable
<1>14. QED
  BY <1>1, <1>2, <1>3, <1>4, <1>5, <1>6, <1>7, <1>8, <1>9, <1>10, <1>11,
     <1>12, <1>13 DEF Next, MasterStep

\* The record of a running child.
LEMMA RecordedNext ==
  ASSUME TypeOK, Fresh, Family, Born, Scanning, Recorded, [Next]_vars
  PROVE  Recorded'
<1>1. CASE UNCHANGED vars
  BY <1>1 DEF vars, kernelVars, masterVars, TypeOK, Fresh, Family, Born,
     Scanning, Recorded, Storing, Masters, Running, Pids, Slots, NoPid,
        EmptyTable
<1>2. ASSUME NEW k \in ProcNums, Launch(k) PROVE Recorded'
  BY SMTT(30), <1>2, ConstantsAssumption DEF Launch, LockFree, kernelVars,
     masterVars,
     TypeOK, Fresh, Family, Born, Scanning, Recorded, Storing, Masters,
        Running, Pids, Slots, NoPid, EmptyTable
<1>3. ASSUME NEW m \in Pids, Scan(m) PROVE Recorded'
  BY <1>3, ConstantsAssumption DEF Scan, MasterAt, Goto, kernelVars,
     masterVars, TypeOK, Fresh, Family, Born, Scanning, Recorded, Storing,
        Masters, Running, Pids, Slots, NoPid, EmptyTable
<1>4. ASSUME NEW m \in Pids, Wake(m) PROVE Recorded'
  BY <1>4, ConstantsAssumption DEF Wake, ScanFrom, MasterAt, Goto, kernelVars,
     masterVars, TypeOK, Fresh, Family, Born, Scanning, Recorded, Storing,
        Masters, Running, Pids, Slots, NoPid, EmptyTable
<1>5. ASSUME NEW m \in Pids, StartLogged(m) PROVE Recorded'
  BY <1>5, ConstantsAssumption DEF StartLogged, MasterAt, Goto, kernelVars,
     masterVars, TypeOK, Fresh, Family, Born, Scanning, Recorded, Storing,
        Masters, Running, Pids, Slots, NoPid, EmptyTable
<1>6. ASSUME NEW m \in Pids, StartFails(m) PROVE Recorded'
  BY <1>6, ConstantsAssumption DEF StartFails, MasterAt, Gone, Zombies,
     kernelVars, masterVars, TypeOK, Fresh, Family, Born, Scanning, Recorded,
        Storing, Masters, Running, Pids, Slots, NoPid, EmptyTable
<1>7. ASSUME NEW m \in Pids, Fork(m) PROVE Recorded'
  BY <1>7, ConstantsAssumption DEF Fork, MasterAt, Goto, kernelVars,
     masterVars, TypeOK, Fresh, Family, Born, Scanning, Recorded, Storing,
        Masters, Running, Pids, Slots, NoPid, EmptyTable
<1>8. ASSUME NEW m \in Pids, StorePid(m) PROVE Recorded'
  BY <1>8, ConstantsAssumption DEF StorePid, MasterAt, Goto, kernelVars,
     masterVars, TypeOK, Fresh, Family, Born, Scanning, Recorded, Storing,
        Masters, Running, Pids, Slots, NoPid, EmptyTable
<1>9. ASSUME NEW m \in Pids, StoreFlag(m) PROVE Recorded'
  <2>1. m \in Masters /\ pc[m] = "storeFlag" /\ idx[m] \in Slots
    <3>1. m \in Masters /\ pc[m] = "storeFlag"
      BY <1>9 DEF StoreFlag, MasterAt, Masters
    <3>2. num[m] \in ProcNums /\ idx[m] <= num[m] /\ idx[m] \in Nat \ {0}
      BY <3>1 DEF Scanning, TypeOK
    <3>3. QED
      BY <3>1, <3>2, SlotInRange
  <2>2. tab[m][idx[m]].pid = child[m]
    BY <2>1 DEF Scanning
  <2>3. tab[m] \in [Slots -> [flag : {0, 1}, pid : Pids \cup {NoPid}]]
    BY DEF TypeOK
  <2>4. /\ tab'[m][idx[m]] = [flag |-> 1, pid |-> child[m]]
        /\ \A i \in Slots \ {idx[m]} : tab'[m][i] = tab[m][i]
        /\ \A n \in Pids \ {m} : tab'[n] = tab[n]
    BY <1>9, <2>1, <2>2, <2>3 DEF StoreFlag, TypeOK
  <2>5. /\ UNCHANGED <<role, parent, job, child>>
        /\ \A n \in Pids \ {m} : pc'[n] = pc[n] /\ idx'[n] = idx[n]
    BY <1>9 DEF StoreFlag, Goto, kernelVars, TypeOK
  <2>6. SUFFICES ASSUME NEW q \in Pids, Running(q), parent[q] # NoPid
                 PROVE  \/ tab'[parent[q]][job[q]] = [flag |-> 1, pid |-> q]
                        \/ /\ Storing(parent[q], job[q])'
                           /\ child[parent[q]] = q
    BY <2>5 DEF Recorded, Running
  <2>7. parent[q] \in Pids /\ job[q] \in Slots
    BY <2>6 DEF TypeOK, Born
  <2>8. CASE tab[parent[q]][job[q]] = [flag |-> 1, pid |-> q]
    BY <2>1, <2>2, <2>4, <2>7, <2>8
  <2>9. CASE Storing(parent[q], job[q]) /\ child[parent[q]] = q
    BY <2>4, <2>5, <2>7, <2>9 DEF Storing
  <2>10. QED
    BY <2>6, <2>8, <2>9 DEF Recorded
<1>10. ASSUME NEW m \in Pids, Sigchld(m) PROVE Recorded'
  <2>1. PICK dead \in SUBSET Pids : Reaped(m, dead)
    BY <1>10, HandlerReaps
  <2>2. SUFFICES ASSUME NEW q \in Pids, Running(q)', parent'[q] # NoPid
                 PROVE  \/ tab'[parent[q]][job[q]] = [flag |-> 1, pid |-> q]
                        \/ /\ Storing(parent[q], job[q])'
                           /\ child'[parent[q]] = q
    BY <1>10 DEF Sigchld, Recorded
  <2>3. Running(q) /\ q \notin dead /\ UNCHANGED <<parent, job, idx, child>>
    BY <1>10, <2>1, <2>2 DEF Reaped, Sigchld, Running
  <2>4. parent[q] \in Pids /\ job[q] \in Slots
    BY <2>2, <2>3 DEF TypeOK, Born
  <2>5. CASE tab[parent[q]][job[q]] = [flag |-> 1, pid |-> q]
    <3>1. tab[parent[q]][job[q]].pid \notin dead
      BY <2>3, <2>5
    <3>2. tab'[parent[q]][job[q]] = tab[parent[q]][job[q]]
      BY <2>1, <2>4, <3>1 DEF Reaped
    <3>3. QED
      BY <2>5, <3>2
  <2>6. CASE Storing(parent[q], job[q]) /\ child[parent[q]] = q
    BY <2>1, <2>3, <2>4, <2>6 DEF Reaped, Storing, TypeOK
  <2>7. QED
    BY <2>2, <2>3, <2>5, <2>6 DEF Recorded
<1>11. ASSUME NEW q \in Pids, Exec(q) PROVE Recorded'
  BY <1>11, ConstantsAssumption DEF Exec, kernelVars, masterVars, TypeOK,
     Fresh, Family, Born, Scanning, Recorded, Storing, Masters, Running, Pids,
        Slots, NoPid, EmptyTable
<1>12. ASSUME NEW q \in Pids, ExecFails(q) PROVE Recorded'
  BY <1>12, ConstantsAssumption DEF ExecFails, kernelVars, masterVars, TypeOK,
     Fresh, Family, Born, Scanning, Recorded, Storing, Masters, Running, Pids,
        Slots, NoPid, EmptyTable
<1>13. ASSUME NEW q \in Pids, Die(q) PROVE Recorded'
  BY <1>13, ConstantsAssumption DEF Die, Gone, Zombies, kernelVars,
     masterVars, TypeOK, Fresh, Family, Born, Scanning, Recorded, Storing,
        Masters, Running, Pids, Slots, NoPid, EmptyTable
<1>14. QED
  BY <1>1, <1>2, <1>3, <1>4, <1>5, <1>6, <1>7, <1>8, <1>9, <1>10, <1>11,
     <1>12, <1>13 DEF Next, MasterStep

\* The end of a process is announced to its parent.
LEMMA GoneAnnounced ==
  ASSUME TypeOK, DeathsAnnounced, NEW q \in Pids, Gone(q), pc' = pc
  PROVE  DeathsAnnounced'
<1>1. SUFFICES ASSUME NEW n \in Masters', NEW z \in Zombies(n)'
               PROVE  n \in pending' \/ pc[n] = "stuck"
  BY DEF DeathsAnnounced
<1>2. n \in Masters /\ n \in Pids /\ n # q
  BY DEF Gone, Masters, TypeOK
<1>3. parent[z] = n /\ z \in Pids /\ n # NoPid
  BY <1>2 DEF Gone, Zombies, TypeOK, Pids, NoPid
<1>4. CASE z = q
  BY <1>2, <1>3, <1>4 DEF Gone
<1>5. CASE z # q
  <2>1. role[z] = "zombie"
    BY <1>3, <1>5 DEF Gone, Zombies
  <2>2. n \in pending \/ pc[n] = "stuck"
    BY <1>2, <1>3, <2>1 DEF DeathsAnnounced, Zombies
  <2>3. QED
    BY <1>2, <2>2 DEF Gone
<1>6. QED
  BY <1>4, <1>5

\* Every zombie is announced.
LEMMA AnnouncedNext ==
  ASSUME TypeOK, Fresh, Family, DeathsAnnounced, [Next]_vars
  PROVE  DeathsAnnounced'
<1>1. CASE UNCHANGED vars
  BY <1>1 DEF vars, kernelVars, masterVars, TypeOK, Fresh, Family,
     DeathsAnnounced, Zombies, Masters, Pids, NoPid
<1>2. ASSUME NEW k \in ProcNums, Launch(k) PROVE DeathsAnnounced'
  <2>1. nextPid \in Pids /\ UNCHANGED <<parent, pending, pc>>
    BY <1>2 DEF Launch, TypeOK, Pids
  <2>2. role[nextPid] = "none"
    BY <2>1 DEF Fresh, TypeOK, Pids
  <2>3. \A q \in Pids : q # nextPid => role'[q] = role[q]
    BY <1>2 DEF Launch, TypeOK
  <2>4. role'[nextPid] # "zombie"
    BY <1>2, <2>1, <2>2 DEF Launch, TypeOK
  <2>5. \A m \in Pids : Zombies(m)' \subseteq Zombies(m)
    BY <2>1, <2>3, <2>4 DEF Zombies
  <2>6. \A z \in Pids : parent[z] # nextPid
    BY <2>1, <2>2, ConstantsAssumption DEF Family, Pids, NoPid
  <2>7. \A n \in Pids : n = nextPid => Zombies(n)' = {}
    BY <2>1, <2>6 DEF Zombies
  <2>8. SUFFICES ASSUME NEW m \in Pids, m \in Masters', Zombies(m)' # {}
                 PROVE  (m \in pending \/ pc[m] = "stuck")'
    BY DEF DeathsAnnounced, Masters
  <2>9. m \in Pids /\ m # nextPid /\ m \in Masters
    BY <2>7, <2>8, <2>3 DEF Masters
  <2>. QED BY <2>1, <2>5, <2>8, <2>9 DEF DeathsAnnounced
<1>3. ASSUME NEW m \in Pids, Scan(m) PROVE DeathsAnnounced'
  BY <1>3, ConstantsAssumption DEF Scan, MasterAt, Goto, kernelVars,
     masterVars, TypeOK, Fresh, Family, DeathsAnnounced, Zombies, Masters,
        Pids, NoPid
<1>4. ASSUME NEW m \in Pids, Wake(m) PROVE DeathsAnnounced'
  BY <1>4, ConstantsAssumption DEF Wake, ScanFrom, MasterAt, Goto, kernelVars,
     masterVars, TypeOK, Fresh, Family, DeathsAnnounced, Zombies, Masters,
        Pids, NoPid
<1>5. ASSUME NEW m \in Pids, StartLogged(m) PROVE DeathsAnnounced'
  BY <1>5, ConstantsAssumption DEF StartLogged, MasterAt, Goto, kernelVars,
     masterVars, TypeOK, Fresh, Family, DeathsAnnounced, Zombies, Masters,
        Pids, NoPid
<1>6. ASSUME NEW m \in Pids, StartFails(m) PROVE DeathsAnnounced'
  <2>1. m \in Pids /\ role[m] = "master"
    BY <1>6 DEF StartFails, MasterAt
  <2>2. QED
    BY <1>6, <2>1, GoneAnnounced DEF StartFails, masterVars
<1>7. ASSUME NEW m \in Pids, Fork(m) PROVE DeathsAnnounced'
  BY <1>7, ConstantsAssumption DEF Fork, MasterAt, Goto, kernelVars,
     masterVars, TypeOK, Fresh, Family, DeathsAnnounced, Zombies, Masters,
        Pids, NoPid
<1>8. ASSUME NEW m \in Pids, StorePid(m) PROVE DeathsAnnounced'
  BY <1>8, ConstantsAssumption DEF StorePid, MasterAt, Goto, kernelVars,
     masterVars, TypeOK, Fresh, Family, DeathsAnnounced, Zombies, Masters,
        Pids, NoPid
<1>9. ASSUME NEW m \in Pids, StoreFlag(m) PROVE DeathsAnnounced'
  BY <1>9, ConstantsAssumption DEF StoreFlag, MasterAt, Goto, kernelVars,
     masterVars, TypeOK, Fresh, Family, DeathsAnnounced, Zombies, Masters,
        Pids, NoPid
<1>10. ASSUME NEW m \in Pids, Sigchld(m) PROVE DeathsAnnounced'
  <2>1. PICK dead \in SUBSET Pids : Reaped(m, dead)
    BY <1>10, HandlerReaps
  <2>2. parent' = parent /\ pending' = pending \ {m}
    BY <1>10 DEF Sigchld
  <2>3. SUFFICES ASSUME NEW n \in Masters', Zombies(n)' # {}
                 PROVE  n \in pending' \/ pc'[n] = "stuck"
    BY DEF DeathsAnnounced
  <2>4. n \in Masters /\ n \in Pids /\ Zombies(n)' = Zombies(n) \ dead
    BY <2>1, <2>2 DEF Reaped, Masters, Zombies
  <2>5. n \in pending \/ pc[n] = "stuck"
    BY <2>3, <2>4 DEF DeathsAnnounced
  <2>6. CASE n = m
    BY <2>1, <2>3, <2>4, <2>6 DEF Reaped, TypeOK
  <2>7. CASE n # m
    BY <2>1, <2>2, <2>4, <2>5, <2>7 DEF Reaped, TypeOK
  <2>8. QED
    BY <2>6, <2>7
<1>11. ASSUME NEW q \in Pids, Exec(q) PROVE DeathsAnnounced'
  BY <1>11, ConstantsAssumption DEF Exec, kernelVars, masterVars, TypeOK,
     Fresh, Family, DeathsAnnounced, Zombies, Masters, Pids, NoPid
<1>12. ASSUME NEW q \in Pids, ExecFails(q) PROVE DeathsAnnounced'
  <2>1. /\ role[q] = "forked" /\ role' = [role EXCEPT ![q] = "master"]
        /\ UNCHANGED <<parent, pending, pc>>
    BY <1>12 DEF ExecFails
  <2>2. SUFFICES ASSUME NEW n \in Masters', NEW z \in Zombies(n)'
                 PROVE  n \in pending \/ pc[n] = "stuck"
    BY <2>1 DEF DeathsAnnounced
  <2>3. z \in Pids /\ parent[z] = n /\ role[z] = "zombie" /\ n \in Pids
    BY <2>1 DEF Zombies, Masters, TypeOK
  <2>4. n # NoPid
    BY <2>3, ConstantsAssumption DEF Pids, NoPid
  <2>5. role[n] = "master"
    BY <2>3, <2>4 DEF Family
  <2>6. QED
    BY <2>3, <2>5 DEF DeathsAnnounced, Masters, Zombies
<1>13. ASSUME NEW q \in Pids, Die(q) PROVE DeathsAnnounced'
  BY <1>13, GoneAnnounced DEF Die, masterVars
<1>14. QED
  BY <1>1, <1>2, <1>3, <1>4, <1>5, <1>6, <1>7, <1>8, <1>9, <1>10, <1>11,
     <1>12, <1>13 DEF Next, MasterStep

\* The lock file.
LEMMA LockNext ==
  ASSUME TypeOK, Born, LockHeld, OneLaunched, [Next]_vars
  PROVE  LockHeld' /\ OneLaunched'
<1>1. CASE UNCHANGED vars
  BY <1>1 DEF vars, kernelVars, masterVars, TypeOK, LockHeld, OneLaunched,
     Masters, Launched, Pids, NoPid
<1>2. ASSUME NEW k \in ProcNums, Launch(k) PROVE LockHeld' /\ OneLaunched'
  BY SMTT(30), <1>2, ConstantsAssumption DEF Launch, LockFree, kernelVars,
     masterVars,
     TypeOK, LockHeld, OneLaunched, Masters, Launched, Pids, NoPid
<1>3. ASSUME NEW m \in Pids, Scan(m) PROVE LockHeld' /\ OneLaunched'
  BY <1>3, ConstantsAssumption DEF Scan, MasterAt, Goto, kernelVars,
     masterVars, TypeOK, LockHeld, OneLaunched, Masters, Launched, Pids, NoPid
<1>4. ASSUME NEW m \in Pids, Wake(m) PROVE LockHeld' /\ OneLaunched'
  BY <1>4, ConstantsAssumption DEF Wake, ScanFrom, MasterAt, Goto, kernelVars,
     masterVars, TypeOK, LockHeld, OneLaunched, Masters, Launched, Pids, NoPid
<1>5. ASSUME NEW m \in Pids, StartLogged(m) PROVE LockHeld' /\ OneLaunched'
  BY <1>5, ConstantsAssumption DEF StartLogged, MasterAt, Goto, kernelVars,
     masterVars, TypeOK, LockHeld, OneLaunched, Masters, Launched, Pids, NoPid
<1>6. ASSUME NEW m \in Pids, StartFails(m) PROVE LockHeld' /\ OneLaunched'
  BY <1>6, ConstantsAssumption DEF StartFails, MasterAt, Gone, Zombies,
     kernelVars, masterVars, TypeOK, LockHeld, OneLaunched, Masters, Launched,
     Pids, NoPid
<1>7. ASSUME NEW m \in Pids, Fork(m) PROVE LockHeld' /\ OneLaunched'
  BY <1>7, ConstantsAssumption DEF Fork, MasterAt, Goto, kernelVars,
     masterVars, TypeOK, LockHeld, OneLaunched, Masters, Launched, Pids, NoPid
<1>8. ASSUME NEW m \in Pids, StorePid(m) PROVE LockHeld' /\ OneLaunched'
  BY <1>8, ConstantsAssumption DEF StorePid, MasterAt, Goto, kernelVars,
     masterVars, TypeOK, LockHeld, OneLaunched, Masters, Launched, Pids, NoPid
<1>9. ASSUME NEW m \in Pids, StoreFlag(m) PROVE LockHeld' /\ OneLaunched'
  BY <1>9, ConstantsAssumption DEF StoreFlag, MasterAt, Goto, kernelVars,
     masterVars, TypeOK, LockHeld, OneLaunched, Masters, Launched, Pids, NoPid
<1>10. ASSUME NEW m \in Pids, Sigchld(m) PROVE LockHeld' /\ OneLaunched'
  BY <1>10, ConstantsAssumption DEF Sigchld, AllReaped, Goto, Zombies,
     kernelVars, masterVars, TypeOK, LockHeld, OneLaunched, Masters, Launched,
     Pids, NoPid
<1>11. ASSUME NEW q \in Pids, Exec(q) PROVE LockHeld' /\ OneLaunched'
  BY <1>11, ConstantsAssumption DEF Exec, kernelVars, masterVars, TypeOK,
     LockHeld, OneLaunched, Masters, Launched, Pids, NoPid
<1>12. ASSUME NEW q \in Pids, ExecFails(q) PROVE LockHeld' /\ OneLaunched'
  <2>1. job[q] # 0
    BY <1>12, ConstantsAssumption DEF ExecFails, Born, Running, Slots
  <2>2. Launched' \subseteq Launched /\ lock' = lock
    BY <1>12, <2>1 DEF ExecFails, Launched, Masters, TypeOK
  <2>3. QED
    BY <2>2 DEF LockHeld, OneLaunched
<1>13. ASSUME NEW q \in Pids, Die(q) PROVE LockHeld' /\ OneLaunched'
  BY <1>13, ConstantsAssumption DEF Die, Gone, Zombies, kernelVars, masterVars,
     TypeOK, LockHeld, OneLaunched, Masters, Launched, Pids, NoPid
<1>14. QED
  BY <1>1, <1>2, <1>3, <1>4, <1>5, <1>6, <1>7, <1>8, <1>9, <1>10, <1>11, <1>12,
     <1>13 DEF Next, MasterStep

\* A slot stays tracked when neither it nor its child changes.
LEMMA TrackedStays ==
  ASSUME TypeOK, Tracked, ResetStarts \subseteq {0, 1},
         NEW n \in Launched, n \in Pids, NEW i \in Slots,
         tab'[n][i] = tab[n][i], num'[n] = num[n], child'[n] = child[n],
         Storing(n, i)' => Storing(n, i),
         \A c \in Pids \cup {NoPid} : Kept(n, i, c) => Kept(n, i, c)'
  PROVE  TrackedAt(n, i)'
<1>1. TrackedAt(n, i)
  BY DEF Tracked
<1>2. tab[n][i].pid \in Pids \cup {NoPid} /\ child[n] \in Pids \cup {NoPid}
  BY DEF TypeOK
<1>3. Kept(n, i, tab[n][i].pid) => Kept(n, i, tab[n][i].pid)'
  BY <1>2
<1>4. Kept(n, i, child[n]) => Kept(n, i, child[n])'
  BY <1>2
<1>5. QED
  BY <1>1, <1>3, <1>4 DEF TrackedAt

\* A slot that says "running" is right, or its child was reaped early.
LEMMA TrackedNext ==
  ASSUME TypeOK, Fresh, Family, Born, Scanning, Tracked, [Next]_vars
  PROVE  Tracked'
<1>1. CASE UNCHANGED vars
  BY <1>1 DEF vars, kernelVars, masterVars, Tracked, TrackedAt, Kept, Storing,
     Masters, Launched
<1>2. ASSUME NEW k \in ProcNums, Launch(k) PROVE Tracked'
  <2>1. SUFFICES ASSUME ResetStarts \subseteq {0, 1},
                        NEW n \in Launched', NEW i \in Slots
                 PROVE  TrackedAt(n, i)'
    BY DEF Tracked
  <2>2. nextPid \in Pids /\ role[nextPid] = "none"
    BY <1>2, NextPid DEF Launch, Fresh, TypeOK
  <2>3. UNCHANGED <<parent, job, tab, pc, idx, child, early>>
    BY <1>2 DEF Launch
  <2>4. CASE n = nextPid
    <3>1. tab[n] = EmptyTable /\ pc[n] = "scan"
      BY <2>2, <2>4, NextPid DEF Fresh, TypeOK
    <3>2. QED
      BY <2>3, <3>1 DEF TrackedAt, Storing, EmptyTable
  <2>5. CASE n # nextPid
    <3>1. n \in Launched /\ n \in Pids /\ num'[n] = num[n]
      BY <1>2, <2>3, <2>5 DEF Launch, Launched, Masters, TypeOK
    <3>2. ASSUME NEW c \in Pids \cup {NoPid}, Kept(n, i, c)
          PROVE  Kept(n, i, c)'
      BY <1>2, <2>2, <2>3, <3>2 DEF Launch, Kept, TypeOK
    <3>3. QED
      BY <2>1, <2>3, <3>1, <3>2, TrackedStays DEF Storing
  <2>6. QED
    BY <2>4, <2>5
<1>3. ASSUME NEW m \in Pids, Scan(m) PROVE Tracked'
  <2>1. SUFFICES ASSUME ResetStarts \subseteq {0, 1},
                        NEW n \in Launched', NEW i \in Slots
                 PROVE  TrackedAt(n, i)'
    BY DEF Tracked
  <2>2. n \in Launched /\ n \in Pids /\ UNCHANGED <<tab, num, child, role,
     parent, job, early>>
    BY <1>3 DEF Launched, Scan, Masters, kernelVars
  <2>3. Storing(n, i)' => Storing(n, i)
    BY <1>3, <2>2 DEF Scan, Goto, MasterAt, Storing, TypeOK
  <2>4. QED
    BY <2>1, <2>2, <2>3, TrackedStays DEF Kept
<1>4. ASSUME NEW m \in Pids, Wake(m) PROVE Tracked'
  <2>1. SUFFICES ASSUME ResetStarts \subseteq {0, 1},
                        NEW n \in Launched', NEW i \in Slots
                 PROVE  TrackedAt(n, i)'
    BY DEF Tracked
  <2>2. n \in Launched /\ n \in Pids /\ UNCHANGED <<tab, num, child, role,
     parent, job, early>>
    BY <1>4 DEF Launched, Wake, Masters, kernelVars
  <2>3. Storing(n, i)' => Storing(n, i)
    BY <1>4, <2>2 DEF Wake, Goto, MasterAt, Storing, TypeOK
  <2>4. QED
    BY <2>1, <2>2, <2>3, TrackedStays DEF Kept
<1>5. ASSUME NEW m \in Pids, StartLogged(m) PROVE Tracked'
  <2>1. SUFFICES ASSUME ResetStarts \subseteq {0, 1},
                        NEW n \in Launched', NEW i \in Slots
                 PROVE  TrackedAt(n, i)'
    BY DEF Tracked
  <2>2. n \in Launched /\ n \in Pids /\ UNCHANGED <<tab, num, child, role,
     parent, job, early>>
    BY <1>5 DEF Launched, StartLogged, Masters, kernelVars
  <2>3. Storing(n, i)' => Storing(n, i)
    BY <1>5, <2>2 DEF StartLogged, Goto, MasterAt, Storing, TypeOK
  <2>4. QED
    BY <2>1, <2>2, <2>3, TrackedStays DEF Kept
<1>6. ASSUME NEW m \in Pids, StartFails(m) PROVE Tracked'
  <2>1. SUFFICES ASSUME ResetStarts \subseteq {0, 1},
                        NEW n \in Launched', NEW i \in Slots
                 PROVE  TrackedAt(n, i)'
    BY DEF Tracked
  <2>2. n \in Launched /\ n \in Pids /\ n # NoPid /\ n # m
    BY <1>6 DEF Launched, StartFails, Gone, MasterAt, Masters, TypeOK, Pids,
       NoPid
  <2>3. UNCHANGED <<tab, num, child, job, early, pc, idx>>
    BY <1>6 DEF StartFails, masterVars
  <2>4. ASSUME NEW c \in Pids \cup {NoPid}, Kept(n, i, c) PROVE Kept(n, i, c)'
    BY <1>6, <2>2, <2>3, <2>4 DEF StartFails, Gone, Zombies, Kept, TypeOK
  <2>5. QED
    BY <2>1, <2>2, <2>3, <2>4, TrackedStays DEF Storing
<1>7. ASSUME NEW m \in Pids, Fork(m) PROVE Tracked'
  <2>1. SUFFICES ASSUME ResetStarts \subseteq {0, 1},
                        NEW n \in Launched', NEW i \in Slots
                 PROVE  TrackedAt(n, i)'
    BY DEF Tracked
  <2>2. nextPid \in Pids /\ role[nextPid] = "none" /\ m # nextPid
    BY <1>7, NextPid DEF Fork, MasterAt, Fresh, TypeOK
  <2>3. n \in Launched /\ n \in Pids /\ n # nextPid
    BY <1>7, <2>2 DEF Launched, Fork, Masters, TypeOK
  <2>4. tab'[n] = tab[n] /\ num'[n] = num[n] /\ UNCHANGED <<idx, early>>
    BY <1>7, <2>3 DEF Fork, TypeOK
  <2>5. ASSUME NEW c \in Pids \cup {NoPid}, Kept(n, i, c) PROVE Kept(n, i, c)'
    BY <1>7, <2>2, <2>5 DEF Fork, Kept, TypeOK
  <2>6. CASE n = m
    <3>1. /\ role'[nextPid] = "forked" /\ parent'[nextPid] = m
          /\ job'[nextPid] = idx[m] /\ child'[m] = nextPid
      BY <1>7, <2>2 DEF Fork, TypeOK
    <3>2. Storing(n, i)' => Kept(n, i, child[n])'
      BY <2>2, <2>4, <2>6, <3>1 DEF Storing, Kept
    <3>3. tab[n][i].pid \in Pids \cup {NoPid}
      BY <2>3 DEF TypeOK
    <3>4. QED
      BY <2>1, <2>3, <2>4, <2>5, <3>2, <3>3 DEF Tracked, TrackedAt
  <2>7. CASE n # m
    <3>1. child'[n] = child[n] /\ pc'[n] = pc[n]
      BY <1>7, <2>3, <2>7 DEF Fork, Goto, TypeOK
    <3>2. QED
      BY <2>1, <2>3, <2>4, <2>5, <3>1, TrackedStays DEF Storing
  <2>8. QED
    BY <2>6, <2>7
<1>8. ASSUME NEW m \in Pids, StorePid(m) PROVE Tracked'
  <2>1. SUFFICES ASSUME ResetStarts \subseteq {0, 1},
                        NEW n \in Launched', NEW i \in Slots
                 PROVE  TrackedAt(n, i)'
    BY DEF Tracked
  <2>2. n \in Launched /\ n \in Pids
    BY <1>8 DEF Launched, StorePid, kernelVars, Masters
  <2>3. UNCHANGED <<num, child, role, parent, job, early, idx>>
    BY <1>8 DEF StorePid, kernelVars
  <2>4. Storing(n, i)' => Storing(n, i)
    BY <1>8, <2>2, <2>3 DEF StorePid, MasterAt, Goto, Storing, TypeOK
  <2>5. CASE n = m /\ i = idx[m]
    <3>1. tab[m][i].flag = 0
      BY <1>8, <2>5 DEF StorePid, MasterAt, Scanning, Masters
    <3>2. tab[m] \in [Slots -> [flag : {0, 1}, pid : Pids \cup {NoPid}]]
      BY DEF TypeOK
    <3>3. tab'[m][i].flag = 0
      BY <1>8, <2>5, <3>1, <3>2 DEF StorePid, TypeOK
    <3>4. QED
      BY <2>1, <2>2, <2>3, <2>4, <2>5, <3>3 DEF Tracked, TrackedAt, Kept
  <2>6. CASE n # m \/ i # idx[m]
    <3>1. tab'[n][i] = tab[n][i]
      BY <1>8, <2>2, <2>6 DEF StorePid, TypeOK
    <3>2. QED
      BY <2>1, <2>2, <2>3, <2>4, <3>1, TrackedStays DEF Kept
  <2>7. QED
    BY <2>5, <2>6
<1>9. ASSUME NEW m \in Pids, StoreFlag(m) PROVE Tracked'
  <2>1. SUFFICES ASSUME ResetStarts \subseteq {0, 1},
                        NEW n \in Launched', NEW i \in Slots
                 PROVE  TrackedAt(n, i)'
    BY DEF Tracked
  <2>2. n \in Launched /\ n \in Pids
    BY <1>9 DEF Launched, StoreFlag, kernelVars, Masters
  <2>3. UNCHANGED <<num, child, role, parent, job, early>>
    BY <1>9 DEF StoreFlag, kernelVars
  <2>4. Storing(n, i)' => Storing(n, i)
    BY <1>9, <2>2 DEF StoreFlag, MasterAt, Goto, Storing, TypeOK
  <2>5. CASE n = m /\ i = idx[m]
    <3>1. pc[m] = "storeFlag" /\ i <= num[m] /\ tab[m][i].pid = child[m]
      BY <1>9, <2>2, <2>5 DEF StoreFlag, MasterAt, Scanning, Launched
    <3>2. Kept(n, i, child[n])
      BY <2>1, <2>2, <2>5, <3>1 DEF Tracked, TrackedAt, Storing
    <3>3. tab[m] \in [Slots -> [flag : {0, 1}, pid : Pids \cup {NoPid}]]
      BY DEF TypeOK
    <3>4. tab'[m][i].pid = child[m]
      BY <1>9, <2>5, <3>1, <3>3 DEF StoreFlag, TypeOK
    <3>5. QED
      BY <2>3, <2>5, <3>1, <3>2, <3>4 DEF TrackedAt, Kept
  <2>6. CASE n # m \/ i # idx[m]
    <3>1. tab'[n][i] = tab[n][i]
      BY <1>9, <2>2, <2>6 DEF StoreFlag, TypeOK
    <3>2. QED
      BY <2>1, <2>2, <2>3, <2>4, <3>1, TrackedStays DEF Kept
  <2>7. QED
    BY <2>5, <2>6
<1>10. ASSUME NEW m \in Pids, Sigchld(m) PROVE Tracked'
  <2>1. SUFFICES ASSUME ResetStarts \subseteq {0, 1},
                        NEW n \in Launched', NEW i \in Slots
                 PROVE  TrackedAt(n, i)'
    BY DEF Tracked
  <2>2. PICK dead \in SUBSET Pids : Reaped(m, dead)
    BY <1>10, HandlerReaps
  <2>3. n \in Launched /\ n \in Pids
    BY <1>10, <2>2 DEF Launched, Reaped, Masters, Sigchld
  <2>4. UNCHANGED <<num, child, parent, job, idx>>
    BY <1>10 DEF Sigchld
  <2>5. ASSUME NEW c \in Pids \cup {NoPid}, Kept(n, i, c),
               n # m \/ c \notin dead
        PROVE  Kept(n, i, c)'
    BY <2>2, <2>4, <2>5 DEF Kept, Reaped, Zombies
  <2>6. Storing(n, i)' => Storing(n, i)
    BY <2>2, <2>3, <2>4 DEF Reaped, Storing, TypeOK
  <2>7. /\ tab[n][i] \in [flag : {0, 1}, pid : Pids \cup {NoPid}]
        /\ child[n] \in Pids \cup {NoPid}
    BY <2>3 DEF TypeOK
  <2>8. CASE n # m
    <3>1. tab'[n][i] = tab[n][i]
      BY <2>2, <2>3, <2>8 DEF Reaped
    <3>2. QED
      BY <2>1, <2>3, <2>4, <2>5, <2>6, <2>8, <3>1, TrackedStays
  <2>9. CASE n = m
    <3>1. TrackedAt(m, i)
      BY <2>1, <2>3, <2>9 DEF Tracked
    <3>2. tab'[m][i].flag = 1
            => i <= num[m] /\ tab'[m][i].pid \notin dead
               /\ tab'[m][i] = tab[m][i]
      BY <2>1, <2>2, <3>1 DEF Reaped, TrackedAt
    <3>3. ASSUME Storing(m, i)', child[m] \in dead PROVE Kept(m, i, child[m])'
      <4>1. Storing(m, i) /\ Kept(m, i, child[m])
        BY <2>6, <2>9, <3>1, <3>3 DEF TrackedAt
      <4>2. CASE <<m, i>> \in early
        BY <2>2, <4>2 DEF Reaped, Kept
      <4>3. CASE job[child[m]] = i
        BY <2>2, <3>3, <4>1, <4>3 DEF Reaped, Kept
      <4>4. QED
        BY <4>1, <4>2, <4>3 DEF Kept
    <3>4. QED
      BY <2>4, <2>5, <2>6, <2>7, <2>9, <3>1, <3>2, <3>3 DEF TrackedAt
  <2>10. QED
    BY <2>8, <2>9
<1>11. ASSUME NEW q \in Pids, Exec(q) PROVE Tracked'
  <2>1. SUFFICES ASSUME ResetStarts \subseteq {0, 1},
                        NEW n \in Launched', NEW i \in Slots
                 PROVE  TrackedAt(n, i)'
    BY DEF Tracked
  <2>2. n \in Launched /\ n \in Pids
    BY <1>11 DEF Launched, Exec, Masters, TypeOK
  <2>3. UNCHANGED <<tab, num, child, parent, job, early, pc, idx>>
    BY <1>11 DEF Exec, masterVars
  <2>4. ASSUME NEW c \in Pids \cup {NoPid}, Kept(n, i, c) PROVE Kept(n, i, c)'
    BY <1>11, <2>3, <2>4 DEF Exec, Kept, TypeOK
  <2>5. QED
    BY <2>1, <2>2, <2>3, <2>4, TrackedStays DEF Storing
<1>12. ASSUME NEW q \in Pids, ExecFails(q) PROVE Tracked'
  <2>1. SUFFICES ASSUME ResetStarts \subseteq {0, 1},
                        NEW n \in Launched', NEW i \in Slots
                 PROVE  TrackedAt(n, i)'
    BY DEF Tracked
  <2>2. job[q] # 0
    BY <1>12, ConstantsAssumption DEF ExecFails, Born, Running, Slots
  <2>3. n # q /\ n \in Launched /\ n \in Pids
    BY <1>12, <2>2 DEF ExecFails, Launched, Masters, TypeOK
  <2>4. UNCHANGED <<num, child, parent, job, early, pc>>
    BY <1>12 DEF ExecFails
  <2>5. tab'[n] = tab[n] /\ idx'[n] = idx[n]
    BY <1>12, <2>3 DEF ExecFails, TypeOK
  <2>6. ASSUME NEW c \in Pids \cup {NoPid}, Kept(n, i, c) PROVE Kept(n, i, c)'
    BY <1>12, <2>4, <2>6 DEF ExecFails, Kept, TypeOK
  <2>7. QED
    BY <2>1, <2>3, <2>4, <2>5, <2>6, TrackedStays DEF Storing
<1>13. ASSUME NEW q \in Pids, Die(q) PROVE Tracked'
  <2>1. SUFFICES ASSUME ResetStarts \subseteq {0, 1},
                        NEW n \in Launched', NEW i \in Slots
                 PROVE  TrackedAt(n, i)'
    BY DEF Tracked
  <2>2. n \in Launched /\ n \in Pids /\ n # NoPid /\ n # q
    BY <1>13 DEF Launched, Die, Gone, Masters, TypeOK, Pids, NoPid
  <2>3. UNCHANGED <<tab, num, child, job, early, pc, idx>>
    BY <1>13 DEF Die, masterVars
  <2>4. ASSUME NEW c \in Pids \cup {NoPid}, Kept(n, i, c) PROVE Kept(n, i, c)'
    BY <1>13, <2>2, <2>3, <2>4 DEF Die, Gone, Zombies, Kept, TypeOK
  <2>5. QED
    BY <2>1, <2>2, <2>3, <2>4, TrackedStays DEF Storing
<1>14. QED
  BY <1>1, <1>2, <1>3, <1>4, <1>5, <1>6, <1>7, <1>8, <1>9, <1>10, <1>11,
     <1>12, <1>13 DEF Next, MasterStep

-----------------------------------------------------------------------------
(* The refinement: as long as no execl() has failed, one family of agents.  *)

NoneTurned == \A q \in Pids : ~Turned(q)

\* The masters are those of launches.
NoStrays == \A m \in Masters : job[m] = 0

\* Agents keep the lock, and are all of the launched master, if one is left.
Kin ==
  \A q \in Pids : Running(q) =>
    q \in lock /\ \A m \in Launched : parent[q] = m

\* A slot has one agent, whoever its parent is.
OneAnywhere ==
  \A q, r \in Pids : Running(q) /\ Running(r) /\ job[q] = job[r] => q = r

\* Pids that were not handed out have no slot.
Unborn == \A q \in Pids : q >= nextPid => job[q] = 0

Together == NoStrays /\ Kin /\ OneAnywhere

OneFamily == NoneTurned => Together

FInv == Unborn /\ OneFamily

LEMMA UnbornNext ==
  ASSUME TypeOK, Unborn, [Next]_vars
  PROVE  Unborn'
<1>1. nextPid \in Nat /\ Pids \subseteq Nat /\ job \in [Pids -> Slots \cup {0}]
  BY ConstantsAssumption DEF TypeOK, Pids
<1>2. ASSUME UNCHANGED <<job, nextPid>> PROVE Unborn'
  BY <1>2 DEF Unborn
<1>3. ASSUME NEW n \in ProcNums, Launch(n) PROVE Unborn'
  <2>1. nextPid' = nextPid + 1 /\ job' = job
    BY <1>3 DEF Launch
  <2>2. QED
    BY <1>1, <2>1 DEF Unborn
<1>4. ASSUME NEW m \in Pids, Fork(m) PROVE Unborn'
  <2>1. nextPid' = nextPid + 1 /\ job' = [job EXCEPT ![nextPid] = idx[m]]
    BY <1>4 DEF Fork
  <2>2. ASSUME NEW q \in Pids, q >= nextPid' PROVE job'[q] = 0
    <3>1. q # nextPid /\ q >= nextPid
      BY <1>1, <2>1, <2>2
    <3>2. job'[q] = job[q]
      BY <1>1, <2>1, <3>1
    <3>3. QED
      BY <3>1, <3>2 DEF Unborn
  <2>3. QED
    BY <2>2 DEF Unborn
<1>5. CASE UNCHANGED vars
  BY <1>2, <1>5 DEF vars, kernelVars
<1>6. ASSUME NEW m \in Pids, \/ Scan(m) \/ Wake(m) \/ StartLogged(m)
                             \/ StorePid(m) \/ StoreFlag(m)
      PROVE  Unborn'
  BY <1>2, <1>6
     DEF Scan, Wake, StartLogged, StorePid, StoreFlag, kernelVars
<1>7. ASSUME NEW q \in Pids, \/ StartFails(q) \/ Sigchld(q) \/ Exec(q)
                             \/ ExecFails(q) \/ Die(q)
      PROVE  Unborn'
  BY <1>2, <1>7 DEF StartFails, Sigchld, Exec, ExecFails, Die
<1>8. QED
  BY <1>3, <1>4, <1>5, <1>6, <1>7 DEF Next, MasterStep

\* A child whose execl() has failed stays known for it.
LEMMA TurnedStays ==
  ASSUME TypeOK, Fresh, Scanning, [Next]_vars, NEW q \in Pids, Turned(q)
  PROVE  Turned(q)'
<1>1. job[q] \in Slots /\ job \in [Pids -> Slots \cup {0}]
  BY DEF Turned, TypeOK
<1>2. /\ tab[q][job[q]] = [flag |-> 1, pid |-> NoPid]
      /\ tab[q][job[q]].flag = 1 /\ tab[q][job[q]].pid = NoPid
      /\ NoPid \notin Pids
  BY ConstantsAssumption DEF Turned, NoPid, Pids
<1>3. tab \in [Pids -> [Slots -> [flag : {0, 1}, pid : Pids \cup {NoPid}]]]
  BY DEF TypeOK
<1>4. ASSUME job'[q] = job[q], tab'[q][job[q]] = tab[q][job[q]]
      PROVE  Turned(q)'
  BY <1>4 DEF Turned
<1>5. ASSUME UNCHANGED <<job, tab>> PROVE Turned(q)'
  BY <1>5 DEF Turned
<1>6. CASE UNCHANGED vars
  BY <1>5, <1>6 DEF vars, kernelVars, masterVars
<1>7. ASSUME NEW n \in ProcNums, Launch(n) PROVE Turned(q)'
  BY <1>5, <1>7 DEF Launch
<1>8. ASSUME NEW m \in Pids, \/ Scan(m) \/ Wake(m) \/ StartLogged(m)
                             \/ StartFails(m)
      PROVE  Turned(q)'
  BY <1>5, <1>8
     DEF Scan, Wake, StartLogged, StartFails, kernelVars, masterVars
<1>9. ASSUME NEW m \in Pids, Fork(m) PROVE Turned(q)'
  <2>1. nextPid \in Pids /\ tab[nextPid] = EmptyTable
    <3>1. nextPid \in Pids /\ nextPid >= nextPid
      BY <1>9, NextPid, ConstantsAssumption DEF Fork, Pids
    <3>2. QED
      BY <3>1 DEF Fresh
  <2>2. q # nextPid
    <3>1. EmptyTable[job[q]].flag = 0
      BY <1>1 DEF EmptyTable
    <3>2. QED
      BY <1>2, <2>1, <3>1
  <2>3. job'[q] = job[q] /\ tab'[q] = tab[q]
    BY <1>1, <1>3, <1>9, <2>1, <2>2 DEF Fork
  <2>4. QED
    BY <1>4, <2>3
<1>10. ASSUME NEW m \in Pids, StorePid(m) \/ StoreFlag(m) PROVE Turned(q)'
  <2>1. m \in Masters /\ pc[m] \in {"storePid", "storeFlag"}
    BY <1>10 DEF StorePid, StoreFlag, MasterAt, Masters
  <2>2. tab[m][idx[m]].flag = 0
    BY <2>1 DEF Scanning
  <2>3. ~(q = m /\ idx[m] = job[q])
    BY <1>2, <2>2
  <2>4. tab'[q][job[q]] = tab[q][job[q]]
    <3>1. CASE StorePid(m)
      BY <1>1, <1>3, <2>3, <3>1 DEF StorePid
    <3>2. CASE StoreFlag(m)
      BY <1>1, <1>3, <2>3, <3>2 DEF StoreFlag
    <3>3. QED
      BY <1>10, <3>1, <3>2
  <2>5. job' = job
    BY <1>10 DEF StorePid, StoreFlag, kernelVars
  <2>6. QED
    BY <1>4, <2>4, <2>5
<1>11. ASSUME NEW m \in Pids, Sigchld(m) PROVE Turned(q)'
  <2>1. PICK dead \in SUBSET Pids : Reaped(m, dead)
    BY <1>11, HandlerReaps
  <2>2. tab'[q][job[q]] = tab[q][job[q]]
    BY <1>1, <1>2, <2>1 DEF Reaped
  <2>3. job' = job
    BY <1>11 DEF Sigchld
  <2>4. QED
    BY <1>4, <2>2, <2>3
<1>12. ASSUME NEW r \in Pids, Exec(r) \/ Die(r) PROVE Turned(q)'
  BY <1>5, <1>12 DEF Exec, Die, masterVars
<1>13. ASSUME NEW r \in Pids, ExecFails(r) PROVE Turned(q)'
  <2>1. tab'[q][job[q]] = tab[q][job[q]]
    <3>1. CASE r = q
      BY <1>1, <1>2, <1>3, <1>13, <3>1 DEF ExecFails, NoPid
    <3>2. CASE r # q
      BY <1>3, <1>13, <3>2 DEF ExecFails
    <3>3. QED
      BY <3>1, <3>2
  <2>2. job' = job
    BY <1>13 DEF ExecFails
  <2>3. QED
    BY <1>4, <2>1, <2>2
<1>14. QED
  BY <1>6, <1>7, <1>8, <1>9, <1>10, <1>11, <1>12, <1>13 DEF Next, MasterStep

\* What a failing execl() leaves is a child known for it.
LEMMA TurnsOver ==
  ASSUME TypeOK, Born, NEW q \in Pids, ExecFails(q)
  PROVE  Turned(q)'
<1>1. job[q] \in Slots /\ job[q] # 0
  BY ConstantsAssumption DEF ExecFails, Born, Running, Slots
<1>2. tab'[q][job[q]] = [flag |-> 1, pid |-> 0] /\ job' = job
  BY <1>1 DEF ExecFails, TypeOK
<1>3. QED
  BY <1>1, <1>2 DEF Turned, NoPid

Served == Service!Next \/ UNCHANGED Service!vars

\* Steps of main() between forks, of the handler, and an execl().
LEMMA QuietStep ==
  ASSUME Together, Masters' = Masters, UNCHANGED <<job, parent, lock>>,
         \A q \in Pids : Running(q)' <=> Running(q)
  PROVE  Together' /\ Served
<1>1. Launched' = Launched
  BY DEF Launched
<1>2. AgentsFor' = AgentsFor
  BY DEF AgentsFor
<1>3. NoStrays' /\ Kin' /\ OneAnywhere'
  BY <1>1 DEF Together, NoStrays, Kin, OneAnywhere
<1>4. QED
  BY <1>1, <1>2, <1>3 DEF Together, Served, Service!vars

\* A launch is refused, or there is neither a master nor an agent.
LEMMA LaunchStep ==
  ASSUME IInv, FInv, Together, NEW n \in ProcNums, Launch(n)
  PROVE  Together' /\ Served
<1>1. nextPid \in Pids /\ job[nextPid] = 0 /\ role[nextPid] = "none"
  <2>1. nextPid \in Pids /\ nextPid >= nextPid
    BY NextPid, ConstantsAssumption DEF Launch, IInv, Pids
  <2>2. QED
    BY <2>1 DEF IInv, Fresh, FInv, Unborn
<1>2. UNCHANGED <<job, parent>>
  BY DEF Launch
<1>3. CASE lock # {}
  BY <1>2, <1>3, QuietStep DEF Launch, LockFree, Masters, Running
<1>4. CASE lock = {}
  <2>1. role' = [role EXCEPT ![nextPid] = "master"]
    BY <1>4 DEF Launch, LockFree
  <2>2. ASSUME NEW q \in Pids
        PROVE  ~Running(q) /\ ~Running(q)'
    <3>1. ~Running(q)
      BY <1>4 DEF Together, Kin
    <3>2. role'[q] = role[q] \/ role'[q] = "master"
      BY <2>1 DEF IInv, TypeOK
    <3>3. QED
      BY <3>1, <3>2 DEF Running
  <2>3. Launched = {}
    BY <1>4 DEF IInv, LockHeld
  <2>4. nextPid \in Launched'
    BY <1>1, <1>2, <2>1 DEF Launched, Masters, IInv, TypeOK
  <2>5. AgentsFor = [i \in Slots |-> {}] /\ AgentsFor' = AgentsFor
    BY <2>2 DEF AgentsFor
  <2>6. Service!Launch
    BY <2>3, <2>4, <2>5 DEF Service!Launch
  <2>7. NoStrays'
    BY <1>1, <1>2, <2>1 DEF Together, NoStrays, Masters, IInv, TypeOK
  <2>8. Kin' /\ OneAnywhere'
    BY <2>2 DEF Kin, OneAnywhere
  <2>9. QED
    BY <2>6, <2>7, <2>8 DEF Together, Served, Service!Next
<1>5. QED
  BY <1>3, <1>4

\* The slot that main() forks for has no agent anywhere: one of the master's
\* own would be in its table, and there is no other master's.
LEMMA ForkStep ==
  ASSUME IInv, FInv, Together, NEW m \in Pids, Fork(m)
  PROVE  Together' /\ Served
<1>1. PICK c \in Pids : c = nextPid /\ role[c] = "none"
  <2>1. nextPid \in Pids /\ nextPid >= nextPid
    BY NextPid, ConstantsAssumption DEF Fork, IInv, Pids
  <2>2. QED
    BY <2>1 DEF IInv, Fresh
<1>2. m \in Launched /\ role[m] = "master" /\ pc[m] = "fork"
  BY DEF Fork, MasterAt, Masters, Launched, Together, NoStrays
<1>3. /\ idx[m] \in Slots
      /\ tab[m][idx[m]].flag = 0
  <2>1. /\ num[m] \in ProcNums /\ idx[m] <= num[m]
        /\ tab[m][idx[m]].flag = 0
    BY <1>2 DEF IInv, Scanning, Launched
  <2>2. idx[m] \in Nat \ {0}
    BY DEF IInv, TypeOK
  <2>3. QED
    BY <2>1, <2>2, SlotInRange
<1>4. /\ role' = [role EXCEPT ![c] = "forked"]
      /\ parent' = [parent EXCEPT ![c] = m]
      /\ job' = [job EXCEPT ![c] = idx[m]]
      /\ lock' = lock \cup (IF m \in lock THEN {c} ELSE {})
  BY <1>1 DEF Fork
<1>5. /\ Running(c)' /\ ~Running(c)
      /\ parent'[c] = m /\ job'[c] = idx[m]
      /\ c \notin Masters /\ c \notin Masters'
  <2>1. /\ role'[c] = "forked"
        /\ parent'[c] = m /\ job'[c] = idx[m]
    BY <1>1, <1>4 DEF IInv, TypeOK
  <2>2. QED
    BY <1>1, <2>1 DEF Running, Masters
<1>6. ASSUME NEW q \in Pids, q # c
      PROVE  /\ Running(q)' <=> Running(q)
             /\ job'[q] = job[q] /\ parent'[q] = parent[q]
             /\ role'[q] = role[q]
  BY <1>4, <1>6 DEF Running, IInv, TypeOK
<1>7. Masters' = Masters
  <2>1. ASSUME NEW q \in Pids PROVE q \in Masters' <=> q \in Masters
    BY <1>5, <1>6, <2>1 DEF Masters
  <2>2. QED
    BY <2>1 DEF Masters
<1>8. Launched' = Launched
  <2>1. ASSUME NEW q \in Masters PROVE job'[q] = job[q]
    BY <1>5, <1>6, <2>1 DEF Masters
  <2>2. QED
    BY <1>7, <2>1 DEF Launched
<1>9. \A l \in Launched : l = m
  BY <1>2 DEF IInv, OneLaunched
<1>10. ASSUME NEW q \in Pids, Running(q) PROVE job[q] # idx[m]
  <2>1. parent[q] = m /\ m # NoPid
    BY <1>2, <1>10, ConstantsAssumption DEF Together, Kin, NoPid, Pids
  <2>2. CASE tab[m][job[q]] = [flag |-> 1, pid |-> q]
    BY <1>3, <2>2
  <2>3. QED
    BY <1>2, <1>10, <2>1, <2>2 DEF IInv, Recorded, Storing
<1>11. NoStrays'
  BY <1>5, <1>6, <1>7 DEF Together, NoStrays, Masters
<1>12. Kin'
  <2>1. ASSUME NEW q \in Pids, Running(q)'
        PROVE  q \in lock' /\ \A l \in Launched' : parent'[q] = l
    <3>1. CASE q = c
      <4>1. m \in lock
        BY <1>2 DEF IInv, LockHeld
      <4>2. QED
        BY <1>4, <1>5, <1>8, <1>9, <3>1, <4>1
    <3>2. CASE q # c
      BY <1>4, <1>6, <1>8, <2>1, <3>2 DEF Together, Kin
    <3>3. QED
      BY <3>1, <3>2
  <2>2. QED
    BY <2>1 DEF Kin
<1>13. OneAnywhere'
  <2>1. ASSUME NEW q \in Pids, NEW r \in Pids,
               Running(q)', Running(r)', job'[q] = job'[r], q # r
        PROVE  FALSE
    <3>1. CASE q # c /\ r # c
      BY <1>6, <2>1, <3>1 DEF Together, OneAnywhere
    <3>2. CASE q = c
      BY <1>5, <1>6, <1>10, <2>1, <3>2
    <3>3. CASE r = c
      BY <1>5, <1>6, <1>10, <2>1, <3>3
    <3>4. QED
      BY <3>1, <3>2, <3>3
  <2>2. QED
    BY <2>1 DEF OneAnywhere
<1>14. Service!Start(idx[m])
  <2>1. AgentsFor[idx[m]] = {} /\ Launched # {} /\ Launched' = Launched
    BY <1>2, <1>3, <1>8, <1>10 DEF AgentsFor
  <2>2. \A j \in Slots : c \notin AgentsFor[j]
    BY <1>5 DEF AgentsFor
  <2>3. ASSUME NEW i \in Slots
        PROVE  AgentsFor'[i] = IF i = idx[m] THEN {c}
                                             ELSE AgentsFor[i]
    <3>1. AgentsFor'[i] = {q \in Pids : Running(q)' /\ job'[q] = i}
      BY DEF AgentsFor
    <3>2. AgentsFor[i] = {q \in Pids : Running(q) /\ job[q] = i}
      BY DEF AgentsFor
    <3>3. CASE i = idx[m]
      <4>1. ASSUME NEW q \in Pids
            PROVE  Running(q)' /\ job'[q] = i <=> q = c
        BY <1>5, <1>6, <1>10, <3>3, <4>1
      <4>2. QED
        BY <1>1, <3>1, <3>3, <4>1
    <3>4. CASE i # idx[m]
      BY <1>1, <1>5, <1>6, <3>1, <3>2, <3>4
    <3>5. QED
      BY <3>3, <3>4
  <2>4. AgentsFor' = [AgentsFor EXCEPT ![idx[m]] = {c}]
    BY <2>3 DEF AgentsFor
  <2>5. QED
    BY <1>1, <2>1, <2>2, <2>4 DEF Service!Start
<1>15. QED
  BY <1>3, <1>11, <1>12, <1>13, <1>14 DEF Together, Served, Service!Next

\* The end of a process: of the master, or of an agent or child for a slot.
LEMMA EndStep ==
  ASSUME IInv, FInv, Together, NEW q \in Pids, Gone(q), UNCHANGED job,
         Running(q) \/ q \in Masters
  PROVE  Together' /\ Served
<1>1. ASSUME NEW r \in Pids, r # q
      PROVE  /\ Running(r)' <=> Running(r)
             /\ r \in Masters' <=> r \in Masters
             /\ parent'[r] = IF parent[r] = q THEN NoPid ELSE parent[r]
  BY <1>1 DEF Gone, Zombies, Running, Masters, IInv, TypeOK
<1>2. ~Running(q)' /\ q \notin Masters'
  BY DEF Gone, Running, Masters, IInv, TypeOK
<1>3. lock' = lock \ {q}
  BY DEF Gone
<1>4. Masters' \subseteq Masters
  BY <1>1, <1>2 DEF Masters
<1>5. NoStrays'
  BY <1>4 DEF Together, NoStrays
<1>6. OneAnywhere'
  BY <1>1, <1>2 DEF Together, OneAnywhere
<1>7. Launched' = Launched \ {q}
  BY <1>1, <1>2 DEF Launched, Masters
<1>8. CASE q \in Masters
  <2>1. q \in Launched /\ Launched' = {}
    BY <1>7, <1>8 DEF Together, NoStrays, Launched, IInv, OneLaunched
  <2>2. ~Running(q)
    BY <1>8 DEF Masters, Running
  <2>3. Kin'
    BY <1>1, <1>2, <1>3, <2>1 DEF Together, Kin
  <2>4. AgentsFor' = AgentsFor
    BY <1>1, <1>2, <2>2 DEF AgentsFor
  <2>5. Service!Stop
    BY <2>1, <2>4 DEF Service!Stop
  <2>6. QED
    BY <1>5, <1>6, <2>3, <2>5 DEF Together, Served, Service!Next
<1>9. CASE Running(q)
  <2>1. q \notin Masters /\ Launched' = Launched
    BY <1>7, <1>9 DEF Running, Masters, Launched
  <2>2. Kin'
    <3>1. ASSUME NEW r \in Pids, Running(r)', NEW m \in Launched'
          PROVE  r \in lock' /\ parent'[r] = m
      <4>1. r # q /\ Running(r) /\ m \in Launched /\ m # q
        BY <1>1, <1>2, <2>1, <3>1 DEF Launched
      <4>2. r \in lock /\ parent[r] = m
        BY <4>1 DEF Together, Kin
      <4>3. QED
        BY <1>1, <1>3, <4>1, <4>2
    <3>2. ASSUME NEW r \in Pids, Running(r)' PROVE r \in lock'
      BY <1>1, <1>2, <1>3, <3>2 DEF Together, Kin
    <3>3. QED
      BY <3>1, <3>2 DEF Kin
  <2>3. job[q] \in Slots
    BY <1>9 DEF IInv, Born
  <2>4. ASSUME NEW i \in Slots
        PROVE  AgentsFor'[i] = IF i = job[q] THEN {} ELSE AgentsFor[i]
    <3>1. AgentsFor'[i] = {r \in Pids : Running(r)' /\ job[r] = i}
      BY DEF AgentsFor
    <3>2. AgentsFor[i] = {r \in Pids : Running(r) /\ job[r] = i}
      BY DEF AgentsFor
    <3>3. CASE i = job[q]
      BY <1>1, <1>2, <1>9, <3>1, <3>3 DEF Together, OneAnywhere
    <3>4. CASE i # job[q]
      BY <1>1, <1>2, <3>1, <3>2, <3>4
    <3>5. QED
      BY <3>3, <3>4
  <2>5. AgentsFor' = [AgentsFor EXCEPT ![job[q]] = {}]
    BY <2>4 DEF AgentsFor
  <2>6. AgentsFor[job[q]] # {}
    BY <1>9, <2>3 DEF AgentsFor
  <2>7. Service!End(job[q])
    BY <2>1, <2>5, <2>6 DEF Service!End
  <2>8. QED
    BY <1>5, <1>6, <2>2, <2>3, <2>7 DEF Together, Served, Service!Next
<1>10. QED
  BY <1>8, <1>9

\* As long as no execl() fails, each step keeps the family together and is
\* one of the abstract service.
LEMMA FamilyStep ==
  ASSUME IInv, FInv, NoneTurned, NoneTurned', [Next]_vars
  PROVE  Together' /\ Served
<1>1. Together
  BY DEF FInv, OneFamily
<1>2. CASE UNCHANGED vars
  BY <1>1, <1>2, QuietStep
     DEF vars, kernelVars, masterVars, Masters, Running
<1>3. ASSUME NEW n \in ProcNums, Launch(n) PROVE Together' /\ Served
  BY <1>1, <1>3, LaunchStep
<1>4. ASSUME NEW m \in Pids, \/ Scan(m) \/ Wake(m) \/ StartLogged(m)
                             \/ StorePid(m) \/ StoreFlag(m)
      PROVE  Together' /\ Served
  <2>1. UNCHANGED kernelVars
    BY <1>4 DEF Scan, Wake, StartLogged, StorePid, StoreFlag
  <2>2. QED
    BY <1>1, <2>1, QuietStep DEF kernelVars, Masters, Running
<1>5. ASSUME NEW m \in Pids, StartFails(m) PROVE Together' /\ Served
  BY <1>1, <1>5, EndStep DEF StartFails, MasterAt, Masters
<1>6. ASSUME NEW m \in Pids, Fork(m) PROVE Together' /\ Served
  BY <1>1, <1>6, ForkStep
<1>7. ASSUME NEW m \in Pids, Sigchld(m) PROVE Together' /\ Served
  <2>1. PICK dead \in SUBSET Pids : Reaped(m, dead)
    BY <1>7, HandlerReaps DEF IInv
  <2>2. ASSUME NEW q \in Pids
        PROVE  /\ Running(q)' <=> Running(q)
               /\ role'[q] = "master" <=> role[q] = "master"
    BY <2>1 DEF Reaped, Zombies, Running, IInv, TypeOK
  <2>3. Masters' = Masters
    BY <2>2 DEF Masters
  <2>4. UNCHANGED <<job, parent, lock>>
    BY <1>7 DEF Sigchld
  <2>5. QED
    BY <1>1, <2>2, <2>3, <2>4, QuietStep
<1>8. ASSUME NEW q \in Pids, Exec(q) PROVE Together' /\ Served
  <2>1. ASSUME NEW r \in Pids
        PROVE  /\ Running(r)' <=> Running(r)
               /\ role'[r] = "master" <=> role[r] = "master"
    BY <1>8 DEF Exec, Running, IInv, TypeOK
  <2>2. Masters' = Masters
    BY <2>1 DEF Masters
  <2>3. UNCHANGED <<job, parent, lock>>
    BY <1>8 DEF Exec
  <2>4. QED
    BY <1>1, <2>1, <2>2, <2>3, QuietStep
<1>9. ASSUME NEW q \in Pids, ExecFails(q) PROVE Together' /\ Served
  BY <1>9, TurnsOver DEF IInv, NoneTurned
<1>10. ASSUME NEW q \in Pids, Die(q) PROVE Together' /\ Served
  BY <1>1, <1>10, EndStep DEF Die, Masters, Running
<1>11. QED
  BY <1>2, <1>3, <1>4, <1>5, <1>6, <1>7, <1>8, <1>9, <1>10 DEF Next, MasterStep

-----------------------------------------------------------------------------
(* The theorems.                                                           *)

LEMMA Inductive == Spec => []IInv
<1>1. Init => IInv
  BY InitIInv
<1>2. IInv /\ [Next]_vars => IInv'
  <2>1. SUFFICES ASSUME IInv, [Next]_vars PROVE IInv'
    OBVIOUS
  <2>2. TypeOK' /\ Fresh' /\ Family' /\ Born' /\ Scanning'
    BY <2>1, TypeNext, FreshNext, FamilyNext, BornNext, ScanningNext DEF IInv
  <2>3. Recorded' /\ DeathsAnnounced' /\ Tracked'
    BY <2>1, RecordedNext, AnnouncedNext, TrackedNext DEF IInv
  <2>4. LockHeld' /\ OneLaunched'
    BY <2>1, LockNext DEF IInv
  <2>5. QED
    BY <2>2, <2>3, <2>4 DEF IInv
<1>3. QED
  BY <1>1, <1>2, PTL DEF Spec

LEMMA FamilyInductive == Spec => []FInv
<1>1. Init => FInv
  <2>1. SUFFICES ASSUME Init PROVE FInv
    OBVIOUS
  <2>2. Masters = {} /\ \A q \in Pids : ~Running(q) /\ job[q] = 0
    BY <2>1 DEF Init, Masters, Running
  <2>3. QED
    BY <2>2 DEF FInv, Unborn, OneFamily, Together, NoStrays, Kin, OneAnywhere
<1>2. IInv /\ FInv /\ [Next]_vars => FInv'
  <2>1. SUFFICES ASSUME IInv, FInv, [Next]_vars PROVE FInv'
    OBVIOUS
  <2>2. Unborn'
    BY <2>1, UnbornNext DEF IInv, FInv
  <2>3. NoneTurned' => NoneTurned
    BY <2>1, TurnedStays DEF IInv, NoneTurned
  <2>4. OneFamily'
    BY <2>1, <2>3, FamilyStep DEF OneFamily
  <2>5. QED
    BY <2>2, <2>4 DEF FInv
<1>3. QED
  BY <1>1, <1>2, Inductive, PTL DEF Spec

\* The process table and the masters' memory keep their types: among them,
\* start_process() never stores beyond agents[] when -n is below MAX_PROC.
THEOREM TypeCorrect == Spec => []TypeOK
<1>1. IInv => TypeOK
  BY DEF IInv
<1>2. QED
  BY <1>1, Inductive, PTL

\* lock_check() keeps one launched master alive: while it lives, and while
\* any process it forked holds the lock file open, no other gets through.
THEOREM OneMasterAlive == Spec => []OneLaunched
<1>1. IInv => OneLaunched
  BY DEF IInv
<1>2. QED
  BY <1>1, Inductive, PTL

\* main()'s loop and the SIGCHLD handler together never run two agents of one
\* master for one slot, even if execl() may fail.
THEOREM OneAgent == Spec => []OneAgentPerSlot
<1>1. IInv => OneAgentPerSlot
  <2>1. SUFFICES ASSUME IInv, NEW q \in Pids, NEW r \in Pids,
                        Running(q), Running(r), parent[q] = parent[r],
                        parent[q] # NoPid, job[q] = job[r]
                 PROVE  q = r
    BY DEF OneAgentPerSlot
  <2>2. DEFINE m == parent[q]
               i == job[q]
  <2>3. m \in Masters
    BY <2>1 DEF IInv, Family, Masters, TypeOK
  <2>4. \/ tab[m][i] = [flag |-> 1, pid |-> q]
        \/ Storing(m, i) /\ child[m] = q
    BY <2>1 DEF IInv, Recorded
  <2>5. \/ tab[m][i] = [flag |-> 1, pid |-> r]
        \/ Storing(m, i) /\ child[m] = r
    BY <2>1 DEF IInv, Recorded
  <2>6. Storing(m, i) => tab[m][i].flag = 0
    BY <2>1, <2>3 DEF IInv, Scanning, Storing
  <2>7. CASE Storing(m, i)
    BY <2>4, <2>5, <2>6, <2>7
  <2>8. CASE ~Storing(m, i)
    <3>1. [flag |-> 1, pid |-> q] = [flag |-> 1, pid |-> r]
      BY <2>4, <2>5, <2>8
    <3>2. QED
      BY <3>1
  <2>9. QED
    BY <2>7, <2>8
<1>2. QED
  BY <1>1, Inductive, PTL

\* sigchld_handler() never leaves a zombie behind that no SIGCHLD will
\* announce, unless it has blocked itself in log_error().
THEOREM AllAnnounced == Spec => []DeathsAnnounced
<1>1. IInv => DeathsAnnounced
  BY DEF IInv
<1>2. QED
  BY <1>1, Inductive, PTL

\* The one way for a slot to go on saying "running" after its agent was reaped
\* is the handler coming in before start_process() has stored the flag; if
\* reset_proc() begins no higher than slot 1.
THEOREM OnlyEarlyLost ==
  ResetStarts \subseteq {0, 1} => (Spec => []LostOnlyEarly)
<1>1. ASSUME ResetStarts \subseteq {0, 1}
      PROVE  IInv => LostOnlyEarly
  <2>1. SUFFICES ASSUME IInv, NEW m \in Launched, NEW i \in Slots,
                        tab[m][i].flag = 1, role[tab[m][i].pid] = "none"
                 PROVE  <<m, i>> \in early
    BY DEF LostOnlyEarly
  <2>2. TrackedAt(m, i)
    BY <1>1, <2>1 DEF IInv, Tracked
  <2>3. QED
    BY <2>1, <2>2 DEF TrackedAt, Kept
<1>2. ASSUME ResetStarts \subseteq {0, 1}
      PROVE  Spec => []LostOnlyEarly
  <2>1. IInv => LostOnlyEarly
    BY <1>1, <1>2
  <2>2. QED
    BY <2>1, Inductive, PTL
<1>3. QED
  BY <1>2

\* Across deaths, forks and launches, and for any number of processes and
\* slots, start_process() and lock_check() together give a slot one agent on
\* the whole host and make a new master wait for the last agent of the one
\* before, until an execl() has failed.
THEOREM ServedUntilTurned == Spec => ServiceUntilTurned
<1>1. IInv /\ FInv /\ [Next]_vars
      => [(\E q \in Pids : Turned(q))' \/ UNCHANGED Service!vars
          \/ Service!Next]_vars
  <2>1. SUFFICES ASSUME IInv, FInv, [Next]_vars, NoneTurned'
                 PROVE  UNCHANGED Service!vars \/ Service!Next
    BY DEF NoneTurned
  <2>2. NoneTurned
    BY <2>1, TurnedStays DEF IInv, NoneTurned
  <2>3. QED
    BY <2>1, <2>2, FamilyStep DEF Served
<1>2. QED
  BY <1>1, Inductive, FamilyInductive, PTL DEF Spec, ServiceUntilTurned

\* The same of whole behaviours: where no execl() fails, the master is an
\* implementation of the abstract service.
THEOREM ImplementsUnlessTurned == Spec /\ []NoneTurned => Service!Spec
<1>1. Init => Service!Init
  <2>1. SUFFICES ASSUME Init PROVE Service!Init
    OBVIOUS
  <2>2. Launched = {} /\ \A q \in Pids : ~Running(q)
    BY <2>1 DEF Init, Masters, Launched, Running
  <2>3. QED
    BY <2>2 DEF Service!Init, AgentsFor
<1>2. IInv /\ FInv /\ NoneTurned /\ NoneTurned' /\ [Next]_vars
      => [Service!Next]_Service!vars
  BY FamilyStep DEF Served
<1>3. QED
  BY <1>1, <1>2, Inductive, FamilyInductive, PTL DEF Spec, Service!Spec
=============================================================================
