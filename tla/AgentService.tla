---------------------------- MODULE AgentService -----------------------------
(***************************************************************************)
(* What the agent master promises a host, without its tables, its signals  *)
(* or its lock file: one master serves at a time, a slot has at most one   *)
(* agent wherever on the host it runs, agents outlive their master, and a  *)
(* new master serves only when the last of them is gone.                   *)
(***************************************************************************)
CONSTANTS
  Slots,   \* what there is to be an agent for
  Pids     \* the names of agents

VARIABLES
  up,      \* a master serves
  agents   \* the agents of each slot

vars == <<up, agents>>

Init == up = FALSE /\ agents = [i \in Slots |-> {}]

Launch ==
  /\ ~up /\ \A i \in Slots : agents[i] = {}
  /\ up' = TRUE
  /\ UNCHANGED agents

Start(i) ==
  /\ up /\ agents[i] = {}
  /\ \E q \in Pids :
       /\ \A j \in Slots : q \notin agents[j]
       /\ agents' = [agents EXCEPT ![i] = {q}]
  /\ UNCHANGED up

End(i) ==
  /\ agents[i] # {}
  /\ agents' = [agents EXCEPT ![i] = {}]
  /\ UNCHANGED up

Stop == up /\ up' = FALSE /\ UNCHANGED agents

Next == Launch \/ Stop \/ \E i \in Slots : Start(i) \/ End(i)

Spec == Init /\ [][Next]_vars
=============================================================================
