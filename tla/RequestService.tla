--------------------------- MODULE RequestService ----------------------------
(***************************************************************************)
(* What the web API server promises, without its sockets, its buffers or   *)
(* its rounds: requests are handled one at a time over all clients, those  *)
(* of a client in the order they were sent, each once and only when it has *)
(* arrived whole; one that asks for a reply has it before the next request *)
(* of anybody is handled, or its client is dropped; and a client that was  *)
(* dropped is not served again.                                            *)
(***************************************************************************)
EXTENDS Integers, Sequences

CONSTANT Clients

VARIABLES
  wants,    \* which requests of each client ask for a reply
  sent,     \* requests of each client that have arrived whole
  handled,  \* requests of each client that were handled
  owed,     \* who is to be given a reply
  over,     \* clients that were dropped
  up        \* the server runs

vars == <<wants, sent, handled, owed, over, up>>

Init ==
  /\ wants \in [Clients -> Seq(BOOLEAN)]
  /\ sent = [c \in Clients |-> 0] /\ handled = [c \in Clients |-> 0]
  /\ owed = {} /\ over = {} /\ up = TRUE

Send(c) ==
  /\ c \notin over /\ sent[c] < Len(wants[c])
  /\ sent' = [sent EXCEPT ![c] = @ + 1]
  /\ UNCHANGED <<wants, handled, owed, over, up>>

Handle(c) ==
  /\ up /\ owed = {} /\ c \notin over
  /\ handled[c] < sent[c]
  /\ handled' = [handled EXCEPT ![c] = @ + 1]
  /\ owed' = IF wants[c][handled[c] + 1] THEN {c} ELSE {}
  /\ UNCHANGED <<wants, sent, over, up>>

Reply ==
  /\ up /\ owed # {}
  /\ owed' = {}
  /\ UNCHANGED <<wants, sent, handled, over, up>>

\* A reply that cannot be given may end the server too.
Drop(c) ==
  /\ up /\ owed \subseteq {c} /\ c \notin over
  /\ over' = over \cup {c} /\ owed' = {}
  /\ up' = TRUE \/ (owed = {c} /\ up' = FALSE)
  /\ UNCHANGED <<wants, sent, handled>>

Stop ==
  /\ up /\ owed = {} /\ up' = FALSE
  /\ UNCHANGED <<wants, sent, handled, owed, over>>

Next ==
  \/ \E c \in Clients : Send(c) \/ Handle(c) \/ Drop(c)
  \/ Reply \/ Stop

Spec == Init /\ [][Next]_vars
=============================================================================
