----------------------------- MODULE LogService -----------------------------
(***************************************************************************)
(* What the logger promises to one logging thread, without its ring, its   *)
(* threads or its file: records are accepted while fewer than Capacity of  *)
(* them wait, reach the log whole and in the order of acceptance, and when *)
(* the logger is stopped everything accepted before shutdown() is there.   *)
(***************************************************************************)
EXTENDS Naturals, Sequences

CONSTANTS
  Records,    \* what log() is given
  LineOf(_),  \* the line a record becomes in the log
  Capacity    \* records that may wait

VARIABLES
  accepted,  \* the records log() has accepted
  store,     \* the lines of the log
  phase,     \* "open", "closing" after shutdown(), "stopped"
  sealed     \* Len(accepted) when shutdown() was called

vars == <<accepted, store, phase, sealed>>

Init == accepted = <<>> /\ store = <<>> /\ phase = "open" /\ sealed = 0

Accept ==
  /\ phase # "stopped"
  /\ Len(accepted) - Len(store) < Capacity
  /\ \E r \in Records : accepted' = Append(accepted, r)
  /\ UNCHANGED <<store, phase, sealed>>

Store ==
  /\ Len(store) < Len(accepted)
  /\ store' = Append(store, LineOf(accepted[Len(store) + 1]))
  /\ UNCHANGED <<accepted, phase, sealed>>

Close ==
  /\ phase = "open"
  /\ phase' = "closing" /\ sealed' = Len(accepted)
  /\ UNCHANGED <<accepted, store>>

Stop ==
  /\ phase = "closing" /\ Len(store) >= sealed
  /\ phase' = "stopped"
  /\ UNCHANGED <<accepted, store, sealed>>

Next == Accept \/ Store \/ Close \/ Stop

Spec == Init /\ [][Next]_vars
=============================================================================
