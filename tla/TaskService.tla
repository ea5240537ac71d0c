----------------------------- MODULE TaskService -----------------------------
(***************************************************************************)
(* What the download task repository promises its callers, without its     *)
(* ring, its semaphores or its threads: tasks are answered in the order    *)
(* they were accepted, one position stays free, and a call that returns    *)
(* returns the answer of its own task, which has been given.               *)
(***************************************************************************)
EXTENDS Integers, Sequences

CONSTANTS
  Callers,   \* those who have tasks done
  Tasks,     \* what they may have done; a task stands for its answer too
  Owner(_),  \* who had a task done
  Size,      \* places for tasks
  Blank      \* what a caller has been told before its first call

VARIABLES
  accepted,  \* the tasks accepted, in order
  answered,  \* the tasks answered, in order
  place,     \* which of the accepted tasks a caller waits for, or 0
  result     \* what each caller was told last

vars == <<accepted, answered, place, result>>

Init ==
  /\ accepted = <<>> /\ answered = <<>>
  /\ place = [p \in Callers |-> 0]
  /\ result = [p \in Callers |-> Blank]

Submit(p) ==
  /\ place[p] = 0
  /\ Len(accepted) - Len(answered) < Size - 1
  /\ \E t \in Tasks : Owner(t) = p /\ accepted' = Append(accepted, t)
  /\ place' = [place EXCEPT ![p] = Len(accepted) + 1]
  /\ UNCHANGED <<answered, result>>

Answer ==
  /\ Len(answered) < Len(accepted)
  /\ answered' = Append(answered, accepted[Len(answered) + 1])
  /\ UNCHANGED <<accepted, place, result>>

Return(p) ==
  /\ place[p] # 0 /\ place[p] <= Len(answered)
  /\ result' = [result EXCEPT ![p] = answered[place[p]]]
  /\ place' = [place EXCEPT ![p] = 0]
  /\ UNCHANGED <<accepted, answered>>

Next == Answer \/ \E p \in Callers : Submit(p) \/ Return(p)

Spec == Init /\ [][Next]_vars
=============================================================================
