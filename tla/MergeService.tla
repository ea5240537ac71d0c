---------------------------- MODULE MergeService ----------------------------
(***************************************************************************)
(* What load_quote() and pop_tick() of algorithm/tournament_sort promise:  *)
(* every tick of every channel once, in the order of its channel, each the *)
(* earliest of those that are first in their channels; the end is reported *)
(* only when no tick is left.                                              *)
(***************************************************************************)
EXTENDS Integers, Sequences

CONSTANTS
  Channels,  \* the channels that are merged
  Inputs     \* what load_quote() may be given: times, for each channel

VARIABLES
  data,   \* the channels loaded last
  given,  \* ticks taken from each channel
  last    \* channel and row of the tick popped last, or <<-1, -1>>

vars == <<data, given, last>>

Left(c) == given[c] < Len(data[c])
First(c) == data[c][given[c] + 1]

Init ==
  /\ data \in Inputs
  /\ given = [c \in Channels |-> 0]
  /\ last = <<0, 0>>

Load ==
  /\ data' \in Inputs
  /\ given' = [c \in Channels |-> 0]
  /\ last' = <<0, 0>>

Pop(c) ==
  /\ Left(c)
  /\ \A d \in Channels : Left(d) => First(c) <= First(d)
  /\ last' = <<c, given[c]>>
  /\ given' = [given EXCEPT ![c] = @ + 1]
  /\ UNCHANGED data

End ==
  /\ \A c \in Channels : ~Left(c)
  /\ last' = <<-1, -1>>
  /\ UNCHANGED <<data, given>>

Next == Load \/ End \/ \E c \in Channels : Pop(c)

Spec == Init /\ [][Next]_vars
=============================================================================
