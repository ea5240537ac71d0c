------------------------------ MODULE MCLogger ------------------------------
(* Small instances of Logger for TLC.                                      *)
EXTENDS Logger, TLC

CONSTANTS p1, p2

OneProducer  == {p1}
TwoProducers == {p1, p2}
Symmetry == Permutations(TwoProducers)
=============================================================================
