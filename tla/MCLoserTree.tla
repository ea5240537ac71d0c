---------------------------- MODULE MCLoserTree -----------------------------
(* Three channels, in order or not, with equal times and ends at different *)
(* lengths.                                                                *)
EXTENDS LoserTree

SomeInputs == [Channels ->
  {<<0>>, <<1>>, <<0, 1>>, <<1, 1>>, <<2, 0>>, <<0, 0, 1>>, <<0, 1, 2>>}]
=============================================================================
