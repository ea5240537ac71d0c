--------------------------- MODULE MCDownloadRepo ----------------------------
(* Small instances of DownloadRepo for TLC: the constants are in the cfgs. *)
EXTENDS DownloadRepo, TLC

Symmetry == Permutations(Callers)
=============================================================================
