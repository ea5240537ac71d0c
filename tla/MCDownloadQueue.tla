-------------------------- MODULE MCDownloadQueue ---------------------------
(* Two files; a command that names a local file twice, and one local name   *)
(* too many; a command without local names; and one without number.         *)
EXTENDS DownloadQueue, TLC

CONSTANTS t1, t2, t3, t4, f1, f2, r1, r2

SomeRemotes == t1 :> <<r1, r2>> @@ t2 :> <<r2, r1>> @@ t3 :> <<r1>> @@
               t4 :> <<r2>>
SomeLocals == t1 :> <<f1, f2>> @@ t2 :> <<f1, f1, f2>> @@ t3 :> <<>> @@
              t4 :> <<f2>>
=============================================================================
