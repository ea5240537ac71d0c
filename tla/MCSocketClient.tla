--------------------------- MODULE MCSocketClient ---------------------------
(* One caller beside the event thread.                                     *)
EXTENDS SocketClient

CONSTANT a
=============================================================================
