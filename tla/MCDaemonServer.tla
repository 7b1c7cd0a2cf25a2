--------------------------- MODULE MCDaemonServer ---------------------------
(* A small instance of DaemonServer for TLC. *)
EXTENDS DaemonServer
=============================================================================
