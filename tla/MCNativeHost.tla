---------------------------- MODULE MCNativeHost ----------------------------
(* A small instance of NativeHost for TLC. *)
EXTENDS NativeHost, TLC
=============================================================================
