---------------------------- MODULE MCServiceConsole ----------------------------
(* The instance of ServiceConsole that TLC checks. *)
EXTENDS ServiceConsole
=============================================================================
