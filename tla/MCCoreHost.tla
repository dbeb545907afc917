----------------------------- MODULE MCCoreHost -----------------------------
(* The instance of CoreHost for TLC: the mock core and sing-box, which may *)
(* be on the PATH or not.                                                  *)
EXTENDS CoreHost
=============================================================================
