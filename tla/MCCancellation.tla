----------------------------- MODULE MCCancellation -----------------------------
(***************************************************************************)
(* A lane reader, which reads in background mode, and a main-image reader; *)
(* a request whose source honours its token, and one without a handle      *)
(* whose source blocks in the operating system.  Shutdown without a bound  *)
(* is the bounded one whose bound never expires.                           *)
(***************************************************************************)
EXTENDS ReadCancellation
================================================================================
