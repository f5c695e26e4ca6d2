---------------------------- MODULE MCLockFile ----------------------------
(***************************************************************************)
(* Processes for checking LockFile: two on one host, one on another, whose *)
(* death the two cannot notice.                                            *)
(***************************************************************************)
EXTENDS LockFile

CONSTANTS a, b, c

TwoHosts == [p \in Proc |-> IF p = c THEN "far" ELSE "near"]

=============================================================================
