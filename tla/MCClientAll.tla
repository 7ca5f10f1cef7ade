---------------------------- MODULE MCClientAll ----------------------------
(***************************************************************************)
(* Small instances of ClientAll for TLC; the .cfg files give the values.   *)
(***************************************************************************)
EXTENDS ClientAllInv

\* Bound of the run with failures: one of them, of any kind.
OneFailure == faults + dups + restarts <= 1
=============================================================================
