------------------------- MODULE MCScriptedClients --------------------------
(***************************************************************************)
(* One program of each kind; config.ini as it is in the repository gives   *)
(* both of them the number 1.                                              *)
(***************************************************************************)
EXTENDS ScriptedClients

ShippedOrRight == {<<1, 1>>, <<1, 2>>}

\* Failures are explored with the right numbers only.
FailuresIfRight == faults > 0 => Configured
=============================================================================
