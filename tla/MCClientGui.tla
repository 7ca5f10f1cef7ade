---------------------------- MODULE MCClientGui -----------------------------
(***************************************************************************)
(* Two clicks, of one user while something may fail, or of any users.      *)
(***************************************************************************)
EXTENDS ClientGui

\* Has u done anything with the mouse?
Acted(u) == stack[u] # <<>> \/ reported[u] \/ \E s \in sent : s.src = u

OneActsOrNothingFails == faults > 0 => ~Acted(2)
=============================================================================
