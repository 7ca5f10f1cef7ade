--------------------------- MODULE MessageService ---------------------------
(***************************************************************************)
(* What the message system promises its users, without frames, channels or *)
(* waiting: a message is sent, accepted by the central station, displayed  *)
(* by its addressee, and reported to its sender in the order that userSend *)
(* fixes: first the receipt of the station, then the confirm of the peer,  *)
(* each only for a message that asked for it and after the fact.           *)
(***************************************************************************)
EXTENDS Integers

CONSTANTS Users

VARIABLES sent, accepted, shown, receipted, confirmed

vars == <<sent, accepted, shown, receipted, confirmed>>

\* Option bytes of a short message: receipt, and receipt and confirm.
RetOpt == 80
CnfOpt == 96

Init ==
    /\ sent = {} /\ accepted = {} /\ receipted = {} /\ confirmed = {}
    /\ shown = [u \in Users |-> {}]

\* A user sends a message; every message is new.
Send ==
    /\ \E s \in sent' \ sent :
         sent' = sent \cup {s} /\ \A t \in sent : t.msg # s.msg
    /\ UNCHANGED <<accepted, shown, receipted, confirmed>>

Accept(s) ==
    /\ accepted' = accepted \cup {s.msg}
    /\ UNCHANGED <<sent, shown, receipted, confirmed>>

Show(s) ==
    /\ s.dst \in Users /\ s.msg \in accepted
    /\ shown' = [shown EXCEPT ![s.dst] = @ \cup {s.msg}]
    /\ UNCHANGED <<sent, accepted, receipted, confirmed>>

ReportReceipt(s) ==
    /\ s.opt \in {RetOpt, CnfOpt}
    /\ s.msg \in accepted
    /\ receipted' = receipted \cup {s.msg}
    /\ UNCHANGED <<sent, accepted, shown, confirmed>>

ReportConfirm(s) ==
    /\ s.opt = CnfOpt
    /\ s.msg \in receipted /\ s.dst \in Users /\ s.msg \in shown[s.dst]
    /\ confirmed' = confirmed \cup {s.msg}
    /\ UNCHANGED <<sent, accepted, shown, receipted>>

Next ==
    \/ Send
    \/ \E s \in sent : \/ Accept(s) \/ Show(s)
                       \/ ReportReceipt(s) \/ ReportConfirm(s)

Spec == Init /\ [][Next]_vars
=============================================================================
