-------------------------- MODULE ScriptedClients ---------------------------
(***************************************************************************)
(* The two test programs with a fixed script, over the channel:            *)
(*   Client-send  userOn(); then for ever userMove(); userSend(true,true,2)*)
(*   Client-recv  userOn(); then userRecv(), which never returns           *)
(* pc[u] is where the script of the program on socket u is: about to make  *)
(* the call "on", "move" or "send", in the wait of one of them ("onWait",  *)
(* "moveWait", "retWait", "cnfWait"), or in "recv".                        *)
(*                                                                         *)
(* Users are sockets here; userID[u] is the number in the program's        *)
(* config.ini.  Both programs hold bytes as unsigned char.                 *)
(***************************************************************************)
EXTENDS Channel

CONSTANTS Senders,      \* sockets of Client-send; the others are Client-recv
          UserIDs,      \* the m_userID that config.ini may give to each
          MaxSends      \* bound: messages sent

ASSUME ScriptAssumption ==
    Senders \subseteq Users /\ UserIDs \subseteq [Users -> Nat] /\ MaxSends \in Nat

VARIABLES userID, pc, frameNo,
          current,      \* current[u]: the report or message of the last call
          sent,         \* messages sent, with their frame number
          shown, confirmed,
          answers,      \* answers[u]: pairs of a report and what ended its wait
          wasted        \* wasted[u]: messages for u that a wait threw away

clientVars == <<userID, pc, frameNo, current>>
historyVars == <<sent, shown, confirmed, answers, wasted>>
vars == <<channelVars, clientVars, historyVars>>

OnOpt == 0              \* 0x00 user on

\* Abstracted: Client-recv starts at a random frame number, which nobody reads.
Init ==
    /\ ChannelInit
    /\ userID \in UserIDs
    /\ pc = [u \in Users |-> "on"]
    /\ frameNo = [u \in Users |-> 255]
    /\ current = [u \in Users |-> 0]
    /\ sent = {} /\ confirmed = {}
    /\ shown = [u \in Users |-> {}]
    /\ answers = [u \in Users |-> {}] /\ wasted = [u \in Users |-> {}]

Goto(u, at) == pc' = [pc EXCEPT ![u] = at]

\* The user number that userOn writes, whatever config.ini says.
Reported(u) == IF u \in Senders THEN 1 ELSE 2

AfterOn(u) == IF u \in Senders THEN "move" ELSE "recv"

-----------------------------------------------------------------------------
(* The calls as far as their waits.  A failed send ends the call, and the  *)
(* script goes on.                                                         *)

Call(u, frame, wait, next) ==
    /\ \/ /\ SendTo(frame) /\ Goto(u, wait)
          /\ current' = [current EXCEPT ![u] = stamp]
       \/ SocketError /\ Goto(u, next) /\ UNCHANGED current
    /\ UNCHANGED <<down, inbox, dups, accepted, userID, frameNo,
                   shown, confirmed, answers, wasted>>

OnFrame(u) == UpFrame(stamp, Reported(u), Station, frameNo[u], OnOpt, OnOk, stamp)

SendUserOn(u) ==
    /\ u \in Senders /\ pc[u] = "on"
    /\ Call(u, OnFrame(u), "onWait", "move") /\ UNCHANGED sent

RecvUserOn(u) ==
    /\ u \notin Senders /\ pc[u] = "on"
    /\ Call(u, OnFrame(u), "onWait", "recv") /\ UNCHANGED sent

userMove(u) ==
    /\ pc[u] = "move"
    /\ Call(u, UpFrame(stamp, 1, Station, frameNo[u], MoveOpt, OnOk, stamp), "moveWait", "send")
    /\ UNCHANGED sent

\* userSend(true, true, 2)
userSend(u) ==
    /\ pc[u] = "send" /\ Cardinality(sent) < MaxSends
    /\ Call(u, UpFrame(stamp, userID[u], 2, frameNo[u], CnfOpt, TextByte, stamp), "retWait", "move")
    /\ sent' = IF stamp' = stamp THEN sent
               ELSE sent \cup {[msg |-> stamp, dst |-> 2, frame |-> frameNo[u]]}

-----------------------------------------------------------------------------
(* The waits.                                                              *)

\* Mutant: the byte read as a signed one.
IsAnswerSigned(f) == f.opt - 256 = ReplyOpt

IsAnswer(f) == f.opt = ReplyOpt

\* Mutant: the addressee is not looked at.
FromToAnyone(u, f, src) == recv_src_user(f) = src /\ IsAnswer(f)

From(u, f, src) ==
    recv_dest_user(f) = userID[u] /\ recv_src_user(f) = src /\ IsAnswer(f)

\* The wait receives something else and goes on.
Discard(u, f) ==
    /\ wasted' = IF recv_dest_user(f) = userID[u] /\ f.opt \in MessageOpts
                 THEN [wasted EXCEPT ![u] = @ \cup {f.msg}] ELSE wasted
    /\ UNCHANGED <<pc, frameNo, answers, confirmed>>

Wait(u) ==
    UNCHANGED <<up, down, stamp, faults, dups, accepted, userID, current, sent, shown>>

\* userOnWait ends with any reply of the station to this user.
OnWait(u, next) ==
    /\ \E f \in inbox[u] :
         /\ RecvFrom(u, f)
         /\ IF From(u, f, Station)
            THEN /\ Goto(u, next)
                 /\ frameNo' = IF f.data = OnOk
                               THEN [frameNo EXCEPT ![u] = (@ + 2) % FrameNoCount]
                               ELSE frameNo
                 /\ answers' = [answers EXCEPT ![u] = @ \cup {<<current[u], f.msg>>}]
                 /\ UNCHANGED <<confirmed, wasted>>
            ELSE Discard(u, f)
    /\ Wait(u)

SendOnWait(u) ==
    u \in Senders /\ \/ pc[u] = "onWait" /\ OnWait(u, "move")
                     \/ pc[u] = "moveWait" /\ OnWait(u, "send")

RecvOnWait(u) == u \notin Senders /\ pc[u] = "onWait" /\ OnWait(u, "recv")

userSendWaitRet(u) ==
    /\ pc[u] = "retWait"
    /\ \E f \in inbox[u] :
         /\ RecvFrom(u, f)
         /\ IF From(u, f, Station) /\ f.data = Receipt
            THEN Goto(u, "cnfWait") /\ UNCHANGED <<frameNo, answers, confirmed, wasted>>
            ELSE Discard(u, f)
    /\ Wait(u)

\* The byte at offset 12 tells a confirm.
userSendWaitCnf(u) ==
    /\ pc[u] = "cnfWait"
    /\ \E f \in inbox[u] :
         /\ RecvFrom(u, f)
         /\ IF From(u, f, 2) /\ f.data = Confirm
            THEN /\ Goto(u, "move")
                 /\ confirmed' = confirmed \cup {current[u]}
                 /\ UNCHANGED <<frameNo, answers, wasted>>
            ELSE Discard(u, f)
    /\ Wait(u)

-----------------------------------------------------------------------------
(* Client-recv.                                                            *)

\* What userRecvWait has at offset 12: the frame number of the message, high byte
\* first; the kind byte 0x60 comes after it, at 14.
ConfirmByte(f) == f.frame \div 256

userRecvWait(u, f) ==
    \/ SendTo(UpFrame(stamp, userID[u], recv_src_user(f), frameNo[u], ReplyOpt,
                      ConfirmByte(f), f.msg))
    \/ SocketError

\* Mutant: a case label missing.
DisplayedNoCnf == MessageOpts \ {CnfOpt}

\* The cases of userRecv's switch that print the message.
Displayed == MessageOpts

userRecv(u) ==
    /\ pc[u] = "recv"
    /\ \E f \in inbox[u] :
         LET mine == recv_dest_user(f) = userID[u]
         IN  /\ RecvFrom(u, f)
             /\ shown' = IF mine /\ f.opt \in Displayed
                         THEN [shown EXCEPT ![u] = @ \cup {f.msg}] ELSE shown
             /\ IF mine /\ f.opt = CnfOpt THEN userRecvWait(u, f)
                                          ELSE UNCHANGED <<up, stamp, faults>>
    /\ UNCHANGED <<down, dups, accepted, clientVars, sent, confirmed, answers, wasted>>

-----------------------------------------------------------------------------
\* The station answers a user that reports itself.
StationOn ==
    \E f \in up, result \in {OnOk, OnFailed} :
      /\ Uplink(f) /\ f.opt = OnOpt
      /\ down' = down \cup {DownFrame(stamp, send_src_user(f), Station,
                                      ReplyFrame(f), ReplyOpt, result, f.msg)}
      /\ stamp' = stamp + 1
      /\ UNCHANGED <<inbox, faults, dups, accepted, clientVars, historyVars>>

Script(u) ==
    \/ SendUserOn(u) \/ RecvUserOn(u) \/ userMove(u) \/ userSend(u) \/ userRecv(u)
    \/ SendOnWait(u) \/ RecvOnWait(u) \/ userSendWaitRet(u) \/ userSendWaitCnf(u)

Delivery == ChannelStep /\ UNCHANGED <<clientVars, historyVars>>

Next == (\E u \in Users : Script(u)) \/ StationOn \/ Delivery

Spec == Init /\ [][Next]_vars

\* Every program runs and the network delivers; nothing has to fail.
FairSpec ==
    /\ Spec
    /\ \A u \in Users : WF_vars(Script(u) /\ UNCHANGED faults)
    /\ WF_vars(StationOn) /\ WF_vars(Delivery /\ UNCHANGED <<faults, dups>>)

-----------------------------------------------------------------------------
(* Properties.                                                             *)

NoFaults == faults = 0 /\ dups = 0

\* The numbers of config.ini are different, and the ones that userOn reports.
Configured ==
    \A u \in Users : /\ userID[u] = Reported(u)
                     /\ \A v \in Users \ {u} : userID[v] # userID[u]

\* Although userOnWait takes any reply, a report's wait ends with the answer to
\* that report, whatever is lost, if nothing is duplicated and the numbers are right.
AnswerIsOwn ==
    (Configured /\ dups = 0) => \A u \in Users : \A a \in answers[u] : a[1] = a[2]

\* With the right numbers both scripts come to where the sender waits for the
\* confirm and the receiver receives: every other wait ends.
ScriptArrives ==
    \A u \in Users :
        (Configured /\ pc[u] = "on") ~> (pc[u] \in {"recv", "cnfWait"} \/ ~NoFaults)

\* Client-recv has neither displayed some accepted message to its number, nor thrown
\* it away while it was still waiting for the answer to its report.
Pending(u) ==
    \E s \in sent : s.msg \in accepted \ (shown[u] \cup wasted[u]) /\ s.dst = userID[u]

\* Every accepted message is displayed or thrown away by that wait.
MessageShown ==
    \A u \in Users \ Senders :
        (Configured /\ Pending(u)) ~> (~Pending(u) \/ ~NoFaults)
=============================================================================
