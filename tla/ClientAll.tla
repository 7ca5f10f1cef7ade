----------------------------- MODULE ClientAll -----------------------------
(***************************************************************************)
(* The command-line client of Client-all, any number of them, over the     *)
(* channel.  A client is one thread: an epoll loop over stdin and its UDP  *)
(* socket whose handlers block.  Sending a message that wants an answer    *)
(* receives in a loop of its own until that answer comes, and throws       *)
(* everything else away.                                                   *)
(*                                                                         *)
(* The control state pc[u] of client u:                                    *)
(*   "loop"         in Run; ready[u] are the events of the last epoll_wait *)
(*                  that are not handled yet                               *)
(*   "onWait"       in userOnWait, called by userMove                      *)
(*   "sendWaitRet"  in userSendWaitRet, called by userSend                 *)
(*   "sendWaitCnf"  in userSendWaitCnf, called by userSend                 *)
(* call[u] are the arguments of the userSend that is running.              *)
(***************************************************************************)
EXTENDS Channel

CONSTANTS Operators,     \* users with somebody at the keyboard
          Addressees,    \* numbers typed as the addressee, not all of them users
          ScanClobbers,  \* may scanf("%d") into isCnf overwrite isRet?
          MaxTyped,      \* bound: lines typed
          MaxRestarts    \* bound: clients killed and started again

ASSUME OperatorsAssumption == Operators \subseteq Users /\ Addressees \subseteq Nat
ASSUME ClientAssumption ==
    ScanClobbers \in BOOLEAN /\ MaxTyped \in Nat /\ MaxRestarts \in Nat

VARIABLES pc, ready, call, frameNo, typed, restarts,
          sent,          \* the messages handed to SendTo
          shown,         \* shown[u]: messages client u has displayed
          receipted,     \* messages reported as taken in by the station
          confirmed,     \* messages reported as confirmed by the peer
          wasted         \* wasted[u]: frames for u that a wait threw away

clientVars == <<pc, ready, call, frameNo, typed, restarts>>
historyVars == <<sent, shown, receipted, confirmed, wasted>>
vars == <<channelVars, clientVars, historyVars>>

PCs == {"loop", "onWait", "sendWaitRet", "sendWaitCnf"}
Events == {"stdin", "udp"}
Calls == [id : Nat, isCnf : BOOLEAN, msg : Nat]
NoCall == [id |-> 0, isCnf |-> FALSE, msg |-> 0]
SendOptions == {PlainOpt, RetOpt, CnfOpt}
Messages == [msg : Nat, src : Users, dst : Nat, opt : SendOptions]

FirstFrameNo == 255      \* 0x00ff

Init ==
    /\ ChannelInit
    /\ pc = [u \in Users |-> "loop"]
    /\ ready = [u \in Users |-> {}]
    /\ call = [u \in Users |-> NoCall]
    /\ frameNo = [u \in Users |-> FirstFrameNo]
    /\ typed = 0 /\ restarts = 0
    /\ sent = {} /\ receipted = {} /\ confirmed = {}
    /\ shown = [u \in Users |-> {}]
    /\ wasted = [u \in Users |-> {}]

-----------------------------------------------------------------------------
(* Run: wait for events, then handle them.  The order of the events of one *)
(* epoll_wait is arbitrary, so it is chosen when they are handled.  The    *)
(* 200 ms time-out (no event) changes nothing.                             *)

EpollWait(u, events) ==
    /\ pc[u] = "loop" /\ ready[u] = {}
    /\ events # {}
    /\ "udp" \in events => inbox[u] # {}
    /\ \/ "stdin" \notin events /\ UNCHANGED typed
       \/ /\ "stdin" \in events /\ u \in Operators
          /\ typed < MaxTyped /\ typed' = typed + 1
    /\ ready' = [ready EXCEPT ![u] = events]
    /\ UNCHANGED <<channelVars, pc, call, frameNo, restarts, historyVars>>

Handling(u, event) ==
    /\ pc[u] = "loop" /\ event \in ready[u]
    /\ ready' = [ready EXCEPT ![u] = @ \ {event}]

\* "%d" stores four bytes into the one-byte isRet and then into isCnf; the
\* second store may clear isRet, depending on where the build puts the two.
ScannedRet(isRet) == {isRet} \cup (IF ScanClobbers THEN {FALSE} ELSE {})

\* Mutant: one bit per request, as if 0x60 were 0x40 with another bit.
SendOptionBits(isRet, isCnf) ==
    PlainOpt + (IF isRet THEN 16 ELSE 0) + (IF isCnf THEN 32 ELSE 0)

SendOption(isRet, isCnf) ==
    IF ~isRet THEN PlainOpt ELSE IF isCnf THEN CnfOpt ELSE RetOpt

\* Mutant: the confirm, the stronger answer, is waited for first.
FirstWaitConfirm(isRet, isCnf) == IF isCnf THEN "sendWaitCnf" ELSE "sendWaitRet"

\* The receipt is waited for first.
FirstWait(isRet, isCnf) == IF isRet THEN "sendWaitRet" ELSE "sendWaitCnf"

\* userSend up to its first wait.
UserSend(u, isRet, isCnf, id) ==
    LET opt == SendOption(isRet, isCnf)
    IN  \/ /\ SendTo(UpFrame(stamp, u, id, frameNo[u], opt, TextByte, stamp))
           /\ sent' = sent \cup {[msg |-> stamp, src |-> u, dst |-> id, opt |-> opt]}
           /\ IF isRet \/ isCnf
              THEN /\ call' = [call EXCEPT ![u] =
                                 [id |-> id, isCnf |-> isCnf, msg |-> stamp]]
                   /\ pc' = [pc EXCEPT ![u] = FirstWait(isRet, isCnf)]
              ELSE UNCHANGED <<call, pc>>
        \/ SocketError /\ UNCHANGED <<sent, call, pc>>

\* A typed "send isRet isCnf id text".  What scanf could not read is left as it was
\* in memory: the addressee is any number, like one mistyped.
SendLine(u) ==
    /\ Handling(u, "stdin")
    /\ \E typedRet, isCnf \in BOOLEAN, id \in Addressees :
         \E isRet \in ScannedRet(typedRet) : UserSend(u, isRet, isCnf, id)
    /\ UNCHANGED <<down, inbox, dups, accepted, frameNo, typed, restarts,
                   shown, receipted, confirmed, wasted>>

\* Mutant: the user number in the other header word.
MoveFrameSwapped(u) == UpFrame(stamp, 0, 1, frameNo[u], MoveOpt, OnOk, stamp)

\* The report of userMove is a literal whose first word is user number 1, whoever
\* sends it, and whose data start with the time.
MoveFrame(u) == UpFrame(stamp, 1, 0, frameNo[u], MoveOpt, OnOk, stamp)

\* userMove up to its wait.
UserMove(u) ==
    \/ /\ SendTo(MoveFrame(u))
       /\ pc' = [pc EXCEPT ![u] = "onWait"]
    \/ SocketError /\ UNCHANGED pc

\* A typed "move beam"; the beam is not used.
MoveLine(u) ==
    /\ Handling(u, "stdin")
    /\ UserMove(u)
    /\ UNCHANGED <<down, inbox, dups, accepted, call, frameNo, typed, restarts,
                   historyVars>>

\* Any other first word is read and ignored.
OtherLine(u) ==
    /\ Handling(u, "stdin")
    /\ UNCHANGED <<channelVars, pc, call, frameNo, typed, restarts, historyVars>>

HandleStdin(u) == SendLine(u) \/ MoveLine(u) \/ OtherLine(u)

\* Mutant: the destination of the message is kept for the confirm.
UserRecvWaitToSelf(u, f) ==
    SendTo(UpFrame(stamp, u, recv_dest_user(f), frameNo[u], ReplyOpt, Confirm, f.msg))

\* userRecvWait waits for nothing: it sends the confirm of a message.
UserRecvWait(u, f) ==
    \/ SendTo(UpFrame(stamp, u, recv_src_user(f), frameNo[u], ReplyOpt, Confirm, f.msg))
    \/ SocketError

\* userRecv: a message for this client is displayed, and confirmed if it wants
\* that.
UserRecv(u, f) ==
    LET mine == recv_dest_user(f) = u
        opt == AsChar(f.opt)
    IN  /\ shown' = IF mine /\ opt \in MessageOpts
                    THEN [shown EXCEPT ![u] = @ \cup {f.msg}] ELSE shown
        /\ IF mine /\ opt = CnfOpt
           THEN UserRecvWait(u, f)
           ELSE UNCHANGED <<up, stamp, faults>>

\* A ready socket: one datagram is received and given to userRecv.
HandleUdp(u) ==
    /\ Handling(u, "udp")
    /\ \/ \E f \in inbox[u] : RecvFrom(u, f) /\ UserRecv(u, f)
       \/ SocketError /\ UNCHANGED <<inbox, shown>>
    /\ UNCHANGED <<down, dups, accepted, pc, call, frameNo, typed, restarts,
                   sent, receipted, confirmed, wasted>>

-----------------------------------------------------------------------------
(* The waits.  Each receives datagrams until one passes all its tests; a   *)
(* failed recvfrom is tried again.                                         *)

\* Mutants: the channel is taken for a private line; any peer may answer.
FromToAnyone(u, f, src) == recv_src_user(f) = src /\ IsReply(f)
FromAnyone(u, f, src) == recv_dest_user(f) = u /\ IsReply(f)

From(u, f, src) ==
    recv_dest_user(f) = u /\ recv_src_user(f) = src /\ IsReply(f)

\* Mutant: any reply of the station is a receipt, as in userOnWait.
IsReceiptAny(u, f) == From(u, f, Station)

IsReceipt(u, f) == From(u, f, Station) /\ f.data = Receipt

IsConfirm(u, f) == From(u, f, call[u].id) /\ f.data = Confirm

BackToLoop(u) ==
    pc' = [pc EXCEPT ![u] = "loop"] /\ call' = [call EXCEPT ![u] = NoCall]

\* Mutant: the wait gives up when something else arrives.
DiscardGivesUp(u, f) ==
    BackToLoop(u) /\ UNCHANGED <<frameNo, receipted, confirmed, wasted>>

\* The wait receives f and goes on waiting.
Discard(u, f) ==
    /\ wasted' = IF recv_dest_user(f) = u
                 THEN [wasted EXCEPT ![u] = @ \cup {[msg |-> f.msg, opt |-> f.opt,
                                                    data |-> f.data]}]
                 ELSE wasted
    /\ UNCHANGED <<pc, call, frameNo, receipted, confirmed>>

\* userOnWait ends with any reply of the station; only "0x00" advances the
\* frame number.
UserOnWait(u) ==
    /\ pc[u] = "onWait"
    /\ \E f \in inbox[u] :
         /\ RecvFrom(u, f)
         /\ IF From(u, f, Station)
            THEN /\ BackToLoop(u)
                 /\ frameNo' = IF f.data = OnOk
                               THEN [frameNo EXCEPT ![u] = (@ + 2) % FrameNoCount]
                               ELSE frameNo
                 /\ UNCHANGED <<receipted, confirmed, wasted>>
            ELSE Discard(u, f)
    /\ UNCHANGED <<up, down, stamp, faults, dups, accepted, ready, typed,
                   restarts, sent, shown>>

\* userSendWaitRet; userSend then waits for the confirm if isCnf.
UserSendWaitRet(u) ==
    /\ pc[u] = "sendWaitRet"
    /\ \E f \in inbox[u] :
         /\ RecvFrom(u, f)
         /\ IF IsReceipt(u, f)
            THEN /\ receipted' = receipted \cup {call[u].msg}
                 /\ IF call[u].isCnf
                    THEN pc' = [pc EXCEPT ![u] = "sendWaitCnf"] /\ UNCHANGED call
                    ELSE BackToLoop(u)
                 /\ UNCHANGED <<frameNo, confirmed, wasted>>
            ELSE Discard(u, f)
    /\ UNCHANGED <<up, down, stamp, faults, dups, accepted, ready, typed,
                   restarts, sent, shown>>

\* userSendWaitCnf.
UserSendWaitCnf(u) ==
    /\ pc[u] = "sendWaitCnf"
    /\ \E f \in inbox[u] :
         /\ RecvFrom(u, f)
         /\ IF IsConfirm(u, f)
            THEN /\ confirmed' = confirmed \cup {call[u].msg}
                 /\ BackToLoop(u)
                 /\ UNCHANGED <<frameNo, receipted, wasted>>
            ELSE Discard(u, f)
    /\ UNCHANGED <<up, down, stamp, faults, dups, accepted, ready, typed,
                   restarts, sent, shown>>

-----------------------------------------------------------------------------
\* The operator kills the client and starts it again: constructor, Init, Run.
\* Datagrams that had reached the old socket are gone, later ones are not.
Restart(u) ==
    /\ restarts < MaxRestarts /\ restarts' = restarts + 1
    /\ BackToLoop(u)
    /\ ready' = [ready EXCEPT ![u] = {}]
    /\ frameNo' = [frameNo EXCEPT ![u] = FirstFrameNo]
    /\ \E later \in SUBSET inbox[u] :
         /\ Ordered => \A f \in later, g \in inbox[u] : f.id <= g.id => g \in later
         /\ inbox' = [inbox EXCEPT ![u] = later]
    /\ UNCHANGED <<up, down, stamp, faults, dups, accepted, typed, historyVars>>

ClientStep(u) ==
    \/ \E events \in SUBSET Events : EpollWait(u, events)
    \/ HandleStdin(u) \/ HandleUdp(u)
    \/ UserOnWait(u) \/ UserSendWaitRet(u) \/ UserSendWaitCnf(u)
    \/ Restart(u)

Next ==
    \/ \E u \in Users : ClientStep(u)
    \/ ChannelStep /\ UNCHANGED <<clientVars, historyVars>>

Spec == Init /\ [][Next]_vars

\* The kernel runs every client thread and the network goes on delivering;
\* nobody has to type, and nothing has to fail.
Fairness ==
    /\ \A u \in Users :
         /\ WF_vars(\E events \in SUBSET Events :
                      "udp" \in events /\ EpollWait(u, events))
         /\ WF_vars(HandleStdin(u)) /\ WF_vars(HandleUdp(u))
         /\ WF_vars(UserOnWait(u))
         /\ WF_vars(UserSendWaitRet(u)) /\ WF_vars(UserSendWaitCnf(u))
    /\ WF_vars(StationStep /\ UNCHANGED <<clientVars, historyVars>>)
    /\ WF_vars(Forward /\ UNCHANGED <<clientVars, historyVars>>)

FairSpec == Spec /\ Fairness

-----------------------------------------------------------------------------
(* Properties.                                                             *)

\* Every variable has its type; a client waits only inside a call.
TypeOK ==
    /\ ChannelTypeOK
    /\ pc \in [Users -> PCs]
    /\ ready \in [Users -> SUBSET Events]
    /\ call \in [Users -> Calls]
    /\ frameNo \in [Users -> FrameNos]
    /\ typed \in 0 .. MaxTyped /\ restarts \in 0 .. MaxRestarts
    /\ sent \subseteq Messages
    /\ shown \in [Users -> SUBSET Nat]
    /\ receipted \subseteq Nat /\ confirmed \subseteq Nat
    /\ wasted \in [Users -> SUBSET [msg : Nat, opt : Options, data : DataBytes]]

\* The forward channel broadcasts every frame to every client, yet a client
\* displays only messages that were addressed to it and went through the
\* station, whatever is lost, duplicated, overtaken or restarted.
ShownSound ==
    \A u \in Users : \A m \in shown[u] :
        m \in accepted /\ \E s \in sent : s.msg = m /\ s.dst = u

\* "User has confirmed" is printed only when the addressee has displayed a
\* message of this sender that asked for a confirm: not always the message the
\* report is about (no frame number is compared), whatever the network does.
ConfirmFromPeer ==
    \A m \in confirmed : \E s, t \in sent :
        /\ s.msg = m
        /\ t.src = s.src /\ t.dst = s.dst /\ t.opt = CnfOpt
        /\ s.dst \in Users /\ t.msg \in shown[s.dst]

\* "System receipt" is printed only when the station has accepted a message of
\* this sender that asked for a receipt.
ReceiptFromStation ==
    \A m \in receipted : \E s, t \in sent :
        /\ s.msg = m
        /\ t.src = s.src /\ t.opt \in {RetOpt, CnfOpt} /\ t.msg \in accepted

\* Without duplicates and restarts the reports are exact, although no wait
\* compares a frame number: a message is reported as confirmed only when its
\* addressee has displayed that very message.
ConfirmSound ==
    \A m \in confirmed : \E s \in sent :
        s.msg = m /\ s.dst \in Users /\ m \in shown[s.dst]

\* ... and as taken in only when the station has accepted that very message.
ReceiptSound == receipted \subseteq accepted

NoFaults == faults = 0 /\ dups = 0 /\ restarts = 0

About(f, m, opt, data) == f.msg = m /\ f.opt = opt /\ f.data = data

\* Answers are not lost silently, even when datagrams overtake each other: as
\* long as userSendWaitRet waits, the message or its receipt is on its way.
ReceiptOwed ==
    NoFaults => \A u \in Users : pc[u] = "sendWaitRet" =>
        LET m == call[u].msg
        IN  \/ \E f \in up : f.msg = m /\ f.opt \in {RetOpt, CnfOpt}
            \/ \E f \in down \cup inbox[u] : About(f, m, ReplyOpt, Receipt)

\* A frame about message m was thrown away by a wait of client u.
Wasted(u, m, opt, data) == [msg |-> m, opt |-> opt, data |-> data] \in wasted[u]

\* The only ways to wait for a confirm that is not coming: it was not asked
\* for (isCnf without isRet sends 0x40), the addressee is nobody's number, a wait
\* of the peer threw the message away, or the own wait for the receipt threw the
\* confirm away.
NoConfirmComing(u) ==
    LET m == call[u].msg
    IN  \/ \E s \in sent : s.msg = m /\ s.opt # CnfOpt
        \/ call[u].id \notin Users
        \/ Wasted(call[u].id, m, CnfOpt, TextByte)
        \/ Wasted(u, m, ReplyOpt, Confirm)

\* As long as userSendWaitCnf waits, the message or its confirm is on its way,
\* or one of those four is the case.
ConfirmOwed ==
    NoFaults => \A u \in Users : pc[u] = "sendWaitCnf" =>
        LET m == call[u].msg
        IN  \/ NoConfirmComing(u)
            \/ \E f \in up \cup down \cup inbox[call[u].id] :
                  About(f, m, CnfOpt, TextByte)
            \/ \E f \in up \cup down \cup inbox[u] :
                  About(f, m, ReplyOpt, Confirm)

\* Every wait for a receipt ends.
ReceiptArrives ==
    \A u \in Users : (pc[u] = "sendWaitRet") ~> (pc[u] # "sendWaitRet")

\* Every wait for a confirm ends, or is one that no confirm is coming for.
ConfirmArrivesOrNotComing ==
    \A u \in Users : (pc[u] = "sendWaitCnf")
                      ~> (pc[u] # "sendWaitCnf" \/ NoConfirmComing(u))

\* The report of user 1, whose number userMove writes into every report, is
\* answered: its wait ends.
MoveAnswered == 1 \in Users => ((pc[1] = "onWait") ~> (pc[1] # "onWait"))

-----------------------------------------------------------------------------
(* What comments, logs and messages of the repository say, and the code    *)
(* does not do.                                                            *)

\* Client.cpp:541 "set socket in no block mode": handling a ready event never
\* blocks in recvfrom.
EventNeverBlocks ==
    \A u \in Users : (pc[u] = "loop" /\ ready[u] = {"udp"}) => inbox[u] # {}

\* Client.cpp:20 "need central station return, need peer confirm": a message
\* sent with both options gets its confirm.
ConfirmArrives ==
    \A u \in Users :
        (pc[u] = "sendWaitCnf"
           /\ \E s \in sent : s.msg = call[u].msg /\ s.opt = CnfOpt)
        ~> (pc[u] # "sendWaitCnf")

-----------------------------------------------------------------------------
(* The service that the clients and the channel provide together.          *)

Service == INSTANCE MessageService WITH
    Users <- Users, sent <- sent, accepted <- accepted, shown <- shown,
    receipted <- receipted, confirmed <- confirmed

ServiceSpec == Service!Spec
=============================================================================
