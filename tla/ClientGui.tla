----------------------------- MODULE ClientGui ------------------------------
(***************************************************************************)
(* The Qt client of ClientGUI, any number of them, over the channel.       *)
(*                                                                         *)
(* One thread runs the event loop: it delivers clicks, and the readyRead   *)
(* signal of the socket to recvMessage as often as that slot is connected. *)
(* userOn and userOnWait run the event loop again (processEvents) in the   *)
(* middle of their work, so calls nest: stack[u] holds the calls that are  *)
(* running, innermost first, each at one of                                *)
(*   "onEvents"    userOn, in processEvents, before it sends               *)
(*   "onWait"      userOnWait, in waitForReadyRead                         *)
(*   "onRead"      userOnWait, before readDatagram                         *)
(*   "testEvents"  userOnWait, in processEvents, with a datagram to test   *)
(*   "retWait"     userSendWaitRet          "cnfWait"    userSendWaitCnf   *)
(*                                                                         *)
(* Of Qt: readyRead is emitted by the event loop and by waitForReadyRead,  *)
(* and not again before something has called readDatagram (armed[u]),      *)
(* whether or not a slot was connected.                                    *)
(***************************************************************************)
EXTENDS Channel, Sequences

CONSTANTS Operators,    \* users with somebody at the mouse
          Addressees,   \* numbers in the field of the addressee, 0 for any other text
          MaxClicks,    \* bound: clicks on the two buttons
          MaxDepth      \* bound: calls nested in each other

ASSUME GuiAssumption ==
    /\ Operators \subseteq Users /\ Addressees \subseteq Nat
    /\ MaxClicks \in Nat /\ MaxDepth \in Nat \ {0}

VARIABLES stack, frameNo, clicks,
          slots,        \* connections of readyRead to recvMessage
          armed,        \* may the socket emit readyRead?
          calls,        \* connections that the signal has still to call
          sent, shown, receipted,
          lost,         \* lost[u]: frames for u that were read and not used
          nested,       \* a click of u was handled inside a call
          reported      \* u has been in userOnWait

clientVars == <<stack, frameNo, clicks, slots, armed, calls>>
historyVars == <<sent, shown, receipted, lost, nested, reported>>
vars == <<channelVars, clientVars, historyVars>>

OnOpt == 0              \* 0x00 user on
NoFrame == [w0 |-> 0, opt |-> OnOpt]

Init ==
    /\ ChannelInit
    /\ stack = [u \in Users |-> <<>>]
    /\ frameNo = [u \in Users |-> 255]
    /\ slots = [u \in Users |-> 1] /\ armed = [u \in Users |-> TRUE]
    /\ calls = [u \in Users |-> 0] /\ clicks = 0
    /\ sent = {} /\ receipted = {}
    /\ shown = [u \in Users |-> {}] /\ lost = [u \in Users |-> {}]
    /\ nested = [u \in Users |-> FALSE] /\ reported = [u \in Users |-> FALSE]

At(u) == IF stack[u] = <<>> THEN "loop" ELSE Head(stack[u]).at
Top(u) == Head(stack[u])

\* A call begins, goes on in its next place, or returns.
Push(u, call) == stack' = [stack EXCEPT ![u] = <<call>> \o @]
Become(u, call) == stack' = [stack EXCEPT ![u] = <<call>> \o Tail(@)]
Goto(u, at) == Become(u, [Top(u) EXCEPT !.at = at])
Return(u) == stack' = [stack EXCEPT ![u] = Tail(@)]

\* u runs its event loop, the outermost or one of processEvents.
InEvents(u) == calls[u] = 0 /\ At(u) \in {"loop", "onEvents", "testEvents"}

\* Mutants: connect without effect; disconnect of one connection, or of none.
NotConnected(n) == n
OneDisconnected(n) == n - 1
NotDisconnected(n) == n

\* connect adds a connection to those there are, disconnect removes them all.
Connected(n) == n + 1
Disconnected(n) == 0

Lose(u, f, by) ==
    lost' = IF recv_dest_user(f) = u
            THEN [lost EXCEPT ![u] = @ \cup {[msg |-> f.msg, opt |-> f.opt,
                                              data |-> f.data, by |-> by]}]
            ELSE lost

-----------------------------------------------------------------------------
(* Receiving a message in the event loop.                                  *)

Emit(u) == armed' = [armed EXCEPT ![u] = FALSE] /\ calls' = [calls EXCEPT ![u] = slots[u]]
ReadAgain(u) == armed' = [armed EXCEPT ![u] = TRUE]

\* The event loop finds a datagram on the socket.
ReadyRead(u) ==
    /\ InEvents(u) /\ armed[u] /\ inbox[u] # {}
    /\ Emit(u)
    /\ UNCHANGED <<channelVars, stack, frameNo, clicks, slots, historyVars>>

\* userRecvWait sends the confirm of a message.
userRecvWait(u, f) ==
    \/ SendTo(UpFrame(stamp, u, recv_src_user(f), frameNo[u], ReplyOpt, Confirm, f.msg))
    \/ SocketError

\* userRecv displays a message for this client, and confirms it if it wants that.
userRecv(u, f) ==
    LET mine == recv_dest_user(f) = u /\ f.opt \in MessageOpts
    IN  /\ IF mine
           THEN shown' = [shown EXCEPT ![u] = @ \cup {f.msg}] /\ UNCHANGED lost
           ELSE Lose(u, f, "slot") /\ UNCHANGED shown
        /\ IF mine /\ f.opt = CnfOpt THEN userRecvWait(u, f)
                                     ELSE UNCHANGED <<up, stamp, faults>>

\* recvMessage takes one datagram if there is one.
recvMessage(u) ==
    /\ calls[u] > 0 /\ calls' = [calls EXCEPT ![u] = @ - 1]
    /\ \/ inbox[u] = {} /\ UNCHANGED <<inbox, up, stamp, faults, armed, shown, lost>>
       \/ \E f \in inbox[u] : RecvFrom(u, f) /\ userRecv(u, f) /\ ReadAgain(u)
       \/ inbox[u] # {} /\ SocketError /\ ReadAgain(u) /\ UNCHANGED <<inbox, shown, lost>>
    /\ UNCHANGED <<down, dups, accepted, stack, frameNo, clicks, slots,
                   sent, receipted, nested, reported>>

-----------------------------------------------------------------------------
(* The two buttons.                                                        *)

Click(u) ==
    /\ InEvents(u) /\ u \in Operators /\ Len(stack[u]) < MaxDepth
    /\ clicks < MaxClicks /\ clicks' = clicks + 1
    /\ nested' = [nested EXCEPT ![u] = @ \/ stack[u] # <<>>]

\* userOn fills in the frame number and lets events happen before it sends.
on_pushButton_move_clicked(u) ==
    /\ Click(u)
    /\ Push(u, [at |-> "onEvents", id |-> 0, isCnf |-> FALSE, msg |-> 0,
                frame |-> frameNo[u], got |-> NoFrame])
    /\ UNCHANGED <<channelVars, frameNo, slots, armed, calls, sent, shown, receipted,
                   lost, reported>>

\* The rest of userOn, and the start of userOnWait.
userOn(u) ==
    /\ At(u) = "onEvents" /\ calls[u] = 0
    /\ \/ /\ SendTo(UpFrame(stamp, u, Station, Top(u).frame, OnOpt, OnOk, stamp))
          /\ Become(u, [Top(u) EXCEPT !.at = "onWait", !.msg = stamp])
          /\ slots' = [slots EXCEPT ![u] = Disconnected(@)]
          /\ reported' = [reported EXCEPT ![u] = TRUE]
       \/ SocketError /\ Return(u) /\ UNCHANGED <<slots, reported>>
    /\ UNCHANGED <<down, inbox, dups, accepted, frameNo, clicks, armed, calls, sent,
                   shown, receipted, lost, nested>>

\* The radio buttons: no answer, receipt, receipt and confirm.
SendOption(isRet, isCnf) == IF ~isRet THEN PlainOpt ELSE IF isCnf THEN CnfOpt ELSE RetOpt
RadioButtons == {<<FALSE, FALSE>>, <<TRUE, FALSE>>, <<TRUE, TRUE>>}

\* userSend as far as its first wait; without a wait the slot is disconnected and
\* connected at once.  A failed send returns before that.
userSend(u, isRet, isCnf, id) ==
    \/ /\ SendTo(UpFrame(stamp, u, id, frameNo[u], SendOption(isRet, isCnf), TextByte, stamp))
       /\ sent' = sent \cup {[msg |-> stamp, src |-> u, dst |-> id,
                              opt |-> SendOption(isRet, isCnf)]}
       /\ IF isRet
          THEN /\ Push(u, [at |-> "retWait", id |-> id, isCnf |-> isCnf,
                           msg |-> stamp, frame |-> frameNo[u], got |-> NoFrame])
               /\ slots' = [slots EXCEPT ![u] = Disconnected(@)]
          ELSE slots' = [slots EXCEPT ![u] = Connected(Disconnected(@))] /\ UNCHANGED stack
    \/ SocketError /\ UNCHANGED <<sent, stack, slots>>

\* The addressee is whatever the field says: nothing asks whether it is a user.
on_pushButton_send_clicked(u) ==
    /\ Click(u)
    /\ \E id \in Addressees, radio \in RadioButtons : userSend(u, radio[1], radio[2], id)
    /\ UNCHANGED <<down, inbox, dups, accepted, frameNo, armed, calls, shown, receipted,
                   lost, reported>>

-----------------------------------------------------------------------------
(* The waits.                                                              *)

\* Mutant: the byte compared without the cast, on a build with signed char.
IsAnswerSigned(f) == f.opt - 256 = ReplyOpt

\* (unsigned char) *(buf+option) == 0x80
IsAnswer(f) == f.opt = ReplyOpt

\* Mutant: the channel is taken for a private line.
FromToAnyone(u, f, src) == recv_src_user(f) = src /\ IsAnswer(f)

From(u, f, src) == recv_dest_user(f) = u /\ recv_src_user(f) = src /\ IsAnswer(f)

\* Mutant: the byte of a confirm.
IsReceiptTypo(u, f) == From(u, f, Station) /\ f.data = Confirm

IsReceipt(u, f) == From(u, f, Station) /\ f.data = Receipt

IsConfirm(u, f) == From(u, f, Top(u).id) /\ f.data = Confirm

\* waitForReadyRead emits the signal before it returns.
userOnWait(u) ==
    /\ At(u) = "onWait" /\ calls[u] = 0 /\ inbox[u] # {}
    /\ IF armed[u] THEN Emit(u) ELSE UNCHANGED <<armed, calls>>
    /\ Goto(u, "onRead")
    /\ UNCHANGED <<channelVars, frameNo, clicks, slots, historyVars>>

\* readDatagram fails when recvMessage has taken the datagram.
OnRead(u) ==
    /\ At(u) = "onRead" /\ calls[u] = 0
    /\ ReadAgain(u)
    /\ \/ /\ inbox[u] = {} /\ Goto(u, "onWait")
          /\ UNCHANGED <<inbox, stamp, up, faults, lost>>
       \/ /\ inbox[u] # {} /\ SocketError /\ Goto(u, "onWait")
          /\ UNCHANGED <<inbox, lost>>
       \/ \E f \in inbox[u] :
            /\ RecvFrom(u, f)
            /\ Become(u, [Top(u) EXCEPT !.at = "testEvents", !.got = f])
            /\ IF From(u, f, Station) THEN UNCHANGED lost ELSE Lose(u, f, "wait")
            /\ UNCHANGED <<stamp, up, faults>>
    /\ UNCHANGED <<down, dups, accepted, frameNo, clicks, slots, calls, sent, shown,
                   receipted, nested, reported>>

\* Any reply of the station ends the wait; only "0x00" advances the number.
OnTest(u) ==
    /\ At(u) = "testEvents" /\ calls[u] = 0
    /\ LET f == Top(u).got
       IN  IF From(u, f, Station)
           THEN /\ slots' = [slots EXCEPT ![u] = Connected(@)]
                /\ Return(u)
                /\ frameNo' = IF f.data = OnOk
                              THEN [frameNo EXCEPT ![u] = (@ + 2) % FrameNoCount]
                              ELSE frameNo
           ELSE Goto(u, "onWait") /\ UNCHANGED <<slots, frameNo>>
    /\ UNCHANGED <<channelVars, clicks, armed, calls, historyVars>>

\* The wait of userSend for its last answer is over.
EndSend(u) == Return(u) /\ slots' = [slots EXCEPT ![u] = Connected(@)]

userSendWaitRet(u) ==
    /\ At(u) = "retWait"
    /\ \E f \in inbox[u] :
         /\ RecvFrom(u, f)
         /\ IF IsReceipt(u, f)
            THEN /\ receipted' = receipted \cup {Top(u).msg}
                 /\ IF Top(u).isCnf THEN Goto(u, "cnfWait") /\ UNCHANGED slots
                                    ELSE EndSend(u)
                 /\ UNCHANGED lost
            ELSE Lose(u, f, "wait") /\ UNCHANGED <<receipted, stack, slots>>
    /\ ReadAgain(u)
    /\ UNCHANGED <<up, down, stamp, faults, dups, accepted, frameNo, clicks, calls,
                   sent, shown, nested, reported>>

userSendWaitCnf(u) ==
    /\ At(u) = "cnfWait"
    /\ \E f \in inbox[u] :
         /\ RecvFrom(u, f)
         /\ IF IsConfirm(u, f)
            THEN EndSend(u) /\ UNCHANGED lost
            ELSE Lose(u, f, "wait") /\ UNCHANGED <<stack, slots>>
    /\ ReadAgain(u)
    /\ UNCHANGED <<up, down, stamp, faults, dups, accepted, frameNo, clicks, calls,
                   sent, shown, receipted, nested, reported>>

-----------------------------------------------------------------------------
\* The station answers a user that reports itself.
StationOn ==
    \E f \in up, result \in {OnOk, OnFailed} :
      /\ Uplink(f) /\ f.opt = OnOpt
      /\ down' = down \cup {DownFrame(stamp, send_src_user(f), Station,
                                      ReplyFrame(f), ReplyOpt, result, f.msg)}
      /\ stamp' = stamp + 1
      /\ UNCHANGED <<inbox, faults, dups, accepted, clientVars, historyVars>>

\* What the thread does without its user.
Thread(u) ==
    \/ ReadyRead(u) \/ recvMessage(u)
    \/ userOn(u) \/ userOnWait(u) \/ OnRead(u) \/ OnTest(u)
    \/ userSendWaitRet(u) \/ userSendWaitCnf(u)

Delivery == ChannelStep /\ UNCHANGED <<clientVars, historyVars>>

Next ==
    \/ \E u \in Users : \/ Thread(u)
                        \/ on_pushButton_move_clicked(u) \/ on_pushButton_send_clicked(u)
    \/ StationOn \/ Delivery

Spec == Init /\ [][Next]_vars

\* The thread of every client runs and the network delivers; nobody has to click
\* and nothing has to fail.
FairSpec ==
    /\ Spec
    /\ \A u \in Users : WF_vars(Thread(u) /\ UNCHANGED faults)
    /\ WF_vars(StationOn) /\ WF_vars(Delivery /\ UNCHANGED <<faults, dups>>)

-----------------------------------------------------------------------------
(* Properties.                                                             *)

\* Whatever was nested or failed: when all calls have returned, recvMessage is
\* connected again.
SlotRestored == \A u \in Users : stack[u] = <<>> => slots[u] >= 1

\* mainwindow.cpp:482 "DISABLE slot to block confirm process": during a wait of
\* userSend no connection is left, also when nested calls have added some.
WaitIsPrivate ==
    \A u \in Users : At(u) \in {"retWait", "cnfWait"} => slots[u] = 0 /\ calls[u] = 0

NoFaults == faults = 0 /\ dups = 0

\* recvMessage takes an answer that a call is waiting for only after a click was
\* handled inside a call.
EatenOnlyWhenNested ==
    NoFaults => \A u \in Users : (\E l \in lost[u] : l.by = "slot") => nested[u]

\* A report to the station is answered: while userOnWait waits, the report or its
\* answer is on its way, unless a click inside a call has let another call read.
OnAnswerOwed ==
    NoFaults => \A u \in Users : (At(u) = "onWait" /\ ~nested[u]) =>
        \E f \in up \cup down \cup inbox[u] : f.msg = Top(u).msg

\* The receipt that userSendWaitRet waits for is on its way, although calls nest.
ReceiptOwed ==
    NoFaults => \A u \in Users : At(u) = "retWait" =>
        \/ \E f \in up : f.msg = Top(u).msg /\ f.opt # ReplyOpt
        \/ \E f \in down \cup inbox[u] : f.msg = Top(u).msg /\ f.data = Receipt

\* A receipt is reported only for a message that the station has accepted.
ReceiptSound == receipted \subseteq accepted

Lost(u, msg, opt) == \E l \in lost[u] : l.msg = msg /\ l.opt = opt

\* No signal will announce the datagrams of an idle client: one was emitted while
\* nothing was connected, in userOnWait.
Deaf(u) == stack[u] = <<>> /\ calls[u] = 0 /\ ~armed[u] /\ reported[u]

\* The wait for a confirm that is not coming: the addressee is nobody's number, or
\* deaf, or a wait of the addressee threw the message away, or one of the sender
\* the confirm.
ConfirmLost(u) ==
    /\ At(u) = "cnfWait"
    /\ \/ Top(u).id \notin Users
       \/ Lost(Top(u).id, Top(u).msg, CnfOpt) \/ Deaf(Top(u).id)
       \/ Lost(u, Top(u).msg, ReplyOpt)

\* Every click is dealt with: the thread comes back to its outermost event loop,
\* unless it waits for a confirm that is not coming or a click was handled inside a
\* call.
ThreadReturns ==
    \A u \in Users : stack[u] # <<>> ~>
        (stack[u] = <<>> \/ ConfirmLost(u) \/ nested[u] \/ ~NoFaults)

\* Some accepted message for u has been neither displayed nor thrown away.
Pending(u) ==
    \E s \in sent : /\ s.dst = u /\ s.msg \in accepted \ shown[u]
                    /\ \A l \in lost[u] : l.msg # s.msg

\* Accepted messages are displayed, or thrown away by a wait, unless the client
\* is deaf or its thread never returns.
MessageShown ==
    \A u \in Users :
        Pending(u) ~> (~Pending(u) \/ Deaf(u) \/ ConfirmLost(u) \/ ~NoFaults)
=============================================================================
