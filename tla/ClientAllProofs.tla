-------------------------- MODULE ClientAllProofs ---------------------------
(***************************************************************************)
(* Types and safety of ClientAll, for every set of users, every bound and  *)
(* both signs of char: what clients display and report is true, whatever   *)
(* the network does; and, as long as it does nothing but reorder, no       *)
(* answer is lost silently.                                                *)
(***************************************************************************)
EXTENDS ClientAllInv, FiniteSetTheorems, TLAPS

(* Types.                                                                  *)

\* Frames built by either constructor are frames.
LEMMA FrameTypes ==
    ASSUME NEW id \in Nat, NEW a \in Nat, NEW b \in Nat, NEW n \in FrameNos,
           NEW o \in Options, NEW d \in DataBytes, NEW m \in Nat
    PROVE  UpFrame(id, a, b, n, o, d, m) \in Frame
           /\ DownFrame(id, a, b, n, o, d, m) \in Frame
  BY DEF UpFrame, DownFrame, Frame

\* The option and data constants are members of their types.
LEMMA ByteTypes ==
    /\ {MoveOpt, PlainOpt, RetOpt, Ret1Opt, CnfOpt, ReplyOpt} \subseteq Options
    /\ MessageOpts \subseteq Options
    /\ {OnOk, OnFailed, MoveOk, Receipt, Confirm, TextByte} \subseteq DataBytes
  BY DEF Options, MessageOpts, DataBytes

\* Each socket call of a client keeps the types of the variables it writes.
LEMMA SocketTypes ==
    ASSUME ChannelTypeOK,
           (\E f \in Frame : SendTo(f)) \/ SocketError
    PROVE  up' \subseteq Frame /\ stamp' \in Nat \ {0}
           /\ faults' \in 0 .. MaxFaults
  BY ChannelAssumption DEF ChannelTypeOK, SendTo, SocketError

\* A remainder is smaller than the divisor, whatever the divisor.
LEMMA Remainder ==
    ASSUME NEW n \in Nat, NEW m \in Nat \ {0}
    PROVE  n % m \in 0 .. m - 1
  BY SMTT(30)

\* Advancing a frame number stays within 16 bits.
LEMMA NextFrameNo ==
    ASSUME NEW n \in FrameNos, NEW k \in Nat
    PROVE  (n + k) % FrameNoCount \in FrameNos
<1>1. FrameNoCount \in Nat \ {0}
  BY DEF FrameNoCount
<1>2. n + k \in Nat
  BY <1>1 DEF FrameNos
<1>3. QED
  BY <1>1, <1>2, Remainder DEF FrameNos

\* The fields of a frame have their types, and so has the number of a reply.
LEMMA FrameFields ==
    ASSUME NEW f \in Frame
    PROVE  /\ f.id \in Nat /\ f.w0 \in Nat /\ f.w1 \in Nat
           /\ f.frame \in FrameNos /\ f.opt \in Options
           /\ f.data \in DataBytes /\ f.msg \in Nat
           /\ ReplyFrame(f) \in FrameNos
  BY NextFrameNo DEF Frame, ReplyFrame

\* Whatever the station sends down for a frame is a frame.
LEMMA AnswerTypes ==
    ASSUME NEW f \in Frame, NEW n \in Nat, NEW o \in Options, NEW d \in DataBytes,
           NEW a \in {f.w0, f.w1, Station}, NEW b \in {f.w0, f.w1, Station},
           NEW r \in {f.frame, ReplyFrame(f)}
    PROVE  DownFrame(n, a, b, r, o, d, f.msg) \in Frame
<1>1. a \in Nat /\ b \in Nat /\ r \in FrameNos /\ f.msg \in Nat
  BY FrameFields DEF Station
<1>2. QED
  BY <1>1 DEF DownFrame, Frame

\* A step of the station, answering a message, a confirm or a report, keeps
\* the types.
LEMMA StationTypes ==
    ASSUME ChannelTypeOK, StationStep
    PROVE  ChannelTypeOK'
<1>1. PICK f \in up : StationMessage(f) \/ StationConfirm(f) \/ StationMove(f)
  BY DEF StationStep
<1>2. f \in Frame /\ stamp \in Nat /\ stamp + 1 \in Nat /\ f.msg \in Nat
      /\ f.opt \in Options /\ f.data \in DataBytes
  BY FrameFields DEF ChannelTypeOK
<1>3. CASE StationMessage(f)
  <2> DEFINE relay(n) == DownFrame(n, f.w1, f.w0, f.frame, f.opt, f.data, f.msg)
             receipt(n) == DownFrame(n, f.w0, Station, ReplyFrame(f),
                                     ReplyOpt, Receipt, f.msg)
  <2>1. \A n \in Nat : relay(n) \in Frame /\ receipt(n) \in Frame
    BY <1>2, AnswerTypes, ByteTypes
  <2>2. down' \subseteq down \cup {relay(stamp), receipt(stamp), relay(stamp + 1),
                                  receipt(stamp + 1)}
    BY <1>3 DEF StationMessage, send_dest_user, send_src_user
  <2>3. stamp' \in Nat \ {0}
    BY <1>3 DEF StationMessage, ChannelTypeOK
  <2>4. accepted' \subseteq Nat /\ up' \subseteq Frame
        /\ UNCHANGED <<inbox, faults, dups>>
    BY <1>2, <1>3 DEF StationMessage, Uplink, ChannelTypeOK
  <2>5. down' \subseteq Frame
    BY <1>2, <2>1, <2>2 DEF ChannelTypeOK
  <2> HIDE DEF relay, receipt
  <2>6. QED
    BY <2>3, <2>4, <2>5 DEF ChannelTypeOK
<1>4. CASE StationConfirm(f)
  <2>1. DownFrame(stamp, f.w1, f.w0, f.frame, f.opt, f.data, f.msg) \in Frame
    BY <1>2, AnswerTypes
  <2>2. down' \subseteq Frame
    BY <1>4, <2>1 DEF StationConfirm, ChannelTypeOK, send_dest_user, send_src_user
  <2>3. QED
    BY <1>4, <2>2 DEF StationConfirm, Uplink, ChannelTypeOK
<1>5. CASE StationMove(f)
  <2>1. \A d \in {OnOk, OnFailed, MoveOk} :
          DownFrame(stamp, f.w0, Station, ReplyFrame(f), ReplyOpt, d, f.msg) \in Frame
    BY <1>2, AnswerTypes, ByteTypes
  <2>2. down' \subseteq Frame
    BY <1>5, <2>1 DEF StationMove, ChannelTypeOK, send_src_user
  <2>3. QED
    BY <1>5, <2>2 DEF StationMove, Uplink, ChannelTypeOK
<1>6. QED
  BY <1>1, <1>3, <1>4, <1>5

\* The broadcast of ChannelUnitForward keeps the types.
LEMMA ForwardTypes ==
    ASSUME ChannelTypeOK, Forward
    PROVE  ChannelTypeOK'
<1>1. PICK f \in down, miss \in SUBSET Users :
        /\ faults + Cardinality(miss) <= MaxFaults
        /\ down' = down \ {f}
        /\ inbox' = [v \in Users |-> IF v \in miss THEN inbox[v]
                                                   ELSE inbox[v] \cup {f}]
        /\ faults' = faults + Cardinality(miss)
        /\ UNCHANGED <<up, stamp, dups, accepted>>
  BY DEF Forward
<1>2. Cardinality(miss) \in Nat
  BY UsersAssumption, FS_Subset, FS_CardinalityType
<1>3. QED
  BY <1>1, <1>2, ChannelAssumption DEF ChannelTypeOK

\* A duplicated datagram is a frame.
LEMMA DuplicateTypes ==
    ASSUME ChannelTypeOK, Duplicate
    PROVE  ChannelTypeOK'
<1>1. \A f \in Frame : [f EXCEPT !.id = stamp] \in Frame
  BY DEF Frame, ChannelTypeOK
<1>2. QED
  BY <1>1, ChannelAssumption DEF Duplicate, ChannelTypeOK

-----------------------------------------------------------------------------
(* Type correctness: one lemma per action of a client.                     *)

\* RecvFrom leaves sets of frames in the sockets.
LEMMA RecvTypes ==
    ASSUME NEW u \in Users, NEW f \in inbox[u], ChannelTypeOK, RecvFrom(u, f)
    PROVE  inbox' \in [Users -> SUBSET Frame] /\ f \in Frame
  BY DEF ChannelTypeOK, RecvFrom

\* epoll_wait keeps the types.
LEMMA EpollWaitTypes ==
    ASSUME TypeOK, NEW u \in Users, NEW events \in SUBSET Events, EpollWait(u, events)
    PROVE  TypeOK'
  BY ClientAssumption DEF EpollWait, TypeOK, ChannelTypeOK, channelVars, historyVars

\* A typed "send", up to the first wait of userSend, keeps the types.
LEMMA SendLineTypes ==
    ASSUME TypeOK, NEW u \in Users, SendLine(u)
    PROVE  TypeOK'
<1>1. PICK typedRet \in BOOLEAN, isCnf \in BOOLEAN, id \in Addressees :
        \E isRet \in ScannedRet(typedRet) : UserSend(u, isRet, isCnf, id)
  BY DEF SendLine
<1>2. PICK isRet \in BOOLEAN : UserSend(u, isRet, isCnf, id)
  BY <1>1 DEF ScannedRet
<1> DEFINE opt == SendOption(isRet, isCnf)
           f == UpFrame(stamp, u, id, frameNo[u], opt, TextByte, stamp)
           s == [msg |-> stamp, src |-> u, dst |-> id, opt |-> opt]
<1>3. opt \in SendOptions /\ opt \in Options
  BY DEF SendOption, SendOptions, MessageOpts, Options
<1>4. stamp \in Nat /\ u \in Nat /\ id \in Nat /\ frameNo[u] \in FrameNos
  BY UsersAssumption, OperatorsAssumption DEF TypeOK, ChannelTypeOK
<1>5. f \in Frame /\ s \in Messages
  BY <1>3, <1>4, FrameTypes, ByteTypes DEF Messages
<1>6. [id |-> id, isCnf |-> isCnf, msg |-> stamp] \in Calls
  BY <1>4 DEF Calls
<1>7. /\ SendTo(f) \/ SocketError
      /\ sent' \subseteq sent \cup {s}
      /\ call' \in [Users -> Calls] /\ pc' \in [Users -> PCs]
  BY <1>2, <1>6 DEF UserSend, FirstWait, TypeOK, PCs
<1>8. UNCHANGED <<down, inbox, dups, accepted, frameNo, typed, restarts,
                  shown, receipted, confirmed, wasted>>
      /\ ready' \in [Users -> SUBSET Events]
  BY DEF SendLine, Handling, TypeOK
<1> HIDE DEF opt, f, s
<1>9. up' \subseteq Frame /\ stamp' \in Nat \ {0} /\ faults' \in 0 .. MaxFaults
  BY <1>5, <1>7, SocketTypes DEF TypeOK
<1>10. QED
  BY <1>5, <1>7, <1>8, <1>9 DEF TypeOK, ChannelTypeOK

\* A typed "move", up to the wait of userMove, keeps the types.
LEMMA MoveLineTypes ==
    ASSUME TypeOK, NEW u \in Users, MoveLine(u)
    PROVE  TypeOK'
<1> DEFINE f == UpFrame(stamp, 1, 0, frameNo[u], MoveOpt, OnOk, stamp)
<1>1. f \in Frame
  BY FrameTypes, ByteTypes DEF TypeOK, ChannelTypeOK
<1>2. up' \subseteq Frame /\ stamp' \in Nat \ {0} /\ faults' \in 0 .. MaxFaults
  BY <1>1, SocketTypes DEF MoveLine, UserMove, MoveFrame, TypeOK
<1>3. QED
  BY <1>2 DEF MoveLine, UserMove, Handling, TypeOK, ChannelTypeOK, PCs, historyVars

\* An ignored line keeps the types.
LEMMA OtherLineTypes ==
    ASSUME TypeOK, NEW u \in Users, OtherLine(u)
    PROVE  TypeOK'
  BY DEF OtherLine, Handling, TypeOK, ChannelTypeOK, channelVars, historyVars

\* userRecv, with the confirm that it may send, keeps the types.
LEMMA HandleUdpTypes ==
    ASSUME TypeOK, NEW u \in Users, HandleUdp(u)
    PROVE  TypeOK'
<1>1. /\ UNCHANGED <<down, dups, accepted, pc, call, frameNo, typed, restarts,
                     sent, receipted, confirmed, wasted>>
      /\ ready' = [ready EXCEPT ![u] = @ \ {"udp"}]
  BY DEF HandleUdp, Handling
<1>2. CASE SocketError /\ UNCHANGED <<inbox, shown>>
  <2>1. up' \subseteq Frame /\ stamp' \in Nat \ {0} /\ faults' \in 0 .. MaxFaults
    BY <1>2, SocketTypes DEF TypeOK
  <2>2. QED
    BY <1>1, <1>2, <2>1 DEF TypeOK, ChannelTypeOK
<1>3. ASSUME NEW f \in inbox[u], RecvFrom(u, f), UserRecv(u, f)
      PROVE  TypeOK'
  <2>1. f \in Frame /\ inbox' \in [Users -> SUBSET Frame]
    BY <1>3, RecvTypes DEF TypeOK
  <2>2. shown' \in [Users -> SUBSET Nat]
    BY <1>3, <2>1, FrameFields DEF UserRecv, TypeOK
  <2> DEFINE confirm == UpFrame(stamp, u, f.w1, frameNo[u], ReplyOpt, Confirm, f.msg)
  <2>3. confirm \in Frame
    <3>1. stamp \in Nat /\ u \in Nat /\ f.w1 \in Nat /\ frameNo[u] \in FrameNos
          /\ f.msg \in Nat
      BY <2>1, FrameFields, UsersAssumption DEF TypeOK, ChannelTypeOK
    <3>2. QED
      BY <3>1, FrameTypes, ByteTypes
  <2>4. SendTo(confirm) \/ SocketError \/ UNCHANGED <<up, stamp, faults>>
    BY <1>3 DEF UserRecv, UserRecvWait, recv_src_user
  <2> HIDE DEF confirm
  <2>5. up' \subseteq Frame /\ stamp' \in Nat \ {0} /\ faults' \in 0 .. MaxFaults
    BY <2>3, <2>4, SocketTypes DEF TypeOK, ChannelTypeOK
  <2>6. QED
    BY <1>1, <2>1, <2>2, <2>5 DEF TypeOK, ChannelTypeOK
<1>4. QED
  BY <1>2, <1>3 DEF HandleUdp

\* The three waits write these variables, through Discard or on success.
LEMMA WaitTypes ==
    ASSUME TypeOK, NEW u \in Users,
           UserOnWait(u) \/ UserSendWaitRet(u) \/ UserSendWaitCnf(u)
    PROVE  TypeOK'
<1>1. UNCHANGED <<up, down, stamp, faults, dups, accepted, ready, typed,
                  restarts, sent, shown>>
  BY DEF UserOnWait, UserSendWaitRet, UserSendWaitCnf
<1> DEFINE Success ==
             /\ \/ BackToLoop(u)
                \/ pc' = [pc EXCEPT ![u] = "sendWaitCnf"] /\ UNCHANGED call
             /\ \/ UNCHANGED frameNo
                \/ frameNo' = [frameNo EXCEPT ![u] = (@ + 2) % FrameNoCount]
             /\ receipted' \subseteq receipted \cup {call[u].msg}
             /\ confirmed' \subseteq confirmed \cup {call[u].msg}
             /\ UNCHANGED wasted
<1>2. PICK f \in inbox[u] : RecvFrom(u, f) /\ (Discard(u, f) \/ Success)
  <2>1. CASE UserOnWait(u)
    BY <2>1 DEF UserOnWait
  <2>2. CASE UserSendWaitRet(u)
    BY <2>2 DEF UserSendWaitRet
  <2>3. CASE UserSendWaitCnf(u)
    BY <2>3 DEF UserSendWaitCnf
  <2>4. QED
    BY <2>1, <2>2, <2>3
<1>3. f \in Frame /\ inbox' \in [Users -> SUBSET Frame]
  BY <1>2, RecvTypes DEF TypeOK
<1>4. CASE Discard(u, f)
  <2>1. [msg |-> f.msg, opt |-> f.opt, data |-> f.data]
          \in [msg : Nat, opt : Options, data : DataBytes]
    BY <1>3, FrameFields
  <2>2. wasted' \in [Users -> SUBSET [msg : Nat, opt : Options, data : DataBytes]]
    BY <1>4, <2>1 DEF Discard, TypeOK
  <2>3. QED
    BY <1>1, <1>3, <1>4, <2>2 DEF Discard, TypeOK, ChannelTypeOK
<1>5. CASE Success
  <2>1. NoCall \in Calls
    BY DEF NoCall, Calls
  <2>2. pc' \in [Users -> PCs] /\ call' \in [Users -> Calls]
    BY <1>2, <1>5, <2>1 DEF BackToLoop, TypeOK, PCs
  <2>3. frameNo' \in [Users -> FrameNos]
    BY <1>2, <1>5, NextFrameNo DEF TypeOK
  <2>4. receipted' \subseteq Nat /\ confirmed' \subseteq Nat
    <3>1. call[u].msg \in Nat
      BY DEF TypeOK, Calls
    <3>2. QED
      BY <1>5, <3>1 DEF TypeOK
  <2>5. QED
    BY <1>1, <1>3, <1>5, <2>2, <2>3, <2>4 DEF TypeOK, ChannelTypeOK
<1>6. QED
  BY <1>2, <1>4, <1>5

\* A client that starts again has the types of a new one.
LEMMA RestartTypes ==
    ASSUME TypeOK, NEW u \in Users, Restart(u)
    PROVE  TypeOK'
<1>1. NoCall \in Calls /\ FirstFrameNo \in FrameNos
  BY DEF NoCall, Calls, FirstFrameNo, FrameNos, FrameNoCount
<1>2. inbox' \in [Users -> SUBSET Frame]
  BY DEF Restart, TypeOK, ChannelTypeOK
<1>3. restarts' \in 0 .. MaxRestarts
  BY ClientAssumption DEF Restart, TypeOK
<1>4. QED
  BY <1>1, <1>2, <1>3
  DEF Restart, BackToLoop, TypeOK, ChannelTypeOK, PCs, historyVars

\* TypeOK is an inductive invariant.
THEOREM TypeCorrect == Spec => []TypeOK
<1>1. Init => TypeOK
  BY ChannelAssumption, ClientAssumption
  DEF Init, ChannelInit, TypeOK, ChannelTypeOK, PCs, Calls, NoCall, FrameNos,
      FrameNoCount, FirstFrameNo
<1>2. TypeOK /\ [Next]_vars => TypeOK'
  <2> SUFFICES ASSUME TypeOK, [Next]_vars PROVE TypeOK'
    OBVIOUS
  <2>1. ASSUME NEW u \in Users, ClientStep(u) PROVE TypeOK'
    BY <2>1, EpollWaitTypes, SendLineTypes, MoveLineTypes, OtherLineTypes,
       HandleUdpTypes, WaitTypes, RestartTypes
    DEF ClientStep, HandleStdin
  <2>2. CASE ChannelStep /\ UNCHANGED <<clientVars, historyVars>>
    <3>1. ChannelTypeOK'
      BY <2>2, StationTypes, ForwardTypes, DuplicateTypes DEF ChannelStep, TypeOK
    <3>2. QED
      BY <2>2, <3>1 DEF TypeOK, clientVars, historyVars
  <2>3. CASE UNCHANGED vars
    BY <2>3 DEF vars, channelVars, clientVars, historyVars, TypeOK, ChannelTypeOK
  <2>4. QED
    BY <2>1, <2>2, <2>3 DEF Next
<1>3. QED
  BY <1>1, <1>2, PTL DEF Spec

-----------------------------------------------------------------------------
(* Histories.                                                              *)

\* The history only grows.
Grows ==
    /\ sent \subseteq sent' /\ accepted \subseteq accepted'
    /\ \A u \in Users : shown[u] \subseteq shown'[u]

\* No step takes back what was sent, accepted or displayed.
LEMMA HistoryGrows ==
    ASSUME TypeOK, [Next]_vars
    PROVE  Grows
<1>1. ASSUME NEW u \in Users, ClientStep(u) PROVE Grows
  <2>1. CASE \E events \in SUBSET Events : EpollWait(u, events)
    BY <2>1 DEF EpollWait, Grows, channelVars, historyVars
  <2>2. CASE SendLine(u)
    BY <2>2 DEF SendLine, UserSend, Grows
  <2>3. CASE MoveLine(u)
    BY <2>3 DEF MoveLine, Grows, historyVars
  <2>4. CASE OtherLine(u)
    BY <2>4 DEF OtherLine, Grows, channelVars, historyVars
  <2>5. CASE HandleUdp(u)
    BY <2>5 DEF HandleUdp, UserRecv, Grows, TypeOK
  <2>6. CASE UserOnWait(u) \/ UserSendWaitRet(u) \/ UserSendWaitCnf(u)
    BY <2>6 DEF UserOnWait, UserSendWaitRet, UserSendWaitCnf, Grows
  <2>7. CASE Restart(u)
    BY <2>7 DEF Restart, Grows, historyVars
  <2>8. QED
    BY <1>1, <2>1, <2>2, <2>3, <2>4, <2>5, <2>6, <2>7 DEF ClientStep, HandleStdin
<1>2. CASE ChannelStep /\ UNCHANGED <<clientVars, historyVars>>
  BY <1>2 DEF ChannelStep, StationStep, StationMessage, StationConfirm,
              StationMove, Forward, Duplicate, Grows, historyVars
<1>3. CASE UNCHANGED vars
  BY <1>3 DEF vars, channelVars, historyVars, Grows
<1>4. QED
  BY <1>1, <1>2, <1>3 DEF Next

\* What is true of a frame stays true.
LEMMA FramesStayTrue ==
    ASSUME Grows, NEW f \in Frame
    PROVE  (UpTrue(f) => UpTrue(f)') /\ (DownTrue(f) => DownTrue(f)')
<1>1. \A m, src, dst, opts : SentAs(m, src, dst, opts) => SentAs(m, src, dst, opts)'
  BY DEF Grows, SentAs
<1>2. UpTrue(f) => UpTrue(f)'
  BY <1>1 DEF Grows, UpTrue
<1>3. DownTrue(f) => DownTrue(f)'
  BY <1>1 DEF Grows, DownTrue
<1>4. QED
  BY <1>2, <1>3

\* The option tests of the receivers see the option of the frame.
LEMMA OptionTests ==
    ASSUME NEW f \in Frame
    PROVE  /\ AsChar(f.opt) \in MessageOpts => AsChar(f.opt) = f.opt
           /\ IsReply(f) => f.opt = ReplyOpt
  BY CharAssumption DEF AsChar, IsReply, Frame, Options, MessageOpts, MoveOpt,
       PlainOpt, RetOpt, Ret1Opt, CnfOpt, ReplyOpt

\* The frames that a step adds are true.
NewFramesTrue ==
    /\ \A f \in up' : f \in up \/ UpTrue(f)'
    /\ \A f \in down' : f \in down \/ DownTrue(f)'
    /\ \A u \in Users : \A f \in inbox'[u] :
         f \in inbox[u] \/ f \in down \/ DownTrue(f)'

\* FramesTrue is preserved when the added frames are true and the history grows.
LEMMA FramesTrueStep ==
    ASSUME TypeOK, FramesTrue, Grows, NewFramesTrue, TypeOK',
           \A u \in Users : CallTrue(u)'
    PROVE  FramesTrue'
<1>1. \A f \in Frame : (UpTrue(f) => UpTrue(f)') /\ (DownTrue(f) => DownTrue(f)')
  BY FramesStayTrue
<1>2. \A f \in up' : UpTrue(f)'
  BY <1>1 DEF FramesTrue, NewFramesTrue, TypeOK, ChannelTypeOK
<1>3. \A f \in down' : DownTrue(f)'
  BY <1>1 DEF FramesTrue, NewFramesTrue, TypeOK, ChannelTypeOK
<1>4. \A u \in Users : \A f \in inbox'[u] : DownTrue(f)'
  BY <1>1 DEF FramesTrue, NewFramesTrue, TypeOK, ChannelTypeOK
<1>5. QED
  BY <1>2, <1>3, <1>4 DEF FramesTrue

-----------------------------------------------------------------------------
(* One lemma per group of actions.                                         *)

\* What was sent stays sent.
LEMMA SentStays ==
    ASSUME Grows, NEW m, NEW src, NEW dst, NEW opts, SentAs(m, src, dst, opts)
    PROVE  SentAs(m, src, dst, opts)'
  BY DEF Grows, SentAs

\* A step that leaves the call of u alone keeps what is known of it.
LEMMA CallStaysTrue ==
    ASSUME Grows, NEW u \in Users, CallTrue(u), pc'[u] = pc[u], call'[u] = call[u]
    PROVE  CallTrue(u)'
  BY SentStays DEF CallTrue, Waiting

\* The option bytes, and the data bytes of replies, that the proofs tell apart.
LEMMA OptionsDiffer ==
    /\ ReplyOpt \notin MessageOpts /\ MoveOpt \notin MessageOpts /\ MoveOpt # ReplyOpt
    /\ CnfOpt \in MessageOpts /\ {PlainOpt, RetOpt, CnfOpt} \subseteq MessageOpts
    /\ Receipt \notin {OnOk, OnFailed, MoveOk}
    /\ Confirm \notin {Receipt, OnOk, OnFailed, MoveOk}
  BY DEF ReplyOpt, MessageOpts, MoveOpt, PlainOpt, RetOpt, Ret1Opt, CnfOpt,
         Receipt, Confirm, OnOk, OnFailed, MoveOk

\* Steps of a client that send nothing, or a mobility report.
LEMMA QuietTrue ==
    ASSUME TypeOK, FramesTrue, Grows, NEW u \in Users,
           \/ \E events \in SUBSET Events : EpollWait(u, events)
           \/ MoveLine(u) \/ OtherLine(u)
    PROVE  NewFramesTrue /\ \A v \in Users : CallTrue(v)'
<1>1. CASE (\E events \in SUBSET Events : EpollWait(u, events)) \/ OtherLine(u)
  <2>1. UNCHANGED <<channelVars, pc, call>>
    BY <1>1 DEF EpollWait, OtherLine
  <2>2. \A v \in Users : CallTrue(v)'
    BY <2>1, CallStaysTrue DEF FramesTrue
  <2>3. QED
    BY <2>1, <2>2 DEF NewFramesTrue, channelVars
<1>2. CASE MoveLine(u)
  <2>0. PICK f : f = UpFrame(stamp, 1, 0, frameNo[u], MoveOpt, OnOk, stamp)
    OBVIOUS
  <2>1. UpTrue(f)'
    BY <2>0, OptionsDiffer DEF UpTrue, UpFrame
  <2>2. up' \subseteq up \cup {f} /\ UNCHANGED <<down, inbox>>
    BY <1>2, <2>0 DEF MoveLine, UserMove, MoveFrame, SendTo, SocketError
  <2>3. ASSUME NEW v \in Users PROVE CallTrue(v)'
    <3>1. CASE pc'[v] = pc[v]
      BY <1>2, <3>1, CallStaysTrue DEF MoveLine, FramesTrue
    <3>2. CASE pc'[v] # pc[v]
      BY <1>2, <3>2 DEF MoveLine, UserMove, TypeOK, CallTrue, Waiting
    <3>3. QED
      BY <3>1, <3>2
  <2>4. QED
    BY <2>1, <2>2, <2>3 DEF NewFramesTrue
<1>3. QED
  BY <1>1, <1>2

\* userSend sends a frame that says what was sent, and remembers it in its call.
LEMMA SendLineTrue ==
    ASSUME TypeOK, FramesTrue, Grows, NEW u \in Users, SendLine(u)
    PROVE  NewFramesTrue /\ \A v \in Users : CallTrue(v)'
<1>1. PICK typedRet \in BOOLEAN, isCnf \in BOOLEAN, id \in Addressees :
        \E isRet \in ScannedRet(typedRet) : UserSend(u, isRet, isCnf, id)
  BY DEF SendLine
<1>2. PICK isRet \in BOOLEAN : UserSend(u, isRet, isCnf, id)
  BY <1>1 DEF ScannedRet
<1>3. UNCHANGED <<down, inbox>>
  BY DEF SendLine
<1>4. PICK n, opt, f, s :
        /\ n = stamp /\ opt = SendOption(isRet, isCnf)
        /\ f = UpFrame(n, u, id, frameNo[u], opt, TextByte, n)
        /\ s = [msg |-> n, src |-> u, dst |-> id, opt |-> opt]
  OBVIOUS
<1>5. opt \in MessageOpts
  BY <1>4, OptionsDiffer DEF SendOption
<1>6. CASE SocketError /\ UNCHANGED <<sent, call, pc>>
  <2>1. \A v \in Users : CallTrue(v)'
    BY <1>6, CallStaysTrue DEF FramesTrue
  <2>2. QED
    BY <1>3, <1>6, <2>1 DEF SocketError, NewFramesTrue
<1>7. CASE s \in sent'
  <2>1. SentAs(n, u, id, {opt})' /\ SentAs(n, u, id, MessageOpts)'
    BY <1>4, <1>5, <1>7 DEF SentAs
  <2>2. UpTrue(f)'
    BY <1>4, <1>5, <2>1, OptionsDiffer DEF UpTrue, UpFrame
  <2>3. up' \subseteq up \cup {f}
    BY <1>2, <1>4 DEF UserSend, SendTo, SocketError
  <2>4. ASSUME NEW v \in Users PROVE CallTrue(v)'
    <3>1. CASE pc'[v] = pc[v] /\ call'[v] = call[v]
      BY <3>1, CallStaysTrue DEF FramesTrue
    <3>2. CASE v = u /\ call'[u] = [id |-> id, isCnf |-> isCnf, msg |-> n]
      BY <2>1, <3>2 DEF CallTrue
    <3>3. QED
      BY <1>2, <1>4, <3>1, <3>2 DEF UserSend, TypeOK
  <2>5. QED
    BY <1>3, <2>2, <2>3, <2>4 DEF NewFramesTrue
<1>8. QED
  BY <1>2, <1>4, <1>6, <1>7 DEF UserSend

\* userRecvWait sends a true confirm: it follows the display of the message.
LEMMA HandleUdpTrue ==
    ASSUME TypeOK, FramesTrue, Grows, NEW u \in Users, HandleUdp(u)
    PROVE  NewFramesTrue /\ \A v \in Users : CallTrue(v)'
<1>1. UNCHANGED <<down, pc, call>>
  BY DEF HandleUdp
<1>2. \A v \in Users : CallTrue(v)'
  BY <1>1, CallStaysTrue DEF FramesTrue
<1>3. \A v \in Users : inbox'[v] \subseteq inbox[v]
  BY DEF HandleUdp, RecvFrom, TypeOK, ChannelTypeOK
<1>4. ASSUME NEW f \in inbox[u], UserRecv(u, f)
      PROVE  \A g \in up' : g \in up \/ UpTrue(g)'
  <2>0. PICK confirm :
          confirm = UpFrame(stamp, u, f.w1, frameNo[u], ReplyOpt, Confirm, f.msg)
    OBVIOUS
  <2>1. CASE f.w0 = u /\ AsChar(f.opt) = CnfOpt
    <3>1. f.opt = CnfOpt
      BY <2>1, OptionTests, OptionsDiffer DEF TypeOK, ChannelTypeOK
    <3>2. f.msg \in shown'[u]
      BY <1>4, <2>1, OptionsDiffer DEF UserRecv, recv_dest_user, TypeOK
    <3>3. SentAs(f.msg, f.w1, u, {CnfOpt})
      BY <2>1, <3>1, OptionsDiffer DEF FramesTrue, DownTrue
    <3>4. SentAs(f.msg, f.w1, u, {CnfOpt})'
      BY <3>3, SentStays
    <3>5. UpTrue(confirm)'
      BY <2>0, <3>2, <3>4, OptionsDiffer DEF UpTrue, UpFrame
    <3>6. up' \subseteq up \cup {confirm}
      BY <1>4, <2>0, <2>1 DEF UserRecv, UserRecvWait, recv_dest_user, recv_src_user,
           SendTo, SocketError
    <3>7. QED
      BY <3>5, <3>6
  <2>2. CASE ~ (f.w0 = u /\ AsChar(f.opt) = CnfOpt)
    BY <1>4, <2>2 DEF UserRecv, recv_dest_user
  <2>3. QED
    BY <2>1, <2>2
<1>5. \A g \in up' : g \in up \/ UpTrue(g)'
  BY <1>4 DEF HandleUdp, SocketError
<1>6. QED
  BY <1>1, <1>2, <1>3, <1>5 DEF NewFramesTrue

\* The waits and a restart add no frame and end the call they leave.
LEMMA WaitTrue ==
    ASSUME TypeOK, FramesTrue, Grows, NEW u \in Users,
           \/ UserOnWait(u) \/ UserSendWaitRet(u) \/ UserSendWaitCnf(u)
           \/ Restart(u)
    PROVE  NewFramesTrue /\ \A v \in Users : CallTrue(v)'
<1>1. UNCHANGED <<up, down>>
  BY DEF UserOnWait, UserSendWaitRet, UserSendWaitCnf, Restart
<1>2. \A v \in Users : inbox'[v] \subseteq inbox[v]
  BY DEF UserOnWait, UserSendWaitRet, UserSendWaitCnf, Restart, RecvFrom,
         TypeOK, ChannelTypeOK
<1>3. \/ UNCHANGED <<pc, call>> \/ BackToLoop(u)
      \/ Waiting(u) /\ pc' = [pc EXCEPT ![u] = "sendWaitCnf"] /\ UNCHANGED call
  BY DEF UserOnWait, UserSendWaitRet, UserSendWaitCnf, Restart, Discard, Waiting
<1>4. ASSUME NEW v \in Users PROVE CallTrue(v)'
  <2>1. CASE UNCHANGED <<pc, call>>
    BY <2>1, CallStaysTrue DEF FramesTrue
  <2>2. CASE BackToLoop(u)
    <3>1. CASE v = u
      BY <2>2, <3>1 DEF BackToLoop, CallTrue, Waiting, TypeOK
    <3>2. CASE v # u
      BY <2>2, <3>2, CallStaysTrue DEF BackToLoop, TypeOK, FramesTrue
    <3>3. QED
      BY <3>1, <3>2
  <2>3. CASE Waiting(u) /\ pc' = [pc EXCEPT ![u] = "sendWaitCnf"] /\ UNCHANGED call
    <3>1. CASE v = u
      BY <2>3, <3>1, SentStays DEF CallTrue, FramesTrue
    <3>2. CASE v # u
      BY <2>3, <3>2, CallStaysTrue DEF TypeOK, FramesTrue
    <3>3. QED
      BY <3>1, <3>2
  <2>4. QED
    BY <1>3, <2>1, <2>2, <2>3
<1>5. QED
  BY <1>1, <1>2, <1>4 DEF NewFramesTrue

\* The station turns true frames into true frames.
LEMMA StationTrue ==
    ASSUME TypeOK, FramesTrue, Grows, StationStep, UNCHANGED <<clientVars, historyVars>>
    PROVE  NewFramesTrue
<1>1. PICK f \in up : StationMessage(f) \/ StationConfirm(f) \/ StationMove(f)
  BY DEF StationStep
<1>2. /\ f \in Frame /\ f.w0 \in Nat /\ f.w1 \in Nat /\ UpTrue(f)
      /\ Station \notin Users
  BY UsersAssumption, FrameFields DEF TypeOK, ChannelTypeOK, FramesTrue, Station
<1>3. up' \subseteq up /\ UNCHANGED inbox
  BY <1>1 DEF StationMessage, StationConfirm, StationMove, Uplink
<1> SUFFICES \A g \in down' : g \in down \/ DownTrue(g)'
  BY <1>3 DEF NewFramesTrue
<1>4. CASE StationMessage(f)
  <2>1. f.opt \in MessageOpts /\ f.msg \in accepted'
    BY <1>4 DEF StationMessage
  <2>2. PICK r \in sent : r.msg = f.msg /\ r.src = f.w0 /\ r.dst = f.w1 /\ r.opt = f.opt
    BY <1>2, <2>1 DEF UpTrue, SentAs
  <2>3. r \in sent' /\ r.dst \in Nat /\ r.opt \in SendOptions
    BY <2>2 DEF Grows, TypeOK, Messages
  <2>4. ASSUME NEW g, g.w0 = f.w1, g.w1 = f.w0, g.opt = f.opt, g.msg = f.msg
        PROVE  DownTrue(g)'
    BY <2>1, <2>2, <2>3, <2>4, OptionsDiffer DEF DownTrue, SentAs
  <2>5. ASSUME NEW g, g.w0 = f.w0, g.w1 = Station, g.opt = ReplyOpt, g.msg = f.msg,
               g.data = Receipt, f.opt # PlainOpt
        PROVE  DownTrue(g)'
    BY <2>1, <2>2, <2>3, <2>5, OptionsDiffer DEF DownTrue, SentAs, SendOptions
  <2>6. PICK n, m :
          \A g \in down' :
            \/ g \in down
            \/ g \in {DownFrame(n, f.w1, f.w0, f.frame, f.opt, f.data, f.msg),
                      DownFrame(m, f.w1, f.w0, f.frame, f.opt, f.data, f.msg)}
            \/ f.opt # PlainOpt /\
               g \in {DownFrame(n, f.w0, Station, ReplyFrame(f), ReplyOpt, Receipt, f.msg),
                     DownFrame(m, f.w0, Station, ReplyFrame(f), ReplyOpt, Receipt, f.msg)}
    <3>1. PICK n, m : n = stamp /\ m = stamp + 1
      OBVIOUS
    <3>2. QED
      BY <1>4, <3>1 DEF StationMessage, send_src_user, send_dest_user
  <2>7. QED
    BY <2>4, <2>5, <2>6 DEF DownFrame
<1>5. CASE StationConfirm(f)
  <2>1. f.opt = ReplyOpt
    BY <1>5 DEF StationConfirm
  <2>2. f.w0 \in Users /\ f.w0 # Station /\ f.msg \in shown'[f.w0]
    BY <1>2, <2>1 DEF UpTrue, Grows
  <2>3. SentAs(f.msg, f.w1, f.w0, {CnfOpt})'
    BY <1>2, <2>1, SentStays DEF UpTrue
  <2>4. ASSUME NEW g, g.w0 = f.w1, g.w1 = f.w0, g.opt = ReplyOpt, g.msg = f.msg
        PROVE  DownTrue(g)'
    BY <2>2, <2>3, <2>4, OptionsDiffer DEF DownTrue
  <2>5. PICK n : n = stamp
    OBVIOUS
  <2>6. down' = down \cup {DownFrame(n, f.w1, f.w0, f.frame, f.opt, f.data, f.msg)}
    BY <1>5, <2>5 DEF StationConfirm, send_src_user, send_dest_user
  <2>7. QED
    BY <2>1, <2>4, <2>6 DEF DownFrame
<1>6. CASE StationMove(f)
  <2>1. ASSUME NEW g, g.w1 = Station, g.opt = ReplyOpt,
               g.data \notin {Receipt, Confirm}
        PROVE  DownTrue(g)'
    BY <2>1, OptionsDiffer DEF DownTrue
  <2>2. PICK n, result : n = stamp /\ result \in {OnOk, OnFailed, MoveOk} /\
          down' = down \cup {DownFrame(n, f.w0, Station, ReplyFrame(f), ReplyOpt,
                                      result, f.msg)}
    BY <1>6 DEF StationMove, send_src_user
  <2>3. QED
    BY <2>1, <2>2, OptionsDiffer DEF DownFrame
<1>7. QED
  BY <1>1, <1>4, <1>5, <1>6

\* The broadcast and a duplicate add copies of true frames.
LEMMA DeliveryTrue ==
    ASSUME TypeOK, FramesTrue, Grows, Forward \/ Duplicate,
           UNCHANGED <<clientVars, historyVars>>
    PROVE  NewFramesTrue
<1>1. CASE Forward
  BY <1>1 DEF Forward, NewFramesTrue
<1>2. CASE Duplicate
  <2>1. PICK n : n = stamp
    OBVIOUS
  <2>2. ASSUME NEW f \in Frame, NEW g, g = [f EXCEPT !.id = n]
        PROVE  (UpTrue(f) => UpTrue(g)') /\ (DownTrue(f) => DownTrue(g)')
    <3>1. /\ g.w0 = f.w0 /\ g.w1 = f.w1 /\ g.opt = f.opt
          /\ g.data = f.data /\ g.msg = f.msg
      BY <2>2 DEF Frame
    <3>2. (UpTrue(f) => UpTrue(f)') /\ (DownTrue(f) => DownTrue(f)')
      BY FramesStayTrue
    <3>3. QED
      BY <3>1, <3>2 DEF UpTrue, DownTrue
  <2>3. UNCHANGED down
    BY <1>2 DEF Duplicate
  <2>4. ASSUME NEW g \in up', g \notin up PROVE UpTrue(g)'
    <3>1. PICK f \in up : g = [f EXCEPT !.id = n]
      BY <1>2, <2>1, <2>4 DEF Duplicate
    <3>2. QED
      BY <2>2, <3>1 DEF FramesTrue, TypeOK, ChannelTypeOK
  <2>5. ASSUME NEW u \in Users, NEW g \in inbox'[u], g \notin inbox[u]
        PROVE  DownTrue(g)'
    <3>1. PICK f \in inbox[u] : g = [f EXCEPT !.id = n]
      BY <1>2, <2>1, <2>5 DEF Duplicate, TypeOK, ChannelTypeOK
    <3>2. QED
      BY <2>2, <3>1 DEF FramesTrue, TypeOK, ChannelTypeOK
  <2>6. QED
    BY <2>3, <2>4, <2>5 DEF NewFramesTrue
<1>3. QED
  BY <1>1, <1>2

\* What the frames in flight say is true in every reachable state.
THEOREM FramesCorrect == Spec => []FramesTrue
<1>1. Init => FramesTrue
  BY DEF Init, ChannelInit, FramesTrue, CallTrue, Waiting
<1>2. TypeOK /\ TypeOK' /\ FramesTrue /\ [Next]_vars => FramesTrue'
  <2> SUFFICES ASSUME TypeOK, TypeOK', FramesTrue, [Next]_vars PROVE FramesTrue'
    OBVIOUS
  <2>1. Grows
    BY HistoryGrows
  <2>2. ASSUME NEW u \in Users, ClientStep(u)
        PROVE  NewFramesTrue /\ \A v \in Users : CallTrue(v)'
    BY <2>1, <2>2, QuietTrue, SendLineTrue, HandleUdpTrue, WaitTrue
    DEF ClientStep, HandleStdin
  <2>3. CASE ChannelStep /\ UNCHANGED <<clientVars, historyVars>>
    <3>1. NewFramesTrue
      BY <2>1, <2>3, StationTrue, DeliveryTrue DEF ChannelStep
    <3>2. \A v \in Users : CallTrue(v)'
      BY <2>1, <2>3, CallStaysTrue DEF FramesTrue, clientVars
    <3>3. QED
      BY <2>1, <3>1, <3>2, FramesTrueStep
  <2>4. CASE UNCHANGED vars
    <3>1. NewFramesTrue
      BY <2>4 DEF vars, channelVars, NewFramesTrue
    <3>2. \A v \in Users : CallTrue(v)'
      BY <2>1, <2>4, CallStaysTrue DEF FramesTrue, vars, clientVars
    <3>3. QED
      BY <2>1, <3>1, <3>2, FramesTrueStep
  <2>5. QED
    BY <2>1, <2>2, <2>3, <2>4, FramesTrueStep DEF Next
<1>3. QED
  BY <1>1, <1>2, TypeCorrect, PTL DEF Spec

-----------------------------------------------------------------------------
(* What holds whatever the network does.                                   *)

\* ShownSound is preserved: only userRecv displays, and what it displays is a
\* true frame whose destination is the client.
LEMMA ShownSoundStep ==
    ASSUME TypeOK, FramesTrue, ShownSound, [Next]_vars
    PROVE  ShownSound'
<1>1. Grows
  BY HistoryGrows
<1>2. ASSUME NEW u \in Users, HandleUdp(u) PROVE ShownSound'
  <2>1. CASE UNCHANGED shown
    BY <1>1, <2>1 DEF ShownSound, Grows
  <2>2. ASSUME NEW f \in inbox[u], UserRecv(u, f) PROVE ShownSound'
    <3>1. CASE f.w0 = u /\ AsChar(f.opt) \in MessageOpts
      <4>1. f.opt \in MessageOpts
        BY <3>1, OptionTests DEF TypeOK, ChannelTypeOK
      <4>2. f.msg \in accepted /\ SentAs(f.msg, f.w1, u, {f.opt})
        BY <3>1, <4>1 DEF FramesTrue, DownTrue
      <4>3. \A v \in Users : shown'[v] \subseteq
                shown[v] \cup (IF v = u THEN {f.msg} ELSE {})
        BY <2>2, <3>1 DEF UserRecv, recv_dest_user, TypeOK
      <4>4. QED
        BY <1>1, <4>2, <4>3 DEF ShownSound, SentAs, Grows
    <3>2. CASE ~ (f.w0 = u /\ AsChar(f.opt) \in MessageOpts)
      BY <1>1, <2>2, <3>2 DEF UserRecv, recv_dest_user, ShownSound, Grows
    <3>3. QED
      BY <3>1, <3>2
  <2>3. QED
    BY <1>2, <2>1, <2>2 DEF HandleUdp
<1>3. CASE UNCHANGED shown
  BY <1>1, <1>3 DEF ShownSound, Grows
<1>4. UNCHANGED shown \/ \E u \in Users : HandleUdp(u)
  BY DEF Next, ClientStep, HandleStdin, EpollWait, SendLine, MoveLine, OtherLine,
         UserOnWait, UserSendWaitRet, UserSendWaitCnf, Restart, vars, historyVars
<1>5. QED
  BY <1>2, <1>3, <1>4

\* A client displays only accepted messages that were addressed to it.
THEOREM ShownCorrect == Spec => []ShownSound
<1>1. Init => ShownSound
  BY DEF Init, ShownSound
<1>2. QED
  BY <1>1, ShownSoundStep, TypeCorrect, FramesCorrect, PTL DEF Spec

\* Only userSendWaitCnf reports a confirm, for the frame that ended it.
LEMMA ConfirmReport ==
    ASSUME TypeOK, FramesTrue, [Next]_vars
    PROVE  \/ UNCHANGED confirmed
           \/ \E u \in Users : \E f \in inbox[u] :
                /\ pc[u] = "sendWaitCnf"
                /\ f.w0 = u /\ f.w1 = call[u].id /\ f.opt = ReplyOpt /\ f.data = Confirm
                /\ confirmed' = confirmed \cup {call[u].msg}
                /\ UNCHANGED <<sent, shown>>
<1>1. ASSUME NEW u \in Users, UserSendWaitCnf(u)
      PROVE  \/ UNCHANGED confirmed
             \/ \E f \in inbox[u] :
                  /\ pc[u] = "sendWaitCnf"
                  /\ f.w0 = u /\ f.w1 = call[u].id /\ f.opt = ReplyOpt /\ f.data = Confirm
                  /\ confirmed' = confirmed \cup {call[u].msg}
                  /\ UNCHANGED <<sent, shown>>
  <2>1. \A f \in inbox[u] : From(u, f, call[u].id) =>
          f.w0 = u /\ f.w1 = call[u].id /\ f.opt = ReplyOpt
    BY OptionTests DEF From, recv_dest_user, recv_src_user, TypeOK, ChannelTypeOK
  <2>2. QED
    BY <1>1, <2>1 DEF UserSendWaitCnf, IsConfirm, Discard
<1>2. UNCHANGED confirmed \/ \E u \in Users : UserSendWaitCnf(u)
  BY DEF Next, ClientStep, HandleStdin, EpollWait, SendLine, MoveLine, OtherLine,
         HandleUdp, UserOnWait, UserSendWaitRet, Discard, Restart, vars, historyVars
<1>3. QED
  BY <1>1, <1>2

\* A confirm comes from a client, never from the station.
LEMMA ConfirmIsFromClient ==
    ASSUME FramesTrue, NEW u \in Users, NEW f \in inbox[u],
           f.opt = ReplyOpt, f.data = Confirm
    PROVE  f.w1 \in Users /\ f.w1 # Station
  BY DEF FramesTrue, DownTrue

\* ConfirmFromPeer is preserved: the confirm that is reported is a true frame.
LEMMA ConfirmFromPeerStep ==
    ASSUME TypeOK, FramesTrue, ConfirmFromPeer, [Next]_vars
    PROVE  ConfirmFromPeer'
<1>1. Grows
  BY HistoryGrows
<1>2. CASE UNCHANGED confirmed
  <2>1. ASSUME NEW m \in confirmed
        PROVE  \E s, t \in sent' :
                 /\ s.msg = m
                 /\ t.src = s.src /\ t.dst = s.dst /\ t.opt = CnfOpt
                 /\ s.dst \in Users /\ t.msg \in shown'[s.dst]
    <3>1. PICK s \in sent, t \in sent :
            /\ s.msg = m
            /\ t.src = s.src /\ t.dst = s.dst /\ t.opt = CnfOpt
            /\ s.dst \in Users /\ t.msg \in shown[s.dst]
      BY DEF ConfirmFromPeer
    <3>2. QED
      BY <1>1, <3>1 DEF Grows
  <2>2. QED
    BY <1>2, <2>1 DEF ConfirmFromPeer
<1>3. ASSUME NEW u \in Users, NEW f \in inbox[u],
             pc[u] = "sendWaitCnf",
             f.w0 = u /\ f.w1 = call[u].id /\ f.opt = ReplyOpt /\ f.data = Confirm,
             confirmed' = confirmed \cup {call[u].msg},
             UNCHANGED <<sent, shown>>
      PROVE  ConfirmFromPeer'
  <2>1. call[u].id \in Users /\ call[u].id # Station
        /\ SentAs(call[u].msg, u, call[u].id, MessageOpts)
    BY <1>3, ConfirmIsFromClient DEF FramesTrue, CallTrue, Waiting
  <2>2. f.msg \in shown[call[u].id] /\ SentAs(f.msg, u, call[u].id, {CnfOpt})
    BY <1>3, <2>1 DEF FramesTrue, DownTrue
  <2>3. QED
    BY <1>3, <2>1, <2>2 DEF ConfirmFromPeer, SentAs
<1>4. QED
  BY <1>2, <1>3, ConfirmReport

\* A confirm is reported only to somebody whose message asking for one the peer
\* has displayed.
THEOREM ConfirmsFromPeer == Spec => []ConfirmFromPeer
<1>1. Init => ConfirmFromPeer
  BY DEF Init, ConfirmFromPeer
<1>2. QED
  BY <1>1, ConfirmFromPeerStep, TypeCorrect, FramesCorrect, PTL DEF Spec

\* ReceiptFromStation is preserved: the receipt that is reported is a true frame.
LEMMA ReceiptFromStationStep ==
    ASSUME TypeOK, FramesTrue, ReceiptFromStation, [Next]_vars
    PROVE  ReceiptFromStation'
<1>1. Grows
  BY HistoryGrows
<1>2. CASE UNCHANGED receipted
  BY <1>1, <1>2 DEF ReceiptFromStation, Grows
<1>3. ASSUME NEW u \in Users, UserSendWaitRet(u), ~ UNCHANGED receipted
      PROVE  ReceiptFromStation'
  <2>1. PICK f \in inbox[u] :
          /\ From(u, f, Station) /\ f.data = Receipt
          /\ receipted' = receipted \cup {call[u].msg}
    BY <1>3 DEF UserSendWaitRet, IsReceipt, Discard
  <2>2. f.w0 = u /\ f.w1 = Station /\ f.opt = ReplyOpt
    BY <2>1, OptionTests DEF From, recv_dest_user, recv_src_user, TypeOK, ChannelTypeOK
  <2>3. f.msg \in accepted /\ \E dst \in Nat : SentAs(f.msg, u, dst, {RetOpt, CnfOpt})
    BY <2>1, <2>2 DEF FramesTrue, DownTrue
  <2>4. SentAs(call[u].msg, u, call[u].id, MessageOpts)
    BY <1>3 DEF FramesTrue, CallTrue, Waiting, UserSendWaitRet
  <2>5. \E s, t \in sent :
          /\ s.msg = call[u].msg
          /\ t.src = s.src /\ t.opt \in {RetOpt, CnfOpt} /\ t.msg \in accepted
    BY <2>3, <2>4 DEF SentAs
  <2>6. QED
    BY <1>1, <2>1, <2>5 DEF ReceiptFromStation, Grows
<1>4. UNCHANGED receipted \/ \E u \in Users : UserSendWaitRet(u)
  BY DEF Next, ClientStep, HandleStdin, EpollWait, SendLine, MoveLine, OtherLine,
         HandleUdp, UserOnWait, UserSendWaitCnf, Discard, Restart, vars, historyVars
<1>5. QED
  BY <1>2, <1>3, <1>4

\* A receipt is reported only to somebody whose message the station accepted.
THEOREM ReceiptsFromStation == Spec => []ReceiptFromStation
<1>1. Init => ReceiptFromStation
  BY DEF Init, ReceiptFromStation
<1>2. QED
  BY <1>1, ReceiptFromStationStep, TypeCorrect, FramesCorrect, PTL DEF Spec

-----------------------------------------------------------------------------
(* Answers owed.  Without failures no answer is lost silently, when char   *)
(* is unsigned: what a wait needs is on its way, or was thrown away by a   *)
(* wait that the property names.  The network may still deliver in any     *)
(* order.                                                                  *)

\* The message of the call of u on its way up, or its receipt on its way to u.
ReceiptOnItsWay(u) ==
    LET m == call[u].msg
    IN  \/ \E f \in up : f.msg = m /\ f.opt \in {RetOpt, CnfOpt} /\ f.w0 = u
        \/ \E f \in down \cup inbox[u] :
              /\ f.msg = m /\ f.opt = ReplyOpt /\ f.data = Receipt
              /\ f.w0 = u /\ f.w1 = Station

ReceiptsComing ==
    NoFaults => \A u \in Users : pc[u] = "sendWaitRet" => ReceiptOnItsWay(u)

\* The message that asks for the confirm, on its way up from the one and on its
\* way down to the other; the confirm goes the other way round.
AsksUp(f, src, dst, m) ==
    f.opt = CnfOpt /\ f.data = TextByte /\ f.msg = m /\ f.w0 = src /\ f.w1 = dst
AsksDown(f, src, dst, m) ==
    f.opt = CnfOpt /\ f.data = TextByte /\ f.msg = m /\ f.w0 = dst /\ f.w1 = src
ConfirmsUp(f, src, dst, m) ==
    f.opt = ReplyOpt /\ f.data = Confirm /\ f.msg = m /\ f.w0 = dst /\ f.w1 = src
ConfirmsDown(f, src, dst, m) ==
    f.opt = ReplyOpt /\ f.data = Confirm /\ f.msg = m /\ f.w0 = src /\ f.w1 = dst

ConfirmOnItsWay(u) ==
    LET m == call[u].msg
        id == call[u].id
    IN  \/ \E f \in up : AsksUp(f, u, id, m) \/ ConfirmsUp(f, u, id, m)
        \/ \E f \in down : AsksDown(f, u, id, m) \/ ConfirmsDown(f, u, id, m)
        \/ \E f \in inbox[id] : AsksDown(f, u, id, m)
        \/ \E f \in inbox[u] : ConfirmsDown(f, u, id, m)

\* The waits that a confirm will end, or that may see it go by.
AwaitsConfirm(u) ==
    pc[u] = "sendWaitCnf" \/ (pc[u] = "sendWaitRet" /\ call[u].isCnf)

ConfirmsComing ==
    NoFaults => \A u \in Users :
        AwaitsConfirm(u) => NoConfirmComing(u) \/ ConfirmOnItsWay(u)

-----------------------------------------------------------------------------
(* Facts about steps.                                                      *)

\* No step takes a failure back.
LEMMA FaultsStay ==
    ASSUME TypeOK, [Next]_vars, NoFaults'
    PROVE  NoFaults /\ UNCHANGED <<faults, dups, restarts>>
<1>1. faults \in Nat /\ dups \in Nat /\ restarts \in Nat
  BY DEF TypeOK, ChannelTypeOK
<1>2. faults' = 0 /\ dups' = 0 /\ restarts' = 0
  BY DEF NoFaults
<1>3. faults' = faults \/ faults' = faults + 1
      \/ \E miss \in SUBSET Users : faults' = faults + Cardinality(miss)
  <2>1. CASE ChannelStep
    BY <2>1 DEF ChannelStep, StationStep, StationMessage, StationConfirm, StationMove,
       Forward, Duplicate
  <2>2. ASSUME NEW u \in Users, ClientStep(u) PROVE faults' \in {faults, faults + 1}
    <3>1. CASE SendLine(u)
      BY <3>1 DEF SendLine, UserSend, SendTo, SocketError
    <3>2. CASE MoveLine(u)
      BY <3>2 DEF MoveLine, UserMove, SendTo, SocketError
    <3>3. CASE HandleUdp(u)
      BY <3>3 DEF HandleUdp, UserRecv, UserRecvWait, SendTo, SocketError
    <3>4. CASE ~ (SendLine(u) \/ MoveLine(u) \/ HandleUdp(u))
      BY <2>2, <3>4 DEF ClientStep, HandleStdin, EpollWait, OtherLine, UserOnWait,
         UserSendWaitRet, UserSendWaitCnf, Restart, channelVars
    <3>5. QED
      BY <3>1, <3>2, <3>3, <3>4
  <2>3. CASE UNCHANGED vars
    BY <2>3 DEF vars, channelVars
  <2>4. QED
    BY <2>1, <2>2, <2>3 DEF Next
<1>4. \A miss \in SUBSET Users : Cardinality(miss) \in Nat
  BY UsersAssumption, FS_Subset, FS_CardinalityType
<1>5. faults = 0
  BY <1>1, <1>2, <1>3, <1>4
<1>6. dups' = dups \/ dups' = dups + 1
  <2>1. CASE ChannelStep
    BY <2>1 DEF ChannelStep, StationStep, StationMessage, StationConfirm, StationMove,
       Forward, Duplicate
  <2>2. ASSUME NEW u \in Users, ClientStep(u) PROVE dups' = dups
    BY <2>2 DEF ClientStep, HandleStdin, EpollWait, SendLine, MoveLine, OtherLine,
       HandleUdp, UserOnWait, UserSendWaitRet, UserSendWaitCnf, Restart, channelVars
  <2>3. QED
    BY <2>1, <2>2 DEF Next, vars, channelVars
<1>7. restarts' = restarts \/ restarts' = restarts + 1
  <2>1. ASSUME NEW u \in Users, ClientStep(u) PROVE restarts' \in {restarts, restarts + 1}
    BY <2>1 DEF ClientStep, HandleStdin, EpollWait, SendLine, MoveLine, OtherLine,
       HandleUdp, UserOnWait, UserSendWaitRet, UserSendWaitCnf, Restart
  <2>2. QED
    BY <2>1 DEF Next, vars, clientVars
<1>8. QED
  BY <1>1, <1>2, <1>5, <1>6, <1>7 DEF NoFaults

\* Without failures the broadcast reaches every client.
LEMMA ForwardsToAll ==
    ASSUME TypeOK, Forward, UNCHANGED faults
    PROVE  \E f \in down :
             /\ down' = down \ {f} /\ up' = up
             /\ inbox' = [v \in Users |-> inbox[v] \cup {f}]
<1>1. PICK f \in down, miss \in SUBSET Users :
        /\ down' = down \ {f} /\ faults' = faults + Cardinality(miss)
        /\ inbox' = [v \in Users |-> IF v \in miss THEN inbox[v]
                                                  ELSE inbox[v] \cup {f}]
  BY DEF Forward
<1>2. IsFiniteSet(miss) /\ Cardinality(miss) \in Nat
  BY UsersAssumption, FS_Subset, FS_CardinalityType
<1>3. Cardinality(miss) = 0
  BY <1>1, <1>2 DEF TypeOK, ChannelTypeOK
<1>4. miss = {}
  BY <1>2, <1>3, FS_EmptySet
<1>5. up' = up
  BY DEF Forward
<1>6. QED
  BY <1>1, <1>4, <1>5

\* With unsigned char the tests see the bytes that were sent.
LEMMA UnsignedTests ==
    ASSUME CharSigned = FALSE, NEW f
    PROVE  AsChar(f.opt) = f.opt /\ (IsReply(f) <=> f.opt = ReplyOpt)
  BY DEF AsChar, IsReply

\* What a client does outside its waits leaves the waits of others alone, and
\* takes nothing that is in flight, but what it reads from its own socket.
LEMMA OtherSteps ==
    ASSUME TypeOK, NEW w \in Users, ClientStep(w), ~ Restart(w)
    PROVE  /\ up \subseteq up' /\ down' = down
           /\ \A v \in Users : v # w => /\ inbox'[v] = inbox[v] /\ pc'[v] = pc[v]
                                        /\ call'[v] = call[v]
<1>1. CASE SendLine(w)
  BY <1>1 DEF SendLine, UserSend, SendTo, SocketError, TypeOK
<1>2. CASE MoveLine(w)
  BY <1>2 DEF MoveLine, UserMove, SendTo, SocketError, TypeOK
<1>3. CASE HandleUdp(w)
  BY <1>3 DEF HandleUdp, RecvFrom, UserRecv, UserRecvWait, SendTo, SocketError, TypeOK,
     ChannelTypeOK
<1>4. CASE UserOnWait(w) \/ UserSendWaitRet(w) \/ UserSendWaitCnf(w)
  BY <1>4 DEF UserOnWait, UserSendWaitRet, UserSendWaitCnf, RecvFrom, Discard,
     BackToLoop, TypeOK, ChannelTypeOK
<1>5. CASE (\E events \in SUBSET Events : EpollWait(w, events)) \/ OtherLine(w)
  BY <1>5 DEF EpollWait, OtherLine, channelVars
<1>6. QED
  BY <1>1, <1>2, <1>3, <1>4, <1>5 DEF ClientStep, HandleStdin

\* In the event loop a client leaves its socket to HandleUdp, and only a typed line
\* makes it wait.
LEMMA LoopSteps ==
    ASSUME TypeOK, NEW w \in Users, ClientStep(w), ~ Restart(w),
           ~ SendLine(w), pc'[w] \in {"sendWaitRet", "sendWaitCnf"}
    PROVE  UserSendWaitRet(w) \/ UserSendWaitCnf(w)
           \/ (pc[w] = pc'[w] /\ UNCHANGED <<inbox, call>>)
<1>1. ~ UserOnWait(w)
  BY DEF UserOnWait, BackToLoop, Discard, TypeOK
<1>2. ~ MoveLine(w)
  BY DEF MoveLine, UserMove, Handling, TypeOK
<1>3. ~ HandleUdp(w)
  BY DEF HandleUdp, Handling
<1>4. QED
  BY <1>1, <1>2, <1>3 DEF ClientStep, HandleStdin, EpollWait, OtherLine, channelVars

-----------------------------------------------------------------------------
(* Receipts.                                                               *)

\* userSend waits for a receipt after it has sent a message that asks for one.
LEMMA SendOwesReceipt ==
    ASSUME TypeOK, NEW u \in Users, SendLine(u), UNCHANGED faults,
           pc'[u] = "sendWaitRet"
    PROVE  ReceiptOnItsWay(u)'
<1>1. PICK typedRet \in BOOLEAN, isCnf \in BOOLEAN, id \in Addressees :
        \E isRet \in ScannedRet(typedRet) : UserSend(u, isRet, isCnf, id)
  BY DEF SendLine
<1>2. PICK isRet \in BOOLEAN : UserSend(u, isRet, isCnf, id)
  BY <1>1 DEF ScannedRet
<1>3. PICK n, opt, m :
        /\ n = stamp /\ opt = SendOption(isRet, isCnf)
        /\ m = UpFrame(n, u, id, frameNo[u], opt, TextByte, n)
  OBVIOUS
<1>4. ~ UNCHANGED pc
  BY DEF SendLine, Handling
<1>5. /\ SendTo(m) /\ (isRet \/ isCnf)
      /\ call' = [call EXCEPT ![u] = [id |-> id, isCnf |-> isCnf, msg |-> n]]
      /\ pc' = [pc EXCEPT ![u] = FirstWait(isRet, isCnf)]
  BY <1>2, <1>3, <1>4 DEF UserSend
<1>6. isRet
  BY <1>5 DEF FirstWait, TypeOK
<1>7. m \in up'
  <2>1. faults' # faults + 1
    BY DEF TypeOK, ChannelTypeOK
  <2>2. QED
    BY <1>5, <2>1 DEF SendTo
<1>8. m.opt \in {RetOpt, CnfOpt} /\ m.w0 = u /\ m.msg = n
  BY <1>3, <1>6 DEF SendOption, UpFrame
<1>9. call'[u].msg = n
  BY <1>5 DEF TypeOK
<1>10. QED
  BY <1>7, <1>8, <1>9 DEF ReceiptOnItsWay

\* A step that takes none of the frames that u waits for.
LEMMA ReceiptStays ==
    ASSUME NEW u \in Users, ReceiptOnItsWay(u), call'[u] = call[u],
           up \subseteq up', down \subseteq down', inbox[u] \subseteq inbox'[u]
    PROVE  ReceiptOnItsWay(u)'
  BY DEF ReceiptOnItsWay

\* userSendWaitRet reads its receipt only to end.
LEMMA WaitKeepsReceipt ==
    ASSUME CharSigned = FALSE, TypeOK, NEW u \in Users, ReceiptOnItsWay(u),
           UserSendWaitRet(u), pc'[u] = "sendWaitRet"
    PROVE  ReceiptOnItsWay(u)'
<1>1. PICK f \in inbox[u] :
        /\ inbox' = [inbox EXCEPT ![u] = @ \ {f}]
        /\ IF IsReceipt(u, f)
           THEN pc' = [pc EXCEPT ![u] = "sendWaitCnf"] \/ BackToLoop(u)
           ELSE Discard(u, f)
  BY DEF UserSendWaitRet, RecvFrom
<1>2. ~ IsReceipt(u, f) /\ call' = call
  <2>1. IsReceipt(u, f) => pc'[u] \in {"sendWaitCnf", "loop"}
    BY <1>1 DEF BackToLoop, TypeOK
  <2>2. Discard(u, f) => call' = call
    BY DEF Discard
  <2>3. QED
    BY <1>1, <2>1, <2>2
<1>3. ~ (f.opt = ReplyOpt /\ f.data = Receipt /\ f.w0 = u /\ f.w1 = Station)
  BY <1>2, UnsignedTests DEF IsReceipt, From, recv_dest_user, recv_src_user
<1>4. inbox'[u] = inbox[u] \ {f}
  BY <1>1 DEF TypeOK, ChannelTypeOK
<1>5. UNCHANGED <<up, down>>
  BY DEF UserSendWaitRet
<1>6. QED
  BY <1>2, <1>3, <1>4, <1>5 DEF ReceiptOnItsWay

\* The station turns the message into its receipt.
LEMMA StationKeepsReceipt ==
    ASSUME NEW u \in Users, ReceiptOnItsWay(u), StationStep, UNCHANGED call
    PROVE  ReceiptOnItsWay(u)'
<1>1. PICK f \in up : StationMessage(f) \/ StationConfirm(f) \/ StationMove(f)
  BY DEF StationStep
<1>2. up' = up \ {f} /\ down \subseteq down' /\ UNCHANGED inbox
  BY <1>1 DEF StationMessage, StationConfirm, StationMove, Uplink
<1>3. CASE f.msg = call[u].msg /\ f.opt \in {RetOpt, CnfOpt} /\ f.w0 = u
  <2>1. StationMessage(f) /\ f.opt # PlainOpt
    BY <1>1, <1>3, OptionsDiffer DEF StationConfirm, StationMove, PlainOpt, RetOpt, CnfOpt,
       MoveOpt, ReplyOpt
  <2>2. PICK n, m : n = stamp /\ m = stamp + 1
    OBVIOUS
  <2>3. PICK k \in {n, m} :
          DownFrame(k, f.w0, Station, ReplyFrame(f), ReplyOpt, Receipt, f.msg) \in down'
    BY <2>1, <2>2 DEF StationMessage, send_src_user
  <2>4. PICK g : g = DownFrame(k, f.w0, Station, ReplyFrame(f), ReplyOpt, Receipt, f.msg)
    OBVIOUS
  <2>5. /\ g \in down' /\ g.msg = f.msg /\ g.opt = ReplyOpt /\ g.data = Receipt
        /\ g.w0 = f.w0 /\ g.w1 = Station
    BY <2>3, <2>4 DEF DownFrame
  <2>6. QED
    BY <1>3, <2>5 DEF ReceiptOnItsWay
<1>4. CASE ~ (f.msg = call[u].msg /\ f.opt \in {RetOpt, CnfOpt} /\ f.w0 = u)
  BY <1>2, <1>4 DEF ReceiptOnItsWay
<1>5. QED
  BY <1>3, <1>4

\* The broadcast hands the receipt to its addressee.
LEMMA ForwardKeepsReceipt ==
    ASSUME TypeOK, NEW u \in Users, ReceiptOnItsWay(u), Forward,
           UNCHANGED <<faults, call>>
    PROVE  ReceiptOnItsWay(u)'
<1>1. PICK f \in down :
        /\ down' = down \ {f} /\ up' = up
        /\ inbox' = [v \in Users |-> inbox[v] \cup {f}]
  BY ForwardsToAll
<1>2. inbox'[u] = inbox[u] \cup {f}
  BY <1>1
<1>3. QED
  BY <1>1, <1>2 DEF ReceiptOnItsWay

\* The receipt that somebody waits for is on its way, after every step.
LEMMA ReceiptsComingStep ==
    ASSUME CharSigned = FALSE, TypeOK, ReceiptsComing, [Next]_vars
    PROVE  ReceiptsComing'
<1> SUFFICES ASSUME NoFaults', NEW u \in Users, pc'[u] = "sendWaitRet"
             PROVE  ReceiptOnItsWay(u)'
  BY DEF ReceiptsComing
<1>1. NoFaults /\ UNCHANGED <<faults, dups, restarts>>
  BY FaultsStay
<1>2. pc[u] = "sendWaitRet" => ReceiptOnItsWay(u)
  BY <1>1 DEF ReceiptsComing
<1>3. ASSUME NEW w \in Users, ClientStep(w) PROVE ReceiptOnItsWay(u)'
  <2>1. ~ Restart(w)
    BY <1>1 DEF Restart, TypeOK
  <2>2. /\ up \subseteq up' /\ down' = down
        /\ u # w => inbox'[u] = inbox[u] /\ pc'[u] = pc[u] /\ call'[u] = call[u]
    BY <1>3, <2>1, OtherSteps
  <2>3. CASE u # w
    BY <1>2, <2>2, <2>3, ReceiptStays
  <2>4. CASE u = w /\ SendLine(u)
    BY <1>1, <2>4, SendOwesReceipt
  <2>5. CASE u = w /\ UserSendWaitRet(u)
    BY <1>2, <2>5, WaitKeepsReceipt DEF UserSendWaitRet
  <2>6. CASE u = w /\ UserSendWaitCnf(u)
    BY <2>6 DEF UserSendWaitCnf, BackToLoop, Discard, TypeOK
  <2>7. CASE u = w /\ pc[u] = pc'[u] /\ UNCHANGED <<inbox, call>>
    BY <1>2, <2>2, <2>7, ReceiptStays
  <2>8. QED
    BY <1>3, <2>1, <2>3, <2>4, <2>5, <2>6, <2>7, LoopSteps
<1>4. CASE ChannelStep /\ UNCHANGED <<clientVars, historyVars>>
  <2>1. UNCHANGED <<pc, call>> /\ ReceiptOnItsWay(u)
    BY <1>2, <1>4 DEF clientVars
  <2>2. ~ Duplicate
    BY <1>1 DEF Duplicate, TypeOK, ChannelTypeOK
  <2>3. QED
    BY <1>1, <1>4, <2>1, <2>2, StationKeepsReceipt, ForwardKeepsReceipt DEF ChannelStep
<1>5. CASE UNCHANGED vars
  <2>1. UNCHANGED <<up, down, inbox, pc, call>>
    BY <1>5 DEF vars, channelVars, clientVars
  <2>2. QED
    BY <1>2, <2>1, ReceiptStays
<1>6. QED
  BY <1>3, <1>4, <1>5 DEF Next

\* Without failures, as long as userSendWaitRet waits, its message or the receipt
\* of it is on its way, in whatever order datagrams arrive (unsigned char).
THEOREM ReceiptsOwed ==
    ASSUME CharSigned = FALSE
    PROVE  Spec => []ReceiptOwed
<1>1. Init => ReceiptsComing
  BY DEF Init, ReceiptsComing
<1>2. TypeOK /\ ReceiptsComing /\ [Next]_vars => ReceiptsComing'
  BY ReceiptsComingStep
<1>3. ReceiptsComing => ReceiptOwed
  BY DEF ReceiptsComing, ReceiptOnItsWay, ReceiptOwed, About
<1>4. QED
  BY <1>1, <1>2, <1>3, TypeCorrect, PTL DEF Spec

-----------------------------------------------------------------------------
(* Confirms.                                                               *)

\* What has become of the confirm of u.
ConfirmKnown(u) == NoConfirmComing(u) \/ ConfirmOnItsWay(u)

\* What was thrown away stays thrown away, by whatever step.
LEMMA WastedStays ==
    ASSUME TypeOK, [Next]_vars
    PROVE  \A u \in Users : wasted[u] \subseteq wasted'[u]
<1>1. ASSUME NEW w \in Users, ClientStep(w)
      PROVE  \A u \in Users : wasted[u] \subseteq wasted'[u]
  <2>1. CASE UserOnWait(w) \/ UserSendWaitRet(w) \/ UserSendWaitCnf(w)
    BY <2>1 DEF UserOnWait, UserSendWaitRet, UserSendWaitCnf, Discard, TypeOK
  <2>2. CASE ~ (UserOnWait(w) \/ UserSendWaitRet(w) \/ UserSendWaitCnf(w))
    BY <1>1, <2>2 DEF ClientStep, HandleStdin, EpollWait, SendLine, MoveLine, OtherLine,
       HandleUdp, Restart, historyVars
  <2>3. QED
    BY <2>1, <2>2
<1>2. CASE (ChannelStep /\ UNCHANGED <<clientVars, historyVars>>) \/ UNCHANGED vars
  BY <1>2 DEF vars, historyVars
<1>3. QED
  BY <1>1, <1>2 DEF Next

\* A confirm that is not coming is not coming later either.
LEMMA NotComingStays ==
    ASSUME TypeOK, [Next]_vars, NEW u \in Users, NoConfirmComing(u),
           call'[u] = call[u]
    PROVE  NoConfirmComing(u)'
<1>1. sent \subseteq sent'
  BY HistoryGrows DEF Grows
<1>2. CASE call[u].id \in Users
  <2>1. wasted[u] \subseteq wasted'[u] /\ wasted[call[u].id] \subseteq wasted'[call[u].id]
    BY <1>2, WastedStays
  <2>2. QED
    BY <1>1, <2>1 DEF NoConfirmComing, Wasted
<1>3. CASE call[u].id \notin Users
  BY <1>3 DEF NoConfirmComing
<1>4. QED
  BY <1>2, <1>3

\* A step that takes none of the frames that bring u its confirm.
LEMMA ConfirmStays ==
    ASSUME NEW u \in Users, call[u].id \in Users, ConfirmOnItsWay(u),
           call'[u] = call[u], up \subseteq up', down \subseteq down',
           inbox[u] \subseteq inbox'[u],
           inbox[call[u].id] \subseteq inbox'[call[u].id]
    PROVE  ConfirmOnItsWay(u)'
  BY DEF ConfirmOnItsWay

\* userSend waits for the confirm of a message that asks for it, or that does not
\* (isCnf without isRet).
LEMMA SendOwesConfirm ==
    ASSUME TypeOK, NEW u \in Users, SendLine(u), UNCHANGED faults,
           AwaitsConfirm(u)'
    PROVE  ConfirmKnown(u)'
<1>1. PICK typedRet \in BOOLEAN, isCnf \in BOOLEAN, id \in Addressees :
        \E isRet \in ScannedRet(typedRet) : UserSend(u, isRet, isCnf, id)
  BY DEF SendLine
<1>2. PICK isRet \in BOOLEAN : UserSend(u, isRet, isCnf, id)
  BY <1>1 DEF ScannedRet
<1>3. PICK n, opt, m :
        /\ n = stamp /\ opt = SendOption(isRet, isCnf)
        /\ m = UpFrame(n, u, id, frameNo[u], opt, TextByte, n)
  OBVIOUS
<1>4. ~ UNCHANGED pc
  BY DEF SendLine, Handling, AwaitsConfirm
<1>5. /\ SendTo(m) /\ (isRet \/ isCnf)
      /\ sent' = sent \cup {[msg |-> n, src |-> u, dst |-> id, opt |-> opt]}
      /\ call' = [call EXCEPT ![u] = [id |-> id, isCnf |-> isCnf, msg |-> n]]
      /\ pc' = [pc EXCEPT ![u] = FirstWait(isRet, isCnf)]
  BY <1>2, <1>3, <1>4 DEF UserSend
<1>6. isCnf
  BY <1>5 DEF FirstWait, AwaitsConfirm, TypeOK
<1>7. m \in up'
  <2>1. faults' # faults + 1
    BY DEF TypeOK, ChannelTypeOK
  <2>2. QED
    BY <1>5, <2>1 DEF SendTo
<1>8. call'[u].msg = n /\ call'[u].id = id
  BY <1>5 DEF TypeOK
<1>9. CASE isRet
  <2>1. m.opt = CnfOpt /\ m.data = TextByte /\ m.w0 = u /\ m.w1 = id /\ m.msg = n
    BY <1>3, <1>6, <1>9 DEF SendOption, UpFrame
  <2>2. AsksUp(m, u, id, n)
    BY <2>1 DEF AsksUp
  <2>3. QED
    BY <1>7, <1>8, <2>2 DEF ConfirmKnown, ConfirmOnItsWay
<1>10. CASE ~ isRet
  <2>1. PICK s : s = [msg |-> n, src |-> u, dst |-> id, opt |-> opt]
    OBVIOUS
  <2>2. s \in sent' /\ s.msg = n /\ s.opt = opt
    BY <1>5, <2>1
  <2>3. opt # CnfOpt
    BY <1>3, <1>10 DEF SendOption, PlainOpt, CnfOpt
  <2>4. NoConfirmComing(u)'
    BY <1>8, <2>2, <2>3 DEF NoConfirmComing
  <2>5. QED
    BY <2>4 DEF ConfirmKnown
<1>11. QED
  BY <1>9, <1>10

\* A client that displays the message answers it.
LEMMA HandleKeepsConfirm ==
    ASSUME CharSigned = FALSE, TypeOK, NEW u \in Users, call[u].id \in Users,
           ConfirmOnItsWay(u), NEW w \in Users, w # u, HandleUdp(w), UNCHANGED faults
    PROVE  ConfirmOnItsWay(u)'
<1>1. UNCHANGED <<down, call>> /\ up \subseteq up'
  BY DEF HandleUdp, UserRecv, UserRecvWait, SendTo, SocketError
<1>2. faults' # faults + 1
  BY DEF TypeOK, ChannelTypeOK
<1>3. PICK f \in inbox[w] : RecvFrom(w, f) /\ UserRecv(w, f)
  BY <1>2 DEF HandleUdp, SocketError
<1>4. inbox' = [inbox EXCEPT ![w] = @ \ {f}]
  BY <1>3 DEF RecvFrom
<1>5. \A v \in Users : inbox'[v] = IF v = w THEN inbox[v] \ {f} ELSE inbox[v]
  BY <1>4 DEF TypeOK, ChannelTypeOK
<1>6. CASE w = call[u].id /\ AsksDown(f, u, call[u].id, call[u].msg)
  <2>1. PICK g : g = UpFrame(stamp, w, f.w1, frameNo[w], ReplyOpt, Confirm, f.msg)
    OBVIOUS
  <2>2. f.w0 = w /\ AsChar(f.opt) = CnfOpt /\ f.w1 = u /\ f.msg = call[u].msg
    BY <1>6, UnsignedTests DEF AsksDown
  <2>3. SendTo(g)
    BY <1>2, <1>3, <2>1, <2>2 DEF UserRecv, UserRecvWait, SocketError, recv_dest_user,
       recv_src_user
  <2>4. g \in up'
    BY <1>2, <2>3 DEF SendTo
  <2>5. ConfirmsUp(g, u, call[u].id, call[u].msg)
    BY <1>6, <2>1, <2>2 DEF ConfirmsUp, UpFrame
  <2>6. QED
    BY <1>1, <2>4, <2>5 DEF ConfirmOnItsWay
<1>7. CASE ~ (w = call[u].id /\ AsksDown(f, u, call[u].id, call[u].msg))
  BY <1>1, <1>5, <1>7 DEF ConfirmOnItsWay
<1>8. QED
  BY <1>6, <1>7

\* A wait that reads one of the frames throws it away, which is known, or ends.
LEMMA WaitKeepsConfirm ==
    ASSUME CharSigned = FALSE, TypeOK, NEW u \in Users, call[u].id \in Users,
           ConfirmOnItsWay(u), NEW w \in Users,
           UserOnWait(w) \/ UserSendWaitRet(w) \/ UserSendWaitCnf(w),
           call'[u] = call[u], u = w => AwaitsConfirm(u)'
    PROVE  ConfirmKnown(u)'
<1> DEFINE id == call[u].id
           m == call[u].msg
<1>1. PICK f \in inbox[w] :
        /\ inbox' = [inbox EXCEPT ![w] = @ \ {f}]
        /\ \/ Discard(w, f)
           \/ f.opt = ReplyOpt /\ f.w0 = w /\ f.w1 = Station
           \/ IsConfirm(w, f) /\ BackToLoop(w)
  BY UnsignedTests DEF UserOnWait, UserSendWaitRet, UserSendWaitCnf, RecvFrom, From,
     IsReceipt, recv_dest_user, recv_src_user
<1>2. UNCHANGED <<up, down>>
  BY DEF UserOnWait, UserSendWaitRet, UserSendWaitCnf
<1>3. \A v \in Users : inbox'[v] = IF v = w THEN inbox[v] \ {f} ELSE inbox[v]
  BY <1>1 DEF TypeOK, ChannelTypeOK
<1>4. CASE w = id /\ AsksDown(f, u, id, m)
  <2>1. f.w0 = w /\ f.msg = m /\ f.opt = CnfOpt /\ f.data = TextByte
    BY <1>4 DEF AsksDown
  <2>2. Discard(w, f)
    BY <1>1, <2>1, OptionsDiffer, UnsignedTests DEF IsConfirm, From
  <2>3. [msg |-> m, opt |-> CnfOpt, data |-> TextByte] \in wasted'[w]
    BY <2>1, <2>2 DEF Discard, recv_dest_user, TypeOK
  <2>4. NoConfirmComing(u)'
    BY <1>4, <2>3 DEF NoConfirmComing, Wasted
  <2>5. QED
    BY <2>4 DEF ConfirmKnown
<1>5. CASE w = u /\ ConfirmsDown(f, u, id, m)
  <2>1. f.w0 = w /\ f.w1 = id /\ f.msg = m /\ f.opt = ReplyOpt /\ f.data = Confirm
    BY <1>5 DEF ConfirmsDown
  <2>2. f.w1 # Station
    BY <2>1, UsersAssumption DEF Station
  <2>3. ~ BackToLoop(w)
    BY <1>5 DEF BackToLoop, AwaitsConfirm, TypeOK
  <2>4. Discard(w, f)
    BY <1>1, <2>2, <2>3
  <2>5. [msg |-> m, opt |-> ReplyOpt, data |-> Confirm] \in wasted'[u]
    BY <1>5, <2>1, <2>4 DEF Discard, recv_dest_user, TypeOK
  <2>6. NoConfirmComing(u)'
    BY <2>5 DEF NoConfirmComing, Wasted
  <2>7. QED
    BY <2>6 DEF ConfirmKnown
<1>6. CASE ~ (w = id /\ AsksDown(f, u, id, m)) /\ ~ (w = u /\ ConfirmsDown(f, u, id, m))
  <2>1. ConfirmOnItsWay(u)'
    BY <1>2, <1>3, <1>6 DEF ConfirmOnItsWay
  <2>2. QED
    BY <2>1 DEF ConfirmKnown
<1>7. QED
  BY <1>4, <1>5, <1>6

\* The station relays both the message and the confirm.
LEMMA StationKeepsConfirm ==
    ASSUME NEW u \in Users, ConfirmOnItsWay(u), StationStep, UNCHANGED call
    PROVE  ConfirmOnItsWay(u)'
<1> DEFINE id == call[u].id
           m == call[u].msg
<1>1. PICK f \in up : StationMessage(f) \/ StationConfirm(f) \/ StationMove(f)
  BY DEF StationStep
<1>2. up' = up \ {f} /\ down \subseteq down' /\ UNCHANGED inbox
  BY <1>1 DEF StationMessage, StationConfirm, StationMove, Uplink
<1>3. PICK n, k : n = stamp /\ k = stamp + 1
  OBVIOUS
<1>4. CASE AsksUp(f, u, id, m) \/ ConfirmsUp(f, u, id, m)
  <2>1. f.opt # MoveOpt /\ f.opt \in {CnfOpt, ReplyOpt}
    BY <1>4, OptionsDiffer DEF AsksUp, ConfirmsUp
  <2>2. PICK i \in {n, k} :
          DownFrame(i, f.w1, f.w0, f.frame, f.opt, f.data, f.msg) \in down'
    BY <1>1, <1>3, <2>1 DEF StationMessage, StationConfirm, StationMove, send_src_user,
       send_dest_user
  <2>3. PICK g : g = DownFrame(i, f.w1, f.w0, f.frame, f.opt, f.data, f.msg)
    OBVIOUS
  <2>4. /\ g \in down' /\ g.w0 = f.w1 /\ g.w1 = f.w0 /\ g.opt = f.opt
        /\ g.data = f.data /\ g.msg = f.msg
    BY <2>2, <2>3 DEF DownFrame
  <2>5. AsksDown(g, u, id, m) \/ ConfirmsDown(g, u, id, m)
    BY <1>4, <2>4 DEF AsksUp, AsksDown, ConfirmsUp, ConfirmsDown
  <2>6. QED
    BY <2>4, <2>5 DEF ConfirmOnItsWay
<1>5. CASE ~ (AsksUp(f, u, id, m) \/ ConfirmsUp(f, u, id, m))
  BY <1>2, <1>5 DEF ConfirmOnItsWay
<1>6. QED
  BY <1>4, <1>5

\* The broadcast hands both to their addressees.
LEMMA ForwardKeepsConfirm ==
    ASSUME TypeOK, NEW u \in Users, call[u].id \in Users, ConfirmOnItsWay(u), Forward,
           UNCHANGED <<faults, call>>
    PROVE  ConfirmOnItsWay(u)'
<1>1. PICK f \in down :
        /\ down' = down \ {f} /\ up' = up
        /\ inbox' = [v \in Users |-> inbox[v] \cup {f}]
  BY ForwardsToAll
<1>2. inbox'[u] = inbox[u] \cup {f} /\ inbox'[call[u].id] = inbox[call[u].id] \cup {f}
  BY <1>1
<1>3. QED
  BY <1>1, <1>2 DEF ConfirmOnItsWay

\* What has become of the confirm that somebody waits for is known, after every step.
LEMMA ConfirmsComingStep ==
    ASSUME CharSigned = FALSE, TypeOK, FramesTrue, ConfirmsComing, [Next]_vars
    PROVE  ConfirmsComing'
<1> SUFFICES ASSUME NoFaults', NEW u \in Users, AwaitsConfirm(u)'
             PROVE  ConfirmKnown(u)'
  BY DEF ConfirmsComing, ConfirmKnown
<1>1. NoFaults /\ UNCHANGED <<faults, dups, restarts>>
  BY FaultsStay
<1>2. AwaitsConfirm(u) => ConfirmKnown(u) /\ (call[u].id \in Users \/ NoConfirmComing(u))
  BY <1>1 DEF ConfirmsComing, ConfirmKnown, NoConfirmComing
<1>3. ASSUME AwaitsConfirm(u), call'[u] = call[u], NoConfirmComing(u)
      PROVE  ConfirmKnown(u)'
  BY <1>3, NotComingStays DEF ConfirmKnown
<1>4. ASSUME AwaitsConfirm(u), call'[u] = call[u], ~ NoConfirmComing(u),
             up \subseteq up', down \subseteq down',
             \A v \in Users : inbox[v] \subseteq inbox'[v]
      PROVE  ConfirmKnown(u)'
  BY <1>2, <1>4, ConfirmStays DEF ConfirmKnown
<1>5. ASSUME NEW w \in Users, ClientStep(w), u # w PROVE ConfirmKnown(u)'
  <2>1. ~ Restart(w)
    BY <1>1 DEF Restart, TypeOK
  <2>2. /\ up \subseteq up' /\ down' = down /\ pc'[u] = pc[u] /\ call'[u] = call[u]
        /\ AwaitsConfirm(u)
    BY <1>5, <2>1, OtherSteps DEF AwaitsConfirm
  <2>3. CASE HandleUdp(w)
    BY <1>1, <1>2, <1>3, <1>5, <2>2, <2>3, HandleKeepsConfirm DEF ConfirmKnown
  <2>4. CASE UserOnWait(w) \/ UserSendWaitRet(w) \/ UserSendWaitCnf(w)
    BY <1>2, <1>3, <1>5, <2>2, <2>4, WaitKeepsConfirm DEF ConfirmKnown
  <2>5. CASE ~ (HandleUdp(w) \/ UserOnWait(w) \/ UserSendWaitRet(w) \/ UserSendWaitCnf(w))
    <3>1. UNCHANGED inbox
      BY <1>5, <2>1, <2>5 DEF ClientStep, HandleStdin, EpollWait, SendLine, MoveLine,
         OtherLine, channelVars
    <3>2. QED
      BY <1>3, <1>4, <2>2, <3>1
  <2>6. QED
    BY <2>3, <2>4, <2>5
<1>6. ASSUME ClientStep(u) PROVE ConfirmKnown(u)'
  <2>1. ~ Restart(u)
    BY <1>1 DEF Restart, TypeOK
  <2>2. up \subseteq up' /\ down' = down
    BY <1>6, <2>1, OtherSteps
  <2>3. CASE SendLine(u)
    BY <1>1, <2>3, SendOwesConfirm
  <2>4. CASE UserSendWaitRet(u) \/ UserSendWaitCnf(u)
    <3>1. call'[u] = call[u] /\ AwaitsConfirm(u)
      BY <2>4 DEF UserSendWaitRet, UserSendWaitCnf, Discard, BackToLoop, AwaitsConfirm,
         TypeOK
    <3>2. QED
      BY <1>2, <1>3, <2>4, <3>1, WaitKeepsConfirm DEF ConfirmKnown
  <2>5. CASE pc[u] = pc'[u] /\ UNCHANGED <<inbox, call>>
    <3>1. AwaitsConfirm(u) /\ call'[u] = call[u]
      BY <2>5 DEF AwaitsConfirm
    <3>2. QED
      BY <1>3, <1>4, <2>2, <2>5, <3>1
  <2>6. pc'[u] \in {"sendWaitRet", "sendWaitCnf"}
    BY DEF AwaitsConfirm
  <2>7. QED
    BY <1>6, <2>1, <2>3, <2>4, <2>5, <2>6, LoopSteps
<1>7. CASE ChannelStep /\ UNCHANGED <<clientVars, historyVars>>
  <2>1. UNCHANGED <<pc, call>> /\ AwaitsConfirm(u)
    BY <1>7 DEF clientVars, AwaitsConfirm
  <2>2. ~ Duplicate
    BY <1>1 DEF Duplicate, TypeOK, ChannelTypeOK
  <2>3. CASE NoConfirmComing(u)
    BY <1>3, <2>1, <2>3
  <2>4. CASE ConfirmOnItsWay(u) /\ ~ NoConfirmComing(u)
    BY <1>1, <1>2, <1>7, <2>1, <2>2, <2>4, StationKeepsConfirm, ForwardKeepsConfirm
    DEF ChannelStep, ConfirmKnown
  <2>5. QED
    BY <1>2, <2>1, <2>3, <2>4 DEF ConfirmKnown
<1>8. CASE UNCHANGED vars
  <2>1. UNCHANGED <<up, down, inbox, pc, call>>
    BY <1>8 DEF vars, channelVars, clientVars
  <2>2. AwaitsConfirm(u)
    BY <2>1 DEF AwaitsConfirm
  <2>3. QED
    BY <1>3, <1>4, <2>1, <2>2
<1>9. QED
  BY <1>5, <1>6, <1>7, <1>8 DEF Next

\* Without failures, as long as userSendWaitCnf waits, its message or the confirm
\* of it is on its way, or one of four things is the case (unsigned char).
THEOREM ConfirmsOwed ==
    ASSUME CharSigned = FALSE
    PROVE  Spec => []ConfirmOwed
<1>1. Init => ConfirmsComing
  BY DEF Init, ConfirmsComing, AwaitsConfirm
<1>2. TypeOK /\ FramesTrue /\ ConfirmsComing /\ [Next]_vars => ConfirmsComing'
  BY ConfirmsComingStep
<1>3. ConfirmsComing => ConfirmOwed
  BY DEF ConfirmsComing, ConfirmOnItsWay, AwaitsConfirm, ConfirmOwed, About, AsksUp,
     AsksDown, ConfirmsUp, ConfirmsDown
<1>4. QED
  BY <1>1, <1>2, <1>3, TypeCorrect, FramesCorrect, PTL DEF Spec

-----------------------------------------------------------------------------
(***************************************************************************)
(* Without duplicated datagrams and restarts: a confirm is reported only   *)
(* for the very message that the peer has displayed, a receipt only for the *)
(* very message that the station has accepted, and so the clients and the  *)
(* channel implement MessageService.                                       *)
(*                                                                         *)
(* The client compares no frame numbers.  The invariant Tokens makes up for *)
(* that of the confirm, ReceiptTokens of the receipt: at most one frame can *)
(* bring a client the answer it waits for, and that frame is about the     *)
(* message of its call.                                                    *)
(***************************************************************************)

(* Confirms.                                                               *)

\* Tokens for one client, with the quantifiers over all places and frames.
TokensOf(u) ==
    /\ \A p, f : Token(u, p, f) => /\ Waiting(u) /\ call[u].isCnf
                                   /\ f.msg = call[u].msg
    /\ \A p, q, f, g : Token(u, p, f) /\ Token(u, q, g) => p = q /\ f = g

\* A token is a frame in flight.
LEMMA TokenBounds ==
    ASSUME NEW u, NEW p, NEW f
    PROVE  /\ Token(u, p, f) => p \in Places /\ f \in AllFrames
           /\ (Token(u, p, f) => p \in Places /\ f \in AllFrames)'
  BY DEF Token, Places, AllFrames

\* TokensOf, client by client, is Tokens.
LEMMA TokensAreTokensOf ==
    /\ Tokens <=> \A u \in Users : TokensOf(u)
    /\ (Tokens <=> \A u \in Users : TokensOf(u))'
<1>1. Tokens <=> \A u \in Users : TokensOf(u)
  BY TokenBounds DEF Tokens, TokensCurrent, TokensUnique, TokensOf
<1>2. (Tokens <=> \A u \in Users : TokensOf(u))'
  BY TokenBounds DEF Tokens, TokensCurrent, TokensUnique, TokensOf
<1>3. QED
  BY <1>1, <1>2

\* A step that adds no token for u and leaves the call of u alone.
LEMMA TokensKept ==
    ASSUME NEW u \in Users, TokensOf(u),
           \A p, f : Token(u, p, f)' => Token(u, p, f),
           Waiting(u) => Waiting(u)', call'[u] = call[u]
    PROVE  TokensOf(u)'
  BY DEF TokensOf

\* A step after which u has no token.
LEMMA TokensGone ==
    ASSUME NEW u \in Users, \A p, f : ~ Token(u, p, f)'
    PROVE  TokensOf(u)'
  BY DEF TokensOf

\* f is the only token of u, and it is at place p.
OnlyToken(u, p, f) == \A q, g : Token(u, q, g) => q = p /\ g = f

\* A step that replaces the token of u by another about the same message.
LEMMA TokenMoved ==
    ASSUME NEW u \in Users, TokensOf(u), NEW p0, NEW f0, Token(u, p0, f0),
           NEW p1, NEW f1, OnlyToken(u, p1, f1)', f1.msg = f0.msg,
           pc'[u] = pc[u], call'[u] = call[u]
    PROVE  TokensOf(u)'
<1>1. Waiting(u) /\ call[u].isCnf /\ f0.msg = call[u].msg
  BY DEF TokensOf
<1>2. Waiting(u)'
  BY <1>1 DEF Waiting
<1>3. QED
  BY <1>1, <1>2 DEF TokensOf, OnlyToken

\* What a step may add to the places of tokens.
LEMMA NoNewTokens ==
    ASSUME NEW u, \A f \in up' : f \in up \/ f.opt \notin {CnfOpt, ReplyOpt},
           down' \subseteq down, \A v \in Users : inbox'[v] \subseteq inbox[v]
    PROVE  \A p, f : Token(u, p, f)' => Token(u, p, f)
  BY DEF Token, Asks

\* epoll_wait, an ignored line and a mobility report make no token.
LEMMA QuietTokens ==
    ASSUME TypeOK, NEW u \in Users, TokensOf(u), NEW w \in Users,
           \/ \E events \in SUBSET Events : EpollWait(w, events)
           \/ MoveLine(w) \/ OtherLine(w)
    PROVE  TokensOf(u)'
<1>1. CASE (\E events \in SUBSET Events : EpollWait(w, events)) \/ OtherLine(w)
  <2>1. UNCHANGED <<channelVars, pc, call>>
    BY <1>1 DEF EpollWait, OtherLine
  <2>2. QED
    BY <2>1, NoNewTokens, TokensKept DEF channelVars, Waiting
<1>2. CASE MoveLine(w)
  <2>1. PICK m : m = UpFrame(stamp, 1, 0, frameNo[w], MoveOpt, OnOk, stamp)
    OBVIOUS
  <2>2. up' \subseteq up \cup {m} /\ UNCHANGED <<down, inbox, call>>
    BY <1>2, <2>1 DEF MoveLine, UserMove, MoveFrame, SendTo, SocketError
  <2>3. m.opt \notin {CnfOpt, ReplyOpt}
    BY <2>1, OptionsDiffer DEF UpFrame
  <2>4. Waiting(u) => Waiting(u)'
    BY <1>2 DEF MoveLine, UserMove, Handling, Waiting, TypeOK
  <2>5. QED
    BY <2>2, <2>3, <2>4, NoNewTokens, TokensKept
<1>3. QED
  BY <1>1, <1>2

\* userSend makes a token when there is none, about the message of its call.
LEMMA SendLineTokens ==
    ASSUME TypeOK, NEW u \in Users, TokensOf(u), NEW w \in Users, SendLine(w)
    PROVE  TokensOf(u)'
<1>1. PICK typedRet \in BOOLEAN, isCnf \in BOOLEAN, id \in Addressees :
        \E isRet \in ScannedRet(typedRet) : UserSend(w, isRet, isCnf, id)
  BY DEF SendLine
<1>2. PICK isRet \in BOOLEAN : UserSend(w, isRet, isCnf, id)
  BY <1>1 DEF ScannedRet
<1>3. UNCHANGED <<down, inbox>> /\ pc[w] = "loop"
  BY DEF SendLine, Handling
<1>4. PICK n, opt, m :
        /\ n = stamp /\ opt = SendOption(isRet, isCnf)
        /\ m = UpFrame(n, w, id, frameNo[w], opt, TextByte, n)
  OBVIOUS
<1>5. /\ opt # ReplyOpt
      /\ opt = CnfOpt => isRet /\ isCnf
  BY <1>4, OptionsDiffer DEF SendOption, PlainOpt, RetOpt, CnfOpt, ReplyOpt
<1>6. /\ up' \subseteq up \cup {m}
      /\ m \in up' /\ m \notin up /\ (isRet \/ isCnf) =>
           /\ call' = [call EXCEPT ![w] = [id |-> id, isCnf |-> isCnf, msg |-> n]]
           /\ pc'[w] \in {"sendWaitRet", "sendWaitCnf"}
      /\ m.w0 = w /\ m.opt = opt /\ m.msg = n
  BY <1>2, <1>4 DEF UserSend, FirstWait, SendTo, SocketError, UpFrame, TypeOK
<1>7. CASE u # w
  <2>1. \A p, f : Token(u, p, f)' => Token(u, p, f)
    BY <1>3, <1>5, <1>6, <1>7 DEF Token
  <2>2. pc'[u] = pc[u] /\ call'[u] = call[u]
    BY <1>2, <1>7 DEF UserSend, TypeOK
  <2>3. QED
    BY <2>1, <2>2, TokensKept DEF Waiting
<1>8. CASE u = w
  <2>1. \A p, f : ~ Token(u, p, f)
    BY <1>3, <1>8 DEF TokensOf, Waiting
  <2>2. \A p, f : Token(u, p, f)' =>
            p = "up" /\ f = m /\ opt = CnfOpt /\ m \in up' /\ m \notin up
    BY <1>3, <1>5, <1>6, <1>8, <2>1 DEF Token
  <2>3. (\E p, f : Token(u, p, f)') =>
            Waiting(u)' /\ call'[u].isCnf /\ m.msg = call'[u].msg
    BY <1>5, <1>6, <1>8, <2>2 DEF Waiting, TypeOK
  <2>4. QED
    BY <2>2, <2>3 DEF TokensOf
<1>9. QED
  BY <1>7, <1>8

\* A client that displays the message of u consumes its token; the confirm that
\* it may send is the new one.
LEMMA HandleUdpTokens ==
    ASSUME TypeOK, NEW u \in Users, TokensOf(u), NEW w \in Users, HandleUdp(w)
    PROVE  TokensOf(u)'
<1>1. UNCHANGED <<down, pc, call>>
  BY DEF HandleUdp
<1>2. \A v \in Users : inbox'[v] \subseteq inbox[v]
  BY DEF HandleUdp, RecvFrom, TypeOK, ChannelTypeOK
<1>3. CASE up' = up
  BY <1>1, <1>2, <1>3, NoNewTokens, TokensKept DEF Waiting
<1>4. ASSUME NEW f \in inbox[w], RecvFrom(w, f), UserRecv(w, f), up' # up
      PROVE  TokensOf(u)'
  <2>1. PICK confirm :
          confirm = UpFrame(stamp, w, f.w1, frameNo[w], ReplyOpt, Confirm, f.msg)
    OBVIOUS
  <2>2. f.w0 = w /\ AsChar(f.opt) = CnfOpt /\ up' = up \cup {confirm}
    BY <1>4, <2>1 DEF UserRecv, UserRecvWait, recv_dest_user, recv_src_user, SendTo,
         SocketError
  <2>3. f.opt = CnfOpt
    BY <2>2, OptionTests, OptionsDiffer DEF TypeOK, ChannelTypeOK
  <2>4. /\ confirm.opt = ReplyOpt /\ confirm.opt # CnfOpt
        /\ confirm.w1 = f.w1 /\ confirm.msg = f.msg
    BY <2>1, OptionsDiffer DEF UpFrame
  <2>5. inbox'[w] = inbox[w] \ {f}
    BY <1>4 DEF RecvFrom, TypeOK, ChannelTypeOK
  <2>6. CASE f.w1 = u
    <3>1. Token(u, "inbox", f)
      BY <2>2, <2>3, <2>6 DEF Token, Asks
    <3>2. OnlyToken(u, "up", confirm)'
      BY <3>1, <1>1, <1>2, <2>2, <2>5 DEF OnlyToken, TokensOf, Token, Asks
    <3>3. pc'[u] = pc[u] /\ call'[u] = call[u] /\ confirm.msg = f.msg
      BY <1>1, <2>4
    <3>4. QED
      BY <3>1, <3>2, <3>3, TokenMoved
  <2>7. CASE f.w1 # u
    <3>1. \A p, g : Token(u, p, g)' => Token(u, p, g)
      BY <1>1, <1>2, <2>2, <2>4, <2>7 DEF Token, Asks
    <3>2. QED
      BY <1>1, <3>1, TokensKept DEF Waiting
  <2>8. QED
    BY <2>6, <2>7
<1>5. QED
  BY <1>3, <1>4 DEF HandleUdp, SocketError

\* A wait of u that ends leaves no token behind: userOnWait runs when there is
\* none, userSendWaitRet ends the call only if no confirm was asked for, and
\* userSendWaitCnf receives the only one.
LEMMA WaitTokens ==
    ASSUME TypeOK, FramesTrue, NEW u \in Users, TokensOf(u), NEW w \in Users,
           UserOnWait(w) \/ UserSendWaitRet(w) \/ UserSendWaitCnf(w)
    PROVE  TokensOf(u)'
<1>1. UNCHANGED <<up, down>> /\ \A v \in Users : inbox'[v] \subseteq inbox[v]
  BY DEF UserOnWait, UserSendWaitRet, UserSendWaitCnf, RecvFrom, TypeOK, ChannelTypeOK
<1>2. \A p, f : Token(u, p, f)' => Token(u, p, f)
  BY <1>1, NoNewTokens
<1>3. CASE u # w
  <2>1. pc'[u] = pc[u] /\ call'[u] = call[u]
    BY <1>3 DEF UserOnWait, UserSendWaitRet, UserSendWaitCnf, Discard, BackToLoop, TypeOK
  <2>2. QED
    BY <1>2, <2>1, TokensKept DEF Waiting
<1>4. CASE u = w /\ UserOnWait(w)
  <2>1. \A p, f : ~ Token(u, p, f)
    BY <1>4 DEF UserOnWait, TokensOf, Waiting
  <2>2. QED
    BY <1>2, <2>1, TokensGone
<1>5. CASE u = w /\ UserSendWaitRet(w)
  <2>1. CASE Waiting(u)' /\ call' = call
    BY <1>2, <2>1, TokensKept
  <2>2. CASE ~ call[u].isCnf
    BY <1>2, <2>2, TokensGone DEF TokensOf
  <2>3. QED
    BY <1>5, <2>1, <2>2 DEF UserSendWaitRet, Discard, Waiting, TypeOK
<1>6. CASE u = w /\ UserSendWaitCnf(w)
  <2>1. CASE Waiting(u)' /\ call' = call
    BY <1>2, <2>1, TokensKept
  <2>2. ASSUME NEW f \in inbox[u], RecvFrom(u, f), From(u, f, call[u].id),
               f.data = Confirm
        PROVE  TokensOf(u)'
    <3>1. f.w0 = u /\ f.w1 = call[u].id /\ f.opt = ReplyOpt
      BY <2>2, OptionTests DEF From, recv_dest_user, recv_src_user, TypeOK, ChannelTypeOK
    <3>2. f.w1 # Station
      BY <2>2, <3>1, ConfirmIsFromClient
    <3>3. Token(u, "inbox", f)
      BY <3>1, <3>2 DEF Token, Asks
    <3>4. \A p, g : Token(u, p, g) => p = "inbox" /\ g = f
      BY <3>3 DEF TokensOf
    <3>5. f \notin inbox'[u]
      BY <2>2 DEF RecvFrom, TypeOK, ChannelTypeOK
    <3>6. ~ Token(u, "inbox", f)'
      BY <3>1, <3>5 DEF Token
    <3>7. \A p, g : ~ Token(u, p, g)'
      BY <1>2, <3>4, <3>6
    <3>8. QED
      BY <3>7, TokensGone
  <2>3. QED
    BY <1>6, <2>1, <2>2 DEF UserSendWaitCnf, IsConfirm, Discard, Waiting, TypeOK
<1>7. QED
  BY <1>3, <1>4, <1>5, <1>6

\* The station passes the token of the sender on, and makes none.
LEMMA StationTokens ==
    ASSUME TypeOK, FramesTrue, NEW u \in Users, TokensOf(u), StationStep,
           UNCHANGED <<clientVars, historyVars>>
    PROVE  TokensOf(u)'
<1>1. PICK f \in up : StationMessage(f) \/ StationConfirm(f) \/ StationMove(f)
  BY DEF StationStep
<1>2. f \in Frame /\ UpTrue(f) /\ Station \notin Users
  BY UsersAssumption DEF TypeOK, ChannelTypeOK, FramesTrue, Station
<1>3. up' = up \ {f} /\ UNCHANGED <<inbox, pc, call>>
  BY <1>1 DEF StationMessage, StationConfirm, StationMove, Uplink, clientVars
<1>4. ASSUME NEW g, \A h \in down' : h \in down \/ h = g \/ ~ Asks(u, h),
             Asks(u, g) => Token(u, "up", f) /\ g.msg = f.msg
      PROVE  TokensOf(u)'
  <2>1. CASE Asks(u, g)
    <3>1. OnlyToken(u, "down", g)'
      BY <1>3, <1>4, <2>1 DEF OnlyToken, TokensOf, Token, Asks
    <3>2. pc'[u] = pc[u] /\ call'[u] = call[u] /\ g.msg = f.msg /\ Token(u, "up", f)
      BY <1>3, <1>4, <2>1
    <3>3. QED
      BY <3>1, <3>2, TokenMoved
  <2>2. CASE ~ Asks(u, g)
    <3>1. \A p, h : Token(u, p, h)' => Token(u, p, h)
      BY <1>3, <1>4, <2>2 DEF Token, Asks
    <3>2. QED
      BY <1>3, <3>1, TokensKept DEF Waiting
  <2>3. QED
    BY <2>1, <2>2
<1>5. CASE StationMessage(f)
  <2>1. f.opt \in MessageOpts
    BY <1>5 DEF StationMessage
  <2>2. PICK n, m : n = stamp /\ m = stamp + 1
    OBVIOUS
  <2>3. PICK k \in {n, m} :
          \A h \in down' :
            \/ h \in down
            \/ h = DownFrame(k, f.w1, f.w0, f.frame, f.opt, f.data, f.msg)
            \/ h.opt = ReplyOpt /\ h.w1 = Station
    BY <1>5, <2>2 DEF StationMessage, send_src_user, send_dest_user, DownFrame
  <2>4. PICK g : g = DownFrame(k, f.w1, f.w0, f.frame, f.opt, f.data, f.msg)
    OBVIOUS
  <2>5. \A h \in down' : h \in down \/ h = g \/ ~ Asks(u, h)
    BY <2>3, <2>4, OptionsDiffer DEF Asks
  <2>6. Asks(u, g) => Token(u, "up", f) /\ g.msg = f.msg
    BY <2>1, <2>4, OptionsDiffer DEF Asks, Token, DownFrame
  <2>7. QED
    BY <1>4, <2>5, <2>6
<1>6. CASE StationConfirm(f)
  <2>1. f.opt = ReplyOpt
    BY <1>6 DEF StationConfirm
  <2>2. PICK n : n = stamp
    OBVIOUS
  <2>3. PICK g : g = DownFrame(n, f.w1, f.w0, f.frame, f.opt, f.data, f.msg)
    OBVIOUS
  <2>4. down' = down \cup {g}
    BY <1>6, <2>2, <2>3 DEF StationConfirm, send_src_user, send_dest_user
  <2>5. Asks(u, g) => Token(u, "up", f) /\ g.msg = f.msg
    BY <2>1, <2>3, OptionsDiffer DEF Asks, Token, DownFrame
  <2>6. QED
    BY <1>4, <2>4, <2>5
<1>7. CASE StationMove(f)
  <2>1. PICK n, result : n = stamp /\ result \in {OnOk, OnFailed, MoveOk} /\
          down' = down \cup {DownFrame(n, f.w0, Station, ReplyFrame(f), ReplyOpt,
                                      result, f.msg)}
    BY <1>7 DEF StationMove, send_src_user
  <2>2. PICK g : g = DownFrame(n, f.w0, Station, ReplyFrame(f), ReplyOpt, result, f.msg)
    OBVIOUS
  <2>3. ~ Asks(u, g)
    BY <2>2, OptionsDiffer DEF Asks, DownFrame
  <2>4. QED
    BY <1>4, <2>1, <2>2, <2>3
<1>8. QED
  BY <1>1, <1>5, <1>6, <1>7

\* The broadcast gives many clients the frame, and its addressee the token.
LEMMA ForwardTokens ==
    ASSUME TypeOK, NEW u \in Users, TokensOf(u), Forward,
           UNCHANGED <<clientVars, historyVars>>
    PROVE  TokensOf(u)'
<1>1. PICK f \in down, miss \in SUBSET Users :
        /\ down' = down \ {f}
        /\ inbox' = [v \in Users |-> IF v \in miss THEN inbox[v]
                                                  ELSE inbox[v] \cup {f}]
  BY DEF Forward
<1>2. \A v \in Users : inbox'[v] \subseteq inbox[v] \cup {f}
  BY <1>1
<1>3. UNCHANGED <<up, pc, call>>
  BY DEF Forward, clientVars
<1>4. CASE Asks(u, f)
  <2>1. Token(u, "down", f)
    BY <1>4 DEF Token
  <2>2. OnlyToken(u, "inbox", f)'
    BY <1>1, <1>2, <1>3, <2>1 DEF OnlyToken, TokensOf, Token, Asks
  <2>3. pc'[u] = pc[u] /\ call'[u] = call[u]
    BY <1>3
  <2>4. QED
    BY <2>1, <2>2, <2>3, TokenMoved
<1>5. CASE ~ Asks(u, f)
  <2>1. \A p, h : Token(u, p, h)' => Token(u, p, h)
    BY <1>1, <1>2, <1>3, <1>5 DEF Token, Asks
  <2>2. QED
    BY <1>3, <2>1, TokensKept DEF Waiting
<1>6. QED
  BY <1>4, <1>5

-----------------------------------------------------------------------------
\* At most one frame can bring a client the confirm it waits for, and that frame
\* is about the message of the call.
THEOREM TokensCorrect ==
    ASSUME MaxDups = 0, MaxRestarts = 0
    PROVE  Spec => []Tokens
<1>1. Init => Tokens
  BY DEF Init, ChannelInit, Tokens, TokensCurrent, TokensUnique, Token
<1>2. TypeOK /\ FramesTrue /\ Tokens /\ [Next]_vars => Tokens'
  <2> SUFFICES ASSUME TypeOK, FramesTrue, Tokens, [Next]_vars, NEW u \in Users
               PROVE  TokensOf(u)'
    BY TokensAreTokensOf
  <2>1. TokensOf(u)
    BY TokensAreTokensOf
  <2>2. ASSUME NEW w \in Users, ClientStep(w) PROVE TokensOf(u)'
    <3>1. ~ Restart(w)
      BY DEF Restart, TypeOK
    <3>2. QED
      BY <2>1, <2>2, <3>1, QuietTokens, SendLineTokens, HandleUdpTokens, WaitTokens
      DEF ClientStep, HandleStdin
  <2>3. CASE ChannelStep /\ UNCHANGED <<clientVars, historyVars>>
    <3>1. ~ Duplicate
      BY DEF Duplicate, TypeOK, ChannelTypeOK
    <3>2. QED
      BY <2>1, <2>3, <3>1, StationTokens, ForwardTokens DEF ChannelStep
  <2>4. CASE UNCHANGED vars
    <3>1. UNCHANGED <<up, down, inbox, pc, call>>
      BY <2>4 DEF vars, channelVars, clientVars
    <3>2. QED
      BY <2>1, <3>1, NoNewTokens, TokensKept DEF Waiting
  <2>5. QED
    BY <2>2, <2>3, <2>4 DEF Next
<1>3. QED
  BY <1>1, <1>2, TypeCorrect, FramesCorrect, PTL DEF Spec

\* ConfirmSound is preserved: the frame that ends userSendWaitCnf is the token.
LEMMA ConfirmSoundStep ==
    ASSUME TypeOK, FramesTrue, Tokens, ConfirmSound, [Next]_vars
    PROVE  ConfirmSound'
<1>1. Grows
  BY HistoryGrows
<1>2. CASE UNCHANGED confirmed
  BY <1>1, <1>2 DEF ConfirmSound, Grows
<1>3. ASSUME NEW u \in Users, NEW f \in inbox[u],
             pc[u] = "sendWaitCnf",
             f.w0 = u /\ f.w1 = call[u].id /\ f.opt = ReplyOpt /\ f.data = Confirm,
             confirmed' = confirmed \cup {call[u].msg},
             UNCHANGED <<sent, shown>>
      PROVE  ConfirmSound'
  <2>1. call[u].id \in Users /\ f.w1 # Station
    BY <1>3, ConfirmIsFromClient
  <2>2. f.msg \in shown[call[u].id] /\ SentAs(f.msg, u, call[u].id, {CnfOpt})
    BY <1>3, <2>1 DEF FramesTrue, DownTrue
  <2>3. f.msg = call[u].msg
    BY <1>3, <2>1, TokensAreTokensOf DEF TokensOf, Token, Asks
  <2>4. QED
    BY <1>3, <2>1, <2>2, <2>3 DEF ConfirmSound, SentAs
<1>4. QED
  BY <1>2, <1>3, ConfirmReport

\* Without duplicates and restarts, a message is reported as confirmed only when
\* its addressee has displayed that very message.
THEOREM ConfirmsExact ==
    ASSUME MaxDups = 0, MaxRestarts = 0
    PROVE  Spec => []ConfirmSound
<1>1. Init => ConfirmSound
  BY DEF Init, ConfirmSound
<1>2. QED
  BY <1>1, ConfirmSoundStep, TypeCorrect, FramesCorrect, TokensCorrect, PTL DEF Spec

-----------------------------------------------------------------------------
(* Receipts, and the service.                                              *)

\* The receipt of the station for u.
Answers(u, f) ==
    f.opt = ReplyOpt /\ f.w0 = u /\ f.w1 = Station /\ f.data = Receipt

\* A frame that brings u closer to a receipt: its message, or the receipt.
ReceiptToken(u, place, f) ==
    \/ place = "up" /\ f \in up /\ f.opt \in {RetOpt, CnfOpt} /\ f.w0 = u
    \/ place = "down" /\ f \in down /\ Answers(u, f)
    \/ place = "inbox" /\ f \in inbox[u] /\ Answers(u, f)

ReceiptTokensCurrent ==
    \A u \in Users, place \in Places, f \in AllFrames :
        ReceiptToken(u, place, f) =>
            pc[u] = "sendWaitRet" /\ f.msg = call[u].msg

ReceiptTokensUnique ==
    \A u \in Users, p, q \in Places, f, g \in AllFrames :
        ReceiptToken(u, p, f) /\ ReceiptToken(u, q, g) => p = q /\ f = g

ReceiptTokens == ReceiptTokensCurrent /\ ReceiptTokensUnique

\* A stamp is given to one message, and a client that waits for the confirm of a
\* message that asks for one has reported its receipt.
MessagesNew == \A s \in sent : s.msg < stamp
ReceiptFirst ==
    \A u \in Users :
        pc[u] = "sendWaitCnf" /\ SentAs(call[u].msg, u, call[u].id, {CnfOpt})
            => call[u].msg \in receipted

Numbered == MessagesNew /\ ReceiptFirst

-----------------------------------------------------------------------------
(* Receipt tokens.                                                         *)

\* ReceiptTokens for one client, with the quantifiers over all places and frames.
ReceiptsOf(u) ==
    /\ \A p, f : ReceiptToken(u, p, f) =>
                    pc[u] = "sendWaitRet" /\ f.msg = call[u].msg
    /\ \A p, q, f, g : ReceiptToken(u, p, f) /\ ReceiptToken(u, q, g)
                          => p = q /\ f = g

\* A receipt token is a frame in flight.
LEMMA ReceiptBounds ==
    ASSUME NEW u \in Users, NEW p, NEW f
    PROVE  /\ ReceiptToken(u, p, f) => p \in Places /\ f \in AllFrames
           /\ (ReceiptToken(u, p, f) => p \in Places /\ f \in AllFrames)'
  BY DEF ReceiptToken, Places, AllFrames

\* ReceiptsOf, client by client, is ReceiptTokens.
LEMMA ReceiptTokensAreReceiptsOf ==
    /\ ReceiptTokens <=> \A u \in Users : ReceiptsOf(u)
    /\ (ReceiptTokens <=> \A u \in Users : ReceiptsOf(u))'
<1>1. ReceiptTokens <=> \A u \in Users : ReceiptsOf(u)
  BY ReceiptBounds
  DEF ReceiptTokens, ReceiptTokensCurrent, ReceiptTokensUnique, ReceiptsOf
<1>2. (ReceiptTokens <=> \A u \in Users : ReceiptsOf(u))'
  BY ReceiptBounds
  DEF ReceiptTokens, ReceiptTokensCurrent, ReceiptTokensUnique, ReceiptsOf
<1>3. QED
  BY <1>1, <1>2

\* A step that adds no receipt token for u and leaves its wait alone.
LEMMA ReceiptsKept ==
    ASSUME NEW u \in Users, ReceiptsOf(u),
           \A p, f : ReceiptToken(u, p, f)' => ReceiptToken(u, p, f),
           pc[u] = "sendWaitRet" => pc'[u] = "sendWaitRet", call'[u] = call[u]
    PROVE  ReceiptsOf(u)'
  BY DEF ReceiptsOf

\* A step after which u has no receipt token.
LEMMA ReceiptsGone ==
    ASSUME NEW u \in Users, \A p, f : ~ ReceiptToken(u, p, f)'
    PROVE  ReceiptsOf(u)'
  BY DEF ReceiptsOf

\* A step that replaces the receipt token of u by another about the same message.
LEMMA ReceiptMoved ==
    ASSUME NEW u \in Users, ReceiptsOf(u), NEW p0, NEW f0, ReceiptToken(u, p0, f0),
           NEW p1, NEW f1, f1.msg = f0.msg,
           \A p, f : ReceiptToken(u, p, f)' => p = p1 /\ f = f1,
           pc'[u] = pc[u], call'[u] = call[u]
    PROVE  ReceiptsOf(u)'
  BY DEF ReceiptsOf

\* What a step may add to the places of receipt tokens.
LEMMA NoNewReceipts ==
    ASSUME NEW u \in Users,
           \A f \in up' : f \in up \/ f.opt \notin {RetOpt, CnfOpt},
           down' \subseteq down, \A v \in Users : inbox'[v] \subseteq inbox[v]
    PROVE  \A p, f : ReceiptToken(u, p, f)' => ReceiptToken(u, p, f)
  BY DEF ReceiptToken, Answers

\* epoll_wait, an ignored line and a mobility report make no receipt token.
LEMMA QuietReceipts ==
    ASSUME TypeOK, NEW u \in Users, ReceiptsOf(u), NEW w \in Users,
           \/ \E events \in SUBSET Events : EpollWait(w, events)
           \/ MoveLine(w) \/ OtherLine(w)
    PROVE  ReceiptsOf(u)'
<1>1. CASE (\E events \in SUBSET Events : EpollWait(w, events)) \/ OtherLine(w)
  <2>1. UNCHANGED <<channelVars, pc, call>>
    BY <1>1 DEF EpollWait, OtherLine
  <2>2. QED
    BY <2>1, NoNewReceipts, ReceiptsKept DEF channelVars
<1>2. CASE MoveLine(w)
  <2>1. PICK m : m = UpFrame(stamp, 1, 0, frameNo[w], MoveOpt, OnOk, stamp)
    OBVIOUS
  <2>2. up' \subseteq up \cup {m} /\ UNCHANGED <<down, inbox, call>>
    BY <1>2, <2>1 DEF MoveLine, UserMove, MoveFrame, SendTo, SocketError
  <2>3. m.opt \notin {RetOpt, CnfOpt}
    BY <2>1, OptionsDiffer DEF UpFrame
  <2>4. pc[u] = "sendWaitRet" => pc'[u] = "sendWaitRet"
    BY <1>2 DEF MoveLine, UserMove, Handling, TypeOK
  <2>5. QED
    BY <2>2, <2>3, <2>4, NoNewReceipts, ReceiptsKept
<1>3. QED
  BY <1>1, <1>2

\* userSend makes a receipt token when there is none, and then waits for the
\* receipt first.
LEMMA SendLineReceipts ==
    ASSUME TypeOK, NEW u \in Users, ReceiptsOf(u), NEW w \in Users, SendLine(w)
    PROVE  ReceiptsOf(u)'
<1>1. PICK typedRet \in BOOLEAN, isCnf \in BOOLEAN, id \in Addressees :
        \E isRet \in ScannedRet(typedRet) : UserSend(w, isRet, isCnf, id)
  BY DEF SendLine
<1>2. PICK isRet \in BOOLEAN : UserSend(w, isRet, isCnf, id)
  BY <1>1 DEF ScannedRet
<1>3. UNCHANGED <<down, inbox>> /\ pc[w] = "loop"
  BY DEF SendLine, Handling
<1>4. PICK n, opt, m :
        /\ n = stamp /\ opt = SendOption(isRet, isCnf)
        /\ m = UpFrame(n, w, id, frameNo[w], opt, TextByte, n)
  OBVIOUS
<1>5. opt \in {RetOpt, CnfOpt} => isRet
  BY <1>4 DEF SendOption, PlainOpt, RetOpt, CnfOpt
<1>6. /\ up' \subseteq up \cup {m}
      /\ m \in up' /\ m \notin up /\ isRet =>
           /\ call' = [call EXCEPT ![w] = [id |-> id, isCnf |-> isCnf, msg |-> n]]
           /\ pc'[w] = "sendWaitRet"
      /\ m.w0 = w /\ m.opt = opt /\ m.msg = n
  BY <1>2, <1>4 DEF UserSend, FirstWait, SendTo, SocketError, UpFrame, TypeOK
<1>7. CASE u # w
  <2>1. \A p, f : ReceiptToken(u, p, f)' => ReceiptToken(u, p, f)
    BY <1>3, <1>6, <1>7 DEF ReceiptToken
  <2>2. pc'[u] = pc[u] /\ call'[u] = call[u]
    BY <1>2, <1>7 DEF UserSend, TypeOK
  <2>3. QED
    BY <2>1, <2>2, ReceiptsKept
<1>8. CASE u = w
  <2>1. \A p, f : ~ ReceiptToken(u, p, f)
    BY <1>3, <1>8 DEF ReceiptsOf
  <2>2. \A p, f : ReceiptToken(u, p, f)' =>
            p = "up" /\ f = m /\ isRet /\ m \in up' /\ m \notin up
    BY <1>3, <1>5, <1>6, <1>8, <2>1 DEF ReceiptToken
  <2>3. (\E p, f : ReceiptToken(u, p, f)') =>
            pc'[u] = "sendWaitRet" /\ m.msg = call'[u].msg
    BY <1>6, <1>8, <2>2 DEF TypeOK
  <2>4. QED
    BY <2>2, <2>3 DEF ReceiptsOf
<1>9. QED
  BY <1>7, <1>8

\* A client that displays a message may send a confirm, which is no receipt token.
LEMMA HandleUdpReceipts ==
    ASSUME TypeOK, NEW u \in Users, ReceiptsOf(u), NEW w \in Users, HandleUdp(w)
    PROVE  ReceiptsOf(u)'
<1>1. UNCHANGED <<down, pc, call>>
  BY DEF HandleUdp
<1>2. \A v \in Users : inbox'[v] \subseteq inbox[v]
  BY DEF HandleUdp, RecvFrom, TypeOK, ChannelTypeOK
<1>3. \A f \in up' : f \in up \/ f.opt \notin {RetOpt, CnfOpt}
  <2>1. ASSUME NEW f \in inbox[w], UserRecv(w, f)
        PROVE  \A g \in up' : g \in up \/ g.opt = ReplyOpt
    BY <2>1 DEF UserRecv, UserRecvWait, SendTo, SocketError, UpFrame
  <2>2. QED
    BY <2>1, OptionsDiffer DEF HandleUdp, SocketError, MessageOpts
<1>4. QED
  BY <1>1, <1>2, <1>3, NoNewReceipts, ReceiptsKept

\* The receipt that ends userSendWaitRet is the only receipt token.
LEMMA WaitReceipts ==
    ASSUME TypeOK, NEW u \in Users, ReceiptsOf(u), NEW w \in Users,
           UserOnWait(w) \/ UserSendWaitRet(w) \/ UserSendWaitCnf(w)
    PROVE  ReceiptsOf(u)'
<1>1. UNCHANGED <<up, down>> /\ \A v \in Users : inbox'[v] \subseteq inbox[v]
  BY DEF UserOnWait, UserSendWaitRet, UserSendWaitCnf, RecvFrom, TypeOK, ChannelTypeOK
<1>2. \A p, f : ReceiptToken(u, p, f)' => ReceiptToken(u, p, f)
  BY <1>1, NoNewReceipts
<1>3. CASE u # w
  <2>1. pc'[u] = pc[u] /\ call'[u] = call[u]
    BY <1>3 DEF UserOnWait, UserSendWaitRet, UserSendWaitCnf, Discard, BackToLoop, TypeOK
  <2>2. QED
    BY <1>2, <2>1, ReceiptsKept
<1>4. CASE u = w /\ (UserOnWait(w) \/ UserSendWaitCnf(w))
  <2>1. \A p, f : ~ ReceiptToken(u, p, f)
    BY <1>4 DEF UserOnWait, UserSendWaitCnf, ReceiptsOf
  <2>2. QED
    BY <1>2, <2>1, ReceiptsGone
<1>5. CASE u = w /\ UserSendWaitRet(w)
  <2>1. PICK f \in inbox[u] :
          /\ inbox' = [inbox EXCEPT ![u] = @ \ {f}]
          /\ IsReceipt(u, f) \/ Discard(u, f)
    BY <1>5 DEF UserSendWaitRet, RecvFrom
  <2>2. CASE Discard(u, f)
    BY <1>2, <2>2, ReceiptsKept DEF Discard
  <2>3. CASE IsReceipt(u, f)
    <3>1. Answers(u, f)
      BY <2>3, OptionTests DEF IsReceipt, From, recv_dest_user, recv_src_user,
         TypeOK, ChannelTypeOK, Answers
    <3>2. ReceiptToken(u, "inbox", f)
      BY <3>1 DEF ReceiptToken
    <3>3. \A p, g : ReceiptToken(u, p, g) => p = "inbox" /\ g = f
      BY <3>2 DEF ReceiptsOf
    <3>4. f \notin inbox'[u]
      BY <2>1 DEF TypeOK, ChannelTypeOK
    <3>5. ~ ReceiptToken(u, "inbox", f)'
      BY <3>4 DEF ReceiptToken
    <3>6. QED
      BY <1>2, <3>3, <3>5, ReceiptsGone
  <2>4. QED
    BY <2>1, <2>2, <2>3
<1>6. QED
  BY <1>3, <1>4, <1>5

\* The station takes a message and makes one receipt for its sender.
LEMMA StationReceipts ==
    ASSUME TypeOK, FramesTrue, NEW u \in Users, ReceiptsOf(u), StationStep,
           UNCHANGED <<clientVars, historyVars>>
    PROVE  ReceiptsOf(u)'
<1>1. PICK f \in up : StationMessage(f) \/ StationConfirm(f) \/ StationMove(f)
  BY DEF StationStep
<1>2. f \in Frame /\ UpTrue(f) /\ Station \notin Users
  BY UsersAssumption DEF TypeOK, ChannelTypeOK, FramesTrue, Station
<1>3. up' = up \ {f} /\ UNCHANGED <<inbox, pc, call>>
  BY <1>1 DEF StationMessage, StationConfirm, StationMove, Uplink, clientVars
<1>4. ASSUME NEW g, \A h \in down' : h \in down \/ h = g \/ ~ Answers(u, h),
             Answers(u, g) => ReceiptToken(u, "up", f) /\ g.msg = f.msg
      PROVE  ReceiptsOf(u)'
  <2>1. CASE Answers(u, g)
    <3>1. ReceiptToken(u, "up", f) /\ g.msg = f.msg
      BY <1>4, <2>1
    <3>2. \A p, h : ReceiptToken(u, p, h) => p = "up" /\ h = f
      BY <3>1 DEF ReceiptsOf
    <3>3. \A p, h : ReceiptToken(u, p, h)' => p = "down" /\ h = g
      BY <1>3, <1>4, <3>2 DEF ReceiptToken, Answers
    <3>4. QED
      BY <1>3, <3>1, <3>3, ReceiptMoved
  <2>2. CASE ~ Answers(u, g)
    <3>1. \A p, h : ReceiptToken(u, p, h)' => ReceiptToken(u, p, h)
      BY <1>3, <1>4, <2>2 DEF ReceiptToken, Answers
    <3>2. QED
      BY <1>3, <3>1, ReceiptsKept
  <2>3. QED
    BY <2>1, <2>2
<1>5. CASE StationMessage(f)
  <2>1. f.opt \in {PlainOpt, RetOpt, CnfOpt} /\ ReplyOpt # f.opt
    <3>1. f.opt \in MessageOpts /\ SentAs(f.msg, f.w0, f.w1, {f.opt})
      BY <1>2, <1>5 DEF StationMessage, UpTrue
    <3>2. QED
      BY <3>1, OptionsDiffer DEF SentAs, TypeOK, Messages, SendOptions
  <2>2. PICK n, m : n = stamp /\ m = stamp + 1
    OBVIOUS
  <2>3. PICK k \in {n, m} :
          \A h \in down' :
            \/ h \in down
            \/ h.opt = f.opt
            \/ /\ f.opt # PlainOpt
               /\ h = DownFrame(k, f.w0, Station, ReplyFrame(f), ReplyOpt, Receipt, f.msg)
    BY <1>5, <2>2 DEF StationMessage, send_src_user, send_dest_user, DownFrame
  <2>4. PICK g : g = DownFrame(k, f.w0, Station, ReplyFrame(f), ReplyOpt, Receipt, f.msg)
    OBVIOUS
  <2>5. g.w0 = f.w0 /\ g.msg = f.msg
    BY <2>4 DEF DownFrame
  <2>6. CASE f.opt = PlainOpt
    <3>1. \A h \in down' : h \in down \/ ~ Answers(u, h)
      BY <2>1, <2>3, <2>6 DEF Answers
    <3>2. \A p, h : ReceiptToken(u, p, h)' => ReceiptToken(u, p, h)
      BY <1>3, <3>1 DEF ReceiptToken, Answers
    <3>3. QED
      BY <1>3, <3>2, ReceiptsKept
  <2>7. CASE f.opt # PlainOpt
    <3>1. \A h \in down' : h \in down \/ h = g \/ ~ Answers(u, h)
      BY <2>1, <2>3, <2>4 DEF Answers
    <3>2. Answers(u, g) => ReceiptToken(u, "up", f) /\ g.msg = f.msg
      BY <2>1, <2>5, <2>7 DEF Answers, ReceiptToken
    <3>3. QED
      BY <1>4, <3>1, <3>2
  <2>8. QED
    BY <2>6, <2>7
<1>6. CASE StationConfirm(f)
  <2>1. PICK n : n = stamp
    OBVIOUS
  <2>2. PICK g : g = DownFrame(n, f.w1, f.w0, f.frame, f.opt, f.data, f.msg)
    OBVIOUS
  <2>3. down' = down \cup {g}
    BY <1>6, <2>1, <2>2 DEF StationConfirm, send_src_user, send_dest_user
  <2>4. g.w1 # Station
    BY <1>2, <1>6, <2>2 DEF StationConfirm, UpTrue, DownFrame
  <2>5. QED
    BY <1>4, <2>3, <2>4 DEF Answers
<1>7. CASE StationMove(f)
  <2>1. PICK n, result : n = stamp /\ result \in {OnOk, OnFailed, MoveOk} /\
          down' = down \cup {DownFrame(n, f.w0, Station, ReplyFrame(f), ReplyOpt,
                                      result, f.msg)}
    BY <1>7 DEF StationMove, send_src_user
  <2>2. PICK g : g = DownFrame(n, f.w0, Station, ReplyFrame(f), ReplyOpt, result, f.msg)
    OBVIOUS
  <2>3. ~ Answers(u, g)
    BY <2>1, <2>2, OptionsDiffer DEF Answers, DownFrame
  <2>4. QED
    BY <1>4, <2>1, <2>2, <2>3
<1>8. QED
  BY <1>1, <1>5, <1>6, <1>7

\* The broadcast gives the addressee of a receipt the token, and loses it or not.
LEMMA ForwardReceipts ==
    ASSUME TypeOK, NEW u \in Users, ReceiptsOf(u), Forward,
           UNCHANGED <<clientVars, historyVars>>
    PROVE  ReceiptsOf(u)'
<1>1. PICK f \in down, miss \in SUBSET Users :
        /\ down' = down \ {f}
        /\ inbox' = [v \in Users |-> IF v \in miss THEN inbox[v]
                                                  ELSE inbox[v] \cup {f}]
  BY DEF Forward
<1>2. inbox'[u] \subseteq inbox[u] \cup {f}
  BY <1>1
<1>3. UNCHANGED <<up, pc, call>>
  BY DEF Forward, clientVars
<1>4. CASE Answers(u, f)
  <2>1. ReceiptToken(u, "down", f)
    BY <1>4 DEF ReceiptToken
  <2>2. \A p, h : ReceiptToken(u, p, h) => p = "down" /\ h = f
    BY <2>1 DEF ReceiptsOf
  <2>3. \A p, h : ReceiptToken(u, p, h)' => p = "inbox" /\ h = f
    BY <1>1, <1>2, <1>3, <2>2 DEF ReceiptToken, Answers
  <2>4. QED
    BY <1>3, <2>1, <2>3, ReceiptMoved
<1>5. CASE ~ Answers(u, f)
  <2>1. \A p, h : ReceiptToken(u, p, h)' => ReceiptToken(u, p, h)
    BY <1>1, <1>2, <1>3, <1>5 DEF ReceiptToken, Answers
  <2>2. QED
    BY <1>3, <2>1, ReceiptsKept
<1>6. QED
  BY <1>4, <1>5

\* At most one frame can bring a client the receipt it waits for, and that frame
\* is about the message of the call.
THEOREM ReceiptTokensCorrect ==
    ASSUME MaxDups = 0, MaxRestarts = 0
    PROVE  Spec => []ReceiptTokens
<1>1. Init => ReceiptTokens
  BY DEF Init, ChannelInit, ReceiptTokens, ReceiptTokensCurrent,
     ReceiptTokensUnique, ReceiptToken
<1>2. TypeOK /\ FramesTrue /\ ReceiptTokens /\ [Next]_vars => ReceiptTokens'
  <2> SUFFICES ASSUME TypeOK, FramesTrue, ReceiptTokens, [Next]_vars, NEW u \in Users
               PROVE  ReceiptsOf(u)'
    BY ReceiptTokensAreReceiptsOf
  <2>1. ReceiptsOf(u)
    BY ReceiptTokensAreReceiptsOf
  <2>2. ASSUME NEW w \in Users, ClientStep(w) PROVE ReceiptsOf(u)'
    <3>1. ~ Restart(w)
      BY DEF Restart, TypeOK
    <3>2. QED
      BY <2>1, <2>2, <3>1, QuietReceipts, SendLineReceipts, HandleUdpReceipts,
         WaitReceipts DEF ClientStep, HandleStdin
  <2>3. CASE ChannelStep /\ UNCHANGED <<clientVars, historyVars>>
    <3>1. ~ Duplicate
      BY DEF Duplicate, TypeOK, ChannelTypeOK
    <3>2. QED
      BY <2>1, <2>3, <3>1, StationReceipts, ForwardReceipts DEF ChannelStep
  <2>4. CASE UNCHANGED vars
    <3>1. UNCHANGED <<up, down, inbox, pc, call>>
      BY <2>4 DEF vars, channelVars, clientVars
    <3>2. QED
      BY <2>1, <3>1, NoNewReceipts, ReceiptsKept
  <2>5. QED
    BY <2>2, <2>3, <2>4 DEF Next
<1>3. QED
  BY <1>1, <1>2, TypeCorrect, FramesCorrect, PTL DEF Spec

\* Only userSendWaitRet reports a receipt, for the frame that it has received.
LEMMA ReceiptReport ==
    ASSUME TypeOK, [Next]_vars
    PROVE  \/ UNCHANGED receipted
           \/ \E u \in Users : \E f \in inbox[u] :
                /\ UserSendWaitRet(u) /\ pc[u] = "sendWaitRet" /\ Answers(u, f)
                /\ receipted' = receipted \cup {call[u].msg}
<1>1. ASSUME NEW u \in Users, UserSendWaitRet(u), ~ UNCHANGED receipted
      PROVE  \E f \in inbox[u] :
                /\ pc[u] = "sendWaitRet" /\ Answers(u, f)
                /\ receipted' = receipted \cup {call[u].msg}
  BY <1>1, OptionTests DEF UserSendWaitRet, Discard, IsReceipt, From,
     recv_dest_user, recv_src_user, Answers, TypeOK, ChannelTypeOK
<1>2. ASSUME NEW u \in Users, ClientStep(u), ~ UserSendWaitRet(u)
      PROVE  UNCHANGED receipted
  BY <1>2 DEF ClientStep, HandleStdin, EpollWait, SendLine, MoveLine, OtherLine,
     HandleUdp, UserOnWait, UserSendWaitCnf, Discard, Restart, historyVars
<1>3. CASE (ChannelStep /\ UNCHANGED <<clientVars, historyVars>>) \/ UNCHANGED vars
  BY <1>3 DEF vars, historyVars
<1>4. QED
  BY <1>1, <1>2, <1>3 DEF Next

\* A receipt that is reported is about the message of its call: that message
\* asked for it and has been accepted.
LEMMA ReceiptIsOfCall ==
    ASSUME FramesTrue, ReceiptTokens, NEW u \in Users, NEW f \in inbox[u],
           Answers(u, f)
    PROVE  /\ call[u].msg \in accepted
           /\ \E dst \in Nat : SentAs(call[u].msg, u, dst, {RetOpt, CnfOpt})
<1>1. ReceiptToken(u, "inbox", f)
  BY DEF ReceiptToken
<1>2. f.msg = call[u].msg
  BY <1>1, ReceiptTokensAreReceiptsOf DEF ReceiptsOf
<1>3. QED
  BY <1>2 DEF FramesTrue, DownTrue, Answers

\* Without duplicates and restarts, a message is reported as taken in by the
\* station only when the station has accepted that very message.
THEOREM ReceiptsExact ==
    ASSUME MaxDups = 0, MaxRestarts = 0
    PROVE  Spec => []ReceiptSound
<1>1. Init => ReceiptSound
  BY DEF Init, ReceiptSound
<1>2. TypeOK /\ FramesTrue /\ ReceiptTokens /\ ReceiptSound /\ [Next]_vars => ReceiptSound'
  BY HistoryGrows, ReceiptReport, ReceiptIsOfCall DEF ReceiptSound, Grows
<1>3. QED
  BY <1>1, <1>2, TypeCorrect, FramesCorrect, ReceiptTokensCorrect, PTL DEF Spec

-----------------------------------------------------------------------------
(* The refinement.                                                         *)

\* userSend hands one new message to SendTo, or none.
LEMMA SendLineSends ==
    ASSUME TypeOK, NEW u \in Users, SendLine(u)
    PROVE  /\ \/ UNCHANGED <<sent, pc, call>>
              \/ \E isRet, isCnf \in BOOLEAN, id \in Addressees :
                   /\ sent' = sent \cup {[msg |-> stamp, src |-> u, dst |-> id,
                                          opt |-> SendOption(isRet, isCnf)]}
                   /\ stamp' = stamp + 1
                   /\ IF isRet \/ isCnf
                      THEN /\ call' = [call EXCEPT ![u] =
                                         [id |-> id, isCnf |-> isCnf, msg |-> stamp]]
                           /\ pc' = [pc EXCEPT ![u] = FirstWait(isRet, isCnf)]
                      ELSE UNCHANGED <<call, pc>>
           /\ stamp' >= stamp
           /\ UNCHANGED <<accepted, shown, receipted, confirmed>> /\ pc[u] = "loop"
<1>1. PICK typedRet \in BOOLEAN, isCnf \in BOOLEAN, id \in Addressees :
        \E isRet \in ScannedRet(typedRet) : UserSend(u, isRet, isCnf, id)
  BY DEF SendLine
<1>2. PICK isRet \in BOOLEAN : UserSend(u, isRet, isCnf, id)
  BY <1>1 DEF ScannedRet
<1>3. stamp \in Nat
  BY DEF TypeOK, ChannelTypeOK
<1>4. UNCHANGED <<accepted, shown, receipted, confirmed>> /\ pc[u] = "loop"
  BY DEF SendLine, Handling
<1>5. QED
  BY <1>2, <1>3, <1>4 DEF UserSend, SendTo, SocketError

\* No step lowers the stamp.
LEMMA StampGrows ==
    ASSUME TypeOK, [Next]_vars
    PROVE  stamp \in Nat /\ stamp' \in Nat /\ stamp' >= stamp
<1>1. stamp \in Nat
  BY DEF TypeOK, ChannelTypeOK
<1>2. ASSUME NEW u \in Users, ClientStep(u) PROVE stamp' \in {stamp, stamp + 1}
  <2>1. CASE SendLine(u)
    BY <2>1 DEF SendLine, UserSend, SendTo, SocketError
  <2>2. CASE MoveLine(u)
    BY <2>2 DEF MoveLine, UserMove, SendTo, SocketError
  <2>3. CASE HandleUdp(u)
    BY <2>3 DEF HandleUdp, UserRecv, UserRecvWait, SendTo, SocketError
  <2>4. CASE ~ (SendLine(u) \/ MoveLine(u) \/ HandleUdp(u))
    BY <1>2, <2>4 DEF ClientStep, HandleStdin, EpollWait, OtherLine, UserOnWait,
       UserSendWaitRet, UserSendWaitCnf, Restart, channelVars
  <2>5. QED
    BY <2>1, <2>2, <2>3, <2>4
<1>3. CASE ChannelStep
  <2>1. stamp' \in {stamp, stamp + 1, stamp + 2}
    BY <1>3 DEF ChannelStep, StationStep, StationMessage, StationConfirm, StationMove,
       Forward, Duplicate
  <2>2. QED
    BY <1>1, <2>1
<1>4. CASE UNCHANGED vars
  BY <1>1, <1>4 DEF vars, channelVars
<1>5. QED
  BY <1>1, <1>2, <1>3, <1>4 DEF Next

\* Only a typed "send" changes sent.
LEMMA OnlySendLineSends ==
    ASSUME [Next]_vars, ~ \E u \in Users : SendLine(u)
    PROVE  UNCHANGED sent
<1>1. ASSUME NEW u \in Users, ClientStep(u), ~ SendLine(u) PROVE UNCHANGED sent
  BY <1>1 DEF ClientStep, HandleStdin, EpollWait, MoveLine, OtherLine, HandleUdp,
     UserOnWait, UserSendWaitRet, UserSendWaitCnf, Restart, historyVars
<1>2. CASE (ChannelStep /\ UNCHANGED <<clientVars, historyVars>>) \/ UNCHANGED vars
  BY <1>2 DEF vars, historyVars
<1>3. QED
  BY <1>1, <1>2 DEF Next

\* Every message gets a stamp that no other has.
LEMMA MessagesNewStep ==
    ASSUME TypeOK, MessagesNew, [Next]_vars
    PROVE  MessagesNew'
<1>1. stamp \in Nat /\ stamp' \in Nat /\ stamp' >= stamp
  BY StampGrows
<1>2. \A s \in sent : s.msg \in Nat
  BY DEF TypeOK, Messages
<1>3. CASE UNCHANGED sent
  BY <1>1, <1>2, <1>3 DEF MessagesNew
<1>4. ASSUME NEW u \in Users, SendLine(u), ~ UNCHANGED sent
      PROVE  MessagesNew'
  <2>1. PICK isRet \in BOOLEAN, isCnf \in BOOLEAN, id \in Addressees :
          /\ sent' = sent \cup {[msg |-> stamp, src |-> u, dst |-> id,
                                 opt |-> SendOption(isRet, isCnf)]}
          /\ stamp' = stamp + 1
    BY <1>4, SendLineSends
  <2>2. \A s \in sent' : s \in sent \/ s.msg = stamp
    BY <2>1
  <2>3. QED
    BY <1>1, <1>2, <2>1, <2>2 DEF MessagesNew
<1>5. QED
  BY <1>3, <1>4, OnlySendLineSends

\* What a call waits for a confirm of has been sent before.
LEMMA ReceiptFirstStep ==
    ASSUME TypeOK, FramesTrue, Numbered, [Next]_vars
    PROVE  ReceiptFirst'
<1> SUFFICES ASSUME NEW u \in Users, pc'[u] = "sendWaitCnf",
                    SentAs(call[u].msg, u, call[u].id, {CnfOpt})'
             PROVE  call'[u].msg \in receipted'
  BY DEF ReceiptFirst
<1>1. receipted \subseteq receipted'
  BY ReceiptReport
<1>2. ASSUME NEW w \in Users, SendLine(w), ~ UNCHANGED <<sent, pc, call>>
      PROVE  call'[u].msg \in receipted'
  <2>1. PICK isRet \in BOOLEAN, isCnf \in BOOLEAN, id \in Addressees :
          /\ sent' = sent \cup {[msg |-> stamp, src |-> w, dst |-> id,
                                 opt |-> SendOption(isRet, isCnf)]}
          /\ IF isRet \/ isCnf
             THEN /\ call' = [call EXCEPT ![w] =
                                [id |-> id, isCnf |-> isCnf, msg |-> stamp]]
                  /\ pc' = [pc EXCEPT ![w] = FirstWait(isRet, isCnf)]
             ELSE UNCHANGED <<call, pc>>
    BY <1>2, SendLineSends
  <2>2. pc[w] = "loop"
    BY <1>2, SendLineSends
  <2>3. PICK m : m = [msg |-> stamp, src |-> w, dst |-> id,
                      opt |-> SendOption(isRet, isCnf)]
    OBVIOUS
  <2>4. sent' = sent \cup {m} /\ m.msg = stamp /\ m.opt = SendOption(isRet, isCnf)
    BY <2>1, <2>3
  <2>5. CASE u = w
    <3>1. call'[u].msg = stamp /\ ~ isRet
      BY <2>1, <2>2, <2>5 DEF FirstWait, TypeOK
    <3>2. m.opt # CnfOpt
      BY <2>4, <3>1 DEF SendOption, PlainOpt, CnfOpt
    <3>3. \A s \in sent : s.msg # stamp
      BY DEF Numbered, MessagesNew, TypeOK, ChannelTypeOK, Messages
    <3>4. ~ \E s \in sent' : s.msg = stamp /\ s.opt = CnfOpt
      BY <2>4, <3>2, <3>3
    <3>5. QED
      BY <3>1, <3>4 DEF SentAs
  <2>6. CASE u # w
    <3>1. pc'[u] = pc[u] /\ call'[u] = call[u]
      BY <2>1, <2>6 DEF TypeOK
    <3>2. call[u].msg # stamp
      BY <3>1 DEF FramesTrue, CallTrue, Waiting, SentAs, Numbered, MessagesNew,
         TypeOK, ChannelTypeOK, Messages
    <3>3. SentAs(call[u].msg, u, call[u].id, {CnfOpt})
      BY <2>4, <3>1, <3>2 DEF SentAs
    <3>4. QED
      BY <1>1, <3>1, <3>3 DEF Numbered, ReceiptFirst
  <2>7. QED
    BY <2>5, <2>6
<1>3. ASSUME UNCHANGED sent, pc'[u] = pc[u], call'[u] = call[u]
      PROVE  call'[u].msg \in receipted'
  BY <1>1, <1>3 DEF Numbered, ReceiptFirst, SentAs
<1>4. ASSUME NEW w \in Users, UserSendWaitRet(w)
      PROVE  call'[u].msg \in receipted'
  <2>1. CASE pc'[u] = pc[u] /\ call'[u] = call[u]
    BY <1>3, <1>4, <2>1 DEF UserSendWaitRet
  <2>2. CASE ~ (pc'[u] = pc[u] /\ call'[u] = call[u])
    BY <1>4, <2>2 DEF UserSendWaitRet, Discard, BackToLoop, TypeOK
  <2>3. QED
    BY <2>1, <2>2
<1>5. ASSUME NEW w \in Users, ClientStep(w), ~ SendLine(w), ~ UserSendWaitRet(w)
      PROVE  pc'[u] = pc[u] /\ call'[u] = call[u]
  <2>1. CASE MoveLine(w)
    BY <2>1 DEF MoveLine, UserMove, TypeOK
  <2>2. CASE UserOnWait(w) \/ UserSendWaitCnf(w)
    BY <2>2 DEF UserOnWait, UserSendWaitCnf, Discard, BackToLoop, TypeOK
  <2>3. CASE Restart(w)
    BY <2>3 DEF Restart, BackToLoop, TypeOK
  <2>4. CASE ~ (MoveLine(w) \/ UserOnWait(w) \/ UserSendWaitCnf(w) \/ Restart(w))
    BY <1>5, <2>4 DEF ClientStep, HandleStdin, EpollWait, OtherLine, HandleUdp
  <2>5. QED
    BY <2>1, <2>2, <2>3, <2>4
<1>6. CASE (ChannelStep /\ UNCHANGED <<clientVars, historyVars>>) \/ UNCHANGED vars
  BY <1>3, <1>6 DEF vars, clientVars, historyVars
<1>7. ASSUME NEW w \in Users, SendLine(w), UNCHANGED <<sent, pc, call>>
      PROVE  call'[u].msg \in receipted'
  BY <1>3, <1>7
<1>8. QED
  BY <1>2, <1>3, <1>4, <1>5, <1>6, <1>7, OnlySendLineSends DEF Next

\* Stamps are new, and receipts are reported before confirms.
THEOREM NumberedCorrect == Spec => []Numbered
<1>1. Init => Numbered
  BY DEF Init, Numbered, MessagesNew, ReceiptFirst
<1>2. TypeOK /\ FramesTrue /\ Numbered /\ [Next]_vars => Numbered'
  BY MessagesNewStep, ReceiptFirstStep DEF Numbered
<1>3. QED
  BY <1>1, <1>2, TypeCorrect, FramesCorrect, PTL DEF Spec

\* A step that does not change what MessageService speaks of.
ServiceSame == UNCHANGED <<sent, accepted, shown, receipted, confirmed>>

\* userSend implements Send, or fails unseen.
LEMMA SendImplemented ==
    ASSUME TypeOK, MessagesNew, NEW u \in Users, SendLine(u)
    PROVE  ServiceSame \/ Service!Send
<1>1. UNCHANGED <<accepted, shown, receipted, confirmed>>
  BY SendLineSends
<1>2. CASE UNCHANGED sent
  BY <1>1, <1>2 DEF ServiceSame
<1>3. CASE ~ UNCHANGED sent
  <2>1. PICK isRet \in BOOLEAN, isCnf \in BOOLEAN, id \in Addressees :
          sent' = sent \cup {[msg |-> stamp, src |-> u, dst |-> id,
                              opt |-> SendOption(isRet, isCnf)]}
    BY <1>3, SendLineSends
  <2>2. PICK m : m = [msg |-> stamp, src |-> u, dst |-> id,
                      opt |-> SendOption(isRet, isCnf)]
    OBVIOUS
  <2>3. sent' = sent \cup {m} /\ m.msg = stamp
    BY <2>1, <2>2
  <2>4. \A t \in sent : t.msg # m.msg
    BY <2>3 DEF MessagesNew, TypeOK, ChannelTypeOK, Messages
  <2>5. m \in sent' \ sent
    BY <2>3, <2>4
  <2>6. QED
    BY <1>1, <2>3, <2>4, <2>5 DEF Service!Send
<1>4. QED
  BY <1>2, <1>3

\* A client that displays a message implements Show.
LEMMA ShowImplemented ==
    ASSUME TypeOK, FramesTrue, NEW u \in Users, HandleUdp(u)
    PROVE  ServiceSame \/ \E s \in sent : Service!Show(s)
<1>1. UNCHANGED <<sent, accepted, receipted, confirmed>>
  BY DEF HandleUdp
<1>2. CASE UNCHANGED shown
  BY <1>1, <1>2 DEF ServiceSame
<1>3. CASE ~ UNCHANGED shown
  <2>1. PICK f \in inbox[u] :
          /\ f.w0 = u /\ AsChar(f.opt) \in MessageOpts
          /\ shown' = [shown EXCEPT ![u] = @ \cup {f.msg}]
    BY <1>3 DEF HandleUdp, UserRecv, recv_dest_user
  <2>2. f.opt \in MessageOpts
    BY <2>1, OptionTests DEF TypeOK, ChannelTypeOK
  <2>3. f.msg \in accepted /\ SentAs(f.msg, f.w1, u, {f.opt})
    BY <2>1, <2>2 DEF FramesTrue, DownTrue
  <2>4. PICK s \in sent : s.msg = f.msg /\ s.dst = u
    BY <2>3 DEF SentAs
  <2>5. Service!Show(s)
    BY <1>1, <2>1, <2>3, <2>4 DEF Service!Show
  <2>6. QED
    BY <2>5
<1>4. QED
  BY <1>2, <1>3

\* userSendWaitRet implements ReportReceipt when it ends.
LEMMA ReceiptImplemented ==
    ASSUME TypeOK, FramesTrue, ReceiptTokens, [Next]_vars,
           NEW u \in Users, UserSendWaitRet(u)
    PROVE  ServiceSame \/ \E s \in sent : Service!ReportReceipt(s)
<1>1. UNCHANGED <<sent, accepted, shown, confirmed>>
  BY DEF UserSendWaitRet, Discard
<1>2. CASE UNCHANGED receipted
  BY <1>1, <1>2 DEF ServiceSame
<1>3. CASE ~ UNCHANGED receipted
  <2>1. PICK v \in Users : \E f \in inbox[v] :
          Answers(v, f) /\ receipted' = receipted \cup {call[v].msg}
    BY <1>3, ReceiptReport
  <2>2. call[v].msg \in accepted
        /\ \E dst \in Nat : SentAs(call[v].msg, v, dst, {RetOpt, CnfOpt})
    BY <2>1, ReceiptIsOfCall
  <2>3. PICK s \in sent : s.msg = call[v].msg /\ s.opt \in {RetOpt, CnfOpt}
    BY <2>2 DEF SentAs
  <2>4. Service!ReportReceipt(s)
    BY <1>1, <2>1, <2>2, <2>3
    DEF Service!ReportReceipt, Service!RetOpt, Service!CnfOpt, RetOpt, CnfOpt
  <2>5. QED
    BY <2>4
<1>4. QED
  BY <1>2, <1>3

\* userSendWaitCnf implements ReportConfirm when it ends.
LEMMA ConfirmImplemented ==
    ASSUME TypeOK, FramesTrue, Tokens, Numbered, [Next]_vars,
           NEW u \in Users, UserSendWaitCnf(u)
    PROVE  ServiceSame \/ \E s \in sent : Service!ReportConfirm(s)
<1>1. UNCHANGED <<sent, accepted, shown, receipted>>
  BY DEF UserSendWaitCnf, Discard
<1>2. CASE UNCHANGED confirmed
  BY <1>1, <1>2 DEF ServiceSame
<1>3. CASE ~ UNCHANGED confirmed
  <2>0. PICK v \in Users : \E f \in inbox[v] :
          /\ pc[v] = "sendWaitCnf"
          /\ f.w0 = v /\ f.w1 = call[v].id /\ f.opt = ReplyOpt /\ f.data = Confirm
          /\ confirmed' = confirmed \cup {call[v].msg}
    BY <1>3, ConfirmReport
  <2>1. PICK f \in inbox[v] :
          /\ pc[v] = "sendWaitCnf"
          /\ f.w0 = v /\ f.w1 = call[v].id /\ f.opt = ReplyOpt /\ f.data = Confirm
          /\ confirmed' = confirmed \cup {call[v].msg}
    BY <2>0
  <2>2. call[v].id \in Users /\ f.w1 # Station
    BY <2>1, ConfirmIsFromClient
  <2>3. f.msg \in shown[call[v].id] /\ SentAs(f.msg, v, call[v].id, {CnfOpt})
    BY <2>1, <2>2 DEF FramesTrue, DownTrue
  <2>4. f.msg = call[v].msg
    BY <2>1, <2>2, TokensAreTokensOf DEF TokensOf, Token, Asks
  <2>5. call[v].msg \in receipted
    BY <2>1, <2>3, <2>4 DEF Numbered, ReceiptFirst
  <2>6. PICK s \in sent : s.msg = call[v].msg /\ s.dst = call[v].id /\ s.opt = CnfOpt
    BY <2>3, <2>4 DEF SentAs
  <2>7. Service!ReportConfirm(s)
    BY <1>1, <2>1, <2>2, <2>3, <2>4, <2>5, <2>6
    DEF Service!ReportConfirm, Service!CnfOpt, CnfOpt
  <2>8. QED
    BY <2>7
<1>4. QED
  BY <1>2, <1>3

\* The station implements Accept when it takes in a message.
LEMMA AcceptImplemented ==
    ASSUME TypeOK, FramesTrue, ChannelStep, UNCHANGED <<clientVars, historyVars>>
    PROVE  ServiceSame \/ \E s \in sent : Service!Accept(s)
<1>1. UNCHANGED <<sent, shown, receipted, confirmed>>
  BY DEF historyVars
<1>2. CASE UNCHANGED accepted
  BY <1>1, <1>2 DEF ServiceSame
<1>3. CASE ~ UNCHANGED accepted
  <2>1. PICK f \in up : StationMessage(f)
    BY <1>3 DEF ChannelStep, StationStep, StationConfirm, StationMove, Forward, Duplicate
  <2>2. accepted' = accepted \cup {f.msg} /\ f.opt \in MessageOpts
    BY <2>1 DEF StationMessage
  <2>3. PICK s \in sent : s.msg = f.msg
    BY <2>2 DEF FramesTrue, UpTrue, SentAs
  <2>4. Service!Accept(s)
    BY <1>1, <2>2, <2>3 DEF Service!Accept
  <2>5. QED
    BY <2>4
<1>4. QED
  BY <1>2, <1>3

\* Every step of the clients and the channel is a step of the service, or unseen.
LEMMA StepImplemented ==
    ASSUME TypeOK, FramesTrue, Tokens, ReceiptTokens, Numbered, [Next]_vars
    PROVE  [Service!Next]_Service!vars
<1> SUFFICES ServiceSame \/ Service!Next
  BY DEF ServiceSame, Service!vars
<1>1. ASSUME NEW u \in Users, ClientStep(u) PROVE ServiceSame \/ Service!Next
  <2>1. CASE SendLine(u)
    BY <2>1, SendImplemented DEF Numbered, Service!Next
  <2>2. CASE HandleUdp(u)
    BY <2>2, ShowImplemented DEF Service!Next
  <2>3. CASE UserSendWaitRet(u)
    BY <2>3, ReceiptImplemented DEF Service!Next
  <2>4. CASE UserSendWaitCnf(u)
    BY <2>4, ConfirmImplemented DEF Service!Next
  <2>5. CASE ~ (SendLine(u) \/ HandleUdp(u) \/ UserSendWaitRet(u) \/ UserSendWaitCnf(u))
    BY <1>1, <2>5 DEF ClientStep, HandleStdin, EpollWait, MoveLine, OtherLine,
       UserOnWait, Discard, Restart, channelVars, historyVars, ServiceSame
  <2>6. QED
    BY <2>1, <2>2, <2>3, <2>4, <2>5
<1>2. CASE ChannelStep /\ UNCHANGED <<clientVars, historyVars>>
  BY <1>2, AcceptImplemented DEF Service!Next
<1>3. CASE UNCHANGED vars
  BY <1>3 DEF vars, channelVars, historyVars, ServiceSame
<1>4. QED
  BY <1>1, <1>2, <1>3 DEF Next

\* Without duplicates and restarts, and whatever is lost or overtaken, the clients
\* and the channel implement the service.
THEOREM ServiceImplemented ==
    ASSUME MaxDups = 0, MaxRestarts = 0
    PROVE  Spec => ServiceSpec
<1>1. Init => Service!Init
  BY DEF Init, ChannelInit, Service!Init
<1>2. TypeOK /\ FramesTrue /\ Tokens /\ ReceiptTokens /\ Numbered /\ [Next]_vars
        => [Service!Next]_Service!vars
  BY StepImplemented
<1>3. QED
  BY <1>1, <1>2, TypeCorrect, FramesCorrect, TokensCorrect, ReceiptTokensCorrect,
     NumberedCorrect, PTL DEF Spec, ServiceSpec, Service!Spec
=============================================================================
