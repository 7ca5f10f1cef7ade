----------------------- MODULE ScriptedClientsProofs ------------------------
(***************************************************************************)
(* The wait of userOnWait takes any reply of the station for the answer to *)
(* its report, and yet it takes no other: with numbers that are different  *)
(* and the ones that userOn reports, and nothing duplicated, at most one   *)
(* frame in flight can bring a program a reply of the station, and only    *)
(* while it waits, in the call that this frame is about.                   *)
(***************************************************************************)
EXTENDS ScriptedClients, TLAPS

Unsent == {"on", "move", "send"}
StationWaits == {"onWait", "moveWait", "retWait"}
SenderPlaces == Unsent \cup StationWaits \cup {"cnfWait"}

\* A frame that the station answers to the number it comes from, and an answer.
Asks(u, f) == f.w0 = userID[u] /\ f.opt # ReplyOpt
Answers(u, f) == f.w0 = userID[u] /\ f.w1 = Station /\ f.opt = ReplyOpt

\* A reply for u in flight, or a frame that will bring one.
Token(u, place, f) ==
    \/ place = "up" /\ f \in up /\ Asks(u, f)
    \/ place = "down" /\ f \in down /\ Answers(u, f)
    \/ place = "inbox" /\ f \in inbox[u] /\ Answers(u, f)

TokensOf(u) ==
    /\ \A p, f : Token(u, p, f) => pc[u] \in StationWaits /\ f.msg = current[u]
    /\ \A p, q, f, g : Token(u, p, f) /\ Token(u, q, g) => p = q /\ f = g

\* Where the scripts are, and which numbers and options are on their way up.
ScriptFits ==
    /\ inbox = [u \in Users |-> inbox[u]] /\ current = [u \in Users |-> current[u]]
    /\ pc = [u \in Users |-> pc[u]] /\ answers = [u \in Users |-> answers[u]]
    /\ dups \in Nat
    /\ \A u \in Users : IF u \in Senders THEN pc[u] \in SenderPlaces
                                         ELSE pc[u] \in {"on", "onWait", "recv"}
    /\ Configured /\ dups = 0 => \A f \in up : f.w0 # Station

ScriptInv ==
    /\ ScriptFits
    /\ Configured /\ dups = 0 => \A u \in Users : TokensOf(u)

\* The option bytes that the proofs tell apart, and the number of the station.
LEMMA OptionsDiffer ==
    /\ OnOpt # ReplyOpt /\ MoveOpt # ReplyOpt /\ CnfOpt # ReplyOpt /\ ReplyOpt \notin MessageOpts
    /\ Station \notin {1, 2}
  BY DEF OnOpt, ReplyOpt, MoveOpt, CnfOpt, MessageOpts, PlainOpt, RetOpt, Ret1Opt, Station

\* With the right numbers no program has the number of the station.
LEMMA Numbers ==
    ASSUME Configured, NEW u \in Users
    PROVE  userID[u] # Station /\ userID[u] = Reported(u)
  BY OptionsDiffer DEF Configured, Reported

-----------------------------------------------------------------------------
(* What a step of a program may do.                                        *)

\* Such a step changes nothing of another program.
Only(u) ==
    /\ \A v \in Users \ {u} :
         inbox'[v] = inbox[v] /\ pc'[v] = pc[v] /\ current'[v] = current[v]
    /\ inbox'[u] \subseteq inbox[u]
    /\ UNCHANGED <<down, userID, dups>>

\* u makes a call, or sends nothing; which frame it sends.
Begins(u, f) ==
    /\ Only(u) /\ pc[u] \in Unsent
    /\ UNCHANGED <<inbox, answers>>
    /\ Configured => f.w0 = userID[u]
    /\ f.opt # ReplyOpt
    /\ \/ /\ up' \in {up, up \cup {f}}
          /\ pc'[u] \in StationWaits /\ current'[u] = f.msg
       \/ up' = up

\* A call sends at most one frame, its own, and waits for its reply.
LEMMA CallBegins ==
    ASSUME ScriptFits, NEW u \in Users, NEW f, NEW wait \in StationWaits, NEW next,
           Call(u, f, wait, next), f.msg = stamp, Configured => f.w0 = userID[u],
           f.opt # ReplyOpt, pc[u] \in Unsent
    PROVE  Begins(u, f)
<1>1. UNCHANGED <<down, inbox, dups, userID, answers>>
  BY DEF Call
<1>2. CASE SendTo(f) /\ Goto(u, wait) /\ current' = [current EXCEPT ![u] = stamp]
  BY <1>1, <1>2 DEF SendTo, Goto, ScriptFits, Begins, Only
<1>3. CASE SocketError /\ Goto(u, next) /\ UNCHANGED current
  BY <1>1, <1>3 DEF SocketError, Goto, ScriptFits, Begins, Only
<1>4. QED
  BY <1>2, <1>3 DEF Call

\* The four operations of the scripts begin calls,
LEMMA StepBegins ==
    ASSUME ScriptFits, NEW u \in Users,
           SendUserOn(u) \/ RecvUserOn(u) \/ userMove(u) \/ userSend(u)
    PROVE  \E f : Begins(u, f)
<1>1. PICK f : f = OnFrame(u)
  OBVIOUS
<1>2. /\ f.w0 = Reported(u) /\ f.msg = stamp /\ f.opt # ReplyOpt
  BY <1>1, OptionsDiffer DEF OnFrame, UpFrame
<1>3. CASE SendUserOn(u)
  BY <1>1, <1>2, <1>3, CallBegins, Numbers DEF SendUserOn, Unsent, StationWaits
<1>4. CASE RecvUserOn(u)
  BY <1>1, <1>2, <1>4, CallBegins, Numbers DEF RecvUserOn, Unsent, StationWaits
<1>5. CASE userMove(u)
  <2>1. PICK g : g = UpFrame(stamp, 1, Station, frameNo[u], MoveOpt, OnOk, stamp)
    OBVIOUS
  <2>2. g.w0 = 1 /\ g.msg = stamp /\ g.opt # ReplyOpt
    BY <2>1, OptionsDiffer DEF UpFrame
  <2>3. u \in Senders
    BY <1>5 DEF userMove, ScriptFits
  <2>4. Configured => g.w0 = userID[u]
    BY <2>2, <2>3, Numbers DEF Reported
  <2>5. pc[u] \in Unsent /\ Call(u, g, "moveWait", "send")
    BY <1>5, <2>1 DEF userMove, Unsent
  <2>6. QED
    BY <2>2, <2>4, <2>5, CallBegins DEF StationWaits
<1>6. CASE userSend(u)
  <2>1. PICK g : g = UpFrame(stamp, userID[u], 2, frameNo[u], CnfOpt, TextByte, stamp)
    OBVIOUS
  <2>2. g.w0 = userID[u] /\ g.msg = stamp /\ g.opt # ReplyOpt
    BY <2>1, OptionsDiffer DEF UpFrame
  <2>3. pc[u] \in Unsent /\ Call(u, g, "retWait", "move")
    BY <1>6, <2>1 DEF userSend, Unsent
  <2>4. QED
    BY <2>2, <2>3, CallBegins DEF StationWaits
<1>7. QED
  BY <1>3, <1>4, <1>5, <1>6

\* A wait of u takes a datagram; an answer ends it, except for the wait for a receipt.
Waits(u) ==
    /\ Only(u) /\ up' = up /\ current' = current
    /\ \E f \in inbox[u] :
         /\ inbox'[u] = inbox[u] \ {f}
         /\ Answers(u, f) \/ pc'[u] = pc[u] \/ pc[u] = "cnfWait"
         /\ \/ answers' = answers
            \/ Answers(u, f) /\ answers' = [answers EXCEPT ![u] = @ \cup {<<current[u], f.msg>>}]

\* a step of a wait takes one frame, and ends a call only with a reply,
LEMMA StepWaits ==
    ASSUME ScriptFits, NEW u \in Users,
           SendOnWait(u) \/ RecvOnWait(u) \/ userSendWaitRet(u) \/ userSendWaitCnf(u)
    PROVE  Waits(u)
<1>1. ASSUME NEW f \in inbox[u], RecvFrom(u, f), Wait(u), pc' = [pc EXCEPT ![u] = pc'[u]],
             From(u, f, Station) \/ pc' = pc \/ pc[u] = "cnfWait",
             \/ answers' = answers
             \/ From(u, f, Station)
                /\ answers' = [answers EXCEPT ![u] = @ \cup {<<current[u], f.msg>>}]
      PROVE  Waits(u)
  <2>1. inbox'[u] = inbox[u] \ {f} /\ \A v \in Users \ {u} : inbox'[v] = inbox[v]
    BY <1>1 DEF RecvFrom, ScriptFits
  <2>2. \A v \in Users \ {u} : pc'[v] = pc[v]
    <3>1. PICK x : pc' = [pc EXCEPT ![u] = x]
      BY <1>1
    <3>2. QED
      BY <3>1 DEF ScriptFits
  <2>3. UNCHANGED <<up, down, dups, userID, current>>
    BY <1>1 DEF Wait
  <2>4. From(u, f, Station) <=> Answers(u, f)
    BY DEF From, Answers, recv_dest_user, recv_src_user, IsAnswer
  <2>5. Only(u)
    BY <2>1, <2>2, <2>3 DEF Only
  <2>6. QED
    BY <1>1, <2>1, <2>3, <2>4, <2>5 DEF Waits
<1>2. UNCHANGED pc => pc' = [pc EXCEPT ![u] = pc'[u]]
  BY DEF ScriptFits
<1>3. \A at : Goto(u, at) => pc' = [pc EXCEPT ![u] = pc'[u]]
  BY DEF Goto, ScriptFits
<1>4. ASSUME NEW next, OnWait(u, next) PROVE Waits(u)
  <2>1. PICK f \in inbox[u] :
          /\ RecvFrom(u, f)
          /\ IF From(u, f, Station)
             THEN /\ Goto(u, next)
                  /\ answers' = [answers EXCEPT ![u] = @ \cup {<<current[u], f.msg>>}]
             ELSE Discard(u, f)
    BY <1>4 DEF OnWait
  <2>2. Wait(u)
    BY <1>4 DEF OnWait
  <2>3. QED
    BY <1>1, <1>2, <1>3, <2>1, <2>2 DEF Discard
<1>5. CASE userSendWaitRet(u)
  <2>1. PICK f \in inbox[u] :
          /\ RecvFrom(u, f)
          /\ IF From(u, f, Station) /\ f.data = Receipt
             THEN Goto(u, "cnfWait") /\ UNCHANGED answers
             ELSE Discard(u, f)
    BY <1>5 DEF userSendWaitRet
  <2>2. Wait(u)
    BY <1>5 DEF userSendWaitRet
  <2>3. QED
    BY <1>1, <1>2, <1>3, <2>1, <2>2 DEF Discard
<1>6. CASE userSendWaitCnf(u)
  <2>1. PICK f \in inbox[u] :
          /\ RecvFrom(u, f)
          /\ IF From(u, f, 2) /\ f.data = Confirm
             THEN Goto(u, "move") /\ UNCHANGED answers
             ELSE Discard(u, f)
    BY <1>6 DEF userSendWaitCnf
  <2>2. Wait(u) /\ pc[u] = "cnfWait"
    BY <1>6 DEF userSendWaitCnf
  <2>3. QED
    BY <1>1, <1>2, <1>3, <2>1, <2>2 DEF Discard
<1>7. QED
  BY <1>4, <1>5, <1>6 DEF SendOnWait, RecvOnWait

\* Client-recv takes a datagram, and may send a confirm.
Receives(u) ==
    /\ Only(u) /\ pc[u] = "recv" /\ UNCHANGED <<pc, current, answers>>
    /\ up' = up \/ \E f : up' = up \cup {f} /\ f.w0 = userID[u] /\ f.opt = ReplyOpt

\* and userRecv sends at most a confirm.
LEMMA StepReceives ==
    ASSUME ScriptFits, NEW u \in Users, userRecv(u)
    PROVE  Receives(u)
<1>1. PICK f \in inbox[u] : /\ RecvFrom(u, f)
                            /\ userRecvWait(u, f) \/ UNCHANGED up
  BY DEF userRecv
<1>2. /\ UNCHANGED <<down, dups, userID, pc, current, answers>> /\ pc[u] = "recv"
  BY DEF userRecv, clientVars
<1>3. inbox'[u] \subseteq inbox[u] /\ \A v \in Users \ {u} : inbox'[v] = inbox[v]
  BY <1>1 DEF RecvFrom, ScriptFits
<1>4. PICK m : m = UpFrame(stamp, userID[u], recv_src_user(f), frameNo[u], ReplyOpt,
                           ConfirmByte(f), f.msg)
  OBVIOUS
<1>5. m.w0 = userID[u] /\ m.opt = ReplyOpt
  BY <1>4 DEF UpFrame
<1>6. up' = up \/ up' = up \cup {m}
  BY <1>1, <1>4 DEF userRecvWait, SendTo, SocketError
<1>7. QED
  BY <1>2, <1>3, <1>5, <1>6 DEF Only, Receives

-----------------------------------------------------------------------------
(* Where the scripts are.                                                  *)

\* A call goes to its wait, or past it.
LEMMA CallFits ==
    ASSUME ScriptFits, NEW u \in Users, NEW f, NEW wait, NEW next, Call(u, f, wait, next),
           IF u \in Senders THEN {wait, next} \subseteq SenderPlaces
                            ELSE wait = "onWait" /\ next = "recv"
    PROVE  /\ inbox' = [v \in Users |-> inbox'[v]] /\ current' = [v \in Users |-> current'[v]]
           /\ pc' = [v \in Users |-> pc'[v]] /\ answers' = [v \in Users |-> answers'[v]]
           /\ \A v \in Users : IF v \in Senders THEN pc'[v] \in SenderPlaces
                                                ELSE pc'[v] \in {"on", "onWait", "recv"}
<1>1. UNCHANGED <<inbox, answers>>
  BY DEF Call
<1>2. \E at \in {wait, next} : pc' = [pc EXCEPT ![u] = at]
  BY DEF Call, Goto
<1>3. current' = current \/ current' = [current EXCEPT ![u] = stamp]
  BY DEF Call
<1>4. QED
  BY <1>1, <1>2, <1>3 DEF ScriptFits

\* The frames and places of the scripts keep their form.
LEMMA NextFits == ScriptFits /\ [Next]_vars => ScriptFits'
<1> SUFFICES ASSUME ScriptFits, [Next]_vars PROVE ScriptFits'
  OBVIOUS
<1> DEFINE PlacesFit ==
             /\ inbox' = [v \in Users |-> inbox'[v]] /\ current' = [v \in Users |-> current'[v]]
             /\ pc' = [v \in Users |-> pc'[v]] /\ answers' = [v \in Users |-> answers'[v]]
             /\ \A v \in Users : IF v \in Senders THEN pc'[v] \in SenderPlaces
                                                  ELSE pc'[v] \in {"on", "onWait", "recv"}
<1>1. ASSUME NEW u \in Users, Script(u) PROVE PlacesFit
  <2>1. CASE SendUserOn(u)
    BY <2>1, CallFits DEF SendUserOn, SenderPlaces, Unsent, StationWaits
  <2>2. CASE RecvUserOn(u)
    BY <2>2, CallFits DEF RecvUserOn
  <2>3. CASE userMove(u)
    <3>1. u \in Senders
      BY <2>3 DEF userMove, ScriptFits
    <3>2. QED
      BY <2>3, <3>1, CallFits DEF userMove, SenderPlaces, Unsent, StationWaits
  <2>4. CASE userSend(u)
    <3>1. u \in Senders
      BY <2>4 DEF userSend, ScriptFits
    <3>2. QED
      BY <2>4, <3>1, CallFits DEF userSend, SenderPlaces, Unsent, StationWaits
  <2>5. CASE userRecv(u)
    <3>1. UNCHANGED <<pc, current, answers>> /\ \E f : RecvFrom(u, f)
      BY <2>5 DEF userRecv, clientVars
    <3>2. QED
      BY <3>1 DEF RecvFrom, ScriptFits
  <2>6. ASSUME \E f : RecvFrom(u, f), current' = current,
               answers' = answers \/ \E a : answers' = [answers EXCEPT ![u] = a],
               \/ pc' = pc
               \/ \E at : /\ pc' = [pc EXCEPT ![u] = at]
                          /\ IF u \in Senders THEN at \in SenderPlaces ELSE at = "recv"
        PROVE  PlacesFit
    <3>1. inbox' = [v \in Users |-> inbox'[v]]
      BY <2>6 DEF RecvFrom, ScriptFits
    <3>2. answers' = [v \in Users |-> answers'[v]] /\ current' = [v \in Users |-> current'[v]]
      BY <2>6 DEF ScriptFits
    <3>3. QED
      BY <2>6, <3>1, <3>2 DEF ScriptFits
  <2>7. CASE SendOnWait(u)
    <3>1. u \in Senders /\ (OnWait(u, "move") \/ OnWait(u, "send"))
      BY <2>7 DEF SendOnWait
    <3>2. QED
      BY <2>6, <3>1 DEF OnWait, Goto, Discard, Wait, SenderPlaces, Unsent
  <2>8. CASE RecvOnWait(u)
    BY <2>6, <2>8 DEF RecvOnWait, OnWait, Goto, Discard, Wait
  <2>9. CASE userSendWaitRet(u)
    <3>1. u \in Senders
      BY <2>9 DEF userSendWaitRet, ScriptFits
    <3>2. QED
      BY <2>6, <2>9, <3>1 DEF userSendWaitRet, Goto, Discard, Wait, SenderPlaces
  <2>10. CASE userSendWaitCnf(u)
    <3>1. u \in Senders
      BY <2>10 DEF userSendWaitCnf, ScriptFits
    <3>2. QED
      BY <2>6, <2>10, <3>1 DEF userSendWaitCnf, Goto, Discard, Wait, SenderPlaces, Unsent
  <2>11. QED
    BY <1>1, <2>1, <2>2, <2>3, <2>4, <2>5, <2>7, <2>8, <2>9, <2>10 DEF Script
<1>2. ASSUME StationOn \/ Delivery PROVE PlacesFit
  <2>1. UNCHANGED <<pc, current, answers>>
    BY <1>2 DEF StationOn, Delivery, clientVars, historyVars
  <2>2. inbox' = [v \in Users |-> inbox'[v]]
    BY <1>2 DEF StationOn, Delivery, ChannelStep, StationStep, StationMessage, StationConfirm,
       StationMove, Forward, Duplicate, ScriptFits
  <2>3. /\ pc' = [v \in Users |-> pc'[v]] /\ current' = [v \in Users |-> current'[v]]
        /\ answers' = [v \in Users |-> answers'[v]]
    BY <2>1 DEF ScriptFits
  <2>4. QED
    BY <2>1, <2>2, <2>3 DEF ScriptFits
<1>3. ASSUME UNCHANGED vars PROVE PlacesFit
  <2>1. pc' = pc /\ current' = current /\ answers' = answers /\ inbox' = inbox
    BY <1>3 DEF vars, channelVars, clientVars, historyVars
  <2>2. /\ pc' = [v \in Users |-> pc'[v]] /\ current' = [v \in Users |-> current'[v]]
        /\ answers' = [v \in Users |-> answers'[v]] /\ inbox' = [v \in Users |-> inbox'[v]]
    BY <2>1 DEF ScriptFits
  <2>3. QED
    BY <2>1, <2>2 DEF ScriptFits
<1>4. PlacesFit
  BY <1>1, <1>2, <1>3 DEF Next, ScriptFits
<1>5. dups' \in Nat /\ dups <= dups' /\ userID' = userID
  <2>1. ASSUME NEW u \in Users, Script(u) PROVE dups' = dups /\ userID' = userID
    BY <2>1, StepBegins, StepWaits, StepReceives DEF Script, Begins, Waits, Receives, Only
  <2>2. CASE StationOn \/ Delivery
    BY <2>2 DEF StationOn, Delivery, ChannelStep, StationStep, StationMessage, StationConfirm,
       StationMove, Forward, Duplicate, ScriptFits, clientVars
  <2>3. QED
    BY <2>1, <2>2 DEF Next, ScriptFits, vars, channelVars, clientVars
<1>6. ASSUME Configured', dups' = 0, NEW f \in up' PROVE f.w0 # Station
  <2>1. Configured /\ dups = 0
    BY <1>5, <1>6 DEF Configured, ScriptFits
  <2>2. ASSUME NEW u \in Users, Script(u) PROVE f \in up \/ f.w0 = userID[u]
    BY <1>6, <2>1, <2>2, StepBegins, StepWaits, StepReceives DEF Script, Begins, Waits, Receives
  <2>3. ASSUME StationOn \/ Delivery PROVE f \in up
    <3>1. ~Duplicate
      BY <1>6, <2>1 DEF Duplicate
    <3>2. up' \subseteq up
      BY <2>3, <3>1 DEF StationOn, Delivery, ChannelStep, StationStep, StationMessage,
         StationConfirm, StationMove, Uplink, Forward
    <3>3. QED
      BY <1>6, <3>2
  <2>4. f \in up \/ \E u \in Users : f.w0 = userID[u]
    <3>1. UNCHANGED vars => f \in up
      BY <1>6 DEF vars, channelVars
    <3>2. QED
      BY <1>6, <2>2, <2>3, <3>1 DEF Next
  <2>5. QED
    BY <2>1, <2>4, Numbers DEF ScriptFits
<1>7. QED
  BY <1>4, <1>5, <1>6 DEF ScriptFits

-----------------------------------------------------------------------------
(* Replies in flight.                                                      *)

\* Nothing is in flight for a program that waits for no reply of the station.
LEMMA NothingInFlight ==
    ASSUME NEW u \in Users, TokensOf(u), pc[u] \notin StationWaits
    PROVE  \A p, f : ~Token(u, p, f)
  BY DEF TokensOf

\* What u sends is no token of another program.
LEMMA OthersTokens ==
    ASSUME Configured, NEW u \in Users, Only(u), NEW v \in Users \ {u}, TokensOf(v),
           \A f \in up' : f \in up \/ f.w0 = userID[u]
    PROVE  TokensOf(v)'
<1>1. /\ pc'[v] = pc[v] /\ current'[v] = current[v] /\ inbox'[v] = inbox[v]
      /\ down' = down /\ userID' = userID /\ userID[u] # userID[v]
  BY DEF Only, Configured
<1>2. \A p, f : Token(v, p, f)' => Token(v, p, f)
  BY <1>1 DEF Token, Asks, Answers
<1>3. QED
  BY <1>1, <1>2 DEF TokensOf

\* A call begins with nothing in flight.
LEMMA BeginsTokens ==
    ASSUME Configured, NEW u \in Users, NEW m, Begins(u, m), TokensOf(u)
    PROVE  TokensOf(u)'
<1>1. \A p, f : ~Token(u, p, f)
  BY NothingInFlight DEF Begins, Unsent, StationWaits
<1>2. \A p, f : Token(u, p, f)' => p = "up" /\ f = m /\ up' # up
  BY <1>1 DEF Token, Asks, Answers, Begins, Only
<1>3. up' # up => pc'[u] \in StationWaits /\ current'[u] = m.msg
  BY DEF Begins
<1>4. QED
  BY <1>2, <1>3 DEF TokensOf

\* The reply that ends a wait was the only one.
LEMMA WaitsTokens ==
    ASSUME NEW u \in Users, Waits(u), TokensOf(u)
    PROVE  TokensOf(u)'
<1>1. PICK f \in inbox[u] : /\ inbox'[u] = inbox[u] \ {f}
                            /\ Answers(u, f) \/ pc'[u] = pc[u] \/ pc[u] = "cnfWait"
  BY DEF Waits
<1>2. UNCHANGED <<up, down, userID, current>>
  BY DEF Waits, Only
<1>3. \A p, g : Token(u, p, g)' => Token(u, p, g)
  BY <1>1, <1>2 DEF Token, Asks, Answers
<1>4. CASE Answers(u, f)
  <2>1. Token(u, "inbox", f)
    BY <1>4 DEF Token
  <2>2. \A p, g : Token(u, p, g) => p = "inbox" /\ g = f
    BY <2>1 DEF TokensOf
  <2>3. \A p, g : ~Token(u, p, g)'
    BY <1>1, <1>3, <2>2 DEF Token
  <2>4. QED
    BY <2>3 DEF TokensOf
<1>5. CASE pc'[u] = pc[u]
  BY <1>2, <1>3, <1>5 DEF TokensOf
<1>6. CASE pc[u] = "cnfWait"
  <2>1. \A p, g : ~Token(u, p, g)'
    BY <1>3, <1>6, NothingInFlight DEF StationWaits
  <2>2. QED
    BY <2>1 DEF TokensOf
<1>7. QED
  BY <1>1, <1>4, <1>5, <1>6

\* A confirm asks the station for nothing.
LEMMA ReceivesTokens ==
    ASSUME NEW u \in Users, Receives(u), TokensOf(u)
    PROVE  TokensOf(u)'
<1>1. \A p, f : ~Token(u, p, f)
  BY NothingInFlight DEF Receives, StationWaits
<1>2. \A p, f : ~Token(u, p, f)'
  BY <1>1 DEF Receives, Only, Token, Asks, Answers
<1>3. QED
  BY <1>2 DEF TokensOf

\* A frame f gives way to frames of which at most x is a token, and only if f was.
LEMMA TokenPassed ==
    ASSUME NEW u \in Users, TokensOf(u), NEW from, NEW to, from # to, NEW f, NEW x,
           Token(u, to, x)' => Token(u, from, f) /\ x.msg = f.msg,
           ~Token(u, from, f)',
           \A p, g : Token(u, p, g)' => Token(u, p, g) \/ (p = to /\ g = x),
           pc' = pc, current' = current
    PROVE  TokensOf(u)'
<1>1. CASE ~Token(u, to, x)'
  <2>1. \A p, g : Token(u, p, g)' => Token(u, p, g)
    BY <1>1
  <2>2. QED
    BY <2>1 DEF TokensOf
<1>2. CASE Token(u, to, x)'
  <2>1. Token(u, from, f) /\ x.msg = f.msg
    BY <1>2
  <2>2. \A p, g : Token(u, p, g) => p = from /\ g = f
    BY <2>1 DEF TokensOf
  <2>3. \A p, g : Token(u, p, g)' => p = to /\ g = x
    BY <2>2
  <2>4. pc[u] \in StationWaits /\ f.msg = current[u]
    BY <2>1 DEF TokensOf
  <2>5. pc'[u] \in StationWaits /\ x.msg = current'[u]
    BY <2>1, <2>4
  <2>6. QED
    BY <2>3, <2>5 DEF TokensOf
<1>3. QED
  BY <1>1, <1>2

\* Of the frames that the station sends for f, at most x is a reply of its own.
Passes(f, x) ==
    /\ up' = up \ {f} /\ UNCHANGED <<inbox, userID, pc, current>>
    /\ \A y \in down' : y \in down \/ y = x \/ y.opt # ReplyOpt
    /\ x.opt = ReplyOpt /\ x.w1 = Station => x.w0 = f.w0 /\ f.opt # ReplyOpt /\ x.msg = f.msg

\* Each step of the station takes a frame and passes on what it is about.
LEMMA StationPasses ==
    ASSUME ScriptFits, Configured, dups = 0,
           StationOn \/ (StationStep /\ UNCHANGED <<clientVars, historyVars>>)
    PROVE  \E f \in up : \E x : Passes(f, x)
<1>1. CASE StationOn
  <2>1. PICK f \in up, result \in {OnOk, OnFailed} :
          /\ Uplink(f) /\ f.opt = OnOpt
          /\ down' = down \cup {DownFrame(stamp, send_src_user(f), Station,
                                          ReplyFrame(f), ReplyOpt, result, f.msg)}
          /\ UNCHANGED <<inbox, clientVars>>
    BY <1>1 DEF StationOn
  <2>2. PICK x : x = DownFrame(stamp, f.w0, Station, ReplyFrame(f), ReplyOpt, result, f.msg)
    OBVIOUS
  <2>3. x.w0 = f.w0 /\ x.msg = f.msg
    BY <2>2 DEF DownFrame
  <2>4. Passes(f, x)
    BY <2>1, <2>2, <2>3, OptionsDiffer DEF Passes, Uplink, send_src_user, clientVars
  <2>5. QED
    BY <2>4
<1>2. CASE StationStep /\ UNCHANGED <<clientVars, historyVars>>
  <2>1. PICK f \in up : StationMessage(f) \/ StationConfirm(f) \/ StationMove(f)
    BY <1>2 DEF StationStep
  <2>2. UNCHANGED <<userID, pc, current>>
    BY <1>2 DEF clientVars
  <2>3. CASE StationMove(f)
    <3>1. PICK result :
            down' = down \cup {DownFrame(stamp, f.w0, Station, ReplyFrame(f), ReplyOpt,
                                         result, f.msg)}
      BY <2>3 DEF StationMove, send_src_user
    <3>2. PICK x : x = DownFrame(stamp, f.w0, Station, ReplyFrame(f), ReplyOpt, result, f.msg)
      OBVIOUS
    <3>3. x.w0 = f.w0 /\ x.msg = f.msg
      BY <3>2 DEF DownFrame
    <3>4. f.opt = MoveOpt /\ up' = up \ {f} /\ inbox' = inbox
      BY <2>3 DEF StationMove, Uplink
    <3>5. Passes(f, x)
      BY <2>2, <3>1, <3>2, <3>3, <3>4, OptionsDiffer DEF Passes
    <3>6. QED
      BY <3>5
  <2>4. CASE StationConfirm(f)
    <3>1. PICK x : x = DownFrame(stamp, f.w1, f.w0, f.frame, f.opt, f.data, f.msg)
      OBVIOUS
    <3>2. x.w1 = f.w0 /\ f.w0 # Station
      BY <3>1 DEF DownFrame, ScriptFits
    <3>3. /\ up' = up \ {f} /\ inbox' = inbox /\ down' = down \cup {x}
      BY <2>4, <3>1 DEF StationConfirm, Uplink, send_dest_user, send_src_user
    <3>4. Passes(f, x)
      BY <2>2, <3>2, <3>3 DEF Passes
    <3>5. QED
      BY <3>4
  <2>5. CASE StationMessage(f)
    <3> DEFINE relay(n) == DownFrame(n, f.w1, f.w0, f.frame, f.opt, f.data, f.msg)
               receipt(n) == DownFrame(n, f.w0, Station, ReplyFrame(f), ReplyOpt, Receipt, f.msg)
    <3>1. /\ f.opt \in MessageOpts /\ up' = up \ {f} /\ inbox' = inbox
          /\ \/ down' = down \cup {relay(stamp)}
             \/ down' = down \cup {relay(stamp), receipt(stamp + 1)}
             \/ down' = down \cup {receipt(stamp), relay(stamp + 1)}
      BY <2>5 DEF StationMessage, Uplink, send_dest_user, send_src_user
    <3>2. \A n : relay(n).opt # ReplyOpt /\ receipt(n).w0 = f.w0 /\ receipt(n).msg = f.msg
      BY <3>1, OptionsDiffer DEF DownFrame
    <3> HIDE DEF relay, receipt
    <3>3. PICK n : \A y \in down' : y \in down \/ y = receipt(n) \/ y.opt # ReplyOpt
      BY <3>1, <3>2
    <3>4. Passes(f, receipt(n))
      BY <2>2, <3>1, <3>2, <3>3, OptionsDiffer DEF Passes
    <3>5. QED
      BY <3>4
  <2>6. QED
    BY <2>1, <2>3, <2>4, <2>5
<1>3. QED
  BY <1>1, <1>2

\* Whatever brings a program a reply afterwards did so before.
LEMMA StationTokens ==
    ASSUME NEW f \in up, NEW x, Passes(f, x), NEW u \in Users, TokensOf(u)
    PROVE  TokensOf(u)'
<1>1. Token(u, "down", x)' => Token(u, "up", f) /\ x.msg = f.msg
  BY DEF Passes, Token, Asks, Answers
<1>2. ~Token(u, "up", f)'
  BY DEF Passes, Token
<1>3. \A p, g : Token(u, p, g)' => Token(u, p, g) \/ (p = "down" /\ g = x)
  BY DEF Passes, Token, Asks, Answers
<1>4. PICK from, to : from = "up" /\ to = "down"
  OBVIOUS
<1>5. QED
  BY <1>1, <1>2, <1>3, <1>4, TokenPassed DEF Passes

\* The broadcast moves tokens and makes no new one.
LEMMA ForwardTokens ==
    ASSUME Forward, UNCHANGED clientVars, NEW u \in Users, TokensOf(u)
    PROVE  TokensOf(u)'
<1>1. PICK f \in down, miss \in SUBSET Users :
        /\ down' = down \ {f} /\ up' = up
        /\ inbox' = [v \in Users |-> IF v \in miss THEN inbox[v] ELSE inbox[v] \cup {f}]
  BY DEF Forward
<1>2. inbox'[u] \subseteq inbox[u] \cup {f} /\ UNCHANGED <<userID, pc, current>>
  BY <1>1 DEF clientVars
<1>3. Token(u, "inbox", f)' => Token(u, "down", f)
  BY <1>2 DEF Token, Answers
<1>4. ~Token(u, "down", f)'
  BY <1>1 DEF Token
<1>5. \A p, g : Token(u, p, g)' => Token(u, p, g) \/ (p = "inbox" /\ g = f)
  BY <1>1, <1>2 DEF Token, Asks, Answers
<1>6. PICK from, to : from = "down" /\ to = "inbox"
  OBVIOUS
<1>7. QED
  BY <1>2, <1>3, <1>4, <1>5, <1>6, TokenPassed

\* Every step keeps the invariant.
LEMMA NextTokens == ScriptInv /\ [Next]_vars => ScriptInv'
<1> SUFFICES ASSUME ScriptInv, [Next]_vars PROVE ScriptInv'
  OBVIOUS
<1>1. ScriptFits /\ ScriptFits'
  BY NextFits DEF ScriptInv
<1>2. SUFFICES ASSUME Configured', dups' = 0, NEW v \in Users PROVE TokensOf(v)'
  BY <1>1 DEF ScriptInv
<1>3. ASSUME NEW u \in Users, Script(u) PROVE TokensOf(v)'
  <2>1. Only(u) /\ \A f \in up' : f \in up \/ f.w0 = userID[u] \/ ~Configured
    BY <1>1, <1>3, StepBegins, StepWaits, StepReceives DEF Script, Begins, Waits, Receives
  <2>2. Configured /\ dups = 0 /\ TokensOf(v)
    BY <1>2, <2>1 DEF Only, Configured, ScriptInv
  <2>3. CASE v # u
    BY <2>1, <2>2, <2>3, OthersTokens
  <2>4. CASE v = u
    BY <1>1, <1>3, <2>2, <2>4, StepBegins, StepWaits, StepReceives, BeginsTokens, WaitsTokens,
       ReceivesTokens DEF Script
  <2>5. QED
    BY <2>3, <2>4
<1>4. CASE StationOn \/ (StationStep /\ UNCHANGED <<clientVars, historyVars>>)
  <2>1. UNCHANGED <<userID, dups>>
    BY <1>4 DEF StationOn, StationStep, StationMessage, StationConfirm, StationMove, clientVars
  <2>2. Configured /\ dups = 0 /\ TokensOf(v)
    BY <1>2, <2>1 DEF Configured, ScriptInv
  <2>3. QED
    BY <1>1, <1>4, <2>2, StationPasses, StationTokens
<1>5. CASE (Forward \/ Duplicate) /\ UNCHANGED <<clientVars, historyVars>>
  <2>1. Forward /\ UNCHANGED <<userID, dups>>
    BY <1>1, <1>2, <1>5 DEF Forward, Duplicate, clientVars, ScriptFits
  <2>2. Configured /\ dups = 0 /\ TokensOf(v)
    BY <1>2, <2>1 DEF Configured, ScriptInv
  <2>3. QED
    BY <1>5, <2>1, <2>2, ForwardTokens
<1>6. CASE UNCHANGED vars
  <2>1. UNCHANGED <<up, down, inbox, dups, userID, pc, current>>
    BY <1>6 DEF vars, channelVars, clientVars
  <2>2. Configured /\ dups = 0 /\ TokensOf(v)
    BY <1>2, <2>1 DEF Configured, ScriptInv
  <2>3. \A p, f : Token(v, p, f)' <=> Token(v, p, f)
    BY <2>1 DEF Token, Asks, Answers
  <2>4. QED
    BY <2>1, <2>2, <2>3 DEF TokensOf
<1>7. QED
  BY <1>3, <1>4, <1>5, <1>6 DEF Next, Delivery, ChannelStep

\* A reply in flight is the one that its program waits for, always.
THEOREM ScriptsCorrect == Spec => []ScriptInv
<1>1. Init => ScriptInv
  <2> SUFFICES ASSUME Init PROVE ScriptInv
    OBVIOUS
  <2>1. ScriptFits
    BY DEF Init, ChannelInit, ScriptFits, SenderPlaces, Unsent
  <2>2. \A u \in Users : TokensOf(u)
    BY DEF Init, ChannelInit, TokensOf, Token
  <2>3. QED
    BY <2>1, <2>2 DEF ScriptInv
<1>2. QED
  BY <1>1, NextTokens, PTL DEF Spec

\* The wait of userOnWait, which takes any reply of the station and compares no frame
\* number, ends with the answer to its own report: whatever is lost or fails, if the
\* numbers in config.ini are right and nothing is duplicated.
THEOREM AnswersOwn == Spec => []AnswerIsOwn
<1>1. Init => AnswerIsOwn
  BY DEF Init, AnswerIsOwn
<1>2. ScriptInv /\ AnswerIsOwn /\ [Next]_vars => AnswerIsOwn'
  <2> SUFFICES ASSUME ScriptInv, AnswerIsOwn, [Next]_vars, Configured', dups' = 0,
                      NEW v \in Users, NEW a \in answers'[v]
               PROVE  a[1] = a[2]
    BY DEF AnswerIsOwn
  <2>1. ScriptFits /\ ScriptFits'
    BY NextFits DEF ScriptInv
  <2>2. ASSUME NEW u \in Users, Script(u) PROVE a[1] = a[2]
    <3>1. Only(u)
      BY <2>1, <2>2, StepBegins, StepWaits, StepReceives DEF Script, Begins, Waits, Receives
    <3>2. Configured /\ dups = 0
      BY <3>1 DEF Only, Configured
    <3>3. \A b \in answers[v] : b[1] = b[2]
      BY <3>2 DEF AnswerIsOwn
    <3>4. CASE answers' = answers
      BY <3>3, <3>4
    <3>5. CASE answers' # answers
      <4>1. PICK f \in inbox[u] :
              /\ Answers(u, f)
              /\ answers' = [answers EXCEPT ![u] = @ \cup {<<current[u], f.msg>>}]
        BY <2>1, <2>2, <3>5, StepBegins, StepWaits, StepReceives DEF Script, Begins, Waits,
           Receives
      <4>2. f.msg = current[u]
        <5>1. Token(u, "inbox", f) /\ TokensOf(u)
          BY <3>2, <4>1 DEF Token, ScriptInv
        <5>2. QED
          BY <5>1 DEF TokensOf
      <4>3. a \in answers[v] \/ a = <<current[u], f.msg>>
        BY <2>1, <4>1 DEF ScriptFits
      <4>4. QED
        BY <3>3, <4>2, <4>3
    <3>6. QED
      BY <3>4, <3>5
  <2>3. ASSUME StationOn \/ Delivery \/ UNCHANGED vars PROVE a[1] = a[2]
    <3>1. answers' = answers /\ userID' = userID
      BY <2>3 DEF StationOn, Delivery, vars, clientVars, historyVars
    <3>2. dups = 0
      <4>1. dups' = dups \/ (Duplicate /\ dups \in Nat)
        BY <2>1, <2>3 DEF StationOn, Delivery, ChannelStep, StationStep, StationMessage,
           StationConfirm, StationMove, Forward, vars, channelVars, ScriptFits
      <4>2. QED
        BY <4>1 DEF Duplicate
    <3>3. QED
      BY <3>1, <3>2 DEF AnswerIsOwn, Configured
  <2>4. QED
    BY <2>2, <2>3 DEF Next
<1>3. QED
  BY <1>1, <1>2, ScriptsCorrect, PTL DEF Spec
=============================================================================
