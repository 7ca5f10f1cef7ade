-------------------------- MODULE ClientGuiProofs ---------------------------
(***************************************************************************)
(* Theorems about ClientGui for every set of users, every nesting depth    *)
(* and every number of clicks and failures.                                *)
(*                                                                         *)
(* SlotRestored is not inductive.  That recvMessage is connected again     *)
(* when the last call returns needs: a call connects it when it returns,   *)
(* unless it is a userOn that has not disconnected it.  That a wait of     *)
(* userSend is private needs: whatever lies below it on the stack is in an *)
(* event loop, and its own event loop does not run.                        *)
(***************************************************************************)
EXTENDS ClientGui, SequenceTheorems, FiniteSetTheorems, TLAPS

\* Places in which a call runs the event loop, so that another may begin.
EventPlaces == {"onEvents", "testEvents"}

\* A call has these fields, and is in no place that looks like the outermost event loop.
IsCall(c) ==
    /\ c = [at |-> c.at, id |-> c.id, isCnf |-> c.isCnf, msg |-> c.msg,
            frame |-> c.frame, got |-> c.got]
    /\ c.at # "loop"

Elements(s) == {s[k] : k \in 1 .. Len(s)}

\* A stack is a sequence of calls, and all but the innermost run an event loop.
Shape(s) ==
    /\ s \in Seq(Elements(s))
    /\ \A k \in 1 .. Len(s) : IsCall(s[k])
    /\ \A k \in 2 .. Len(s) : s[k].at \in EventPlaces

\* No call has disconnected the slot.
OnlyOnEvents(s) == \A k \in 1 .. Len(s) : s[k].at = "onEvents"

Waiting(s) == s # <<>> /\ Head(s).at \in {"retWait", "cnfWait"}

UserInv(s, n, c) ==
    /\ Shape(s) /\ n \in Nat /\ c \in Nat
    /\ OnlyOnEvents(s) => n >= 1
    /\ Waiting(s) => n = 0 /\ c = 0

IInv ==
    /\ stack = [u \in Users |-> stack[u]]
    /\ slots = [u \in Users |-> slots[u]]
    /\ calls = [u \in Users |-> calls[u]]
    /\ \A u \in Users : UserInv(stack[u], slots[u], calls[u])

\* d is the call c in another place, with that message and that frame.
GoesOn(d, c, at, msg, got) ==
    /\ IsCall(d) /\ d.at = at /\ d.msg = msg /\ d.got = got
    /\ d.id = c.id /\ d.isCnf = c.isCnf

\* A call that goes on keeps what is not assigned.
LEMMA CallFields ==
    ASSUME NEW c, IsCall(c), NEW at, at # "loop", NEW x
    PROVE  /\ GoesOn([c EXCEPT !.at = at], c, at, c.msg, c.got)
           /\ GoesOn([c EXCEPT !.at = at, !.msg = x], c, at, x, c.got)
           /\ GoesOn([c EXCEPT !.at = at, !.got = x], c, at, c.msg, x)
<1>1. PICK a, i, n, m, f, g :
        c = [at |-> a, id |-> i, isCnf |-> n, msg |-> m, frame |-> f, got |-> g]
  BY DEF IsCall
<1>2. /\ c.at = a /\ c.id = i /\ c.isCnf = n /\ c.msg = m /\ c.frame = f /\ c.got = g
  BY <1>1
<1>3. PICK d : d = [c EXCEPT !.at = at]
  OBVIOUS
<1>4. d = [at |-> at, id |-> i, isCnf |-> n, msg |-> m, frame |-> f, got |-> g]
  BY <1>1, <1>3
<1>5. /\ [d EXCEPT !.msg = x] = [at |-> at, id |-> i, isCnf |-> n, msg |-> x,
                                 frame |-> f, got |-> g]
      /\ [d EXCEPT !.got = x] = [at |-> at, id |-> i, isCnf |-> n, msg |-> m,
                                 frame |-> f, got |-> x]
  BY <1>4
<1>6. /\ [c EXCEPT !.at = at, !.msg = x] = [d EXCEPT !.msg = x]
      /\ [c EXCEPT !.at = at, !.got = x] = [d EXCEPT !.got = x]
  BY <1>3
<1>7. \A mm, gg : GoesOn([at |-> at, id |-> i, isCnf |-> n, msg |-> mm, frame |-> f, got |-> gg],
                         c, at, mm, gg)
  BY <1>2 DEF GoesOn, IsCall
<1>8. GoesOn(d, c, at, c.msg, c.got)
  BY <1>2, <1>4, <1>7
<1>9. GoesOn([d EXCEPT !.msg = x], c, at, x, c.got)
  BY <1>2, <1>5, <1>7
<1>10. GoesOn([d EXCEPT !.got = x], c, at, c.msg, x)
  BY <1>2, <1>5, <1>7
<1>11. QED
  BY <1>3, <1>6, <1>8, <1>9, <1>10

-----------------------------------------------------------------------------
(* Stacks.                                                                 *)

\* A sequence over any set is one over its elements.
LEMMA OwnElements ==
    ASSUME NEW S, NEW s \in Seq(S)
    PROVE  s \in Seq(Elements(s)) /\ Len(s) \in Nat
  BY LenProperties DEF Elements

\* What is below the innermost call is a stack of calls that run event loops.
LEMMA TailShape ==
    ASSUME NEW s, Shape(s), s # <<>>
    PROVE  /\ Shape(Tail(s))
           /\ \A k \in 1 .. Len(Tail(s)) : Tail(s)[k].at \in EventPlaces
           /\ IsCall(Head(s)) /\ Head(s) = s[1] /\ Len(s) \in Nat \ {0}
           /\ Len(Tail(s)) = Len(s) - 1
           /\ \A k \in 2 .. Len(s) : s[k] = Tail(s)[k - 1]
<1>1. /\ Tail(s) \in Seq(Elements(s)) /\ Len(Tail(s)) = Len(s) - 1
      /\ \A k \in 1 .. Len(Tail(s)) : Tail(s)[k] = s[k + 1]
  BY HeadTailProperties DEF Shape
<1>2. Len(s) \in Nat \ {0}
  BY EmptySeq DEF Shape
<1>3. Head(s) = s[1]
  BY DEF Shape
<1>4. Tail(s) \in Seq(Elements(Tail(s)))
  BY <1>1, OwnElements
<1>5. \A k \in 1 .. Len(Tail(s)) : k + 1 \in 2 .. Len(s)
  BY <1>1, <1>2
<1>6. \A k \in 1 .. Len(Tail(s)) :
        Tail(s)[k].at \in EventPlaces /\ IsCall(Tail(s)[k])
  BY <1>1, <1>2, <1>5 DEF Shape
<1>7. Shape(Tail(s))
  BY <1>1, <1>2, <1>4, <1>6 DEF Shape
<1>8. \A k \in 2 .. Len(s) : s[k] = Tail(s)[k - 1]
  <2>1. TAKE k \in 2 .. Len(s)
  <2>2. k - 1 \in 1 .. Len(Tail(s)) /\ (k - 1) + 1 = k
    BY <1>1, <1>2
  <2>3. QED
    BY <1>1, <2>2
<1>9. QED
  BY <1>1, <1>2, <1>3, <1>6, <1>7, <1>8 DEF Shape

\* A call may be put on top of calls that run event loops.
LEMMA PushShape ==
    ASSUME NEW s, Shape(s), \A k \in 1 .. Len(s) : s[k].at \in EventPlaces,
           NEW c, IsCall(c)
    PROVE  /\ Shape(<<c>> \o s) /\ <<c>> \o s # <<>>
           /\ Head(<<c>> \o s) = c /\ (<<c>> \o s)[1] = c
           /\ Len(<<c>> \o s) = Len(s) + 1 /\ Len(s) \in Nat
           /\ \A k \in 1 .. Len(s) : (<<c>> \o s)[k + 1] = s[k]
<1> DEFINE T == Elements(s) \cup {c}
           r == <<c>> \o s
<1>1. s \in Seq(T) /\ <<c>> \in Seq(T) /\ Len(s) \in Nat
  BY SeqMonotonic, LenProperties DEF Shape
<1>2. /\ r \in Seq(T) /\ Len(r) = Len(s) + 1
      /\ \A k \in 1 .. Len(s) + 1 : r[k] = IF k = 1 THEN c ELSE s[k - 1]
  <2>1. Len(<<c>>) = 1 /\ <<c>>[1] = c
    OBVIOUS
  <2>2. QED
    BY <1>1, <2>1, ConcatProperties
<1>3. r # <<>> /\ Head(r) = r[1] /\ r[1] = c
  BY <1>1, <1>2, EmptySeq
<1>4. \A k \in 1 .. Len(s) : r[k + 1] = s[k]
  BY <1>1, <1>2
<1>5. r \in Seq(Elements(r))
  BY <1>2, OwnElements
<1>6. \A k \in 1 .. Len(r) : IsCall(r[k])
  BY <1>1, <1>2 DEF Shape
<1>7. \A k \in 2 .. Len(r) : r[k].at \in EventPlaces
  BY <1>1, <1>2
<1>8. QED
  BY <1>1, <1>2, <1>3, <1>4, <1>5, <1>6, <1>7 DEF Shape

\* In an event loop, the outermost or a nested one, every call runs one.
LEMMA AllInEvents ==
    ASSUME NEW s, Shape(s), s = <<>> \/ Head(s).at \in EventPlaces
    PROVE  \A k \in 1 .. Len(s) : s[k].at \in EventPlaces
<1>1. CASE s = <<>>
  BY <1>1
<1>2. CASE s # <<>>
  BY <1>2, TailShape DEF Shape
<1>3. QED
  BY <1>1, <1>2

-----------------------------------------------------------------------------
(* What a call does to the invariant of its client.                        *)

\* The innermost call goes on, past the place where userOn has just begun.
LEMMA BecomeInv ==
    ASSUME NEW s, NEW n, NEW c, UserInv(s, n, c), s # <<>>,
           NEW call, IsCall(call), call.at # "onEvents",
           NEW m \in Nat, NEW d \in Nat,
           call.at \in {"retWait", "cnfWait"} => m = 0 /\ d = 0
    PROVE  UserInv(<<call>> \o Tail(s), m, d)
<1> DEFINE r == <<call>> \o Tail(s)
<1>1. /\ Shape(Tail(s))
      /\ \A k \in 1 .. Len(Tail(s)) : Tail(s)[k].at \in EventPlaces
  BY TailShape DEF UserInv
<1>2. /\ Shape(r) /\ Head(r) = call /\ r[1] = call
      /\ Len(r) = Len(Tail(s)) + 1 /\ Len(Tail(s)) \in Nat
  BY <1>1, PushShape
<1>3. ~OnlyOnEvents(r)
  <2>1. 1 \in 1 .. Len(r)
    BY <1>2
  <2>2. QED
    BY <1>2, <2>1 DEF OnlyOnEvents
<1>4. QED
  BY <1>2, <1>3 DEF UserInv, Waiting

\* The innermost call returns: it has connected the slot, or it was a userOn
\* that has not disconnected it.
LEMMA ReturnInv ==
    ASSUME NEW s, NEW n, NEW c, UserInv(s, n, c), s # <<>>,
           NEW m \in Nat, NEW d \in Nat,
           m >= 1 \/ (m = n /\ Head(s).at = "onEvents")
    PROVE  UserInv(Tail(s), m, d)
<1>1. /\ Shape(s) /\ Shape(Tail(s)) /\ Head(s) = s[1] /\ Len(s) \in Nat \ {0}
      /\ \A k \in 1 .. Len(Tail(s)) : Tail(s)[k].at \in EventPlaces
      /\ Len(Tail(s)) = Len(s) - 1
      /\ \A k \in 2 .. Len(s) : s[k] = Tail(s)[k - 1]
  BY TailShape DEF UserInv
<1>2. ~Waiting(Tail(s))
  <2>1. CASE Tail(s) = <<>>
    BY <2>1 DEF Waiting
  <2>2. CASE Tail(s) # <<>>
    <3>1. Head(Tail(s)) = Tail(s)[1] /\ 1 \in 1 .. Len(Tail(s))
      BY <1>1, <2>2, TailShape
    <3>2. QED
      BY <1>1, <3>1 DEF Waiting, EventPlaces
  <2>3. QED
    BY <2>1, <2>2
<1>3. ASSUME OnlyOnEvents(Tail(s)), Head(s).at = "onEvents"
      PROVE  OnlyOnEvents(s)
  <2>1. SUFFICES ASSUME NEW k \in 1 .. Len(s)
                 PROVE  s[k].at = "onEvents"
    BY DEF OnlyOnEvents
  <2>2. CASE k = 1
    BY <1>1, <1>3, <2>2
  <2>3. CASE k # 1
    <3>1. k \in 2 .. Len(s) /\ k - 1 \in 1 .. Len(Tail(s))
      BY <1>1, <2>3
    <3>2. QED
      BY <1>1, <1>3, <3>1 DEF OnlyOnEvents
  <2>4. QED
    BY <2>2, <2>3
<1>4. OnlyOnEvents(Tail(s)) => m >= 1
  BY <1>3 DEF UserInv
<1>5. QED
  BY <1>1, <1>2, <1>4 DEF UserInv

\* A call begins in an event loop: userOn changes no connection, and a wait of
\* userSend begins with none.
LEMMA PushInv ==
    ASSUME NEW s, NEW n, NEW c, UserInv(s, n, c),
           s = <<>> \/ Head(s).at \in EventPlaces,
           NEW call, IsCall(call), NEW m \in Nat, NEW d \in Nat,
           call.at = "onEvents" => m = n,
           call.at \in {"retWait", "cnfWait"} => m = 0 /\ d = 0
    PROVE  UserInv(<<call>> \o s, m, d)
<1> DEFINE r == <<call>> \o s
<1>1. /\ Shape(r) /\ Head(r) = call /\ r[1] = call
      /\ Len(r) = Len(s) + 1 /\ Len(s) \in Nat
      /\ \A k \in 1 .. Len(s) : r[k + 1] = s[k]
  BY AllInEvents, PushShape DEF UserInv
<1>2. ASSUME OnlyOnEvents(r)
      PROVE  call.at = "onEvents" /\ OnlyOnEvents(s)
  <2>1. 1 \in 1 .. Len(r) /\ \A k \in 1 .. Len(s) : k + 1 \in 1 .. Len(r)
    BY <1>1
  <2>2. QED
    BY <1>1, <1>2, <2>1 DEF OnlyOnEvents
<1>3. QED
  BY <1>1, <1>2 DEF UserInv, Waiting

\* A client that is not in a wait of userSend: its slots may grow, and the signal
\* may have any number of connections to call.
LEMMA KeepInv ==
    ASSUME NEW s, NEW n, NEW c, UserInv(s, n, c), ~Waiting(s),
           NEW m \in Nat, NEW d \in Nat, m >= 1 \/ m = n
    PROVE  UserInv(s, m, d)
  BY DEF UserInv

\* A step that changes one client keeps the invariant if that client's part holds.
LEMMA LocalStep ==
    ASSUME IInv, NEW u \in Users, NEW st, NEW sl, NEW ca,
           stack' = [stack EXCEPT ![u] = st],
           slots' = [slots EXCEPT ![u] = sl],
           calls' = [calls EXCEPT ![u] = ca],
           UserInv(st, sl, ca)
    PROVE  IInv'
<1>1. /\ stack' = [v \in Users |-> IF v = u THEN st ELSE stack[v]]
      /\ slots' = [v \in Users |-> IF v = u THEN sl ELSE slots[v]]
      /\ calls' = [v \in Users |-> IF v = u THEN ca ELSE calls[v]]
  BY DEF IInv
<1>2. \A v \in Users : UserInv(stack'[v], slots'[v], calls'[v])
  BY <1>1 DEF IInv
<1>3. /\ stack' = [v \in Users |-> stack'[v]]
      /\ slots' = [v \in Users |-> slots'[v]]
      /\ calls' = [v \in Users |-> calls'[v]]
  BY <1>1
<1>4. QED
  BY <1>2, <1>3 DEF IInv

\* Nothing changes for a client whose variables are assigned what they hold.
LEMMA Same ==
    ASSUME IInv, NEW u \in Users
    PROVE  /\ stack = [stack EXCEPT ![u] = stack[u]]
           /\ slots = [slots EXCEPT ![u] = slots[u]]
           /\ calls = [calls EXCEPT ![u] = calls[u]]
           /\ UserInv(stack[u], slots[u], calls[u])
           /\ slots[u] \in Nat /\ calls[u] \in Nat
  BY DEF IInv, UserInv

-----------------------------------------------------------------------------
(* Every action keeps the invariant.                                       *)

\* Where At says that a client is in a call, there is one.
LEMMA TopOfStack ==
    ASSUME NEW u \in Users, At(u) # "loop"
    PROVE  stack[u] # <<>> /\ Top(u) = Head(stack[u]) /\ Top(u).at = At(u)
  BY DEF At, Top

\* A client in an event loop is not in a wait, and its innermost call runs one.
LEMMA EventLoop ==
    ASSUME IInv, NEW u \in Users, InEvents(u)
    PROVE  /\ stack[u] = <<>> \/ Head(stack[u]).at \in EventPlaces
           /\ ~Waiting(stack[u])
<1>1. CASE stack[u] = <<>>
  BY <1>1 DEF Waiting
<1>2. CASE stack[u] # <<>>
  <2>1. At(u) = Head(stack[u]).at
    BY <1>2 DEF At
  <2>2. At(u) \in EventPlaces
    <3>1. At(u) # "loop"
      BY <1>2, <2>1, TailShape DEF IInv, UserInv, IsCall
    <3>2. QED
      BY <3>1 DEF InEvents, EventPlaces
  <2>3. QED
    BY <2>1, <2>2 DEF Waiting, EventPlaces
<1>3. QED
  BY <1>1, <1>2

\* The innermost call goes on in a place that is not a wait of userSend.
LEMMA BecomeStep ==
    ASSUME IInv, NEW u \in Users, stack[u] # <<>>,
           NEW call, Become(u, call), IsCall(call),
           call.at \in {"onWait", "onRead", "testEvents"},
           NEW m \in Nat, slots' = [slots EXCEPT ![u] = m],
           NEW d \in Nat, calls' = [calls EXCEPT ![u] = d]
    PROVE  IInv'
<1>1. stack' = [stack EXCEPT ![u] = <<call>> \o Tail(stack[u])]
  BY DEF Become
<1>2. UserInv(<<call>> \o Tail(stack[u]), m, d)
  BY Same, BecomeInv
<1>3. QED
  BY <1>1, <1>2, LocalStep

\* The innermost call returns with the slot connected.
LEMMA ReturnStep ==
    ASSUME IInv, NEW u \in Users, stack[u] # <<>>, Return(u), UNCHANGED calls,
           slots' = [slots EXCEPT ![u] = Connected(@)]
    PROVE  IInv'
<1>1. /\ stack' = [stack EXCEPT ![u] = Tail(stack[u])]
      /\ slots' = [slots EXCEPT ![u] = slots[u] + 1]
      /\ calls' = [calls EXCEPT ![u] = calls[u]]
  BY Same DEF Return, Connected
<1>2. slots[u] + 1 \in Nat /\ slots[u] + 1 >= 1
  BY Same
<1>3. UserInv(Tail(stack[u]), slots[u] + 1, calls[u])
  BY <1>2, Same, ReturnInv
<1>4. QED
  <2> DEFINE st == Tail(stack[u])
             sl == slots[u] + 1
  <2>1. UserInv(st, sl, calls[u]) /\ stack' = [stack EXCEPT ![u] = st]
        /\ slots' = [slots EXCEPT ![u] = sl]
    BY <1>1, <1>3
  <2> HIDE DEF st, sl
  <2>2. QED
    BY <1>1, <2>1, LocalStep

\* The initial state: no calls, and the slot connected once.
LEMMA InitInv == Init => IInv
<1>1. Shape(<<>>) /\ OnlyOnEvents(<<>>) /\ ~Waiting(<<>>)
  BY EmptySeq DEF Shape, OnlyOnEvents, Waiting
<1>2. UserInv(<<>>, 1, 0)
  BY <1>1 DEF UserInv
<1>3. QED
  BY <1>2 DEF Init, IInv

\* readyRead is emitted in an event loop only.
LEMMA ReadyReadInv ==
    ASSUME IInv, NEW u \in Users, ReadyRead(u)
    PROVE  IInv'
<1>1. /\ stack' = [stack EXCEPT ![u] = stack[u]]
      /\ slots' = [slots EXCEPT ![u] = slots[u]]
      /\ calls' = [calls EXCEPT ![u] = slots[u]]
  BY Same DEF ReadyRead, Emit
<1>2. UserInv(stack[u], slots[u], slots[u])
  BY Same, EventLoop, KeepInv DEF ReadyRead
<1>3. QED
  BY <1>1, <1>2, LocalStep

\* recvMessage runs only while the signal has connections to call, so in no wait
\* of userSend.
LEMMA RecvMessageInv ==
    ASSUME IInv, NEW u \in Users, recvMessage(u)
    PROVE  IInv'
<1>1. /\ stack' = [stack EXCEPT ![u] = stack[u]]
      /\ slots' = [slots EXCEPT ![u] = slots[u]]
      /\ calls' = [calls EXCEPT ![u] = calls[u] - 1] /\ calls[u] > 0
  BY Same DEF recvMessage
<1>2. calls[u] - 1 \in Nat /\ ~Waiting(stack[u])
  BY <1>1, Same DEF UserInv
<1>3. UserInv(stack[u], slots[u], calls[u] - 1)
  BY <1>2, Same, KeepInv
<1>4. QED
  BY <1>1, <1>3, LocalStep

\* The click on the button of userOn puts a call on an event loop.
LEMMA MoveClickedInv ==
    ASSUME IInv, NEW u \in Users, on_pushButton_move_clicked(u)
    PROVE  IInv'
<1> DEFINE call == [at |-> "onEvents", id |-> 0, isCnf |-> FALSE, msg |-> 0,
                    frame |-> frameNo[u], got |-> NoFrame]
<1>1. /\ stack' = [stack EXCEPT ![u] = <<call>> \o stack[u]]
      /\ slots' = [slots EXCEPT ![u] = slots[u]]
      /\ calls' = [calls EXCEPT ![u] = calls[u]]
  BY Same DEF on_pushButton_move_clicked, Push
<1>2. IsCall(call) /\ call.at = "onEvents"
  BY DEF IsCall
<1>3. InEvents(u)
  BY DEF on_pushButton_move_clicked, Click
<1>4. UserInv(<<call>> \o stack[u], slots[u], calls[u])
  <2> HIDE DEF call
  <2> QED
    BY <1>2, <1>3, Same, EventLoop, PushInv
<1>5. QED
  BY <1>1, <1>4, LocalStep

\* The click on the button of userSend begins a wait with no connection left, or
\* leaves one connection, or fails before it has touched any.
LEMMA SendClickedInv ==
    ASSUME IInv, NEW u \in Users, on_pushButton_send_clicked(u)
    PROVE  IInv'
<1>1. /\ calls' = [calls EXCEPT ![u] = 0] /\ calls[u] = 0 /\ InEvents(u)
      /\ UNCHANGED calls
  BY Same DEF on_pushButton_send_clicked, Click, InEvents
<1>2. PICK id \in Addressees, radio \in RadioButtons : userSend(u, radio[1], radio[2], id)
  BY DEF on_pushButton_send_clicked
<1> DEFINE call == [at |-> "retWait", id |-> id, isCnf |-> radio[2],
                    msg |-> stamp, frame |-> frameNo[u], got |-> NoFrame]
<1>3. CASE Push(u, call) /\ slots' = [slots EXCEPT ![u] = Disconnected(@)]
  <2>1. /\ stack' = [stack EXCEPT ![u] = <<call>> \o stack[u]]
        /\ slots' = [slots EXCEPT ![u] = 0]
    BY <1>3 DEF Push, Disconnected
  <2>2. IsCall(call) /\ call.at = "retWait"
    BY DEF IsCall
  <2> HIDE DEF call
  <2>3. UserInv(<<call>> \o stack[u], 0, 0)
    BY <2>2, <1>1, Same, EventLoop, PushInv
  <2>4. QED
    <3> DEFINE st == <<call>> \o stack[u]
    <3>1. UserInv(st, 0, 0) /\ stack' = [stack EXCEPT ![u] = st]
      BY <2>1, <2>3
    <3> HIDE DEF st
    <3>2. QED
      BY <2>1, <3>1, <1>1, LocalStep
<1>4. CASE slots' = [slots EXCEPT ![u] = Connected(Disconnected(@))] /\ UNCHANGED stack
  <2>1. /\ stack' = [stack EXCEPT ![u] = stack[u]]
        /\ slots' = [slots EXCEPT ![u] = 1]
    BY <1>4, Same DEF Connected, Disconnected
  <2>2. UserInv(stack[u], 1, 0)
    BY <1>1, Same, EventLoop, KeepInv
  <2>3. QED
    BY <2>1, <2>2, <1>1, LocalStep
<1>5. CASE UNCHANGED <<stack, slots>>
  BY <1>1, <1>5 DEF IInv
<1>6. QED
  BY <1>2, <1>3, <1>4, <1>5 DEF userSend

\* userOn disconnects the slot and waits, or returns without having touched it.
LEMMA UserOnInv ==
    ASSUME IInv, NEW u \in Users, userOn(u)
    PROVE  IInv'
<1>1. /\ stack[u] # <<>> /\ Head(stack[u]).at = "onEvents" /\ UNCHANGED calls
      /\ calls' = [calls EXCEPT ![u] = calls[u]] /\ IsCall(Top(u))
  BY Same, TopOfStack, TailShape DEF userOn, UserInv
<1>2. CASE /\ Become(u, [Top(u) EXCEPT !.at = "onWait", !.msg = stamp])
           /\ slots' = [slots EXCEPT ![u] = Disconnected(@)]
  <2> DEFINE call == [Top(u) EXCEPT !.at = "onWait", !.msg = stamp]
  <2>0. GoesOn(call, Top(u), "onWait", stamp, Top(u).got)
    BY <1>1, CallFields
  <2>1. IsCall(call) /\ call.at = "onWait" /\ Become(u, call)
    BY <1>2, <2>0 DEF GoesOn
  <2>2. slots' = [slots EXCEPT ![u] = 0] /\ calls[u] \in Nat
    BY <1>2, Same DEF Disconnected
  <2> HIDE DEF call
  <2>3. QED
    BY <1>1, <2>1, <2>2, BecomeStep
<1>3. CASE Return(u) /\ UNCHANGED slots
  <2>1. /\ stack' = [stack EXCEPT ![u] = Tail(stack[u])]
        /\ slots' = [slots EXCEPT ![u] = slots[u]]
    BY <1>3, Same DEF Return
  <2>2. UserInv(Tail(stack[u]), slots[u], calls[u])
    BY <1>1, Same, ReturnInv
  <2>3. QED
    BY <1>1, <2>1, <2>2, LocalStep
<1>4. QED
  BY <1>2, <1>3 DEF userOn

\* waitForReadyRead emits the signal, and userOnWait reads.
LEMMA UserOnWaitInv ==
    ASSUME IInv, NEW u \in Users, userOnWait(u)
    PROVE  IInv'
<1>1. /\ stack[u] # <<>> /\ IsCall(Top(u))
      /\ slots' = [slots EXCEPT ![u] = slots[u]] /\ slots[u] \in Nat
  BY Same, TopOfStack, TailShape DEF userOnWait, UserInv
<1>2. PICK d \in Nat : calls' = [calls EXCEPT ![u] = d]
  BY Same DEF userOnWait, Emit
<1> DEFINE call == [Top(u) EXCEPT !.at = "onRead"]
<1>3. IsCall(call) /\ call.at = "onRead" /\ Become(u, call)
  BY <1>1 DEF IsCall, userOnWait, Goto
<1> HIDE DEF call
<1>4. QED
  BY <1>1, <1>2, <1>3, BecomeStep

\* userOnWait goes back to wait, or on to test what it has read.
LEMMA OnReadInv ==
    ASSUME IInv, NEW u \in Users, OnRead(u)
    PROVE  IInv'
<1>1. /\ stack[u] # <<>> /\ IsCall(Top(u))
      /\ slots' = [slots EXCEPT ![u] = slots[u]] /\ slots[u] \in Nat
      /\ calls' = [calls EXCEPT ![u] = calls[u]] /\ calls[u] \in Nat
  <2>1. At(u) = "onRead" /\ UNCHANGED <<slots, calls>>
    BY DEF OnRead
  <2>2. QED
    BY <2>1, Same, TopOfStack, TailShape DEF UserInv
<1>2. CASE Goto(u, "onWait")
  <2> DEFINE call == [Top(u) EXCEPT !.at = "onWait"]
  <2>1. IsCall(call) /\ call.at = "onWait" /\ Become(u, call)
    BY <1>1, <1>2 DEF IsCall, Goto
  <2> HIDE DEF call
  <2>2. QED
    BY <1>1, <2>1, BecomeStep
<1>3. ASSUME NEW f, Become(u, [Top(u) EXCEPT !.at = "testEvents", !.got = f])
      PROVE  IInv'
  <2> DEFINE call == [Top(u) EXCEPT !.at = "testEvents", !.got = f]
  <2>0. GoesOn(call, Top(u), "testEvents", Top(u).msg, f)
    BY <1>1, CallFields
  <2>1. IsCall(call) /\ call.at = "testEvents" /\ Become(u, call)
    BY <1>3, <2>0 DEF GoesOn
  <2> HIDE DEF call
  <2>2. QED
    BY <1>1, <2>1, BecomeStep
<1>4. QED
  BY <1>2, <1>3 DEF OnRead

\* The answer of the station ends userOnWait, which connects the slot.
LEMMA OnTestInv ==
    ASSUME IInv, NEW u \in Users, OnTest(u)
    PROVE  IInv'
<1>1. /\ stack[u] # <<>> /\ IsCall(Top(u)) /\ UNCHANGED calls
      /\ calls' = [calls EXCEPT ![u] = calls[u]] /\ calls[u] \in Nat
  BY Same, TopOfStack, TailShape DEF OnTest, UserInv
<1>2. CASE Return(u) /\ slots' = [slots EXCEPT ![u] = Connected(@)]
  BY <1>1, <1>2, ReturnStep
<1>3. CASE Goto(u, "onWait") /\ UNCHANGED slots
  <2> DEFINE call == [Top(u) EXCEPT !.at = "onWait"]
  <2>1. IsCall(call) /\ call.at = "onWait" /\ Become(u, call)
    BY <1>1, <1>3 DEF IsCall, Goto
  <2>2. slots' = [slots EXCEPT ![u] = slots[u]] /\ slots[u] \in Nat
    BY <1>3, Same
  <2> HIDE DEF call
  <2>3. QED
    BY <1>1, <2>1, <2>2, BecomeStep
<1>4. QED
  BY <1>2, <1>3 DEF OnTest

\* The last answer of userSend ends it, which connects the slot.
LEMMA EndSendInv ==
    ASSUME IInv, NEW u \in Users, stack[u] # <<>>, EndSend(u), UNCHANGED calls
    PROVE  IInv'
  BY ReturnStep DEF EndSend

\* The receipt ends userSend, or lets it wait for the confirm, as privately.
LEMMA SendWaitRetInv ==
    ASSUME IInv, NEW u \in Users, userSendWaitRet(u)
    PROVE  IInv'
<1>1. stack[u] # <<>> /\ IsCall(Top(u)) /\ Waiting(stack[u]) /\ UNCHANGED calls
  BY Same, TopOfStack, TailShape DEF userSendWaitRet, UserInv, Waiting
<1>2. CASE EndSend(u)
  BY <1>1, <1>2, EndSendInv
<1>3. CASE UNCHANGED <<stack, slots>>
  BY <1>1, <1>3 DEF IInv
<1>4. CASE Goto(u, "cnfWait") /\ UNCHANGED slots
  <2> DEFINE call == [Top(u) EXCEPT !.at = "cnfWait"]
             st == <<call>> \o Tail(stack[u])
  <2>1. IsCall(call) /\ call.at = "cnfWait" /\ stack' = [stack EXCEPT ![u] = st]
    BY <1>1, <1>4 DEF IsCall, Goto, Become
  <2>2. /\ slots' = [slots EXCEPT ![u] = 0] /\ calls' = [calls EXCEPT ![u] = 0]
        /\ slots[u] = 0 /\ calls[u] = 0
    BY <1>1, <1>4, Same DEF UserInv
  <2> HIDE DEF call
  <2>3. UserInv(st, 0, 0)
    BY <1>1, <2>1, Same, BecomeInv
  <2> HIDE DEF st
  <2>4. QED
    BY <2>1, <2>2, <2>3, LocalStep
<1>5. QED
  BY <1>2, <1>3, <1>4 DEF userSendWaitRet

\* The confirm ends userSend.
LEMMA SendWaitCnfInv ==
    ASSUME IInv, NEW u \in Users, userSendWaitCnf(u)
    PROVE  IInv'
<1>1. stack[u] # <<>> /\ UNCHANGED calls
  BY TopOfStack DEF userSendWaitCnf
<1>2. CASE EndSend(u)
  BY <1>1, <1>2, EndSendInv
<1>3. CASE UNCHANGED <<stack, slots>>
  BY <1>1, <1>3 DEF IInv
<1>4. QED
  BY <1>2, <1>3 DEF userSendWaitCnf

\* Every step keeps the invariant.
LEMMA NextInv == IInv /\ [Next]_vars => IInv'
<1> SUFFICES ASSUME IInv, [Next]_vars
             PROVE  IInv'
  OBVIOUS
<1>1. ASSUME NEW u \in Users, Thread(u)
      PROVE  IInv'
  BY <1>1, ReadyReadInv, RecvMessageInv, UserOnInv, UserOnWaitInv, OnReadInv,
     OnTestInv, SendWaitRetInv, SendWaitCnfInv DEF Thread
<1>2. ASSUME NEW u \in Users,
             on_pushButton_move_clicked(u) \/ on_pushButton_send_clicked(u)
      PROVE  IInv'
  BY <1>2, MoveClickedInv, SendClickedInv
<1>3. CASE UNCHANGED clientVars
  BY <1>3 DEF IInv, clientVars
<1>4. StationOn \/ Delivery \/ UNCHANGED vars => UNCHANGED clientVars
  BY DEF StationOn, Delivery, vars
<1>5. QED
  BY <1>1, <1>2, <1>3, <1>4 DEF Next

\* Stacks, connections and the signal belong together as IInv says, always.
THEOREM StacksCorrect == Spec => []IInv
<1>1. Init => IInv
  BY InitInv
<1>2. IInv /\ [Next]_vars => IInv'
  BY NextInv
<1>3. QED
  BY <1>1, <1>2, PTL DEF Spec

\* However calls were nested and whatever has failed: when the last of them has
\* returned, recvMessage is connected to readyRead (userOn, userOnWait, userSend).
THEOREM SlotAlwaysRestored == Spec => []SlotRestored
<1>1. IInv => SlotRestored
  BY DEF IInv, UserInv, OnlyOnEvents, SlotRestored
<1>2. QED
  BY <1>1, StacksCorrect, PTL

\* In a wait of userSend no connection is left, also when calls nested in each
\* other have connected the slot several times.
THEOREM WaitsPrivate == Spec => []WaitIsPrivate
<1>1. IInv => WaitIsPrivate
  <2>1. SUFFICES ASSUME IInv, NEW u \in Users, At(u) \in {"retWait", "cnfWait"}
                 PROVE  slots[u] = 0 /\ calls[u] = 0
    BY DEF WaitIsPrivate
  <2>2. Waiting(stack[u])
    BY <2>1, TopOfStack DEF Waiting
  <2>3. QED
    BY <2>1, <2>2, Same DEF UserInv
<1>2. QED
  BY <1>1, StacksCorrect, PTL

-----------------------------------------------------------------------------
(***************************************************************************)
(* What is in flight for a client of ClientGUI, and which of its calls     *)
(* waits for it, for every set of users and every number of clicks, nested *)
(* calls and failures.                                                     *)
(*                                                                         *)
(* A token for u is a frame that will bring u an answer, wherever it is:   *)
(*   "ret"  the receipt of a message, or the message on its way up         *)
(*   "cnf"  the confirm of a message, or the message on its way to whoever *)
(*          has to confirm it                                              *)
(*   "on"   the answer to a report, or the report                          *)
(* The client compares no frame numbers.  That an answer belongs to the    *)
(* call that takes it follows from this: as long as nothing is duplicated, *)
(* there is at most one token of a kind, and only while a call waits for   *)
(* it.  Of reports this is true until a click is handled inside a call.    *)
(***************************************************************************)

Kinds == {"ret", "cnf", "on"}

\* A frame on its way up that will bring u such an answer ...
Asks(u, kind, f) ==
    \/ kind = "ret" /\ f.w0 = u /\ f.opt \in MessageOpts \ {PlainOpt}
    \/ kind = "cnf" /\ ((f.w0 = u /\ f.opt = CnfOpt) \/ (f.w1 = u /\ f.opt = ReplyOpt))
    \/ kind = "on" /\ f.w0 = u /\ f.opt = OnOpt

\* ... and one on its way down.
Brings(u, kind, f) ==
    \/ kind = "ret" /\ f.w0 = u /\ f.w1 = Station /\ f.opt = ReplyOpt /\ f.data = Receipt
    \/ /\ kind = "cnf"
       /\ \/ f.w1 = u /\ f.opt = CnfOpt
          \/ f.w0 = u /\ f.w1 # Station /\ f.opt = ReplyOpt
    \/ kind = "on" /\ f.w0 = u /\ f.w1 = Station /\ f.opt = ReplyOpt /\ f.data # Receipt

\* Of the copies of a broadcast only the addressee's counts.
Token(u, kind, place, f) ==
    \/ place = "up" /\ f \in up /\ Asks(u, kind, f)
    \/ place = "down" /\ f \in down /\ Brings(u, kind, f)
    \/ place = "inbox" /\ f.w0 \in Users /\ f \in inbox[f.w0] /\ Brings(u, kind, f)

\* userOnWait has not read the answer yet.
OnWaiting(u) ==
    \/ At(u) \in {"onWait", "onRead"}
    \/ At(u) = "testEvents" /\ ~From(u, Top(u).got, Station)

\* The innermost call of u waits for an answer of that kind about that message.
Expects(u, kind, msg) ==
    \/ kind = "ret" /\ At(u) = "retWait" /\ msg = Top(u).msg
    \/ kind = "cnf" /\ At(u) \in {"retWait", "cnfWait"} /\ Top(u).isCnf /\ msg = Top(u).msg
    \/ kind = "on" /\ (nested[u] \/ (OnWaiting(u) /\ msg = Top(u).msg))

TokensOf(u, kind) ==
    /\ \A p, f : Token(u, kind, p, f) =>
           Expects(u, kind, f.msg) /\ (kind = "ret" /\ p # "up" => f.msg \in accepted)
    /\ \/ kind = "on" /\ nested[u]
       \/ \A p, q, f, g : Token(u, kind, p, f) /\ Token(u, kind, q, g) => p = q /\ f = g

\* A token must be there: when nothing has failed an answer that is waited for is
\* on its way.
Awaits(u, kind) ==
    \/ kind = "ret" /\ At(u) = "retWait"
    \/ kind = "on" /\ OnWaiting(u) /\ ~nested[u]

Owed(u, kind) == NoFaults /\ Awaits(u, kind) => \E p, f : Token(u, kind, p, f)

\* As long as no click of u was handled inside a call, there is at most one call,
\* and recvMessage is not connected while userOnWait runs.
Sequential(u) ==
    ~nested[u] => /\ stack[u] = <<>> \/ Tail(stack[u]) = <<>>
                  /\ At(u) \in {"onWait", "onRead", "testEvents"} => slots[u] = 0 /\ calls[u] = 0

NotEaten(u) == NoFaults /\ ~nested[u] => \A l \in lost[u] : l.by # "slot"

\* The station confirms nothing itself.
DownFits(f) ==
    /\ f.opt \in MessageOpts \cup {ReplyOpt}
    /\ f.opt = ReplyOpt /\ f.data = Confirm => f.w1 # Station

\* The frames that clients and the station send in this system.
FramesFit ==
    /\ inbox = [u \in Users |-> inbox[u]] /\ lost = [u \in Users |-> lost[u]]
    /\ nested \in [Users -> BOOLEAN]
    /\ faults \in Nat /\ dups \in Nat /\ dups <= MaxDups
    /\ dups = 0 =>
         /\ \A f \in up : f.w0 \in Users /\ f.opt \in MessageOpts \cup {ReplyOpt, OnOpt}
         /\ \A f \in down : DownFits(f)
         /\ \A u \in Users : \A f \in inbox[u] : DownFits(f)

Fine(u) ==
    /\ Sequential(u) /\ NotEaten(u)
    /\ dups = 0 => \A kind \in Kinds : TokensOf(u, kind) /\ Owed(u, kind)

FramesInv == IInv /\ FramesFit /\ \A u \in Users : Fine(u)

-----------------------------------------------------------------------------
(* What a step may do.                                                     *)

\* The option bytes, and the data bytes of replies, that the proofs tell apart.
LEMMA OptionsDiffer ==
    /\ ReplyOpt \notin MessageOpts /\ OnOpt \notin MessageOpts /\ OnOpt # ReplyOpt
    /\ MoveOpt \notin MessageOpts /\ MoveOpt # ReplyOpt /\ MoveOpt # OnOpt
    /\ {PlainOpt, RetOpt, CnfOpt} \subseteq MessageOpts
    /\ PlainOpt # RetOpt /\ PlainOpt # CnfOpt /\ RetOpt # CnfOpt
    /\ Receipt \notin {OnOk, OnFailed} /\ Confirm \notin {Receipt, OnOk, OnFailed}
    /\ Station \notin Users
  BY UsersAssumption DEF ReplyOpt, MessageOpts, OnOpt, MoveOpt, PlainOpt, RetOpt, Ret1Opt,
     CnfOpt, Receipt, Confirm, OnOk, OnFailed, Station

\* A step of client w, its clicks included.
Moves(w) ==
    Thread(w) \/ on_pushButton_move_clicked(w) \/ on_pushButton_send_clicked(w)

\* Such a step changes nothing of another client.
Only(w) ==
    /\ \A v \in Users \ {w} :
         /\ inbox'[v] = inbox[v] /\ stack'[v] = stack[v] /\ slots'[v] = slots[v]
         /\ calls'[v] = calls[v] /\ nested'[v] = nested[v] /\ lost'[v] = lost[v]
    /\ inbox'[w] \subseteq inbox[w]
    /\ UNCHANGED <<down, dups, accepted>>

\* A step of one client leaves what belongs to the others alone.
LEMMA MovesOnly ==
    ASSUME IInv, FramesFit, NEW w \in Users, Moves(w)
    PROVE  Only(w)
<1>1. CASE ReadyRead(w)
  BY <1>1 DEF ReadyRead, Emit, channelVars, historyVars, Only, IInv, FramesFit
<1>2. CASE recvMessage(w)
  BY <1>2 DEF recvMessage, userRecv, userRecvWait, RecvFrom, Lose, Only, IInv, FramesFit
<1>3. CASE userOn(w)
  BY <1>3 DEF userOn, Become, Return, Only, IInv, FramesFit
<1>4. CASE userOnWait(w)
  BY <1>4 DEF userOnWait, Emit, Goto, Become, channelVars, historyVars, Only, IInv, FramesFit
<1>5. CASE OnRead(w)
  <2>1. \E st : stack' = [stack EXCEPT ![w] = st]
    BY <1>5 DEF OnRead, Goto, Become
  <2>2. inbox' = inbox \/ \E f : inbox' = [inbox EXCEPT ![w] = @ \ {f}]
    BY <1>5 DEF OnRead, RecvFrom
  <2>3. lost' = lost \/ \E l : lost' = [lost EXCEPT ![w] = l]
    BY <1>5 DEF OnRead, Lose
  <2>4. UNCHANGED <<down, dups, accepted, slots, calls, nested>>
    BY <1>5 DEF OnRead
  <2>5. QED
    BY <2>1, <2>2, <2>3, <2>4 DEF Only, IInv, FramesFit
<1>6. CASE OnTest(w)
  BY <1>6 DEF OnTest, Goto, Become, Return, channelVars, historyVars, Only, IInv, FramesFit
<1>7. CASE userSendWaitRet(w)
  BY <1>7 DEF userSendWaitRet, EndSend, Goto, Become, Return, RecvFrom, Lose, Only, IInv, FramesFit
<1>8. CASE userSendWaitCnf(w)
  BY <1>8 DEF userSendWaitCnf, EndSend, Return, RecvFrom, Lose, Only, IInv, FramesFit
<1>9. CASE on_pushButton_move_clicked(w)
  BY <1>9 DEF on_pushButton_move_clicked, Click, Push, channelVars, Only, IInv, FramesFit
<1>10. CASE on_pushButton_send_clicked(w)
  BY <1>10 DEF on_pushButton_send_clicked, userSend, Click, Push, Only, IInv, FramesFit
<1>11. QED
  BY <1>1, <1>2, <1>3, <1>4, <1>5, <1>6, <1>7, <1>8, <1>9, <1>10 DEF Moves, Thread

\* What u has sent in a step: m, or nothing.
Adds(m) == up \subseteq up' /\ up' \subseteq up \cup {m}

\* The confirm of a message that w takes from its inbox ...
Confirms(w, m) ==
    /\ m.opt = ReplyOpt
    /\ \E f \in inbox[w] : /\ f.w0 = w /\ f.opt = CnfOpt /\ inbox'[w] = inbox[w] \ {f}
                           /\ m.w1 = f.w1 /\ m.msg = f.msg

\* ... and any frame that a step of w sends: a report, a message, or such a confirm.
SentBy(w, m) ==
    /\ m.w0 = w
    /\ m.opt \in MessageOpts \cup {OnOpt} \/ Confirms(w, m)

\* recvMessage sends at most a confirm of the message that it shows.
LEMMA ConfirmSent ==
    ASSUME FramesFit, NEW w \in Users, recvMessage(w)
    PROVE  up' = up \/ \E m : Adds(m) /\ m.w0 = w /\ Confirms(w, m)
<1>1. CASE up' # up
  <2>1. PICK f \in inbox[w] : RecvFrom(w, f) /\ userRecv(w, f)
    BY <1>1 DEF recvMessage, SocketError
  <2>2. PICK m : m = UpFrame(stamp, w, f.w1, frameNo[w], ReplyOpt, Confirm, f.msg)
    OBVIOUS
  <2>3. /\ f.w0 = w /\ f.opt = CnfOpt /\ up' = up \cup {m}
    BY <2>1, <2>2, <1>1 DEF userRecv, userRecvWait, recv_dest_user, recv_src_user, SendTo,
       SocketError
  <2>4. m.w0 = w /\ m.opt = ReplyOpt /\ m.w1 = f.w1 /\ m.msg = f.msg
    BY <2>2 DEF UpFrame
  <2>5. inbox'[w] = inbox[w] \ {f}
    BY <2>1 DEF RecvFrom, FramesFit
  <2>6. QED
    BY <2>3, <2>4, <2>5 DEF Adds, Confirms
<1>2. QED
  BY <1>1

\* What a step sends is a frame of the client that makes it.
LEMMA MovesSend ==
    ASSUME IInv, FramesFit, NEW w \in Users, Moves(w)
    PROVE  up' = up \/ \E m : Adds(m) /\ SentBy(w, m)
<1>1. CASE recvMessage(w)
  BY <1>1, ConfirmSent DEF SentBy
<1>2. CASE userOn(w)
  <2>1. PICK m : m = UpFrame(stamp, w, Station, Top(w).frame, OnOpt, OnOk, stamp)
    OBVIOUS
  <2>2. up' = up \/ up' = up \cup {m}
    BY <1>2, <2>1 DEF userOn, SendTo, SocketError
  <2>3. m.w0 = w /\ m.opt = OnOpt
    BY <2>1 DEF UpFrame
  <2>4. QED
    BY <2>2, <2>3 DEF Adds, SentBy
<1>3. CASE on_pushButton_send_clicked(w)
  <2>1. PICK id \in Addressees, radio \in RadioButtons : userSend(w, radio[1], radio[2], id)
    BY <1>3 DEF on_pushButton_send_clicked
  <2>2. PICK m : m = UpFrame(stamp, w, id, frameNo[w], SendOption(radio[1], radio[2]),
                             TextByte, stamp)
    OBVIOUS
  <2>3. up' = up \/ up' = up \cup {m}
    BY <2>1, <2>2 DEF userSend, SendTo, SocketError
  <2>4. m.w0 = w /\ m.opt \in MessageOpts
    BY <2>2, OptionsDiffer DEF UpFrame, SendOption
  <2>5. QED
    BY <2>3, <2>4 DEF Adds, SentBy
<1>4. CASE ReadyRead(w) \/ userOnWait(w) \/ OnTest(w) \/ on_pushButton_move_clicked(w)
  BY <1>4 DEF ReadyRead, userOnWait, OnTest, on_pushButton_move_clicked, channelVars
<1>5. CASE OnRead(w) \/ userSendWaitRet(w) \/ userSendWaitCnf(w)
  BY <1>5 DEF OnRead, userSendWaitRet, userSendWaitCnf, SocketError
<1>6. QED
  BY <1>1, <1>2, <1>3, <1>4, <1>5 DEF Moves, Thread

\* Failures and nested clicks are never forgotten.
Monotone ==
    /\ inbox' = [u \in Users |-> inbox'[u]] /\ lost' = [u \in Users |-> lost'[u]]
    /\ nested' \in [Users -> BOOLEAN] /\ \A u \in Users : nested[u] => nested'[u]
    /\ faults' \in Nat /\ faults <= faults'

\* Failures and nested calls are never taken back.
LEMMA MovesMonotone ==
    ASSUME FramesFit, NEW w \in Users, Moves(w)
    PROVE  Monotone
<1>1. CASE ReadyRead(w) \/ userOnWait(w) \/ OnTest(w)
  BY <1>1 DEF ReadyRead, userOnWait, OnTest, channelVars, historyVars, Monotone, FramesFit
<1>2. CASE on_pushButton_move_clicked(w)
  BY <1>2 DEF on_pushButton_move_clicked, Click, channelVars, Monotone, FramesFit
<1>3. CASE on_pushButton_send_clicked(w)
  <2>1. /\ UNCHANGED <<inbox, lost>> /\ faults' \in {faults, faults + 1}
        /\ nested' = [nested EXCEPT ![w] = @ \/ stack[w] # <<>>]
    BY <1>3 DEF on_pushButton_send_clicked, Click, userSend, SendTo, SocketError
  <2>2. QED
    BY <2>1 DEF Monotone, FramesFit
<1>4. CASE recvMessage(w)
  <2>1. nested' = nested /\ faults' \in {faults, faults + 1}
    BY <1>4 DEF recvMessage, userRecv, userRecvWait, SendTo, SocketError
  <2>2. inbox' = inbox \/ \E f : inbox' = [inbox EXCEPT ![w] = @ \ {f}]
    BY <1>4 DEF recvMessage, RecvFrom
  <2>3. lost' = lost \/ \E l : lost' = [lost EXCEPT ![w] = l]
    BY <1>4 DEF recvMessage, userRecv, Lose
  <2>4. QED
    BY <2>1, <2>2, <2>3 DEF Monotone, FramesFit
<1>5. CASE userOn(w)
  BY <1>5 DEF userOn, SendTo, SocketError, Monotone, FramesFit
<1>6. CASE OnRead(w) \/ userSendWaitRet(w) \/ userSendWaitCnf(w)
  <2>1. nested' = nested /\ faults' \in {faults, faults + 1}
    BY <1>6 DEF OnRead, userSendWaitRet, userSendWaitCnf, SocketError
  <2>2. inbox' = inbox \/ \E f : inbox' = [inbox EXCEPT ![w] = @ \ {f}]
    BY <1>6 DEF OnRead, userSendWaitRet, userSendWaitCnf, RecvFrom
  <2>3. lost' = lost \/ \E l : lost' = [lost EXCEPT ![w] = l]
    BY <1>6 DEF OnRead, userSendWaitRet, userSendWaitCnf, Lose
  <2>4. QED
    BY <2>1, <2>2, <2>3 DEF Monotone, FramesFit
<1>7. QED
  BY <1>1, <1>2, <1>3, <1>4, <1>5, <1>6 DEF Moves, Thread

\* The station answers frame f with g, and with another one that brings nobody
\* anything but a receipt; the frames fit this system.
LEMMA StationSends ==
    ASSUME FramesFit, dups = 0,
           StationOn \/ (StationStep /\ UNCHANGED <<clientVars, historyVars>>)
    PROVE  \E f \in up :
             /\ up' = up \ {f} /\ accepted \subseteq accepted'
             /\ UNCHANGED <<inbox, faults, dups, clientVars, historyVars>>
             /\ \/ \E g : /\ f.opt \in {OnOpt, ReplyOpt} /\ g.opt = ReplyOpt /\ g.msg = f.msg
                          /\ down' = down \cup {g}
                          /\ IF f.opt = OnOpt
                             THEN g.w0 = f.w0 /\ g.w1 = Station /\ g.data \notin {Receipt, Confirm}
                             ELSE g.w0 = f.w1 /\ g.w1 = f.w0
                \/ \E g, h : /\ f.opt \in MessageOpts /\ f.msg \in accepted'
                             /\ g.w1 = f.w0 /\ g.opt = f.opt /\ g.msg = f.msg
                             /\ h.w0 = f.w0 /\ h.w1 = Station /\ h.opt = ReplyOpt
                             /\ h.data = Receipt /\ h.msg = f.msg
                             /\ down' = IF f.opt = PlainOpt THEN down \cup {g}
                                                            ELSE down \cup {g, h}
<1>1. CASE StationOn
  <2>1. PICK f \in up, result \in {OnOk, OnFailed} :
          /\ Uplink(f) /\ f.opt = OnOpt
          /\ down' = down \cup {DownFrame(stamp, send_src_user(f), Station,
                                          ReplyFrame(f), ReplyOpt, result, f.msg)}
          /\ UNCHANGED <<inbox, faults, dups, accepted, clientVars, historyVars>>
    BY <1>1 DEF StationOn
  <2>2. PICK g : g = DownFrame(stamp, f.w0, Station, ReplyFrame(f), ReplyOpt, result, f.msg)
    OBVIOUS
  <2>3. /\ g.w0 = f.w0 /\ g.w1 = Station /\ g.opt = ReplyOpt /\ g.msg = f.msg
        /\ g.data \notin {Receipt, Confirm}
    BY <2>2, OptionsDiffer DEF DownFrame
  <2>4. up' = up \ {f} /\ down' = down \cup {g}
    BY <2>1, <2>2 DEF Uplink, send_src_user
  <2>5. QED
    BY <2>1, <2>3, <2>4
<1>2. CASE StationStep /\ UNCHANGED <<clientVars, historyVars>>
  <2>1. PICK f \in up : StationMessage(f) \/ StationConfirm(f) \/ StationMove(f)
    BY <1>2 DEF StationStep
  <2>2. f.w0 \in Users /\ f.opt \in MessageOpts \cup {ReplyOpt, OnOpt}
    BY DEF FramesFit
  <2>3. CASE StationMove(f)
    BY <2>2, <2>3, OptionsDiffer DEF StationMove
  <2>4. CASE StationConfirm(f)
    <3>1. PICK g : g = DownFrame(stamp, f.w1, f.w0, f.frame, f.opt, f.data, f.msg)
      OBVIOUS
    <3>2. g.w0 = f.w1 /\ g.w1 = f.w0 /\ g.opt = f.opt /\ g.msg = f.msg
      BY <3>1 DEF DownFrame
    <3>3. /\ f.opt = ReplyOpt /\ up' = up \ {f} /\ down' = down \cup {g}
          /\ UNCHANGED <<inbox, faults, dups, accepted>>
      BY <2>4, <3>1 DEF StationConfirm, Uplink, send_dest_user, send_src_user
    <3>4. QED
      BY <1>2, <3>2, <3>3, OptionsDiffer
  <2>5. CASE StationMessage(f)
    <3> DEFINE relay(n) == DownFrame(n, f.w1, f.w0, f.frame, f.opt, f.data, f.msg)
               receipt(n) == DownFrame(n, f.w0, Station, ReplyFrame(f), ReplyOpt, Receipt, f.msg)
    <3>1. /\ \A n : relay(n).w1 = f.w0 /\ relay(n).opt = f.opt /\ relay(n).msg = f.msg
          /\ \A n : /\ receipt(n).w0 = f.w0 /\ receipt(n).w1 = Station
                    /\ receipt(n).opt = ReplyOpt /\ receipt(n).data = Receipt
                    /\ receipt(n).msg = f.msg
      BY DEF DownFrame
    <3>2. /\ IF f.opt = PlainOpt THEN down' = down \cup {relay(stamp)}
             ELSE \/ down' = down \cup {relay(stamp), receipt(stamp + 1)}
                  \/ down' = down \cup {receipt(stamp), relay(stamp + 1)}
          /\ f.opt \in MessageOpts /\ up' = up \ {f} /\ accepted' = accepted \cup {f.msg}
          /\ UNCHANGED <<inbox, faults, dups>>
      BY <2>5 DEF StationMessage, Uplink, send_dest_user, send_src_user
    <3> HIDE DEF relay, receipt
    <3>3. PICK g, h :
            /\ g.w1 = f.w0 /\ g.opt = f.opt /\ g.msg = f.msg
            /\ h.w0 = f.w0 /\ h.w1 = Station /\ h.opt = ReplyOpt
            /\ h.data = Receipt /\ h.msg = f.msg
            /\ down' = IF f.opt = PlainOpt THEN down \cup {g} ELSE down \cup {g, h}
      <4>1. CASE f.opt = PlainOpt
        BY <3>1, <3>2, <4>1
      <4>2. CASE f.opt # PlainOpt /\ down' = down \cup {relay(stamp), receipt(stamp + 1)}
        BY <3>1, <4>2
      <4>3. CASE f.opt # PlainOpt /\ down' = down \cup {receipt(stamp), relay(stamp + 1)}
        <5>1. down' = down \cup {relay(stamp + 1), receipt(stamp)}
          BY <4>3
        <5>2. QED
          BY <3>1, <4>3, <5>1
      <4>4. QED
        BY <3>2, <4>1, <4>2, <4>3
    <3>4. QED
      BY <1>2, <3>2, <3>3
  <2>6. QED
    BY <2>1, <2>3, <2>4, <2>5
<1>3. QED
  BY <1>1, <1>2

\* The broadcast of a frame reaches everybody unless something is lost.
LEMMA ForwardSends ==
    ASSUME FramesFit, Forward
    PROVE  \E f \in down :
             /\ down' = down \ {f} /\ UNCHANGED <<up, dups, accepted>>
             /\ inbox' = [v \in Users |-> inbox'[v]]
             /\ \A v \in Users : inbox[v] \subseteq inbox'[v] /\ inbox'[v] \subseteq inbox[v] \cup {f}
             /\ faults' \in Nat /\ faults <= faults'
             /\ faults' = 0 => \A v \in Users : f \in inbox'[v]
<1>1. PICK f \in down, miss \in SUBSET Users :
        /\ down' = down \ {f} /\ faults' = faults + Cardinality(miss)
        /\ inbox' = [v \in Users |-> IF v \in miss THEN inbox[v]
                                                  ELSE inbox[v] \cup {f}]
        /\ UNCHANGED <<up, dups, accepted>>
  BY DEF Forward
<1>2. Cardinality(miss) \in Nat /\ (Cardinality(miss) = 0 => miss = {})
  BY UsersAssumption, FS_Subset, FS_CardinalityType, FS_EmptySet
<1>3. faults' \in Nat /\ faults <= faults' /\ (faults' = 0 => Cardinality(miss) = 0)
  BY <1>1, <1>2 DEF FramesFit
<1>4. QED
  BY <1>1, <1>2, <1>3

\* Every step keeps the frames of this system, and what has failed.
LEMMA NextFits ==
    ASSUME IInv, FramesFit, [Next]_vars
    PROVE  /\ FramesFit' /\ faults <= faults' /\ dups <= dups'
           /\ \A u \in Users : nested[u] => nested'[u]
<1>1. ASSUME NEW w \in Users, Moves(w)
      PROVE  /\ FramesFit' /\ faults <= faults' /\ dups <= dups'
             /\ \A u \in Users : nested[u] => nested'[u]
  <2>1. Only(w) /\ Monotone
    BY <1>1, MovesOnly, MovesMonotone
  <2>2. \A f \in up' : f \in up \/ (f.w0 \in Users /\ f.opt \in MessageOpts \cup {ReplyOpt, OnOpt})
    BY <1>1, MovesSend DEF Adds, SentBy, Confirms
  <2>3. down' = down /\ dups' = dups /\ \A v \in Users : inbox'[v] \subseteq inbox[v]
    BY <2>1 DEF Only
  <2>4. QED
    BY <2>1, <2>2, <2>3 DEF Monotone, FramesFit
<1>2. ASSUME StationOn \/ (StationStep /\ UNCHANGED <<clientVars, historyVars>>)
      PROVE  /\ FramesFit' /\ faults <= faults' /\ dups <= dups'
             /\ \A u \in Users : nested[u] => nested'[u]
  <2>1. UNCHANGED <<inbox, faults, dups, lost, nested>>
    BY <1>2 DEF StationOn, StationStep, StationMessage, StationConfirm, StationMove,
       clientVars, historyVars
  <2>2. ASSUME dups = 0
        PROVE  up' \subseteq up /\ \A f \in down' : f \in down \/ DownFits(f)
    <3>1. \A f \in up : f.w0 \in Users
      BY <2>2 DEF FramesFit
    <3>2. QED
      BY <1>2, <2>2, <3>1, StationSends, OptionsDiffer DEF DownFits
  <2>3. QED
    BY <2>1, <2>2 DEF FramesFit
<1>3. ASSUME Forward, UNCHANGED <<clientVars, historyVars>>
      PROVE  /\ FramesFit' /\ faults <= faults' /\ dups <= dups'
             /\ \A u \in Users : nested[u] => nested'[u]
  BY <1>3, ForwardSends DEF FramesFit, historyVars
<1>4. ASSUME Duplicate, UNCHANGED <<clientVars, historyVars>>
      PROVE  /\ FramesFit' /\ faults <= faults' /\ dups <= dups'
             /\ \A u \in Users : nested[u] => nested'[u]
  <2>1. /\ dups' = dups + 1 /\ dups' <= MaxDups /\ UNCHANGED <<faults, nested, lost>>
        /\ inbox' = inbox \/ \E u \in Users : \E g : inbox' = [inbox EXCEPT ![u] = @ \cup {g}]
    <3>1. dups' = dups + 1 /\ dups < MaxDups /\ UNCHANGED <<faults, nested, lost>>
      BY <1>4 DEF Duplicate, historyVars
    <3>2. inbox' = inbox \/ \E u \in Users : \E g : inbox' = [inbox EXCEPT ![u] = @ \cup {g}]
      BY <1>4 DEF Duplicate
    <3>3. dups \in Nat
      BY DEF FramesFit
    <3>4. dups' <= MaxDups
      BY ONLY <3>1, <3>3, ChannelAssumption DEF ChannelAssumption
    <3>5. QED
      BY <3>1, <3>2, <3>4
  <2>2. dups' \in Nat /\ dups' # 0
    BY <2>1 DEF FramesFit
  <2>3. QED
    BY <2>1, <2>2 DEF FramesFit
<1>5. CASE UNCHANGED vars
  BY <1>5 DEF vars, channelVars, historyVars, FramesFit
<1>6. QED
  BY <1>1, <1>2, <1>3, <1>4, <1>5 DEF Next, Moves, Delivery, ChannelStep

-----------------------------------------------------------------------------
(* What a step may do to the tokens of a client.                           *)

\* No token appears, and what was expected still is.
LEMMA TokensKept ==
    ASSUME NEW u \in Users, NEW kind, TokensOf(u, kind),
           \A p, f : Token(u, kind, p, f)' => Token(u, kind, p, f),
           \A m : Expects(u, kind, m) => Expects(u, kind, m)',
           accepted \subseteq accepted', nested[u] => nested'[u]
    PROVE  TokensOf(u, kind)'
  BY DEF TokensOf

\* There is no token left.
LEMMA TokensGone ==
    ASSUME NEW u \in Users, NEW kind, \A p, f : ~Token(u, kind, p, f)'
    PROVE  TokensOf(u, kind)'
  BY DEF TokensOf

\* There is one token.
LEMMA TokenOnly ==
    ASSUME NEW u \in Users, NEW kind, NEW q, NEW g,
           \A p, f : Token(u, kind, p, f)' => p = q /\ f = g,
           NEW m, g.msg = m, Expects(u, kind, m)',
           kind = "ret" => q = "up" \/ m \in accepted'
    PROVE  TokensOf(u, kind)'
  BY DEF TokensOf

\* Nothing is said of the reports of a client that has nested calls, but what is
\* said of all tokens.
LEMMA TokensNested ==
    ASSUME NEW u \in Users, nested'[u]
    PROVE  TokensOf(u, "on")'
  BY DEF TokensOf, Expects

\* Without an expectation there is no token.
LEMMA TokensNone ==
    ASSUME NEW u \in Users, NEW kind, TokensOf(u, kind), \A m : ~Expects(u, kind, m)
    PROVE  \A p, f : ~Token(u, kind, p, f)
  BY DEF TokensOf

\* What a client expects is a matter of its innermost call.
LEMMA ExpectsSame ==
    ASSUME NEW u \in Users, stack'[u] = stack[u], nested'[u] = nested[u]
    PROVE  /\ At(u)' = At(u) /\ (stack[u] # <<>> => Top(u)' = Top(u))
           /\ OnWaiting(u)' = OnWaiting(u)
           /\ \A kind, m : Expects(u, kind, m)' <=> Expects(u, kind, m)
           /\ \A kind : Awaits(u, kind)' <=> Awaits(u, kind)
<1>1. At(u)' = At(u) /\ Top(u)' = Top(u)
  BY DEF At, Top
<1>2. OnWaiting(u)' = OnWaiting(u)
  BY <1>1 DEF OnWaiting, From, recv_dest_user, recv_src_user, IsAnswer
<1>3. QED
  BY <1>1, <1>2 DEF Expects, Awaits

\* A step of another client w: only the confirm of w can be a token of u, in the place
\* of the message that it confirms.
LEMMA OthersTokens ==
    ASSUME IInv, FramesFit, NEW w \in Users, Moves(w), NEW u \in Users \ {w},
           NEW kind \in Kinds, TokensOf(u, kind)
    PROVE  TokensOf(u, kind)'
<1>1. Only(w) /\ (up' = up \/ \E m : Adds(m) /\ SentBy(w, m))
  BY MovesOnly, MovesSend
<1>2. /\ stack'[u] = stack[u] /\ nested'[u] = nested[u] /\ down' = down /\ accepted' = accepted
      /\ \A v \in Users : inbox'[v] \subseteq inbox[v]
      /\ \A m : Expects(u, kind, m)' <=> Expects(u, kind, m)
  BY <1>1, ExpectsSame DEF Only
<1>3. ASSUME \A f \in up' : f \in up \/ ~Asks(u, kind, f)
      PROVE  TokensOf(u, kind)'
  <2>1. \A p, f : Token(u, kind, p, f)' => Token(u, kind, p, f)
    BY <1>2, <1>3 DEF Token
  <2>2. QED
    BY <1>2, <2>1, TokensKept
<1>4. CASE up' = up
  BY <1>3, <1>4
<1>5. ASSUME NEW m, Adds(m), SentBy(w, m)
      PROVE  TokensOf(u, kind)'
  <2>1. CASE m.opt # ReplyOpt \/ m.w1 # u \/ kind # "cnf"
    <3>1. ~Asks(u, kind, m)
      BY <1>5, <2>1 DEF SentBy, Confirms, Asks
    <3>2. QED
      BY <1>3, <1>5, <3>1 DEF Adds
  <2>2. CASE m.opt = ReplyOpt /\ m.w1 = u /\ kind = "cnf"
    <3>1. PICK f \in inbox[w] : /\ f.w0 = w /\ f.opt = CnfOpt /\ inbox'[w] = inbox[w] \ {f}
                                /\ f.w1 = u /\ m.msg = f.msg
      BY <1>5, <2>2, OptionsDiffer DEF SentBy, Confirms
    <3>2. Token(u, kind, "inbox", f)
      BY <2>2, <3>1 DEF Token, Brings
    <3>3. Expects(u, kind, f.msg)'
      BY <1>2, <3>2 DEF TokensOf
    <3>4. \A p, g : Token(u, kind, p, g) => p = "inbox" /\ g = f
      BY <2>2, <3>2 DEF TokensOf
    <3>5. \A p, g : Token(u, kind, p, g)' => p = "up" /\ g = m
      BY <1>2, <1>5, <2>2, <3>1, <3>4 DEF Token, Adds
    <3>6. m.msg = f.msg /\ Expects(u, kind, m.msg)' /\ kind # "ret"
      BY <2>2, <3>1, <3>3
    <3>7. QED
      BY <3>5, <3>6 DEF TokensOf
  <2>3. QED
    BY <2>1, <2>2
<1>6. QED
  BY <1>1, <1>4, <1>5

\* So a step of one client keeps the tokens of the others.
LEMMA OthersFine ==
    ASSUME IInv, FramesFit, NEW w \in Users, Moves(w), NEW u \in Users \ {w}, Fine(u)
    PROVE  Fine(u)'
<1>1. Only(w) /\ Monotone /\ (up' = up \/ \E m : Adds(m))
  BY MovesOnly, MovesMonotone, MovesSend
<1>2. /\ inbox'[u] = inbox[u] /\ stack'[u] = stack[u] /\ slots'[u] = slots[u]
      /\ calls'[u] = calls[u] /\ nested'[u] = nested[u] /\ lost'[u] = lost[u]
      /\ down' = down /\ dups' = dups /\ up \subseteq up'
      /\ NoFaults' => NoFaults
  BY <1>1 DEF Only, Monotone, Adds, NoFaults, FramesFit
<1>3. Sequential(u)' /\ NotEaten(u)'
  BY <1>2, ExpectsSame DEF Fine, Sequential, NotEaten
<1>4. ASSUME dups' = 0, NEW kind \in Kinds PROVE TokensOf(u, kind)'
  BY <1>2, <1>4, OthersTokens DEF Fine
<1>5. ASSUME dups' = 0, NEW kind \in Kinds PROVE Owed(u, kind)'
  <2>1. SUFFICES ASSUME NoFaults', Awaits(u, kind)'
                 PROVE  \E p, f : Token(u, kind, p, f)'
    BY DEF Owed
  <2>2. PICK p, f : Token(u, kind, p, f)
    BY <1>2, <1>5, <2>1, ExpectsSame DEF Fine, Owed
  <2>3. kind \in {"ret", "on"}
    BY <2>1, <1>2, ExpectsSame DEF Awaits
  <2>4. Brings(u, kind, f) => f.w0 = u
    BY <2>3 DEF Brings
  <2>5. Token(u, kind, p, f)'
    BY <1>2, <2>2, <2>4 DEF Token
  <2>6. QED
    BY <2>5
<1>6. QED
  BY <1>3, <1>4, <1>5 DEF Fine

-----------------------------------------------------------------------------
(* The client's own steps.                                                 *)

\* A stack with a new innermost call on it.
Topped(s, c, r) ==
    /\ r # <<>> /\ Head(r) = c
    /\ s = <<>> => Tail(r) = <<>>

\* A call on top of calls that all run an event loop.
LEMMA ToppedStack ==
    ASSUME NEW s, Shape(s), \A k \in 1 .. Len(s) : s[k].at \in EventPlaces,
           NEW c, IsCall(c), NEW r, r = <<c>> \o s
    PROVE  Topped(s, c, r)
<1>1. Shape(r) /\ r # <<>> /\ Head(r) = c /\ Len(r) = Len(s) + 1
  BY PushShape
<1>2. ASSUME s = <<>> PROVE Tail(r) = <<>>
  <2>1. Len(s) = 0
    BY <1>2
  <2>2. Shape(Tail(r)) /\ Len(Tail(r)) = 0
    BY <1>1, <2>1, TailShape
  <2>3. QED
    BY <2>2, EmptySeq DEF Shape
<1>3. QED
  BY <1>1, <1>2 DEF Topped

\* The innermost call has gone on, a call has begun, or the innermost has returned.
LEMMA AfterBecome ==
    ASSUME IInv, NEW u \in Users, stack[u] # <<>>, NEW call, Become(u, call), IsCall(call)
    PROVE  /\ stack'[u] # <<>> /\ At(u)' = call.at /\ Top(u)' = call
           /\ Tail(stack[u]) = <<>> => Tail(stack'[u]) = <<>>
<1>1. PICK s : s = Tail(stack[u])
  OBVIOUS
<1>2. Shape(s) /\ \A k \in 1 .. Len(s) : s[k].at \in EventPlaces
  BY <1>1, TailShape DEF IInv, UserInv
<1>3. PICK r : r = <<call>> \o s
  OBVIOUS
<1>4. stack'[u] = r
  BY <1>1, <1>3 DEF Become, IInv
<1>5. Topped(s, call, r)
  BY <1>2, <1>3, ToppedStack
<1>6. QED
  BY <1>1, <1>4, <1>5 DEF At, Top, Topped

\* Where a client is after a call has begun,
LEMMA AfterPush ==
    ASSUME IInv, NEW u \in Users, InEvents(u), NEW call, Push(u, call), IsCall(call)
    PROVE  /\ stack'[u] # <<>> /\ At(u)' = call.at /\ Top(u)' = call
           /\ stack[u] = <<>> => Tail(stack'[u]) = <<>>
<1>1. PICK s : s = stack[u]
  OBVIOUS
<1>2. Shape(s) /\ \A k \in 1 .. Len(s) : s[k].at \in EventPlaces
  BY <1>1, EventLoop, AllInEvents DEF IInv, UserInv
<1>3. PICK r : r = <<call>> \o s
  OBVIOUS
<1>4. stack'[u] = r
  BY <1>1, <1>3 DEF Push, IInv
<1>5. Topped(s, call, r)
  BY <1>2, <1>3, ToppedStack
<1>6. QED
  BY <1>1, <1>4, <1>5 DEF At, Top, Topped

\* and after one has returned, if nothing was nested.
LEMMA AfterReturn ==
    ASSUME IInv, NEW u \in Users, Return(u), Sequential(u), stack[u] # <<>>, ~nested[u]
    PROVE  stack'[u] = <<>> /\ At(u)' = "loop"
<1>1. stack'[u] = Tail(stack[u])
  BY DEF Return, IInv
<1>2. QED
  BY <1>1 DEF Sequential, At

\* No new frame that would be a token.
LEMMA NoNewTokens ==
    ASSUME NEW u \in Users, NEW kind, Only(u), \A f \in up' : f \in up \/ ~Asks(u, kind, f)
    PROVE  \A p, f : Token(u, kind, p, f)' => Token(u, kind, p, f)
  BY DEF Only, Token

\* Outside the waits of userSend there is nothing in flight for it, and outside
\* userOnWait nothing for userOn.
LEMMA NothingInFlight ==
    ASSUME NEW u \in Users, \A kind \in Kinds : TokensOf(u, kind),
           At(u) \notin {"retWait", "cnfWait"}
    PROVE  /\ \A p, f : ~Token(u, "ret", p, f) /\ ~Token(u, "cnf", p, f)
           /\ ~nested[u] /\ ~OnWaiting(u) => \A p, f : ~Token(u, "on", p, f)
<1>1. \A m : ~Expects(u, "ret", m) /\ ~Expects(u, "cnf", m)
  BY DEF Expects
<1>2. TokensOf(u, "ret") /\ TokensOf(u, "cnf") /\ TokensOf(u, "on")
  BY DEF Kinds
<1>3. ~nested[u] /\ ~OnWaiting(u) => \A m : ~Expects(u, "on", m)
  BY DEF Expects
<1>4. QED
  BY <1>1, <1>2, <1>3, TokensNone

\* A step of u that makes no token, and after which u expects what it expected, or
\* there was nothing to expect.
LEMMA OwnTokens ==
    ASSUME IInv, FramesFit, NEW u \in Users, Moves(u), NEW kind, TokensOf(u, kind),
           \A f \in up' : f \in up \/ ~Asks(u, kind, f),
           \/ \A m : Expects(u, kind, m) => Expects(u, kind, m)'
           \/ \A p, f : ~Token(u, kind, p, f)
           \/ kind = "on" /\ nested'[u]
    PROVE  TokensOf(u, kind)'
<1>1. Only(u) /\ (nested[u] => nested'[u]) /\ accepted' = accepted
  BY MovesOnly, MovesMonotone DEF Only, Monotone
<1>2. \A p, f : Token(u, kind, p, f)' => Token(u, kind, p, f)
  BY <1>1, NoNewTokens
<1>3. CASE \A m : Expects(u, kind, m) => Expects(u, kind, m)'
  BY <1>1, <1>2, <1>3, TokensKept
<1>4. CASE \A p, f : ~Token(u, kind, p, f)
  BY <1>2, <1>4, TokensGone
<1>5. CASE kind = "on" /\ nested'[u]
  BY <1>5, TokensNested
<1>6. QED
  BY <1>3, <1>4, <1>5

\* A step that sends nothing, in which u goes on expecting what it expected.
LEMMA Expecting ==
    ASSUME IInv, FramesFit, NEW u \in Users, Moves(u), up' = up,
           \A kind \in Kinds : TokensOf(u, kind),
           \A kind \in Kinds : \A m : Expects(u, kind, m) => Expects(u, kind, m)'
    PROVE  \A kind \in Kinds : TokensOf(u, kind)'
  BY OwnTokens

\* The signal that a datagram has come keeps the tokens of the client;
LEMMA ReadyReadFine ==
    ASSUME IInv, FramesFit, NEW u \in Users, ReadyRead(u), Fine(u)
    PROVE  Fine(u)'
<1>1. /\ UNCHANGED <<up, down, inbox, faults, dups, stack, slots, nested, lost>>
      /\ calls'[u] = slots[u]
  BY DEF ReadyRead, Emit, channelVars, historyVars, IInv
<1>2. Moves(u) /\ UNCHANGED <<stack[u], nested[u]>>
  BY <1>1 DEF Moves, Thread
<1>3. Sequential(u)'
  BY <1>1, <1>2, ExpectsSame DEF Fine, Sequential
<1>4. NotEaten(u)'
  BY <1>1, <1>2, ExpectsSame, TopOfStack DEF Fine, NotEaten, NoFaults
<1>5. ASSUME dups' = 0, NEW kind \in Kinds PROVE TokensOf(u, kind)'
  BY <1>1, <1>2, <1>5, Expecting, ExpectsSame DEF Fine
<1>6. ASSUME dups' = 0, NEW kind \in Kinds PROVE Owed(u, kind)'
  BY <1>1, <1>2, <1>6, ExpectsSame DEF Fine, Owed, NoFaults, Token
<1>7. QED
  BY <1>3, <1>4, <1>5, <1>6 DEF Fine

\* recvMessage runs in an event loop or in a userOnWait that a nested call has
\* connected it in; if there are no nested calls, there is no answer to eat.
LEMMA RecvMessageFine ==
    ASSUME IInv, FramesFit, NEW u \in Users, recvMessage(u), Fine(u)
    PROVE  Fine(u)'
<1>1. /\ UNCHANGED <<down, dups, accepted, stack, slots, nested>> /\ calls[u] > 0
      /\ Moves(u)
  BY DEF recvMessage, Moves, Thread
<1>2. At(u) \notin {"retWait", "cnfWait"} /\ calls[u] # 0
  <2>1. calls[u] # 0 /\ ~Waiting(stack[u])
    BY <1>1 DEF IInv, UserInv
  <2>2. QED
    BY <2>1, TopOfStack DEF Waiting
<1>3. ~nested[u] => ~OnWaiting(u) /\ At(u) \notin {"onWait", "onRead", "testEvents"}
  BY <1>2 DEF Fine, Sequential, OnWaiting
<1>4. Sequential(u)'
  BY <1>1, <1>3, ExpectsSame DEF Fine, Sequential
<1>5. dups = 0 => \A p, f : ~Token(u, "ret", p, f) /\ ~Token(u, "cnf", p, f)
                            /\ (~nested[u] => ~Token(u, "on", p, f))
  BY <1>2, <1>3, NothingInFlight DEF Fine
<1>6. NotEaten(u)'
  <2>1. SUFFICES ASSUME NoFaults', ~nested'[u], NEW l \in lost'[u], l.by = "slot"
                 PROVE  FALSE
    BY DEF NotEaten
  <2>2. NoFaults /\ faults' = faults
    BY <1>1, <2>1, MovesMonotone DEF NoFaults, Monotone, FramesFit
  <2>3. l \notin lost[u]
    BY <1>1, <2>1, <2>2 DEF Fine, NotEaten
  <2>4. PICK f \in inbox[u] : userRecv(u, f)
    BY <2>1, <2>3 DEF recvMessage
  <2>5. f.w0 = u /\ f.opt \notin MessageOpts
    BY <2>1, <2>3, <2>4 DEF userRecv, Lose, recv_dest_user
  <2>6. f.opt = ReplyOpt
    BY <2>2, <2>5 DEF FramesFit, DownFits, NoFaults
  <2>7. \E kind \in Kinds : Brings(u, kind, f)
    <3>1. CASE f.w1 = Station /\ f.data = Receipt
      BY <2>5, <2>6, <3>1 DEF Brings, Kinds
    <3>2. CASE f.w1 = Station /\ f.data # Receipt
      BY <2>5, <2>6, <3>2 DEF Brings, Kinds
    <3>3. CASE f.w1 # Station
      BY <2>5, <2>6, <3>3 DEF Brings, Kinds
    <3>4. QED
      BY <3>1, <3>2, <3>3
  <2>8. \E kind \in Kinds : Token(u, kind, "inbox", f)
    BY <2>4, <2>5, <2>7 DEF Token
  <2>9. QED
    BY <1>1, <1>5, <2>1, <2>2, <2>8 DEF NoFaults, Kinds
<1>7. ASSUME dups' = 0, NEW kind \in Kinds PROVE TokensOf(u, kind)'
  <2>1. \A m : Expects(u, kind, m) => Expects(u, kind, m)'
    BY <1>1, ExpectsSame
  <2>2. \A f \in up' : f \in up \/ ~Asks(u, kind, f)
    <3>1. CASE up' = up
      BY <3>1
    <3>2. ASSUME NEW m, Adds(m), Confirms(u, m) PROVE ~Asks(u, kind, m)
      <4>1. SUFFICES ASSUME kind = "cnf", m.w1 = u PROVE FALSE
        BY <3>2, OptionsDiffer DEF Asks, Confirms
      <4>2. PICK f \in inbox[u] : f.w0 = u /\ f.opt = CnfOpt /\ f.w1 = u
        BY <3>2, <4>1 DEF Confirms
      <4>3. Token(u, "cnf", "inbox", f)
        BY <4>2 DEF Token, Brings
      <4>4. QED
        BY <1>1, <1>5, <1>7, <4>3
    <3>3. QED
      BY <3>1, <3>2, ConfirmSent DEF Adds
  <2>3. QED
    BY <1>1, <1>7, <2>1, <2>2, OwnTokens DEF Fine
<1>8. ASSUME dups' = 0, NEW kind \in Kinds PROVE Owed(u, kind)'
  BY <1>1, <1>2, <1>3, ExpectsSame DEF Owed, Awaits
<1>9. QED
  BY <1>2, <1>4, <1>6, <1>7, <1>8 DEF Fine

\* A step of userOn or userOnWait after which the innermost call of u is call, or
\* has returned.
LEMMA OnStep ==
    ASSUME IInv, FramesFit, NEW u \in Users, Moves(u), Fine(u), stack[u] # <<>>,
           At(u) \in {"onEvents", "onWait", "onRead", "testEvents"}, nested' = nested,
           \/ \E call : /\ Become(u, call) /\ IsCall(call)
                        /\ call.at \in {"onWait", "onRead", "testEvents"}
                        /\ ~nested[u] => slots'[u] = 0 /\ calls'[u] = 0
           \/ Return(u),
           NotEaten(u)',
           \A f \in up' : f \in up \/ f.opt \notin MessageOpts \cup {ReplyOpt},
           dups = 0 /\ ~nested[u] => TokensOf(u, "on")' /\ Owed(u, "on")'
    PROVE  Fine(u)'
<1>1. /\ \/ At(u)' \in {"onWait", "onRead", "testEvents"}
         \/ Return(u)
      /\ Sequential(u)'
  <2>1. CASE Return(u)
    BY <2>1, AfterReturn DEF Fine, Sequential
  <2>2. ASSUME NEW call, Become(u, call), IsCall(call),
               call.at \in {"onWait", "onRead", "testEvents"},
               ~nested[u] => slots'[u] = 0 /\ calls'[u] = 0
        PROVE  At(u)' \in {"onWait", "onRead", "testEvents"} /\ Sequential(u)'
    BY <2>2, AfterBecome DEF Fine, Sequential
  <2>3. QED
    BY <2>1, <2>2
<1>2. At(u)' \notin {"retWait", "cnfWait"}
  <2>1. CASE Return(u)
    <3>2. Shape(stack[u]) /\ stack'[u] = Tail(stack[u])
      BY <2>1 DEF Return, IInv, UserInv
    <3>3. Shape(Tail(stack[u])) /\ \A k \in 1 .. Len(Tail(stack[u])) : Tail(stack[u])[k].at \in EventPlaces
      BY <3>2, TailShape
    <3>4. PICK s : s = Tail(stack[u])
      OBVIOUS
    <3>5. s # <<>> => Head(s).at \in EventPlaces
      <4>1. ASSUME s # <<>> PROVE Head(s) = s[1] /\ 1 \in 1 .. Len(s)
        BY <3>3, <3>4, <4>1, TailShape
      <4>2. QED
        BY <3>3, <3>4, <4>1
    <3>6. QED
      BY <3>2, <3>4, <3>5 DEF At, EventPlaces
  <2>2. QED
    BY <1>1, <2>1
<1>3. dups' = dups
  BY MovesOnly DEF Only
<1>4. ASSUME dups' = 0, NEW kind \in Kinds PROVE TokensOf(u, kind)'
  <2>1. CASE kind \in {"ret", "cnf"}
    <3>1. \A p, f : ~Token(u, kind, p, f)
      BY <1>3, <1>4, <2>1, NothingInFlight DEF Fine
    <3>2. \A f \in up' : f \in up \/ ~Asks(u, kind, f)
      BY <2>1, OptionsDiffer DEF Asks
    <3>3. QED
      BY <1>3, <1>4, <3>1, <3>2, OwnTokens DEF Fine
  <2>2. CASE kind = "on"
    BY <1>3, <1>4, <2>2, TokensNested
  <2>3. QED
    BY <2>1, <2>2 DEF Kinds
<1>5. ASSUME dups' = 0, NEW kind \in Kinds PROVE Owed(u, kind)'
  <2>1. CASE kind = "on"
    BY <1>3, <1>5, <2>1 DEF Owed, Awaits
  <2>2. CASE kind # "on"
    BY <1>2, <2>2 DEF Owed, Awaits
  <2>3. QED
    BY <2>1, <2>2
<1>6. QED
  BY <1>1, <1>2, <1>4, <1>5 DEF Fine

\* userOn sends its report and waits, or returns.
LEMMA UserOnFine ==
    ASSUME IInv, FramesFit, NEW u \in Users, userOn(u), Fine(u)
    PROVE  Fine(u)'
<1>1. /\ Moves(u) /\ At(u) = "onEvents" /\ calls[u] = 0 /\ stack[u] # <<>>
      /\ UNCHANGED <<down, inbox, dups, calls, lost, nested>> /\ IsCall(Top(u))
  BY TopOfStack, TailShape DEF userOn, Moves, Thread, IInv, UserInv
<1>2. NotEaten(u)' /\ (NoFaults' => NoFaults)
  BY <1>1, MovesMonotone DEF Fine, NotEaten, NoFaults, Monotone, FramesFit
<1>3. ASSUME dups = 0, ~nested[u] PROVE \A p, f : ~Token(u, "on", p, f)
  BY <1>1, <1>3, NothingInFlight DEF OnWaiting, Fine
<1>4. CASE SocketError /\ Return(u)
  <2>1. up' = up /\ faults' # 0
    BY <1>4 DEF SocketError, FramesFit
  <2>2. ASSUME dups = 0, ~nested[u] PROVE TokensOf(u, "on")' /\ Owed(u, "on")'
    BY <1>1, <1>3, <2>1, <2>2, OwnTokens DEF Fine, Kinds, Owed, NoFaults
  <2>3. QED
    BY <1>1, <1>2, <1>4, <2>1, <2>2, OnStep
<1>5. CASE /\ SendTo(UpFrame(stamp, u, Station, Top(u).frame, OnOpt, OnOk, stamp))
           /\ Become(u, [Top(u) EXCEPT !.at = "onWait", !.msg = stamp])
           /\ slots' = [slots EXCEPT ![u] = Disconnected(@)]
  <2>1. PICK m : m = UpFrame(stamp, u, Station, Top(u).frame, OnOpt, OnOk, stamp)
    OBVIOUS
  <2>2. /\ (up' = up /\ faults' # 0) \/ up' = up \cup {m}
        /\ m.w0 = u /\ m.opt = OnOpt /\ m.msg = stamp
    BY <1>5, <2>1 DEF SendTo, UpFrame, FramesFit
  <2>3. PICK call : call = [Top(u) EXCEPT !.at = "onWait", !.msg = stamp]
    OBVIOUS
  <2>4. Become(u, call) /\ IsCall(call) /\ call.at = "onWait" /\ call.msg = stamp
    <3>1. GoesOn(call, Top(u), "onWait", stamp, Top(u).got)
      BY <1>1, <2>3, CallFields
    <3>2. QED
      BY <1>5, <2>3, <3>1 DEF GoesOn
  <2>5. slots'[u] = 0 /\ calls'[u] = 0
    BY <1>1, <1>5 DEF Disconnected, IInv
  <2>6. At(u)' = "onWait" /\ Top(u)'.msg = stamp
    BY <1>1, <2>4, AfterBecome
  <2>7. ASSUME dups = 0, ~nested[u] PROVE TokensOf(u, "on")'
    <3>1. CASE up' = up
      BY <1>1, <1>3, <2>7, <3>1, OwnTokens DEF Fine, Kinds
    <3>2. CASE up' = up \cup {m}
      <4>1. \A p, f : Token(u, "on", p, f)' => p = "up" /\ f = m
        BY <1>1, <1>3, <2>7, <3>2 DEF Token
      <4>2. Expects(u, "on", m.msg)'
        BY <1>1, <2>2, <2>6 DEF Expects, OnWaiting
      <4>3. QED
        <5>1. PICK kind : kind = "on"
          OBVIOUS
        <5>2. Expects(u, kind, m.msg)' /\ kind # "ret"
          BY <4>2, <5>1
        <5>3. QED
          BY <4>1, <5>1, <5>2, TokenOnly
    <3>3. QED
      BY <2>2, <3>1, <3>2
  <2>8. Owed(u, "on")'
    <3>1. SUFFICES ASSUME NoFaults' PROVE \E p, f : Token(u, "on", p, f)'
      BY DEF Owed
    <3>2. Token(u, "on", "up", m)'
      BY <2>2, <3>1 DEF NoFaults, Token, Asks
    <3>3. QED
      BY <3>2
  <2>9. QED
    BY <1>1, <1>2, <2>2, <2>4, <2>5, <2>7, <2>8, OptionsDiffer, OnStep
<1>6. QED
  BY <1>4, <1>5 DEF userOn

\* userOnWait stops waiting, to read; with recvMessage disconnected, the signal that
\* waitForReadyRead emits calls nothing.
LEMMA UserOnWaitFine ==
    ASSUME IInv, FramesFit, NEW u \in Users, userOnWait(u), Fine(u)
    PROVE  Fine(u)'
<1>1. /\ Moves(u) /\ At(u) = "onWait" /\ calls[u] = 0 /\ stack[u] # <<>>
      /\ UNCHANGED <<up, down, inbox, dups, faults, slots, lost, nested>> /\ IsCall(Top(u))
  BY TopOfStack, TailShape DEF userOnWait, Moves, Thread, IInv, UserInv, channelVars, historyVars
<1>2. NotEaten(u)'
  BY <1>1 DEF Fine, NotEaten, NoFaults
<1>3. PICK call : call = [Top(u) EXCEPT !.at = "onRead"]
  OBVIOUS
<1>4. Become(u, call) /\ IsCall(call) /\ call.at = "onRead" /\ call.msg = Top(u).msg
  <2>1. GoesOn(call, Top(u), "onRead", Top(u).msg, Top(u).got)
    BY <1>1, <1>3, CallFields
  <2>2. QED
    BY <1>3, <2>1 DEF GoesOn, userOnWait, Goto
<1>5. At(u)' = "onRead" /\ Top(u)'.msg = Top(u).msg
  BY <1>1, <1>4, AfterBecome
<1>6. ~nested[u] => slots'[u] = 0 /\ calls'[u] = 0
  BY <1>1 DEF userOnWait, Emit, Fine, Sequential, IInv
<1>7. ASSUME dups = 0, ~nested[u] PROVE TokensOf(u, "on")' /\ Owed(u, "on")'
  <2>1. \A m : Expects(u, "on", m) => Expects(u, "on", m)'
    BY <1>1, <1>5 DEF Expects, OnWaiting
  <2>2. TokensOf(u, "on")'
    BY <1>1, <1>7, <2>1, OwnTokens DEF Fine, Kinds
  <2>3. Owed(u, "on")'
    BY <1>1, <1>7 DEF Fine, Kinds, Owed, NoFaults, Awaits, OnWaiting, Token
  <2>4. QED
    BY <2>2, <2>3
<1>8. QED
  BY <1>1, <1>2, <1>4, <1>6, <1>7, OnStep

\* userOnWait reads nothing, or a datagram; if that is the answer it was the only one.
LEMMA OnReadFine ==
    ASSUME IInv, FramesFit, NEW u \in Users, OnRead(u), Fine(u)
    PROVE  Fine(u)'
<1>1. /\ Moves(u) /\ At(u) = "onRead" /\ calls[u] = 0 /\ stack[u] # <<>>
      /\ UNCHANGED <<up, down, dups, slots, calls, nested>> /\ IsCall(Top(u))
  BY TopOfStack, TailShape DEF OnRead, Moves, Thread, IInv, UserInv, SocketError
<1>2. ~nested[u] => slots'[u] = 0 /\ calls'[u] = 0
  BY <1>1 DEF Fine, Sequential
<1>3. CASE Goto(u, "onWait") /\ UNCHANGED <<inbox, lost>> /\ (faults' = faults \/ SocketError)
  <2>1. PICK call : call = [Top(u) EXCEPT !.at = "onWait"]
    OBVIOUS
  <2>2. Become(u, call) /\ IsCall(call) /\ call.at = "onWait" /\ call.msg = Top(u).msg
    <3>1. GoesOn(call, Top(u), "onWait", Top(u).msg, Top(u).got)
      BY <1>1, <2>1, CallFields
    <3>2. QED
      BY <1>3, <2>1, <3>1 DEF GoesOn, Goto
  <2>3. At(u)' = "onWait" /\ Top(u)'.msg = Top(u).msg
    BY <1>1, <2>2, AfterBecome
  <2>4. NotEaten(u)' /\ (NoFaults' => NoFaults)
    BY <1>1, <1>3 DEF Fine, NotEaten, NoFaults, SocketError, FramesFit
  <2>5. ASSUME dups = 0, ~nested[u] PROVE TokensOf(u, "on")' /\ Owed(u, "on")'
    <3>1. \A m : Expects(u, "on", m) => Expects(u, "on", m)'
      BY <1>1, <2>3 DEF Expects, OnWaiting
    <3>2. TokensOf(u, "on")'
      BY <1>1, <2>5, <3>1, OwnTokens DEF Fine, Kinds
    <3>3. Owed(u, "on")'
      BY <1>1, <1>3, <2>4, <2>5 DEF Fine, Kinds, Owed, Awaits, OnWaiting, Token
    <3>4. QED
      BY <3>2, <3>3
  <2>6. QED
    BY <1>1, <1>2, <2>2, <2>4, <2>5, OnStep
<1>4. ASSUME NEW f \in inbox[u], RecvFrom(u, f), faults' = faults,
             Become(u, [Top(u) EXCEPT !.at = "testEvents", !.got = f]),
             IF From(u, f, Station) THEN UNCHANGED lost ELSE Lose(u, f, "wait")
      PROVE  Fine(u)'
  <2>1. PICK call : call = [Top(u) EXCEPT !.at = "testEvents", !.got = f]
    OBVIOUS
  <2>2. /\ Become(u, call) /\ IsCall(call) /\ call.at = "testEvents"
        /\ call.msg = Top(u).msg /\ call.got = f
    <3>1. GoesOn(call, Top(u), "testEvents", Top(u).msg, f)
      BY <1>1, <2>1, CallFields
    <3>2. QED
      BY <1>4, <2>1, <3>1 DEF GoesOn
  <2>3. /\ At(u)' = "testEvents" /\ Top(u)'.msg = Top(u).msg /\ Top(u)'.got = f
        /\ OnWaiting(u)' = ~From(u, f, Station)
    <3>1. At(u)' = "testEvents" /\ Top(u)' = call
      BY <1>1, <2>2, AfterBecome
    <3>2. QED
      BY <2>2, <3>1 DEF OnWaiting, From, recv_dest_user, recv_src_user, IsAnswer
  <2>4. NotEaten(u)' /\ (NoFaults' => NoFaults)
    BY <1>1, <1>4 DEF Fine, NotEaten, NoFaults, Lose, FramesFit
  <2>5. inbox'[u] = inbox[u] \ {f} /\ \A v \in Users \ {u} : inbox'[v] = inbox[v]
    BY <1>4 DEF RecvFrom, FramesFit
  <2>6. ASSUME dups = 0, ~nested[u] PROVE TokensOf(u, "on")'
    <3>1. CASE ~From(u, f, Station)
      <4>1. \A m : Expects(u, "on", m) => Expects(u, "on", m)'
        BY <1>1, <2>3, <3>1 DEF Expects, OnWaiting
      <4>2. QED
        BY <1>1, <2>6, <4>1, OwnTokens DEF Fine, Kinds
    <3>2. CASE From(u, f, Station)
      <4>1. f.w0 = u /\ f.w1 = Station /\ f.opt = ReplyOpt
        BY <3>2 DEF From, recv_dest_user, recv_src_user, IsAnswer
      <4>2. f.data # Receipt
        <5>1. ~Token(u, "ret", "inbox", f)
          BY <1>1, <2>6, NothingInFlight DEF Fine
        <5>2. QED
          BY <4>1, <5>1 DEF Token, Brings
      <4>3. Token(u, "on", "inbox", f) /\ TokensOf(u, "on")
        BY <2>6, <4>1, <4>2 DEF Token, Brings, Fine, Kinds
      <4>4. \A p, g : Token(u, "on", p, g) => p = "inbox" /\ g = f
        BY <2>6, <4>3 DEF TokensOf
      <4>5. \A p, g : ~Token(u, "on", p, g)'
        BY <1>1, <2>5, <4>1, <4>4 DEF Token, Brings
      <4>6. QED
        BY <4>5, TokensGone
    <3>3. QED
      BY <3>1, <3>2
  <2>7. ASSUME dups = 0, ~nested[u] PROVE Owed(u, "on")'
    <3>1. SUFFICES ASSUME NoFaults', OnWaiting(u)' PROVE \E p, g : Token(u, "on", p, g)'
      BY DEF Owed, Awaits
    <3>2. PICK p, g : Token(u, "on", p, g)
      BY <1>1, <2>4, <2>7, <3>1 DEF Owed, Awaits, OnWaiting, Fine, Kinds
    <3>3. ~From(u, f, Station)
      BY <2>3, <3>1
    <3>4. g # f \/ p # "inbox"
      BY <3>2, <3>3 DEF Token, Brings, From, recv_dest_user, recv_src_user, IsAnswer
    <3>5. Token(u, "on", p, g)'
      BY <1>1, <2>5, <3>2, <3>4 DEF Token
    <3>6. QED
      BY <3>5
  <2>8. QED
    BY <1>1, <1>2, <2>2, <2>4, <2>6, <2>7, OnStep
<1>5. QED
  BY <1>3, <1>4 DEF OnRead

\* A reply of the station ends userOnWait, anything else lets it wait.
LEMMA OnTestFine ==
    ASSUME IInv, FramesFit, NEW u \in Users, OnTest(u), Fine(u)
    PROVE  Fine(u)'
<1>1. /\ Moves(u) /\ At(u) = "testEvents" /\ calls[u] = 0 /\ stack[u] # <<>>
      /\ UNCHANGED <<up, down, inbox, faults, dups, calls, nested, lost>> /\ IsCall(Top(u))
  BY TopOfStack, TailShape DEF OnTest, Moves, Thread, IInv, UserInv, channelVars, historyVars
<1>2. NotEaten(u)'
  BY <1>1 DEF Fine, NotEaten, NoFaults
<1>3. CASE From(u, Top(u).got, Station) /\ Return(u)
  <2>1. ASSUME dups = 0, ~nested[u] PROVE TokensOf(u, "on")' /\ Owed(u, "on")'
    <3>1. \A p, f : ~Token(u, "on", p, f)
      BY <1>1, <1>3, <2>1, NothingInFlight DEF OnWaiting, Fine
    <3>2. TokensOf(u, "on")'
      BY <1>1, <2>1, <3>1, OwnTokens DEF Fine, Kinds
    <3>3. ~OnWaiting(u)'
      BY <1>1, <1>3, <2>1, AfterReturn DEF OnWaiting, Fine
    <3>4. QED
      BY <3>2, <3>3 DEF Owed, Awaits
  <2>2. QED
    BY <1>1, <1>2, <1>3, <2>1, OnStep
<1>4. CASE ~From(u, Top(u).got, Station) /\ Goto(u, "onWait") /\ UNCHANGED slots
  <2>1. PICK call : call = [Top(u) EXCEPT !.at = "onWait"]
    OBVIOUS
  <2>2. Become(u, call) /\ IsCall(call) /\ call.at = "onWait" /\ call.msg = Top(u).msg
    <3>1. GoesOn(call, Top(u), "onWait", Top(u).msg, Top(u).got)
      BY <1>1, <2>1, CallFields
    <3>2. QED
      BY <1>4, <2>1, <3>1 DEF GoesOn, Goto
  <2>3. At(u)' = "onWait" /\ Top(u)'.msg = Top(u).msg
    BY <1>1, <2>2, AfterBecome
  <2>4. ASSUME dups = 0, ~nested[u] PROVE TokensOf(u, "on")' /\ Owed(u, "on")'
    <3>1. \A m : Expects(u, "on", m) => Expects(u, "on", m)'
      BY <1>1, <2>3 DEF Expects, OnWaiting
    <3>2. TokensOf(u, "on")'
      BY <1>1, <2>4, <3>1, OwnTokens DEF Fine, Kinds
    <3>3. OnWaiting(u)
      BY <1>1, <1>4 DEF OnWaiting
    <3>4. Owed(u, "on")'
      BY <1>1, <2>4, <3>3 DEF Fine, Kinds, Owed, NoFaults, Awaits, Token
    <3>5. QED
      BY <3>2, <3>4
  <2>5. ~nested[u] => slots'[u] = 0 /\ calls'[u] = 0
    BY <1>1, <1>4 DEF Fine, Sequential
  <2>6. QED
    BY <1>1, <1>2, <2>2, <2>4, <2>5, OnStep
<1>5. QED
  BY <1>3, <1>4 DEF OnTest

\* After the last answer of a userSend that no click was handled in, the client is in
\* its outermost event loop; otherwise in one of the calls below.
LEMMA AfterEndSend ==
    ASSUME IInv, NEW u \in Users, EndSend(u), stack[u] # <<>>, Sequential(u), nested' = nested
    PROVE  Sequential(u)' /\ At(u)' \notin {"retWait", "cnfWait"} /\ (~nested[u] => ~OnWaiting(u)')
<1>1. ~nested[u] => stack'[u] = <<>> /\ At(u)' = "loop"
  BY AfterReturn DEF EndSend
<1>2. At(u)' \notin {"retWait", "cnfWait"}
  <2>1. PICK s : s = Tail(stack[u])
    OBVIOUS
  <2>2. Shape(s) /\ (\A k \in 1 .. Len(s) : s[k].at \in EventPlaces) /\ stack'[u] = s
    BY <2>1, TailShape DEF IInv, UserInv, EndSend, Return
  <2>3. s # <<>> => Head(s).at \in EventPlaces
    <3>1. ASSUME s # <<>> PROVE Head(s) = s[1] /\ 1 \in 1 .. Len(s)
      BY <2>2, <3>1, TailShape
    <3>2. QED
      BY <2>2, <3>1
  <2>4. QED
    BY <2>2, <2>3 DEF At, EventPlaces
<1>3. QED
  BY <1>1, <1>2 DEF Sequential, OnWaiting

\* A wait of userSend reads a datagram of the inbox.
Reads(u, f) ==
    /\ f \in inbox[u] /\ inbox'[u] = inbox[u] \ {f}
    /\ \A v \in Users \ {u} : inbox'[v] = inbox[v]
    /\ UNCHANGED <<up, down, dups, faults, accepted, nested>>

\* If it was a token, it was the only one.
LEMMA TokenRead ==
    ASSUME FramesFit, NEW u \in Users, NEW f, Reads(u, f), NEW kind, TokensOf(u, kind),
           f.w0 = u, Brings(u, kind, f)
    PROVE  \/ \A p, g : ~Token(u, kind, p, g)'
           \/ kind = "on" /\ nested[u]
<1>1. Token(u, kind, "inbox", f)
  BY DEF Token, Reads
<1>2. ASSUME ~(kind = "on" /\ nested[u]) PROVE \A p, g : Token(u, kind, p, g) => p = "inbox" /\ g = f
  BY <1>1, <1>2 DEF TokensOf
<1>3. ASSUME ~(kind = "on" /\ nested[u]), NEW p, NEW g PROVE ~Token(u, kind, p, g)'
  BY <1>2, <1>3 DEF Token, Reads
<1>4. QED
  BY <1>3

\* If it was none, all are still there.
LEMMA TokenStays ==
    ASSUME FramesFit, NEW u \in Users, NEW f, Reads(u, f), NEW kind,
           ~(f.w0 = u /\ Brings(u, kind, f)), kind \in {"ret", "on"},
           NEW p, NEW g, Token(u, kind, p, g)
    PROVE  Token(u, kind, p, g)'
<1>1. Brings(u, kind, g) => g.w0 = u
  BY DEF Brings
<1>2. QED
  BY <1>1 DEF Token, Reads

\* so does the wait for the receipt, which takes the one of its call,
LEMMA SendWaitRetFine ==
    ASSUME IInv, FramesFit, NEW u \in Users, userSendWaitRet(u), Fine(u)
    PROVE  Fine(u)'
<1>1. /\ Moves(u) /\ At(u) = "retWait" /\ stack[u] # <<>> /\ IsCall(Top(u))
      /\ UNCHANGED <<up, down, dups, faults, accepted, calls, nested>>
  <2>1. At(u) = "retWait" /\ UNCHANGED <<up, down, dups, faults, accepted, calls, nested>>
    BY DEF userSendWaitRet
  <2>2. stack[u] # <<>> /\ Top(u) = Head(stack[u]) /\ Shape(stack[u])
    BY <2>1, TopOfStack DEF IInv, UserInv
  <2>3. QED
    BY <2>1, <2>2, TailShape DEF Moves, Thread
<1>2. PICK f \in inbox[u] :
        /\ RecvFrom(u, f)
        /\ IF IsReceipt(u, f)
           THEN /\ IF Top(u).isCnf THEN Goto(u, "cnfWait") /\ UNCHANGED slots
                                   ELSE EndSend(u)
                /\ UNCHANGED lost
           ELSE Lose(u, f, "wait") /\ UNCHANGED <<stack, slots>>
  BY DEF userSendWaitRet
<1>3. Reads(u, f)
  BY <1>1, <1>2 DEF RecvFrom, FramesFit, Reads
<1>4. NotEaten(u)'
  BY <1>1, <1>2 DEF Fine, NotEaten, NoFaults, Lose, FramesFit
<1>5. IsReceipt(u, f) <=> f.w0 = u /\ Brings(u, "ret", f)
  BY DEF IsReceipt, From, recv_dest_user, recv_src_user, IsAnswer, Brings
<1>6. CASE ~IsReceipt(u, f)
  <2>1. UNCHANGED <<stack[u], nested[u], slots[u]>>
    BY <1>1, <1>2, <1>6
  <2>2. Sequential(u)'
    BY <1>1, <2>1, ExpectsSame DEF Fine, Sequential
  <2>3. ASSUME dups' = 0, NEW kind \in Kinds PROVE TokensOf(u, kind)'
    BY <1>1, <2>1, <2>3, Expecting, ExpectsSame DEF Fine
  <2>4. ASSUME dups' = 0, NEW kind \in Kinds PROVE Owed(u, kind)'
    <3>1. SUFFICES ASSUME kind = "ret", NoFaults PROVE \E p, g : Token(u, kind, p, g)'
      BY <1>1, <2>1, ExpectsSame DEF Owed, Awaits, NoFaults, OnWaiting
    <3>2. PICK p, g : Token(u, kind, p, g)
      BY <1>1, <2>4, <3>1 DEF Fine, Owed, Awaits
    <3>3. Token(u, kind, p, g)'
      BY <1>3, <1>5, <1>6, <3>1, <3>2, TokenStays
    <3>4. QED
      BY <3>3
  <2>5. QED
    BY <1>4, <2>2, <2>3, <2>4 DEF Fine
<1>7. CASE IsReceipt(u, f)
  <2>1. ASSUME dups = 0 PROVE \A p, g : ~Token(u, "ret", p, g)'
    BY <1>3, <1>5, <1>7, <2>1, TokenRead DEF Fine, Kinds
  <2>2. ASSUME dups = 0 PROVE TokensOf(u, "ret")'
    BY <2>1, <2>2, TokensGone
  <2>3. ASSUME dups = 0 PROVE TokensOf(u, "on")'
    <3>1. ~nested[u] => \A m : ~Expects(u, "on", m)
      BY <1>1 DEF Expects, OnWaiting
    <3>2. TokensOf(u, "on")
      BY <2>3 DEF Fine, Kinds
    <3>3. nested[u] \/ \A p, g : ~Token(u, "on", p, g)
      BY <3>1, <3>2, TokensNone
    <3>4. QED
      BY <1>1, <3>2, <3>3, OwnTokens
  <2>4. CASE Top(u).isCnf
    <3>1. PICK call : call = [Top(u) EXCEPT !.at = "cnfWait"]
      OBVIOUS
    <3>2. GoesOn(call, Top(u), "cnfWait", Top(u).msg, Top(u).got)
      BY <1>1, <3>1, CallFields
    <3>3. Become(u, call) /\ IsCall(call) /\ call.at = "cnfWait" /\ call.msg = Top(u).msg
          /\ call.id = Top(u).id /\ call.isCnf = Top(u).isCnf
      BY <1>2, <1>7, <2>4, <3>1, <3>2 DEF GoesOn, Goto
    <3>4. At(u)' = "cnfWait" /\ Top(u)' = call
          /\ (Tail(stack[u]) = <<>> => Tail(stack'[u]) = <<>>)
      BY <1>1, <3>3, AfterBecome
    <3>5. Sequential(u)'
      BY <1>1, <3>3, <3>4 DEF Fine, Sequential
    <3>6. ASSUME dups = 0 PROVE TokensOf(u, "cnf")'
      <4>1. \A m : Expects(u, "cnf", m) => Expects(u, "cnf", m)'
        BY <3>3, <3>4, <2>4 DEF Expects
      <4>2. QED
        BY <1>1, <3>6, <4>1, OwnTokens DEF Fine, Kinds
    <3>7. \A kind : ~Awaits(u, kind)'
      BY <3>4 DEF Awaits, OnWaiting
    <3>8. QED
      BY <1>1, <1>4, <2>2, <2>3, <3>5, <3>6, <3>7 DEF Fine, Kinds, Owed
  <2>5. CASE ~Top(u).isCnf
    <3>1. Sequential(u)' /\ At(u)' \notin {"retWait", "cnfWait"} /\ (~nested[u] => ~OnWaiting(u)')
      BY <1>1, <1>2, <1>7, <2>5, AfterEndSend DEF Fine
    <3>2. ASSUME dups = 0 PROVE TokensOf(u, "cnf")'
      <4>1. \A m : ~Expects(u, "cnf", m)
        BY <2>5 DEF Expects
      <4>2. TokensOf(u, "cnf")
        BY <3>2 DEF Fine, Kinds
      <4>3. \A p, g : ~Token(u, "cnf", p, g)
        BY <4>1, <4>2, TokensNone
      <4>4. QED
        BY <1>1, <4>2, <4>3, OwnTokens
    <3>3. \A kind : ~Awaits(u, kind)'
      BY <1>1, <3>1 DEF Awaits
    <3>4. QED
      BY <1>1, <1>4, <2>2, <2>3, <3>1, <3>2, <3>3 DEF Fine, Kinds, Owed
  <2>6. QED
    BY <2>4, <2>5
<1>8. QED
  BY <1>6, <1>7

\* and the wait for the confirm.
LEMMA SendWaitCnfFine ==
    ASSUME IInv, FramesFit, NEW u \in Users, userSendWaitCnf(u), Fine(u)
    PROVE  Fine(u)'
<1>1. /\ Moves(u) /\ At(u) = "cnfWait" /\ stack[u] # <<>>
      /\ UNCHANGED <<up, down, dups, faults, accepted, calls, nested>>
  BY TopOfStack DEF userSendWaitCnf, Moves, Thread
<1>2. PICK f \in inbox[u] :
        /\ RecvFrom(u, f)
        /\ IF IsConfirm(u, f) THEN EndSend(u) /\ UNCHANGED lost
                              ELSE Lose(u, f, "wait") /\ UNCHANGED <<stack, slots>>
  BY DEF userSendWaitCnf
<1>3. Reads(u, f)
  BY <1>1, <1>2 DEF RecvFrom, FramesFit, Reads
<1>4. NotEaten(u)'
  BY <1>1, <1>2 DEF Fine, NotEaten, NoFaults, Lose, FramesFit
<1>5. CASE ~IsConfirm(u, f)
  <2>1. UNCHANGED <<stack[u], nested[u], slots[u]>>
    BY <1>1, <1>2, <1>5
  <2>2. Sequential(u)'
    BY <1>1, <2>1, ExpectsSame DEF Fine, Sequential
  <2>3. ASSUME dups' = 0, NEW kind \in Kinds PROVE TokensOf(u, kind)'
    BY <1>1, <2>1, <2>3, Expecting, ExpectsSame DEF Fine
  <2>4. \A kind : ~Awaits(u, kind)'
    BY <1>1, <2>1, ExpectsSame DEF Awaits, OnWaiting
  <2>5. QED
    BY <1>4, <2>2, <2>3, <2>4 DEF Fine, Owed
<1>6. CASE IsConfirm(u, f)
  <2>1. dups = 0 => f.w0 = u /\ Brings(u, "cnf", f)
    BY <1>6 DEF IsConfirm, From, recv_dest_user, recv_src_user, IsAnswer, Brings, FramesFit,
       DownFits
  <2>2. Sequential(u)' /\ At(u)' \notin {"retWait", "cnfWait"} /\ (~nested[u] => ~OnWaiting(u)')
    BY <1>1, <1>2, <1>6, AfterEndSend DEF Fine
  <2>3. ASSUME dups = 0 PROVE TokensOf(u, "cnf")'
    <3>1. \A p, g : ~Token(u, "cnf", p, g)'
      BY <1>3, <2>1, <2>3, TokenRead DEF Fine, Kinds
    <3>2. QED
      BY <3>1, TokensGone
  <2>4. ASSUME dups = 0, NEW kind \in {"ret", "on"} PROVE TokensOf(u, kind)'
    <3>1. (kind = "on" /\ nested[u]) \/ \A m : ~Expects(u, kind, m)
      BY <1>1 DEF Expects, OnWaiting
    <3>2. TokensOf(u, kind)
      BY <2>4 DEF Fine, Kinds
    <3>3. (kind = "on" /\ nested[u]) \/ \A p, g : ~Token(u, kind, p, g)
      BY <3>1, <3>2, TokensNone
    <3>4. QED
      BY <1>1, <3>2, <3>3, OwnTokens
  <2>5. \A kind : ~Awaits(u, kind)'
    BY <1>1, <2>2 DEF Awaits
  <2>6. QED
    BY <1>1, <1>4, <2>2, <2>3, <2>4, <2>5 DEF Fine, Kinds, Owed
<1>7. QED
  BY <1>5, <1>6

\* A click in the outermost event loop, or one that makes u nested.
LEMMA MoveClickedFine ==
    ASSUME IInv, FramesFit, NEW u \in Users, on_pushButton_move_clicked(u), Fine(u)
    PROVE  Fine(u)'
<1>1. /\ Moves(u) /\ InEvents(u) /\ (~nested'[u] => ~nested[u] /\ stack[u] = <<>>)
      /\ UNCHANGED <<up, down, inbox, faults, dups, slots, calls, lost>>
  BY DEF on_pushButton_move_clicked, Click, Moves, channelVars, FramesFit
<1>2. At(u) \notin {"retWait", "cnfWait"} /\ (~nested'[u] => ~OnWaiting(u))
  BY <1>1 DEF InEvents, At, OnWaiting
<1>3. At(u)' = "onEvents" /\ (stack[u] = <<>> => Tail(stack'[u]) = <<>>)
  <2>1. PICK call : call = [at |-> "onEvents", id |-> 0, isCnf |-> FALSE, msg |-> 0,
                            frame |-> frameNo[u], got |-> NoFrame]
    OBVIOUS
  <2>2. Push(u, call) /\ IsCall(call) /\ call.at = "onEvents"
    BY <2>1 DEF on_pushButton_move_clicked, IsCall
  <2>3. QED
    BY <1>1, <2>2, AfterPush
<1>4. Sequential(u)' /\ \A kind : ~Awaits(u, kind)'
  BY <1>1, <1>3 DEF Sequential, Awaits, OnWaiting
<1>5. NotEaten(u)'
  BY <1>1 DEF Fine, NotEaten, NoFaults
<1>6. ASSUME dups = 0, NEW kind \in Kinds PROVE TokensOf(u, kind)'
  <2>1. (kind = "on" /\ nested'[u]) \/ \A p, f : ~Token(u, kind, p, f)
    BY <1>1, <1>2, <1>6, NothingInFlight DEF Fine, Kinds
  <2>2. QED
    BY <1>1, <1>6, <2>1, OwnTokens DEF Fine
<1>7. QED
  BY <1>1, <1>4, <1>5, <1>6 DEF Fine, Owed

\* userSend puts its message on the way before it waits, or does not wait.
LEMMA SendClickedFine ==
    ASSUME IInv, FramesFit, NEW u \in Users, on_pushButton_send_clicked(u), Fine(u)
    PROVE  Fine(u)'
<1>1. /\ Moves(u) /\ InEvents(u) /\ (~nested'[u] => ~nested[u] /\ stack[u] = <<>>)
      /\ UNCHANGED <<down, inbox, dups, calls, lost>> /\ calls[u] = 0
  BY DEF on_pushButton_send_clicked, Click, InEvents, Moves, FramesFit
<1>2. At(u) \notin {"retWait", "cnfWait"} /\ (~nested'[u] => ~OnWaiting(u))
  BY <1>1 DEF InEvents, At, OnWaiting
<1>3. NotEaten(u)' /\ (NoFaults' => NoFaults)
  BY <1>1, MovesMonotone DEF Fine, NotEaten, NoFaults, Monotone, FramesFit
<1>4. ASSUME dups = 0, NEW kind \in Kinds
      PROVE  (kind = "on" /\ nested'[u]) \/ \A p, f : ~Token(u, kind, p, f)
  BY <1>1, <1>2, <1>4, NothingInFlight DEF Fine, Kinds
<1>5. PICK id \in Addressees, radio \in RadioButtons : userSend(u, radio[1], radio[2], id)
  BY DEF on_pushButton_send_clicked
<1>6. PICK opt : opt = SendOption(radio[1], radio[2])
  OBVIOUS
<1>7. /\ opt \in MessageOpts /\ (opt = PlainOpt <=> ~radio[1])
      /\ (opt = CnfOpt => radio[1] /\ radio[2])
  BY <1>6, OptionsDiffer DEF SendOption, RadioButtons
<1>8. PICK m : m = UpFrame(stamp, u, id, frameNo[u], opt, TextByte, stamp)
  OBVIOUS
<1>9. m.w0 = u /\ m.opt = opt /\ m.msg = stamp
  BY <1>8 DEF UpFrame
<1>10. CASE UNCHANGED stack /\ (opt = PlainOpt \/ up' = up) /\ (up' = up \/ up' = up \cup {m})
  <2>1. At(u)' = At(u) /\ (OnWaiting(u)' => nested'[u])
    BY <1>1, <1>10 DEF At, OnWaiting
  <2>2. Sequential(u)' /\ \A kind : ~Awaits(u, kind)'
    BY <1>1, <1>2, <1>10, <2>1 DEF Sequential, Awaits, At
  <2>3. \A kind \in Kinds : \A f \in up' : f \in up \/ ~Asks(u, kind, f)
    BY <1>9, <1>10, OptionsDiffer DEF Kinds, Asks
  <2>4. ASSUME dups = 0, NEW kind \in Kinds PROVE TokensOf(u, kind)'
    BY <1>1, <1>4, <2>3, <2>4, OwnTokens DEF Fine
  <2>5. QED
    BY <1>1, <1>3, <2>2, <2>4 DEF Fine, Owed
<1>11. CASE /\ (up' = up /\ faults' # 0) \/ up' = up \cup {m}
            /\ Push(u, [at |-> "retWait", id |-> id, isCnf |-> radio[2],
                        msg |-> stamp, frame |-> frameNo[u], got |-> NoFrame])
            /\ radio[1]
  <2>1. PICK call : call = [at |-> "retWait", id |-> id, isCnf |-> radio[2],
                            msg |-> stamp, frame |-> frameNo[u], got |-> NoFrame]
    OBVIOUS
  <2>2. /\ Push(u, call) /\ IsCall(call) /\ call.at = "retWait" /\ call.id = id
        /\ call.isCnf = radio[2] /\ call.msg = stamp
    BY <1>11, <2>1 DEF IsCall
  <2>3. /\ At(u)' = "retWait" /\ Top(u)' = call
        /\ (stack[u] = <<>> => Tail(stack'[u]) = <<>>)
    BY <1>1, <2>2, AfterPush
  <2>4. Sequential(u)'
    BY <1>1, <2>2, <2>3, OptionsDiffer DEF Sequential
  <2>5. ASSUME dups = 0, NEW kind \in Kinds PROVE TokensOf(u, kind)'
    <3>1. CASE up' = up \/ ~Asks(u, kind, m)
      BY <1>1, <1>4, <1>11, <2>5, <3>1, OwnTokens DEF Fine
    <3>2. CASE up' = up \cup {m} /\ Asks(u, kind, m)
      <4>1. kind \in {"ret", "cnf"} /\ (kind = "cnf" => radio[2])
        BY <1>7, <1>9, <2>5, <3>2, OptionsDiffer DEF Asks
      <4>2. \A p, f : Token(u, kind, p, f)' => p = "up" /\ f = m
        BY <1>1, <1>4, <2>5, <3>2, <4>1 DEF Token
      <4>3. Expects(u, kind, m.msg)'
        BY <1>9, <2>2, <2>3, <4>1 DEF Expects
      <4>4. QED
        BY <4>2, <4>3, TokenOnly
    <3>3. QED
      BY <1>11, <3>1, <3>2
  <2>6. ASSUME NEW kind \in Kinds PROVE Owed(u, kind)'
    <3>1. SUFFICES ASSUME NoFaults', kind = "ret" PROVE \E p, f : Token(u, kind, p, f)'
      BY <2>3 DEF Owed, Awaits, OnWaiting
    <3>2. Token(u, kind, "up", m)'
      BY <1>7, <1>9, <1>11, <3>1 DEF NoFaults, Token, Asks
    <3>3. QED
      BY <3>2
  <2>7. QED
    BY <1>1, <1>3, <2>4, <2>5, <2>6 DEF Fine
<1>12. QED
  <2>1. SendTo(m) => (up' = up /\ faults' # 0) \/ up' = up \cup {m}
    BY DEF SendTo, FramesFit
  <2>2. SocketError => up' = up
    BY DEF SocketError
  <2>3. \/ SocketError /\ UNCHANGED stack
        \/ /\ SendTo(m)
           /\ IF radio[1]
              THEN Push(u, [at |-> "retWait", id |-> id, isCnf |-> radio[2],
                            msg |-> stamp, frame |-> frameNo[u], got |-> NoFrame])
              ELSE UNCHANGED stack
    BY <1>5, <1>6, <1>8 DEF userSend
  <2>4. QED
    BY <1>7, <1>10, <1>11, <2>1, <2>2, <2>3

\* Every step of u itself.
LEMMA OwnFine ==
    ASSUME IInv, FramesFit, NEW u \in Users, Moves(u), Fine(u)
    PROVE  Fine(u)'
  BY ReadyReadFine, RecvMessageFine, UserOnFine, UserOnWaitFine, OnReadFine, OnTestFine,
     SendWaitRetFine, SendWaitCnfFine, MoveClickedFine, SendClickedFine DEF Moves, Thread

-----------------------------------------------------------------------------
(* The station and the network.                                            *)

\* A frame f gives way to frames of which at most x is a token, and only if f was.
LEMMA TokenPassed ==
    ASSUME NEW u \in Users, NEW kind, TokensOf(u, kind), NEW from, NEW to, from # to,
           NEW f, NEW x,
           Token(u, kind, to, x)' => Token(u, kind, from, f) /\ x.msg = f.msg
                                     /\ (kind = "ret" => x.msg \in accepted'),
           ~Token(u, kind, from, f)',
           \A p, g : Token(u, kind, p, g)' => Token(u, kind, p, g) \/ (p = to /\ g = x),
           stack'[u] = stack[u], nested'[u] = nested[u], accepted \subseteq accepted'
    PROVE  TokensOf(u, kind)'
<1>1. \A m : Expects(u, kind, m)' <=> Expects(u, kind, m)
  BY ExpectsSame
<1>2. CASE ~Token(u, kind, to, x)'
  <2>1. \A p, g : Token(u, kind, p, g)' => Token(u, kind, p, g)
    BY <1>2
  <2>2. QED
    BY <1>1, <2>1, TokensKept
<1>3. CASE kind = "on" /\ nested[u]
  BY <1>3, TokensNested
<1>4. CASE Token(u, kind, to, x)' /\ ~(kind = "on" /\ nested[u])
  <2>1. Token(u, kind, from, f)
    BY <1>4
  <2>2. \A p, g : Token(u, kind, p, g) => p = from /\ g = f
    BY <1>4, <2>1 DEF TokensOf
  <2>3. \A p, g : Token(u, kind, p, g)' => p = to /\ g = x
    BY <2>2
  <2>4. Expects(u, kind, f.msg)
    BY <2>1 DEF TokensOf
  <2>5. x.msg = f.msg /\ (kind = "ret" => x.msg \in accepted')
    BY <1>4
  <2>6. Expects(u, kind, x.msg)'
    BY <1>1, <2>4, <2>5
  <2>7. QED
    BY <2>3, <2>5, <2>6, TokenOnly
<1>5. QED
  BY <1>2, <1>3, <1>4

\* Of the frames that the station sends for f at most x brings u anything of that
\* kind, and it does if f asks for a receipt or for the answer to a report.
Passes(u, kind, f, x) ==
    /\ up' = up \ {f} /\ down \subseteq down'
    /\ \A y \in down' : y \in down \/ y = x \/ ~Brings(u, kind, y)
    /\ Brings(u, kind, x) => Asks(u, kind, f) /\ x.msg = f.msg
                             /\ (kind = "ret" => x.msg \in accepted')
    /\ kind # "cnf" /\ Asks(u, kind, f) => \E y \in down' : Brings(u, kind, y)

\* Each step of the station takes a frame and passes its token on.
LEMMA StationPasses ==
    ASSUME FramesFit, dups = 0, NEW u \in Users, NEW kind \in Kinds,
           StationOn \/ (StationStep /\ UNCHANGED <<clientVars, historyVars>>)
    PROVE  /\ \E f \in up : \E x : Passes(u, kind, f, x)
           /\ accepted \subseteq accepted'
           /\ UNCHANGED <<inbox, faults, dups, clientVars, historyVars>>
<1>1. PICK f \in up :
        /\ up' = up \ {f} /\ accepted \subseteq accepted'
        /\ UNCHANGED <<inbox, faults, dups, clientVars, historyVars>>
        /\ \/ \E g : /\ f.opt \in {OnOpt, ReplyOpt} /\ g.opt = ReplyOpt /\ g.msg = f.msg
                     /\ down' = down \cup {g}
                     /\ IF f.opt = OnOpt
                        THEN g.w0 = f.w0 /\ g.w1 = Station /\ g.data \notin {Receipt, Confirm}
                        ELSE g.w0 = f.w1 /\ g.w1 = f.w0
           \/ \E g, h : /\ f.opt \in MessageOpts /\ f.msg \in accepted'
                        /\ g.w1 = f.w0 /\ g.opt = f.opt /\ g.msg = f.msg
                        /\ h.w0 = f.w0 /\ h.w1 = Station /\ h.opt = ReplyOpt
                        /\ h.data = Receipt /\ h.msg = f.msg
                        /\ down' = IF f.opt = PlainOpt THEN down \cup {g}
                                                       ELSE down \cup {g, h}
  BY StationSends
<1>2. f.w0 \in Users
  BY DEF FramesFit
<1>3. ASSUME NEW g, f.opt = OnOpt, g.opt = ReplyOpt, g.msg = f.msg, down' = down \cup {g},
             g.w0 = f.w0, g.w1 = Station, g.data # Receipt
      PROVE  Passes(u, kind, f, g)
  BY <1>1, <1>3, OptionsDiffer DEF Passes, Brings, Asks, Kinds
<1>4. ASSUME NEW g, f.opt = ReplyOpt, g.opt = ReplyOpt, g.msg = f.msg, down' = down \cup {g},
             g.w0 = f.w1, g.w1 = f.w0
      PROVE  Passes(u, kind, f, g)
  BY <1>1, <1>2, <1>4, OptionsDiffer DEF Passes, Brings, Asks, Kinds
<1>5. ASSUME NEW g, NEW h, f.opt \in MessageOpts, f.msg \in accepted',
             g.w1 = f.w0, g.opt = f.opt, g.msg = f.msg,
             h.w0 = f.w0, h.w1 = Station, h.opt = ReplyOpt, h.data = Receipt, h.msg = f.msg,
             down' = IF f.opt = PlainOpt THEN down \cup {g} ELSE down \cup {g, h}
      PROVE  \E x : Passes(u, kind, f, x)
  <2>1. kind # "ret" => ~Brings(u, kind, h)
    BY <1>5, OptionsDiffer DEF Brings, Kinds
  <2>2. kind # "cnf" => ~Brings(u, kind, g)
    BY <1>5, OptionsDiffer DEF Brings, Kinds
  <2>3. Brings(u, "cnf", g) => Asks(u, "cnf", f)
    BY <1>5, OptionsDiffer DEF Brings, Asks
  <2>4. CASE kind = "ret" /\ f.opt # PlainOpt
    <3>1. Passes(u, kind, f, h)
      BY <1>1, <1>5, <2>2, <2>4, OptionsDiffer DEF Passes, Brings, Asks
    <3>2. QED
      BY <3>1
  <2>5. CASE kind = "cnf"
    <3>1. Passes(u, kind, f, g)
      BY <1>1, <1>5, <2>1, <2>3, <2>5 DEF Passes
    <3>2. QED
      BY <3>1
  <2>6. CASE kind = "on" \/ (kind = "ret" /\ f.opt = PlainOpt)
    <3>1. ~Asks(u, kind, f)
      BY <1>5, <2>6, OptionsDiffer DEF Asks
    <3>2. \A y \in down' : y \in down \/ ~Brings(u, kind, y)
      BY <1>5, <2>1, <2>2, <2>6
    <3>3. Passes(u, kind, f, g)
      BY <1>1, <1>5, <2>2, <2>6, <3>1, <3>2 DEF Passes
    <3>4. QED
      BY <3>3
  <2>7. QED
    BY <2>4, <2>5, <2>6 DEF Kinds
<1>6. QED
  BY <1>1, <1>3, <1>4, <1>5

\* Nothing of the client changes.
LEMMA ClientsSame ==
    ASSUME NEW u \in Users, UNCHANGED <<clientVars, historyVars>>
    PROVE  /\ stack'[u] = stack[u] /\ nested'[u] = nested[u]
           /\ Fine(u) => Sequential(u)'
           /\ Fine(u) /\ (NoFaults' => NoFaults) => NotEaten(u)'
<1>1. UNCHANGED <<stack, nested, slots, calls, lost>>
  BY DEF clientVars, historyVars
<1>2. QED
  BY <1>1, ExpectsSame, TopOfStack DEF Fine, Sequential, NotEaten

\* So it keeps the tokens of every client.
LEMMA StationFine ==
    ASSUME FramesFit, NEW u \in Users, Fine(u),
           StationOn \/ (StationStep /\ UNCHANGED <<clientVars, historyVars>>)
    PROVE  Fine(u)'
<1>1. UNCHANGED <<faults, dups, clientVars, historyVars>>
  BY DEF StationOn, StationStep, StationMessage, StationConfirm, StationMove
<1>2. Sequential(u)' /\ NotEaten(u)' /\ stack'[u] = stack[u] /\ nested'[u] = nested[u]
  BY <1>1, ClientsSame DEF NoFaults
<1>3. ASSUME dups' = 0, NEW kind \in Kinds
      PROVE  TokensOf(u, kind)' /\ Owed(u, kind)'
  <2>0. PICK f \in up : \E x : Passes(u, kind, f, x)
    BY <1>1, <1>3, StationPasses
  <2>1. PICK x : Passes(u, kind, f, x)
    BY <2>0
  <2>2. accepted \subseteq accepted' /\ inbox' = inbox
    BY <1>1, <1>3, StationPasses
  <2>3. TokensOf(u, kind)'
    <3>1. Token(u, kind, "down", x)' => Token(u, kind, "up", f) /\ x.msg = f.msg
                                       /\ (kind = "ret" => x.msg \in accepted')
      BY <2>1 DEF Passes, Token
    <3>2. ~Token(u, kind, "up", f)'
      BY <2>1 DEF Passes, Token
    <3>3. \A p, g : Token(u, kind, p, g)' => Token(u, kind, p, g) \/ (p = "down" /\ g = x)
      BY <2>1, <2>2 DEF Passes, Token
    <3>4. QED
      <4>1. TokensOf(u, kind)
        BY <1>1, <1>3 DEF Fine
      <4>2. PICK from, to : from = "up" /\ to = "down"
        OBVIOUS
      <4>3. QED
        BY <1>2, <2>2, <3>1, <3>2, <3>3, <4>1, <4>2, TokenPassed
  <2>4. Owed(u, kind)'
    <3>1. SUFFICES ASSUME NoFaults', Awaits(u, kind)' PROVE \E p, g : Token(u, kind, p, g)'
      BY DEF Owed
    <3>2. NoFaults /\ Awaits(u, kind) /\ kind # "cnf"
      BY <1>1, <1>2, <3>1, ExpectsSame DEF NoFaults, Awaits
    <3>3. PICK p, g : Token(u, kind, p, g)
      BY <1>1, <1>3, <3>2 DEF Fine, Owed
    <3>4. CASE p = "up" /\ g = f
      BY <2>1, <3>2, <3>3, <3>4 DEF Token, Passes
    <3>5. CASE ~(p = "up" /\ g = f)
      <4>1. Token(u, kind, p, g)'
        BY <2>1, <2>2, <3>3, <3>5 DEF Token, Passes
      <4>2. QED
        BY <4>1
    <3>6. QED
      BY <3>4, <3>5
  <2>5. QED
    BY <2>3, <2>4
<1>4. QED
  BY <1>2, <1>3 DEF Fine

\* ChannelUnitForward takes a frame from the connection and sends it to everybody.
LEMMA ForwardFine ==
    ASSUME FramesFit, NEW u \in Users, Fine(u), Forward, UNCHANGED <<clientVars, historyVars>>
    PROVE  Fine(u)'
<1>1. PICK f \in down :
        /\ down' = down \ {f} /\ UNCHANGED <<up, dups, accepted>>
        /\ \A v \in Users : inbox[v] \subseteq inbox'[v] /\ inbox'[v] \subseteq inbox[v] \cup {f}
        /\ faults' \in Nat /\ faults <= faults'
        /\ faults' = 0 => \A v \in Users : f \in inbox'[v]
  BY ForwardSends
<1>2. NoFaults' => NoFaults /\ faults' = 0
  BY <1>1 DEF NoFaults, FramesFit
<1>3. Sequential(u)' /\ NotEaten(u)' /\ stack'[u] = stack[u] /\ nested'[u] = nested[u]
  BY <1>2, ClientsSame
<1>4. ASSUME dups' = 0, NEW kind \in Kinds
      PROVE  TokensOf(u, kind)' /\ Owed(u, kind)'
  <2>1. TokensOf(u, kind)
    BY <1>1, <1>4 DEF Fine
  <2>2. TokensOf(u, kind)'
    <3>1. Token(u, kind, "inbox", f)' => Token(u, kind, "down", f)
      BY <1>1 DEF Token
    <3>2. Token(u, kind, "down", f) => (kind = "ret" => f.msg \in accepted')
      BY <1>1, <2>1 DEF TokensOf
    <3>3. ~Token(u, kind, "down", f)'
      BY <1>1 DEF Token
    <3>4. \A p, g : Token(u, kind, p, g)' => Token(u, kind, p, g) \/ (p = "inbox" /\ g = f)
      BY <1>1 DEF Token
    <3>5. QED
      <4>1. PICK from, to : from = "down" /\ to = "inbox"
        OBVIOUS
      <4>2. QED
        BY <1>1, <1>3, <2>1, <3>1, <3>2, <3>3, <3>4, <4>1, TokenPassed
  <2>3. Owed(u, kind)'
    <3>1. SUFFICES ASSUME NoFaults', Awaits(u, kind)' PROVE \E p, g : Token(u, kind, p, g)'
      BY DEF Owed
    <3>2. NoFaults /\ faults' = 0 /\ Awaits(u, kind) /\ kind # "cnf"
      BY <1>2, <1>3, <3>1, ExpectsSame DEF Awaits
    <3>3. PICK p, g : Token(u, kind, p, g)
      BY <1>1, <1>4, <3>2 DEF Fine, Owed
    <3>4. CASE p = "down" /\ g = f
      <4>1. f.w0 = u /\ Brings(u, kind, f)
        BY <3>2, <3>3, <3>4 DEF Token, Brings
      <4>2. Token(u, kind, "inbox", f)'
        BY <1>1, <3>2, <4>1 DEF Token
      <4>3. QED
        BY <4>2
    <3>5. CASE ~(p = "down" /\ g = f)
      <4>1. Token(u, kind, p, g)'
        BY <1>1, <3>3, <3>5 DEF Token
      <4>2. QED
        BY <4>1
    <3>6. QED
      BY <3>4, <3>5
  <2>4. QED
    BY <2>2, <2>3
<1>5. QED
  BY <1>3, <1>4 DEF Fine

\* After a duplication nothing is said of tokens.
LEMMA DuplicateFine ==
    ASSUME FramesFit, NEW u \in Users, Fine(u), Duplicate, UNCHANGED <<clientVars, historyVars>>
    PROVE  Fine(u)'
<1>1. dups' # 0
  BY DEF Duplicate, FramesFit
<1>2. QED
  BY <1>1, ClientsSame DEF Fine, NoFaults

-----------------------------------------------------------------------------
(* The invariant, and what it says of the client.                          *)

\* At the start no frame is in flight.
LEMMA InitFrames == Init => FramesInv
<1> SUFFICES ASSUME Init PROVE FramesInv
  OBVIOUS
<1>1. FramesFit
  BY ChannelAssumption DEF Init, ChannelInit, FramesFit
<1>2. ASSUME NEW u \in Users PROVE Fine(u)
  <2>1. \A kind, p, f : ~Token(u, kind, p, f)
    BY DEF Init, ChannelInit, Token
  <2>2. At(u) = "loop" /\ stack[u] = <<>> /\ lost[u] = {}
    BY DEF Init, At
  <2>3. QED
    BY <2>1, <2>2 DEF Fine, Sequential, NotEaten, TokensOf, Owed, Awaits, OnWaiting
<1>3. QED
  BY <1>1, <1>2, InitInv DEF FramesInv

\* Every step keeps the invariant.
LEMMA NextFrames == FramesInv /\ [Next]_vars => FramesInv'
<1> SUFFICES ASSUME FramesInv, [Next]_vars
             PROVE  FramesInv'
  OBVIOUS
<1>1. IInv /\ FramesFit /\ IInv' /\ FramesFit'
  BY NextInv, NextFits DEF FramesInv
<1>2. ASSUME NEW u \in Users PROVE Fine(u)'
  <2>1. Fine(u)
    BY DEF FramesInv
  <2>2. ASSUME NEW w \in Users, Moves(w) PROVE Fine(u)'
    BY <1>1, <2>1, <2>2, OwnFine, OthersFine
  <2>3. CASE StationOn \/ (StationStep /\ UNCHANGED <<clientVars, historyVars>>)
    BY <1>1, <2>1, <2>3, StationFine
  <2>4. CASE (Forward \/ Duplicate) /\ UNCHANGED <<clientVars, historyVars>>
    BY <1>1, <2>1, <2>4, ForwardFine, DuplicateFine
  <2>5. CASE UNCHANGED vars
    <3>1. UNCHANGED <<up, down, inbox, faults, dups, accepted, clientVars, historyVars>>
      BY <2>5 DEF vars, channelVars
    <3>2. stack'[u] = stack[u] /\ nested'[u] = nested[u]
      BY <3>1, ClientsSame
    <3>3. \A kind, p, f : Token(u, kind, p, f)' <=> Token(u, kind, p, f)
      BY <3>1 DEF Token
    <3>4. \A kind \in Kinds : TokensOf(u, kind) => TokensOf(u, kind)'
      BY <3>1, <3>2, <3>3, ExpectsSame, TokensKept
    <3>5. \A kind \in Kinds : Owed(u, kind) => Owed(u, kind)'
      BY <3>1, <3>2, <3>3, ExpectsSame DEF Owed, NoFaults
    <3>6. QED
      BY <2>1, <3>1, <3>4, <3>5, ClientsSame DEF Fine, NoFaults
  <2>6. QED
    BY <2>2, <2>3, <2>4, <2>5 DEF Next, Moves, Delivery, ChannelStep
<1>3. QED
  BY <1>1, <1>2 DEF FramesInv

\* What is in flight for a client is what its innermost call waits for, always.
THEOREM FramesCorrect == Spec => []FramesInv
<1>1. Init => FramesInv
  BY InitFrames
<1>2. FramesInv /\ [Next]_vars => FramesInv'
  BY NextFrames
<1>3. QED
  BY <1>1, <1>2, PTL DEF Spec

\* Without faults, and unless a click of the client was handled inside a call,
\* recvMessage takes no answer from a call (userRecv, userOnWait).
THEOREM EatenNested == Spec => []EatenOnlyWhenNested
<1>1. FramesInv => EatenOnlyWhenNested
  BY DEF FramesInv, Fine, NotEaten, EatenOnlyWhenNested
<1>2. QED
  BY <1>1, FramesCorrect, PTL

\* While userOnWait waits, the report or its answer is on its way, unless something
\* was lost or a click was handled inside a call (userOn, userOnWait).
THEOREM OnAnswerAlwaysOwed == Spec => []OnAnswerOwed
<1>1. FramesInv => OnAnswerOwed
  <2>1. SUFFICES ASSUME FramesInv, NoFaults, NEW u \in Users, At(u) = "onWait", ~nested[u]
                 PROVE  \E f \in up \cup down \cup inbox[u] : f.msg = Top(u).msg
    BY DEF OnAnswerOwed
  <2>2. TokensOf(u, "on") /\ Owed(u, "on")
    BY <2>1 DEF FramesInv, Fine, NoFaults, Kinds
  <2>3. PICK p, f : Token(u, "on", p, f)
    BY <2>1, <2>2 DEF Owed, Awaits, OnWaiting
  <2>4. f.msg = Top(u).msg
    BY <2>1, <2>2, <2>3 DEF TokensOf, Expects
  <2>5. QED
    BY <2>3, <2>4 DEF Token, Brings
<1>2. QED
  BY <1>1, FramesCorrect, PTL

\* While userSendWaitRet waits, its message or the receipt is on its way, unless
\* something was lost, however calls are nested (userSend, userSendWaitRet).
THEOREM ReceiptAlwaysOwed == Spec => []ReceiptOwed
<1>1. FramesInv => ReceiptOwed
  <2>1. SUFFICES ASSUME FramesInv, NoFaults, NEW u \in Users, At(u) = "retWait"
                 PROVE  \/ \E f \in up : f.msg = Top(u).msg /\ f.opt # ReplyOpt
                        \/ \E f \in down \cup inbox[u] : f.msg = Top(u).msg /\ f.data = Receipt
    BY DEF ReceiptOwed
  <2>2. TokensOf(u, "ret") /\ Owed(u, "ret")
    BY <2>1 DEF FramesInv, Fine, NoFaults, Kinds
  <2>3. PICK p, f : Token(u, "ret", p, f)
    BY <2>1, <2>2 DEF Owed, Awaits
  <2>4. f.msg = Top(u).msg
    BY <2>1, <2>2, <2>3 DEF TokensOf, Expects
  <2>5. QED
    BY <2>3, <2>4, OptionsDiffer DEF Token, Asks, Brings
<1>2. QED
  BY <1>1, FramesCorrect, PTL

\* userSendWaitRet reports a receipt only for a message that the station has
\* accepted, as long as no datagram is duplicated: it compares no frame numbers, so
\* a second copy of an old receipt would do for any later message.
THEOREM ReceiptsSound ==
    ASSUME MaxDups = 0
    PROVE  Spec => []ReceiptSound
<1>1. Init => ReceiptSound
  BY DEF Init, ReceiptSound
<1>2. FramesInv /\ ReceiptSound /\ [Next]_vars => ReceiptSound'
  <2> SUFFICES ASSUME FramesInv, ReceiptSound, [Next]_vars
               PROVE  ReceiptSound'
    OBVIOUS
  <2>1. ASSUME NEW u \in Users, userSendWaitRet(u) PROVE ReceiptSound'
    <3>1. PICK f \in inbox[u] :
            IF IsReceipt(u, f) THEN receipted' = receipted \cup {Top(u).msg}
                               ELSE receipted' = receipted
      BY <2>1 DEF userSendWaitRet
    <3>2. At(u) = "retWait" /\ accepted' = accepted
      BY <2>1 DEF userSendWaitRet
    <3>3. ASSUME IsReceipt(u, f) PROVE Top(u).msg \in accepted
      <4>1. Token(u, "ret", "inbox", f)
        BY <3>3 DEF IsReceipt, From, recv_dest_user, recv_src_user, IsAnswer, Token, Brings
      <4>2. TokensOf(u, "ret")
        BY DEF FramesInv, FramesFit, Fine, Kinds
      <4>3. QED
        BY <4>1, <4>2 DEF TokensOf, Expects
    <3>4. QED
      BY <3>1, <3>2, <3>3 DEF ReceiptSound
  <2>2. ASSUME NEW u \in Users, Moves(u), ~userSendWaitRet(u) PROVE UNCHANGED receipted
    BY <2>2 DEF Moves, Thread, ReadyRead, recvMessage, userOn, userOnWait, OnRead, OnTest,
       userSendWaitCnf, on_pushButton_move_clicked, on_pushButton_send_clicked, historyVars
  <2>3. ASSUME NEW u \in Users, Moves(u) PROVE accepted' = accepted
    BY <2>3, MovesOnly DEF FramesInv, Only
  <2>4. CASE StationOn \/ Delivery
    BY <2>4 DEF StationOn, Delivery, ChannelStep, StationStep, StationMessage, StationConfirm,
       StationMove, Forward, Duplicate, historyVars, ReceiptSound
  <2>5. CASE UNCHANGED vars
    BY <2>5 DEF vars, channelVars, historyVars, ReceiptSound
  <2>6. QED
    BY <2>1, <2>2, <2>3, <2>4, <2>5 DEF Next, Moves, ReceiptSound
<1>3. QED
  BY <1>1, <1>2, FramesCorrect, PTL DEF Spec
=============================================================================
