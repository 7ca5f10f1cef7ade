---------------------------- MODULE ClientAllInv ----------------------------
(***************************************************************************)
(* The inductive invariants behind the safety properties of ClientAll:     *)
(* what the frames in flight say is true, and at most one of them can      *)
(* bring a client the confirm it waits for.                                *)
(***************************************************************************)
EXTENDS ClientAll

\* Message m went from src to dst with one of these options.
SentAs(m, src, dst, opts) ==
    \E s \in sent : s.msg = m /\ s.src = src /\ s.dst = dst /\ s.opt \in opts

\* A message on its way up was sent as it says; a confirm on its way up is from
\* a client that has displayed the message, and goes to its sender.
UpTrue(f) ==
    /\ f.opt \in MessageOpts => SentAs(f.msg, f.w0, f.w1, {f.opt})
    /\ f.opt = ReplyOpt =>
         /\ f.w0 \in Users /\ f.msg \in shown[f.w0]
         /\ SentAs(f.msg, f.w1, f.w0, {CnfOpt})

\* On its way down, with the header words swapped, the message has also been
\* accepted; a receipt tells of an accepted message of its addressee; and the
\* station confirms nothing itself.
DownTrue(f) ==
    /\ f.opt \in MessageOpts =>
         f.msg \in accepted /\ SentAs(f.msg, f.w1, f.w0, {f.opt})
    /\ f.opt = ReplyOpt /\ f.w1 # Station =>
         /\ f.w1 \in Users /\ f.msg \in shown[f.w1]
         /\ SentAs(f.msg, f.w0, f.w1, {CnfOpt})
    /\ f.opt = ReplyOpt /\ f.w1 = Station /\ f.data = Receipt =>
         /\ f.msg \in accepted
         /\ \E dst \in Nat : SentAs(f.msg, f.w0, dst, {RetOpt, CnfOpt})
    /\ f.opt = ReplyOpt /\ f.data = Confirm => f.w1 # Station

Waiting(u) == pc[u] \in {"sendWaitRet", "sendWaitCnf"}

CallTrue(u) ==
    Waiting(u) => SentAs(call[u].msg, u, call[u].id, MessageOpts)

\* Holds whatever the network does.
FramesTrue ==
    /\ \A f \in up : UpTrue(f)
    /\ \A f \in down : DownTrue(f)
    /\ \A u \in Users : (\A f \in inbox[u] : DownTrue(f)) /\ CallTrue(u)

-----------------------------------------------------------------------------
\* A frame that brings u closer to a confirm: u's message that asks for one, or
\* the confirm.  Of the copies of a broadcast only the addressee's counts.
Asks(u, f) ==
    \/ f.opt = CnfOpt /\ f.w1 = u
    \/ f.opt = ReplyOpt /\ f.w0 = u /\ f.w1 # Station

Places == {"up", "down", "inbox"}

Token(u, place, f) ==
    \/ /\ place = "up" /\ f \in up
       /\ \/ f.opt = CnfOpt /\ f.w0 = u
          \/ f.opt = ReplyOpt /\ f.w1 = u
    \/ place = "down" /\ f \in down /\ Asks(u, f)
    \/ place = "inbox" /\ f.w0 \in Users /\ f \in inbox[f.w0] /\ Asks(u, f)

AllFrames == up \cup down \cup UNION {inbox[u] : u \in Users}

\* Such a frame is about the message that u waits for a confirm of.
TokensCurrent ==
    \A u \in Users, place \in Places, f \in AllFrames :
        Token(u, place, f) =>
            Waiting(u) /\ call[u].isCnf /\ f.msg = call[u].msg

\* And there is at most one.
TokensUnique ==
    \A u \in Users, p, q \in Places, f, g \in AllFrames :
        Token(u, p, f) /\ Token(u, q, g) => p = q /\ f = g

\* Holds when no datagram is duplicated and no client restarted.
Tokens == TokensCurrent /\ TokensUnique
=============================================================================
