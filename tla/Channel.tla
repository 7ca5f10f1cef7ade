------------------------------ MODULE Channel ------------------------------
(***************************************************************************)
(* Everything between two clients: the UDP hop to ChannelUnitBackward and  *)
(* its TCP connection, the central station (not in this repository), the   *)
(* TCP connection to ChannelUnitForward and its UDP broadcast.             *)
(*                                                                         *)
(*   client --UDP--> Backward --TCP--> station --TCP--> Forward --UDP-->   *)
(*          `up'                                `down'         `inbox[u]'  *)
(*                                                                         *)
(* A UDP datagram may be lost, duplicated and, unless Ordered, overtaken.  *)
(***************************************************************************)
EXTENDS Wire

CONSTANTS Ordered,      \* UDP hops keep the order of sending
          MaxFaults,    \* bound: lost datagrams and failed socket calls
          MaxDups       \* bound: duplicated datagrams

ASSUME ChannelAssumption ==
    Ordered \in BOOLEAN /\ MaxFaults \in Nat /\ MaxDups \in Nat

VARIABLES up,           \* datagrams on their way to the station
          down,         \* frames in the TCP connection to ChannelUnitForward
          inbox,        \* inbox[u]: datagrams sent to the socket of client u
          stamp,        \* next frame id
          faults, dups, \* faults and duplications so far
          accepted      \* messages the station has taken in

channelVars == <<up, down, inbox, stamp, faults, dups, accepted>>

ChannelInit ==
    /\ up = {} /\ down = {}
    /\ inbox = [u \in Users |-> {}]
    /\ stamp = 1
    /\ faults = 0 /\ dups = 0
    /\ accepted = {}

ChannelTypeOK ==
    /\ up \subseteq Frame /\ down \subseteq Frame
    /\ inbox \in [Users -> SUBSET Frame]
    /\ stamp \in Nat \ {0}
    /\ faults \in 0 .. MaxFaults /\ dups \in 0 .. MaxDups
    /\ accepted \subseteq Nat

First(S, f) == \A g \in S : f.id <= g.id

\* The datagram f of a UDP hop may be the next one to arrive.
MayArrive(S, f) == Ordered => First(S, f)

-----------------------------------------------------------------------------
(* Socket calls of a client.                                               *)

\* UdpSocket::SendTo returns a length: the datagram is on its way, or lost.
SendTo(f) ==
    /\ stamp' = stamp + 1
    /\ \/ up' = up \cup {f} /\ UNCHANGED faults
       \/ faults < MaxFaults /\ faults' = faults + 1 /\ UNCHANGED up

\* UdpSocket::SendTo or RecvFrom returns a negative value: nothing is sent, or
\* nothing is taken from the socket.
SocketError ==
    faults < MaxFaults /\ faults' = faults + 1 /\ UNCHANGED <<stamp, up>>

\* UdpSocket::RecvFrom hands datagram f to client u.  When no f qualifies the
\* action is disabled: the socket is blocking, and so is the call.
RecvFrom(u, f) ==
    /\ f \in inbox[u] /\ MayArrive(inbox[u], f)
    /\ inbox' = [inbox EXCEPT ![u] = @ \ {f}]

-----------------------------------------------------------------------------
(* The station takes the next frame of ChannelUnitBackward's connection.   *)

\* A mobility report names user 1, not its sender, and is not kept in order.
Uplink(f) ==
    /\ f \in up
    /\ f.opt # MoveOpt =>
         MayArrive({g \in up : send_src_user(g) = send_src_user(f) /\ g.opt # MoveOpt}, f)
    /\ up' = up \ {f}

ReplyFrame(f) == (f.frame + 1) % FrameNoCount

\* A short message goes on to its addressee; 0x50 and 0x60 also get a receipt,
\* sent before or after the relayed message.
StationMessage(f) ==
    /\ Uplink(f) /\ f.opt \in MessageOpts
    /\ LET relay(n) == DownFrame(n, send_dest_user(f), send_src_user(f),
                                 f.frame, f.opt, f.data, f.msg)
           receipt(n) == DownFrame(n, send_src_user(f), Station, ReplyFrame(f),
                                   ReplyOpt, Receipt, f.msg)
       IN  IF f.opt = PlainOpt
           THEN /\ down' = down \cup {relay(stamp)}
                /\ stamp' = stamp + 1
           ELSE /\ \/ down' = down \cup {relay(stamp), receipt(stamp + 1)}
                   \/ down' = down \cup {receipt(stamp), relay(stamp + 1)}
                /\ stamp' = stamp + 2
    /\ accepted' = accepted \cup {f.msg}
    /\ UNCHANGED <<inbox, faults, dups>>

\* The confirm of a client is relayed to the client that it names.
StationConfirm(f) ==
    /\ Uplink(f) /\ f.opt = ReplyOpt
    /\ down' = down \cup {DownFrame(stamp, send_dest_user(f), send_src_user(f),
                                    f.frame, f.opt, f.data, f.msg)}
    /\ stamp' = stamp + 1
    /\ UNCHANGED <<inbox, faults, dups, accepted>>

\* A mobility report is answered to the user number in the frame.
StationMove(f) ==
    /\ Uplink(f) /\ f.opt = MoveOpt
    /\ \E result \in {OnOk, OnFailed, MoveOk} :
         down' = down \cup {DownFrame(stamp, send_src_user(f), Station,
                                      ReplyFrame(f), ReplyOpt, result, f.msg)}
    /\ stamp' = stamp + 1
    /\ UNCHANGED <<inbox, faults, dups, accepted>>

StationStep ==
    \E f \in up : StationMessage(f) \/ StationConfirm(f) \/ StationMove(f)

-----------------------------------------------------------------------------
\* ChannelUnitForward::Run: the next frame of the TCP connection is sent to
\* EVERY client of the channel; the datagrams to the clients in miss are lost,
\* or their sendto failed (logged and ignored).
Forward ==
    \E f \in down, miss \in SUBSET Users :
      /\ First(down, f)
      /\ faults + Cardinality(miss) <= MaxFaults
      /\ down' = down \ {f}
      /\ inbox' = [v \in Users |-> IF v \in miss THEN inbox[v]
                                                 ELSE inbox[v] \cup {f}]
      /\ faults' = faults + Cardinality(miss)
      /\ UNCHANGED <<up, stamp, dups, accepted>>

\* The network delivers one datagram twice.
Duplicate ==
    /\ dups < MaxDups /\ dups' = dups + 1
    /\ stamp' = stamp + 1
    /\ \/ /\ \E f \in up : up' = up \cup {[f EXCEPT !.id = stamp]}
          /\ UNCHANGED inbox
       \/ /\ \E u \in Users : \E f \in inbox[u] :
               inbox' = [inbox EXCEPT ![u] = @ \cup {[f EXCEPT !.id = stamp]}]
          /\ UNCHANGED up
    /\ UNCHANGED <<down, faults, accepted>>

ChannelStep == StationStep \/ Forward \/ Duplicate
=============================================================================
