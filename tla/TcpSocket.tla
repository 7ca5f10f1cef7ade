----------------------------- MODULE TcpSocket ------------------------------
(***************************************************************************)
(* Packets on a byte stream: TcpSocket::SendPacket puts a header with the  *)
(* length before the data, TcpSocket::RecvPacket finds the packets again   *)
(* whatever pieces Recv returns.                                           *)
(*                                                                         *)
(* A packet is [id, len]; a byte of the stream is known by its packet and  *)
(* its place in it.  htonl and ntohl cancel out and are left out.          *)
(***************************************************************************)
EXTENDS Integers, SequencesExt

CONSTANTS HeadLen,      \* kHeadLen, 4
          TcpBufSize    \* TCP_BUF_SIZE, the size of recv_buffer_

ASSUME TcpAssumption == HeadLen \in Nat \ {0} /\ TcpBufSize \in Nat \ {0}

BytesOf(pkt, from, to) ==
    [i \in 1 .. to - from + 1 |->
        [id |-> pkt.id, len |-> pkt.len, at |-> from + i - 1]]

\* Mutant: the length counted to the last byte, not behind it.
DataShort(pkt) == IF pkt.len = 0 THEN <<>>
                  ELSE BytesOf(pkt, HeadLen + 1, HeadLen + pkt.len - 1)

\* The two Sends of SendPacket.
HeadOf(pkt) == BytesOf(pkt, 1, HeadLen)
DataOf(pkt) == BytesOf(pkt, HeadLen + 1, HeadLen + pkt.len)

\* Are HeadLen bytes there after position p, and as much data as they announce?  They
\* are always a header: the loop begins with one and goes from packet to packet.
CompleteAt(bytes, p) ==
    /\ p + HeadLen <= Len(bytes)
    /\ p + HeadLen + bytes[p + 1].len <= Len(bytes)

\* The loop over recv_buffer_: the packets passed and the position reached.
Scan(bytes) ==
    LET from[p \in 0 .. Len(bytes)] ==
          IF CompleteAt(bytes, p)
          THEN LET pkt == [id |-> bytes[p + 1].id, len |-> bytes[p + 1].len]
                   rest == from[p + HeadLen + pkt.len]
               IN  [packets |-> <<pkt>> \o rest.packets, end |-> rest.end]
          ELSE [packets |-> <<>>, end |-> p]
    IN  from[0]

\* Mutant: recv_pos_ is not set back, the delivered packets stay in front.
LeftoverKept(bytes, end) == bytes

\* Mutant: with the packets also what has come behind them is forgotten.
LeftoverLost(bytes, end) == IF end = 0 THEN bytes ELSE <<>>

\* memcpy(recv_buffer_, read_pos, left_size), taken to copy the bytes as they are, as
\* memmove does, also where the two areas overlap: for those memcpy is undefined.
Leftover(bytes, end) == SubSeq(bytes, end + 1, Len(bytes))

\* The whole packets of a stream, as its reader would find them.
Whole(bytes) == Scan(bytes).packets
=============================================================================
