---------------------------- MODULE ChannelUnits ----------------------------
(***************************************************************************)
(* The three programs between the UDP side of a channel and the central    *)
(* station, each with one TCP connection:                                  *)
(*   "backward"  ChannelUnitBackward: datagram in, packet out              *)
(*   "forward"   ChannelUnitForward: packet in, datagram to every client   *)
(*   "gui"       ChannelForwardGUI: the same loop in a thread of its own,  *)
(*               and a button that replaces the table of clients           *)
(* A behaviour is a run of one of them.                                    *)
(*                                                                         *)
(* The control state pc: "start", "bind", "recv" (in RecvFrom or          *)
(* RecvPacket), "head", "data" (between the two Sends of SendPacket), "check", "port",  *)
(* "ip" (in the loop over the clients), "ended", "overrun" (the packets of *)
(* one RecvPacket exceed the buffer of the caller) and "crashed".          *)
(***************************************************************************)
EXTENDS TcpSocket

CONSTANTS Programs,     \* the programs that may run
          BufferLength, \* BUFFER_LENGTH, 1024
          Lens,         \* lengths of the datagrams and packets that arrive
          Clients,      \* the clients of config.ini, in its order
          Fields,       \* the clients in the window's fields, in their order
          Garbage,      \* what memory holds that is no address
          MaxPackets,   \* bound: datagrams or packets that arrive
          MaxErrors,    \* bound: failing system calls
          MaxClicks     \* bound: clicks on the button

ASSUME UnitsAssumption ==
    /\ BufferLength \in Nat /\ Lens \subseteq Nat
    /\ \A n \in Lens : HeadLen + n <= TcpBufSize
    /\ MaxPackets \in Nat /\ MaxErrors \in Nat /\ MaxClicks \in Nat

ASSUME TableAssumption ==
    /\ Clients \in Seq(Range(Clients))
    /\ Fields \in Seq(Range(Fields))

VARIABLES program, pc, errors,
          stream,       \* every byte put into the TCP connection
          open,         \* the station has not closed the connection
          datagrams,    \* backward: the datagrams received, cut to the buffer
          taken,        \* forward: number of bytes Recv has returned
          recvBuf,      \* recv_buffer_ up to recv_pos_
          got,          \* the packets RecvPacket has returned so far
          todo,         \* those of them that are still to be sent
          i, port,      \* index of the loop over the clients, its port argument
          ips, ports,   \* m_clientIPs and m_clientPorts
          batch,        \* the addresses the current packet has been sent to
          quiet,        \* the table has not been touched since its first one
          listed,       \* the clients configured during all of that time
          edits, clicks \* the button handler's remaining writes; clicks so far

backVars == <<datagrams>>
recvVars == <<taken, recvBuf, got>>
loopVars == <<todo, i, port, batch, quiet, listed>>
tableVars == <<ips, ports, edits, clicks>>
vars == <<program, pc, errors, stream, open, backVars, recvVars, loopVars, tableVars>>


\* A vector: its size, and its elements with the stale ones behind the size.
Vector(seq) == [size |-> Len(seq), at |-> seq]

Clear(v) == [v EXCEPT !.size = 0]

PushBack(v, x) ==
    [size |-> v.size + 1,
     at |-> IF v.size < Len(v.at) THEN [v.at EXCEPT ![v.size + 1] = x]
                                  ELSE Append(v.at, x)]

\* A client is in the table when both vectors hold it at the same index.
Table ==
    {ips.at[k] : k \in {k \in 1 .. ips.size : k <= ports.size /\ ips.at[k] = ports.at[k]}}

\* The clients the operator has asked for: those the handler has still to write
\* count.
Configured == Table \cup {Fields[edits[k].field] : k \in
                             {k \in DOMAIN edits : edits[k].op = "ip"}}

Init ==
    /\ program \in Programs
    /\ pc = "start" /\ errors = 0 /\ stream = <<>> /\ open = TRUE
    /\ datagrams = <<>> /\ taken = 0 /\ recvBuf = <<>> /\ got = <<>>
    /\ todo = <<>> /\ i = 1 /\ port = Garbage /\ batch = <<>>
    /\ ips = Vector(Clients) /\ ports = Vector(Clients)
    /\ quiet = TRUE /\ listed = {} /\ edits = <<>> /\ clicks = 0

Fails == errors < MaxErrors /\ errors' = errors + 1

\* A call that ends the program when it fails: TcpSocket::Create with
\* CommonSocket::Connect ...
Connect(next) ==
    \/ pc' = next /\ UNCHANGED errors
    \/ Fails /\ pc' = "ended"

\* ... and CUDPInterface::Create with a port.
CreateUdp(next) ==
    \/ pc' = next /\ UNCHANGED errors
    \/ Fails /\ pc' = "ended"

\* Run, as far as the loop.
ForwardStart ==
    /\ program = "forward" /\ pc = "start" /\ Connect("recv")
    /\ UNCHANGED <<program, stream, open, backVars, recvVars, loopVars, tableVars>>

\* run_blocked, as far as the loop, in the thread that Run starts; the window is
\* already there.
GuiStart ==
    /\ program = "gui" /\ pc = "start" /\ Connect("recv")
    /\ UNCHANGED <<program, stream, open, backVars, recvVars, loopVars, tableVars>>

\* The backward unit connects before it opens its UDP port.
BackwardStart ==
    /\ \/ program = "backward" /\ pc = "start" /\ Connect("bind")
       \/ pc = "bind" /\ CreateUdp("recv")
    /\ UNCHANGED <<program, stream, open, backVars, recvVars, loopVars, tableVars>>

\* The station closes the connection.
StationCloses ==
    /\ pc # "start" /\ open /\ open' = FALSE
    /\ UNCHANGED <<program, pc, errors, stream, backVars, recvVars, loopVars, tableVars>>

-----------------------------------------------------------------------------
(* ChannelUnitBackward.                                                    *)

NextPacket(seq, len) == [id |-> Len(seq) + 1, len |-> len]

\* CUDPInterface::RecvFrom fills the buffer, the rest of the datagram is lost.
Received(n) == IF n > BufferLength THEN BufferLength ELSE n

\* An error ends the program.
BackwardRecvFrom ==
    /\ program = "backward" /\ pc = "recv"
    /\ \/ /\ Len(datagrams) < MaxPackets
          /\ \E n \in Lens \cup {BufferLength + 1} :
               datagrams' = Append(datagrams,
                                   NextPacket(datagrams, Received(n)))
          /\ pc' = "head" /\ UNCHANGED errors
       \/ Fails /\ pc' = "ended" /\ UNCHANGED datagrams
    /\ UNCHANGED <<program, stream, open, recvVars, loopVars, tableVars>>

\* CommonSocket::Send on a blocking socket takes all bytes.  On a connection that
\* the station has closed the bytes are lost or refused, which SendPacket ignores,
\* until SIGPIPE ends the program.
SendBytes(bytes, next) ==
    \/ open /\ stream' = stream \o bytes /\ pc' = next
    \/ ~open /\ pc' \in {next, "ended"} /\ UNCHANGED stream

\* SendPacket: the header, then the data.
SendPacket ==
    /\ \/ pc = "head" /\ SendBytes(HeadOf(Last(datagrams)), "data")
       \/ pc = "data" /\ SendBytes(DataOf(Last(datagrams)), "recv")
    /\ UNCHANGED <<program, errors, open, backVars, recvVars, loopVars, tableVars>>

-----------------------------------------------------------------------------
(* Receiving, in both forward units.                                       *)

\* The station puts a packet into the connection.
StationSends ==
    /\ program # "backward" /\ pc # "start" /\ open
    /\ Len(Whole(stream)) < MaxPackets
    /\ \E n \in Lens :
         LET pkt == NextPacket(Whole(stream), n)
         IN  stream' = stream \o HeadOf(pkt) \o DataOf(pkt)
    /\ UNCHANGED <<program, pc, errors, open, backVars, recvVars, loopVars, tableVars>>

\* Recv returns n bytes, 0 when there is no room for any or the station has
\* closed and everything is read, or an error; it blocks when nothing is there.
RecvMay(n) ==
    LET room == TcpBufSize - Len(recvBuf)
    IN  IF n > 0 THEN n <= room /\ taken + n <= Len(stream)
                 ELSE room = 0 \/ (~open /\ taken = Len(stream))

\* The complete packets are copied into buf of the caller, of BUFFER_LENGTH bytes.
Deliver(scan) ==
    /\ todo' = scan.packets
    /\ pc' = IF scan.packets = <<>> THEN "recv"
             ELSE IF scan.end > BufferLength THEN "overrun" ELSE "check"

\* Mutant: the index is not set back.
BeginPacketKeepsIndex ==
    /\ batch' = <<>> /\ i' = IF todo = <<>> THEN 1 ELSE i
    /\ quiet' = (edits = <<>>) /\ listed' = Configured

BeginPacket ==
    /\ batch' = <<>> /\ i' = 1
    /\ quiet' = (edits = <<>>) /\ listed' = Configured

\* RecvPacket returns packets, or none yet.
RecvPacket ==
    /\ program # "backward" /\ pc = "recv"
    /\ \E n \in 1 .. TcpBufSize :
         /\ RecvMay(n)
         /\ taken' = taken + n
         /\ LET bytes == recvBuf \o SubSeq(stream, taken + 1, taken + n)
                scan == Scan(bytes)
            IN  /\ recvBuf' = Leftover(bytes, scan.end)
                /\ got' = got \o scan.packets
                /\ Deliver(scan)
    /\ BeginPacket
    /\ UNCHANGED <<program, errors, stream, open, backVars, port, tableVars>>

\* RecvPacket returns -1, which ends the loop of the caller and the unit.
RecvPacketFails ==
    /\ program # "backward" /\ pc = "recv"
    /\ \/ RecvMay(0) /\ UNCHANGED errors
       \/ Fails
    /\ pc' = "ended"
    /\ UNCHANGED <<program, stream, open, backVars, recvVars, loopVars, tableVars>>

-----------------------------------------------------------------------------
(* The loop over the clients.  A failed SendTo is logged and changes       *)
(* nothing else: batch holds the addresses tried.                          *)

\* i < m_clientIPs.size() no longer holds: on to the next packet.
PacketDone ==
    /\ pc = "check" /\ i > ips.size
    /\ todo' = Tail(todo)
    /\ pc' = IF Len(todo) = 1 THEN "recv" ELSE "check"
    /\ BeginPacket
    /\ UNCHANGED <<program, errors, stream, open, backVars, recvVars, port, tableVars>>

SendTo(ip, toPort) == batch' = Append(batch, [ip |-> ip, port |-> toPort])

\* ChannelUnitForward: nobody else uses the table.
SendToClient ==
    /\ program = "forward" /\ pc = "check" /\ i <= ips.size
    /\ SendTo(ips.at[i], ports.at[i])
    /\ i' = i + 1
    /\ UNCHANGED <<program, pc, errors, stream, open, backVars, recvVars,
                   todo, port, quiet, listed, tableVars>>

\* m_clientIPs[k] or m_clientPorts[k] while the button handler may be writing:
\* the element, also a stale one, or whatever is in memory.
Read(v, k) ==
    IF edits = <<>> /\ k <= v.size THEN {v.at[k]}
    ELSE {Garbage} \cup {v.at[j] : j \in {k} \cap DOMAIN v.at}

\* ChannelForwardGUI: the size is tested, the port is read (an argument by value),
\* then the address (by reference) inside SendTo.
CheckSize ==
    /\ program = "gui" /\ pc = "check" /\ i <= ips.size
    /\ pc' = "port"
    /\ UNCHANGED <<program, errors, stream, open, backVars, recvVars, loopVars, tableVars>>

ReadPort ==
    /\ pc = "port" /\ port' \in Read(ports, i)
    /\ pc' = "ip"
    /\ UNCHANGED <<program, errors, stream, open, backVars, recvVars,
                   todo, i, batch, quiet, listed, tableVars>>

ReadIpAndSend ==
    /\ pc = "ip"
    /\ \E ip \in Read(ips, i) :
         /\ SendTo(ip, port)
         /\ pc' \in {"check"} \cup (IF ip = Garbage THEN {"crashed"} ELSE {})
    /\ i' = i + 1
    /\ UNCHANGED <<program, errors, stream, open, backVars, recvVars,
                   todo, port, quiet, listed, tableVars>>

-----------------------------------------------------------------------------
(* The button of ChannelForwardGUI, in the thread of the window.           *)

\* Mutant: only the addresses are cleared.
WritesNoClear(num) ==
    [k \in 1 .. 2 * num |-> [op |-> IF k % 2 = 1 THEN "port" ELSE "ip",
                              field |-> num - ((k - 1) \div 2)]]

\* The writes after m_clientIPs.clear(): the last field comes first.
Writes(num) ==
    <<[op |-> "clear", field |-> num]>> \o
    [k \in 1 .. 2 * num |-> [op |-> IF k % 2 = 1 THEN "port" ELSE "ip",
                              field |-> num - ((k - 1) \div 2)]]

\* The handler returns at once unless num is a number of fields.
Click ==
    /\ program = "gui" /\ edits = <<>>
    /\ clicks < MaxClicks /\ clicks' = clicks + 1
    /\ \E num \in DOMAIN Fields :
         /\ ips' = Clear(ips)
         /\ edits' = Writes(num)
         /\ listed' = listed \cap {Fields[k] : k \in 1 .. num}
    /\ quiet' = FALSE
    /\ UNCHANGED <<program, pc, errors, stream, open, backVars, recvVars,
                   todo, i, port, batch, ports>>

Write ==
    /\ edits # <<>>
    /\ LET client == Fields[Head(edits).field]
       IN  CASE Head(edits).op = "clear" -> ports' = Clear(ports) /\ UNCHANGED ips
             [] Head(edits).op = "port"  -> ports' = PushBack(ports, client) /\ UNCHANGED ips
             [] Head(edits).op = "ip"    -> ips' = PushBack(ips, client) /\ UNCHANGED ports
    /\ edits' = Tail(edits)
    /\ UNCHANGED <<program, pc, errors, stream, open, backVars, recvVars, loopVars, clicks>>

-----------------------------------------------------------------------------
UnitStep ==
    \/ ForwardStart \/ GuiStart \/ BackwardStart \/ BackwardRecvFrom \/ SendPacket
    \/ RecvPacket \/ RecvPacketFails
    \/ PacketDone \/ SendToClient \/ CheckSize \/ ReadPort \/ ReadIpAndSend

Next == UnitStep \/ StationSends \/ StationCloses \/ Click \/ Write

Spec == Init /\ [][Next]_vars

\* The kernel runs the thread of the unit; nobody has to send or to click, and no
\* call has to fail.
FairSpec == Spec /\ WF_vars(UnitStep /\ UNCHANGED errors)

-----------------------------------------------------------------------------
(* Properties.                                                             *)

Addresses == Range(Clients) \cup Range(Fields) \cup {Garbage}
Vectors == {v \in [size : Nat, at : Seq(Addresses)] : v.size <= Len(v.at)}

\* However the bytes are cut into pieces, and wherever the connection ends, the
\* packets found in a TCP connection are those put in, in order: the datagrams
\* received (backward), or the packets of the station (forward).
Fifo == INSTANCE PacketFifo WITH
    sent <- IF program = "backward" THEN datagrams ELSE Whole(stream),
    got <- IF program = "backward" THEN Whole(stream) ELSE got

FramingSpec == Fifo!Spec

\* While the station keeps the connection, no datagram that the backward unit has
\* received is missing from it, but for the one being sent.
BackwardKeepsAll ==
    (program = "backward" /\ open) =>
        \/ Whole(stream) = datagrams
        \/ pc \in {"head", "data"} /\ Whole(stream) = Front(datagrams)

\* RecvPacket reports the end of the connection only when it has ended: an
\* incomplete packet always leaves room for another byte.
DisconnectIsReal == (pc = "ended" /\ errors = 0) => ~open

\* The packets of one RecvPacket fit into the buffer of the caller as long as no
\* more than BUFFER_LENGTH bytes of the connection are still to be sent out.
CallerBufferFits ==
    LET done == Len(got) - Len(todo)
        sentOut[k \in 0 .. done] ==
          IF k = 0 THEN 0 ELSE sentOut[k - 1] + HeadLen + got[k].len
    IN  pc = "overrun" => Len(stream) - sentOut[done] > BufferLength

BroadcastDone == pc = "check" /\ i > ips.size

\* A packet goes to every client of the table, once, and to nobody else, unless
\* the button is clicked while it is being sent.
QuietBroadcast ==
    (BroadcastDone /\ quiet) =>
        batch = [k \in 1 .. Len(batch) |-> [ip |-> ips.at[k], port |-> ports.at[k]]]
        /\ {b.ip : b \in Range(batch)} = listed

\* Address and port of different clients are mixed, or taken from beyond the
\* table, only while the button handler runs or has run during that packet.
AddressesMatch ==
    quiet => \A b \in Range(batch) : b.ip = b.port /\ b.ip \in Configured

\* Every packet that has come through whole is sent out, unless the unit ends.
Broadcasts ==
    \A k \in 1 .. MaxPackets :
        (program # "backward" /\ k <= Len(Whole(stream)))
        ~> (k <= Len(got) - Len(todo) \/ pc \in {"ended", "overrun", "crashed"})
=============================================================================
