------------------------- MODULE ChannelUnitsProofs -------------------------
(***************************************************************************)
(* Theorems about the table of clients that two threads of ChannelForward- *)
(* GUI share, for every table, every number of packets and clicks, and any *)
(* interleaving of the reads and writes of the two vectors.                *)
(*                                                                         *)
(* Neither AddressesMatch nor QuietBroadcast is inductive.  TableInv says  *)
(* what the vectors are after each write of the button handler; BatchInv   *)
(* says that a packet that has met no click has gone to the clients before *)
(* the index.  Where the packets stand in the bytes of a connection is in  *)
(* FramingInv, further down.                                               *)
(***************************************************************************)
EXTENDS ChannelUnits, SequenceLemmas

Entry == [op : {"clear", "port", "ip"}, field : DOMAIN Fields]

\* The remaining writes: a clear comes first, and each port before its address.
EditsShape(e) ==
    /\ e \in Seq(Entry)
    /\ \A k \in 1 .. Len(e) :
         /\ e[k].op = "clear" => k = 1
         /\ e[k].op = "port" => /\ k < Len(e) /\ e[k + 1].op = "ip"
                                /\ e[k + 1].field = e[k].field
         /\ e[k].op # "port" /\ k < Len(e) => e[k + 1].op = "port"

\* Two vectors hold the same as far as the first one goes.
Agree(v, w) == \A k \in 1 .. v.size : v.at[k] = w.at[k]

TableInv ==
    /\ ips \in Vectors /\ ports \in Vectors /\ EditsShape(edits)
    /\ (edits = <<>> \/ edits[1].op = "port") => ips.size = ports.size /\ Agree(ips, ports)
    /\ (edits # <<>> /\ edits[1].op = "clear") => ips.size = 0
    /\ (edits # <<>> /\ edits[1].op = "ip") =>
         /\ ports.size = ips.size + 1 /\ Agree(ips, ports)
         /\ ports.at[ports.size] = Fields[edits[1].field]

Sending == pc \in {"check", "port", "ip"}

BatchInv ==
    quiet =>
        /\ edits = <<>>
        /\ i \in Nat \ {0}
        /\ batch \in Seq([ip : Addresses, port : Addresses])
        /\ Len(batch) <= ips.size
        /\ \A k \in 1 .. Len(batch) : batch[k] = [ip |-> ips.at[k], port |-> ports.at[k]]
        /\ Sending => Len(batch) = i - 1 /\ listed = {ips.at[k] : k \in 1 .. ips.size}
        /\ pc \in {"port", "ip"} => i <= ips.size
        /\ pc = "ip" => port = ports.at[i]

-----------------------------------------------------------------------------
(* Vectors and writes.                                                     *)

\* push_back adds one element behind the size and keeps those before it.
LEMMA PushBackVector ==
    ASSUME NEW v \in Vectors, NEW x \in Addresses
    PROVE  /\ PushBack(v, x) \in Vectors
           /\ PushBack(v, x).size = v.size + 1
           /\ PushBack(v, x).at[v.size + 1] = x
           /\ \A k \in 1 .. v.size : PushBack(v, x).at[k] = v.at[k]
<1>1. v.size \in Nat /\ v.at \in Seq(Addresses) /\ v.size <= Len(v.at)
  BY DEF Vectors
<1>2. CASE v.size < Len(v.at)
  <2>1. PushBack(v, x) = [size |-> v.size + 1, at |-> [v.at EXCEPT ![v.size + 1] = x]]
    BY <1>2 DEF PushBack
  <2>2. /\ [v.at EXCEPT ![v.size + 1] = x] \in Seq(Addresses)
        /\ Len([v.at EXCEPT ![v.size + 1] = x]) = Len(v.at)
    BY <1>1, <1>2, ExceptSeq
  <2>3. v.size + 1 \in 1 .. Len(v.at)
    BY <1>1, <1>2, LenProperties
  <2>4. QED
    BY <1>1, <1>2, <2>1, <2>2, <2>3, LenProperties DEF Vectors
<1>3. CASE v.size = Len(v.at)
  <2>1. PushBack(v, x) = [size |-> v.size + 1, at |-> Append(v.at, x)]
    <3>1. Len(v.at) \in Nat
      BY <1>1, LenProperties
    <3>2. ~(v.size < Len(v.at))
      BY <1>3, <3>1
    <3>3. QED
      BY <3>2 DEF PushBack
  <2>2. /\ Append(v.at, x) \in Seq(Addresses)
        /\ Len(Append(v.at, x)) = Len(v.at) + 1
        /\ Append(v.at, x)[Len(v.at) + 1] = x
        /\ \A k \in 1 .. Len(v.at) : Append(v.at, x)[k] = v.at[k]
    BY <1>1, AppendProperties
  <2>3. QED
    BY <1>1, <1>3, <2>1, <2>2 DEF Vectors
<1>4. QED
  BY <1>1, <1>2, <1>3, LenProperties

\* clear sets the size to 0 and leaves the elements where they were.
LEMMA ClearVector ==
    ASSUME NEW v \in Vectors
    PROVE  Clear(v) \in Vectors /\ Clear(v).size = 0
<1>1. v \in [size : Nat, at : Seq(Addresses)]
  BY DEF Vectors
<1>2. Clear(v) \in [size : Nat, at : Seq(Addresses)] /\ Clear(v).size = 0
      /\ Clear(v).at = v.at
  BY <1>1 DEF Clear
<1>3. QED
  BY <1>1, <1>2, LenProperties DEF Vectors

\* What the button handler is going to write has the shape that EditsShape says.
LEMMA WritesShape ==
    ASSUME NEW num \in DOMAIN Fields
    PROVE  EditsShape(Writes(num)) /\ Writes(num) # <<>> /\ Writes(num)[1].op = "clear"
<1> DEFINE first == [op |-> "clear", field |-> num]
           entry(k) == [op |-> IF k % 2 = 1 THEN "port" ELSE "ip",
                        field |-> num - ((k - 1) \div 2)]
           rest == [k \in 1 .. 2 * num |-> entry(k)]
<1>1. num \in Nat \ {0} /\ 1 .. num \subseteq DOMAIN Fields
  BY TableAssumption, LenProperties
<1>2. \A k \in 1 .. 2 * num : entry(k) \in Entry
  <2>1. TAKE k \in 1 .. 2 * num
  <2>2. (k - 1) \div 2 \in 0 .. num - 1
    BY <1>1
  <2>3. num - ((k - 1) \div 2) \in 1 .. num
    BY <1>1, <2>2
  <2>4. QED
    BY <1>1, <2>3 DEF Entry
<1>3. rest \in Seq(Entry) /\ Len(rest) = 2 * num
  <2>1. 2 * num \in Nat
    BY <1>1
  <2>2. QED
    BY <1>2, <2>1, IsASeq
<1>4. first \in Entry
  BY DEF Entry
<1>5. <<first>> \in Seq(Entry) /\ Len(<<first>>) = 1
  BY <1>4
<1>6. Writes(num) = <<first>> \o rest
  BY DEF Writes
<1>7. <<first>>[1] = first /\ \A k \in 1 .. 2 * num : rest[k] = entry(k)
  OBVIOUS
<1> HIDE DEF first, rest
<1>8. /\ Writes(num) \in Seq(Entry) /\ Len(Writes(num)) = 2 * num + 1
      /\ Writes(num)[1] = <<first>>[1]
      /\ \A k \in 2 .. 2 * num + 1 : Writes(num)[k] = rest[k - 1]
  <2>1. Len(Writes(num)) = 1 + 2 * num /\ Writes(num) \in Seq(Entry)
    BY <1>3, <1>5, <1>6, ConcatProperties
  <2>2. \A k \in 1 .. 1 + 2 * num :
           Writes(num)[k] = IF k <= 1 THEN <<first>>[k] ELSE rest[k - 1]
    BY <1>3, <1>5, <1>6, ConcatProperties
  <2>3. QED
    BY <1>1, <2>1, <2>2
<1>9. \A k \in 1 .. 2 * num :
         /\ entry(k).op # "clear"
         /\ entry(k).op = "port" => k + 1 <= 2 * num /\ entry(k + 1).op = "ip"
                                    /\ entry(k + 1).field = entry(k).field
         /\ entry(k).op # "port" /\ k < 2 * num => entry(k + 1).op = "port"
  BY <1>1
<1>10. entry(1).op = "port"
  OBVIOUS
<1>11. first.op = "clear"
  BY DEF first
<1> HIDE DEF entry
<1>12. /\ Writes(num)[1] = first
       /\ \A k \in 2 .. 2 * num + 1 : Writes(num)[k] = entry(k - 1)
  BY <1>1, <1>7, <1>8
<1>13. \A k \in 1 .. Len(Writes(num)) :
         /\ Writes(num)[k].op = "clear" => k = 1
         /\ Writes(num)[k].op = "port" =>
              /\ k < Len(Writes(num)) /\ Writes(num)[k + 1].op = "ip"
              /\ Writes(num)[k + 1].field = Writes(num)[k].field
         /\ Writes(num)[k].op # "port" /\ k < Len(Writes(num)) =>
              Writes(num)[k + 1].op = "port"
  <2>1. TAKE k \in 1 .. Len(Writes(num))
  <2>2. CASE k = 1
    BY <1>1, <1>8, <1>10, <1>11, <1>12, <2>2
  <2>3. CASE k \in 2 .. 2 * num + 1
    <3>1. k - 1 \in 1 .. 2 * num /\ (k < 2 * num + 1 => k + 1 \in 2 .. 2 * num + 1)
      BY <1>1, <2>3
    <3>2. /\ Writes(num)[k] = entry(k - 1)
          /\ k < 2 * num + 1 => Writes(num)[k + 1] = entry((k - 1) + 1)
      BY <1>1, <1>12, <2>3, <3>1
    <3>3. QED
      BY <1>1, <1>8, <1>9, <3>1, <3>2
  <2>4. QED
    BY <1>1, <1>8, <2>2, <2>3
<1>14. QED
  BY <1>1, <1>8, <1>11, <1>12, <1>13 DEF EditsShape

\* After a write the remaining ones have the same shape.
LEMMA EditsTail ==
    ASSUME NEW e, EditsShape(e), e # <<>>
    PROVE  /\ EditsShape(Tail(e)) /\ Head(e) = e[1] /\ e[1] \in Entry
           /\ Tail(e) # <<>> => Len(e) >= 2 /\ Tail(e)[1] = e[2]
           /\ Tail(e) = <<>> => Len(e) = 1
<1>1. e \in Seq(Entry) /\ Len(e) \in Nat \ {0} /\ Head(e) = e[1] /\ e[1] \in Entry
  BY EmptySeq, LenProperties, ElementOfSeq DEF EditsShape
<1>2. /\ Tail(e) \in Seq(Entry) /\ Len(Tail(e)) = Len(e) - 1
      /\ \A k \in 1 .. Len(Tail(e)) : Tail(e)[k] = e[k + 1]
  BY <1>1, HeadTailProperties
<1>3. Tail(e) = <<>> <=> Len(e) = 1
  BY <1>1, <1>2, EmptySeq
<1>4. \A k \in 1 .. Len(Tail(e)) : k + 1 \in 1 .. Len(e) /\ k + 1 # 1
  BY <1>1, <1>2
<1>5. \A k \in 1 .. Len(Tail(e)) : k < Len(Tail(e)) => Tail(e)[k + 1] = e[(k + 1) + 1]
  BY <1>1, <1>2
<1> DEFINE Good(k) ==
         /\ Tail(e)[k].op = "clear" => k = 1
         /\ Tail(e)[k].op = "port" => /\ k < Len(Tail(e)) /\ Tail(e)[k + 1].op = "ip"
                                      /\ Tail(e)[k + 1].field = Tail(e)[k].field
         /\ Tail(e)[k].op # "port" /\ k < Len(Tail(e)) => Tail(e)[k + 1].op = "port"
<1>6. ASSUME NEW k \in 1 .. Len(Tail(e)) PROVE Good(k)
  <2>1. /\ Tail(e)[k] = e[k + 1] /\ k + 1 \in 1 .. Len(e) /\ k + 1 # 1
        /\ k < Len(Tail(e)) => Tail(e)[k + 1] = e[(k + 1) + 1]
        /\ k < Len(Tail(e)) <=> k + 1 < Len(e)
    BY <1>1, <1>2, <1>4, <1>5
  <2>2. QED
    BY <2>1 DEF EditsShape
<1>7. QED
  BY <1>1, <1>2, <1>3, <1>6 DEF EditsShape

\* While the button handler does not run the table is the addresses in the vector.
LEMMA IdleTable ==
    ASSUME TableInv, edits = <<>>
    PROVE  Configured = {ips.at[k] : k \in 1 .. ips.size} /\ ips.size \in Nat
<1>1. ips.size = ports.size /\ Agree(ips, ports) /\ ips.size \in Nat
  BY DEF TableInv, Vectors
<1>2. {k \in 1 .. ips.size : k <= ports.size /\ ips.at[k] = ports.at[k]} = 1 .. ips.size
  BY <1>1 DEF Agree
<1>3. Table = {ips.at[k] : k \in 1 .. ips.size}
  BY <1>2 DEF Table
<1>4. DOMAIN edits = {}
  OBVIOUS
<1>5. QED
  BY <1>1, <1>3, <1>4 DEF Configured

-----------------------------------------------------------------------------
(* The table.                                                              *)

\* The table begins as the window has filled it.
LEMMA TableInit == Init => TableInv
<1> SUFFICES ASSUME Init PROVE TableInv
  OBVIOUS
<1>1. Clients \in Seq(Addresses) /\ Len(Clients) \in Nat
  BY TableAssumption, LenProperties, SeqMonotonic DEF Addresses
<1>2. ips = [size |-> Len(Clients), at |-> Clients] /\ ports = ips /\ edits = <<>>
  BY DEF Init, Vector
<1>3. ips \in Vectors
  BY <1>1, <1>2 DEF Vectors
<1>4. EditsShape(edits)
  BY <1>2 DEF EditsShape
<1>5. QED
  BY <1>2, <1>3, <1>4 DEF TableInv, Agree

\* The button handler begins with a clear, while no other writes are left.
LEMMA ClickTable == TableInv /\ Click => TableInv'
<1> SUFFICES ASSUME TableInv, Click PROVE TableInv'
  OBVIOUS
<1>1. PICK num \in DOMAIN Fields : edits' = Writes(num) /\ ips' = Clear(ips)
  BY DEF Click
<1>2. ports' = ports
  BY DEF Click
<1>3. EditsShape(edits') /\ edits' # <<>> /\ edits'[1].op = "clear"
  BY <1>1, WritesShape
<1>4. ips' \in Vectors /\ ips'.size = 0
  BY <1>1, ClearVector DEF TableInv
<1>5. QED
  BY <1>2, <1>3, <1>4 DEF TableInv

\* Each write leaves what the remaining ones complete.
LEMMA WriteTable == TableInv /\ Write => TableInv'
<1> SUFFICES ASSUME TableInv, Write PROVE TableInv'
  OBVIOUS
<1> DEFINE client == Fields[Head(edits).field]
<1>1. edits # <<>> /\ edits' = Tail(edits) /\ EditsShape(edits)
  BY DEF Write, TableInv
<1>2. /\ EditsShape(edits') /\ Head(edits) = edits[1] /\ edits[1] \in Entry
      /\ edits' # <<>> => Len(edits) >= 2 /\ edits'[1] = edits[2]
      /\ edits' = <<>> => Len(edits) = 1
  BY <1>1, EditsTail
<1>3. Len(edits) \in Nat \ {0}
  BY <1>1, LenProperties, EmptySeq DEF EditsShape
<1>4. client \in Addresses
  BY <1>2, TableAssumption DEF Entry, Addresses, Range
<1>5. /\ ips \in Vectors /\ ports \in Vectors
      /\ ips.size \in Nat /\ ports.size \in Nat
  BY DEF TableInv, Vectors
<1>6. CASE edits[1].op = "clear"
  <2>1. ports' = Clear(ports) /\ ips' = ips
    BY <1>2, <1>6 DEF Write
  <2>2. ports' \in Vectors /\ ports'.size = 0 /\ ips'.size = 0
    BY <1>1, <1>5, <1>6, <2>1, ClearVector DEF TableInv
  <2>3. edits' # <<>> => edits'[1].op = "port"
    BY <1>1, <1>2, <1>3, <1>6 DEF EditsShape
  <2>4. QED
    BY <1>2, <1>5, <2>1, <2>2, <2>3 DEF TableInv, Agree
<1>7. CASE edits[1].op = "port"
  <2>1. ports' = PushBack(ports, client) /\ ips' = ips
    BY <1>2, <1>7 DEF Write
  <2>2. ips.size = ports.size /\ Agree(ips, ports)
    BY <1>7 DEF TableInv
  <2>3. /\ edits' # <<>> /\ edits'[1].op = "ip" /\ edits'[1].field = edits[1].field
    BY <1>1, <1>2, <1>3, <1>7 DEF EditsShape
  <2>4. /\ ports' \in Vectors /\ ports'.size = ports.size + 1
        /\ ports'.at[ports.size + 1] = client
        /\ \A k \in 1 .. ports.size : ports'.at[k] = ports.at[k]
    BY <1>4, <1>5, <2>1, PushBackVector
  <2>5. Agree(ips', ports')
    BY <1>5, <2>1, <2>2, <2>4 DEF Agree
  <2>6. QED
    BY <1>2, <1>5, <2>1, <2>2, <2>3, <2>4, <2>5 DEF TableInv
<1>8. CASE edits[1].op = "ip"
  <2>1. ips' = PushBack(ips, client) /\ ports' = ports
    BY <1>2, <1>8 DEF Write
  <2>2. /\ ports.size = ips.size + 1 /\ Agree(ips, ports)
        /\ ports.at[ports.size] = client
    BY <1>1, <1>2, <1>8 DEF TableInv
  <2>3. /\ ips' \in Vectors /\ ips'.size = ips.size + 1
        /\ ips'.at[ips.size + 1] = client
        /\ \A k \in 1 .. ips.size : ips'.at[k] = ips.at[k]
    BY <1>4, <1>5, <2>1, PushBackVector
  <2>4. ips'.size = ports'.size /\ Agree(ips', ports')
    BY <1>5, <2>1, <2>2, <2>3 DEF Agree
  <2>5. edits' # <<>> => edits'[1].op = "port"
    BY <1>1, <1>2, <1>3, <1>8 DEF EditsShape
  <2>6. QED
    BY <1>2, <1>5, <2>1, <2>3, <2>4, <2>5 DEF TableInv
<1>9. QED
  BY <1>2, <1>6, <1>7, <1>8 DEF Entry

\* Only the button handler touches the table.
LEMMA TableStep == TableInv /\ [Next]_vars => TableInv'
<1> SUFFICES ASSUME TableInv, [Next]_vars PROVE TableInv'
  OBVIOUS
<1>1. CASE UNCHANGED tableVars
  BY <1>1 DEF TableInv, tableVars, Agree
<1>2. (UnitStep \/ StationSends \/ StationCloses \/ UNCHANGED vars) => UNCHANGED tableVars
  BY DEF UnitStep, ForwardStart, GuiStart, BackwardStart, BackwardRecvFrom, SendPacket,
     RecvPacket, RecvPacketFails, PacketDone, SendToClient, CheckSize, ReadPort,
     ReadIpAndSend, StationSends, StationCloses, vars
<1>3. QED
  BY <1>1, <1>2, ClickTable, WriteTable DEF Next

-----------------------------------------------------------------------------
(* The packet being sent.                                                  *)

\* No packet is being sent.
LEMMA BatchInit == Init => BatchInv
<1> SUFFICES ASSUME Init PROVE BatchInv
  OBVIOUS
<1>1. ips.size \in Nat
  BY TableInit DEF TableInv, Vectors
<1>2. edits = <<>> /\ batch = <<>> /\ i = 1 /\ pc = "start"
  BY DEF Init
<1>3. QED
  BY <1>1, <1>2 DEF BatchInv, Sending

\* A step that begins the next packet.
LEMMA BeginBatch ==
    ASSUME TableInv, BeginPacket, UNCHANGED tableVars, pc' \notin {"port", "ip"}
    PROVE  BatchInv'
<1> SUFFICES ASSUME quiet' PROVE BatchInv'
  BY DEF BatchInv
<1>1. edits = <<>> /\ edits' = <<>> /\ ips' = ips
  BY DEF BeginPacket, tableVars
<1>2. batch' = <<>> /\ i' = 1 /\ listed' = {ips.at[k] : k \in 1 .. ips.size}
  BY <1>1, IdleTable DEF BeginPacket
<1>3. ips.size \in Nat
  BY <1>1, IdleTable
<1>4. QED
  BY <1>1, <1>2, <1>3 DEF BatchInv, Sending

\* A step that leaves table and loop alone, and does not enter the loop.
LEMMA KeepsBatch ==
    ASSUME BatchInv, UNCHANGED <<loopVars, tableVars>>,
           pc' = pc \/ pc' \notin {"check", "port", "ip"}
    PROVE  BatchInv'
  BY DEF BatchInv, Sending, loopVars, tableVars

\* A step of the loop that sends to the address read of the vectors.
LEMMA SentOne ==
    ASSUME BatchInv, quiet, TableInv, Sending, i <= ips.size, i' = i + 1,
           UNCHANGED <<quiet, listed, tableVars>>,
           batch' = Append(batch, [ip |-> ips.at[i], port |-> ports.at[i]]),
           pc' \notin {"port", "ip"}
    PROVE  BatchInv'
<1>1. /\ edits = <<>> /\ i \in Nat \ {0} /\ Len(batch) = i - 1
      /\ batch \in Seq([ip : Addresses, port : Addresses])
      /\ listed = {ips.at[k] : k \in 1 .. ips.size}
      /\ \A k \in 1 .. Len(batch) : batch[k] = [ip |-> ips.at[k], port |-> ports.at[k]]
  BY DEF BatchInv
<1>2. /\ ips.size = ports.size /\ ips.size \in Nat
      /\ ips.at \in Seq(Addresses) /\ ips.size <= Len(ips.at)
      /\ ports.at \in Seq(Addresses) /\ ports.size <= Len(ports.at)
  BY <1>1 DEF TableInv, Vectors
<1>3. [ip |-> ips.at[i], port |-> ports.at[i]] \in [ip : Addresses, port : Addresses]
  <2>1. i \in 1 .. Len(ips.at) /\ i \in 1 .. Len(ports.at)
    BY <1>1, <1>2, LenProperties
  <2>2. QED
    BY <1>2, <2>1, ElementOfSeq
<1>4. /\ batch' \in Seq([ip : Addresses, port : Addresses])
      /\ Len(batch') = i
      /\ batch'[i] = [ip |-> ips.at[i], port |-> ports.at[i]]
      /\ \A k \in 1 .. Len(batch) : batch'[k] = batch[k]
  <2>1. Len(batch) + 1 = i
    BY <1>1
  <2>2. QED
    BY <1>1, <1>3, <2>1, AppendProperties
<1>5. \A k \in 1 .. Len(batch') : batch'[k] = [ip |-> ips.at[k], port |-> ports.at[k]]
  BY <1>1, <1>4
<1>6. ips' = ips /\ ports' = ports /\ edits' = edits /\ listed' = listed
  BY DEF tableVars
<1>7. QED
  BY <1>1, <1>2, <1>4, <1>5, <1>6 DEF BatchInv, Sending

\* While the handler does not run, a read within the size is the element.
LEMMA ReadIdle ==
    ASSUME NEW v, NEW k, edits = <<>>, k <= v.size
    PROVE  Read(v, k) = {v.at[k]}
  BY DEF Read

\* Steps of the units outside the loop.
LEMMA OutsideLoop ==
    ASSUME TableInv, BatchInv,
           ForwardStart \/ GuiStart \/ BackwardStart \/ BackwardRecvFrom \/ SendPacket
           \/ RecvPacketFails \/ StationSends \/ StationCloses
    PROVE  BatchInv'
<1>1. UNCHANGED <<loopVars, tableVars>>
  BY DEF ForwardStart, GuiStart, BackwardStart, BackwardRecvFrom, SendPacket,
     RecvPacketFails, StationSends, StationCloses
<1>2. pc' = pc \/ pc' \notin {"check", "port", "ip"}
  BY DEF ForwardStart, GuiStart, BackwardStart, BackwardRecvFrom, SendPacket, SendBytes,
     RecvPacketFails, StationSends, StationCloses, Connect, CreateUdp
<1>3. QED
  BY <1>1, <1>2, KeepsBatch

\* A packet begins with no client,
LEMMA RecvPacketBatch == TableInv /\ RecvPacket => BatchInv'
<1> SUFFICES ASSUME TableInv, RecvPacket PROVE BatchInv'
  OBVIOUS
<1>1. BeginPacket /\ UNCHANGED tableVars /\ pc' \notin {"port", "ip"}
  BY DEF RecvPacket, Deliver
<1>2. QED
  BY <1>1, BeginBatch

\* ends after the last,
LEMMA PacketDoneBatch == TableInv /\ PacketDone => BatchInv'
<1> SUFFICES ASSUME TableInv, PacketDone PROVE BatchInv'
  OBVIOUS
<1>1. BeginPacket /\ UNCHANGED tableVars /\ pc' \notin {"port", "ip"}
  BY DEF PacketDone
<1>2. QED
  BY <1>1, BeginBatch

\* goes to one client after the other (ChannelUnitForward),
LEMMA SendToClientBatch == TableInv /\ BatchInv /\ SendToClient => BatchInv'
<1> SUFFICES ASSUME TableInv, BatchInv, SendToClient, quiet' PROVE BatchInv'
  BY DEF BatchInv
<1>1. /\ pc = "check" /\ pc' = pc /\ i <= ips.size /\ i' = i + 1 /\ quiet
      /\ batch' = Append(batch, [ip |-> ips.at[i], port |-> ports.at[i]])
      /\ UNCHANGED <<quiet, listed, tableVars>>
  BY DEF SendToClient, SendTo
<1>2. QED
  BY <1>1, SentOne DEF Sending

\* or, in ChannelForwardGUI, looks whether there is another,
LEMMA CheckSizeBatch == BatchInv /\ CheckSize => BatchInv'
  BY DEF CheckSize, BatchInv, Sending, loopVars, tableVars

\* reads its port,
LEMMA ReadPortBatch == BatchInv /\ TableInv /\ ReadPort => BatchInv'
<1> SUFFICES ASSUME TableInv, BatchInv, ReadPort, quiet' PROVE BatchInv'
  BY DEF BatchInv
<1>1. /\ pc = "port" /\ pc' = "ip" /\ quiet /\ port' \in Read(ports, i)
      /\ UNCHANGED <<i, batch, quiet, listed, tableVars>>
  BY DEF ReadPort
<1>2. edits = <<>> /\ i <= ips.size
  BY <1>1 DEF BatchInv
<1>3. i <= ports.size
  BY <1>2 DEF TableInv
<1>4. port' = ports.at[i]
  BY <1>1, <1>2, <1>3, ReadIdle
<1>5. QED
  BY <1>1, <1>2, <1>4 DEF BatchInv, Sending, tableVars

\* and its address, and is sent there.
LEMMA ReadIpBatch == BatchInv /\ TableInv /\ ReadIpAndSend => BatchInv'
<1> SUFFICES ASSUME TableInv, BatchInv, ReadIpAndSend, quiet' PROVE BatchInv'
  BY DEF BatchInv
<1>1. /\ pc = "ip" /\ pc' \notin {"port", "ip"} /\ quiet /\ i' = i + 1
      /\ UNCHANGED <<quiet, listed, tableVars>>
      /\ \E ip \in Read(ips, i) : batch' = Append(batch, [ip |-> ip, port |-> port])
  BY DEF ReadIpAndSend, SendTo
<1>2. edits = <<>> /\ i <= ips.size /\ port = ports.at[i]
  BY <1>1 DEF BatchInv
<1>3. batch' = Append(batch, [ip |-> ips.at[i], port |-> ports.at[i]])
  BY <1>1, <1>2, ReadIdle
<1>4. QED
  BY <1>1, <1>2, <1>3, SentOne DEF Sending

\* Every step keeps it: a packet during which the button handler runs is not quiet.
LEMMA BatchStep == TableInv /\ BatchInv /\ [Next]_vars => BatchInv'
<1> SUFFICES ASSUME TableInv, BatchInv, [Next]_vars PROVE BatchInv'
  OBVIOUS
<1>1. CASE UnitStep
  BY <1>1, OutsideLoop, RecvPacketBatch, PacketDoneBatch, SendToClientBatch,
     CheckSizeBatch, ReadPortBatch, ReadIpBatch DEF UnitStep
<1>2. CASE StationSends \/ StationCloses
  BY <1>2, OutsideLoop
<1>3. CASE Click
  BY <1>3 DEF Click, BatchInv
<1>4. CASE Write
  BY <1>4 DEF Write, BatchInv, loopVars
<1>5. CASE UNCHANGED vars
  BY <1>5 DEF vars, BatchInv, Sending, loopVars, tableVars
<1>6. QED
  BY <1>1, <1>2, <1>3, <1>4, <1>5 DEF Next

\* The table that the button handler and the thread of the unit share is as
\* TableInv says after every single write, and a packet without a click goes to
\* the clients of the table in their order.
THEOREM TableCorrect == Spec => [](TableInv /\ BatchInv)
<1>1. Init => TableInv /\ BatchInv
  BY TableInit, BatchInit
<1>2. TableInv /\ BatchInv /\ [Next]_vars => (TableInv /\ BatchInv)'
  BY TableStep, BatchStep
<1>3. QED
  BY <1>1, <1>2, PTL DEF Spec

\* Unless the button handler runs during a packet, run_blocked never mixes the
\* address of one client with the port of another, nor reads beyond the table.
THEOREM AddressesAlwaysMatch == Spec => []AddressesMatch
<1>1. TableInv /\ BatchInv => AddressesMatch
  <2> SUFFICES ASSUME TableInv, BatchInv, quiet, NEW b \in Range(batch)
               PROVE  b.ip = b.port /\ b.ip \in Configured
    BY DEF AddressesMatch
  <2>1. /\ edits = <<>> /\ batch \in Seq([ip : Addresses, port : Addresses])
        /\ Len(batch) <= ips.size
    BY DEF BatchInv
  <2>2. Configured = {ips.at[k] : k \in 1 .. ips.size} /\ ips.size \in Nat
    BY <2>1, IdleTable
  <2>3. PICK k \in 1 .. Len(batch) : b = batch[k]
    BY <2>1, LenProperties DEF Range
  <2>4. b = [ip |-> ips.at[k], port |-> ports.at[k]]
    BY <2>3 DEF BatchInv
  <2>5. Len(batch) \in Nat /\ k \in 1 .. ips.size
    BY <2>1, <2>2, LenProperties
  <2>6. ips.at[k] = ports.at[k]
    BY <2>1, <2>5 DEF TableInv, Agree
  <2>7. QED
    BY <2>2, <2>4, <2>5, <2>6
<1>2. QED
  BY <1>1, TableCorrect, PTL

\* Unless the button handler runs during a packet, the loop over the two vectors
\* sends it to every client of the table once and to nobody else.
THEOREM QuietBroadcastReachesAll == Spec => []QuietBroadcast
<1>1. TableInv /\ BatchInv => QuietBroadcast
  <2> SUFFICES ASSUME TableInv, BatchInv, BroadcastDone, quiet
               PROVE  /\ batch = [k \in 1 .. Len(batch) |->
                                     [ip |-> ips.at[k], port |-> ports.at[k]]]
                      /\ {b.ip : b \in Range(batch)} = listed
    BY DEF QuietBroadcast
  <2>1. /\ edits = <<>> /\ batch \in Seq([ip : Addresses, port : Addresses])
        /\ Len(batch) <= ips.size /\ i \in Nat \ {0} /\ Len(batch) = i - 1
        /\ \A k \in 1 .. Len(batch) : batch[k] = [ip |-> ips.at[k], port |-> ports.at[k]]
        /\ listed = {ips.at[k] : k \in 1 .. ips.size}
    BY DEF BatchInv, BroadcastDone, Sending
  <2>2. ips.size \in Nat /\ Len(batch) = ips.size
    BY <2>1, IdleTable DEF BroadcastDone
  <2>3. DOMAIN batch = 1 .. Len(batch) /\ batch = [k \in DOMAIN batch |-> batch[k]]
    BY <2>1, LenProperties
  <2>4. batch = [k \in 1 .. Len(batch) |-> [ip |-> ips.at[k], port |-> ports.at[k]]]
    BY <2>1, <2>3
  <2>5. {b.ip : b \in Range(batch)} = {batch[k].ip : k \in 1 .. ips.size}
    BY <2>2, <2>3 DEF Range
  <2>6. {batch[k].ip : k \in 1 .. ips.size} = {ips.at[k] : k \in 1 .. ips.size}
    <3>1. ASSUME NEW k \in 1 .. ips.size PROVE batch[k].ip = ips.at[k]
      <4>1. batch[k] = [ip |-> ips.at[k], port |-> ports.at[k]]
        BY <2>1, <2>2
      <4>2. QED
        BY <4>1
    <3>2. QED
      BY <3>1
  <2>7. QED
    BY <2>1, <2>4, <2>5, <2>6
<1>2. QED
  BY <1>1, TableCorrect, PTL

-----------------------------------------------------------------------------
(***************************************************************************)
(* Theorems about the packets on the TCP connections of ChannelUnits, for  *)
(* every length of the header, every size of the two buffers, any packets  *)
(* and any way in which the bytes are cut into pieces.                     *)
(*                                                                         *)
(* Laid says where the packets of a stream stand, without searching:       *)
(* packet k fills the positions off[k - 1] + 1 to off[k].  Of such a       *)
(* stream the search of TcpSocket finds exactly these packets (ScanLaid),  *)
(* also from the beginning of one of them to wherever the bytes received   *)
(* so far end (ScanPiece).                                                 *)
(***************************************************************************)

Packets == [id : Nat, len : Nat]
Bytes == [id : Nat, len : Nat, at : Nat]

Size(pkt) == HeadLen + pkt.len

\* The first n bytes of a packet stand behind position p.
Holds(bytes, p, pkt, n) ==
    \A j \in 1 .. n : bytes[p + j] = [id |-> pkt.id, len |-> pkt.len, at |-> j]

\* The packets stand one behind the other from the beginning.
Laid(bytes, pkts, off) ==
    /\ bytes \in Seq(Bytes) /\ pkts \in Seq(Packets)
    /\ off \in [0 .. Len(pkts) -> 0 .. Len(bytes)] /\ off[0] = 0
    /\ \A k \in 1 .. Len(pkts) :
         /\ off[k] = off[k - 1] + Size(pkts[k])
         /\ Holds(bytes, off[k - 1], pkts[k], Size(pkts[k]))

-----------------------------------------------------------------------------
(* The search for packets.                                                 *)

\* One turn of the loop over recv_buffer_, given what the turns behind it find.
Turn(bytes, f, p) ==
    IF CompleteAt(bytes, p)
    THEN LET pkt == [id |-> bytes[p + 1].id, len |-> bytes[p + 1].len]
             rest == f[p + HeadLen + pkt.len]
         IN  [packets |-> <<pkt>> \o rest.packets, end |-> rest.end]
    ELSE [packets |-> <<>>, end |-> p]

\* A complete packet ends behind where it begins, and inside the bytes.
LEMMA CompleteEnds ==
    ASSUME NEW bytes \in Seq(Bytes), NEW p \in Nat, CompleteAt(bytes, p)
    PROVE  /\ p + 1 \in 1 .. Len(bytes) /\ bytes[p + 1].len \in Nat
           /\ p + HeadLen + bytes[p + 1].len \in p + 1 .. Len(bytes)
<1>1. Len(bytes) \in Nat /\ HeadLen \in Nat \ {0} /\ p + HeadLen <= Len(bytes)
  BY TcpAssumption DEF CompleteAt
<1>2. p + 1 \in 1 .. Len(bytes)
  BY <1>1
<1>3. bytes[p + 1] \in Bytes
  BY <1>2, ElementOfSeq
<1>4. QED
  BY <1>1, <1>2, <1>3, SMTT(30) DEF Bytes, CompleteAt

\* A turn depends on the turns at later positions only.
LEMMA TurnLater ==
    ASSUME NEW bytes \in Seq(Bytes), NEW p \in Nat, NEW f, NEW g,
           \A q \in p + 1 .. Len(bytes) : f[q] = g[q]
    PROVE  Turn(bytes, f, p) = Turn(bytes, g, p)
<1>1. CASE CompleteAt(bytes, p)
  <2>1. f[p + HeadLen + bytes[p + 1].len] = g[p + HeadLen + bytes[p + 1].len]
    BY <1>1, CompleteEnds
  <2>2. QED
    BY <2>1 DEF Turn
<1>2. CASE ~CompleteAt(bytes, p)
  BY <1>2 DEF Turn
<1>3. QED
  BY <1>1, <1>2

\* So the turns are well defined: the recursion of Scan ends.
LEMMA TurnsExist ==
    ASSUME NEW bytes \in Seq(Bytes)
    PROVE  \E f : f = [p \in 0 .. Len(bytes) |-> Turn(bytes, f, p)]
<1> DEFINE n == Len(bytes)
           From(m) == \E f : f = [p \in m .. n |-> Turn(bytes, f, p)]
           T == {m \in 0 .. n : From(m)}
<1>1. n \in Nat
  OBVIOUS
<1>2. From(n)
  <2> DEFINE f == [p \in n .. n |-> [packets |-> <<>>, end |-> p]]
  <2>1. ~CompleteAt(bytes, n)
    BY <1>1, CompleteEnds
  <2>2. \A p \in n .. n : Turn(bytes, f, p) = [packets |-> <<>>, end |-> p]
    BY <1>1, <2>1 DEF Turn
  <2>3. f = [p \in n .. n |-> Turn(bytes, f, p)]
    BY <2>2
  <2>4. QED
    BY <2>3
<1>3. PICK m \in T : \A x \in T : m <= x
  <2>1. T \subseteq Nat /\ n \in T
    BY <1>1, <1>2
  <2> HIDE DEF T
  <2>2. QED
    BY <2>1, Least
<1>4. CASE m = 0
  BY <1>3, <1>4
<1>5. CASE m # 0
  <2>1. m \in 1 .. n /\ m - 1 \in 0 .. n /\ m - 1 \notin T
    BY <1>1, <1>3, <1>5
  <2>2. PICK f : f = [p \in m .. n |-> Turn(bytes, f, p)]
    BY <1>3
  <2> DEFINE g == [p \in m - 1 .. n |-> IF p = m - 1 THEN Turn(bytes, f, p) ELSE f[p]]
  <2>3. ASSUME NEW p \in m - 1 .. n PROVE g[p] = Turn(bytes, g, p)
    <3>1. p \in Nat
      BY <2>1
    <3>2. \A q \in p + 1 .. n : f[q] = g[q]
      BY <2>1
    <3>3. Turn(bytes, f, p) = Turn(bytes, g, p)
      BY <3>1, <3>2, TurnLater
    <3>4. g[p] = Turn(bytes, f, p)
      <4>1. CASE p = m - 1
        BY <4>1
      <4>2. CASE p # m - 1
        <5>1. p \in m .. n
          BY <2>1, <4>2
        <5>2. f[p] = Turn(bytes, f, p)
          BY <2>2, <5>1
        <5>3. QED
          BY <4>2, <5>2
      <4>3. QED
        BY <4>1, <4>2
    <3>5. QED
      BY <3>3, <3>4
  <2>4. g = [p \in m - 1 .. n |-> Turn(bytes, g, p)]
    <3> DEFINE h == [p \in m - 1 .. n |-> Turn(bytes, g, p)]
    <3>1. \A p \in m - 1 .. n : g[p] = h[p]
      BY <2>3
    <3>2. DOMAIN g = m - 1 .. n /\ DOMAIN h = m - 1 .. n
      OBVIOUS
    <3>3. g = [p \in m - 1 .. n |-> g[p]] /\ h = [p \in m - 1 .. n |-> h[p]]
      OBVIOUS
    <3> HIDE DEF g, h
    <3>4. g = h
      BY <3>1, <3>3
    <3>5. QED
      BY <3>4 DEF h
  <2> HIDE DEF g
  <2>5. From(m - 1)
    BY <2>4
  <2>6. QED
    BY <2>1, <2>5
<1>6. QED
  BY <1>4, <1>5

\* The search for packets is a function that obeys its recursion.
LEMMA ScanTurns ==
    ASSUME NEW bytes \in Seq(Bytes)
    PROVE  \E f : /\ f = [p \in 0 .. Len(bytes) |-> Turn(bytes, f, p)]
                  /\ Scan(bytes) = f[0]
<1> DEFINE f == CHOOSE f : f = [p \in 0 .. Len(bytes) |-> Turn(bytes, f, p)]
<1>1. f = [p \in 0 .. Len(bytes) |-> Turn(bytes, f, p)]
  BY TurnsExist, Zenon
<1>2. Scan(bytes) = f[0]
  BY Zenon DEF Scan, Turn
<1>3. QED
  BY <1>1, <1>2

\* Where the packets stand, as numbers and bytes.
LEMMA LaidFacts ==
    ASSUME NEW bytes, NEW pkts, NEW off, Laid(bytes, pkts, off)
    PROVE  /\ Len(bytes) \in Nat /\ Len(pkts) \in Nat /\ HeadLen \in Nat \ {0}
           /\ \A k \in 0 .. Len(pkts) : off[k] \in Nat /\ off[k] <= Len(bytes)
           /\ \A k \in 1 .. Len(pkts) :
                /\ k - 1 \in 0 .. Len(pkts)
                /\ pkts[k] \in Packets /\ pkts[k].id \in Nat /\ pkts[k].len \in Nat
                /\ off[k] = off[k - 1] + Size(pkts[k]) /\ off[k - 1] < off[k]
<1>1. Len(bytes) \in Nat /\ Len(pkts) \in Nat /\ HeadLen \in Nat \ {0}
  BY TcpAssumption DEF Laid
<1>2. \A k \in 0 .. Len(pkts) : off[k] \in Nat /\ off[k] <= Len(bytes)
  BY <1>1 DEF Laid
<1>3. ASSUME NEW k \in 1 .. Len(pkts)
      PROVE  /\ k - 1 \in 0 .. Len(pkts)
             /\ pkts[k] \in Packets /\ pkts[k].id \in Nat /\ pkts[k].len \in Nat
             /\ off[k] = off[k - 1] + Size(pkts[k]) /\ off[k - 1] < off[k]
  <2>1. k - 1 \in 0 .. Len(pkts)
    BY <1>1
  <2>2. pkts[k] \in Packets
    BY ElementOfSeq DEF Laid
  <2>3. off[k] = off[k - 1] + Size(pkts[k])
    BY DEF Laid
  <2>4. QED
    BY <1>1, <1>2, <2>1, <2>2, <2>3, SMTT(30) DEF Packets, Size
<1>4. QED
  BY <1>1, <1>2, <1>3

\* The beginning of a packet is a header; whether it is complete is a question of length.
LEMMA HeadComplete ==
    ASSUME NEW bytes \in Seq(Bytes), NEW p \in Nat, NEW pkt \in Packets,
           p + HeadLen <= Len(bytes), Holds(bytes, p, pkt, HeadLen)
    PROVE  /\ bytes[p + 1].id = pkt.id /\ bytes[p + 1].len = pkt.len
           /\ CompleteAt(bytes, p) <=> p + Size(pkt) <= Len(bytes)
<1>1. HeadLen \in Nat \ {0} /\ pkt.len \in Nat
  BY TcpAssumption DEF Packets
<1>2. ASSUME NEW j \in 1 .. HeadLen
      PROVE  /\ bytes[p + j].at = j
             /\ bytes[p + j].id = pkt.id /\ bytes[p + j].len = pkt.len
  <2>1. bytes[p + j] = [id |-> pkt.id, len |-> pkt.len, at |-> j]
    BY DEF Holds
  <2>2. QED
    BY <2>1
<1>3. 1 \in 1 .. HeadLen
  BY <1>1
<1>4. bytes[p + 1].id = pkt.id /\ bytes[p + 1].len = pkt.len
  BY <1>2, <1>3
<1>5. p + HeadLen + pkt.len = p + Size(pkt)
  BY <1>1 DEF Size
<1>6. QED
  BY <1>4, <1>5 DEF CompleteAt

\* The search finds the packets that stand there, if no complete one follows.
LEMMA ScanLaid ==
    ASSUME NEW bytes, NEW pkts, NEW off, Laid(bytes, pkts, off),
           ~CompleteAt(bytes, off[Len(pkts)])
    PROVE  Scan(bytes) = [packets |-> pkts, end |-> off[Len(pkts)]]
<1> DEFINE n == Len(pkts)
           Rest(k) == [packets |-> SubSeq(pkts, n - k + 1, n), end |-> off[n]]
<1>1. bytes \in Seq(Bytes) /\ pkts \in Seq(Packets) /\ off[0] = 0
  BY DEF Laid
<1>2. PICK f : f = [p \in 0 .. Len(bytes) |-> Turn(bytes, f, p)] /\ Scan(bytes) = f[0]
  BY <1>1, ScanTurns
<1>3. n \in Nat /\ \A k \in 0 .. n : off[k] \in 0 .. Len(bytes)
  BY LaidFacts
<1>4. \A k \in 0 .. n : f[off[k]] = Turn(bytes, f, off[k])
  BY <1>2, <1>3, Zenon
<1>5. ASSUME NEW k \in 0 .. n, k = 0 \/ f[off[n - (k - 1)]] = Rest(k - 1)
      PROVE  f[off[n - k]] = Rest(k)
  <2>1. CASE k = 0
    <3>1. f[off[n]] = [packets |-> <<>>, end |-> off[n]]
      <4>1. n \in 0 .. n
        BY <1>3
      <4>2. f[off[n]] = Turn(bytes, f, off[n])
        BY <1>4, <4>1
      <4>3. QED
        BY <4>2 DEF Turn
    <3>2. SubSeq(pkts, n + 1, n) = <<>>
      BY <1>3, SubSeqEmpty
    <3>3. n - k = n /\ n - k + 1 = n + 1
      BY <1>3, <2>1
    <3>4. QED
      BY <3>1, <3>2, <3>3
  <2>2. CASE k # 0
    <3>1. PICK at : at = n - k + 1
      OBVIOUS
    <3>2. at \in 1 .. n /\ at - 1 = n - k /\ n - (k - 1) = at
      BY <1>3, <2>2, <3>1
    <3>3. /\ pkts[at] \in Packets /\ pkts[at].len \in Nat
          /\ off[at] = off[at - 1] + Size(pkts[at])
      BY <3>2, LaidFacts
    <3>4. Holds(bytes, off[at - 1], pkts[at], HeadLen)
      <4>1. Holds(bytes, off[at - 1], pkts[at], Size(pkts[at]))
        BY <3>2 DEF Laid
      <4>2. HeadLen <= Size(pkts[at]) /\ HeadLen \in Nat
        BY <3>3, TcpAssumption DEF Size
      <4>3. \A j \in 1 .. HeadLen : j \in 1 .. Size(pkts[at])
        BY <3>3, <4>2, TcpAssumption DEF Size
      <4>4. QED
        BY <4>1, <4>3 DEF Holds
    <3>5. PICK p : p = off[at - 1]
      OBVIOUS
    <3>6. p \in Nat /\ p + Size(pkts[at]) <= Len(bytes) /\ Len(bytes) \in Nat
      BY <1>3, <3>2, <3>3, <3>5, LaidFacts
    <3>7. p + HeadLen <= Len(bytes)
      BY <3>3, <3>6, TcpAssumption DEF Size
    <3>8. /\ CompleteAt(bytes, p)
          /\ bytes[p + 1].id = pkts[at].id /\ bytes[p + 1].len = pkts[at].len
      BY <1>1, <3>3, <3>4, <3>6, <3>7, <3>5, HeadComplete
    <3>9. p + HeadLen + bytes[p + 1].len = off[at]
      BY <3>3, <3>6, <3>8, <3>5, TcpAssumption DEF Size
    <3>10. pkts[at] = [id |-> pkts[at].id, len |-> pkts[at].len]
      BY <3>3 DEF Packets
    <3>11. f[off[at]] = Rest(k - 1) /\ n - (k - 1) + 1 = at + 1
      BY <2>2, <1>3, <1>5, <3>1, <3>2
    <3>12. f[p] = [packets |-> <<pkts[at]>> \o f[off[at]].packets, end |-> f[off[at]].end]
      <4>1. f[p] = Turn(bytes, f, p)
        BY <1>3, <1>4, <3>2, <3>5
      <4>2. [id |-> bytes[p + 1].id, len |-> bytes[p + 1].len] = pkts[at]
        BY <3>8, <3>10
      <4>3. QED
        BY <3>8, <3>9, <4>1, <4>2 DEF Turn
    <3>13. SubSeq(pkts, at, n) = <<pkts[at]>> \o SubSeq(pkts, at + 1, n)
      BY <1>1, <1>3, <3>2, SubSeqRecursiveFirst
    <3>14. QED
      <4>1. f[off[at]].packets = SubSeq(pkts, at + 1, n) /\ f[off[at]].end = off[n]
        BY <3>11
      <4>2. f[off[n - k]] = [packets |-> SubSeq(pkts, at, n), end |-> off[n]]
        BY <3>2, <3>12, <3>13, <3>5, <4>1
      <4>3. QED
        BY <3>1, <4>2
  <2>3. QED
    BY <2>1, <2>2
<1>6. f[off[0]] = Rest(n)
  <2> DEFINE T == {k \in 0 .. n : f[off[n - k]] # Rest(k)}
  <2>1. T = {}
    <3>1. SUFFICES ASSUME T # {} PROVE FALSE
      OBVIOUS
    <3>2. T \subseteq Nat
      BY <1>3
    <3>3. PICK k \in T : \A y \in T : k <= y
      <4> HIDE DEF T
      <4>1. QED
        BY <3>1, <3>2, Least
    <3>4. k \in 0 .. n /\ f[off[n - k]] # Rest(k)
      BY <3>3
    <3>5. k = 0 \/ (k - 1 \in 0 .. n /\ k - 1 \notin T)
      <4>1. k \in Nat /\ (k # 0 => k - 1 \in 0 .. n /\ ~(k <= k - 1))
        BY <1>3, <3>4
      <4> HIDE DEF T
      <4>2. QED
        BY <3>3, <4>1
    <3>6. k = 0 \/ f[off[n - (k - 1)]] = Rest(k - 1)
      BY <3>5
    <3>7. QED
      BY <1>5, <3>4, <3>6
  <2>2. n \in 0 .. n /\ n - n = 0
    BY <1>3
  <2>3. QED
    BY <2>1, <2>2
<1>7. QED
  <2>1. SubSeq(pkts, n - n + 1, n) = pkts
    <3>1. n - n + 1 = 1
      BY <1>3
    <3>2. QED
      BY <1>1, <3>1, SubSeqFull
  <2>2. QED
    BY <1>1, <1>2, <1>6, <2>1

-----------------------------------------------------------------------------
(* Bytes that are added, taken, and left over.                             *)

\* More bytes leave the packets where they are.
LEMMA LaidExtended ==
    ASSUME NEW bytes, NEW pkts, NEW off, Laid(bytes, pkts, off), NEW more \in Seq(Bytes)
    PROVE  /\ Laid(bytes \o more, pkts, off)
           /\ Len(bytes \o more) = Len(bytes) + Len(more)
           /\ \A j \in 1 .. Len(more) : (bytes \o more)[Len(bytes) + j] = more[j]
<1>1. /\ bytes \o more \in Seq(Bytes) /\ Len(bytes \o more) = Len(bytes) + Len(more)
      /\ Len(more) \in Nat
      /\ \A j \in 1 .. Len(bytes) + Len(more) :
           (bytes \o more)[j] = IF j <= Len(bytes) THEN bytes[j] ELSE more[j - Len(bytes)]
  BY ConcatProperties DEF Laid
<1>2. Len(bytes) \in Nat
  BY LaidFacts
<1>3. off \in [0 .. Len(pkts) -> 0 .. Len(bytes \o more)]
  <2>1. \A k \in 0 .. Len(pkts) : off[k] \in 0 .. Len(bytes \o more)
    BY <1>1, <1>2, LaidFacts
  <2>2. QED
    BY <2>1 DEF Laid
<1>4. ASSUME NEW k \in 1 .. Len(pkts)
      PROVE  Holds(bytes \o more, off[k - 1], pkts[k], Size(pkts[k]))
  <2>1. Holds(bytes, off[k - 1], pkts[k], Size(pkts[k]))
    BY DEF Laid
  <2>2. ASSUME NEW j \in 1 .. Size(pkts[k])
        PROVE  (bytes \o more)[off[k - 1] + j] = bytes[off[k - 1] + j]
    <3>1. /\ off[k - 1] \in Nat /\ off[k] = off[k - 1] + Size(pkts[k])
          /\ off[k] \in Nat /\ off[k] <= Len(bytes) /\ pkts[k].len \in Nat
      <4>1. Len(pkts) \in Nat
        BY LaidFacts
      <4>2. k \in 0 .. Len(pkts) /\ k - 1 \in 0 .. Len(pkts)
        BY <4>1
      <4>3. QED
        BY <4>2, LaidFacts
    <3>2. Size(pkts[k]) \in Nat
      BY <3>1, TcpAssumption DEF Size
    <3>3. off[k - 1] + j \in 1 .. Len(bytes) + Len(more) /\ off[k - 1] + j <= Len(bytes)
      BY <1>1, <1>2, <3>1, <3>2, SMTT(30)
    <3>4. QED
      BY <1>1, <3>3
  <2>3. QED
    BY <2>1, <2>2 DEF Holds
<1>5. ASSUME NEW j \in 1 .. Len(more)
      PROVE  (bytes \o more)[Len(bytes) + j] = more[j]
  BY <1>1, <1>2
<1>6. QED
  BY <1>1, <1>3, <1>4, <1>5 DEF Laid

\* The offsets with one more packet at the end.
Beyond(off, n, pkt) == [k \in 0 .. n + 1 |-> IF k = n + 1 THEN off[n] + Size(pkt) ELSE off[k]]

\* A packet that has become whole behind the others is the next one.
LEMMA LaidNext ==
    ASSUME NEW bytes, NEW pkts, NEW off, Laid(bytes, pkts, off), NEW pkt \in Packets,
           off[Len(pkts)] + Size(pkt) <= Len(bytes),
           Holds(bytes, off[Len(pkts)], pkt, Size(pkt))
    PROVE  Laid(bytes, Append(pkts, pkt), Beyond(off, Len(pkts), pkt))
<1> DEFINE n == Len(pkts)
           more == Append(pkts, pkt)
<1>1. n \in Nat /\ Len(bytes) \in Nat /\ HeadLen \in Nat \ {0} /\ pkt.len \in Nat
      /\ pkts \in Seq(Packets) /\ off[0] = 0 /\ off[n] \in Nat
  <2>1. n \in 0 .. n
    BY LaidFacts
  <2>2. QED
    BY <2>1, LaidFacts DEF Laid, Packets
<1>2. PICK on : on = Beyond(off, n, pkt)
  OBVIOUS
<1>3. /\ more \in Seq(Packets) /\ Len(more) = n + 1 /\ more[n + 1] = pkt
      /\ \A k \in 1 .. n : more[k] = pkts[k]
  BY <1>1, AppendProperties
<1>4. on[n + 1] = off[n] + Size(pkt) /\ \A k \in 0 .. n : on[k] = off[k]
  BY <1>1, <1>2 DEF Beyond
<1>5. on \in [0 .. n + 1 -> 0 .. Len(bytes)]
  <2>1. off[n] + Size(pkt) \in 0 .. Len(bytes)
    BY <1>1 DEF Size
  <2>2. \A k \in 0 .. n + 1 : k # n + 1 => off[k] \in 0 .. Len(bytes)
    BY <1>1, LaidFacts
  <2>3. QED
    BY <1>2, <2>1, <2>2 DEF Beyond
<1>6. ASSUME NEW k \in 1 .. n + 1
      PROVE  /\ on[k] = on[k - 1] + Size(more[k])
             /\ Holds(bytes, on[k - 1], more[k], Size(more[k]))
  <2>1. CASE k = n + 1
    <3>1. k - 1 = n /\ on[k - 1] = off[n] /\ more[k] = pkt /\ on[k] = off[n] + Size(pkt)
      BY <1>1, <1>3, <1>4, <2>1
    <3>2. QED
      BY <3>1
  <2>2. CASE k # n + 1
    <3>1. k \in 1 .. n /\ on[k] = off[k] /\ on[k - 1] = off[k - 1] /\ more[k] = pkts[k]
      BY <1>1, <1>3, <1>4, <2>2
    <3>2. QED
      BY <3>1 DEF Laid
  <2>3. QED
    BY <2>1, <2>2
<1>7. on[0] = 0
  BY <1>1, <1>4
<1>8. bytes \in Seq(Bytes)
  BY DEF Laid
<1>9. Laid(bytes, more, on)
  BY <1>3, <1>5, <1>6, <1>7, <1>8 DEF Laid
<1>10. QED
  BY <1>2, <1>9

\* The two parts of a packet.
LEMMA PacketParts ==
    ASSUME NEW pkt \in Packets
    PROVE  /\ HeadOf(pkt) \in Seq(Bytes) /\ Len(HeadOf(pkt)) = HeadLen
           /\ DataOf(pkt) \in Seq(Bytes) /\ Len(DataOf(pkt)) = pkt.len
           /\ \A j \in 1 .. HeadLen :
                HeadOf(pkt)[j] = [id |-> pkt.id, len |-> pkt.len, at |-> j]
           /\ \A j \in 1 .. pkt.len :
                DataOf(pkt)[j] = [id |-> pkt.id, len |-> pkt.len, at |-> HeadLen + j]
<1>1. HeadLen \in Nat \ {0} /\ pkt.id \in Nat /\ pkt.len \in Nat
  BY TcpAssumption DEF Packets
<1>2. ASSUME NEW from \in Nat, NEW to \in Nat, NEW n \in Nat, to = from + n - 1
      PROVE  /\ BytesOf(pkt, from, to) \in Seq(Bytes) /\ Len(BytesOf(pkt, from, to)) = n
             /\ \A j \in 1 .. n : BytesOf(pkt, from, to)[j] =
                    [id |-> pkt.id, len |-> pkt.len, at |-> from + j - 1]
  <2>1. BytesOf(pkt, from, to) =
            [j \in 1 .. n |-> [id |-> pkt.id, len |-> pkt.len, at |-> from + j - 1]]
    <3>1. to - from + 1 = n
      BY <1>2
    <3>2. QED
      BY <3>1 DEF BytesOf
  <2>2. \A j \in 1 .. n : [id |-> pkt.id, len |-> pkt.len, at |-> from + j - 1] \in Bytes
    BY <1>1 DEF Bytes
  <2>3. PICK bytes : bytes = BytesOf(pkt, from, to)
    OBVIOUS
  <2>4. bytes \in [1 .. n -> Bytes]
    BY <2>1, <2>2, <2>3
  <2>5. bytes \in Seq(Bytes) /\ Len(bytes) = n
    BY <2>4
  <2>6. QED
    BY <2>1, <2>3, <2>5
<1>3. /\ HeadOf(pkt) \in Seq(Bytes) /\ Len(HeadOf(pkt)) = HeadLen
      /\ \A j \in 1 .. HeadLen :
           HeadOf(pkt)[j] = [id |-> pkt.id, len |-> pkt.len, at |-> 1 + j - 1]
  <2>1. 1 \in Nat /\ HeadLen \in Nat /\ HeadLen = 1 + HeadLen - 1
    BY <1>1
  <2>2. QED
    BY <1>2, <2>1 DEF HeadOf
<1>4. /\ DataOf(pkt) \in Seq(Bytes) /\ Len(DataOf(pkt)) = pkt.len
      /\ \A j \in 1 .. pkt.len :
           DataOf(pkt)[j] = [id |-> pkt.id, len |-> pkt.len, at |-> HeadLen + 1 + j - 1]
  <2>1. PICK first, last : first = HeadLen + 1 /\ last = HeadLen + pkt.len
    OBVIOUS
  <2>2. pkt.len \in Nat /\ first \in Nat /\ last \in Nat /\ last = first + pkt.len - 1
    BY <1>1, <2>1
  <2>3. DataOf(pkt) = BytesOf(pkt, first, last)
    BY <2>1 DEF DataOf
  <2>4. /\ DataOf(pkt) \in Seq(Bytes) /\ Len(DataOf(pkt)) = pkt.len
        /\ \A j \in 1 .. pkt.len :
             DataOf(pkt)[j] = [id |-> pkt.id, len |-> pkt.len, at |-> first + j - 1]
    <3>1. /\ BytesOf(pkt, first, last) \in Seq(Bytes)
          /\ Len(BytesOf(pkt, first, last)) = pkt.len
      BY <1>2, <2>2
    <3>2. \A j \in 1 .. pkt.len : BytesOf(pkt, first, last)[j] =
                 [id |-> pkt.id, len |-> pkt.len, at |-> first + j - 1]
      BY <1>2, <2>2
    <3>3. QED
      BY <2>3, <3>1, <3>2
  <2>5. QED
    BY <2>1, <2>4
<1>5. \A j \in 1 .. HeadLen : 1 + j - 1 = j
  BY <1>1
<1>6. \A j \in 1 .. pkt.len : HeadLen + 1 + j - 1 = HeadLen + j
  BY <1>1
<1>7. QED
  BY <1>3, <1>4, <1>5, <1>6

\* After the last packet follows the header of the next one ...
LEMMA HeadAdded ==
    ASSUME NEW bytes, NEW pkts, NEW off, Laid(bytes, pkts, off),
           off[Len(pkts)] = Len(bytes), NEW pkt \in Packets
    PROVE  /\ Laid(bytes \o HeadOf(pkt), pkts, off)
           /\ Len(bytes \o HeadOf(pkt)) = off[Len(pkts)] + HeadLen
           /\ Holds(bytes \o HeadOf(pkt), off[Len(pkts)], pkt, HeadLen)
<1>1. /\ HeadOf(pkt) \in Seq(Bytes) /\ Len(HeadOf(pkt)) = HeadLen
      /\ \A j \in 1 .. HeadLen :
           HeadOf(pkt)[j] = [id |-> pkt.id, len |-> pkt.len, at |-> j]
  BY PacketParts
<1>2. /\ Laid(bytes \o HeadOf(pkt), pkts, off)
      /\ Len(bytes \o HeadOf(pkt)) = Len(bytes) + HeadLen
      /\ \A j \in 1 .. HeadLen : (bytes \o HeadOf(pkt))[Len(bytes) + j] = HeadOf(pkt)[j]
  BY <1>1, LaidExtended, ZenonT(30)
<1>3. QED
  BY <1>1, <1>2 DEF Holds

\* ... and then its data: it is whole.
LEMMA DataAdded ==
    ASSUME NEW bytes, NEW pkts, NEW off, Laid(bytes, pkts, off), NEW pkt \in Packets,
           Len(bytes) = off[Len(pkts)] + HeadLen,
           Holds(bytes, off[Len(pkts)], pkt, HeadLen)
    PROVE  /\ Laid(bytes \o DataOf(pkt), Append(pkts, pkt), Beyond(off, Len(pkts), pkt))
           /\ Beyond(off, Len(pkts), pkt)[Len(pkts) + 1] = Len(bytes \o DataOf(pkt))
<1> DEFINE n == Len(pkts)
           more == bytes \o DataOf(pkt)
<1>1. /\ n \in Nat /\ off[n] \in Nat /\ HeadLen \in Nat \ {0} /\ pkt.len \in Nat
      /\ bytes \in Seq(Bytes)
  <2>1. n \in 0 .. n
    BY LaidFacts
  <2>2. QED
    BY <2>1, LaidFacts DEF Packets, Laid
<1>2. /\ DataOf(pkt) \in Seq(Bytes) /\ Len(DataOf(pkt)) = pkt.len
      /\ \A j \in 1 .. pkt.len :
           DataOf(pkt)[j] = [id |-> pkt.id, len |-> pkt.len, at |-> HeadLen + j]
  BY PacketParts
<1>3. /\ Laid(more, pkts, off) /\ Len(more) = Len(bytes) + pkt.len
      /\ \A j \in 1 .. pkt.len : more[Len(bytes) + j] = DataOf(pkt)[j]
  BY <1>2, LaidExtended, ZenonT(30)
<1>4. Len(more) = off[n] + Size(pkt)
  BY <1>1, <1>3 DEF Size
<1>5. ASSUME NEW j \in 1 .. Size(pkt)
      PROVE  more[off[n] + j] = [id |-> pkt.id, len |-> pkt.len, at |-> j]
  <2>1. CASE j <= HeadLen
    <3>1. j \in 1 .. HeadLen /\ off[n] + j \in 1 .. Len(bytes)
      BY <1>1, <2>1 DEF Size
    <3>2. more[off[n] + j] = bytes[off[n] + j]
      <4>1. off[n] + j \in 1 .. Len(bytes) + Len(DataOf(pkt)) /\ off[n] + j <= Len(bytes)
        BY <1>1, <1>2, <3>1
      <4>2. QED
        BY <1>1, <1>2, <4>1, ConcatProperties
    <3>3. QED
      BY <3>1, <3>2 DEF Holds
  <2>2. CASE ~(j <= HeadLen)
    <3>1. PICK l : l = j - HeadLen
      OBVIOUS
    <3>2. l \in 1 .. pkt.len /\ Len(bytes) + l = off[n] + j /\ HeadLen + l = j
      <4>1. j \in 1 .. HeadLen + pkt.len /\ Len(bytes) = off[n] + HeadLen
        BY DEF Size
      <4>2. l \in 1 .. pkt.len /\ HeadLen + l = j
        BY <1>1, <2>2, <3>1, <4>1
      <4>3. Len(bytes) + l = off[n] + j
        <5>1. PICK a, h : a = off[n] /\ h = HeadLen /\ a \in Nat /\ h \in Nat
          BY <1>1
        <5>2. (a + h) + l = a + (h + l)
          BY <4>2, <5>1
        <5>3. QED
          BY <4>1, <4>2, <5>1, <5>2
      <4>4. QED
        BY <4>2, <4>3
    <3>3. QED
      BY <1>2, <1>3, <3>2
  <2>3. QED
    BY <2>1, <2>2
<1>6. Laid(more, Append(pkts, pkt), Beyond(off, n, pkt))
  <2>1. off[n] + Size(pkt) <= Len(more)
    BY <1>1, <1>4 DEF Size
  <2>2. QED
    BY <1>3, <1>5, <2>1, LaidNext DEF Holds
<1>7. Beyond(off, n, pkt)[n + 1] = off[n] + Size(pkt)
  BY <1>1 DEF Beyond
<1>8. QED
  BY <1>4, <1>6, <1>7

\* A whole packet behind the others.
LEMMA PacketAdded ==
    ASSUME NEW bytes, NEW pkts, NEW off, Laid(bytes, pkts, off),
           off[Len(pkts)] = Len(bytes), NEW pkt \in Packets
    PROVE  LET more == bytes \o HeadOf(pkt) \o DataOf(pkt)
           IN  /\ Laid(more, Append(pkts, pkt), Beyond(off, Len(pkts), pkt))
               /\ Beyond(off, Len(pkts), pkt)[Len(pkts) + 1] = Len(more)
<1>1. /\ Laid(bytes \o HeadOf(pkt), pkts, off)
      /\ Len(bytes \o HeadOf(pkt)) = off[Len(pkts)] + HeadLen
      /\ Holds(bytes \o HeadOf(pkt), off[Len(pkts)], pkt, HeadLen)
  BY HeadAdded
<1>2. QED
  BY <1>1, DataAdded

\* Later packets stand at later offsets.
LEMMA OffsetsGrow ==
    ASSUME NEW bytes, NEW pkts, NEW off, Laid(bytes, pkts, off),
           NEW k \in 0 .. Len(pkts), NEW m \in k .. Len(pkts)
    PROVE  off[k] <= off[m]
<1> DEFINE T == {d \in 0 .. Len(pkts) - k : ~(off[k] <= off[k + d])}
<1>1. Len(pkts) \in Nat /\ k \in Nat
  BY LaidFacts
<1>2. T = {}
  <2>1. SUFFICES ASSUME T # {} PROVE FALSE
    OBVIOUS
  <2>2. T \subseteq Nat
    BY <1>1
  <2>3. PICK d \in T : \A y \in T : d <= y
    <3> HIDE DEF T
    <3>1. QED
      BY <2>1, <2>2, Least
  <2>4. d \in 0 .. Len(pkts) - k /\ ~(off[k] <= off[k + d])
    BY <2>3
  <2>5. d # 0
    BY <1>1, <2>4, LaidFacts
  <2>6. d - 1 \in 0 .. Len(pkts) - k /\ d - 1 \notin T
    <3>1. d - 1 \in 0 .. Len(pkts) - k /\ ~(d <= d - 1)
      BY <1>1, <2>4, <2>5
    <3> HIDE DEF T
    <3>2. QED
      BY <2>3, <3>1
  <2>7. off[k] <= off[k + (d - 1)]
    BY <2>6
  <2>8. PICK at : at = k + d
    OBVIOUS
  <2>9. at \in 1 .. Len(pkts) /\ at - 1 = k + (d - 1) /\ at \in 0 .. Len(pkts)
    BY <1>1, <2>4, <2>5, <2>8
  <2>10. off[at - 1] < off[at] /\ off[at - 1] \in Nat /\ off[at] \in Nat /\ off[k] \in Nat
    BY <2>9, LaidFacts
  <2>11. QED
    BY <2>4, <2>7, <2>8, <2>9, <2>10
<1>3. m - k \in 0 .. Len(pkts) - k /\ k + (m - k) = m
  BY <1>1
<1>4. QED
  BY <1>2, <1>3

\* The last packet that ends before a position.
LEMMA LastBefore ==
    ASSUME NEW bytes, NEW pkts, NEW off, Laid(bytes, pkts, off),
           NEW g \in 0 .. Len(pkts), NEW t \in Nat, off[g] <= t
    PROVE  \E m \in g .. Len(pkts) : off[m] <= t /\ (m < Len(pkts) => t < off[m + 1])
<1> DEFINE n == Len(pkts)
           T == {d \in 0 .. n - g : off[n - d] <= t}
<1>1. n \in Nat /\ g \in Nat
  BY LaidFacts
<1>2. PICK d \in T : \A y \in T : d <= y
  <2>1. n - g \in 0 .. n - g /\ n - (n - g) = g
    BY <1>1
  <2>2. n - g \in T /\ T \subseteq Nat
    BY <1>1, <2>1
  <2> HIDE DEF T
  <2>3. QED
    BY <2>2, Least
<1>3. d \in 0 .. n - g /\ off[n - d] <= t
  BY <1>2
<1>4. PICK m : m = n - d
  OBVIOUS
<1>5. m \in g .. n /\ off[m] <= t
  BY <1>1, <1>3, <1>4
<1>6. ASSUME m < n PROVE t < off[m + 1]
  <2>1. d - 1 \in 0 .. n - g /\ ~(d <= d - 1) /\ n - (d - 1) = m + 1 /\ m + 1 \in 0 .. n
    BY <1>1, <1>3, <1>4, <1>5, <1>6
  <2>2. d - 1 \notin T
    <3> HIDE DEF T
    <3>1. QED
      BY <1>2, <2>1
  <2>3. ~(off[m + 1] <= t)
    BY <2>1, <2>2
  <2>4. off[m + 1] \in Nat
    BY <2>1, LaidFacts
  <2>5. QED
    BY <2>3, <2>4
<1>7. QED
  BY <1>5, <1>6

\* A part of a sequence.
LEMMA Part ==
    ASSUME NEW S, NEW s \in Seq(S), NEW a \in Nat, NEW b \in Nat, a <= b, b <= Len(s)
    PROVE  /\ SubSeq(s, a + 1, b) \in Seq(S) /\ Len(SubSeq(s, a + 1, b)) = b - a
           /\ \A j \in 1 .. b - a : a + j \in 1 .. Len(s) /\ SubSeq(s, a + 1, b)[j] = s[a + j]
<1>1. PICK c, n : c = a + 1 /\ c \in Nat /\ n = b - a /\ n \in Nat /\ n = b - c + 1
  OBVIOUS
<1>2. \A j \in c .. b : s[j] \in S
  BY <1>1, ElementOfSeq
<1>3. /\ SubSeq(s, c, b) \in Seq(S)
      /\ Len(SubSeq(s, c, b)) = IF c <= b THEN b - c + 1 ELSE 0
      /\ \A j \in 1 .. b - c + 1 : SubSeq(s, c, b)[j] = s[c + j - 1]
  BY <1>1, <1>2, SubSeqProperties, SMTT(30)
<1>4. \A j \in 1 .. n : c + j - 1 = a + j /\ a + j \in 1 .. Len(s)
  BY <1>1
<1>5. c <= b \/ n = 0
  BY <1>1
<1>6. QED
  BY <1>1, <1>3, <1>4, <1>5

\* From the end of a packet up to wherever the bytes received so far end, the search
\* finds the packets that have come whole.
LEMMA ScanPiece ==
    ASSUME NEW bytes, NEW pkts, NEW off, Laid(bytes, pkts, off), off[Len(pkts)] = Len(bytes),
           NEW g \in 0 .. Len(pkts), NEW m \in g .. Len(pkts), NEW t \in 0 .. Len(bytes),
           off[m] <= t, m < Len(pkts) => t < off[m + 1]
    PROVE  /\ Scan(SubSeq(bytes, off[g] + 1, t)) =
                  [packets |-> SubSeq(pkts, g + 1, m), end |-> off[m] - off[g]]
           /\ off[g] <= off[m] /\ SubSeq(bytes, off[g] + 1, t) \in Seq(Bytes)
           /\ Len(SubSeq(bytes, off[g] + 1, t)) = t - off[g]
<1>1. PICK piece, some, on :
        /\ piece = SubSeq(bytes, off[g] + 1, t) /\ some = SubSeq(pkts, g + 1, m)
        /\ on = [k \in 0 .. m - g |-> off[g + k] - off[g]]
  OBVIOUS
<1>2. /\ Len(bytes) \in Nat /\ Len(pkts) \in Nat /\ g \in Nat /\ m \in Nat /\ g <= m
      /\ t \in Nat /\ bytes \in Seq(Bytes) /\ pkts \in Seq(Packets)
      /\ m \in 0 .. Len(pkts) /\ off[g] \in Nat /\ off[m] \in Nat /\ off[g] <= off[m]
  <2>1. Len(bytes) \in Nat /\ Len(pkts) \in Nat
    BY LaidFacts
  <2>2. m \in 0 .. Len(pkts) /\ g \in Nat /\ m \in Nat /\ g <= m /\ t \in Nat
    BY <2>1
  <2>3. QED
    BY <2>1, <2>2, LaidFacts, OffsetsGrow DEF Laid
<1>3. /\ piece \in Seq(Bytes) /\ Len(piece) = t - off[g]
      /\ \A j \in 1 .. t - off[g] : piece[j] = bytes[off[g] + j]
  <2>1. off[g] \in Nat /\ t \in Nat /\ off[g] <= t /\ t <= Len(bytes) /\ bytes \in Seq(Bytes)
    BY <1>2
  <2>2. SubSeq(bytes, off[g] + 1, t) \in Seq(Bytes)
    BY <2>1, Part
  <2>3. Len(SubSeq(bytes, off[g] + 1, t)) = t - off[g]
    BY <2>1, Part
  <2>4. \A j \in 1 .. t - off[g] : SubSeq(bytes, off[g] + 1, t)[j] = bytes[off[g] + j]
    BY <2>1, Part, SMTT(30)
  <2>5. QED
    BY <1>1, <2>2, <2>3, <2>4
<1>4. /\ some \in Seq(Packets) /\ Len(some) = m - g
      /\ \A k \in 1 .. m - g : some[k] = pkts[g + k]
  <2>1. m <= Len(pkts)
    BY <1>2
  <2>2. /\ SubSeq(pkts, g + 1, m) \in Seq(Packets) /\ Len(SubSeq(pkts, g + 1, m)) = m - g
        /\ \A j \in 1 .. m - g : SubSeq(pkts, g + 1, m)[j] = pkts[g + j]
    BY <1>2, <2>1, Part
  <2>3. QED
    BY <1>1, <2>2
<1>5. ASSUME NEW k \in 0 .. m - g
      PROVE  /\ g + k \in 0 .. Len(pkts) /\ off[g + k] \in Nat
             /\ off[g] <= off[g + k] /\ off[g + k] <= off[m]
             /\ on[k] = off[g + k] - off[g]
  <2>1. PICK at : at = g + k /\ at \in 0 .. Len(pkts) /\ at \in g .. Len(pkts) /\ m \in at .. Len(pkts)
    BY <1>2
  <2>2. off[at] \in Nat /\ off[g] <= off[at] /\ off[at] <= off[m]
    BY <2>1, LaidFacts, OffsetsGrow
  <2>3. QED
    BY <1>1, <2>1, <2>2
<1>6. on \in [0 .. Len(some) -> 0 .. Len(piece)] /\ on[0] = 0
  <2>1. ASSUME NEW k \in 0 .. m - g PROVE off[g + k] - off[g] \in 0 .. t - off[g]
    <3>1. PICK a : a = off[g + k] /\ a \in Nat /\ off[g] <= a /\ a <= off[m]
      BY <1>5
    <3>2. QED
      BY <1>2, <3>1, SMTT(30)
  <2>2. on[0] = 0
    <3>1. 0 \in 0 .. m - g /\ g + 0 = g
      BY <1>2
    <3>2. QED
      BY <1>2, <1>5, <3>1
  <2>3. QED
    BY <1>1, <1>3, <1>4, <2>1, <2>2
<1>7. ASSUME NEW k \in 1 .. Len(some)
      PROVE  /\ on[k] = on[k - 1] + Size(some[k])
             /\ Holds(piece, on[k - 1], some[k], Size(some[k]))
  <2>1. PICK at : at = g + k
    OBVIOUS
  <2>2. /\ k \in 1 .. m - g /\ k \in 0 .. m - g /\ k - 1 \in 0 .. m - g
        /\ g + (k - 1) = at - 1 /\ at \in 1 .. Len(pkts)
    <3>1. k \in 1 .. m - g
      BY <1>4
    <3>2. k \in Nat /\ 1 <= k /\ k <= m - g /\ m <= Len(pkts)
      BY <1>2, <3>1
    <3>3. QED
      BY <1>2, <2>1, <3>1, <3>2
  <2>3. some[k] = pkts[at] /\ on[k] = off[at] - off[g] /\ on[k - 1] = off[at - 1] - off[g]
    BY <1>4, <1>5, <2>1, <2>2
  <2>4. /\ off[at] \in Nat /\ off[at - 1] \in Nat /\ off[g] <= off[at - 1] /\ off[at] <= off[m]
    BY <1>5, <2>1, <2>2
  <2>5. /\ off[at] = off[at - 1] + Size(pkts[at]) /\ pkts[at].len \in Nat
    <3>1. at \in 1 .. Len(pkts) /\ Laid(bytes, pkts, off)
      BY <2>2
    <3>2. \A x \in 1 .. Len(pkts) : off[x] = off[x - 1] + Size(pkts[x]) /\ pkts[x].len \in Nat
      BY <3>1, LaidFacts, SMTT(30)
    <3>3. QED
      BY <3>1, <3>2
  <2>6. Size(pkts[at]) \in Nat
    BY <2>5, TcpAssumption, SMTT(30) DEF Size
  <2>7. ASSUME NEW j \in 1 .. Size(pkts[at])
        PROVE  piece[on[k - 1] + j] = bytes[off[at - 1] + j]
    <3>1. PICK l : l = on[k - 1] + j
      OBVIOUS
    <3>2. l \in 1 .. t - off[g] /\ off[g] + l = off[at - 1] + j
      <4>1. PICK a, b, c, d, e : /\ a = off[g] /\ b = off[at - 1] /\ c = off[at] /\ d = off[m]
                                 /\ e = Size(pkts[at])
        OBVIOUS
      <4>2. /\ a \in Nat /\ b \in Nat /\ c \in Nat /\ d \in Nat /\ e \in Nat /\ t \in Nat
            /\ a <= b /\ c <= d /\ d <= t /\ c = b + e /\ j \in 1 .. e
        BY <1>2, <2>4, <2>5, <2>6, <4>1
      <4>3. l = (b - a) + j
        BY <2>3, <3>1, <4>1
      <4>4. l \in 1 .. t - a /\ a + l = b + j
        BY <4>2, <4>3
      <4>5. QED
        BY <4>1, <4>4
    <3>3. QED
      BY <1>3, <3>1, <3>2
  <2>8. Holds(bytes, off[at - 1], pkts[at], Size(pkts[at]))
    BY <2>2 DEF Laid
  <2>9. QED
    <3>1. on[k] = on[k - 1] + Size(some[k])
      <4>1. PICK a, b, c, e : /\ a = off[g] /\ b = off[at - 1] /\ c = off[at] /\ e = Size(pkts[at])
        OBVIOUS
      <4>2. a \in Nat /\ b \in Nat /\ e \in Nat /\ c = b + e
        BY <1>2, <2>4, <2>5, <2>6, <4>1
      <4>3. c - a = (b - a) + e
        BY <4>2
      <4>4. QED
        BY <2>3, <4>1, <4>3
    <3>2. Holds(piece, on[k - 1], pkts[at], Size(pkts[at]))
      BY <2>7, <2>8 DEF Holds
    <3>3. QED
      BY <2>3, <3>1, <3>2
<1>8. Laid(piece, some, on)
  BY <1>3, <1>4, <1>6, <1>7 DEF Laid
<1>9. on[Len(some)] = off[m] - off[g]
  <2>1. m - g \in 0 .. m - g /\ g + (m - g) = m
    BY <1>2
  <2>2. QED
    BY <1>4, <1>5, <2>1
<1>10. ~CompleteAt(piece, off[m] - off[g])
  <2>1. PICK p : p = off[m] - off[g] /\ p \in Nat /\ off[g] + p = off[m]
    BY <1>2
  <2>2. CASE m = Len(pkts)
    <3>1. off[m] = t
      BY <1>2, <2>2
    <3>2. QED
      BY <1>2, <1>3, <2>1, <3>1, CompleteEnds
  <2>3. CASE m # Len(pkts)
    <3>1. PICK at : at = m + 1 /\ at \in 1 .. Len(pkts) /\ at - 1 = m /\ m < Len(pkts)
      BY <1>2, <2>3
    <3>2. /\ pkts[at] \in Packets /\ pkts[at].len \in Nat /\ HeadLen \in Nat \ {0}
          /\ off[at] = off[m] + Size(pkts[at]) /\ t < off[at]
      BY <3>1, LaidFacts
    <3>3. Holds(bytes, off[m], pkts[at], Size(pkts[at]))
      BY <3>1 DEF Laid
    <3>4. SUFFICES ASSUME p + HeadLen <= Len(piece) PROVE ~CompleteAt(piece, p)
      BY <2>1 DEF CompleteAt
    <3>5. Holds(piece, p, pkts[at], HeadLen)
      <4>1. ASSUME NEW j \in 1 .. HeadLen
            PROVE  piece[p + j] = [id |-> pkts[at].id, len |-> pkts[at].len, at |-> j]
        <5>1. PICK l : l = p + j
          OBVIOUS
        <5>2. /\ l \in 1 .. t - off[g] /\ off[g] + l = off[m] + j
              /\ j \in 1 .. Size(pkts[at])
          <6>1. PICK a, b : a = off[g] /\ b = off[m] /\ a \in Nat /\ b \in Nat
            BY <1>2
          <6>2. p + HeadLen <= t - a /\ a + p = b /\ HeadLen \in Nat /\ p \in Nat /\ l = p + j
            BY <1>3, <2>1, <3>2, <3>4, <5>1, <6>1
          <6>3. l \in 1 .. t - a /\ a + l = b + j
            <7>1. j \in Nat /\ 1 <= j /\ j <= HeadLen /\ l <= p + HeadLen /\ l \in Nat /\ 1 <= l
              BY <6>2
            <7>2. l <= t - a
              BY <1>2, <6>1, <6>2, <7>1
            <7>3. a + (p + j) = (a + p) + j
              BY <6>1, <6>2, <7>1
            <7>4. QED
              BY <1>2, <6>1, <6>2, <7>1, <7>2, <7>3, SMTT(30)
          <6>4. j \in 1 .. Size(pkts[at])
            BY <3>2 DEF Size
          <6>5. QED
            BY <6>1, <6>3, <6>4
        <5>3. QED
          BY <1>3, <3>3, <5>1, <5>2 DEF Holds
      <4>2. QED
        BY <4>1 DEF Holds
    <3>6. ~(p + Size(pkts[at]) <= Len(piece))
      <4>1. PICK a, b, e : a = off[g] /\ b = off[m] /\ e = Size(pkts[at])
        OBVIOUS
      <4>2. /\ a \in Nat /\ b \in Nat /\ e \in Nat /\ t \in Nat /\ t < b + e /\ a + p = b
            /\ Len(piece) = t - a
        <5>1. e \in Nat
          BY <3>2, <4>1, SMTT(30) DEF Size
        <5>2. QED
          BY <1>2, <1>3, <2>1, <3>2, <4>1, <5>1
      <4>3. QED
        BY <2>1, <4>1, <4>2, SMTT(30)
    <3>7. QED
      BY <1>3, <2>1, <3>2, <3>4, <3>5, <3>6, HeadComplete
  <2>4. QED
    BY <2>2, <2>3
<1>11. Scan(piece) = [packets |-> some, end |-> off[m] - off[g]]
  BY <1>8, <1>9, <1>10, ScanLaid
<1>12. QED
  BY <1>1, <1>2, <1>3, <1>11

-----------------------------------------------------------------------------
(* What the connection holds, and how far its bytes have come.             *)

\* Where the three programs may be.
UnitFits ==
    /\ program \in Programs /\ errors \in Nat
    /\ program = "backward" => pc \in {"start", "bind", "recv", "head", "data", "ended"}
    /\ program # "backward" => pc \notin {"bind", "head", "data"}

\* The first w of these packets stand there whole, and perhaps the header of the next.
Carries(bytes, pkts, w, off) ==
    /\ pkts \in Seq(Packets) /\ w \in 0 .. Len(pkts)
    /\ Laid(bytes, SubSeq(pkts, 1, w), off)
    /\ \/ Len(bytes) = off[w]
       \/ /\ w < Len(pkts) /\ pkts[w + 1].len > 0
          /\ Len(bytes) = off[w] + HeadLen /\ Holds(bytes, off[w], pkts[w + 1], HeadLen)

\* Of the datagrams received w have been sent whole.  As long as the connection is open
\* the others are none, or the one being sent.
SentAt(w, off) ==
    /\ Carries(stream, datagrams, w, off)
    /\ pc \in {"head", "data"} => datagrams # <<>>
    /\ open /\ pc = "head" => w = Len(datagrams) - 1 /\ Len(stream) = off[w]
    /\ open /\ pc = "data" =>
         \/ w = Len(datagrams) - 1 /\ Len(stream) # off[w]
         \/ w = Len(datagrams) /\ datagrams[w].len = 0 /\ Len(stream) = off[w]
    /\ open /\ pc \notin {"head", "data"} => w = Len(datagrams) /\ Len(stream) = off[w]
    /\ pc = "ended" /\ errors = 0 => ~open

\* What has come of the packet behind those returned, less than all of it, is in
\* recv_buffer_.
KeptAt(pkts, off) ==
    /\ Len(got) < Len(pkts) => taken < off[Len(got) + 1]
    /\ recvBuf = SubSeq(stream, off[Len(got)] + 1, taken)

\* The station has sent pkts, and the first of them have been returned.
ReceivedAt(pkts, off) ==
    /\ Laid(stream, pkts, off) /\ Len(stream) = off[Len(pkts)]
    /\ \A k \in 1 .. Len(pkts) : pkts[k].len \in Lens
    /\ Len(got) \in 0 .. Len(pkts) /\ got = SubSeq(pkts, 1, Len(got))
    /\ taken \in 0 .. Len(stream) /\ off[Len(got)] <= taken
    /\ KeptAt(pkts, off)
    /\ pc = "overrun" => /\ Len(todo) \in 0 .. Len(got)
                         /\ Len(stream) - off[Len(got) - Len(todo)] > BufferLength
    /\ pc = "ended" /\ errors = 0 => ~open

FramingInv ==
    /\ UnitFits
    /\ program = "backward" => \E w, off : SentAt(w, off)
    /\ program # "backward" => \E pkts, off : ReceivedAt(pkts, off)

\* The first w of a sequence.
LEMMA FirstOf ==
    ASSUME NEW S, NEW s \in Seq(S), NEW w \in 0 .. Len(s)
    PROVE  /\ SubSeq(s, 1, w) \in Seq(S) /\ Len(SubSeq(s, 1, w)) = w
           /\ \A k \in 1 .. w : SubSeq(s, 1, w)[k] = s[k]
<1>1. 0 \in Nat /\ w \in Nat /\ 0 <= w /\ w <= Len(s) /\ 0 + 1 = 1 /\ w - 0 = w
  OBVIOUS
<1>2. SubSeq(s, 0 + 1, w) \in Seq(S)
  BY <1>1, Part
<1>3. Len(SubSeq(s, 0 + 1, w)) = w - 0
  BY <1>1, Part
<1>4. \A j \in 1 .. w - 0 : SubSeq(s, 0 + 1, w)[j] = s[0 + j]
  BY <1>1, Part
<1>5. \A j \in 1 .. w : 0 + j = j
  OBVIOUS
<1>6. QED
  BY <1>1, <1>2, <1>3, <1>4, <1>5

\* Sequences that agree so far.
LEMMA FirstOfBoth ==
    ASSUME NEW S, NEW s \in Seq(S), NEW t \in Seq(S), NEW w \in 0 .. Len(s), w <= Len(t),
           \A j \in 1 .. w : t[j] = s[j]
    PROVE  SubSeq(t, 1, w) = SubSeq(s, 1, w)
<1>1. w \in 0 .. Len(t) /\ w \in Nat
  OBVIOUS
<1>2. /\ SubSeq(s, 1, w) \in Seq(S) /\ Len(SubSeq(s, 1, w)) = w
      /\ \A j \in 1 .. w : SubSeq(s, 1, w)[j] = s[j]
  BY FirstOf
<1>3. /\ SubSeq(t, 1, w) \in Seq(S) /\ Len(SubSeq(t, 1, w)) = w
      /\ \A j \in 1 .. w : SubSeq(t, 1, w)[j] = t[j]
  BY <1>1, FirstOf
<1>4. QED
  BY <1>2, <1>3, SeqEqual

\* The first w and the next one.
LEMMA NextOf ==
    ASSUME NEW S, NEW s \in Seq(S), NEW w \in Nat, w < Len(s)
    PROVE  Append(SubSeq(s, 1, w), s[w + 1]) = SubSeq(s, 1, w + 1)
<1>1. Len(s) \in Nat /\ w \in 0 .. Len(s) /\ w + 1 \in 0 .. Len(s) /\ w + 1 \in 1 .. Len(s)
  OBVIOUS
<1>2. PICK a, b : a = SubSeq(s, 1, w) /\ b = SubSeq(s, 1, w + 1)
  OBVIOUS
<1>3. a \in Seq(S) /\ Len(a) = w /\ \A j \in 1 .. w : a[j] = s[j]
  BY <1>1, <1>2, FirstOf
<1>4. b \in Seq(S) /\ Len(b) = w + 1 /\ \A j \in 1 .. w + 1 : b[j] = s[j]
  BY <1>1, <1>2, FirstOf
<1>5. s[w + 1] \in S
  BY <1>1, ElementOfSeq
<1>6. /\ Append(a, s[w + 1]) \in Seq(S) /\ Len(Append(a, s[w + 1])) = w + 1
      /\ \A j \in 1 .. w : Append(a, s[w + 1])[j] = a[j]
      /\ Append(a, s[w + 1])[w + 1] = s[w + 1]
  BY <1>3, <1>5, AppendProperties
<1>7. \A j \in 1 .. w + 1 : Append(a, s[w + 1])[j] = b[j]
  BY <1>3, <1>4, <1>6
<1>8. Append(a, s[w + 1]) = b
  BY <1>4, <1>6, <1>7, SeqEqual
<1>9. QED
  BY <1>2, <1>8

\* The whole packets of such a connection are the first w ...
LEMMA WholeSent ==
    ASSUME NEW bytes, NEW pkts, NEW w, NEW off, Carries(bytes, pkts, w, off)
    PROVE  Whole(bytes) = SubSeq(pkts, 1, w)
<1>1. PICK sent : sent = SubSeq(pkts, 1, w)
  OBVIOUS
<1>2. /\ pkts \in Seq(Packets) /\ w \in 0 .. Len(pkts) /\ Laid(bytes, sent, off)
      /\ bytes \in Seq(Bytes)
  BY <1>1 DEF Carries, Laid
<1>3. Len(sent) = w
  BY <1>1, <1>2, FirstOf
<1>4. off[w] \in Nat /\ HeadLen \in Nat \ {0} /\ Len(bytes) \in Nat
  <2>1. Len(sent) \in 0 .. Len(sent)
    BY <1>2, LaidFacts
  <2>2. off[Len(sent)] \in Nat /\ HeadLen \in Nat \ {0} /\ Len(bytes) \in Nat
    BY <1>2, <2>1, LaidFacts
  <2>3. QED
    BY <1>3, <2>2
<1>5. ~CompleteAt(bytes, off[w])
  <2>1. CASE Len(bytes) = off[w]
    BY <1>2, <1>4, <2>1, CompleteEnds
  <2>2. CASE /\ w < Len(pkts) /\ pkts[w + 1].len > 0
             /\ Len(bytes) = off[w] + HeadLen
             /\ Holds(bytes, off[w], pkts[w + 1], HeadLen)
    <3>1. pkts[w + 1] \in Packets
      BY <1>2, <2>2, ElementOfSeq
    <3>2. ~(off[w] + Size(pkts[w + 1]) <= Len(bytes))
      BY <1>4, <2>2, <3>1 DEF Size, Packets
    <3>3. off[w] + HeadLen <= Len(bytes)
      BY <1>4, <2>2
    <3>4. QED
      BY <1>2, <1>4, <2>2, <3>1, <3>2, <3>3, HeadComplete
  <2>3. QED
    BY <2>1, <2>2 DEF Carries
<1>6. Scan(bytes) = [packets |-> sent, end |-> off[w]]
  BY <1>2, <1>3, <1>5, ScanLaid
<1>7. Whole(bytes) = sent
  BY <1>6 DEF Whole
<1>8. QED
  BY <1>1, <1>7, Zenon

\* ... or all that there are.
LEMMA WholeReceived ==
    ASSUME NEW bytes, NEW pkts, NEW off, Laid(bytes, pkts, off), Len(bytes) = off[Len(pkts)]
    PROVE  Whole(bytes) = pkts
<1>1. ~CompleteAt(bytes, off[Len(pkts)])
  <2>1. bytes \in Seq(Bytes) /\ Len(bytes) \in Nat
    BY DEF Laid
  <2>2. QED
    BY <2>1, CompleteEnds
<1>2. Scan(bytes) = [packets |-> pkts, end |-> off[Len(pkts)]]
  BY <1>1, ScanLaid
<1>3. QED
  BY <1>2 DEF Whole

\* At the start there are no bytes and no packets.
LEMMA InitFraming == Init => FramingInv
<1> SUFFICES ASSUME Init PROVE FramingInv
  OBVIOUS
<1>1. UnitFits
  BY DEF Init, UnitFits
<1>2. PICK off : off = [k \in 0 .. 0 |-> 0]
  OBVIOUS
<1>3. stream = <<>> /\ datagrams = <<>> /\ got = <<>> /\ taken = 0 /\ recvBuf = <<>>
      /\ pc = "start" /\ open
  BY DEF Init
<1>4. Len(<<>>) = 0 /\ <<>> \in Seq(Bytes) /\ <<>> \in Seq(Packets)
  OBVIOUS
<1>5. Laid(stream, <<>>, off) /\ off[0] = 0
  BY <1>2, <1>3, <1>4 DEF Laid
<1>6. SubSeq(<<>>, 1, 0) = <<>>
  BY SubSeqEmpty
<1>7. SentAt(0, off)
  <2>1. 0 \in 0 .. Len(datagrams) /\ Len(stream) = off[0] /\ Len(datagrams) = 0
    BY <1>3, <1>4, <1>5
  <2>2. Laid(stream, SubSeq(datagrams, 1, 0), off) /\ datagrams \in Seq(Packets)
    BY <1>3, <1>4, <1>5, <1>6
  <2>3. pc \notin {"head", "data", "ended"}
    BY <1>3
  <2>4. QED
    BY <2>1, <2>2, <2>3 DEF SentAt, Carries
<1>8. ReceivedAt(<<>>, off)
  <2>1. KeptAt(<<>>, off)
    BY <1>3, <1>4, <1>5, <1>6 DEF KeptAt
  <2>2. QED
    BY <1>3, <1>4, <1>5, <1>6, <2>1 DEF ReceivedAt
<1>9. QED
  BY <1>1, <1>7, <1>8 DEF FramingInv

-----------------------------------------------------------------------------
(* The backward unit.                                                      *)

\* What the refinement says of a step: packets are put in or taken out, in order.
Framed == [Fifo!Next]_<<IF program = "backward" THEN datagrams ELSE Whole(stream),
                        IF program = "backward" THEN Whole(stream) ELSE got>>

\* Adding a datagram keeps what has been sent.
LEMMA BackwardReceives ==
    ASSUME UnitFits, NEW w, NEW off, SentAt(w, off), BackwardRecvFrom
    PROVE  UnitFits' /\ (\E v, o : SentAt(v, o)') /\ Framed
<1>1. /\ program = "backward" /\ pc = "recv" /\ UNCHANGED <<program, stream, open>>
      /\ \/ /\ pc' = "head" /\ errors' = errors
            /\ \E n \in Lens \cup {BufferLength + 1} :
                 datagrams' = Append(datagrams, NextPacket(datagrams, Received(n)))
         \/ errors' = errors + 1 /\ pc' = "ended" /\ datagrams' = datagrams
  BY DEF BackwardRecvFrom, Fails
<1>2. UnitFits'
  BY <1>1 DEF UnitFits
<1>3. CASE pc' = "ended" /\ datagrams' = datagrams
  <2>1. SentAt(w, off)'
    <3>1. errors' = 0 => FALSE
      BY <1>1, <1>3 DEF UnitFits
    <3>2. QED
      BY <1>1, <1>3, <3>1 DEF SentAt
  <2>2. Whole(stream)' = Whole(stream)
    BY <1>1
  <2>3. QED
    BY <1>1, <1>2, <1>3, <2>1, <2>2 DEF Framed
<1>4. CASE pc' = "head"
  <2>1. PICK n \in Lens \cup {BufferLength + 1} :
          datagrams' = Append(datagrams, NextPacket(datagrams, Received(n)))
    BY <1>1, <1>4
  <2>2. PICK pkt : pkt = NextPacket(datagrams, Received(n))
    OBVIOUS
  <2>3. datagrams \in Seq(Packets) /\ Len(datagrams) \in Nat /\ w \in 0 .. Len(datagrams)
    BY DEF SentAt, Carries
  <2>4. pkt \in Packets
    <3>1. n \in Nat /\ BufferLength \in Nat
      BY UnitsAssumption
    <3>2. Received(n) \in Nat
      BY <3>1 DEF Received
    <3>3. QED
      BY <2>2, <2>3, <3>2 DEF NextPacket, Packets
  <2>5. /\ datagrams' \in Seq(Packets) /\ Len(datagrams') = Len(datagrams) + 1
        /\ \A k \in 1 .. Len(datagrams) : datagrams'[k] = datagrams[k]
        /\ datagrams' # <<>>
    BY <2>1, <2>2, <2>3, <2>4, AppendProperties
  <2>6. \A k \in 0 .. Len(datagrams) : SubSeq(datagrams', 1, k) = SubSeq(datagrams, 1, k)
    <3>1. ASSUME NEW k \in 0 .. Len(datagrams)
          PROVE  SubSeq(datagrams', 1, k) = SubSeq(datagrams, 1, k)
      <4>1. k <= Len(datagrams') /\ \A j \in 1 .. k : datagrams'[j] = datagrams[j]
        BY <2>3, <2>5
      <4>2. QED
        BY <2>3, <2>5, <4>1, FirstOfBoth
    <3>2. QED
      BY <3>1
  <2>7. SentAt(w, off)'
    <3>1. w \in 0 .. Len(datagrams') /\ SubSeq(datagrams', 1, w) = SubSeq(datagrams, 1, w)
      BY <2>3, <2>5, <2>6
    <3>2. w < Len(datagrams) => w < Len(datagrams') /\ datagrams'[w + 1] = datagrams[w + 1]
      BY <2>3, <2>5
    <3>3. open => w = Len(datagrams) /\ Len(stream) = off[w]
      BY <1>1 DEF SentAt
    <3>4. open => w = Len(datagrams') - 1
      BY <2>3, <2>5, <3>3
    <3>5. \/ Len(stream) = off[w]
          \/ /\ w < Len(datagrams) /\ datagrams[w + 1].len > 0
             /\ Len(stream) = off[w] + HeadLen
             /\ Holds(stream, off[w], datagrams[w + 1], HeadLen)
      BY DEF SentAt, Carries
    <3>6. Laid(stream, SubSeq(datagrams, 1, w), off)
      BY DEF SentAt, Carries
    <3>7. Carries(stream', datagrams', w, off)
      BY <1>1, <2>5, <3>1, <3>2, <3>5, <3>6 DEF Carries
    <3>8. QED
      BY <1>1, <1>4, <2>5, <3>3, <3>4, <3>7 DEF SentAt
  <2>8. Fifo!Put /\ Whole(stream)' = Whole(stream)
    <3>1. SubSeq(datagrams', 1, Len(datagrams)) = datagrams
      <4>1. Len(datagrams) \in 0 .. Len(datagrams)
        BY <2>3
      <4>2. QED
        BY <2>3, <2>6, <4>1, SubSeqFull
    <3>2. Len(datagrams') > Len(datagrams)
      BY <2>3, <2>5
    <3>3. QED
      BY <1>1, <3>1, <3>2 DEF Fifo!Put
  <2>9. Fifo!InOrder'
    <3>1. Whole(stream)' = SubSeq(datagrams', 1, w)
      BY <2>7, WholeSent DEF SentAt
    <3>2. Len(Whole(stream)') = w /\ w <= Len(datagrams')
      BY <2>3, <2>5, <3>1, FirstOf
    <3>3. QED
      BY <1>1, <3>1, <3>2 DEF Fifo!InOrder
  <2>10. Framed
    BY <1>1, <2>8, <2>9 DEF Framed, Fifo!Next
  <2>11. QED
    BY <1>2, <2>7, <2>10
<1>5. QED
  BY <1>1, <1>3, <1>4

\* More of the datagrams have been sent.
LEMMA FramedSending ==
    ASSUME program = "backward", UNCHANGED <<program, datagrams>>,
           NEW w, NEW off, Carries(stream, datagrams, w, off),
           NEW v, NEW o, Carries(stream', datagrams, v, o), w <= v
    PROVE  Framed
<1> DEFINE before == Whole(stream)
           after == Whole(stream)'
<1>1. /\ datagrams \in Seq(Packets) /\ Len(datagrams) \in Nat
      /\ w \in 0 .. Len(datagrams) /\ v \in 0 .. Len(datagrams)
  BY DEF Carries
<1>2. before = SubSeq(datagrams, 1, w) /\ after = SubSeq(datagrams, 1, v)
  BY WholeSent
<1>3. /\ before \in Seq(Packets) /\ Len(before) = w
      /\ \A j \in 1 .. w : before[j] = datagrams[j]
  BY <1>1, <1>2, FirstOf
<1>4. /\ after \in Seq(Packets) /\ Len(after) = v
      /\ \A j \in 1 .. v : after[j] = datagrams[j]
  BY <1>1, <1>2, FirstOf
<1>5. CASE w = v
  <2>1. after = before
    BY <1>2, <1>5
  <2>2. QED
    BY <2>1 DEF Framed
<1>6. CASE w # v
  <2>1. SubSeq(after, 1, w) = before
    <3>1. w \in 0 .. Len(before) /\ w <= Len(after) /\ \A j \in 1 .. w : after[j] = before[j]
      BY <1>1, <1>3, <1>4
    <3>2. SubSeq(after, 1, w) = SubSeq(before, 1, w)
      BY <1>3, <1>4, <3>1, FirstOfBoth
    <3>3. SubSeq(before, 1, w) = before
      BY <1>3, SubSeqFull
    <3>4. QED
      BY <3>2, <3>3
  <2>2. Fifo!Get
    BY <1>1, <1>3, <1>4, <1>6, <2>1 DEF Fifo!Get
  <2>3. Fifo!InOrder'
    <3>1. Len(after) <= Len(datagrams) /\ SubSeq(datagrams, 1, Len(after)) = after
      BY <1>1, <1>2, <1>4
    <3>2. QED
      BY <3>1 DEF Fifo!InOrder
  <2>4. Fifo!Next
    BY <2>2, <2>3 DEF Fifo!Next
  <2>5. QED
    BY <2>4 DEF Framed
<1>7. QED
  BY <1>5, <1>6

\* SendPacket puts the header into the connection, and then the data.
LEMMA BackwardSends ==
    ASSUME UnitFits, NEW w, NEW off, SentAt(w, off), SendPacket
    PROVE  UnitFits' /\ (\E v, o : SentAt(v, o)') /\ Framed
<1>1. PICK n : n = Len(datagrams)
  OBVIOUS
<1> DEFINE pkt == datagrams[n]
           sent == SubSeq(datagrams, 1, w)
<1>2. /\ UNCHANGED <<program, errors, open, datagrams>> /\ program = "backward"
      /\ \/ pc = "head" /\ SendBytes(HeadOf(pkt), "data")
         \/ pc = "data" /\ SendBytes(DataOf(pkt), "recv")
  BY <1>1 DEF SendPacket, backVars, Last, UnitFits
<1>3. UnitFits'
  BY <1>2 DEF UnitFits, SendBytes
<1>4. /\ datagrams \in Seq(Packets) /\ n \in Nat \ {0} /\ w \in 0 .. n /\ w \in Nat
      /\ Carries(stream, datagrams, w, off) /\ Laid(stream, sent, off)
      /\ stream \in Seq(Bytes) /\ datagrams # <<>>
  BY <1>1, <1>2 DEF SentAt, Carries, Laid
<1>5. pkt \in Packets /\ pkt.len \in Nat /\ HeadLen \in Nat \ {0} /\ Len(sent) = w
  <2>1. n \in 1 .. n
    BY <1>4
  <2>2. pkt \in Packets
    BY <1>1, <1>4, <2>1, ElementOfSeq
  <2>3. QED
    BY <1>4, <2>2, FirstOf, TcpAssumption DEF Packets
<1>6. off[w] \in Nat /\ Len(stream) \in Nat
  <2>1. w \in 0 .. Len(sent)
    BY <1>4, <1>5
  <2>2. QED
    BY <1>4, <2>1, LaidFacts
<1>7. SUFFICES \E v, o : SentAt(v, o)' /\ w <= v
  <2>1. ASSUME NEW v, NEW o, SentAt(v, o)', w <= v PROVE Framed
    BY <1>1, <1>2, <1>4, <2>1, FramedSending DEF SentAt
  <2>2. QED
    BY <1>3, <2>1
<1>8. CASE ~open
  <2>1. stream' = stream /\ pc' \in {"data", "recv", "ended"} /\ ~open'
    BY <1>2, <1>8 DEF SendBytes
  <2>2. SentAt(w, off)'
    BY <1>1, <1>2, <1>4, <2>1 DEF SentAt
  <2>3. QED
    BY <1>4, <2>2
<1>9. CASE open /\ pc = "head"
  <2>1. /\ stream' = stream \o HeadOf(pkt) /\ pc' = "data"
        /\ w = n - 1 /\ Len(stream) = off[w]
    BY <1>1, <1>2, <1>9 DEF SendBytes, SentAt
  <2>2. /\ Laid(stream', sent, off) /\ Len(stream') = off[w] + HeadLen
        /\ Holds(stream', off[w], pkt, HeadLen)
    <3>1. off[Len(sent)] = Len(stream)
      BY <1>5, <2>1
    <3> HIDE DEF sent
    <3>2. /\ Laid(stream \o HeadOf(pkt), sent, off)
          /\ Len(stream \o HeadOf(pkt)) = off[Len(sent)] + HeadLen
          /\ Holds(stream \o HeadOf(pkt), off[Len(sent)], pkt, HeadLen)
      BY <1>4, <1>5, <3>1, HeadAdded
    <3>3. QED
      BY <1>5, <2>1, <3>2
  <2>3. w + 1 = n /\ w < n /\ datagrams[w + 1] = pkt
    BY <1>4, <2>1
  <2>4. CASE pkt.len > 0
    <3>1. Carries(stream', datagrams, w, off)
      BY <1>1, <1>4, <2>2, <2>3, <2>4 DEF Carries
    <3>2. Len(stream') # off[w]
      BY <1>5, <1>6, <2>2
    <3>3. SentAt(w, off)'
      BY <1>1, <1>2, <1>4, <2>1, <3>1, <3>2 DEF SentAt
    <3>4. QED
      BY <1>4, <3>3
  <2>5. CASE pkt.len = 0
    <3>1. Size(pkt) = HeadLen
      BY <1>5, <2>5 DEF Size
    <3>2. PICK o : o = Beyond(off, w, pkt)
      OBVIOUS
    <3>3. Laid(stream', Append(sent, pkt), o)
      <4>1. off[w] + Size(pkt) <= Len(stream')
        BY <1>5, <1>6, <2>2, <3>1
      <4>2. QED
        BY <1>5, <2>2, <3>1, <3>2, <4>1, LaidNext
    <3>4. Append(sent, pkt) = SubSeq(datagrams, 1, n)
      BY <1>1, <1>4, <2>3, NextOf
    <3>5. o[n] = Len(stream')
      BY <1>4, <2>2, <2>3, <3>1, <3>2 DEF Beyond
    <3>6. Carries(stream', datagrams, n, o)
      <4>1. n \in 0 .. Len(datagrams) /\ n = Len(datagrams) /\ datagrams \in Seq(Packets)
        BY <1>1, <1>4
      <4>2. Laid(stream', SubSeq(datagrams, 1, n), o)
        BY <3>3, <3>4
      <4>3. QED
        BY <3>5, <4>1, <4>2 DEF Carries
    <3>7. SentAt(n, o)' /\ w <= n
      BY <1>1, <1>2, <1>4, <2>1, <2>5, <3>5, <3>6 DEF SentAt
    <3>8. QED
      BY <3>7, Zenon
  <2>6. QED
    BY <1>5, <2>4, <2>5
<1>10. CASE open /\ pc = "data" /\ Len(stream) # off[w]
  <2>1. /\ stream' = stream \o DataOf(pkt) /\ pc' = "recv" /\ w = n - 1
        /\ Len(stream) = off[w] + HeadLen /\ Holds(stream, off[w], datagrams[w + 1], HeadLen)
    BY <1>1, <1>2, <1>10 DEF SendBytes, SentAt, Carries
  <2>2. w + 1 = n /\ w < n /\ datagrams[w + 1] = pkt
    BY <1>4, <2>1
  <2>3. PICK o : o = Beyond(off, w, pkt)
    OBVIOUS
  <2>4. Laid(stream', Append(sent, pkt), o) /\ o[n] = Len(stream')
    <3>1. Len(stream) = off[Len(sent)] + HeadLen /\ Holds(stream, off[Len(sent)], pkt, HeadLen)
      BY <1>5, <2>1, <2>2
    <3> HIDE DEF sent
    <3>2. /\ Laid(stream \o DataOf(pkt), Append(sent, pkt), Beyond(off, Len(sent), pkt))
          /\ Beyond(off, Len(sent), pkt)[Len(sent) + 1] = Len(stream \o DataOf(pkt))
      BY <1>4, <1>5, <3>1, DataAdded
    <3>3. QED
      BY <1>5, <2>1, <2>2, <2>3, <3>2
  <2>5. Append(sent, pkt) = SubSeq(datagrams, 1, n)
    BY <1>1, <1>4, <2>2, NextOf
  <2>6. Carries(stream', datagrams, n, o)
    <3>1. n \in 0 .. Len(datagrams) /\ n = Len(datagrams) /\ datagrams \in Seq(Packets)
      BY <1>1, <1>4
    <3>2. Laid(stream', SubSeq(datagrams, 1, n), o)
      BY <2>4, <2>5
    <3>3. QED
      BY <2>4, <3>1, <3>2 DEF Carries
  <2>7. SentAt(n, o)' /\ w <= n
    BY <1>1, <1>2, <1>4, <2>1, <2>4, <2>6 DEF SentAt
  <2>8. QED
    BY <2>7, Zenon
<1>11. CASE open /\ pc = "data" /\ Len(stream) = off[w]
  <2>1. /\ stream' = stream \o DataOf(pkt) /\ pc' = "recv" /\ w = n /\ pkt.len = 0
    BY <1>1, <1>2, <1>11 DEF SendBytes, SentAt
  <2>2. stream' = stream
    <3>1. DataOf(pkt) \in Seq(Bytes) /\ Len(DataOf(pkt)) = 0
      BY <1>5, <2>1, PacketParts
    <3>2. DataOf(pkt) = <<>>
      BY <3>1, EmptySeq
    <3>3. QED
      BY <1>4, <2>1, <3>2, ConcatEmptySeq
  <2>3. SentAt(w, off)'
    BY <1>1, <1>2, <1>4, <1>11, <2>1, <2>2 DEF SentAt
  <2>4. QED
    BY <1>4, <2>3
<1>12. QED
  BY <1>2, <1>8, <1>9, <1>10, <1>11

-----------------------------------------------------------------------------
(* The forward units.                                                      *)

\* What comes behind does not change a part.
LEMMA PartOfMore ==
    ASSUME NEW S, NEW s \in Seq(S), NEW more \in Seq(S), NEW a \in Nat, NEW b \in 0 .. Len(s)
    PROVE  SubSeq(s \o more, a + 1, b) = SubSeq(s, a + 1, b)
<1>1. /\ Len(s) \in Nat /\ Len(more) \in Nat /\ b \in Nat
      /\ \A j \in 1 .. Len(s) + Len(more) :
           (s \o more)[j] = IF j <= Len(s) THEN s[j] ELSE more[j - Len(s)]
      /\ s \o more \in Seq(S) /\ Len(s \o more) = Len(s) + Len(more)
  BY ConcatProperties
<1>2. CASE b < a + 1
  BY <1>1, <1>2, SubSeqEmpty
<1>3. CASE ~(b < a + 1)
  <2>1. a + 1 \in 1 .. Len(s) /\ b \in 1 .. Len(s)
    BY <1>1, <1>3
  <2>2. QED
    BY <2>1, SubSeqOfConcat1
<1>4. QED
  BY <1>2, <1>3

\* A part of a part.
LEMMA PartOfPart ==
    ASSUME NEW S, NEW s \in Seq(S), NEW a \in Nat, NEW b \in Nat, NEW t \in Nat,
           a <= b, b <= t, t <= Len(s)
    PROVE  SubSeq(SubSeq(s, a + 1, t), (b - a) + 1, t - a) = SubSeq(s, b + 1, t)
<1>1. PICK p, c, m : p = SubSeq(s, a + 1, t) /\ c = b - a /\ m = t - a
  OBVIOUS
<1>2. c \in Nat /\ m \in Nat /\ c <= m /\ m - c = t - b /\ Len(s) \in Nat
  BY <1>1
<1>3. p \in Seq(S)
  BY <1>1, Part
<1>4. Len(p) = m
  BY <1>1, Part
<1>5. \A j \in 1 .. m : p[j] = s[a + j]
  BY <1>1, Part
<1>6. SubSeq(p, c + 1, m) \in Seq(S)
  BY <1>2, <1>3, <1>4, Part
<1>7. Len(SubSeq(p, c + 1, m)) = m - c
  BY <1>2, <1>3, <1>4, Part
<1>8. \A j \in 1 .. m - c : SubSeq(p, c + 1, m)[j] = p[c + j]
  BY <1>2, <1>3, <1>4, Part
<1>9. SubSeq(s, b + 1, t) \in Seq(S)
  BY <1>1, Part
<1>10. Len(SubSeq(s, b + 1, t)) = t - b
  BY <1>1, Part
<1>11. \A j \in 1 .. t - b : SubSeq(s, b + 1, t)[j] = s[b + j]
  BY <1>1, Part
<1>12. \A j \in 1 .. m - c : c + j \in 1 .. m /\ a + (c + j) = b + j
  BY <1>1, <1>2
<1>13. \A j \in 1 .. t - b : SubSeq(p, c + 1, m)[j] = SubSeq(s, b + 1, t)[j]
  <2>1. ASSUME NEW j \in 1 .. t - b
        PROVE  SubSeq(p, c + 1, m)[j] = SubSeq(s, b + 1, t)[j]
    <3>1. j \in 1 .. m - c
      BY <1>2
    <3>2. PICK d : d = c + j /\ d \in 1 .. m /\ a + d = b + j
      BY <1>12, <3>1
    <3>3. SubSeq(p, c + 1, m)[j] = p[d]
      BY <1>8, <3>1, <3>2
    <3>4. p[d] = s[b + j]
      BY <1>5, <3>2
    <3>5. QED
      BY <1>11, <3>3, <3>4
  <2>2. QED
    BY <2>1
<1>14. SubSeq(p, c + 1, m) = SubSeq(s, b + 1, t)
  BY <1>2, <1>6, <1>7, <1>9, <1>10, <1>13, SeqEqual
<1>15. QED
  BY <1>1, <1>14

\* What the invariant says, with the types of its numbers.
LEMMA ReceivedFacts ==
    ASSUME NEW pkts, NEW off, ReceivedAt(pkts, off)
    PROVE  /\ Laid(stream, pkts, off) /\ stream \in Seq(Bytes) /\ pkts \in Seq(Packets)
           /\ Len(stream) \in Nat /\ Len(pkts) \in Nat /\ off[Len(pkts)] = Len(stream)
           /\ Len(got) \in 0 .. Len(pkts) /\ Len(got) \in Nat /\ got = SubSeq(pkts, 1, Len(got))
           /\ got \in Seq(Packets)
           /\ off[Len(got)] \in Nat /\ taken \in Nat
           /\ off[Len(got)] <= taken /\ taken <= Len(stream)
<1>1. /\ Laid(stream, pkts, off) /\ stream \in Seq(Bytes) /\ pkts \in Seq(Packets)
      /\ off[Len(pkts)] = Len(stream)
      /\ Len(got) \in 0 .. Len(pkts) /\ got = SubSeq(pkts, 1, Len(got))
      /\ taken \in 0 .. Len(stream) /\ off[Len(got)] <= taken
  BY DEF ReceivedAt, Laid
<1>2. Len(stream) \in Nat /\ Len(pkts) \in Nat /\ off[Len(got)] \in Nat
  BY <1>1, LaidFacts
<1>3. got \in Seq(Packets)
  <2>1. PICK g : g = Len(got)
    OBVIOUS
  <2>2. SubSeq(pkts, 1, g) \in Seq(Packets)
    BY <1>1, <2>1, FirstOf
  <2>3. QED
    BY <1>1, <2>1, <2>2
<1>4. QED
  BY <1>1, <1>2, <1>3

\* The station sends a packet: one more that stands in the connection.
LEMMA StationSendsFramed ==
    ASSUME UnitFits, program # "backward", NEW pkts, NEW off, ReceivedAt(pkts, off), StationSends
    PROVE  UnitFits' /\ (\E some, o : ReceivedAt(some, o)') /\ Framed
<1>1. PICK len \in Lens :
        /\ stream' = stream \o HeadOf(NextPacket(Whole(stream), len))
                            \o DataOf(NextPacket(Whole(stream), len))
        /\ UNCHANGED <<program, pc, errors, open, taken, recvBuf, got, todo>>
  BY DEF StationSends, recvVars, loopVars
<1>2. UnitFits'
  BY <1>1 DEF UnitFits
<1>3. /\ Laid(stream, pkts, off) /\ stream \in Seq(Bytes) /\ pkts \in Seq(Packets)
      /\ Len(stream) \in Nat /\ Len(pkts) \in Nat /\ off[Len(pkts)] = Len(stream)
      /\ Len(got) \in 0 .. Len(pkts) /\ Len(got) \in Nat /\ got = SubSeq(pkts, 1, Len(got))
      /\ off[Len(got)] \in Nat /\ taken \in Nat /\ off[Len(got)] <= taken /\ taken <= Len(stream)
  BY ReceivedFacts
<1>4. PICK n, g, pkt : n = Len(pkts) /\ g = Len(got) /\ pkt = NextPacket(pkts, len)
  OBVIOUS
<1>5. Whole(stream) = pkts
  BY <1>3, WholeReceived
<1>6. pkt \in Packets /\ pkt.len = len /\ len \in Nat
  BY <1>3, <1>4, UnitsAssumption DEF NextPacket, Packets
<1>7. PICK some, o : some = Append(pkts, pkt) /\ o = Beyond(off, n, pkt)
  OBVIOUS
<1>8. /\ Laid(stream', some, o) /\ o[n + 1] = Len(stream')
  BY <1>1, <1>3, <1>4, <1>5, <1>6, <1>7, PacketAdded, ZenonT(30)
<1>9. /\ some \in Seq(Packets) /\ Len(some) = n + 1 /\ some[n + 1] = pkt
      /\ \A k \in 1 .. n : some[k] = pkts[k]
  BY <1>3, <1>4, <1>6, <1>7, AppendProperties
<1>10. \A k \in 0 .. n : o[k] = off[k]
  BY <1>3, <1>4, <1>7 DEF Beyond
<1>11. \A k \in 0 .. n : SubSeq(some, 1, k) = SubSeq(pkts, 1, k)
  <2>1. ASSUME NEW k \in 0 .. n PROVE SubSeq(some, 1, k) = SubSeq(pkts, 1, k)
    <3>1. k \in 0 .. Len(pkts) /\ k <= Len(some) /\ \A j \in 1 .. k : some[j] = pkts[j]
      BY <1>3, <1>4, <1>9
    <3>2. QED
      BY <1>3, <1>9, <3>1, FirstOfBoth
  <2>2. QED
    BY <2>1
<1>12. Len(stream') \in Nat /\ Len(stream) <= Len(stream')
  <2>1. n + 1 \in 1 .. Len(some) /\ n + 1 \in 0 .. Len(some) /\ (n + 1) - 1 = n /\ n \in 0 .. n
    BY <1>3, <1>4, <1>9
  <2>2. o[n + 1] = o[n] + Size(some[n + 1]) /\ Len(stream') \in Nat
    BY <1>8, <2>1, LaidFacts
  <2>3. o[n] = Len(stream)
    BY <1>3, <1>4, <1>10, <2>1
  <2>4. Size(some[n + 1]) \in Nat
    BY <1>6, <1>9, TcpAssumption DEF Size
  <2>5. QED
    BY <1>3, <1>8, <2>2, <2>3, <2>4
<1>13. SubSeq(stream', off[g] + 1, taken) = SubSeq(stream, off[g] + 1, taken)
  <2>1. HeadOf(pkt) \in Seq(Bytes) /\ DataOf(pkt) \in Seq(Bytes)
    BY <1>6, PacketParts
  <2>2. stream' = stream \o (HeadOf(pkt) \o DataOf(pkt))
    <3>1. NextPacket(Whole(stream), len) = pkt
      BY <1>4, <1>5
    <3>2. stream' = (stream \o HeadOf(pkt)) \o DataOf(pkt)
      BY <1>1, <3>1
    <3>3. PICK head, data : head = HeadOf(pkt) /\ data = DataOf(pkt)
      OBVIOUS
    <3>4. (stream \o head) \o data = stream \o (head \o data)
      <4>1. stream \in Seq(Bytes) /\ head \in Seq(Bytes) /\ data \in Seq(Bytes)
        BY <1>3, <2>1, <3>3
      <4>2. QED
        BY <4>1, ConcatAssociative
    <3>5. QED
      BY <3>2, <3>3, <3>4
  <2>3. HeadOf(pkt) \o DataOf(pkt) \in Seq(Bytes)
    BY <2>1, ConcatProperties
  <2>4. taken \in 0 .. Len(stream) /\ off[g] \in Nat
    BY <1>3, <1>4
  <2>5. QED
    BY <1>3, <2>2, <2>3, <2>4, PartOfMore, ZenonT(30)
<1>14. g \in 0 .. n /\ o[g] = off[g] /\ got' = got /\ taken' = taken /\ recvBuf' = recvBuf
  BY <1>1, <1>3, <1>4, <1>10
<1>15. KeptAt(pkts, off) => (g < n + 1 => taken < o[g + 1])
  <2> SUFFICES ASSUME KeptAt(pkts, off), g < n + 1 PROVE taken < o[g + 1]
    OBVIOUS
  <2>1. CASE g < n
    <3>1. g + 1 \in 0 .. n /\ taken < off[g + 1]
      BY <1>3, <1>4, <2>1 DEF KeptAt
    <3>2. QED
      BY <1>10, <3>1
  <2>2. CASE g = n
    <3>1. n + 1 \in 1 .. Len(some) /\ (n + 1) - 1 = n
      BY <1>3, <1>4, <1>9
    <3>2. o[n] < o[n + 1] /\ o[n] = Len(stream) /\ o[n + 1] = Len(stream')
      BY <1>3, <1>4, <1>8, <1>14, <2>2, <3>1, LaidFacts
    <3>3. QED
      BY <1>3, <1>12, <2>2, <3>2
  <2>3. QED
    BY <1>3, <1>4, <2>1, <2>2
<1>16. ReceivedAt(some, o)'
  <2>1. \A k \in 1 .. Len(some) : some[k].len \in Lens
    <3>1. \A k \in 1 .. n : pkts[k].len \in Lens
      BY <1>4 DEF ReceivedAt
    <3>2. ASSUME NEW k \in 1 .. Len(some) PROVE some[k].len \in Lens
      <4>1. CASE k = n + 1
        BY <1>6, <1>9, <4>1
      <4>2. CASE k # n + 1
        <5>1. k \in 1 .. n
          BY <1>3, <1>4, <1>9, <4>2
        <5>2. QED
          BY <1>9, <3>1, <5>1
      <4>3. QED
        BY <4>1, <4>2
    <3>3. QED
      BY <3>2
  <2>2. pc' = "overrun" => /\ Len(todo') \in 0 .. g
                           /\ Len(stream') - o[g - Len(todo')] > BufferLength
    <3>1. SUFFICES ASSUME pc = "overrun"
                   PROVE  Len(todo) \in 0 .. g /\ Len(stream') - o[g - Len(todo)] > BufferLength
      BY <1>1
    <3>2. Len(todo) \in 0 .. g /\ Len(stream) - off[g - Len(todo)] > BufferLength
      BY <1>4, <3>1 DEF ReceivedAt
    <3>3. g - Len(todo) \in 0 .. n
      <4>1. n \in Nat /\ g \in Nat /\ g <= n
        BY <1>3, <1>4
      <4>2. QED
        BY <3>2, <4>1
    <3>4. off[g - Len(todo)] \in Nat /\ o[g - Len(todo)] = off[g - Len(todo)]
      BY <1>3, <1>4, <1>10, <3>3, LaidFacts
    <3>5. BufferLength \in Nat
      BY UnitsAssumption
    <3>6. QED
      BY <1>3, <1>12, <3>2, <3>4, <3>5
  <2>3. pc' = "ended" /\ errors' = 0 => ~open'
    BY <1>1 DEF ReceivedAt
  <2>4. got' = SubSeq(some, 1, g) /\ Len(got') = g /\ g \in 0 .. Len(some)
    BY <1>3, <1>4, <1>9, <1>11, <1>14
  <2>5. KeptAt(some, o)'
    <3>1. KeptAt(pkts, off)
      BY DEF ReceivedAt
    <3>2. recvBuf' = SubSeq(stream', o[g] + 1, taken')
      BY <1>4, <1>13, <1>14, <3>1 DEF KeptAt
    <3>3. g < Len(some) => taken' < o[g + 1]
      BY <1>9, <1>14, <1>15, <3>1
    <3>4. QED
      BY <1>4, <1>14, <3>2, <3>3 DEF KeptAt
  <2>6. taken' \in 0 .. Len(stream') /\ o[g] <= taken'
    BY <1>3, <1>4, <1>12, <1>14
  <2>7. QED
    BY <1>8, <1>9, <1>14, <2>1, <2>2, <2>3, <2>4, <2>5, <2>6 DEF ReceivedAt
<1>17. Framed
  <2>1. Whole(stream)' = some
    BY <1>8, <1>9, WholeReceived
  <2>2. SubSeq(some, 1, n) = pkts
    BY <1>3, <1>4, <1>11, SubSeqFull
  <2>3. Fifo!Put /\ got' = got
    BY <1>1, <1>3, <1>4, <1>5, <1>9, <1>14, <2>1, <2>2 DEF Fifo!Put
  <2>4. Fifo!InOrder'
    <3>1. Len(got) <= Len(some) /\ SubSeq(some, 1, Len(got)) = got
      BY <1>3, <1>4, <1>9, <1>11, <1>14
    <3>2. QED
      BY <1>1, <1>14, <2>1, <3>1 DEF Fifo!InOrder
  <2>5. QED
    BY <1>1, <2>3, <2>4 DEF Framed, Fifo!Next
<1>18. QED
  BY <1>2, <1>16, <1>17

\* RecvPacket returns the packets that have become whole, and keeps the rest.
LEMMA RecvPacketFramed ==
    ASSUME UnitFits, program # "backward",
           NEW pkts, NEW off, ReceivedAt(pkts, off), RecvPacket
    PROVE  UnitFits' /\ (\E some, o : ReceivedAt(some, o)') /\ Framed
<1>1. PICK n \in 1 .. TcpBufSize :
        /\ RecvMay(n) /\ taken' = taken + n
        /\ LET bytes == recvBuf \o SubSeq(stream, taken + 1, taken + n)
               scan == Scan(bytes)
           IN  /\ recvBuf' = Leftover(bytes, scan.end)
               /\ got' = got \o scan.packets
               /\ Deliver(scan)
  BY DEF RecvPacket
<1>2. UNCHANGED <<program, errors, stream, open>>
  BY DEF RecvPacket
<1>3. PICK g, t, bytes :
        g = Len(got) /\ t = taken + n /\ bytes = recvBuf \o SubSeq(stream, taken + 1, t)
  OBVIOUS
<1>4. /\ Laid(stream, pkts, off) /\ stream \in Seq(Bytes) /\ pkts \in Seq(Packets)
      /\ Len(stream) \in Nat /\ Len(pkts) \in Nat /\ off[Len(pkts)] = Len(stream)
      /\ g \in 0 .. Len(pkts) /\ g \in Nat /\ got = SubSeq(pkts, 1, g) /\ got \in Seq(Packets)
      /\ off[g] \in Nat /\ taken \in Nat /\ off[g] <= taken /\ taken <= Len(stream)
  BY <1>3, ReceivedFacts
<1>5. t \in Nat /\ taken < t /\ t <= Len(stream)
  <2>1. n \in Nat /\ n > 0
    BY TcpAssumption
  <2>2. taken + n <= Len(stream)
    BY <1>1, <2>1 DEF RecvMay
  <2>3. QED
    BY <1>3, <1>4, <2>1, <2>2
<1>6. bytes = SubSeq(stream, off[g] + 1, t)
  <2>1. recvBuf = SubSeq(stream, off[g] + 1, taken)
    BY <1>3 DEF ReceivedAt, KeptAt
  <2>2. /\ off[g] + 1 \in 1 .. Len(stream) + 1 /\ taken \in (off[g] + 1) - 1 .. Len(stream)
        /\ t \in taken .. Len(stream)
    BY <1>4, <1>5
  <2>3. QED
    BY <1>3, <1>4, <2>1, <2>2, ConcatAdjacentSubSeq
<1>7. PICK m \in g .. Len(pkts) : off[m] <= t /\ (m < Len(pkts) => t < off[m + 1])
  <2>1. off[g] <= t
    BY <1>4, <1>5
  <2>2. QED
    BY <1>4, <1>5, <2>1, LastBefore
<1>8. /\ m \in Nat /\ g <= m /\ m <= Len(pkts) /\ m \in 0 .. Len(pkts)
      /\ off[m] \in Nat /\ off[m] <= Len(stream)
  <2>1. m \in Nat /\ g <= m /\ m <= Len(pkts) /\ m \in 0 .. Len(pkts)
    BY <1>4
  <2>2. QED
    BY <1>4, <2>1, LaidFacts
<1>9. PICK some, end : some = SubSeq(pkts, g + 1, m) /\ end = off[m] - off[g]
  OBVIOUS
<1>10. /\ Scan(bytes) = [packets |-> some, end |-> end]
       /\ off[g] <= off[m] /\ bytes \in Seq(Bytes) /\ Len(bytes) = t - off[g]
  <2>1. t \in 0 .. Len(stream)
    BY <1>4, <1>5
  <2>2. /\ Laid(stream, pkts, off) /\ off[Len(pkts)] = Len(stream)
        /\ g \in 0 .. Len(pkts) /\ m \in g .. Len(pkts)
        /\ off[m] <= t /\ (m < Len(pkts) => t < off[m + 1])
    BY <1>4, <1>7
  <2>3. Scan(SubSeq(stream, off[g] + 1, t)) =
            [packets |-> SubSeq(pkts, g + 1, m), end |-> off[m] - off[g]]
    BY <2>1, <2>2, ScanPiece, SMTT(30)
  <2>4. off[g] <= off[m]
    BY <2>1, <2>2, ScanPiece
  <2>5. SubSeq(stream, off[g] + 1, t) \in Seq(Bytes)
    BY <2>1, <2>2, ScanPiece
  <2>6. Len(SubSeq(stream, off[g] + 1, t)) = t - off[g]
    <3>1. PICK a : a = off[g] /\ a \in Nat /\ a <= t /\ t \in Nat
      BY <1>4, <1>5
    <3>2. Len(SubSeq(stream, a + 1, t)) = t - a
      BY <1>5, <3>1
    <3>3. QED
      BY <3>1, <3>2
  <2>7. QED
    BY <1>6, <1>9, <2>3, <2>4, <2>5, <2>6
<1>11. /\ recvBuf' = Leftover(bytes, end) /\ got' = got \o some /\ taken' = t
       /\ Deliver([packets |-> some, end |-> end])
  <2>1. /\ recvBuf' = Leftover(bytes, Scan(bytes).end) /\ got' = got \o Scan(bytes).packets
        /\ taken' = t /\ Deliver(Scan(bytes))
    BY <1>1, <1>3, Zenon
  <2>2. Scan(bytes).packets = some /\ Scan(bytes).end = end
    BY <1>10
  <2>3. QED
    BY <1>10, <2>1, <2>2, Zenon
<1>12. /\ todo' = some /\ pc' \in {"recv", "check", "overrun"}
       /\ pc' = "overrun" => end > BufferLength
  BY <1>11 DEF Deliver
<1>13. some \in Seq(Packets) /\ Len(some) = m - g
  BY <1>4, <1>8, <1>9, Part
<1>14. got' = SubSeq(pkts, 1, m)
  <2>1. /\ 1 \in 1 .. Len(pkts) + 1 /\ g \in 1 - 1 .. Len(pkts) /\ m \in g .. Len(pkts)
    BY <1>4
  <2>2. QED
    BY <1>4, <1>9, <1>11, <2>1, ConcatAdjacentSubSeq
<1>15. got' \in Seq(Packets) /\ Len(got') = m
  BY <1>4, <1>8, <1>14, FirstOf
<1>16. KeptAt(pkts, off)'
  <2>1. PICK a, b : a = off[g] /\ b = off[m]
    OBVIOUS
  <2>2. /\ a \in Nat /\ b \in Nat /\ a <= b /\ b <= t /\ t <= Len(stream)
        /\ end = b - a /\ Len(bytes) = t - a
    BY <1>4, <1>5, <1>7, <1>8, <1>9, <1>10, <2>1
  <2>3. recvBuf' = SubSeq(bytes, end + 1, Len(bytes))
    BY <1>11, Zenon DEF Leftover
  <2>4. recvBuf' = SubSeq(SubSeq(stream, a + 1, t), (b - a) + 1, t - a)
    BY <1>6, <2>1, <2>2, <2>3
  <2>5. SubSeq(SubSeq(stream, a + 1, t), (b - a) + 1, t - a) = SubSeq(stream, b + 1, t)
    BY <1>4, <1>5, <2>2, PartOfPart
  <2>6. recvBuf' = SubSeq(stream, off[m] + 1, t)
    BY <2>1, <2>4, <2>5
  <2>7. m < Len(pkts) => t < off[m + 1]
    BY <1>7
  <2>8. QED
    BY <1>2, <1>11, <1>15, <2>6, <2>7 DEF KeptAt
<1>17. UnitFits'
  BY <1>2, <1>12 DEF UnitFits
<1>18. ReceivedAt(pkts, off)'
  <2>1. pc' = "overrun" => /\ Len(todo') \in 0 .. m
                           /\ Len(stream') - off[m - Len(todo')] > BufferLength
    <3>1. SUFFICES ASSUME pc' = "overrun"
                   PROVE  /\ Len(todo') \in 0 .. m
                          /\ Len(stream') - off[m - Len(todo')] > BufferLength
      OBVIOUS
    <3>2. Len(todo') \in 0 .. m /\ m - Len(todo') = g
      BY <1>4, <1>8, <1>12, <1>13
    <3>3. off[m] - off[g] > BufferLength /\ BufferLength \in Nat
      BY <1>9, <1>12, <3>1, UnitsAssumption
    <3>4. Len(stream') - off[g] > BufferLength
      BY <1>2, <1>4, <1>8, <3>3
    <3>5. QED
      BY <3>2, <3>4
  <2>2. \A k \in 1 .. Len(pkts) : pkts[k].len \in Lens
    BY DEF ReceivedAt
  <2>3. pc' # "ended"
    BY <1>12
  <2>4. taken' \in 0 .. Len(stream') /\ off[m] <= taken'
    BY <1>2, <1>4, <1>5, <1>7, <1>11
  <2>5. QED
    BY <1>2, <1>4, <1>8, <1>11, <1>14, <1>15, <1>16, <2>1, <2>2, <2>3, <2>4 DEF ReceivedAt
<1>19. Framed
  <2>1. Whole(stream) = pkts /\ Whole(stream)' = pkts
    BY <1>2, <1>4, WholeReceived
  <2>2. CASE m = g
    <3>1. got' = got
      BY <1>4, <1>14, <2>2
    <3>2. QED
      BY <1>2, <2>1, <3>1 DEF Framed
  <2>3. CASE m # g
    <3>1. SubSeq(got', 1, g) = got
      <4>1. g \in 0 .. Len(pkts) /\ g <= Len(got') /\ \A j \in 1 .. g : got'[j] = pkts[j]
        <5>1. \A j \in 1 .. m : SubSeq(pkts, 1, m)[j] = pkts[j]
          BY <1>4, <1>8, FirstOf
        <5>2. \A j \in 1 .. g : j \in 1 .. m
          BY <1>4, <1>8
        <5>3. QED
          BY <1>4, <1>8, <1>14, <1>15, <5>1, <5>2
      <4>2. SubSeq(got', 1, g) = SubSeq(pkts, 1, g)
        BY <1>4, <1>15, <4>1, FirstOfBoth
      <4>3. QED
        BY <1>4, <4>2
    <3>2. Fifo!Get /\ Whole(stream)' = Whole(stream)
      BY <1>2, <1>3, <1>4, <1>8, <1>15, <2>1, <2>3, <3>1 DEF Fifo!Get
    <3>3. Fifo!InOrder'
      <4>1. Len(got') <= Len(pkts) /\ SubSeq(pkts, 1, Len(got')) = got'
        BY <1>8, <1>14, <1>15
      <4>2. QED
        BY <1>2, <2>1, <4>1 DEF Fifo!InOrder
    <3>4. QED
      BY <1>2, <3>2, <3>3 DEF Framed, Fifo!Next
  <2>4. QED
    BY <2>2, <2>3
<1>20. QED
  BY <1>17, <1>18, <1>19

\* Recv is never asked for nothing: what has come of a packet that is not whole leaves
\* room in recv_buffer_.
LEMMA RoomLeft ==
    ASSUME NEW pkts, NEW off, ReceivedAt(pkts, off)
    PROVE  TcpBufSize - Len(recvBuf) # 0
<1>1. PICK g, a : g = Len(got) /\ a = off[g]
  OBVIOUS
<1>2. /\ Laid(stream, pkts, off) /\ stream \in Seq(Bytes)
      /\ Len(stream) \in Nat /\ Len(pkts) \in Nat /\ off[Len(pkts)] = Len(stream)
      /\ g \in 0 .. Len(pkts) /\ g \in Nat
      /\ a \in Nat /\ taken \in Nat /\ a <= taken /\ taken <= Len(stream)
  BY <1>1, ReceivedFacts
<1>3. Len(recvBuf) = taken - a
  <2>1. recvBuf = SubSeq(stream, a + 1, taken)
    BY <1>1 DEF ReceivedAt, KeptAt
  <2>2. Len(SubSeq(stream, a + 1, taken)) = taken - a
    BY <1>2
  <2>3. QED
    BY <2>1, <2>2
<1>4. TcpBufSize \in Nat \ {0} /\ HeadLen \in Nat
  BY TcpAssumption
<1>5. CASE g < Len(pkts)
  <2>1. taken < off[g + 1]
    BY <1>1, <1>5 DEF ReceivedAt, KeptAt
  <2>2. PICK k : k = g + 1 /\ k \in 1 .. Len(pkts) /\ k - 1 = g
    BY <1>2, <1>5
  <2>3. off[k] = a + Size(pkts[k]) /\ pkts[k].len \in Nat
    BY <1>1, <1>2, <2>2, LaidFacts
  <2>4. HeadLen + pkts[k].len <= TcpBufSize
    BY <2>2, UnitsAssumption DEF ReceivedAt
  <2>5. QED
    BY <1>2, <1>3, <1>4, <2>1, <2>2, <2>3, <2>4 DEF Size
<1>6. CASE g = Len(pkts)
  BY <1>1, <1>2, <1>3, <1>4, <1>6
<1>7. QED
  BY <1>2, <1>5, <1>6

-----------------------------------------------------------------------------
(* Every step.                                                             *)

\* What the other actions do not do.
Quiet ==
    /\ UNCHANGED <<program, stream, datagrams, taken, recvBuf, got>>
    /\ open' => open
    /\ pc' = "overrun" => pc = "overrun" /\ todo' = todo
    /\ pc' = "ended" /\ errors' = 0 =>
         \/ pc = "ended" /\ errors = 0
         \/ ~open
    /\ program = "backward" =>
         \/ pc' = pc
         \/ pc \notin {"head", "data"} /\ pc' \notin {"head", "data"}

\* Each program stays in the places that it has.
LEMMA UnitFitsKept == UnitFits /\ [Next]_vars => UnitFits'
<1> SUFFICES ASSUME UnitFits, [Next]_vars PROVE UnitFits'
  OBVIOUS
<1>1. CASE UNCHANGED vars
  BY <1>1 DEF UnitFits, vars
<1>2. CASE ForwardStart \/ GuiStart
  BY <1>2 DEF ForwardStart, GuiStart, Connect, Fails, UnitFits
<1>3. CASE BackwardStart
  BY <1>3 DEF BackwardStart, Connect, CreateUdp, Fails, UnitFits
<1>4. CASE BackwardRecvFrom
  BY <1>4 DEF BackwardRecvFrom, Fails, UnitFits
<1>5. CASE SendPacket
  BY <1>5 DEF SendPacket, SendBytes, UnitFits
<1>6. CASE RecvPacket
  BY <1>6 DEF RecvPacket, Deliver, UnitFits
<1>7. CASE RecvPacketFails
  BY <1>7 DEF RecvPacketFails, Fails, UnitFits
<1>8. CASE PacketDone
  BY <1>8 DEF PacketDone, UnitFits
<1>9. CASE SendToClient \/ CheckSize \/ ReadPort \/ ReadIpAndSend
  BY <1>9 DEF SendToClient, CheckSize, ReadPort, ReadIpAndSend, UnitFits
<1>10. CASE StationSends \/ StationCloses
  BY <1>10 DEF StationSends, StationCloses, UnitFits
<1>11. CASE Click \/ Write
  BY <1>11 DEF Click, Write, UnitFits
<1>12. QED
  BY <1>1, <1>2, <1>3, <1>4, <1>5, <1>6, <1>7, <1>8, <1>9, <1>10, <1>11 DEF Next, UnitStep

\* The other actions change nothing that the framing is about,
LEMMA OthersQuiet ==
    ASSUME UnitFits, [Next]_vars,
           ~BackwardRecvFrom, ~SendPacket, ~StationSends, ~RecvPacket, ~RecvPacketFails
    PROVE  Quiet
<1>1. CASE UNCHANGED vars
  BY <1>1 DEF Quiet, vars, backVars, recvVars, loopVars
<1>2. CASE ForwardStart \/ GuiStart
  BY <1>2 DEF ForwardStart, GuiStart, Connect, Fails, UnitFits, Quiet, backVars, recvVars
<1>3. CASE BackwardStart
  BY <1>3 DEF BackwardStart, Connect, CreateUdp, Fails, UnitFits, Quiet, backVars, recvVars
<1>4. CASE PacketDone
  BY <1>4 DEF PacketDone, UnitFits, Quiet, backVars, recvVars
<1>5. CASE SendToClient \/ CheckSize
  BY <1>5 DEF SendToClient, CheckSize, UnitFits, Quiet, backVars, recvVars
<1>6. CASE ReadPort
  BY <1>6 DEF ReadPort, UnitFits, Quiet, backVars, recvVars
<1>7. CASE ReadIpAndSend
  BY <1>7 DEF ReadIpAndSend, UnitFits, Quiet, backVars, recvVars
<1>8. CASE StationCloses
  BY <1>8 DEF StationCloses, Quiet, backVars, recvVars, loopVars
<1>9. CASE Click
  BY <1>9 DEF Click, Quiet, backVars, recvVars
<1>10. CASE Write
  BY <1>10 DEF Write, Quiet, backVars, recvVars, loopVars
<1>11. QED
  BY <1>1, <1>2, <1>3, <1>4, <1>5, <1>6, <1>7, <1>8, <1>9, <1>10 DEF Next, UnitStep

\* RecvPacket fails only after an error, or when the connection has ended.
LEMMA FailureQuiet ==
    ASSUME UnitFits, NEW pkts, NEW off, ReceivedAt(pkts, off), RecvPacketFails
    PROVE  Quiet
<1>1. /\ program # "backward" /\ pc = "recv" /\ pc' = "ended"
      /\ \/ RecvMay(0) /\ errors' = errors
         \/ errors' = errors + 1
      /\ UNCHANGED <<program, stream, open, datagrams, taken, recvBuf, got>>
  BY DEF RecvPacketFails, Fails, backVars, recvVars
<1>2. RecvMay(0) => ~open
  BY RoomLeft DEF RecvMay
<1>3. errors \in Nat
  BY DEF UnitFits
<1>4. QED
  BY <1>1, <1>2, <1>3 DEF Quiet

\* so they are stutters of PacketFifo,
LEMMA QuietFramed == Quiet => Framed
<1> SUFFICES ASSUME Quiet PROVE Framed
  OBVIOUS
<1>1. UNCHANGED <<program, stream, datagrams, got>>
  BY DEF Quiet
<1>2. Whole(stream)' = Whole(stream)
  BY <1>1
<1>3. QED
  BY <1>1, <1>2 DEF Framed

\* and keep what is said of the sender
LEMMA SentQuiet ==
    ASSUME program = "backward", NEW w, NEW off, SentAt(w, off), Quiet
    PROVE  SentAt(w, off)'
  BY DEF SentAt, Quiet

\* and of the receiver.
LEMMA ReceivedQuiet ==
    ASSUME NEW pkts, NEW off, ReceivedAt(pkts, off), Quiet
    PROVE  ReceivedAt(pkts, off)'
  BY DEF ReceivedAt, KeptAt, Quiet

\* The invariant is inductive, and a step that keeps it does to the packets put in and
\* taken out what the abstract specification allows.
LEMMA FramingStep ==
    ASSUME FramingInv, [Next]_vars
    PROVE  FramingInv' /\ Framed
<1>1. UnitFits /\ UnitFits'
  BY UnitFitsKept DEF FramingInv
<1>2. program' = program
  <2>1. CASE Quiet
    BY <2>1 DEF Quiet
  <2>2. CASE BackwardRecvFrom \/ SendPacket \/ StationSends \/ RecvPacket \/ RecvPacketFails
    BY <2>2 DEF BackwardRecvFrom, SendPacket, StationSends, RecvPacket, RecvPacketFails
  <2>3. QED
    BY <1>1, <2>1, <2>2, OthersQuiet
<1>3. CASE program = "backward"
  <2>1. PICK w, off : SentAt(w, off)
    BY <1>3 DEF FramingInv
  <2>2. CASE BackwardRecvFrom
    BY <1>1, <1>2, <1>3, <2>1, <2>2, BackwardReceives DEF FramingInv
  <2>3. CASE SendPacket
    BY <1>1, <1>2, <1>3, <2>1, <2>3, BackwardSends DEF FramingInv
  <2>4. CASE ~BackwardRecvFrom /\ ~SendPacket
    <3>1. ~StationSends /\ ~RecvPacket /\ ~RecvPacketFails
      BY <1>3 DEF StationSends, RecvPacket, RecvPacketFails
    <3>2. Quiet
      BY <1>1, <2>4, <3>1, OthersQuiet
    <3>3. SentAt(w, off)'
      BY <1>3, <2>1, <3>2, SentQuiet
    <3>4. QED
      BY <1>1, <1>2, <1>3, <3>2, <3>3, QuietFramed DEF FramingInv
  <2>5. QED
    BY <2>2, <2>3, <2>4
<1>4. CASE program # "backward"
  <2>1. PICK pkts, off : ReceivedAt(pkts, off)
    BY <1>4 DEF FramingInv
  <2>2. CASE StationSends
    BY <1>1, <1>2, <1>4, <2>1, <2>2, StationSendsFramed DEF FramingInv
  <2>3. CASE RecvPacket
    BY <1>1, <1>2, <1>4, <2>1, <2>3, RecvPacketFramed DEF FramingInv
  <2>4. CASE ~StationSends /\ ~RecvPacket
    <3>1. ~BackwardRecvFrom /\ ~SendPacket
      BY <1>1, <1>4 DEF BackwardRecvFrom, SendPacket, UnitFits
    <3>2. Quiet
      BY <1>1, <2>1, <2>4, <3>1, OthersQuiet, FailureQuiet
    <3>3. ReceivedAt(pkts, off)'
      BY <2>1, <3>2, ReceivedQuiet
    <3>4. QED
      BY <1>1, <1>2, <1>4, <3>2, <3>3, QuietFramed DEF FramingInv
  <2>5. QED
    BY <2>2, <2>3, <2>4
<1>5. QED
  BY <1>3, <1>4

-----------------------------------------------------------------------------
(* The theorems.                                                           *)

\* In every reachable state the bytes of the connection are packets one behind the
\* other, in the backward unit those of the datagrams and perhaps the header of the
\* last one (SendPacket), in the forward units those of the station, of which RecvPacket
\* has returned the first and keeps the beginning of the next one in recv_buffer_.
THEOREM FramingCorrect == Spec => []FramingInv
<1>1. FramingInv /\ [Next]_vars => FramingInv'
  BY FramingStep
<1>2. QED
  BY InitFraming, <1>1, PTL DEF Spec

\* While the station keeps the connection, every datagram that ChannelUnitBackward has
\* received is whole in the connection, but for the one that SendPacket is sending:
\* between two datagrams nothing is lost, also not of a datagram without data.
THEOREM BackwardComplete == Spec => []BackwardKeepsAll
<1>1. FramingInv => BackwardKeepsAll
  <2>1. SUFFICES ASSUME FramingInv, program = "backward", open
                 PROVE  \/ Whole(stream) = datagrams
                        \/ pc \in {"head", "data"} /\ Whole(stream) = Front(datagrams)
    BY DEF BackwardKeepsAll
  <2>2. PICK w, off : SentAt(w, off)
    BY <2>1 DEF FramingInv
  <2>3. Whole(stream) = SubSeq(datagrams, 1, w) /\ datagrams \in Seq(Packets)
    BY <2>2, WholeSent DEF SentAt, Carries
  <2>4. CASE w = Len(datagrams)
    BY <2>3, <2>4, SubSeqFull
  <2>5. CASE w = Len(datagrams) - 1 /\ pc \in {"head", "data"}
    BY <2>3, <2>5 DEF Front
  <2>6. QED
    BY <2>1, <2>2, <2>4, <2>5 DEF SentAt
<1>2. QED
  BY <1>1, FramingCorrect, PTL

\* RecvPacket tells its caller that the connection has ended only when it has, or after
\* an error of a system call: it never calls Recv with no room in recv_buffer_, where the
\* 0 that comes back would look like the end.
THEOREM DisconnectsReal == Spec => []DisconnectIsReal
<1>1. FramingInv => DisconnectIsReal
  BY DEF FramingInv, SentAt, ReceivedAt, DisconnectIsReal
<1>2. QED
  BY <1>1, FramingCorrect, PTL

\* However TCP cuts the bytes into pieces and wherever the connection ends, the packets
\* found in a connection are the ones put in, in order, none twice and none skipped:
\* SendPacket, RecvPacket and every other step of the three units do what PacketFifo
\* allows, or nothing that it sees.
THEOREM FramingImplemented == Spec => FramingSpec
<1>1. Init => Fifo!Init
  <2>1. SUFFICES ASSUME Init PROVE Fifo!Init
    OBVIOUS
  <2>2. PICK off : off = [k \in 0 .. 0 |-> 0]
    OBVIOUS
  <2>3. Laid(<<>>, <<>>, off) /\ Len(<<>>) = off[Len(<<>>)]
    BY <2>2 DEF Laid
  <2>4. Whole(<<>>) = <<>>
    BY <2>3, WholeReceived
  <2>5. stream = <<>> /\ datagrams = <<>> /\ got = <<>>
    BY <2>1 DEF Init
  <2>6. QED
    BY <2>4, <2>5 DEF Fifo!Init
<1>2. FramingInv /\ [Next]_vars => Framed
  BY FramingStep
<1>3. QED
  BY <1>1, <1>2, FramingCorrect, PTL DEF Spec, FramingSpec, Fifo!Spec, Framed

\* The length of the first packets that RecvPacket returned is the offset of the next one.
LEMMA LengthIsOffset ==
    ASSUME NEW pkts, NEW off, ReceivedAt(pkts, off), NEW d \in 0 .. Len(got)
    PROVE  LET length == CHOOSE f : f = [k \in 0 .. d |->
                            IF k = 0 THEN 0 ELSE f[k - 1] + HeadLen + got[k].len]
           IN  length[d] = off[d]
<1> DEFINE Length(f) == [k \in 0 .. d |-> IF k = 0 THEN 0 ELSE f[k - 1] + HeadLen + got[k].len]
           length == CHOOSE f : f = Length(f)
<1>1. d \in Nat /\ d \in 0 .. Len(pkts) /\ off[0] = 0
  BY ReceivedFacts DEF Laid
<1>2. ASSUME NEW k \in 1 .. d
      PROVE  /\ off[k] = off[k - 1] + HeadLen + got[k].len
             /\ off[k - 1] \in Nat /\ k - 1 \in 0 .. d
  <2>1. k \in 1 .. Len(pkts) /\ k \in 1 .. Len(got) /\ k - 1 \in 0 .. Len(pkts) /\ k - 1 \in 0 .. d
    BY <1>1, ReceivedFacts
  <2>2. got[k] = pkts[k]
    <3>1. PICK g : g = Len(got)
      OBVIOUS
    <3>2. g \in 0 .. Len(pkts) /\ pkts \in Seq(Packets) /\ got = SubSeq(pkts, 1, g)
      BY <3>1, ReceivedFacts
    <3>3. \A j \in 1 .. g : SubSeq(pkts, 1, g)[j] = pkts[j]
      BY <3>2, FirstOf
    <3>4. QED
      BY <2>1, <3>1, <3>2, <3>3
  <2>3. off[k] = off[k - 1] + Size(pkts[k]) /\ off[k - 1] \in Nat /\ pkts[k].len \in Nat
    BY <2>1, ReceivedFacts, LaidFacts
  <2>4. QED
    BY <2>1, <2>2, <2>3, TcpAssumption DEF Size
<1>3. \E f : f = Length(f)
  <2>1. PICK f : f = [k \in 0 .. d |-> off[k]]
    OBVIOUS
  <2>2. ASSUME NEW k \in 0 .. d
        PROVE  f[k] = IF k = 0 THEN 0 ELSE f[k - 1] + HeadLen + got[k].len
    <3>1. CASE k = 0
      BY <1>1, <2>1, <3>1
    <3>2. CASE k # 0
      BY <1>1, <1>2, <2>1, <3>2
    <3>3. QED
      BY <3>1, <3>2
  <2>3. f = Length(f)
    BY <2>1, <2>2
  <2>4. QED
    BY <2>3
<1>4. length = Length(length)
  <2> HIDE DEF Length
  <2>1. QED
    BY <1>3, Zenon
<1>5. PICK f : f = length /\ f = Length(f)
  BY <1>4
<1>6. \A k \in 0 .. d : f[k] = IF k = 0 THEN 0 ELSE f[k - 1] + HeadLen + got[k].len
  <2> HIDE DEF length
  <2>1. QED
    BY <1>5
<1> DEFINE T == {k \in 0 .. d : f[k] # off[k]}
<1>7. T = {}
  <2>1. SUFFICES ASSUME T # {} PROVE FALSE
    OBVIOUS
  <2>2. PICK k \in T : \A y \in T : k <= y
    <3>1. T \subseteq Nat
      BY <1>1
    <3> HIDE DEF T
    <3>2. QED
      BY <2>1, <3>1, Least
  <2>3. k \in 0 .. d /\ f[k] # off[k] /\ k # 0
    BY <1>1, <1>6, <2>2
  <2>4. k \in 1 .. d /\ k - 1 \in 0 .. d /\ ~(k <= k - 1)
    BY <1>1, <2>3
  <2>5. f[k - 1] = off[k - 1]
    BY <2>2, <2>4
  <2>6. f[k] = f[k - 1] + HeadLen + got[k].len
    BY <1>6, <2>3
  <2>7. off[k] = off[k - 1] + HeadLen + got[k].len
    BY <1>2, <2>4
  <2>8. QED
    BY <2>3, <2>5, <2>6, <2>7
<1>8. d \in 0 .. d
  BY <1>1
<1>9. f[d] = off[d]
  BY <1>7, <1>8
<1>10. QED
  BY <1>5, <1>9, Zenon

\* The packets of one RecvPacket exceed the BUFFER_LENGTH bytes of its caller only when
\* more than that many bytes of the connection have not been sent out yet: a station that
\* keeps less than BUFFER_LENGTH ahead of the unit never makes it overrun.
THEOREM CallerBuffer == Spec => []CallerBufferFits
<1>1. FramingInv => CallerBufferFits
  <2>1. SUFFICES ASSUME FramingInv, pc = "overrun" PROVE CallerBufferFits
    BY DEF CallerBufferFits
  <2>2. program # "backward"
    BY <2>1 DEF FramingInv, UnitFits
  <2>3. PICK pkts, off : ReceivedAt(pkts, off)
    BY <2>1, <2>2 DEF FramingInv
  <2> DEFINE length == CHOOSE f : f = [k \in 0 .. Len(got) - Len(todo) |->
                          IF k = 0 THEN 0 ELSE f[k - 1] + HeadLen + got[k].len]
  <2>4. PICK d : d = Len(got) - Len(todo)
    OBVIOUS
  <2>5. d \in 0 .. Len(got) /\ Len(stream) - off[d] > BufferLength
    <3>1. Len(todo) \in 0 .. Len(got) /\ Len(stream) - off[Len(got) - Len(todo)] > BufferLength
      BY <2>1, <2>3 DEF ReceivedAt
    <3>2. QED
      BY <2>3, <2>4, <3>1, ReceivedFacts
  <2>6. length[d] = off[d]
    BY <2>3, <2>4, <2>5, LengthIsOffset
  <2>7. CallerBufferFits <=> (pc = "overrun" => Len(stream) - length[d] > BufferLength)
    BY <2>4, Zenon DEF CallerBufferFits
  <2>8. QED
    <3> HIDE DEF length
    <3>1. QED
      BY <2>5, <2>6, <2>7
<1>2. QED
  BY <1>1, FramingCorrect, PTL
=============================================================================
