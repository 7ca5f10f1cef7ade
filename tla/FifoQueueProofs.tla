-------------------------- MODULE FifoQueueProofs --------------------------
(***************************************************************************)
(* Theorems about FifoQueue for every size of the buffer, every set of     *)
(* lengths and any number of pushes, pops, peeks and resets.               *)
(*                                                                         *)
(* That a push stays in the buffer follows from its tests for the end      *)
(* alone.  The test for room does not help there: a reader that has read   *)
(* garbage for a length may have counted far more bytes than were written. *)
(*                                                                         *)
(* With packets of one length the buffer is a ring of slots.  Slot(k, ...) *)
(* is the one of packet k, counted back from the last one that was stored: *)
(* those of the present lap lie before the write position, the others one  *)
(* lap earlier.                                                            *)
(***************************************************************************)
EXTENDS FifoQueue, TLAPS

Packets == [id : Int, len : Nat]
Cells == [id : Int, len : Nat, at : Nat]

\* The writer stays in the buffer, the counters stay numbers.
Inside ==
    /\ bufSize \in Nat \ {0} /\ lens \subseteq Nat
    /\ mem \in [0 .. bufSize - 1 -> Cells]
    /\ readPos \in Nat /\ writePos \in Nat /\ readBytes \in Nat /\ writeBytes \in Nat
    /\ (\A len \in lens : LenSize + len <= bufSize) => writePos <= bufSize
    /\ pushing = <<>> \/ \E pkt \in Packets : pushing = <<pkt>>
    /\ \/ popping = <<>>
       \/ \E len \in Nat : popping = <<len>> \/ \E pkt : popping = <<len, pkt>>
    /\ pushed \in Seq(Packets)

\* What PopPacket has in hand: nothing, a length, or a length and a packet.
LEMMA InHand ==
    \A a, b : /\ Len(<<>>) = 0 /\ Len(<<a>>) = 1 /\ Len(<<a, b>>) = 2
              /\ <<a>>[1] = a /\ <<a, b>>[1] = a /\ <<a, b>>[2] = b
  OBVIOUS

\* An empty buffer.
LEMMA InitInside == Init => Inside
<1>1. Cell(0, EndFlag, 0) \in Cells
  BY DEF Cell, Cells, EndFlag
<1>2. QED
  BY <1>1, QueueAssumption DEF Init, Inside

\* Storing a packet leaves the other cells alone.
LEMMA StoreCells ==
    ASSUME NEW n \in Nat, NEW m \in [0 .. n - 1 -> Cells], NEW pos \in Nat,
           NEW pkt \in Packets
    PROVE  /\ Store(m, pos, pkt) \in [0 .. n - 1 -> Cells]
           /\ \A p \in 0 .. n - 1 :
                Store(m, pos, pkt)[p] =
                    IF p \in pos .. pos + LenSize + pkt.len - 1
                    THEN Cell(pkt.id, pkt.len, p - pos + 1) ELSE m[p]
<1>1. DOMAIN m = 0 .. n - 1 /\ pkt.id \in Int /\ pkt.len \in Nat
  BY DEF Packets
<1>2. \A p \in pos .. pos + LenSize + pkt.len - 1 :
          Cell(pkt.id, pkt.len, p - pos + 1) \in Cells
  BY <1>1 DEF Cell, Cells, LenSize
<1>3. QED
  BY <1>1, <1>2 DEF Store

\* A push stays inside: it begins at the front when the packet does not fit in behind.
LEMMA PushPacketInside == Inside /\ PushPacket => Inside'
<1> SUFFICES ASSUME Inside, PushPacket PROVE Inside'
  OBVIOUS
<1>1. PICK len \in lens :
        LET pkt == [id |-> Len(pushed) + 1, len |-> len]
            wrap == NoLengthFits(writePos) \/ NoPacketFits(writePos, len)
            flagged == IF wrap /\ ~NoLengthFits(writePos)
                       THEN Store(mem, writePos, NoPacket) ELSE mem
            pos == IF wrap THEN 0 ELSE writePos
        IN  /\ ~NoRoom(len)
            /\ mem' = Store(flagged, pos, pkt)
            /\ writePos' = pos + LenSize + len
            /\ pushing' = <<pkt>>
  BY DEF PushPacket
<1> DEFINE pkt == [id |-> Len(pushed) + 1, len |-> len]
           wrap == NoLengthFits(writePos) \/ NoPacketFits(writePos, len)
           flagged == IF wrap /\ ~NoLengthFits(writePos)
                      THEN Store(mem, writePos, NoPacket) ELSE mem
           pos == IF wrap THEN 0 ELSE writePos
<1>2. len \in Nat /\ pkt \in Packets /\ pkt.len = len /\ NoPacket \in Packets
  BY DEF Inside, Packets, NoPacket
<1>3. /\ pos \in Nat /\ pos + LenSize + len \in Nat
      /\ (\A l \in lens : LenSize + l <= bufSize) => pos + LenSize + len <= bufSize
  BY <1>1, <1>2 DEF Inside, NoLengthFits, NoPacketFits, LenSize
<1>4. flagged \in [0 .. bufSize - 1 -> Cells]
  <2>1. Store(mem, writePos, NoPacket) \in [0 .. bufSize - 1 -> Cells]
    BY <1>2, StoreCells DEF Inside
  <2>2. QED
    BY <2>1 DEF Inside
<1>5. mem' \in [0 .. bufSize - 1 -> Cells]
  <2> HIDE DEF flagged, pkt, pos
  <2>1. mem' = Store(flagged, pos, pkt)
    BY <1>1 DEF flagged, pos, pkt
  <2>2. QED
    BY <2>1, <1>2, <1>3, <1>4, StoreCells DEF Inside
<1>6. /\ UNCHANGED <<bufSize, lens, readPos, readBytes, writeBytes, popping, pushed>>
      /\ writePos' = pos + LenSize + len /\ pushing' = <<pkt>>
  BY <1>1 DEF PushPacket
<1> HIDE DEF pos, pkt
<1>7. QED
  BY <1>2, <1>3, <1>5, <1>6 DEF Inside

\* Two bytes read as a number.
LEMMA LengthsInside ==
    ASSUME Inside, NEW pos \in Nat
    PROVE  LengthsAt(pos) \subseteq Nat
<1>1. ~NoLengthFits(pos) => mem[pos] \in Cells
  BY DEF Inside, NoLengthFits, LenSize
<1>2. QED
  BY <1>1, QueueAssumption DEF LengthsAt, Cells

\* So do the position and the length of the next packet.
LEMMA NextInside ==
    ASSUME Inside, NEW next \in NextPacket
    PROVE  next[1] \in Nat /\ next[2] \in Nat
<1>1. FirstPos \in Nat
  BY DEF Inside, FirstPos
<1>2. LengthsAt(FirstPos) \subseteq Nat /\ LengthsAt(0) \subseteq Nat
  BY <1>1, LengthsInside
<1>3. QED
  BY <1>1, <1>2 DEF NextPacket

\* And so does every other step.
LEMMA NextIsInside == Inside /\ [Next]_vars => Inside'
<1> SUFFICES ASSUME Inside, [Next]_vars PROVE Inside'
  OBVIOUS
<1>1. CASE PushPacket
  BY <1>1, PushPacketInside
<1>2. CASE PushCounted
  <2>1. PICK pkt \in Packets : pushing = <<pkt>>
    BY <1>2 DEF PushCounted, Inside
  <2>2. pushing[1] = pkt /\ pkt.len \in Nat
    BY <2>1 DEF Packets
  <2>3. pushed' \in Seq(Packets)
    BY <1>2, <2>1 DEF PushCounted, Inside
  <2>4. /\ writeBytes' = writeBytes + pkt.len + 2 /\ pushing' = <<>>
        /\ UNCHANGED <<bufSize, lens, mem, readPos, writePos, readBytes, popping>>
    BY <1>2, <2>2 DEF PushCounted, Inside, Counted, LenSize
  <2>5. writeBytes' \in Nat
    BY <2>2, <2>4 DEF Inside
  <2>6. QED
    BY <2>3, <2>4, <2>5 DEF Inside
<1>3. CASE PopPacket
  <2>1. PICK next \in NextPacket : readPos' = next[1] + LenSize /\ popping' = <<next[2]>>
    BY <1>3 DEF PopPacket
  <2>2. readPos' \in Nat /\ next[2] \in Nat
    BY <2>1, NextInside DEF LenSize
  <2>3. UNCHANGED <<bufSize, lens, mem, writePos, readBytes, writeBytes, pushing, pushed>>
    BY <1>3 DEF PopPacket
  <2>4. QED
    BY <2>1, <2>2, <2>3 DEF Inside
<1>4. CASE PopCopied
  <2>1. PICK len \in Nat : popping = <<len>> /\ popping[1] = len
    BY <1>4, InHand DEF PopCopied, Inside
  <2>2. PICK pkt : popping' = <<len, pkt>>
    BY <1>4, <2>1 DEF PopCopied
  <2>3. readPos' \in Nat
    BY <1>4, <2>1 DEF PopCopied, Inside
  <2>4. UNCHANGED <<bufSize, lens, mem, writePos, readBytes, writeBytes, pushing, pushed>>
    BY <1>4 DEF PopCopied
  <2>5. QED
    BY <2>2, <2>3, <2>4 DEF Inside
<1>5. CASE PopCounted
  <2>1. popping[1] \in Nat /\ popping' = <<>>
    <3>1. Len(popping) = 2 /\ popping' = <<>>
      BY <1>5 DEF PopCounted
    <3>2. popping # <<>> /\ \A a : popping # <<a>>
      BY <3>1, InHand
    <3>3. PICK len \in Nat : \E pkt : popping = <<len, pkt>>
      BY <3>2 DEF Inside
    <3>4. QED
      BY <3>1, <3>3
  <2>2. readBytes' \in Nat
    BY <1>5, <2>1 DEF PopCounted, Inside, LenSize
  <2>3. UNCHANGED <<bufSize, lens, mem, readPos, writePos, writeBytes, pushing, pushed>>
    BY <1>5 DEF PopCounted
  <2>4. QED
    BY <2>1, <2>2, <2>3 DEF Inside
<1>6. CASE PeekNextPackLen
  <2>1. readPos' \in Nat
    BY <1>6, NextInside DEF PeekNextPackLen
  <2>2. QED
    BY <1>6, <2>1 DEF PeekNextPackLen, Inside
<1>7. CASE Reset
  BY <1>7 DEF Reset, Inside
<1>8. CASE UNCHANGED vars
  BY <1>8 DEF vars, Inside
<1>9. QED
  BY <1>1, <1>2, <1>3, <1>4, <1>5, <1>6, <1>7, <1>8 DEF Next

-----------------------------------------------------------------------------
(* One length.  size is that of a slot: a packet with its length bytes;    *)
(* num is the number of slots in a lap, w and r the slots of the write and *)
(* the read position (num: behind the last).                               *)

Stored == Len(pushed) + Len(pushing)

\* The packets that the reader has passed.
Passed == Len(got) + (IF Len(popping) = 2 THEN 1 ELSE 0)

\* The slot of packet k of n that are stored.
Slot(k, n, num, w) == k - 1 - n + w + (IF k <= n - w THEN num ELSE 0)

\* The packets 1 to n, all of that length.
Numbered(n, len) == [k \in 1 .. n |-> [id |-> k, len |-> len]]

\* The END_FLAG stands at p.
Flagged(p) == mem[p] = Cell(0, EndFlag, 1) /\ mem[p + 1] = Cell(0, EndFlag, 2)

\* What the buffer holds, and where.  Only a writer that has begun a second lap has
\* left a flag behind the last slot.
Written(len, num, w) ==
    LET size == len + LenSize
    IN  /\ lens \subseteq {len}
        /\ num * size <= bufSize /\ bufSize < num * size + size
        /\ bufSize \in Nat \ {0} /\ mem \in [0 .. bufSize - 1 -> Cells]
        /\ writePos = w * size
        /\ Len(pushed) \in Nat /\ pushed = Numbered(Len(pushed), len)
        /\ pushing \in {<<>>, <<[id |-> Len(pushed) + 1, len |-> len]>>}
        /\ Len(got) \in 0 .. Len(pushed) /\ got = Numbered(Len(got), len)
        /\ writeBytes = Len(pushed) * size /\ readBytes = Len(got) * size
        /\ Stored - Len(got) <= num /\ w <= Stored /\ (w = 0 => Stored = 0)
        /\ w = Stored \/ w + num <= Stored
        /\ \A k \in Len(got) + 1 .. Stored : \A j \in 1 .. size :
               mem[Slot(k, Stored, num, w) * size + j - 1] = Cell(k, len, j)
        /\ (w # Stored /\ num * size + LenSize <= bufSize) => Flagged(num * size)

\* How far the consumer is.
Read(len, num, w, r) ==
    LET size == len + LenSize
    IN  /\ popping \in {<<>>, <<len>>, <<len, [id |-> Len(got) + 1, len |-> len]>>}
        /\ popping # <<>> =>
               pushing = <<>> /\ Len(got) < Len(pushed) /\ peeked = NotPeeked
        /\ readPos = r * size + (IF Len(popping) = 1 THEN LenSize ELSE 0)
        /\ r <= Passed
        /\ IF Passed = Stored THEN r = w
           ELSE \/ r = Slot(Passed + 1, Stored, num, w)
                \/ r = num /\ Slot(Passed + 1, Stored, num, w) = 0
        /\ Len(popping) = 1 => r = Slot(Passed + 1, Stored, num, w)
        /\ peeked \in {NotPeeked, len} /\ (peeked # NotPeeked => Len(got) < Len(pushed))

Layout(len, num, w, r) == Written(len, num, w) /\ Read(len, num, w, r)

\* A ring of slots, as long as there is one length and Reset has met no push and no pop.
Ring ==
    Uniform => \E len \in Nat \ {0}, num \in Nat :
                   \E w \in 0 .. num, r \in 0 .. num : Layout(len, num, w, r)

\* A smaller slot ends before a larger one begins.
LEMMA SlotsApart ==
    ASSUME NEW i \in Nat, NEW j \in Nat, NEW size \in Nat, i < j
    PROVE  i * size \in Nat /\ j * size \in Nat /\ i * size + size <= j * size
<1>1. j - i - 1 \in Nat /\ (j - i - 1) * size \in Nat
  OBVIOUS
<1>2. j * size = i * size + size + (j - i - 1) * size
  OBVIOUS
<1>3. QED
  BY <1>1, <1>2

\* A buffer is a number of slots, and less than another one.
LEMMA SlotsOfBuffer ==
    ASSUME NEW n \in Nat, NEW size \in Nat \ {0}
    PROVE  \E num \in Nat : num * size <= n /\ n < num * size + size
<1>1. n \div size \in Nat /\ n % size \in 0 .. size - 1
  OBVIOUS
<1>2. n = size * (n \div size) + (n % size)
  OBVIOUS
<1>3. PICK q \in Nat, rest \in 0 .. size - 1 : n = size * q + rest
  BY <1>1, <1>2
<1>4. q * size <= n /\ n < q * size + size
  BY <1>3
<1>5. QED
  BY <1>4

\* Unread packets are in slots of the lap.
LEMMA SlotInLap ==
    ASSUME NEW n \in Nat, NEW num \in Nat, NEW w \in 0 .. num, NEW g \in 0 .. n,
           n - g <= num, w <= n, NEW k \in g + 1 .. n
    PROVE  Slot(k, n, num, w) \in 0 .. num - 1
  BY DEF Slot

\* The slot of a push, at the write position or at the front: it is that of no unread
\* packet, and these stay in their slots.
NextSlot(num, w) == IF w < num THEN w ELSE 0

\* It is the slot of packet n + 1; the unread packets keep theirs.
LEMMA SlotOfPush ==
    ASSUME NEW n \in Nat, NEW num \in Nat, NEW w \in 0 .. num, NEW g \in 0 .. n,
           n + 1 - g <= num, w <= n, w = n \/ w + num <= n
    PROVE  /\ NextSlot(num, w) \in 0 .. num - 1 /\ NextSlot(num, w) <= n
           /\ NextSlot(num, w) = n \/ NextSlot(num, w) + num <= n
           /\ (w < num /\ w = n) => NextSlot(num, w) = n
           /\ Slot(n + 1, n + 1, num, NextSlot(num, w) + 1) = NextSlot(num, w)
           /\ \A k \in g + 1 .. n :
                /\ Slot(k, n + 1, num, NextSlot(num, w) + 1) = Slot(k, n, num, w)
                /\ Slot(k, n, num, w) # NextSlot(num, w)
  BY DEF Slot, NextSlot

\* The packet after k is in the next slot, or k is in the last one and it in the first.
LEMMA SlotOfPop ==
    ASSUME NEW n \in Nat, NEW num \in Nat, NEW w \in 0 .. num, NEW g \in 0 .. n,
           n - g <= num, w <= n, g < n, w # 0
    PROVE  /\ g + 1 < n => \/ Slot(g + 2, n, num, w) = Slot(g + 1, n, num, w) + 1
                            \/ /\ Slot(g + 1, n, num, w) + 1 = num
                               /\ Slot(g + 2, n, num, w) = 0
           /\ g + 1 = n => Slot(g + 1, n, num, w) + 1 = w
  BY DEF Slot

\* The reader has passed at least as many packets as slots of the present lap.
LEMMA SlotNotAhead ==
    ASSUME NEW n \in Nat, NEW num \in Nat, NEW w \in 0 .. num, NEW g \in 0 .. n,
           g < n, w <= n, w = n \/ w + num <= n
    PROVE  /\ Slot(g + 1, n, num, w) <= g
           /\ w = n => Slot(g + 1, n, num, w) = g
  BY DEF Slot

\* Cells of different slots are different cells.
LEMMA CellsApart ==
    ASSUME NEW i \in Nat, NEW j \in Nat, NEW size \in Nat, i # j,
           NEW a \in 1 .. size
    PROVE  i * size + a - 1 \notin j * size .. j * size + size - 1
<1>1. CASE i < j
  BY <1>1, SlotsApart
<1>2. CASE j < i
  BY <1>2, SlotsApart
<1>3. QED
  BY <1>1, <1>2

\* A cell of a slot of the lap is in the buffer, before the end of the lap.
LEMMA CellInLap ==
    ASSUME NEW i \in Nat, NEW num \in Nat, NEW size \in Nat, i < num,
           NEW a \in 1 .. size
    PROVE  i * size \in Nat /\ i * size + a - 1 \in 0 .. num * size - 1
  BY SlotsApart

-----------------------------------------------------------------------------
(* Every action keeps the ring.                                            *)

\* There is room for a push only if a slot is free.
LEMMA PushHasSlot ==
    ASSUME NEW len \in Nat \ {0}, NEW num \in Nat, NEW w \in 0 .. num,
           Written(len, num, w), pushing = <<>>, ~NoRoom(len)
    PROVE  Stored = Len(pushed) /\ Stored + 1 - Len(got) <= num
<1> DEFINE size == len + 2
           n == Len(pushed)
           g == Len(got)
<1>1. /\ n \in Nat /\ g \in 0 .. n /\ bufSize < num * size + size
      /\ n * size + 2 * len + 2 <= g * size + bufSize
      /\ Stored = n
  BY DEF Written, NoRoom, LenSize, Stored
<1>2. SUFFICES ASSUME n - g >= num PROVE FALSE
  BY <1>1
<1>3. n - g - num \in Nat /\ (n - g - num) * size \in Nat
  BY <1>1, <1>2
<1>4. n * size = g * size + num * size + (n - g - num) * size
  BY <1>1
<1>5. n * size \in Nat /\ g * size \in Nat /\ num * size \in Nat /\ bufSize \in Nat
  BY <1>1 DEF Written
<1>6. QED
  BY <1>1, <1>3, <1>4, <1>5

\* The write position is wrapped exactly behind the last slot.
LEMMA PushWraps ==
    ASSUME NEW len \in Nat \ {0}, NEW num \in Nat, NEW w \in 0 .. num,
           Written(len, num, w)
    PROVE  /\ w < num => ~NoLengthFits(writePos) /\ ~NoPacketFits(writePos, len)
           /\ w = num => NoPacketFits(writePos, len)
<1> DEFINE size == len + 2
<1>1. /\ num * size \in Nat /\ w * size \in Nat /\ bufSize \in Nat
      /\ num * size <= bufSize /\ bufSize < num * size + size
      /\ writePos = w * size /\ size = len + 2
  BY DEF Written, LenSize
<1>2. w < num => w * size + size <= num * size
  BY SlotsApart
<1>3. QED
  BY <1>1, <1>2 DEF NoLengthFits, NoPacketFits, LenSize

\* What a push stores: its packet in slot v, whose first cell is given, and on its way
\* from slot w to the front a flag behind the last slot, at end.
PushedAt(len, num, w, v, first, end) ==
    LET size == len + 2
    IN  /\ pushing = <<>> /\ Stored = Len(pushed) /\ Stored + 1 - Len(got) <= num
        /\ v \in 0 .. num - 1 /\ first + size <= end /\ end <= bufSize
        /\ mem' \in [0 .. bufSize - 1 -> Cells]
        /\ \A p \in first .. first + size - 1 :
             mem'[p] = Cell(Len(pushed) + 1, len, p - first + 1)
        /\ \A p \in 0 .. end - 1 : p \notin first .. first + size - 1 => mem'[p] = mem[p]
        /\ (w = num \/ Flagged(end)) /\ end + 2 <= bufSize => Flagged(end)'
        /\ writePos' = (v + 1) * size
        /\ pushing' = <<[id |-> Len(pushed) + 1, len |-> len]>>

\* A push writes its packet into the next slot.
LEMMA PushStores ==
    ASSUME NEW len \in Nat \ {0}, NEW num \in Nat, NEW w \in 0 .. num,
           Written(len, num, w), PushPacket,
           NEW v \in Nat, v = NextSlot(num, w), NEW size \in Nat, size = len + 2,
           NEW first \in Nat, first = v * size, NEW end \in Nat, end = num * size
    PROVE  PushedAt(len, num, w, v, first, end)
<1> DEFINE pkt == [id |-> Len(pushed) + 1, len |-> len]
           wrap == NoLengthFits(writePos) \/ NoPacketFits(writePos, len)
           flagged == IF wrap /\ ~NoLengthFits(writePos)
                      THEN Store(mem, writePos, NoPacket) ELSE mem
           pos == IF wrap THEN 0 ELSE writePos
<1>1. /\ ~NoRoom(len) /\ mem' = Store(flagged, pos, pkt)
      /\ writePos' = pos + LenSize + len /\ pushing' = <<pkt>> /\ pushing = <<>>
  <2>1. lens \subseteq {len}
    BY DEF Written
  <2>2. QED
    BY <2>1 DEF PushPacket, LockFree
<1>2. Stored = Len(pushed) /\ Stored + 1 - Len(got) <= num
  BY <1>1, PushHasSlot
<1>3. /\ Len(pushed) \in Nat /\ Len(got) \in 0 .. Len(pushed) /\ w <= Stored
      /\ bufSize \in Nat \ {0} /\ end <= bufSize /\ bufSize < end + size
      /\ mem \in [0 .. bufSize - 1 -> Cells] /\ writePos = w * size /\ w * size \in Nat
  BY DEF Written, LenSize
<1>4. v \in 0 .. num - 1
  BY <1>2, <1>3 DEF NextSlot
<1>5. first + size <= end /\ (v + 1) * size = first + size
  BY <1>4, SlotsApart
<1>6. pos = first
  <2>1. CASE w < num
    BY <2>1, <1>3, PushWraps DEF NextSlot
  <2>2. CASE w = num
    <3>1. pos = 0 /\ v = 0
      BY <2>2, PushWraps DEF NextSlot
    <3>2. v * size = 0
      BY <3>1, <1>3, <1>4
    <3>3. QED
      BY <3>1, <3>2
  <2>3. QED
    BY <2>1, <2>2
<1>7. /\ pkt \in Packets /\ pkt.id = Len(pushed) + 1 /\ pkt.len = len
      /\ NoPacket \in Packets /\ NoPacket.len = 0 /\ NoPacket.id = 0
  BY <1>3 DEF Packets, NoPacket
<1>8. /\ flagged \in [0 .. bufSize - 1 -> Cells]
      /\ \A p \in 0 .. end - 1 : flagged[p] = mem[p]
      /\ end + 2 <= bufSize =>
            IF w = num
            THEN flagged[end] = Cell(0, EndFlag, 1) /\ flagged[end + 1] = Cell(0, EndFlag, 2)
            ELSE flagged = mem
  <2>1. CASE wrap /\ ~NoLengthFits(writePos)
    <3>1. w = num
      BY <2>1, PushWraps
    <3>2. flagged = Store(mem, end, NoPacket)
      BY <2>1, <3>1, <1>3
    <3> DEFINE with == Store(mem, end, NoPacket)
    <3>3. /\ with \in [0 .. bufSize - 1 -> Cells]
          /\ \A p \in 0 .. bufSize - 1 :
                with[p] = IF p \in end .. end + 1
                          THEN Cell(0, EndFlag, p - end + 1) ELSE mem[p]
      <4>1. end + LenSize + NoPacket.len - 1 = end + 1 /\ NoPacket.len = EndFlag
        BY <1>7 DEF LenSize, EndFlag
      <4>2. /\ Store(mem, end, NoPacket) \in [0 .. bufSize - 1 -> Cells]
            /\ \A p \in 0 .. bufSize - 1 :
                 Store(mem, end, NoPacket)[p] =
                     IF p \in end .. end + LenSize + NoPacket.len - 1
                     THEN Cell(NoPacket.id, NoPacket.len, p - end + 1) ELSE mem[p]
        <5>1. bufSize \in Nat /\ NoPacket \in Packets /\ mem \in [0 .. bufSize - 1 -> Cells]
          BY <1>3, <1>7
        <5>2. QED
          BY ONLY <5>1, end \in Nat, StoreCells
      <4>3. QED
        BY <4>1, <4>2, <1>7
    <3> HIDE DEF with, flagged
    <3>4. end + 2 <= bufSize =>
             with[end] = Cell(0, EndFlag, 1) /\ with[end + 1] = Cell(0, EndFlag, 2)
      <4>1. SUFFICES ASSUME end + 2 <= bufSize
                     PROVE  with[end] = Cell(0, EndFlag, 1) /\ with[end + 1] = Cell(0, EndFlag, 2)
        OBVIOUS
      <4>2. /\ end \in 0 .. bufSize - 1 /\ end + 1 \in 0 .. bufSize - 1
            /\ end \in end .. end + 1 /\ end + 1 \in end .. end + 1
            /\ end - end + 1 = 1 /\ (end + 1) - end + 1 = 2
        BY ONLY <4>1, <1>3, end \in Nat
      <4>3. QED
        BY <4>2, <3>3
    <3>5. \A p \in 0 .. end - 1 : with[p] = mem[p]
      BY <3>3, <1>3
    <3>6. QED
      BY <3>1, <3>2, <3>3, <3>4, <3>5 DEF with
  <2>2. CASE ~(wrap /\ ~NoLengthFits(writePos))
    <3>1. flagged = mem
      BY <2>2
    <3>2. (end + 2 <= bufSize) => w # num
      BY <2>2, <1>3, PushWraps DEF NoLengthFits, LenSize
    <3> HIDE DEF flagged
    <3>3. QED
      BY <3>1, <3>2, <1>3
  <2>3. QED
    BY <2>1, <2>2
<1> HIDE DEF flagged, pos, pkt, wrap
<1>9. /\ mem' \in [0 .. bufSize - 1 -> Cells]
      /\ \A p \in 0 .. bufSize - 1 :
             mem'[p] = IF p \in first .. first + size - 1
                       THEN Cell(Len(pushed) + 1, len, p - first + 1) ELSE flagged[p]
  <2>1. mem' = Store(flagged, first, pkt)
    BY <1>1, <1>6
  <2>2. bufSize \in Nat /\ pkt \in Packets
    BY <1>3, <1>7
  <2>3. first + LenSize + pkt.len - 1 = first + size - 1
    BY <1>7 DEF LenSize
  <2>4. /\ Store(flagged, first, pkt) \in [0 .. bufSize - 1 -> Cells]
        /\ \A p \in 0 .. bufSize - 1 :
             Store(flagged, first, pkt)[p] =
                 IF p \in first .. first + LenSize + pkt.len - 1
                 THEN Cell(pkt.id, pkt.len, p - first + 1) ELSE flagged[p]
    BY <2>2, <1>8, StoreCells
  <2>5. QED
    BY <2>1, <2>3, <2>4, <1>7
<1>10. writePos' = (v + 1) * size
  BY <1>1, <1>5, <1>6 DEF LenSize
<1>11. (w = num \/ Flagged(end)) /\ end + 2 <= bufSize => Flagged(end)'
  <2>1. SUFFICES ASSUME w = num \/ Flagged(end), end + 2 <= bufSize
                 PROVE  mem'[end] = Cell(0, EndFlag, 1) /\ mem'[end + 1] = Cell(0, EndFlag, 2)
    BY DEF Flagged
  <2>2. flagged[end] = Cell(0, EndFlag, 1) /\ flagged[end + 1] = Cell(0, EndFlag, 2)
    BY <2>1, <1>8 DEF Flagged
  <2>3. /\ end \in 0 .. bufSize - 1 /\ end \notin first .. first + size - 1
        /\ end + 1 \in 0 .. bufSize - 1 /\ end + 1 \notin first .. first + size - 1
    BY ONLY <2>1, <1>3, <1>5, first \in Nat, end \in Nat, size \in Nat
  <2>4. mem'[end] = flagged[end] /\ mem'[end + 1] = flagged[end + 1]
    BY <2>3, <1>9
  <2>5. QED
    BY <2>2, <2>4
<1>12. \A p \in first .. first + size - 1 :
          mem'[p] = Cell(Len(pushed) + 1, len, p - first + 1)
  <2>1. bufSize \in Nat /\ first + size <= end /\ end <= bufSize /\ size \in Nat
    BY <1>3, <1>5
  <2>2. QED
    BY ONLY <2>1, <1>9, first \in Nat, end \in Nat
<1>13. \A p \in 0 .. end - 1 :
          p \notin first .. first + size - 1 => mem'[p] = mem[p]
  BY <1>3, <1>8, <1>9
<1>14. pushing' = <<[id |-> Len(pushed) + 1, len |-> len]>>
  BY <1>1 DEF pkt
<1>15. QED
  BY <1>1, <1>2, <1>3, <1>4, <1>5, <1>9, <1>10, <1>11, <1>12, <1>13, <1>14 DEF PushedAt

\* A push leaves the unread packets where they are.
LEMMA PushRing ==
    ASSUME NEW len \in Nat \ {0}, NEW num \in Nat, NEW w \in 0 .. num, NEW r \in 0 .. num,
           Layout(len, num, w, r), PushPacket
    PROVE  \E x \in 0 .. num : Layout(len, num, x, r)'
<1> DEFINE v == NextSlot(num, w)
           size == len + 2
           n == Len(pushed)
           g == Len(got)
<1>1. /\ pushing = <<>> /\ Stored = n /\ n + 1 - g <= num
      /\ v \in 0 .. num - 1 /\ num * size <= bufSize
      /\ mem' \in [0 .. bufSize - 1 -> Cells]
      /\ \A p \in v * size .. v * size + size - 1 :
           mem'[p] = Cell(n + 1, len, p - v * size + 1)
      /\ \A p \in 0 .. num * size - 1 :
           p \notin v * size .. v * size + size - 1 => mem'[p] = mem[p]
      /\ (w = num \/ Flagged(num * size)) /\ num * size + 2 <= bufSize => Flagged(num * size)'
      /\ writePos' = (v + 1) * size
      /\ pushing' = <<[id |-> n + 1, len |-> len]>>
  <2>1. /\ v \in Nat /\ size \in Nat /\ v * size \in Nat /\ num * size \in Nat
        /\ v = NextSlot(num, w) /\ size = len + 2
    BY DEF NextSlot
  <2> HIDE DEF v, size
  <2>2. PICK first \in Nat, end \in Nat : first = v * size /\ end = num * size
    BY <2>1
  <2>3. PushedAt(len, num, w, v, first, end)
    BY <2>1, <2>2, PushStores DEF Layout
  <2>4. QED
    BY <2>1, <2>2, <2>3 DEF PushedAt
<1>2. /\ n \in Nat /\ g \in 0 .. n /\ w \in 0 .. num /\ w <= n
      /\ \A k \in g + 1 .. n : \A j \in 1 .. size :
           mem[Slot(k, n, num, w) * size + j - 1] = Cell(k, len, j)
      /\ w = n \/ w + num <= n
      /\ (w # n /\ num * size + 2 <= bufSize) => Flagged(num * size)
      /\ popping = <<>> /\ Len(popping) = 0 /\ Passed = g
      /\ IF g = n THEN r = w
         ELSE r = Slot(g + 1, n, num, w) \/ (r = num /\ Slot(g + 1, n, num, w) = 0)
  <2>1. popping = <<>>
    BY DEF PushPacket, LockFree
  <2>2. Len(popping) = 0
    BY <2>1
  <2>3. Len(got) \in Nat
    BY DEF Layout, Written
  <2>4. Passed = g
    BY <2>2, <2>3 DEF Passed
  <2> HIDE DEF n, g
  <2>5. n = Len(pushed) /\ g = Len(got) /\ Stored = n
    BY <1>1 DEF n, g
  <2>6. QED
    BY <2>1, <2>2, <2>4, <2>5 DEF Layout, Written, Read, LenSize
<1>3. /\ UNCHANGED <<bufSize, lens, readPos, readBytes, writeBytes, popping, peeked, pushed, got>>
      /\ Stored' = n + 1 /\ Passed' = Passed
  <2>1. UNCHANGED <<bufSize, lens, readPos, readBytes, writeBytes, popping, peeked, pushed, got>>
    BY DEF PushPacket
  <2>2. Len(pushing') = 1
    BY <1>1
  <2>3. QED
    BY <2>1, <2>2 DEF Stored, Passed
<1>4. /\ v <= n /\ (v = n \/ v + num <= n) /\ ((w < num /\ w = n) => v = n)
      /\ Slot(n + 1, n + 1, num, v + 1) = v
      /\ \A k \in g + 1 .. n : /\ Slot(k, n + 1, num, v + 1) = Slot(k, n, num, w)
                               /\ Slot(k, n, num, w) # v
                               /\ Slot(k, n, num, w) \in 0 .. num - 1
  <2>1. n - g <= num
    BY <1>1, <1>2
  <2>2. \A k \in g + 1 .. n : Slot(k, n, num, w) \in 0 .. num - 1
    BY <1>2, <2>1, SlotInLap
  <2> HIDE DEF n, g
  <2>3. n \in Nat /\ g \in 0 .. n /\ n + 1 - g <= num /\ w <= n
        /\ (w = n \/ w + num <= n)
    BY <1>1, <1>2
  <2>4. /\ NextSlot(num, w) <= n
        /\ NextSlot(num, w) = n \/ NextSlot(num, w) + num <= n
        /\ (w < num /\ w = n) => NextSlot(num, w) = n
        /\ Slot(n + 1, n + 1, num, NextSlot(num, w) + 1) = NextSlot(num, w)
        /\ \A k \in g + 1 .. n :
             /\ Slot(k, n + 1, num, NextSlot(num, w) + 1) = Slot(k, n, num, w)
             /\ Slot(k, n, num, w) # NextSlot(num, w)
    BY <2>3, SlotOfPush
  <2>5. QED
    BY <2>2, <2>4
<1> HIDE DEF v, n, g
<1>5. \A k \in g + 1 .. n + 1 : \A j \in 1 .. size :
        mem'[Slot(k, n + 1, num, v + 1) * size + j - 1] = Cell(k, len, j)
  <2> SUFFICES ASSUME NEW k \in g + 1 .. n + 1, NEW j \in 1 .. size
               PROVE  mem'[Slot(k, n + 1, num, v + 1) * size + j - 1] = Cell(k, len, j)
    OBVIOUS
  <2>1. CASE k = n + 1
    <3>1. PICK first \in Nat : first = v * size
      BY <1>1
    <3>2. mem'[first + j - 1] = Cell(n + 1, len, (first + j - 1) - first + 1)
      BY <1>1, <3>1
    <3>3. (first + j - 1) - first + 1 = j
      OBVIOUS
    <3>4. QED
      BY <2>1, <3>1, <3>2, <3>3, <1>4
  <2>2. CASE k # n + 1
    <3>1. k \in g + 1 .. n
      BY <2>2, <1>2
    <3>2. PICK i \in 0 .. num - 1 :
            i = Slot(k, n, num, w) /\ i = Slot(k, n + 1, num, v + 1) /\ i # v
      BY <3>1, <1>4
    <3>3. i \in Nat /\ v \in Nat /\ i < num /\ size \in Nat
      BY <1>1, <3>2
    <3> HIDE DEF size
    <3>4. /\ i * size + j - 1 \notin v * size .. v * size + size - 1
          /\ i * size + j - 1 \in 0 .. num * size - 1
      BY <3>2, <3>3, CellsApart, CellInLap
    <3>5. mem'[i * size + j - 1] = mem[i * size + j - 1]
      BY <3>4, <1>1
    <3>6. QED
      BY <3>1, <3>2, <3>5, <1>2
  <2>3. QED
    BY <2>1, <2>2
<1>6. g # n + 1 /\ ( \/ r = Slot(g + 1, n + 1, num, v + 1)
                     \/ r = num /\ Slot(g + 1, n + 1, num, v + 1) = 0 )
  <2>1. CASE g = n
    BY <2>1, <1>1, <1>2, <1>4 DEF v, NextSlot
  <2>2. CASE g # n
    <3>1. g + 1 \in g + 1 .. n /\ g # n + 1
      BY <2>2, <1>2
    <3>2. Slot(g + 1, n + 1, num, v + 1) = Slot(g + 1, n, num, w)
      BY <3>1, <1>4
    <3>3. r = Slot(g + 1, n, num, w) \/ (r = num /\ Slot(g + 1, n, num, w) = 0)
      BY <2>2, <1>2
    <3>4. QED
      BY <3>1, <3>2, <3>3
  <2>3. QED
    BY <2>1, <2>2
<1>7. (v + 1 # n + 1 /\ num * size + 2 <= bufSize) => Flagged(num * size)'
  <2>1. CASE w = num
    BY <2>1, <1>1
  <2>2. CASE w < num
    BY <2>2, <1>1, <1>2, <1>4
  <2>3. QED
    BY <2>1, <2>2, <1>2
<1>8. Written(len, num, v + 1)'
  <2>1. Written(len, num, w)
    BY DEF Layout
  <2>2. /\ (Stored - Len(got) <= num)' /\ v + 1 <= Stored' /\ v + 1 # 0
        /\ (Len(got) \in 0 .. Len(pushed))' /\ (v + 1 = Stored' \/ v + 1 + num <= Stored')
    BY <1>1, <1>2, <1>3, <1>4 DEF n, g
  <2>3. QED
    BY <1>1, <1>3, <1>5, <1>7, <2>1, <2>2 DEF Written, LenSize, n, g
<1>9. Read(len, num, v + 1, r)'
  <2>1. Read(len, num, w, r)
    BY DEF Layout
  <2>2. Passed' = g /\ popping' = <<>> /\ Len(popping') = 0
    BY <1>2, <1>3
  <2>3. QED
    BY <1>2, <1>3, <1>6, <2>1, <2>2 DEF Read, LenSize, n, g
<1>10. v + 1 \in 0 .. num
  BY <1>1
<1>11. QED
  BY <1>8, <1>9, <1>10 DEF Layout

\* The first n packets and one more are the first n + 1.
LEMMA NumberedNext ==
    ASSUME NEW n \in Nat, NEW len \in Nat
    PROVE  /\ Numbered(n, len) \in Seq(Packets) /\ Len(Numbered(n, len)) = n
           /\ Append(Numbered(n, len), [id |-> n + 1, len |-> len]) = Numbered(n + 1, len)
           /\ Numbered(n, len) \o <<[id |-> n + 1, len |-> len]>> = Numbered(n + 1, len)
<1>1. \A k \in 1 .. n : [id |-> k, len |-> len] \in Packets
  BY DEF Packets
<1>2. Numbered(n, len) \in Seq(Packets) /\ Len(Numbered(n, len)) = n
  BY <1>1 DEF Numbered
<1>3. Append(Numbered(n, len), [id |-> n + 1, len |-> len]) = Numbered(n + 1, len)
  BY <1>2 DEF Numbered
<1>4. Numbered(n, len) \o <<[id |-> n + 1, len |-> len]>>
          = Append(Numbered(n, len), [id |-> n + 1, len |-> len])
  BY <1>2
<1>5. QED
  BY <1>2, <1>3, <1>4

\* A packet that is stored becomes one that is counted, in the same slot.
LEMMA PushCountedRing ==
    ASSUME NEW len \in Nat \ {0}, NEW num \in Nat, NEW w \in 0 .. num, NEW r \in 0 .. num,
           Layout(len, num, w, r), PushCounted
    PROVE  Layout(len, num, w, r)'
<1> DEFINE n == Len(pushed)
           pkt == [id |-> n + 1, len |-> len]
           size == len + 2
<1>1. /\ pushing = <<pkt>> /\ n \in Nat /\ pushed = Numbered(n, len)
      /\ writeBytes = n * size /\ Len(got) \in 0 .. n
  BY DEF Layout, Written, PushCounted, LenSize
<1>2. pushing[1] = pkt /\ pkt.len = len /\ Len(pushing) = 1
  BY <1>1
<1>3. pushed' = Numbered(n + 1, len) /\ Len(pushed') = n + 1
  <2>1. pushed' = Numbered(n, len) \o <<pkt>>
    BY <1>1 DEF PushCounted
  <2> HIDE DEF n
  <2>2. n \in Nat /\ n + 1 \in Nat
    BY <1>1
  <2>3. /\ Numbered(n, len) \o <<pkt>> = Numbered(n + 1, len)
        /\ Len(Numbered(n + 1, len)) = n + 1
    BY <2>2, NumberedNext
  <2>4. QED
    BY <2>1, <2>3
<1>4. pushing' = <<>> /\ Len(pushing') = 0
  BY DEF PushCounted
<1>5. writeBytes' = (n + 1) * size
  <2>1. writeBytes' = n * size + size
    BY <1>1, <1>2 DEF PushCounted, Counted, LenSize
  <2>2. QED
    BY <2>1, <1>1
<1>6. Stored' = Stored /\ Stored = n + 1
  BY <1>1, <1>2, <1>3, <1>4 DEF Stored
<1>7. UNCHANGED <<bufSize, lens, mem, readPos, writePos, readBytes, popping, peeked, got>>
  BY DEF PushCounted
<1>8. /\ Len(got)' \in 0 .. Len(pushed)'
      /\ peeked' # NotPeeked => Len(got)' < Len(pushed)'
  BY <1>1, <1>3, <1>7 DEF Layout, Read
<1> HIDE DEF n, pkt
<1>9. n + 1 \in Nat
  BY <1>1
<1>10. Written(len, num, w)'
  <2>1. Written(len, num, w)
    BY DEF Layout
  <2>2. Flagged(num * size)' = Flagged(num * size)
    BY <1>7 DEF Flagged
  <2>3. QED
    BY <1>3, <1>4, <1>5, <1>6, <1>7, <1>8, <1>9, <2>1, <2>2 DEF Written, LenSize
<1>11. popping = <<>> /\ pushing # <<>>
  BY <1>1 DEF Layout, Read, PushCounted
<1>12. Read(len, num, w, r)'
  BY <1>6, <1>7, <1>8, <1>11 DEF Layout, Read, Passed
<1>13. QED
  BY <1>10, <1>12 DEF Layout

\* The next packet is in slot s, in the buffer.
HoldsNext(len, num, w, s, size) ==
    /\ Stored \in Nat /\ Len(got) \in 0 .. Stored - 1
    /\ s \in 0 .. num - 1 /\ s <= Len(got) /\ (w = Stored => s = Len(got))
    /\ s * size \in Nat /\ num * size \in Nat
    /\ s * size + size <= num * size /\ num * size <= bufSize
    /\ \A j \in 1 .. size : mem[s * size + j - 1] = Cell(Len(got) + 1, len, j)

\* The slot of the next packet is in the buffer, and the packet in it.
LEMMA SlotHoldsNext ==
    ASSUME NEW len \in Nat \ {0}, NEW num \in Nat, NEW w \in 0 .. num,
           Written(len, num, w), Len(got) < Len(pushed),
           NEW s, s = Slot(Len(got) + 1, Stored, num, w),
           NEW size \in Nat, size = len + 2
    PROVE  HoldsNext(len, num, w, s, size)
<1> DEFINE g == Len(got)
           n == Stored
<1>1. /\ Len(pushed) \in Nat /\ g \in 0 .. Len(pushed)
      /\ n - g <= num /\ w <= n /\ num * size \in Nat /\ num * size <= bufSize
      /\ w = n \/ w + num <= n
      /\ \A k \in g + 1 .. n : \A j \in 1 .. size :
           mem[Slot(k, n, num, w) * size + j - 1] = Cell(k, len, j)
  BY DEF Written, LenSize
<1>2. n \in Nat /\ Len(pushed) <= n
  <2>1. Len(pushing) \in {0, 1}
    BY DEF Written
  <2>2. QED
    BY <2>1, <1>1 DEF Stored
<1>3. g < n
  BY <1>1, <1>2
<1> HIDE DEF g, n
<1>4. s = Slot(g + 1, n, num, w)
  BY DEF g, n
<1>5. s \in 0 .. num - 1 /\ g + 1 \in g + 1 .. n
  <2>1. g + 1 \in g + 1 .. n /\ g \in 0 .. n
    BY <1>1, <1>2, <1>3
  <2>2. Slot(g + 1, n, num, w) \in 0 .. num - 1
    BY <2>1, <1>1, <1>2, SlotInLap
  <2>3. QED
    BY <1>4, <2>1, <2>2
<1>6. s <= g /\ (w = n => s = g)
  BY <1>1, <1>2, <1>3, <1>4, SlotNotAhead
<1>7. s * size \in Nat /\ s * size + size <= num * size
  <2>1. s \in Nat /\ s < num
    BY <1>5
  <2>2. QED
    BY ONLY <2>1, SlotsApart, num \in Nat, size \in Nat
<1>8. \A j \in 1 .. size : mem[s * size + j - 1] = Cell(g + 1, len, j)
  BY <1>1, <1>4, <1>5
<1>9. g \in 0 .. n - 1
  BY <1>1, <1>2, <1>3
<1>10. QED
  BY <1>1, <1>2, <1>5, <1>6, <1>7, <1>8, <1>9 DEF HoldsNext, g, n

\* Two bytes that are the length of a packet or END_FLAG are read as such.
LEMMA LengthRead ==
    ASSUME NEW pos \in Nat, NEW id, NEW len, NEW size \in Nat, bufSize \in Nat,
           size >= 2, pos + size <= bufSize,
           mem[pos] = Cell(id, len, 1), mem[pos + 1] = Cell(id, len, 2)
    PROVE  LengthsAt(pos) = {len} /\ ~NoLengthFits(pos)
<1>1. ~NoLengthFits(pos)
  BY DEF NoLengthFits, LenSize
<1>2. mem[pos].at = 1 /\ mem[pos].len = len /\ [mem[pos] EXCEPT !.at = 2] = Cell(id, len, 2)
  BY DEF Cell
<1>3. QED
  BY <1>1, <1>2 DEF LengthsAt

\* The reader finds the next packet in its slot, behind a flag or the end if need be.
LEMMA NextInSlot ==
    ASSUME NEW len \in Nat \ {0}, NEW num \in Nat, NEW w \in 0 .. num, NEW r \in 0 .. num,
           Layout(len, num, w, r), readBytes < writeBytes, popping = <<>>,
           NEW s, s = Slot(Len(got) + 1, Stored, num, w),
           NEW size \in Nat, size = len + 2
    PROVE  /\ Len(got) < Len(pushed) /\ s \in 0 .. num - 1 /\ s <= Len(got)
           /\ Len(got) \in 0 .. Stored - 1 /\ Passed = Len(got)
           /\ NextPacket = {<<s * size, len>>}
<1>1. Written(len, num, w) /\ Read(len, num, w, r)
  BY DEF Layout
<1>2. Len(got) < Len(pushed)
  <2>1. PICK g \in Nat, n \in Nat : g = Len(got) /\ n = Len(pushed)
    BY <1>1 DEF Written
  <2>2. readBytes = g * size /\ writeBytes = n * size
    BY <1>1, <2>1 DEF Written, LenSize
  <2>3. g >= n => g * size >= n * size
    <3>1. SUFFICES ASSUME g >= n PROVE g * size >= n * size
      OBVIOUS
    <3>2. g - n \in Nat /\ (g - n) * size \in Nat /\ g * size = n * size + (g - n) * size
      BY <3>1
    <3>3. n * size \in Nat
      OBVIOUS
    <3>4. QED
      BY <3>2, <3>3
  <2>4. g * size \in Nat /\ n * size \in Nat
    OBVIOUS
  <2>5. QED
    BY <2>1, <2>2, <2>3, <2>4
<1>3. /\ Stored \in Nat /\ Len(got) \in 0 .. Stored - 1
      /\ s \in 0 .. num - 1 /\ s <= Len(got) /\ (w = Stored => s = Len(got))
      /\ s * size \in Nat /\ num * size \in Nat
      /\ s * size + size <= num * size /\ num * size <= bufSize
      /\ \A j \in 1 .. size : mem[s * size + j - 1] = Cell(Len(got) + 1, len, j)
  <2>1. HoldsNext(len, num, w, s, size)
    BY <1>1, <1>2, SlotHoldsNext
  <2>2. QED
    BY <2>1 DEF HoldsNext
<1>4. Passed = Len(got) /\ Len(popping) = 0
  BY <1>3 DEF Passed
<1>5. /\ readPos = r * size /\ r <= Len(got)
      /\ r = s \/ (r = num /\ s = 0)
  <2>1. Passed # Stored
    BY <1>3, <1>4
  <2>2. readPos = r * size + 0
    BY <1>1, <1>4 DEF Read, LenSize
  <2>3. r * size \in Nat
    OBVIOUS
  <2>4. QED
    BY <1>1, <1>4, <2>1, <2>2, <2>3 DEF Read
<1>6. PICK first \in Nat, end \in Nat :
        /\ first = s * size /\ end = num * size
        /\ first + size <= end /\ end <= bufSize /\ bufSize \in Nat /\ size >= 3
  <2>1. bufSize \in Nat
    BY <1>1 DEF Written
  <2>2. size >= 3
    OBVIOUS
  <2>3. QED
    BY <2>1, <2>2, <1>3
<1>7. LengthsAt(first) = {len} /\ ~NoLengthFits(first)
  <2>1. mem[first] = Cell(Len(got) + 1, len, 1) /\ mem[first + 1] = Cell(Len(got) + 1, len, 2)
    <3>1. 1 \in 1 .. size /\ 2 \in 1 .. size /\ first + 1 - 1 = first /\ first + 2 - 1 = first + 1
      BY <1>6
    <3>2. QED
      BY <1>3, <1>6, <3>1
  <2>2. first + size <= bufSize
    BY <1>6
  <2>3. size >= 2 /\ bufSize \in Nat
    BY <1>6
  <2>4. QED
    BY <2>1, <2>2, <2>3, LengthRead
<1>8. readPos = first \/ (readPos = end /\ first = 0 /\ w # Stored)
  <2>1. CASE r = s
    BY <2>1, <1>5, <1>6
  <2>2. CASE r = num /\ s = 0
    <3>1. s # Len(got)
      BY <2>2, <1>3, <1>5
    <3>2. first = 0
      BY <2>2, <1>6
    <3>3. QED
      BY <2>2, <3>1, <3>2, <1>3, <1>5, <1>6
  <2>3. QED
    BY <2>1, <2>2, <1>5
<1>9. NextPacket = {<<first, len>>}
  <2>1. CASE FirstPos = first
    BY <2>1, <1>7 DEF NextPacket, EndFlag
  <2>2. CASE FirstPos # first
    <3>1. readPos = end /\ first = 0 /\ ~NoLengthFits(end) /\ FirstPos = end /\ w # Stored
      BY <2>2, <1>7, <1>8 DEF FirstPos
    <3>2. end + 2 <= bufSize
      BY <3>1, <1>6 DEF NoLengthFits, LenSize
    <3>3. Flagged(end)
      BY <1>1, <1>6, <3>1, <3>2 DEF Written, LenSize
    <3>4. LengthsAt(end) = {EndFlag}
      BY <1>6, <3>2, <3>3, 2 \in Nat, 2 >= 2, LengthRead DEF Flagged
    <3>5. NextPacket = {<<0, len>>}
      BY <3>1, <3>4, <1>7 DEF NextPacket
    <3>6. QED
      BY <3>1, <3>5
  <2>3. QED
    BY <2>1, <2>2
<1>10. QED
  BY <1>2, <1>3, <1>4, <1>6, <1>9

\* The packet after Passed is the one behind the slot just read, or the first of a lap.
LEMMA PassedOne ==
    ASSUME NEW n \in Nat, NEW num \in Nat, NEW w \in 0 .. num, NEW g \in 0 .. n - 1,
           n - g <= num, w <= n, w # 0, NEW s, s = Slot(g + 1, n, num, w)
    PROVE  IF g + 1 = n THEN s + 1 = w
           ELSE \/ s + 1 = Slot(g + 1 + 1, n, num, w)
                \/ s + 1 = num /\ Slot(g + 1 + 1, n, num, w) = 0
<1>1. g \in 0 .. n /\ g < n /\ g + 1 + 1 = g + 2
  OBVIOUS
<1>2. /\ g + 1 < n => \/ Slot(g + 2, n, num, w) = Slot(g + 1, n, num, w) + 1
                       \/ /\ Slot(g + 1, n, num, w) + 1 = num
                          /\ Slot(g + 2, n, num, w) = 0
      /\ g + 1 = n => Slot(g + 1, n, num, w) + 1 = w
  BY <1>1, SlotOfPop
<1>3. QED
  BY <1>1, <1>2

\* Reading the length of a packet moves the reader behind it, in the packet's slot.
LEMMA PopPacketRing ==
    ASSUME NEW len \in Nat \ {0}, NEW num \in Nat, NEW w \in 0 .. num, NEW r \in 0 .. num,
           Layout(len, num, w, r), PopPacket
    PROVE  \E x \in 0 .. num : Layout(len, num, w, x)'
<1> DEFINE size == len + 2
<1>1. PICK s \in 0 .. num - 1 :
      /\ s = Slot(Len(got) + 1, Stored, num, w)
      /\ Len(got) < Len(pushed) /\ s <= Len(got)
      /\ Len(got) \in 0 .. Stored - 1 /\ Passed = Len(got)
      /\ NextPacket = {<<s * size, len>>}
  <2>1. readBytes < writeBytes /\ popping = <<>> /\ size \in Nat
    BY DEF PopPacket, LockFree
  <2>2. QED
    BY <2>1, NextInSlot
<1>2. /\ readPos' = s * size + LenSize /\ popping' = <<len>> /\ pushing = <<>>
      /\ UNCHANGED <<bufSize, lens, mem, writePos, readBytes, writeBytes, pushing, pushed, got>>
      /\ peeked' = NotPeeked
  BY <1>1 DEF PopPacket, LockFree
<1>3. /\ Len(popping') = 1 /\ Stored' = Stored /\ Passed' = Len(got) /\ Passed # Stored
  BY <1>1, <1>2 DEF Stored, Passed
<1>4. Written(len, num, w)'
  BY <1>2, <1>3 DEF Layout, Written, Flagged
<1>5. Read(len, num, w, s)'
  BY <1>1, <1>2, <1>3 DEF Read, LenSize
<1>6. s \in 0 .. num
  BY <1>1
<1>7. Layout(len, num, w, s)'
  BY <1>4, <1>5 DEF Layout
<1>8. QED
  BY <1>6, <1>7

\* Copying it moves the reader behind its slot.
LEMMA PopCopiedRing ==
    ASSUME NEW len \in Nat \ {0}, NEW num \in Nat, NEW w \in 0 .. num, NEW r \in 0 .. num,
           Layout(len, num, w, r), PopCopied
    PROVE  \E x \in 0 .. num : Layout(len, num, w, x)'
<1> DEFINE size == len + 2
<1>1. /\ popping = <<len>> /\ Len(popping) = 1 /\ popping[1] = len /\ pushing = <<>>
      /\ Len(got) < Len(pushed) /\ peeked = NotPeeked
      /\ readPos = r * size + 2 /\ Passed = Len(got) /\ r = Slot(Len(got) + 1, Stored, num, w)
  <2>1. Len(popping) = 1 /\ popping = <<len>>
    <3>1. Len(popping) = 1
      BY DEF PopCopied
    <3>2. popping # <<>> /\ \A a, b : popping # <<a, b>>
      BY <3>1, InHand
    <3>3. QED
      BY <3>1, <3>2 DEF Layout, Read
  <2>2. Passed = Len(got)
    BY <2>1 DEF Passed, Layout, Written
  <2>3. QED
    BY <2>1, <2>2 DEF Layout, Read, LenSize
<1>2. /\ Stored \in Nat /\ Len(got) \in 0 .. Stored - 1
      /\ r \in 0 .. num - 1 /\ r <= Len(got) /\ r * size \in Nat
      /\ r * size + size <= num * size /\ num * size <= bufSize
      /\ \A j \in 1 .. size : mem[r * size + j - 1] = Cell(Len(got) + 1, len, j)
  <2>1. size \in Nat /\ Written(len, num, w)
    BY DEF Layout
  <2> HIDE DEF size
  <2>2. size = len + 2
    BY DEF size
  <2>3. HoldsNext(len, num, w, r, size)
    BY <2>1, <2>2, <1>1, SlotHoldsNext
  <2>4. QED
    BY <2>3 DEF HoldsNext
<1>3. PacketAt(readPos, len) = [id |-> Len(got) + 1, len |-> len]
  <2>1. PICK first \in Nat : first = r * size
    BY <1>2
  <2>2. \A k \in 1 .. len : mem[first + 2 + k - 1] = Cell(Len(got) + 1, len, 2 + k)
    <3>1. \A k \in 1 .. len : k + 2 \in 1 .. size /\ first + (k + 2) - 1 = first + 2 + k - 1
                              /\ k + 2 = 2 + k
      BY <2>1
    <3>2. QED
      BY <3>1, <2>1, <1>2
  <2>3. mem[first + 2].id = Len(got) + 1
    <3>1. 1 \in 1 .. len /\ first + 2 + 1 - 1 = first + 2
      BY <2>1
    <3>2. mem[first + 2] = Cell(Len(got) + 1, len, 2 + 1)
      BY <2>2, <3>1
    <3>3. QED
      BY <3>2 DEF Cell
  <2>4. first + 2 + len <= bufSize /\ bufSize \in Nat
    <3>1. num * size \in Nat /\ bufSize \in Nat
      BY DEF Layout, Written
    <3> HIDE DEF size
    <3>2. size = len + 2
      BY DEF size
    <3>3. QED
      BY <3>1, <3>2, <2>1, <1>2
  <2>5. first + 2 < bufSize /\ \A k \in 1 .. len : first + 2 + k <= bufSize
    BY <2>1, <2>4
  <2>6. readPos = first + 2
    BY <1>1, <2>1
  <2>7. QED
    BY <2>2, <2>3, <2>5, <2>6 DEF PacketAt, LenSize
<1>4. /\ popping' = <<len, [id |-> Len(got) + 1, len |-> len]>> /\ Len(popping') = 2
      /\ readPos' = (r + 1) * size
      /\ UNCHANGED <<bufSize, lens, mem, writePos, readBytes, writeBytes, pushing, peeked,
                     pushed, got>>
  <2>1. popping' = <<len, [id |-> Len(got) + 1, len |-> len]>>
    BY <1>1, <1>3 DEF PopCopied
  <2>2. readPos' = r * size + 2 + len
    BY <1>1 DEF PopCopied
  <2>3. (r + 1) * size = r * size + size /\ r * size \in Nat
    BY <1>2
  <2>4. UNCHANGED <<bufSize, lens, mem, writePos, readBytes, writeBytes, pushing, peeked,
                     pushed, got>>
    BY DEF PopCopied
  <2>5. readPos' = (r + 1) * size
    BY <2>2, <2>3
  <2>6. /\ popping' = <<len, [id |-> Len(got) + 1, len |-> len]>> /\ Len(popping') = 2
    BY <2>1, InHand
  <2>7. QED
    BY <2>4, <2>5, <2>6
<1>5. Stored' = Stored /\ Passed' = Len(got) + 1
  BY <1>2, <1>4 DEF Stored, Passed
<1>6. IF Len(got) + 1 = Stored THEN r + 1 = w
      ELSE \/ r + 1 = Slot(Len(got) + 1 + 1, Stored, num, w)
           \/ r + 1 = num /\ Slot(Len(got) + 1 + 1, Stored, num, w) = 0
  <2>1. Stored - Len(got) <= num /\ w <= Stored /\ w # 0
    BY <1>2 DEF Layout, Written
  <2>2. num \in Nat /\ w \in 0 .. num /\ Stored \in Nat /\ Len(got) \in 0 .. Stored - 1
    BY <1>2
  <2> DEFINE n == Stored
             g == Len(got)
  <2>3. n - g <= num /\ w <= n /\ w # 0 /\ n \in Nat /\ g \in 0 .. n - 1
        /\ r = Slot(g + 1, n, num, w)
    BY <2>1, <2>2, <1>1
  <2> HIDE DEF n, g
  <2>4. IF g + 1 = n THEN r + 1 = w
        ELSE \/ r + 1 = Slot(g + 1 + 1, n, num, w)
             \/ r + 1 = num /\ Slot(g + 1 + 1, n, num, w) = 0
    BY <2>2, <2>3, PassedOne
  <2>5. QED
    BY <2>4 DEF n, g
<1>7. Written(len, num, w)'
  BY <1>4, <1>5 DEF Layout, Written, Flagged
<1>8. Read(len, num, w, r + 1)'
  <2>1. (r + 1) * size + 0 = (r + 1) * size
    BY <1>2
  <2>2. /\ popping' \in {<<>>, <<len>>, <<len, [id |-> Len(got') + 1, len |-> len]>>}
        /\ pushing' = <<>> /\ Len(got') < Len(pushed') /\ peeked' = NotPeeked
        /\ Len(popping') = 2
    BY <1>1, <1>4
  <2>3. readPos' = (r + 1) * size + (IF Len(popping') = 1 THEN LenSize ELSE 0)
    BY <1>4, <2>1, <2>2
  <2>4. r + 1 <= Passed'
    BY <1>2, <1>5
  <2>5. QED
    BY <1>5, <1>6, <2>2, <2>3, <2>4 DEF Read, LenSize
<1>9. r + 1 \in 0 .. num
  BY <1>2
<1>10. QED
  BY <1>7, <1>8, <1>9 DEF Layout

\* What has been copied is counted.
LEMMA PopCountedRing ==
    ASSUME NEW len \in Nat \ {0}, NEW num \in Nat, NEW w \in 0 .. num, NEW r \in 0 .. num,
           Layout(len, num, w, r), PopCounted
    PROVE  Layout(len, num, w, r)'
<1> DEFINE size == len + 2
           g == Len(got)
           pkt == [id |-> g + 1, len |-> len]
<1>1. /\ popping = <<len, pkt>> /\ popping[1] = len /\ popping[2] = pkt /\ pushing = <<>>
      /\ g < Len(pushed) /\ peeked = NotPeeked /\ Len(popping) = 2
  <2>1. Len(popping) = 2 /\ popping = <<len, pkt>>
    <3>1. Len(popping) = 2
      BY DEF PopCounted
    <3>2. popping # <<>> /\ popping # <<len>>
      BY <3>1, InHand
    <3>3. QED
      BY <3>1, <3>2 DEF Layout, Read
  <2>2. popping[1] = len /\ popping[2] = pkt /\ popping # <<>>
    BY <2>1, InHand
  <2>3. QED
    BY <2>1, <2>2 DEF Layout, Read
<1>2. g \in Nat /\ got = Numbered(g, len) /\ readBytes = g * size /\ Len(pushed) \in Nat
  BY DEF Layout, Written, LenSize
<1>3. /\ UNCHANGED <<bufSize, lens, mem, readPos, writePos, writeBytes, pushing, peeked, pushed>>
      /\ popping' = <<>> /\ Len(popping') = 0 /\ Stored' = Stored
  BY DEF PopCounted, Stored
<1>4. readBytes' = (g + 1) * size
  <2>1. readBytes' = g * size + len + 2
    BY <1>1, <1>2 DEF PopCounted, LenSize
  <2>2. (g + 1) * size = g * size + size /\ g * size \in Nat
    BY <1>2
  <2>3. QED
    BY <2>1, <2>2
<1>5. got' = Numbered(g + 1, len) /\ Len(got') = g + 1
  <2>1. got' = Append(Numbered(g, len), pkt)
    BY <1>1, <1>2 DEF PopCounted
  <2> HIDE DEF g
  <2>2. g \in Nat /\ g + 1 \in Nat
    BY <1>2
  <2>3. /\ Append(Numbered(g, len), pkt) = Numbered(g + 1, len)
        /\ Len(Numbered(g + 1, len)) = g + 1
    BY <2>2, NumberedNext
  <2>4. QED
    BY <2>1, <2>3
<1> HIDE DEF g, pkt
<1>6. Passed = g + 1 /\ Passed' = Passed
  BY <1>1, <1>2, <1>3, <1>5 DEF Passed, g
<1>7. Stored \in Nat /\ g + 1 <= Len(pushed)
  BY <1>1, <1>2 DEF Stored
<1>8. Written(len, num, w)'
  <2>1. \A k \in g + 1 + 1 .. Stored : k \in g + 1 .. Stored
    BY <1>2, <1>7
  <2>2. \A k \in g + 1 + 1 .. Stored : \A j \in 1 .. size :
           mem[Slot(k, Stored, num, w) * size + j - 1] = Cell(k, len, j)
    BY <2>1 DEF Layout, Written, LenSize, g
  <2>3. /\ (Len(got) \in 0 .. Len(pushed))' /\ (Stored - Len(got) <= num)'
    <3>1. Stored - g <= num
      BY DEF Layout, Written, g
    <3>2. QED
      BY <3>1, <1>2, <1>3, <1>5, <1>7
  <2>4. Written(len, num, w)
    BY DEF Layout
  <2>5. Flagged(num * size)' = Flagged(num * size)
    BY <1>3 DEF Flagged
  <2>6. readBytes' = Len(got') * size /\ got' = Numbered(Len(got'), len)
    BY <1>4, <1>5
  <2>7. \A k \in Len(got') + 1 .. Stored' : \A j \in 1 .. size :
           mem'[Slot(k, Stored', num, w) * size + j - 1] = Cell(k, len, j)
    BY <1>3, <1>5, <2>2
  <2> HIDE DEF size
  <2>8. size = len + LenSize
    BY DEF size, LenSize
  <2>9. QED
    BY <1>3, <2>3, <2>4, <2>5, <2>6, <2>7, <2>8 DEF Written
<1>9. Read(len, num, w, r)'
  <2>1. Read(len, num, w, r) /\ Len(popping) # 1 /\ Len(popping') # 1
    BY <1>1, <1>3 DEF Layout
  <2>2. readPos' = r * (len + LenSize) + (IF Len(popping') = 1 THEN LenSize ELSE 0)
    BY <1>3, <2>1 DEF Read
  <2>3. peeked' \in {NotPeeked, len} /\ peeked' = NotPeeked
    BY <1>1, <1>3
  <2>4. QED
    BY <1>3, <1>6, <2>1, <2>2, <2>3 DEF Read, LenSize
<1>10. QED
  BY <1>8, <1>9 DEF Layout

\* A peek moves the reader to the slot of the next packet, over a flag or the end.
LEMMA PeekRing ==
    ASSUME NEW len \in Nat \ {0}, NEW num \in Nat, NEW w \in 0 .. num, NEW r \in 0 .. num,
           Layout(len, num, w, r), PeekNextPackLen
    PROVE  \E x \in 0 .. num : Layout(len, num, w, x)'
<1> DEFINE size == len + 2
<1>1. PICK s \in 0 .. num - 1 :
      /\ s = Slot(Len(got) + 1, Stored, num, w)
      /\ Len(got) < Len(pushed) /\ s <= Len(got)
      /\ Len(got) \in 0 .. Stored - 1 /\ Passed = Len(got)
      /\ NextPacket = {<<s * size, len>>}
  <2>1. readBytes < writeBytes /\ popping = <<>> /\ size \in Nat
    BY DEF PeekNextPackLen
  <2>2. QED
    BY <2>1, NextInSlot
<1>2. /\ readPos' = s * size /\ peeked' = len /\ popping = <<>> /\ Len(popping) = 0
      /\ UNCHANGED <<bufSize, lens, mem, writePos, readBytes, writeBytes, pushing, popping,
                     pushed, got>>
  BY <1>1 DEF PeekNextPackLen
<1>3. Stored' = Stored /\ Passed' = Len(got) /\ Passed # Stored
  <2>1. Stored' = Stored /\ Passed' = Passed
    BY <1>2 DEF Stored, Passed
  <2>2. QED
    BY <2>1, <1>1
<1>4. Written(len, num, w)'
  BY <1>2, <1>3 DEF Layout, Written, Flagged
<1>5. Read(len, num, w, s)'
  <2>1. s * size + 0 = s * size
    BY <1>1
  <2>2. QED
    BY <1>1, <1>2, <1>3, <2>1 DEF Read, LenSize
<1>6. s \in 0 .. num
  BY <1>1
<1>7. Layout(len, num, w, s)'
  BY <1>4, <1>5 DEF Layout
<1>8. QED
  BY <1>6, <1>7

\* Nothing is left behind by Reset, unless a push or a pop is under way.
LEMMA ResetRing ==
    ASSUME NEW len \in Nat \ {0}, NEW num \in Nat, NEW w \in 0 .. num, NEW r \in 0 .. num,
           Layout(len, num, w, r), Reset, LockFree
    PROVE  Layout(len, num, 0, 0)'
<1> DEFINE size == len + 2
<1>1. /\ readPos' = 0 /\ writePos' = 0 /\ readBytes' = 0 /\ writeBytes' = 0
      /\ peeked' = NotPeeked /\ pushed' = <<>> /\ got' = <<>> /\ pushing' = <<>>
      /\ popping' = <<>> /\ UNCHANGED <<bufSize, lens, mem>>
  BY DEF Reset, LockFree
<1>2. Len(pushed') = 0 /\ Len(got') = 0 /\ Len(popping') = 0 /\ Stored' = 0 /\ Passed' = 0
  BY <1>1 DEF Stored, Passed
<1>3. Numbered(0, len) = <<>>
  BY DEF Numbered
<1>4. 0 * size = 0
  OBVIOUS
<1>5. Written(len, num, 0)'
  BY <1>1, <1>2, <1>3, <1>4 DEF Layout, Written, LenSize
<1>6. Read(len, num, 0, 0)'
  BY <1>1, <1>2, <1>4 DEF Read, LenSize
<1>7. QED
  BY <1>5, <1>6 DEF Layout

\* Of an empty buffer, every slot is free.
LEMMA InitRing == Init => Ring
<1> SUFFICES ASSUME Init, Uniform
             PROVE  \E len \in Nat \ {0}, num \in Nat :
                        \E w \in 0 .. num, r \in 0 .. num : Layout(len, num, w, r)
  BY DEF Ring
<1>1. lens \subseteq Nat /\ bufSize \in Nat \ {0}
  BY QueueAssumption DEF Init
<1>2. PICK len \in Nat \ {0} : lens \subseteq {len}
  <2>1. CASE lens = {}
    <3>1. 1 \in Nat \ {0} /\ lens \subseteq {1}
      BY <2>1
    <3>2. QED
      BY <3>1
  <2>2. CASE lens # {}
    <3>1. PICK len \in lens : TRUE
      BY <2>2
    <3>2. len \in Nat \ {0} /\ lens \subseteq {len}
      BY <1>1 DEF Uniform
    <3>3. QED
      BY <3>2
  <2>3. QED
    BY <2>1, <2>2
<1> DEFINE size == len + 2
<1>3. PICK num \in Nat : num * size <= bufSize /\ bufSize < num * size + size
  <2>1. size \in Nat \ {0} /\ bufSize \in Nat
    BY <1>1
  <2> HIDE DEF size
  <2>2. QED
    BY <2>1, SlotsOfBuffer
<1>4. mem \in [0 .. bufSize - 1 -> Cells]
  <2>1. Cell(0, EndFlag, 0) \in Cells
    BY DEF Cell, Cells, EndFlag
  <2>2. QED
    BY <2>1 DEF Init
<1>5. /\ readPos = 0 /\ writePos = 0 /\ readBytes = 0 /\ writeBytes = 0
      /\ peeked = NotPeeked /\ pushed = <<>> /\ got = <<>> /\ pushing = <<>> /\ popping = <<>>
      /\ Len(pushed) = 0 /\ Len(got) = 0 /\ Stored = 0 /\ Passed = 0 /\ Len(popping) = 0
      /\ Numbered(0, len) = <<>> /\ 0 * size = 0
  BY DEF Init, Stored, Passed, Numbered
<1>6. Written(len, num, 0) /\ Read(len, num, 0, 0)
  BY <1>1, <1>2, <1>3, <1>4, <1>5 DEF Written, Read, LenSize
<1>7. QED
  BY <1>6 DEF Layout

\* Every step keeps the ring.
LEMMA NextIsRing == Ring /\ [Next]_vars => Ring'
<1> SUFFICES ASSUME Ring, [Next]_vars, Uniform'
             PROVE  (\E len \in Nat \ {0}, num \in Nat :
                        \E w \in 0 .. num, r \in 0 .. num : Layout(len, num, w, r))'
  BY DEF Ring
<1>1. Uniform /\ lens' = lens
  <2>1. lens' = lens
    BY DEF Next, vars, PushPacket, PushCounted, PopPacket, PopCopied, PopCounted,
              PeekNextPackLen, Reset
  <2>2. raced' = raced \/ raced' = (raced \/ ~LockFree)
    BY Zenon DEF Next, vars, PushPacket, PushCounted, PopPacket, PopCopied, PopCounted,
              PeekNextPackLen, Reset
  <2>3. ~raced
    BY <2>2, Zenon DEF Uniform
  <2>4. QED
    BY <2>1, <2>3 DEF Uniform
<1>2. PICK len \in Nat \ {0}, num \in Nat :
          \E w \in 0 .. num, r \in 0 .. num : Layout(len, num, w, r)
  BY <1>1 DEF Ring
<1>3. PICK w \in 0 .. num, r \in 0 .. num : Layout(len, num, w, r)
  BY <1>2
<1>4. SUFFICES \E x \in 0 .. num, y \in 0 .. num : Layout(len, num, x, y)'
  OBVIOUS
<1>5. CASE PushPacket
  BY <1>3, <1>5, PushRing
<1>6. CASE PushCounted
  BY <1>3, <1>6, PushCountedRing
<1>7. CASE PopPacket \/ PopCopied \/ PopCounted
  BY <1>3, <1>7, PopPacketRing, PopCopiedRing, PopCountedRing
<1>8. CASE PeekNextPackLen
  BY <1>3, <1>8, PeekRing
<1>9. CASE Reset
  <2>1. LockFree
    BY <1>9 DEF Reset, Uniform
  <2>2. Layout(len, num, 0, 0)'
    BY <1>3, <1>9, <2>1, ResetRing
  <2>3. 0 \in 0 .. num
    OBVIOUS
  <2>4. QED
    BY <2>2, <2>3
<1>10. CASE UNCHANGED vars
  <2>1. Layout(len, num, w, r)'
    BY <1>3, <1>10 DEF vars, Layout, Written, Read, Stored, Passed, Flagged
  <2>2. QED
    BY <2>1
<1>11. QED
  BY <1>5, <1>6, <1>7, <1>8, <1>9, <1>10 DEF Next

-----------------------------------------------------------------------------
(* What the ring is for.                                                   *)

\* A ring gives back what was put in, in order,
LEMMA RingInOrder == Ring => QueueInOrder
<1> SUFFICES ASSUME Ring, Uniform PROVE Fifo!InOrder
  BY DEF QueueInOrder
<1>1. PICK len \in Nat \ {0}, num \in Nat :
          \E w \in 0 .. num, r \in 0 .. num : Layout(len, num, w, r)
  BY DEF Ring
<1>2. PICK w \in 0 .. num, r \in 0 .. num : Layout(len, num, w, r)
  BY <1>1
<1>3. PICK n \in Nat, g \in Nat :
        g <= n /\ n = Len(pushed) /\ g = Len(got) /\ pushed = Numbered(n, len) /\ got = Numbered(g, len)
  BY <1>2 DEF Layout, Written
<1>4. pushed \in Seq(Packets)
  BY <1>3, NumberedNext
<1>5. SubSeq(pushed, 1, g) = Numbered(g, len)
  BY <1>3, <1>4 DEF Numbered
<1>6. QED
  BY <1>3, <1>5 DEF Fifo!InOrder

\* and a peek reads the length of the packet at its front.
LEMMA RingPeek == Ring => PeekIsNext
<1> SUFFICES ASSUME Ring, Uniform, peeked # NotPeeked
             PROVE  peeked = pushed[Len(got) + 1].len
  BY DEF PeekIsNext
<1>1. PICK len \in Nat \ {0}, num \in Nat :
          \E w \in 0 .. num, r \in 0 .. num : Layout(len, num, w, r)
  BY DEF Ring
<1>2. PICK w \in 0 .. num, r \in 0 .. num : Layout(len, num, w, r)
  BY <1>1
<1>3. PICK n \in Nat, g \in Nat :
        g <= n /\ n = Len(pushed) /\ g = Len(got) /\ pushed = Numbered(n, len) /\ g < n /\ peeked = len
  BY <1>2 DEF Layout, Written, Read
<1>4. g + 1 \in 1 .. n
  BY <1>3
<1>5. pushed[g + 1].len = len
  BY <1>3, <1>4 DEF Numbered
<1>6. QED
  BY <1>3, <1>5

\* The writer is inside by its own tests, the reader as long as there is a ring.
LEMMA RingInside == Inside /\ Ring => TypeOK
<1> SUFFICES ASSUME Inside, Ring PROVE TypeOK
  OBVIOUS
<1>1. ASSUME Uniform
      PROVE  readPos \in 0 .. bufSize /\ writePos \in 0 .. bufSize
  <2>1. PICK len \in Nat \ {0}, num \in Nat :
          \E w \in 0 .. num, r \in 0 .. num : Layout(len, num, w, r)
    BY <1>1 DEF Ring
  <2>2. PICK w \in 0 .. num, r \in 0 .. num : Layout(len, num, w, r)
    BY <2>1
  <2> DEFINE size == len + 2
  <2>3. Written(len, num, w) /\ Read(len, num, w, r)
    BY <2>2 DEF Layout
  <2>4. \A k \in 0 .. num : k * size \in Nat /\ k * size <= num * size
    <3>1. num * size \in Nat
      OBVIOUS
    <3>2. \A k \in 0 .. num : k * size \in Nat /\ (k < num => k * size + size <= num * size)
      BY SlotsApart
    <3>3. QED
      BY <3>1, <3>2
  <2>5. num * size <= bufSize /\ bufSize \in Nat /\ num * size \in Nat
        /\ writePos = w * size
        /\ readPos = r * size + (IF Len(popping) = 1 THEN 2 ELSE 0)
    BY <2>3 DEF Written, Read, LenSize
  <2>6. writePos \in 0 .. bufSize
    BY <2>4, <2>5
  <2>7. CASE Len(popping) # 1
    BY <2>4, <2>5, <2>6, <2>7
  <2>8. CASE Len(popping) = 1
    <3>1. /\ Len(got) < Len(pushed) /\ Passed = Len(got)
          /\ r = Slot(Len(got) + 1, Stored, num, w)
      <4>1. Passed = Len(got)
        BY <2>3, <2>8 DEF Written, Passed
      <4>2. popping # <<>>
        BY <2>8, InHand
      <4>3. QED
        BY <2>3, <2>8, <4>1, <4>2 DEF Read
    <3>2. r * size \in Nat /\ r * size + size <= num * size
      <4>1. size \in Nat
        OBVIOUS
      <4> HIDE DEF size
      <4>2. size = len + 2
        BY DEF size
      <4>3. HoldsNext(len, num, w, r, size)
        BY <4>1, <4>2, <2>3, <3>1, SlotHoldsNext
      <4>4. QED
        BY <4>3 DEF HoldsNext
    <3>3. QED
      BY <2>5, <2>6, <2>8, <3>2
  <2>9. QED
    BY <2>7, <2>8
<1>2. (\A len \in lens : LenSize + len <= bufSize) => writePos \in 0 .. bufSize
  BY DEF Inside
<1>3. Len(pushing) <= 1 /\ Len(popping) <= 2
  BY DEF Inside
<1>4. QED
  BY <1>1, <1>2, <1>3 DEF TypeOK, Inside

\* Whatever the lengths and wherever a Reset falls, PushPacket writes inside the buffer
\* if each packet fits into an empty one; PopPacket and PeekNextPackLen read inside as
\* long as packets have one length and no Reset meets a push or a pop.
THEOREM PositionsInside == Spec => []TypeOK
  BY InitInside, NextIsInside, InitRing, NextIsRing, RingInside, PTL DEF Spec

\* Packets of one length leave the buffer in the order they were pushed, each once,
\* none skipped and each whole (PushPacket, PopPacket), for any buffer and any length,
\* unless a Reset, which takes no lock, has met a push or a pop.
THEOREM QueueAlwaysInOrder == Spec => []QueueInOrder
  BY InitRing, NextIsRing, RingInOrder, PTL DEF Spec

\* A peek, which takes no lock and may come between the two steps of a push, always
\* tells the length of the packet that the next PopPacket returns.
THEOREM PeekAlwaysNext == Spec => []PeekIsNext
  BY InitRing, NextIsRing, RingPeek, PTL DEF Spec

\* A step of the queue is one of PacketFifo or a stutter, but for a Reset, which
\* begins anew.
StepOfFifo ==
    Uniform' => \/ Fifo!Next \/ UNCHANGED <<pushed, got>>
                \/ Reset /\ Fifo!Init'

\* What is counted as pushed, and what is popped, is put behind what was there.
LEMMA PutOrGet ==
    ASSUME NEW len \in Nat \ {0}, NEW num \in Nat, NEW w \in 0 .. num, NEW r \in 0 .. num,
           Layout(len, num, w, r), PushCounted \/ PopCounted
    PROVE  \/ Fifo!Put /\ UNCHANGED got
           \/ Fifo!Get /\ UNCHANGED pushed
<1>1. pushed \in Seq(Packets) /\ got \in Seq(Packets)
  <2>1. \A k \in Nat : Numbered(k, len) \in Seq(Packets)
    BY NumberedNext
  <2>2. QED
    BY <2>1 DEF Layout, Written
<1>2. \A s \in Seq(Packets) : \A x :
        Len(Append(s, x)) > Len(s) /\ SubSeq(Append(s, x), 1, Len(s)) = s
  <2> SUFFICES ASSUME NEW s \in Seq(Packets), NEW x
               PROVE  Len(Append(s, x)) > Len(s) /\ SubSeq(Append(s, x), 1, Len(s)) = s
    OBVIOUS
  <2>1. s \in Seq(Packets \cup {x})
    OBVIOUS
  <2>2. QED
    BY <2>1
<1>3. CASE PushCounted
  <2>1. PICK x : pushing = <<x>> /\ got' = got
    BY <1>3 DEF Layout, Written, PushCounted
  <2>2. pushed' = Append(pushed, x)
    <3>1. pushed' = pushed \o <<x>>
      BY <1>3, <2>1 DEF PushCounted
    <3>2. pushed \o <<x>> = Append(pushed, x)
      BY <1>1
    <3>3. QED
      BY <3>1, <3>2
  <2>3. Len(pushed') > Len(pushed) /\ SubSeq(pushed', 1, Len(pushed)) = pushed
    BY <1>1, <1>2, <2>2, Zenon
  <2>4. QED
    BY <2>1, <2>3, Zenon DEF Fifo!Put
<1>4. CASE PopCounted
  <2>1. PICK x : got' = Append(got, x)
    BY <1>4, Zenon DEF PopCounted
  <2>2. pushed' = pushed
    BY <1>4 DEF PopCounted
  <2>3. Len(got') > Len(got) /\ SubSeq(got', 1, Len(got)) = got
    BY <1>1, <1>2, <2>1, Zenon
  <2>4. QED
    BY <2>2, <2>3, Zenon DEF Fifo!Get
<1>5. QED
  BY <1>3, <1>4

\* The actions, one by one.
LEMMA NextIsFifo == Ring /\ Ring' /\ [Next]_vars => StepOfFifo
<1> SUFFICES ASSUME Ring, Ring', [Next]_vars, Uniform'
             PROVE  \/ Fifo!Next \/ UNCHANGED <<pushed, got>>
                    \/ Reset /\ Fifo!Init'
  BY DEF StepOfFifo
<1>1. Uniform
  <2>1. lens' = lens
    BY DEF Next, vars, PushPacket, PushCounted, PopPacket, PopCopied, PopCounted,
              PeekNextPackLen, Reset
  <2>2. raced' = raced \/ raced' = (raced \/ ~LockFree)
    BY Zenon DEF Next, vars, PushPacket, PushCounted, PopPacket, PopCopied, PopCounted,
              PeekNextPackLen, Reset
  <2>3. ~raced
    BY <2>2, Zenon DEF Uniform
  <2>4. QED
    BY <2>1, <2>3 DEF Uniform
<1>2. Fifo!InOrder'
  BY RingInOrder, PTL DEF QueueInOrder
<1>3. PICK len \in Nat \ {0}, num \in Nat :
          \E w \in 0 .. num, r \in 0 .. num : Layout(len, num, w, r)
  BY <1>1 DEF Ring
<1>4. PICK w \in 0 .. num, r \in 0 .. num : Layout(len, num, w, r)
  BY <1>3
<1>5. CASE PushCounted \/ PopCounted
  BY <1>2, <1>4, <1>5, PutOrGet DEF Fifo!Next
<1>6. CASE PushPacket \/ PopPacket \/ PopCopied \/ PeekNextPackLen \/ UNCHANGED vars
  BY <1>6 DEF PushPacket, PopPacket, PopCopied, PeekNextPackLen, vars
<1>7. CASE Reset
  BY <1>7 DEF Reset, Fifo!Init
<1>8. QED
  BY <1>5, <1>6, <1>7 DEF Next

\* Between two resets the buffer, with packets of one length, implements PacketFifo:
\* it begins empty, and each step of the two threads puts packets in, takes the
\* next one out, or changes nothing that PacketFifo sees.
THEOREM QueueImplemented == Spec => Fifo!Init /\ [][StepOfFifo]_vars
<1>1. Init => Fifo!Init
  BY DEF Init, Fifo!Init
<1>2. QED
  BY <1>1, InitRing, NextIsRing, NextIsFifo, PTL DEF Spec
=============================================================================
