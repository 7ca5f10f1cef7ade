----------------------------- MODULE FifoQueue ------------------------------
(***************************************************************************)
(* The ring buffer of ClientGUI: packets with a two-byte length before     *)
(* them, in a buffer in which a packet never continues at the front: when  *)
(* it does not fit in before the end, the length END_FLAG or the lack of   *)
(* room for a length sends the reader to the front.                        *)
(*                                                                         *)
(* Pushes and pops exclude each other (USE_LOCK); peeking, which only the  *)
(* consumer does, and Reset take no lock.  Reset is one step: it may come  *)
(* in the middle of a push or a pop, and an operation that begins between  *)
(* its two lines is taken for one of these.                                *)
(*                                                                         *)
(* A cell of the buffer is known by the packet it belongs to and its place *)
(* in it; positions count from buffer_.  Two bytes that are not the length *)
(* of a packet, of data or never written, read as any number.              *)
(***************************************************************************)
EXTENDS Integers, SequencesExt

CONSTANTS Sizes,        \* sizes the buffer may have
          LenSets,      \* sets of lengths that the packets may have
          Garbage,      \* numbers that two bytes may read as that are no length
          MaxPush,      \* bound: packets pushed
          MaxResets     \* bound: resets

ASSUME QueueAssumption ==
    /\ Sizes \subseteq Nat \ {0} /\ LenSets \subseteq SUBSET Nat
    /\ Garbage \subseteq Nat /\ Garbage # {}
    /\ MaxPush \in Nat /\ MaxResets \in Nat

VARIABLES bufSize, lens,
          mem, readPos, writePos, readBytes, writeBytes,
          pushing,      \* the packet that PushPacket has stored and not yet counted
          popping,      \* the length that PopPacket has read, and the packet, uncounted
          peeked,       \* what the consumer's last peek returned, NotPeeked since the pop
          pushed, got,  \* the packets accepted and popped since the last Reset
          resets, raced \* resets; one of them came in the middle of a push or a pop

vars == <<bufSize, lens, mem, readPos, writePos, readBytes, writeBytes, pushing,
          popping, peeked, pushed, got, resets, raced>>

LenSize == 2            \* PACK_LEN_SIZE
NoPacket == [id |-> 0, len |-> 0]
EndFlag == 0
NotPeeked == -1

Cell(id, len, at) == [id |-> id, len |-> len, at |-> at]

Init ==
    /\ bufSize \in Sizes /\ lens \in LenSets
    /\ mem = [p \in 0 .. bufSize - 1 |-> Cell(0, EndFlag, 0)]
    /\ readPos = 0 /\ writePos = 0 /\ readBytes = 0 /\ writeBytes = 0
    /\ pushing = <<>> /\ popping = <<>> /\ peeked = NotPeeked
    /\ pushed = <<>> /\ got = <<>> /\ resets = 0 /\ raced = FALSE

\* Mutant: the length bytes are forgotten.
NoRoomShort(len) == writeBytes + len > readBytes + bufSize

\* The test before a push.
NoRoom(len) == writeBytes + 2 * len + 2 * (LenSize - 1) > readBytes + bufSize

NoLengthFits(pos) == pos + LenSize > bufSize

\* Mutant: the two bytes of the length are forgotten.
NoPacketFitsShort(pos, len) == pos + len > bufSize

NoPacketFits(pos, len) == pos + len + LenSize > bufSize

Store(m, pos, pkt) ==
    [p \in DOMAIN m |->
        IF p \in pos .. pos + LenSize + pkt.len - 1
        THEN Cell(pkt.id, pkt.len, p - pos + 1) ELSE m[p]]

LockFree == pushing = <<>> /\ popping = <<>>

\* PushPacket as far as the copy ...
PushPacket ==
    /\ LockFree /\ Len(pushed) < MaxPush
    /\ \E len \in lens :
         LET pkt == [id |-> Len(pushed) + 1, len |-> len]
             wrap == NoLengthFits(writePos) \/ NoPacketFits(writePos, len)
             flagged == IF wrap /\ ~NoLengthFits(writePos)
                        THEN Store(mem, writePos, NoPacket) ELSE mem
             pos == IF wrap THEN 0 ELSE writePos
         IN  /\ ~NoRoom(len)
             /\ mem' = Store(flagged, pos, pkt)
             /\ writePos' = pos + LenSize + len
             /\ pushing' = <<pkt>>
    /\ UNCHANGED <<bufSize, lens, readPos, readBytes, writeBytes, popping, peeked, pushed,
                   got, resets, raced>>

\* Mutant: the length bytes are not counted.
CountedShort(pkt) == pkt.len

Counted(pkt) == pkt.len + LenSize

\* ... and its end: write_bytes_ counts the packet, the consumer is notified.
PushCounted ==
    /\ pushing # <<>>
    /\ writeBytes' = writeBytes + Counted(pushing[1])
    /\ pushed' = pushed \o pushing
    /\ pushing' = <<>>
    /\ UNCHANGED <<bufSize, lens, mem, readPos, writePos, readBytes, popping, peeked, got,
                   resets, raced>>

\* The length at a position: of two bytes that belong to no length, anything.
LengthsAt(pos) ==
    IF ~NoLengthFits(pos) /\ mem[pos].at = 1 /\ mem[pos + 1] = [mem[pos] EXCEPT !.at = 2]
    THEN {mem[pos].len} ELSE Garbage

\* Where a reader looks first.
FirstPos == IF NoLengthFits(readPos) THEN 0 ELSE readPos

\* Mutant: the END_FLAG is not followed.
NextUnflagged == {FirstPos} \X LengthsAt(FirstPos)

\* The position of the next packet and its length, after END_FLAG those at the front.
NextPacket ==
    ({FirstPos} \X (LengthsAt(FirstPos) \ {EndFlag}))
        \cup (IF EndFlag \in LengthsAt(FirstPos) THEN {0} \X LengthsAt(0) ELSE {})

\* The packet whose data of a length are at a position, or what is there instead.
PacketAt(pos, len) ==
    IF pos < bufSize
       /\ \A k \in 1 .. len : /\ pos + k <= bufSize
                              /\ mem[pos + k - 1] = Cell(mem[pos].id, len, LenSize + k)
    THEN [id |-> mem[pos].id, len |-> len] ELSE [id |-> -1, len |-> len]

\* PopPacket waits under the lock until there is a packet, and reads its length ...
PopPacket ==
    /\ LockFree /\ readBytes < writeBytes
    /\ \E next \in NextPacket : readPos' = next[1] + LenSize /\ popping' = <<next[2]>>
    /\ peeked' = NotPeeked
    /\ UNCHANGED <<bufSize, lens, mem, writePos, readBytes, writeBytes, pushing, pushed, got,
                   resets, raced>>

\* ... copies it from where the reader is then, which may lead out of the buffer ...
PopCopied ==
    /\ Len(popping) = 1
    /\ popping' = <<popping[1], PacketAt(readPos, popping[1])>>
    /\ readPos' = readPos + popping[1]
    /\ UNCHANGED <<bufSize, lens, mem, writePos, readBytes, writeBytes, pushing, peeked,
                   pushed, got, resets, raced>>

\* ... and counts it.
PopCounted ==
    /\ Len(popping) = 2
    /\ readBytes' = readBytes + popping[1] + LenSize
    /\ got' = Append(got, popping[2])
    /\ popping' = <<>>
    /\ UNCHANGED <<bufSize, lens, mem, readPos, writePos, writeBytes, pushing, peeked,
                   pushed, resets, raced>>

\* The consumer peeks, also while PushPacket runs.  A Reset in the middle of a peek
\* changes no more than the length which that peek returns, and is left out.
PeekNextPackLen ==
    /\ popping = <<>> /\ readBytes < writeBytes
    /\ \E next \in NextPacket : readPos' = next[1] /\ peeked' = next[2]
    /\ UNCHANGED <<bufSize, lens, mem, writePos, readBytes, writeBytes, pushing, popping,
                   pushed, got, resets, raced>>

\* Reset, by anybody at any time; a push or a pop that it meets goes on.
Reset ==
    /\ resets < MaxResets /\ resets' = resets + 1
    /\ readPos' = 0 /\ writePos' = 0 /\ readBytes' = 0 /\ writeBytes' = 0
    /\ peeked' = NotPeeked /\ pushed' = <<>> /\ got' = <<>>
    /\ raced' = (raced \/ ~LockFree)
    /\ UNCHANGED <<bufSize, lens, mem, pushing, popping>>

Next ==
    \/ PushPacket \/ PushCounted
    \/ PopPacket \/ PopCopied \/ PopCounted
    \/ PeekNextPackLen \/ Reset

Spec == Init /\ [][Next]_vars

\* Both threads run, and the notified consumer wakes up.
FairSpec ==
    /\ Spec
    /\ WF_vars(PushCounted)
    /\ WF_vars(PopPacket) /\ WF_vars(PopCopied) /\ WF_vars(PopCounted)

-----------------------------------------------------------------------------
(* Properties.                                                             *)

\* All packets have one length, at least 1, and Reset has met no push and no pop.
Uniform == (\A m, n \in lens : m = n) /\ 0 \notin lens /\ ~raced

\* The writer stays in the buffer if each packet alone fits in, whatever their lengths
\* are and whatever the reader has read; the reader only when the lengths it reads are
\* lengths.
TypeOK ==
    /\ (\A len \in lens : LenSize + len <= bufSize) => writePos \in 0 .. bufSize
    /\ Uniform => readPos \in 0 .. bufSize /\ writePos \in 0 .. bufSize
    /\ readBytes \in Nat /\ writeBytes \in Nat
    /\ Len(pushing) <= 1 /\ Len(popping) <= 2

\* If Uniform, the buffer is a packet queue ...
Fifo == INSTANCE PacketFifo WITH sent <- pushed, got <- got

QueueInOrder == Uniform => Fifo!InOrder

\* ... peeking tells the length of the packet that is popped next, and never 0 (for
\* an empty buffer), although it takes no lock and has to follow the END_FLAG ...
PeekIsNext == (Uniform /\ peeked # NotPeeked) => peeked = pushed[Len(got) + 1].len

\* ... and every packet pushed is popped, if the thread keeps popping.
AllPopped == (got # pushed) ~> (got = pushed \/ ~Uniform)
=============================================================================
