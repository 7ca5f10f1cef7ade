---------------------------- MODULE StartupProofs ----------------------------
(***************************************************************************)
(* Theorems about what the seven programs read from their files, for any   *)
(* number of rows that two digits can number, any base of the numerals and *)
(* any lines missing.                                                      *)
(***************************************************************************)
EXTENDS Startup, SequenceLemmas

\* The index that the backward unit asks for.
NoIndex == [PortIndex EXCEPT !.key = <<"server", "Forward", "Port", "Index">>]

FixedReads == {ClientName, ChannelPort, ChannelIP, ClientPort, UserID, ClientLength,
               MetaName, BackwardPort, ServerIP, PortLength, PortIndex, NoIndex}
TableReads(i) == {PeerID(i), InstancePort(i), InstanceIP(i), ForwardPort(i)}

-----------------------------------------------------------------------------
(* Names: parse_file compares a name only as far as that of the line goes, *)
(* and finds the same as with a full comparison.                           *)

\* How many parts the name of a key has, by its first one.
KeyWidth(part) ==
    IF part \in {"Backward", "Instance"} THEN 2
    ELSE IF part = "Forward" THEN 3
    ELSE IF part = "server" THEN 4 ELSE 1

DigitParts == {"0", "1", "2", "3", "4", "5", "6", "7", "8", "9"}
Parts == {"Client", "Channel", "Meta", "Server", "server", "Peer", "Instance",
          "name", "Name", "Port", "IP", "ID", "Length", "Index", "Backward", "Forward"}
         \cup DigitParts

WellNamed(read) ==
    /\ read.sec \in Seq(Parts) /\ read.sec # <<>>
    /\ read.key \in Seq(Parts) /\ read.key # <<>>
    /\ Len(read.key) = KeyWidth(read.key[1])
    /\ Len(read.sec) = IF read.key[1] = "Instance" THEN 3
                       ELSE IF read.sec[1] = "Peer" THEN 2 ELSE 1

\* A prefix begins alike, and one of the same length is all of it.
LEMMA PrefixNames ==
    ASSUME NEW s \in Seq(Parts), NEW t \in Seq(Parts), s # <<>>
    PROVE  /\ IsPrefix(s, t) =>
                Len(s) <= Len(t) /\ s[1] = t[1] /\ (Len(s) = Len(t) => s = t)
           /\ IsPrefix(s, s)
<1>1. /\ IsPrefix(s, t) <=> Len(s) <= Len(t) /\ \A i \in 1 .. Len(s) : s[i] = t[i]
      /\ IsPrefix(s, s) <=> Len(s) <= Len(s) /\ \A i \in 1 .. Len(s) : s[i] = s[i]
  BY PrefixElements
<1>2. Len(s) \in Nat \ {0} /\ 1 \in 1 .. Len(s)
  BY EmptySeq
<1>3. Len(s) = Len(t) /\ (\A i \in 1 .. Len(s) : s[i] = t[i]) => s = t
  BY SeqEqual
<1>4. QED
  BY <1>1, <1>2, <1>3

\* Section and key of each read that has no number in its name.
LEMMA FixedFields ==
    /\ ClientName.sec = <<"Client">> /\ ClientName.key = <<"name">>
    /\ ChannelPort.sec = <<"Channel">> /\ ChannelPort.key = <<"Port">>
    /\ ChannelIP.sec = <<"Channel">> /\ ChannelIP.key = <<"IP">>
    /\ ClientPort.sec = <<"Client">> /\ ClientPort.key = <<"Port">>
    /\ UserID.sec = <<"Client">> /\ UserID.key = <<"ID">>
    /\ ClientLength.sec = <<"Client">> /\ ClientLength.key = <<"Length">>
    /\ MetaName.sec = <<"Meta">> /\ MetaName.key = <<"Name">>
    /\ BackwardPort.sec = <<"Server">> /\ BackwardPort.key = <<"Backward", "Port">>
    /\ ServerIP.sec = <<"Server">> /\ ServerIP.key = <<"IP">>
    /\ PortLength.sec = <<"Server">> /\ PortLength.key = <<"Forward", "Port", "Length">>
    /\ PortIndex.sec = <<"Server">> /\ PortIndex.key = <<"Forward", "Port", "Index">>
    /\ NoIndex.sec = <<"Server">> /\ NoIndex.key = <<"server", "Forward", "Port", "Index">>
BY DEF Key, ClientName, ChannelPort, ChannelIP, ClientPort, UserID, ClientLength, MetaName,
       BackwardPort, ServerIP, PortLength, PortIndex, NoIndex

\* The names that occur, by their number of parts.
LEMMA Names ==
    ASSUME NEW x \in Parts, NEW y \in Parts, NEW z \in Parts, NEW w \in Parts, NEW s,
           s = <<x>> \/ s = <<x, y>> \/ s = <<x, y, z>> \/ s = <<x, y, z, w>>
    PROVE  /\ s \in Seq(Parts) /\ s # <<>> /\ s[1] = x
           /\ s = <<x>> => Len(s) = 1
           /\ s = <<x, y>> => Len(s) = 2
           /\ s = <<x, y, z>> => Len(s) = 3
           /\ s = <<x, y, z, w>> => Len(s) = 4
<1>1. CASE s = <<x>>
  BY <1>1
<1>2. CASE s = <<x, y>>
  BY <1>2
<1>3. CASE s = <<x, y, z>>
  BY <1>3
<1>4. CASE s = <<x, y, z, w>>
  BY <1>4
<1>5. QED
  BY <1>1, <1>2, <1>3, <1>4

\* Names without a numeral have the width that their first part tells.
LEMMA FixedNamed == \A read \in FixedReads : WellNamed(read)
<1> SUFFICES ASSUME NEW read \in FixedReads PROVE WellNamed(read)
  OBVIOUS
<1>1. ASSUME NEW a, NEW s \in Parts, NEW k \in Parts, a.sec = <<s>>, a.key = <<k>>,
             s # "Peer", k \notin {"Backward", "Instance", "Forward", "server"}
      PROVE  WellNamed(a)
  BY <1>1, Names DEF WellNamed, KeyWidth
<1>2. WellNamed(BackwardPort)
  BY FixedFields DEF WellNamed, KeyWidth, Parts
<1>3. WellNamed(PortLength) /\ WellNamed(PortIndex)
  BY FixedFields DEF WellNamed, KeyWidth, Parts
<1>4. WellNamed(NoIndex)
  BY FixedFields DEF WellNamed, KeyWidth, Parts
<1>5. CASE read \in {ClientName, ChannelPort, ChannelIP, ClientPort, UserID, ClientLength,
                     MetaName, ServerIP}
  BY <1>1, <1>5, FixedFields DEF Parts
<1>6. QED
  BY <1>2, <1>3, <1>4, <1>5 DEF FixedReads

\* The ten digits are parts of names.
LEMMA DigitStrings ==
    ASSUME NEW i \in 1 .. 10
    PROVE  Digits[i] \in DigitParts
<1>1. i = 1 \/ i = 2 \/ i = 3 \/ i = 4 \/ i = 5 \/ i = 6 \/ i = 7 \/ i = 8 \/ i = 9 \/ i = 10
  OBVIOUS
<1>2. QED
  BY <1>1 DEF Digits, DigitParts

\* Below Radix a numeral is one digit.
LEMMA OneDigit ==
    ASSUME NEW i \in 0 .. Radix - 1
    PROVE  \E d \in DigitParts : Numeral(i) = <<d>>
<1>1. Radix \in 2 .. 10
  BY IniAssumption DEF Digits
<1>2. i % Radix = i /\ i < Radix /\ i + 1 \in 1 .. 10
  BY <1>1
<1>3. PICK d : d = Digits[i + 1]
  OBVIOUS
<1>4. Numeral(i) = <<>> \o <<d>>
  BY <1>2, <1>3 DEF Numeral
<1>5. d \in DigitParts
  BY <1>2, <1>3, DigitStrings
<1>6. <<>> \o <<d>> = <<d>>
  <2>1. <<d>> \in Seq({d})
    OBVIOUS
  <2>2. QED
    BY <2>1, ConcatEmptySeq
<1>7. QED
  BY <1>4, <1>5, <1>6

\* From Radix on it has two.
LEMMA MoreDigits ==
    ASSUME NEW i \in Nat, ~(i < Radix)
    PROVE  \E x, y : Numeral(i) = <<x, y>>
<1>1. Numeral(i) = <<Digits[(i \div Radix) + 1]>> \o <<Digits[(i % Radix) + 1]>>
  BY DEF Numeral
<1>2. QED
  BY <1>1, Concat11, Zenon

\* Section and key of each read with a number in its name.
LEMMA TableFields ==
    ASSUME NEW i
    PROVE  /\ PeerID(i).sec = <<"Peer">> \o Numeral(i) /\ PeerID(i).key = <<"ID">>
           /\ InstancePort(i).sec = <<"Client", "Instance">> \o Numeral(i)
           /\ InstancePort(i).key = <<"Instance", "Port">>
           /\ InstanceIP(i).sec = <<"Client", "Instance">> \o Numeral(i)
           /\ InstanceIP(i).key = <<"Instance", "IP">>
           /\ ForwardPort(i).sec = <<"Server">>
           /\ ForwardPort(i).key = <<"Forward", "Port">> \o Numeral(i)
BY DEF Key, PeerID, InstancePort, InstanceIP, ForwardPort, Peer, Instance

\* The keys of a table with one-digit numbers are well named, too, and not taken for others.
LEMMA TableNamed ==
    ASSUME NEW i \in 0 .. Radix - 1, NEW read \in TableReads(i)
    PROVE  /\ WellNamed(read)
           /\ \A fixed \in {ClientLength, PortLength, PortIndex, NoIndex} :
                 ~(read.sec = fixed.sec /\ read.key = fixed.key)
<1>1. PICK d \in DigitParts : Numeral(i) = <<d>>
  BY OneDigit
<1>2. d \in Parts /\ d # "Length" /\ d # "Index"
  BY DEF DigitParts, Parts
<1>3. /\ <<"Peer">> \o <<d>> = <<"Peer", d>>
      /\ <<"Client", "Instance">> \o <<d>> = <<"Client", "Instance", d>>
      /\ <<"Forward", "Port">> \o <<d>> = <<"Forward", "Port", d>>
  BY Concat11, Concat21
<1>4. /\ PeerID(i).sec = <<"Peer", d>> /\ PeerID(i).key = <<"ID">>
      /\ InstancePort(i).sec = <<"Client", "Instance", d>>
      /\ InstancePort(i).key = <<"Instance", "Port">>
      /\ InstanceIP(i).sec = <<"Client", "Instance", d>>
      /\ InstanceIP(i).key = <<"Instance", "IP">>
      /\ ForwardPort(i).sec = <<"Server">>
      /\ ForwardPort(i).key = <<"Forward", "Port", d>>
  BY <1>1, <1>3, TableFields
<1>5. /\ ClientLength.sec = <<"Client">> /\ PortLength.sec = <<"Server">>
      /\ PortIndex.sec = <<"Server">> /\ ClientLength.key = <<"Length">>
      /\ PortLength.key = <<"Forward", "Port", "Length">>
      /\ PortIndex.key = <<"Forward", "Port", "Index">>
      /\ NoIndex.sec = <<"Server">> /\ NoIndex.key = <<"server", "Forward", "Port", "Index">>
  BY FixedFields
<1>6. WellNamed(PeerID(i))
  BY <1>2, <1>4, Names DEF WellNamed, KeyWidth, Parts
<1>7. WellNamed(InstancePort(i))
  BY <1>2, <1>4, Names DEF WellNamed, KeyWidth, Parts
<1>8. WellNamed(InstanceIP(i))
  BY <1>2, <1>4, Names DEF WellNamed, KeyWidth, Parts
<1>9. WellNamed(ForwardPort(i))
  BY <1>2, <1>4, Names DEF WellNamed, KeyWidth, Parts
<1>10. \A fixed \in {ClientLength, PortLength, PortIndex, NoIndex} :
          /\ ~(PeerID(i).sec = fixed.sec /\ PeerID(i).key = fixed.key)
          /\ ~(InstancePort(i).sec = fixed.sec /\ InstancePort(i).key = fixed.key)
          /\ ~(InstanceIP(i).sec = fixed.sec /\ InstanceIP(i).key = fixed.key)
  BY <1>4, <1>5
<1>11. \A fixed \in {ClientLength, PortLength, PortIndex, NoIndex} :
          ~(ForwardPort(i).sec = fixed.sec /\ ForwardPort(i).key = fixed.key)
  BY <1>2, <1>4, <1>5
<1>12. QED
  BY <1>6, <1>7, <1>8, <1>9, <1>10, <1>11, Zenon DEF TableReads

\* Names of known width match only when they are equal, prefix comparison or not.
LEMMA Exact ==
    ASSUME NEW line, WellNamed(line), NEW read, WellNamed(read)
    PROVE  Matches(line.sec, read.sec) /\ Matches(line.key, read.key) <=>
               line.sec = read.sec /\ line.key = read.key
<1>1. ASSUME IsPrefix(line.sec, read.sec), IsPrefix(line.key, read.key)
      PROVE  line.sec = read.sec /\ line.key = read.key
  <2>1. line.sec[1] = read.sec[1] /\ line.key[1] = read.key[1]
    BY <1>1, PrefixNames DEF WellNamed
  <2>2. Len(line.sec) = Len(read.sec) /\ Len(line.key) = Len(read.key)
    BY <2>1, Zenon DEF WellNamed
  <2>3. QED
    BY <1>1, <2>2, PrefixNames DEF WellNamed
<1>2. IsPrefix(line.sec, line.sec) /\ IsPrefix(line.key, line.key)
  BY PrefixNames DEF WellNamed
<1>3. QED
  BY <1>1, <1>2 DEF Matches

\* With two digits the name of a line is never a beginning of one that has none.
LEMMA LongNames ==
    ASSUME NEW i \in Nat, ~(i < Radix), NEW line \in TableReads(i), NEW read \in FixedReads
    PROVE  /\ ~(Matches(line.sec, read.sec) /\ Matches(line.key, read.key))
           /\ ~(line.sec = read.sec /\ line.key = read.key)
<1>1. PICK x, y : Numeral(i) = <<x, y>>
  BY MoreDigits
<1>2. /\ <<"Peer">> \o <<x, y>> = <<"Peer", x, y>>
      /\ <<"Client", "Instance">> \o <<x, y>> = <<"Client", "Instance", x, y>>
      /\ <<"Forward", "Port">> \o <<x, y>> = <<"Forward", "Port", x, y>>
  BY Concat12, Concat22
<1>3. WellNamed(read) /\ read.key[1] # "Instance" /\ read.sec[1] # "Peer" /\ Len(read.sec) = 1
  <2>1. read.key[1] # "Instance" /\ read.sec[1] # "Peer"
    BY FixedFields DEF FixedReads
  <2>2. QED
    BY <2>1, FixedNamed DEF WellNamed
<1>4. CASE line # ForwardPort(i)
  <2>1. Len(line.sec) \in {3, 4}
    <3>1. line.sec = <<"Peer", x, y>> \/ line.sec = <<"Client", "Instance", x, y>>
      BY <1>1, <1>2, <1>4, TableFields, Zenon DEF TableReads
    <3>2. QED
      BY <3>1
  <2>2. QED
    BY <1>3, <2>1 DEF Matches, IsPrefix
<1>5. CASE line = ForwardPort(i)
  <2>1. line.key = <<"Forward", "Port", x, y>>
    BY <1>1, <1>2, <1>5, TableFields
  <2>2. Len(line.key) = 4 /\ line.key[1] = "Forward"
    BY <2>1
  <2>3. read.key[1] # "Forward" \/ Len(read.key) = 3
    BY <1>3 DEF WellNamed, KeyWidth
  <2>4. line.key # read.key
    BY <2>2, <2>3
  <2>5. ASSUME IsPrefix(line.key, read.key) PROVE FALSE
    <3>1. 4 <= Len(read.key) /\ SubSeq(line.key, 1, 4) = SubSeq(read.key, 1, 4)
      BY <2>2, <2>5 DEF IsPrefix
    <3>2. SubSeq(line.key, 1, 4)[1] = line.key[1]
      BY <2>1
    <3>3. SubSeq(read.key, 1, 4)[1] = read.key[1]
      BY <1>3, <3>1 DEF WellNamed
    <3>4. read.key[1] = "Forward"
      BY <2>2, <3>1, <3>2, <3>3
    <3>5. QED
      BY <2>3, <3>1, <3>4
  <2>6. QED
    BY <2>4, <2>5 DEF Matches
<1>6. QED
  BY <1>4, <1>5

\* The numbers in a file stand under names of their own.
LEMMA OwnNames ==
    /\ \A line \in FixedReads, read \in {ClientLength, PortLength, PortIndex, NoIndex} :
          line.sec = read.sec /\ line.key = read.key => line = read
    /\ ClientLength # PortLength /\ ClientLength # PortIndex /\ PortLength # PortIndex
<1>1. /\ ClientLength.sec = <<"Client">> /\ PortLength.sec = <<"Server">>
      /\ PortIndex.sec = <<"Server">> /\ ClientLength.key = <<"Length">>
      /\ PortLength.key = <<"Forward", "Port", "Length">>
      /\ PortIndex.key = <<"Forward", "Port", "Index">>
  BY FixedFields
<1>2. ASSUME NEW line \in FixedReads, line.sec = ClientLength.sec, line.key = ClientLength.key
      PROVE  line = ClientLength
  BY <1>2, FixedFields DEF FixedReads
<1>3. ASSUME NEW line \in FixedReads, line.sec = PortLength.sec, line.key = PortLength.key
      PROVE  line = PortLength
  BY <1>3, FixedFields DEF FixedReads
<1>4. ASSUME NEW line \in FixedReads, line.sec = PortIndex.sec, line.key = PortIndex.key
      PROVE  line = PortIndex
  BY <1>4, FixedFields DEF FixedReads
<1>5. ClientLength # PortLength /\ ClientLength # PortIndex /\ PortLength # PortIndex
  BY <1>1
<1>6. ASSUME NEW line \in FixedReads, line.sec = NoIndex.sec, line.key = NoIndex.key
      PROVE  line = NoIndex
  BY <1>6, FixedFields DEF FixedReads
<1>7. QED
  BY <1>2, <1>3, <1>4, <1>5, <1>6

-----------------------------------------------------------------------------
(* Files.                                                                  *)

AllReads == FixedReads \cup UNION {TableReads(i) : i \in Nat}

Keys == KeysOf(program, count)
FileLines == {Line(Keys[k], count, k) : k \in 1 .. Len(Keys)}

\* A file has lines for keys of its program, and for all of them if it is complete.
FileOK ==
    /\ program \in Programs /\ count \in Lengths
    /\ file \in Seq(FileLines)
    /\ complete => FileLines \subseteq Range(file)

IsClient == program \in ClientPrograms

\* What a key is read as.
Val(read) == read_profile(file, read.sec, read.key)

\* Every table has a row.
LEMMA CountOK ==
    ASSUME count \in Lengths
    PROVE  count \in Nat \ {0}
BY StartupAssumption

\* Instances(n) reads a port and an address for each row, in the order of the rows.
LEMMA InstancesAre ==
    ASSUME NEW n \in Nat
    PROVE  /\ Instances(n) \in Seq(AllReads) /\ Len(Instances(n)) = 2 * n
           /\ \A k \in 1 .. n : /\ Instances(n)[(2 * (k - 1)) + 1] = InstancePort(k - 1)
                               /\ Instances(n)[(2 * (k - 1)) + 2] = InstanceIP(k - 1)
           /\ \A x \in Range(Instances(n)) :
                 \E i \in 0 .. n - 1 : x = InstancePort(i) \/ x = InstanceIP(i)
           /\ \A i \in 0 .. n - 1 : {InstancePort(i), InstanceIP(i)} \subseteq Range(Instances(n))
<1> DEFINE pair(i) == <<InstancePort(i), InstanceIP(i)>>
           ss == [k \in 1 .. n |-> <<InstancePort(k - 1), InstanceIP(k - 1)>>]
<1>1. \A i \in Nat : InstancePort(i) \in AllReads /\ InstanceIP(i) \in AllReads
  BY DEF AllReads, TableReads
<1>2. ASSUME NEW k \in 1 .. n
      PROVE  /\ ss[k] = pair(k - 1) /\ pair(k - 1) \in Seq(AllReads) /\ Len(pair(k - 1)) = 2
             /\ pair(k - 1)[1] = InstancePort(k - 1) /\ pair(k - 1)[2] = InstanceIP(k - 1)
  BY <1>1
<1> HIDE DEF pair
<1>3. ss \in Seq(Seq(AllReads)) /\ Len(ss) = n
  <2>1. \A k \in 1 .. n : ss[k] \in Seq(AllReads)
    BY <1>2
  <2>2. ss = [k \in 1 .. n |-> ss[k]]
    OBVIOUS
  <2> HIDE DEF ss
  <2>3. QED
    BY <2>1, <2>2
<1>4. Instances(n) = FlattenSeq(ss)
  BY DEF Instances
<1> HIDE DEF ss
<1>5. \A k \in 1 .. Len(ss) : Len(ss[k]) = 2 /\ ss[k][1] = InstancePort(k - 1) /\ ss[k][2] = InstanceIP(k - 1)
  BY <1>2, <1>3
<1>6. PICK t : t = FlattenSeq(ss)
  OBVIOUS
<1>7. /\ t \in Seq(AllReads) /\ Len(t) = 2 * Len(ss)
      /\ \A k \in 1 .. Len(ss) :
            t[(2 * (k - 1)) + 1] = ss[k][1] /\ t[(2 * (k - 1)) + 2] = ss[k][2]
  <2>1. \A k \in 1 .. Len(ss) : Len(ss[k]) = 2
    BY <1>5
  <2>2. t \in Seq(AllReads) /\ Len(t) = 2 * Len(ss) /\ InPairs(ss, t)
    BY <1>3, <1>6, <2>1, FlattenPairs
  <2>3. QED
    BY <2>2 DEF InPairs
<1>8. \A x : x \in Range(t) <=> \E k \in 1 .. Len(ss) : \E j \in 1 .. Len(ss[k]) : x = ss[k][j]
  <2>1. HasAll(ss, t)
    BY <1>3, <1>6, FlattenRange
  <2>2. QED
    BY <2>1, Zenon DEF HasAll
<1>9. ASSUME NEW x \in Range(t)
      PROVE  \E i \in 0 .. n - 1 : x = InstancePort(i) \/ x = InstanceIP(i)
  <2>1. PICK k \in 1 .. Len(ss) : \E j \in 1 .. Len(ss[k]) : x = ss[k][j]
    BY <1>8, Zenon
  <2>2. x = InstancePort(k - 1) \/ x = InstanceIP(k - 1)
    <3>1. Len(ss[k]) = 2 /\ \A j \in 1 .. 2 : j = 1 \/ j = 2
      BY <1>5
    <3>2. QED
      BY <1>5, <2>1, <3>1, Zenon
  <2>3. k - 1 \in 0 .. n - 1
    BY <1>3
  <2>4. QED
    BY <2>2, <2>3
<1>10. ASSUME NEW i \in 0 .. n - 1
       PROVE  InstancePort(i) \in Range(t) /\ InstanceIP(i) \in Range(t)
  <2>1. i + 1 \in 1 .. Len(ss) /\ (i + 1) - 1 = i
    BY <1>3
  <2>2. 1 \in 1 .. 2 /\ 2 \in 1 .. 2
    OBVIOUS
  <2>3. /\ 1 \in 1 .. Len(ss[i + 1]) /\ 2 \in 1 .. Len(ss[i + 1])
        /\ ss[i + 1][1] = InstancePort((i + 1) - 1) /\ ss[i + 1][2] = InstanceIP((i + 1) - 1)
    BY <1>5, <2>1, <2>2, Zenon
  <2>4. QED
    BY <1>8, <2>1, <2>3, Zenon
<1>11. QED
  BY <1>3, <1>4, <1>5, <1>6, <1>7, <1>9, <1>10

\* The elements of a list that is written out.
LEMMA Range6 ==
    ASSUME NEW a, NEW b, NEW c, NEW d, NEW e, NEW f
    PROVE  Range(<<a, b, c, d, e, f>>) = {a, b, c, d, e, f}
BY DEF Range

\* The same for five elements ...
LEMMA Range5 ==
    ASSUME NEW a, NEW b, NEW c, NEW d, NEW e
    PROVE  Range(<<a, b, c, d, e>>) = {a, b, c, d, e}
BY DEF Range

\* ... and for two.
LEMMA Range2 ==
    ASSUME NEW a, NEW b
    PROVE  Range(<<a, b>>) = {a, b}
BY DEF Range

\* The sequences of keys that the files are made from, and what they have.
LEMMA ClientKeysAre ==
    ASSUME NEW n \in Nat
    PROVE  /\ ClientKeys(n) \in Seq(AllReads)
           /\ \A x : x \in Range(ClientKeys(n)) <=>
                 \/ x \in {ChannelPort, ChannelIP, ClientName, ClientPort, ClientLength, UserID}
                 \/ \E i \in 0 .. n - 1 : x = PeerID(i)
<1> DEFINE t == <<ChannelPort, ChannelIP, ClientName, ClientPort, ClientLength, UserID>>
<1>1. t \in Seq(AllReads) /\ Range(t) = {ChannelPort, ChannelIP, ClientName, ClientPort,
                                         ClientLength, UserID}
  <2>1. /\ ChannelPort \in AllReads /\ ChannelIP \in AllReads /\ ClientName \in AllReads
        /\ ClientPort \in AllReads /\ ClientLength \in AllReads /\ UserID \in AllReads
    BY DEF AllReads, FixedReads
  <2>2. QED
    BY <2>1, Range6
<1>2. Peers(n) \in Seq(AllReads) /\ \A x : x \in Range(Peers(n)) <=> \E i \in 0 .. n - 1 : x = PeerID(i)
  <2>1. \A k \in 1 .. n : PeerID(k - 1) \in AllReads
    BY DEF AllReads, TableReads
  <2>2. Peers(n) \in Seq(AllReads) /\ DOMAIN Peers(n) = 1 .. n
    BY <2>1 DEF Peers
  <2>3. ASSUME NEW x PROVE x \in Range(Peers(n)) <=> \E i \in 0 .. n - 1 : x = PeerID(i)
    <3>1. x \in Range(Peers(n)) <=> \E k \in 1 .. n : x = PeerID(k - 1)
      BY DEF Range, Peers
    <3>2. \A k \in 1 .. n : k - 1 \in 0 .. n - 1
      OBVIOUS
    <3>3. \A i \in 0 .. n - 1 : i + 1 \in 1 .. n /\ (i + 1) - 1 = i
      OBVIOUS
    <3>4. (\E k \in 1 .. n : x = PeerID(k - 1)) => \E i \in 0 .. n - 1 : x = PeerID(i)
      BY <3>2, Zenon
    <3>5. (\E i \in 0 .. n - 1 : x = PeerID(i)) => \E k \in 1 .. n : x = PeerID(k - 1)
      <4>1. ASSUME NEW i \in 0 .. n - 1, x = PeerID(i) PROVE \E k \in 1 .. n : x = PeerID(k - 1)
        <5>1. i + 1 \in 1 .. n /\ x = PeerID((i + 1) - 1)
          BY <3>3, <4>1, Zenon
        <5>2. QED
          BY <5>1, Zenon
      <4>2. QED
        BY <4>1
    <3>6. QED
      BY <3>1, <3>4, <3>5
  <2>4. QED
    BY <2>2, <2>3
<1>3. ClientKeys(n) = t \o Peers(n)
  BY DEF ClientKeys
<1> HIDE DEF t
<1>4. t \o Peers(n) \in Seq(AllReads) /\ Range(t \o Peers(n)) = Range(t) \cup Range(Peers(n))
  BY <1>1, <1>2, RangeConcat
<1>5. QED
  BY <1>1, <1>2, <1>3, <1>4

Ports(n) == [k \in 1 .. n |-> ForwardPort(k - 1)]

\* Ports(n) reads the forward ports, each in its place.
LEMMA PortsAre ==
    ASSUME NEW n \in Nat
    PROVE  /\ Ports(n) \in Seq(AllReads) /\ Len(Ports(n)) = n
           /\ \A x : x \in Range(Ports(n)) <=> \E i \in 0 .. n - 1 : x = ForwardPort(i)
<1>1. \A k \in 1 .. n : ForwardPort(k - 1) \in AllReads
  BY DEF AllReads, TableReads
<1>2. Ports(n) \in Seq(AllReads) /\ DOMAIN Ports(n) = 1 .. n /\ Len(Ports(n)) = n
  BY <1>1 DEF Ports
<1>3. ASSUME NEW x PROVE x \in Range(Ports(n)) <=> \E i \in 0 .. n - 1 : x = ForwardPort(i)
  <2>1. x \in Range(Ports(n)) <=> \E k \in 1 .. n : x = ForwardPort(k - 1)
    BY DEF Range, Ports
  <2>2. \A k \in 1 .. n : k - 1 \in 0 .. n - 1
    OBVIOUS
  <2>3. \A i \in 0 .. n - 1 : i + 1 \in 1 .. n /\ (i + 1) - 1 = i
    OBVIOUS
  <2>4. ASSUME NEW i \in 0 .. n - 1, x = ForwardPort(i)
        PROVE  \E k \in 1 .. n : x = ForwardPort(k - 1)
    <3>1. i + 1 \in 1 .. n /\ x = ForwardPort((i + 1) - 1)
      BY <2>3, <2>4, Zenon
    <3>2. QED
      BY <3>1, Zenon
  <2>5. ASSUME NEW k \in 1 .. n, x = ForwardPort(k - 1)
        PROVE  \E i \in 0 .. n - 1 : x = ForwardPort(i)
    BY <2>2, <2>5, Zenon
  <2>6. QED
    BY <2>1, <2>4, <2>5, Zenon
<1>4. QED
  BY <1>2, <1>3

\* The keys that the file of a channel unit lists.
LEMMA UnitKeysAre ==
    ASSUME NEW n \in Nat
    PROVE  /\ UnitKeys(n) \in Seq(AllReads)
           /\ \A x : x \in Range(UnitKeys(n)) <=>
                 \/ x \in {MetaName, ServerIP, BackwardPort, PortLength, PortIndex,
                           ClientLength, ClientPort}
                 \/ \E i \in 0 .. n - 1 : x = ForwardPort(i) \/ x = InstancePort(i) \/ x = InstanceIP(i)
<1> DEFINE s == <<MetaName, ServerIP, BackwardPort, PortLength, PortIndex>>
           t == <<ClientLength, ClientPort>>
           p == Ports(n)
           q == Instances(n)
<1>1. /\ s \in Seq(AllReads) /\ t \in Seq(AllReads)
      /\ Range(s) = {MetaName, ServerIP, BackwardPort, PortLength, PortIndex}
      /\ Range(t) = {ClientLength, ClientPort}
  <2>1. /\ MetaName \in AllReads /\ ServerIP \in AllReads /\ BackwardPort \in AllReads
        /\ PortLength \in AllReads /\ PortIndex \in AllReads
        /\ ClientLength \in AllReads /\ ClientPort \in AllReads
    BY DEF AllReads, FixedReads
  <2>2. QED
    BY <2>1, Range5, Range2
<1>2. p \in Seq(AllReads) /\ \A x : x \in Range(p) <=> \E i \in 0 .. n - 1 : x = ForwardPort(i)
  BY PortsAre
<1>3. q \in Seq(AllReads)
      /\ \A x : x \in Range(q) <=> \E i \in 0 .. n - 1 : x = InstancePort(i) \/ x = InstanceIP(i)
  <2>1. /\ q \in Seq(AllReads)
        /\ \A x \in Range(q) : \E i \in 0 .. n - 1 : x = InstancePort(i) \/ x = InstanceIP(i)
        /\ \A i \in 0 .. n - 1 : {InstancePort(i), InstanceIP(i)} \subseteq Range(q)
    BY InstancesAre
  <2> HIDE DEF q
  <2>2. QED
    BY <2>1
<1>4. UnitKeys(n) = ((s \o p) \o t) \o q
  BY DEF UnitKeys, Ports
<1> HIDE DEF s, t, p, q
<1>5. PICK u : u = s \o p /\ u \in Seq(AllReads) /\ Range(u) = Range(s) \cup Range(p)
  <2>1. s \in Seq(AllReads) /\ p \in Seq(AllReads)
    BY <1>1, <1>2
  <2>2. QED
    BY <2>1, RangeConcat, Zenon
<1>6. PICK v : v = u \o t /\ v \in Seq(AllReads) /\ Range(v) = Range(u) \cup Range(t)
  <2>1. u \in Seq(AllReads) /\ t \in Seq(AllReads)
    BY <1>1, <1>5
  <2>2. QED
    BY <2>1, RangeConcat, Zenon
<1>7. v \o q \in Seq(AllReads) /\ Range(v \o q) = Range(v) \cup Range(q)
  <2>1. v \in Seq(AllReads) /\ q \in Seq(AllReads)
    BY <1>3, <1>6
  <2>2. QED
    BY <2>1, RangeConcat, Zenon
<1>8. ASSUME NEW x
      PROVE  x \in Range(UnitKeys(n)) <=>
                 \/ x \in {MetaName, ServerIP, BackwardPort, PortLength, PortIndex,
                           ClientLength, ClientPort}
                 \/ \E i \in 0 .. n - 1 : x = ForwardPort(i) \/ x = InstancePort(i) \/ x = InstanceIP(i)
  <2>1. x \in Range(UnitKeys(n)) <=> x \in Range(s) \/ x \in Range(p) \/ x \in Range(t) \/ x \in Range(q)
    BY <1>4, <1>5, <1>6, <1>7
  <2>2. x \in Range(s) \/ x \in Range(t) <=>
            x \in {MetaName, ServerIP, BackwardPort, PortLength, PortIndex, ClientLength, ClientPort}
    BY <1>1
  <2>3. QED
    BY <1>2, <1>3, <2>1, <2>2, Zenon
<1>9. QED
  BY <1>4, <1>5, <1>6, <1>7, <1>8

\* Every key of a file is a fixed one or one of its tables.
LEMMA KeysKnown ==
    ASSUME count \in Nat
    PROVE  /\ Keys \in Seq(AllReads)
           /\ \A x \in Range(Keys) :
                 x \in FixedReads \/ \E i \in 0 .. count - 1 : x \in TableReads(i)
<1>1. CASE IsClient
  <2>1. Keys = ClientKeys(count)
    BY <1>1 DEF Keys, KeysOf, IsClient
  <2>2. QED
    BY <2>1, ClientKeysAre DEF FixedReads, TableReads
<1>2. CASE ~IsClient
  <2>1. Keys = UnitKeys(count)
    BY <1>2 DEF Keys, KeysOf, IsClient
  <2>2. Keys \in Seq(AllReads)
    BY <2>1, UnitKeysAre
  <2>3. ASSUME NEW x \in Range(Keys)
        PROVE  x \in FixedReads \/ \E i \in 0 .. count - 1 : x \in TableReads(i)
    <3>1. \/ x \in {MetaName, ServerIP, BackwardPort, PortLength, PortIndex,
                    ClientLength, ClientPort}
          \/ \E i \in 0 .. count - 1 : x = ForwardPort(i) \/ x = InstancePort(i) \/ x = InstanceIP(i)
      BY <2>1, <2>3, UnitKeysAre
    <3>2. x \in {MetaName, ServerIP, BackwardPort, PortLength, PortIndex,
                 ClientLength, ClientPort} => x \in FixedReads
      BY DEF FixedReads
    <3>3. \A i : x = ForwardPort(i) \/ x = InstancePort(i) \/ x = InstanceIP(i) => x \in TableReads(i)
      BY DEF TableReads
    <3>4. QED
      BY <3>1, <3>2, <3>3, Zenon
  <2>4. QED
    BY <2>2, <2>3
<1>3. QED
  BY <1>1, <1>2

\* The lines of a file are those of its keys that are not left out.
LEMMA LinesAre ==
    ASSUME count \in Nat, NEW gone, NEW lines, lines = Lines(program, count, gone)
    PROVE  /\ lines \in Seq(FileLines)
           /\ gone \cap DOMAIN Keys = {} => FileLines \subseteq Range(lines)
<1> DEFINE ss == [k \in 1 .. Len(Keys) |->
                     IF k \in gone THEN <<>> ELSE <<Line(Keys[k], count, k)>>]
<1>1. Keys \in Seq(AllReads) /\ DOMAIN Keys = 1 .. Len(Keys) /\ Len(Keys) \in Nat
  BY KeysKnown
<1>2. lines = FlattenSeq(ss)
  BY <1>1 DEF Lines, Keys
<1>3. \A k \in 1 .. Len(Keys) : Line(Keys[k], count, k) \in FileLines
  BY DEF FileLines
<1>4. ASSUME NEW k \in 1 .. Len(Keys)
      PROVE  /\ ss[k] \in Seq(FileLines)
             /\ k \notin gone => Len(ss[k]) = 1 /\ ss[k][1] = Line(Keys[k], count, k)
  <2>1. CASE k \in gone
    BY <2>1
  <2>2. CASE k \notin gone
    <3>1. ss[k] = <<Line(Keys[k], count, k)>>
      BY <2>2
    <3>2. QED
      BY <1>3, <2>2, <3>1
  <2>3. QED
    BY <2>1, <2>2
<1>5. ss \in Seq(Seq(FileLines)) /\ Len(ss) = Len(Keys)
  <2>1. ss = [k \in 1 .. Len(Keys) |-> ss[k]]
    OBVIOUS
  <2> HIDE DEF ss
  <2>2. QED
    BY <1>1, <1>4, <2>1
<1> HIDE DEF ss
<1>6. lines \in Seq(FileLines) /\ HasAll(ss, lines)
  BY <1>2, <1>5, FlattenRange
<1>7. ASSUME gone \cap DOMAIN Keys = {}, NEW line \in FileLines
      PROVE  line \in Range(lines)
  <2>1. PICK k \in 1 .. Len(Keys) : line = Line(Keys[k], count, k)
    BY <1>7 DEF FileLines
  <2>2. k \in 1 .. Len(ss) /\ 1 \in 1 .. Len(ss[k]) /\ line = ss[k][1]
    <3>1. k \notin gone
      BY <1>1, <1>7
    <3>2. Len(ss[k]) = 1 /\ ss[k][1] = Line(Keys[k], count, k)
      BY <1>4, <3>1
    <3>3. 1 \in 1 .. 1
      OBVIOUS
    <3>4. QED
      BY <1>5, <2>1, <3>2, <3>3
  <2>3. QED
    BY <1>6, <2>2, Zenon DEF HasAll
<1>8. QED
  BY <1>6, <1>7

\* What Init puts into a file is a line for each key, whichever are missing.
LEMMA InitFile == Init => FileOK
<1> SUFFICES ASSUME Init PROVE FileOK
  OBVIOUS
<1>1. program \in Programs /\ count \in Lengths /\ count \in Nat
  BY CountOK DEF Init
<1>2. PICK gone : /\ complete = (gone \cap DOMAIN KeysOf(program, count) = {})
                  /\ file \in {Lines(program, count, gone), Reverse(Lines(program, count, gone))}
  BY DEF Init
<1>3. PICK lines : lines = Lines(program, count, gone)
  OBVIOUS
<1>4. /\ lines \in Seq(FileLines)
      /\ gone \cap DOMAIN Keys = {} => FileLines \subseteq Range(lines)
  BY <1>1, <1>3, LinesAre
<1>5. Reverse(lines) \in Seq(FileLines) /\ Range(Reverse(lines)) = Range(lines)
  BY <1>4, ReverseRange
<1>6. file = lines \/ file = Reverse(lines)
  BY <1>2, <1>3
<1>7. complete => gone \cap DOMAIN Keys = {}
  BY <1>2 DEF Keys
<1>8. file \in Seq(FileLines)
  BY <1>4, <1>5, <1>6
<1>9. Range(file) = Range(lines)
  BY <1>5, <1>6
<1>10. QED
  BY <1>1, <1>4, <1>7, <1>8, <1>9 DEF FileOK

\* A line and the key that it gives a value.
LineOf(line, key) ==
    /\ key \in Range(Keys) /\ line.sec = key.sec /\ line.key = key.key
    /\ key \in {ClientLength, PortLength} => line.val = count
    /\ key = PortIndex => line.val = count - 1
    /\ key \notin {ClientLength, PortLength, PortIndex} => line.val \in Nat /\ line.val > 100

\* Every line that a file can have is of a key, and every key can have one.
LEMMA KeyLines ==
    ASSUME count \in Nat
    PROVE  /\ \A line \in FileLines : \E key : LineOf(line, key)
           /\ \A key \in Range(Keys) : \E line \in FileLines : LineOf(line, key)
<1>1. \A x : x \in Range(Keys) <=> \E k \in 1 .. Len(Keys) : x = Keys[k]
  BY KeysKnown, RangeOf
<1>2. ASSUME NEW k \in 1 .. Len(Keys)
      PROVE  LineOf(Line(Keys[k], count, k), Keys[k])
  <2>1. Keys[k] \in Range(Keys)
    BY <1>1
  <2>2. k \in Nat /\ 100 + k \in Nat /\ 100 + k > 100
    BY KeysKnown
  <2>3. PICK key, line : key = Keys[k] /\ line = Line(Keys[k], count, k)
    OBVIOUS
  <2>4. /\ line.sec = key.sec /\ line.key = key.key
        /\ line.val = CASE key \in {ClientLength, PortLength} -> count
                        [] key = PortIndex -> count - 1
                        [] OTHER -> 100 + k
    BY <2>3 DEF Line
  <2>5. key \in {ClientLength, PortLength} => line.val = count
    BY <2>4, OwnNames
  <2>6. key = PortIndex => line.val = count - 1
    BY <2>4, OwnNames
  <2>7. key \notin {ClientLength, PortLength, PortIndex} => line.val = 100 + k
    BY <2>4
  <2>8. QED
    BY <2>1, <2>2, <2>3, <2>4, <2>5, <2>6, <2>7 DEF LineOf
<1>3. ASSUME NEW line \in FileLines PROVE \E key : LineOf(line, key)
  BY <1>2 DEF FileLines
<1>4. ASSUME NEW key \in Range(Keys) PROVE \E line \in FileLines : LineOf(line, key)
  BY <1>1, <1>2 DEF FileLines
<1>5. QED
  BY <1>3, <1>4

\* The keys that are read as they are written, however their names are compared.
Plain(read) ==
    \/ read \in FixedReads
    \/ count <= Radix /\ \E i \in 0 .. count - 1 : read \in TableReads(i)

\* A key that is read as it is written matches the lines with just its name.
LEMMA SameMatches ==
    ASSUME count \in Nat, NEW line \in FileLines, NEW read, Plain(read)
    PROVE  Matches(line.sec, read.sec) /\ Matches(line.key, read.key) <=>
               line.sec = read.sec /\ line.key = read.key
<1>1. PICK key : LineOf(line, key)
  BY KeyLines
<1>2. key \in Range(Keys) /\ line.sec = key.sec /\ line.key = key.key
  BY <1>1 DEF LineOf
<1>3. key \in FixedReads \/ \E i \in 0 .. count - 1 : key \in TableReads(i)
  BY <1>2, KeysKnown
<1>4. Radix \in Nat
  BY IniAssumption DEF Digits
<1>5. WellNamed(read)
  <2>1. CASE read \in FixedReads
    BY <2>1, FixedNamed
  <2>2. CASE count <= Radix /\ \E i \in 0 .. count - 1 : read \in TableReads(i)
    <3>1. PICK i \in 0 .. count - 1 : read \in TableReads(i)
      BY <2>2
    <3>2. i \in 0 .. Radix - 1
      BY <1>4, <2>2, <3>1
    <3>3. QED
      BY <3>1, <3>2, TableNamed
  <2>3. QED
    BY <2>1, <2>2 DEF Plain
<1>6. CASE WellNamed(key)
  BY <1>2, <1>5, <1>6, Exact
<1>7. CASE ~WellNamed(key)
  <2>1. PICK i \in 0 .. count - 1 : key \in TableReads(i)
    BY <1>3, <1>7, FixedNamed
  <2>2. i \in Nat /\ ~(i < Radix)
    BY <1>4, <1>7, <2>1, TableNamed
  <2>3. ~(count <= Radix)
    BY <1>4, <2>1, <2>2
  <2>4. read \in FixedReads
    BY <2>3 DEF Plain
  <2>5. /\ ~(Matches(key.sec, read.sec) /\ Matches(key.key, read.key))
        /\ ~(key.sec = read.sec /\ key.key = read.key)
    BY <2>1, <2>2, <2>4, LongNames
  <2>6. QED
    BY <1>2, <2>5
<1>8. QED
  BY <1>6, <1>7

\* read_profile therefore finds what the file says of such a key.
LEMMA ValIsSaid ==
    ASSUME FileOK, NEW read, Plain(read)
    PROVE  Val(read) = Says(read)
<1>1. \A i \in 1 .. Len(file) : file[i] \in FileLines
  BY DEF FileOK
<1>2. count \in Nat
  BY CountOK DEF FileOK
<1>3. \A i \in 1 .. Len(file) :
         Matches(file[i].sec, read.sec) /\ Matches(file[i].key, read.key) <=>
             file[i].sec = read.sec /\ file[i].key = read.key
  BY <1>1, <1>2, SameMatches
<1>4. {i \in 1 .. Len(file) : Matches(file[i].sec, read.sec) /\ Matches(file[i].key, read.key)}
        = {i \in 1 .. Len(file) : file[i].sec = read.sec /\ file[i].key = read.key}
  BY <1>3
<1>5. QED
  BY <1>4, Zenon DEF Val, Says, read_profile, Said, parse_file, SelectInSeq

\* What the file says of a name it says in a line that some key stands for.
FromKey(read, key) ==
    /\ key \in Range(Keys) /\ key.sec = read.sec /\ key.key = read.key
    /\ key \in {ClientLength, PortLength} => Says(read) = count
    /\ key = PortIndex => Says(read) = count - 1
    /\ key \notin {ClientLength, PortLength, PortIndex} => Says(read) > 100

\* What a file says comes from a line of the key; a complete file has it.
LEMMA SaidFrom ==
    ASSUME FileOK, NEW read
    PROVE  /\ Says(read) = Missing \/ \E key : FromKey(read, key)
           /\ complete /\ read \in Range(Keys) => \E key : FromKey(read, key)
<1> DEFINE I == {i \in 1 .. Len(file) : file[i].sec = read.sec /\ file[i].key = read.key}
<1>1. count \in Nat /\ (\A i \in 1 .. Len(file) : file[i] \in FileLines) /\ Len(file) \in Nat
  BY CountOK DEF FileOK
<1>2. PICK at : at = IF I # {} THEN Min(I) ELSE 0
  OBVIOUS
<1>3. Says(read) = IF at = 0 THEN Missing ELSE file[at].val
  BY <1>2, Zenon DEF Says, Said, SelectInSeq
<1>4. ASSUME I # {}
      PROVE  \E key : FromKey(read, key)
  <2>1. I \subseteq Nat
    BY <1>1
  <2>2. Min(I) \in I
    BY <1>4, <2>1, MinInSet
  <2>3. at \in I
    BY <1>2, <1>4, <2>2
  <2>4. at \in 1 .. Len(file) /\ file[at].sec = read.sec /\ file[at].key = read.key /\ at # 0
    BY <1>1, <2>3
  <2>5. Says(read) = file[at].val
    BY <1>3, <2>4
  <2>6. PICK key : LineOf(file[at], key)
    BY <1>1, <2>4, KeyLines
  <2>7. FromKey(read, key)
    BY <2>4, <2>5, <2>6 DEF FromKey, LineOf
  <2>8. QED
    BY <2>7
<1>5. ASSUME I = {} PROVE Says(read) = Missing
  BY <1>2, <1>3, <1>5
<1>6. ASSUME complete, read \in Range(Keys) PROVE I # {}
  <2>1. PICK line \in FileLines : LineOf(line, read)
    BY <1>1, <1>6, KeyLines
  <2>2. line \in Range(file)
    BY <1>6, <2>1 DEF FileOK
  <2>3. PICK i \in 1 .. Len(file) : line = file[i]
    BY <2>2, RangeOf DEF FileOK
  <2>4. file[i].sec = read.sec /\ file[i].key = read.key
    BY <2>1, <2>3 DEF LineOf
  <2>5. QED
    BY <2>4
<1> HIDE DEF I
<1>7. QED
  BY <1>4, <1>5, <1>6

\* No other key of a file has the name of a number.
LEMMA SoleKey ==
    ASSUME count \in Nat, NEW key \in Range(Keys),
           NEW fixed \in {ClientLength, PortLength, PortIndex, NoIndex},
           key.sec = fixed.sec, key.key = fixed.key
    PROVE  key = fixed
<1>1. key \in FixedReads \/ \E i \in 0 .. count - 1 : key \in TableReads(i)
  BY KeysKnown
<1>2. CASE key \in FixedReads
  BY <1>2, OwnNames
<1>3. CASE \E i \in 0 .. count - 1 : key \in TableReads(i)
  <2>1. PICK i \in 0 .. count - 1 : key \in TableReads(i)
    BY <1>3
  <2>2. fixed \in FixedReads
    BY DEF FixedReads
  <2>3. Radix \in Nat /\ (i \in 0 .. Radix - 1 \/ (i \in Nat /\ ~(i < Radix)))
    BY IniAssumption DEF Digits
  <2>4. ~(i \in 0 .. Radix - 1)
    BY <2>1, TableNamed
  <2>5. ~(i \in Nat /\ ~(i < Radix))
    BY <2>1, <2>2, LongNames
  <2>6. QED
    BY <2>3, <2>4, <2>5
<1>4. QED
  BY <1>1, <1>2, <1>3

\* The backward unit's index stands in no file.
LEMMA NoSuchIndex ==
    ASSUME count \in Nat
    PROVE  NoIndex \notin Range(Keys)
<1>1. NoIndex.key[1] = "server"
  BY FixedFields
<1>2. /\ ChannelPort.key[1] # "server" /\ ChannelIP.key[1] # "server"
      /\ ClientName.key[1] # "server" /\ ClientPort.key[1] # "server"
      /\ ClientLength.key[1] # "server" /\ UserID.key[1] # "server"
      /\ MetaName.key[1] # "server" /\ ServerIP.key[1] # "server"
      /\ BackwardPort.key[1] # "server" /\ PortLength.key[1] # "server"
      /\ PortIndex.key[1] # "server"
  BY FixedFields
<1>3. ASSUME NEW i \in Nat PROVE NoIndex \notin TableReads(i)
  <2>1. NoIndex \in FixedReads
    BY DEF FixedReads
  <2>2. Radix \in Nat /\ (i \in 0 .. Radix - 1 \/ ~(i < Radix))
    BY IniAssumption DEF Digits
  <2>3. QED
    BY <2>1, <2>2, TableNamed, LongNames
<1>4. /\ NoIndex # ChannelPort /\ NoIndex # ChannelIP /\ NoIndex # ClientName
      /\ NoIndex # ClientPort /\ NoIndex # ClientLength /\ NoIndex # UserID
      /\ NoIndex # MetaName /\ NoIndex # ServerIP /\ NoIndex # BackwardPort
      /\ NoIndex # PortLength /\ NoIndex # PortIndex
  BY <1>1, <1>2
<1>5. \A i \in 0 .. count - 1 :
         NoIndex # PeerID(i) /\ NoIndex # InstancePort(i) /\ NoIndex # InstanceIP(i) /\ NoIndex # ForwardPort(i)
  BY <1>3 DEF TableReads
<1>6. CASE IsClient
  <2>1. Keys = ClientKeys(count)
    BY <1>6 DEF Keys, KeysOf, IsClient
  <2>2. QED
    BY <1>4, <1>5, <2>1, ClientKeysAre
<1>7. CASE ~IsClient
  <2>1. Keys = UnitKeys(count)
    BY <1>7 DEF Keys, KeysOf, IsClient
  <2>2. QED
    BY <1>4, <1>5, <2>1, UnitKeysAre
<1>8. QED
  BY <1>6, <1>7

\* The numbers that decide what is read are right, if they are not missing.
LEMMA NumbersRead ==
    ASSUME FileOK
    PROVE  /\ Val(ClientLength) \in {Missing, count} /\ Val(PortLength) \in {Missing, count}
           /\ Val(PortIndex) \in {Missing, count - 1} /\ Val(NoIndex) = Missing
           /\ complete /\ ~IsClient => Val(PortIndex) = count - 1
<1>1. count \in Nat \ {0}
  BY CountOK DEF FileOK
<1>2. ASSUME NEW fixed \in {ClientLength, PortLength, PortIndex, NoIndex}
      PROVE  /\ Val(fixed) = Missing \/ FromKey(fixed, fixed)
             /\ complete /\ fixed \in Range(Keys) => FromKey(fixed, fixed)
             /\ Val(fixed) = Says(fixed)
  <2>1. Val(fixed) = Says(fixed)
    BY ValIsSaid DEF Plain, FixedReads
  <2>2. ASSUME NEW key, FromKey(fixed, key) PROVE key = fixed
    BY <1>1, <2>2, SoleKey DEF FromKey
  <2>3. QED
    BY <2>1, <2>2, SaidFrom
<1>3. ~FromKey(NoIndex, NoIndex)
  BY <1>1, NoSuchIndex DEF FromKey
<1>4. ~IsClient => PortIndex \in Range(Keys)
  BY <1>1, UnitKeysAre DEF Keys, KeysOf, IsClient
<1>5. Val(NoIndex) = Missing
  BY <1>2, <1>3
<1>6. Val(ClientLength) \in {Missing, count} /\ Val(PortLength) \in {Missing, count}
  BY <1>2 DEF FromKey
<1>7. Val(PortIndex) \in {Missing, count - 1} /\ (complete /\ ~IsClient => Val(PortIndex) = count - 1)
  BY <1>2, <1>4 DEF FromKey
<1>8. QED
  BY <1>5, <1>6, <1>7

\* In a complete file that is read as it is written no key is missing.
LEMMA CompleteRead ==
    ASSUME FileOK, complete, count <= Radix, NEW key \in Range(Keys), key.must
    PROVE  Val(key) # Missing
<1>1. count \in Nat \ {0}
  BY CountOK DEF FileOK
<1>2. Val(key) = Says(key)
  BY <1>1, KeysKnown, ValIsSaid DEF Plain
<1>3. PICK from : FromKey(key, from)
  BY SaidFrom
<1>4. from # PortIndex
  <2>1. ASSUME from = PortIndex PROVE FALSE
    <3>1. key = PortIndex
      BY <1>1, <1>3, <2>1, SoleKey DEF FromKey
    <3>2. PortIndex.must = FALSE
      BY DEF PortIndex, Key
    <3>3. QED
      BY <3>1, <3>2
  <2>2. QED
    BY <2>1
<1>5. QED
  BY <1>1, <1>2, <1>3, <1>4 DEF FromKey, Missing

-----------------------------------------------------------------------------
(* The inductive invariant: where the reading stands.                      *)

IsBackward == program = "ChannelUnitBackward"

\* The keys that a program reads once, in their order, and how many they are.
Once ==
    IF IsClient THEN ClientReads
    ELSE IF IsBackward
    THEN <<BackwardPort, ServerIP, PortLength, NoIndex, ClientLength, ClientPort>>
    ELSE <<MetaName, BackwardPort, ServerIP, PortLength, PortIndex,
           ForwardPort(Val(PortIndex)), ClientLength, ClientPort>>
Final == IF IsClient \/ IsBackward THEN 6 ELSE 8

\* The keys of the table, its rows, and whether a row has all its keys.
RowReads == IF IsClient THEN Peers(count) ELSE Instances(count)
RowVal(k) == IF IsClient THEN Val(PeerID(k - 1))
             ELSE <<Val(InstancePort(k - 1)), Val(InstanceIP(k - 1))>>
RowGood(k) == IF IsClient THEN Val(PeerID(k - 1)) # Missing
              ELSE Val(InstancePort(k - 1)) # Missing /\ Val(InstanceIP(k - 1)) # Missing

\* What can still be to read when the key at p is next.  The backward unit reads its
\* forward ports, all into one member, before the length of the table.
Todo(p) ==
    IF IsClient THEN {SubSeq(ClientReads, p, 6)}
    ELSE IF IsBackward
    THEN CASE p \in 1 .. 4 -> {SubSeq(BackwardReads, p, 4)}
           [] p = 5 -> {SubSeq(Ports(count), b + 1, count) \o <<ClientLength>> : b \in 0 .. count}
           [] p = 6 -> {<<ClientPort>> \o Instances(count)}
    ELSE CASE p \in 1 .. 5 -> {SubSeq(ForwardReads, p, 5)}
           [] p = 6 -> {<<ForwardPort(Val(PortIndex)), ClientLength>>}
           [] p = 7 -> {<<ClientLength>>}
           [] p = 8 -> {<<ClientPort>> \o Instances(count)}

\* The keys before p have been read into c, and none of them ended the reading; the
\* port of the client is only set by its key.
ReadOnce(c, p) ==
    /\ p \in 1 .. Final + 1
    /\ \A k \in 1 .. p - 1 : c[Once[k].member] = Val(Once[k]) /\ ~Stops(Once[k], Val(Once[k]))
    /\ c["clientPort"] > 0 => \E k \in 1 .. p - 1 : Once[k] = ClientPort

RowsDone(r, b) ==
    /\ b \in 0 .. count /\ r = [k \in 1 .. b |-> RowVal(k)]
    /\ \A k \in 1 .. b : RowGood(k)

AtOnce(c, t, r, p) == p \in 1 .. Final /\ ReadOnce(c, p) /\ t \in Todo(p) /\ RowsDone(r, 0)

\* Between two rows, or after the port of an instance.
AtRow(c, t, r, b) ==
    /\ ReadOnce(c, Final + 1) /\ RowsDone(r, b) /\ b < count
    /\ IF IsClient THEN t = SubSeq(Peers(count), b + 1, count)
       ELSE \/ t = SubSeq(Instances(count), (2 * b) + 1, 2 * count)
            \/ /\ t = SubSeq(Instances(count), (2 * b) + 2, 2 * count)
               /\ Val(InstancePort(b)) # Missing /\ c["instancePort"] = Val(InstancePort(b))

Reading(c, t, r) ==
    (\E p \in 1 .. Final : AtOnce(c, t, r, p)) \/ (\E b \in 0 .. count : AtRow(c, t, r, b))

\* The reading is over: with all keys, or at one that is missing.
SomeMissing == \E key \in Range(Keys) : key.must /\ Val(key) = Missing
Ended(c, r, p, b) ==
    /\ ReadOnce(c, p) /\ RowsDone(r, b)
    /\ (IsClient /\ p <= Final) => c[Once[p].member] = Val(Once[p])
    /\ (p = Final + 1 /\ b = count) \/ SomeMissing

ReadingOver(c, r) == \E p \in 1 .. Final + 1, b \in 0 .. count : Ended(c, r, p, b)

BoundOK ==
    boundTo # NoPort => pc # "reading" /\ conf["clientPort"] > 0 /\ (IsClient \/ IsBackward)

StartupInv ==
    /\ FileOK /\ DOMAIN conf = Members /\ BoundOK
    /\ pc = "reading" => Reading(conf, todo, rows)
    /\ pc # "reading" => ReadingOver(conf, rows)

\* The three kinds of program exclude each other.
LEMMA Kinds ==
    ASSUME FileOK
    PROVE  /\ IsClient => ~IsBackward
           /\ ~IsClient /\ ~IsBackward =>
                 program \in {"ChannelUnitForward", "ChannelForwardGUI"}
           /\ program \in ClientPrograms \cup {"ChannelUnitForward", "ChannelForwardGUI",
                                               "ChannelUnitBackward"}
BY StartupAssumption DEF FileOK, IsClient, IsBackward, ClientPrograms

\* The members that the keys are read into.
LEMMA FixedMembers ==
    /\ ClientName.member = "name" /\ ChannelPort.member = "channelPort"
    /\ ChannelIP.member = "channelIP" /\ ClientPort.member = "clientPort"
    /\ UserID.member = "userID" /\ ClientLength.member = "length"
    /\ MetaName.member = "name" /\ BackwardPort.member = "backwardPort"
    /\ ServerIP.member = "serverIP" /\ PortLength.member = "portLength"
    /\ PortIndex.member = "index" /\ NoIndex.member = "index"
    /\ ClientName.must /\ ChannelPort.must /\ ChannelIP.must /\ ClientPort.must
    /\ UserID.must /\ ClientLength.must /\ MetaName.must /\ BackwardPort.must
    /\ ServerIP.must /\ PortLength.must /\ ~PortIndex.must /\ ~NoIndex.must
BY DEF Key, ClientName, ChannelPort, ChannelIP, ClientPort, UserID, ClientLength, MetaName,
       BackwardPort, ServerIP, PortLength, PortIndex, NoIndex

\* The rows of a table go to members of their own, and must be there.
LEMMA TableMembers ==
    ASSUME NEW i
    PROVE  /\ PeerID(i).member = "peer" /\ InstancePort(i).member = "instancePort"
           /\ InstanceIP(i).member = "instanceIP" /\ ForwardPort(i).member = "forwardPort"
           /\ PeerID(i).must /\ InstancePort(i).must /\ InstanceIP(i).must /\ ForwardPort(i).must
BY DEF Key, PeerID, InstancePort, InstanceIP, ForwardPort

\* The keys that a client reads once, spelt out,
LEMMA OnceClient ==
    ASSUME IsClient
    PROVE  /\ Final = 6
           /\ Once[1] = ClientName /\ Once[2] = ChannelPort /\ Once[3] = ChannelIP
           /\ Once[4] = ClientPort /\ Once[5] = UserID /\ Once[6] = ClientLength
BY DEF Final, Once, ClientReads

\* those of the backward unit,
LEMMA OnceBackward ==
    ASSUME ~IsClient, IsBackward
    PROVE  /\ Final = 6
           /\ Once[1] = BackwardPort /\ Once[2] = ServerIP /\ Once[3] = PortLength
           /\ Once[4] = NoIndex /\ Once[5] = ClientLength /\ Once[6] = ClientPort
BY DEF Final, Once

\* and those of the forward units.
LEMMA OnceForward ==
    ASSUME ~IsClient, ~IsBackward
    PROVE  /\ Final = 8
           /\ Once[1] = MetaName /\ Once[2] = BackwardPort /\ Once[3] = ServerIP
           /\ Once[4] = PortLength /\ Once[5] = PortIndex
           /\ Once[6] = ForwardPort(Val(PortIndex))
           /\ Once[7] = ClientLength /\ Once[8] = ClientPort
BY DEF Final, Once

Six(j) == j = 1 \/ j = 2 \/ j = 3 \/ j = 4 \/ j = 5 \/ j = 6

\* The members that the keys of Once are read into: each one another, and none that
\* a row is put together in.
OnceMember(m, j) ==
    /\ m \in Members /\ m \notin {"peer", "instancePort", "instanceIP"}
    /\ m = "clientPort" => Once[j] = ClientPort
    /\ IsBackward => m # "forwardPort"

\* No two of the keys that are read once share a member.
LEMMA OnceMembers ==
    ASSUME FileOK
    PROVE  /\ \A j \in 1 .. Final : OnceMember(Once[j].member, j)
           /\ \A j, k \in 1 .. Final : Once[j].member = Once[k].member => j = k
           /\ Final \in {6, 8}
<1>1. CASE IsClient
  <2>1. /\ Once[1].member = "name" /\ Once[2].member = "channelPort"
        /\ Once[3].member = "channelIP" /\ Once[4].member = "clientPort"
        /\ Once[5].member = "userID" /\ Once[6].member = "length"
        /\ Once[4] = ClientPort /\ Final = 6 /\ ~IsBackward
    BY <1>1, OnceClient, FixedMembers, Kinds
  <2>2. \A j \in 1 .. Final : Six(j)
    BY <2>1 DEF Six
  <2>3. ASSUME NEW j \in 1 .. Final PROVE OnceMember(Once[j].member, j)
    BY <2>1, <2>2 DEF Six, Members, OnceMember
  <2>4. ASSUME NEW j \in 1 .. Final, NEW k \in 1 .. Final, Once[j].member = Once[k].member
        PROVE  j = k
    BY <2>1, <2>2, <2>4 DEF Six
  <2>5. QED
    BY <2>1, <2>3, <2>4
<1>2. CASE ~IsClient /\ IsBackward
  <2>1. /\ Once[1].member = "backwardPort" /\ Once[2].member = "serverIP"
        /\ Once[3].member = "portLength" /\ Once[4].member = "index"
        /\ Once[5].member = "length" /\ Once[6].member = "clientPort"
        /\ Once[6] = ClientPort /\ Final = 6
    BY <1>2, OnceBackward, FixedMembers
  <2>2. \A j \in 1 .. Final : Six(j)
    BY <2>1 DEF Six
  <2>3. ASSUME NEW j \in 1 .. Final PROVE OnceMember(Once[j].member, j)
    BY <2>1, <2>2 DEF Six, Members, OnceMember
  <2>4. ASSUME NEW j \in 1 .. Final, NEW k \in 1 .. Final, Once[j].member = Once[k].member
        PROVE  j = k
    BY <2>1, <2>2, <2>4 DEF Six
  <2>5. QED
    BY <2>1, <2>3, <2>4
<1>3. CASE ~IsClient /\ ~IsBackward
  <2>1. /\ Once[1].member = "name" /\ Once[2].member = "backwardPort"
        /\ Once[3].member = "serverIP" /\ Once[4].member = "portLength"
        /\ Once[5].member = "index" /\ Once[6].member = "forwardPort"
        /\ Once[7].member = "length" /\ Once[8].member = "clientPort"
        /\ Once[8] = ClientPort /\ Final = 8
    BY <1>3, OnceForward, FixedMembers, TableMembers
  <2>2. \A j \in 1 .. Final : Six(j) \/ j = 7 \/ j = 8
    BY <2>1 DEF Six
  <2>3. ASSUME NEW j \in 1 .. Final PROVE OnceMember(Once[j].member, j)
    BY <1>3, <2>1, <2>2 DEF Six, Members, OnceMember
  <2>4. ASSUME NEW j \in 1 .. Final, NEW k \in 1 .. Final, Once[j].member = Once[k].member
        PROVE  j = k
    BY <2>1, <2>2, <2>4 DEF Six
  <2>5. QED
    BY <2>1, <2>3, <2>4
<1>4. QED
  BY <1>1, <1>2, <1>3

\* The keys that end the reading are keys of the file, so that one of them is missing then.
LEMMA OnceKeys ==
    ASSUME FileOK
    PROVE  /\ \A j \in 1 .. Final : Once[j].must => Once[j] \in Range(Keys)
           /\ \A i \in 0 .. count - 1 :
                 IF IsClient THEN PeerID(i) \in Range(Keys)
                 ELSE {ForwardPort(i), InstancePort(i), InstanceIP(i)} \subseteq Range(Keys)
<1>1. count \in Nat \ {0}
  BY CountOK DEF FileOK
<1>2. CASE IsClient
  <2>1. \A x : x \in Range(Keys) <=>
           \/ x \in {ChannelPort, ChannelIP, ClientName, ClientPort, ClientLength, UserID}
           \/ \E i \in 0 .. count - 1 : x = PeerID(i)
    BY <1>1, <1>2, ClientKeysAre DEF Keys, KeysOf, IsClient
  <2>2. \A j \in 1 .. Final : Six(j)
    BY <1>2, OnceClient DEF Six
  <2>3. ASSUME NEW j \in 1 .. Final PROVE Once[j] \in Range(Keys)
    BY <1>2, <2>1, <2>2, OnceClient DEF Six
  <2>4. QED
    BY <1>2, <2>1, <2>3
<1>3. CASE ~IsClient
  <2>1. \A x : x \in Range(Keys) <=>
           \/ x \in {MetaName, ServerIP, BackwardPort, PortLength, PortIndex, ClientLength, ClientPort}
           \/ \E i \in 0 .. count - 1 : x = ForwardPort(i) \/ x = InstancePort(i) \/ x = InstanceIP(i)
    BY <1>1, <1>3, UnitKeysAre DEF Keys, KeysOf, IsClient
  <2>2. /\ MetaName \in Range(Keys) /\ ServerIP \in Range(Keys) /\ BackwardPort \in Range(Keys)
        /\ PortLength \in Range(Keys) /\ PortIndex \in Range(Keys)
        /\ ClientLength \in Range(Keys) /\ ClientPort \in Range(Keys)
    BY <2>1
  <2>3. \A i \in 0 .. count - 1 : {ForwardPort(i), InstancePort(i), InstanceIP(i)} \subseteq Range(Keys)
    BY <2>1
  <2>4. CASE IsBackward
    <3>1. \A j \in 1 .. Final : Six(j)
      BY <1>3, <2>4, OnceBackward DEF Six
    <3>2. QED
      BY <1>3, <2>2, <2>3, <2>4, <3>1, OnceBackward, FixedMembers DEF Six
  <2>5. CASE ~IsBackward
    <3>1. \A j \in 1 .. Final : Six(j) \/ j = 7 \/ j = 8
      BY <1>3, <2>5, OnceForward DEF Six
    <3>2. Val(PortIndex) \in 0 .. count - 1
      BY <1>1, NumbersRead DEF Missing
    <3>3. Once[6] \in Range(Keys)
      BY <1>3, <2>3, <2>5, <3>2, OnceForward
    <3>4. QED
      BY <1>3, <2>2, <2>3, <2>5, <3>1, <3>3, OnceForward DEF Six
  <2>6. QED
    BY <2>4, <2>5
<1>4. QED
  BY <1>2, <1>3

-----------------------------------------------------------------------------
(* What is still to read, after each key.                                  *)

After(read, t) == Tail(t) \o Then(read, Val(read))

OnceNext(p, t) ==
    /\ Head(t) = Once[p]
    /\ ~Stops(Once[p], Val(Once[p])) =>
          IF p = Final THEN After(Once[p], t) = RowReads ELSE After(Once[p], t) \in Todo(p + 1)

PortNext(p, t) ==
    /\ IsBackward /\ p = 5
    /\ \E b \in 0 .. count - 1 : Head(t) = ForwardPort(b) /\ After(ForwardPort(b), t) \in Todo(5)

\* Only a length and an index have more to be read after them.
LEMMA ThenNothing ==
    ASSUME NEW read, read # ClientLength, read.member # "index", NEW t,
           Tail(t) \in Seq(AllReads)
    PROVE  After(read, t) = Tail(t)
<1>1. Then(read, Val(read)) = <<>>
  BY DEF Then
<1>2. QED
  BY <1>1, ConcatEmptySeq DEF After

\* A length that is there is the number of rows in the file.
LEMMA LengthRead ==
    ASSUME FileOK, ~Stops(ClientLength, Val(ClientLength))
    PROVE  Then(ClientLength, Val(ClientLength)) =
               IF IsClient THEN Peers(count) ELSE <<ClientPort>> \o Instances(count)
<1>1. Val(ClientLength) = count
  BY NumbersRead, FixedMembers DEF Stops
<1>2. QED
  BY <1>1 DEF Then, IsClient

\* A sequence and what comes before it.
LEMMA HeadConcat ==
    ASSUME NEW S, NEW x \in S, NEW s \in Seq(S)
    PROVE  /\ <<x>> \o s # <<>> /\ Head(<<x>> \o s) = x /\ Tail(<<x>> \o s) = s
<1> DEFINE one == <<x>>
<1>1. one \in Seq(S) /\ one # <<>> /\ Head(one) = x /\ Tail(one) = <<>>
  OBVIOUS
<1> HIDE DEF one
<1>2. PICK t : t = one \o s
  OBVIOUS
<1>3. /\ Len(one) = 1 /\ one[1] = x
  BY DEF one
<1>4. /\ t \in Seq(S) /\ Len(t) = 1 + Len(s) /\ Len(s) \in Nat
      /\ \A i \in 1 .. 1 + Len(s) : t[i] = IF i <= 1 THEN one[i] ELSE s[i - 1]
  <2>1. /\ t \in Seq(S) /\ Len(t) = Len(one) + Len(s)
        /\ \A i \in 1 .. Len(one) + Len(s) : t[i] = IF i <= Len(one) THEN one[i] ELSE s[i - Len(one)]
    BY <1>1, <1>2, ConcatProperties
  <2>2. QED
    BY <1>3, <2>1, LenProperties
<1>5. t # <<>> /\ Head(t) = x
  BY <1>3, <1>4
<1>6. Tail(t) = s
  <2>1. Tail(t) \in Seq(S) /\ Len(Tail(t)) = Len(s)
    BY <1>4, <1>5
  <2>2. \A i \in 1 .. Len(s) : Tail(t)[i] = s[i]
    BY <1>4, <1>5
  <2>3. QED
    BY <2>1, <2>2, SeqEqual
<1>7. QED
  BY <1>2, <1>5, <1>6 DEF one

\* For a client: whatever can be left to read begins with the key at p, and reading
\* it leaves what can be left at the next place.
LEMMA TodoClient ==
    ASSUME FileOK, IsClient, NEW p \in 1 .. Final, NEW t \in Todo(p)
    PROVE  t # <<>> /\ OnceNext(p, t)
<1>1. Final = 6 /\ Once = ClientReads
  BY OnceClient DEF Once
<1>2. ClientReads \in Seq(AllReads) /\ Len(ClientReads) = 6
  <2>1. /\ ChannelPort \in AllReads /\ ChannelIP \in AllReads /\ ClientName \in AllReads
        /\ ClientPort \in AllReads /\ ClientLength \in AllReads /\ UserID \in AllReads
    BY DEF AllReads, FixedReads
  <2>2. QED
    BY <2>1 DEF ClientReads
<1>3. t = SubSeq(ClientReads, p, 6) /\ Todo(p + 1) = {SubSeq(ClientReads, p + 1, 6)}
  BY DEF Todo
<1>4. t # <<>> /\ Head(t) = Once[p] /\ Tail(t) = SubSeq(ClientReads, p + 1, 6)
  BY <1>1, <1>2, <1>3, RestOf
<1>5. CASE p # 6
  <2>1. Once[p] # ClientLength /\ Once[p].member # "index"
    <3>1. p = 1 \/ p = 2 \/ p = 3 \/ p = 4 \/ p = 5
      BY <1>1, <1>5
    <3>2. QED
      BY <3>1, OnceClient, FixedMembers
  <2>2. Tail(t) \in Seq(AllReads)
    <3>1. t \in Seq(AllReads)
      BY <1>1, <1>2, <1>3, RestOf
    <3>2. QED
      BY <1>4, <3>1
  <2>3. After(Once[p], t) = Tail(t)
    BY <2>1, <2>2, ThenNothing
  <2>4. QED
    BY <1>1, <1>3, <1>4, <1>5, <2>3 DEF OnceNext
<1>6. CASE p = 6
  <2>1. Tail(t) = <<>>
    BY <1>2, <1>4, <1>6
  <2>2. Once[p] = ClientLength
    BY <1>6, OnceClient
  <2>3. Peers(count) \in Seq(AllReads)
    <3>1. \A k \in 1 .. count : PeerID(k - 1) \in AllReads
      BY CountOK DEF AllReads, TableReads, FileOK
    <3>2. QED
      BY <3>1, CountOK DEF Peers, FileOK
  <2>4. ASSUME ~Stops(Once[p], Val(Once[p])) PROVE After(Once[p], t) = RowReads
    <3>1. Then(ClientLength, Val(ClientLength)) = Peers(count)
      BY <2>2, <2>4, LengthRead
    <3>2. QED
      BY <2>1, <2>2, <2>3, <3>1, ConcatEmptySeq DEF After, RowReads
  <2>5. QED
    BY <1>1, <1>4, <1>6, <2>4 DEF OnceNext
<1>7. QED
  BY <1>4, <1>5, <1>6

\* The same for a forward unit.
LEMMA TodoForward ==
    ASSUME FileOK, ~IsClient, ~IsBackward, NEW p \in 1 .. Final, NEW t \in Todo(p)
    PROVE  t # <<>> /\ OnceNext(p, t)
<1>1. Final = 8 /\ p \in 1 .. 8
  BY OnceForward
<1>2. ForwardReads \in Seq(AllReads) /\ Len(ForwardReads) = 5
  <2>1. /\ MetaName \in AllReads /\ BackwardPort \in AllReads /\ ServerIP \in AllReads
        /\ PortLength \in AllReads /\ PortIndex \in AllReads
    BY DEF AllReads, FixedReads
  <2>2. QED
    BY <2>1 DEF ForwardReads
<1>3. PICK own : own = ForwardPort(Val(PortIndex))
  OBVIOUS
<1>4. own \in AllReads /\ ClientLength \in AllReads /\ ClientPort \in AllReads
  <2>1. Val(PortIndex) \in Nat
    BY NumbersRead, CountOK DEF FileOK, Missing
  <2>2. QED
    BY <1>3, <2>1 DEF AllReads, TableReads, FixedReads
<1>5. CASE p \in 1 .. 5
  <2>1. t = SubSeq(ForwardReads, p, 5)
    BY <1>5 DEF Todo
  <2>2. t # <<>> /\ Head(t) = ForwardReads[p] /\ Tail(t) = SubSeq(ForwardReads, p + 1, 5)
        /\ t \in Seq(AllReads)
    BY <1>2, <1>5, <2>1, RestOf
  <2>3. ForwardReads[p] = Once[p]
    <3>1. p = 1 \/ p = 2 \/ p = 3 \/ p = 4 \/ p = 5
      BY <1>5
    <3>2. QED
      BY <3>1, OnceForward DEF ForwardReads
  <2>4. CASE p # 5
    <3>1. Once[p] # ClientLength /\ Once[p].member # "index"
      <4>1. p = 1 \/ p = 2 \/ p = 3 \/ p = 4
        BY <1>5, <2>4
      <4>2. QED
        BY <4>1, OnceForward, FixedMembers
    <3>2. Tail(t) \in Seq(AllReads)
      BY <2>2
    <3>3. After(Once[p], t) = Tail(t)
      BY <3>1, <3>2, ThenNothing
    <3>4. PICK q \in 1 .. 5 : q = p + 1 /\ p # Final
      BY <1>1, <1>5, <2>4
    <3>5. Todo(q) = {SubSeq(ForwardReads, q, 5)}
      BY <1>5 DEF Todo
    <3>6. After(Once[p], t) \in Todo(q)
      BY <2>2, <3>3, <3>4, <3>5
    <3>7. QED
      BY <2>2, <2>3, <3>4, <3>6 DEF OnceNext
  <2>5. CASE p = 5
    <3>1. Tail(t) = <<>>
      BY <1>2, <2>2, <2>5
    <3>2. Once[p] = PortIndex /\ PortIndex # ClientLength /\ PortIndex.member = "index"
      BY <2>5, OnceForward, OwnNames, FixedMembers
    <3>3. Then(PortIndex, Val(PortIndex)) = <<own, ClientLength>>
      BY <1>3, <3>2 DEF Then, IsBackward
    <3>4. <<own, ClientLength>> \in Seq(AllReads)
      BY <1>4
    <3>5. After(Once[p], t) = <<own, ClientLength>>
      BY <3>1, <3>2, <3>3, <3>4, ConcatEmptySeq DEF After
    <3>6. Todo(6) = {<<own, ClientLength>>}
      BY <1>3 DEF Todo
    <3>7. QED
      BY <1>1, <2>2, <2>3, <2>5, <3>5, <3>6 DEF OnceNext
  <2>6. QED
    BY <2>4, <2>5
<1>6. CASE p = 6
  <2>1. t = <<own, ClientLength>> /\ Once[p] = own
    BY <1>3, <1>6, OnceForward DEF Todo
  <2>2. t # <<>> /\ Head(t) = own /\ Tail(t) = <<ClientLength>> /\ Tail(t) \in Seq(AllReads)
    BY <1>4, <2>1
  <2>3. own # ClientLength /\ own.member # "index"
    BY <1>3, FixedMembers, TableMembers
  <2>4. After(Once[p], t) = Tail(t)
    BY <2>1, <2>2, <2>3, ThenNothing
  <2>5. Todo(7) = {<<ClientLength>>}
    BY DEF Todo
  <2>6. QED
    BY <1>1, <1>6, <2>1, <2>2, <2>4, <2>5 DEF OnceNext
<1>7. PICK rest : rest = <<ClientPort>> \o Instances(count)
  OBVIOUS
<1>8. /\ Instances(count) \in Seq(AllReads) /\ rest \in Seq(AllReads) /\ rest # <<>>
      /\ Head(rest) = ClientPort /\ Tail(rest) = Instances(count)
  <2>1. Instances(count) \in Seq(AllReads)
    BY InstancesAre, CountOK DEF FileOK
  <2>2. rest # <<>> /\ Head(rest) = ClientPort /\ Tail(rest) = Instances(count)
    BY <1>4, <1>7, <2>1, HeadConcat
  <2>3. QED
    BY <1>4, <1>7, <2>1, <2>2
<1>9. CASE p = 7
  <2>1. t = <<ClientLength>> /\ Once[p] = ClientLength
    BY <1>9, OnceForward DEF Todo
  <2>2. t # <<>> /\ Head(t) = ClientLength /\ Tail(t) = <<>>
    BY <2>1
  <2>3. ASSUME ~Stops(Once[p], Val(Once[p])) PROVE After(Once[p], t) = rest
    <3>1. Then(ClientLength, Val(ClientLength)) = rest
      BY <1>7, <2>1, <2>3, LengthRead
    <3>2. QED
      BY <1>8, <2>1, <2>2, <3>1, ConcatEmptySeq DEF After
  <2>4. Todo(8) = {rest}
    BY <1>7 DEF Todo
  <2>5. QED
    BY <1>1, <1>9, <2>1, <2>2, <2>3, <2>4 DEF OnceNext
<1>10. CASE p = 8
  <2>1. t = rest /\ Once[p] = ClientPort
    BY <1>7, <1>10, OnceForward DEF Todo
  <2>2. ClientPort # ClientLength /\ ClientPort.member # "index"
    BY FixedMembers
  <2>3. After(Once[p], t) = RowReads
    BY <1>8, <2>1, <2>2, ThenNothing DEF RowReads
  <2>4. QED
    BY <1>1, <1>8, <1>10, <2>1, <2>3 DEF OnceNext
<1>11. QED
  BY <1>1, <1>5, <1>6, <1>9, <1>10

\* The same for the backward unit, unless a forward port comes first.
LEMMA TodoBackward ==
    ASSUME FileOK, ~IsClient, IsBackward, NEW p \in 1 .. Final, ReadOnce(conf, p),
           NEW t \in Todo(p)
    PROVE  t # <<>> /\ (OnceNext(p, t) \/ PortNext(p, t))
<1>1. Final = 6 /\ p \in 1 .. 6
  BY OnceBackward
<1>2. count \in Nat \ {0}
  BY CountOK DEF FileOK
<1>3. /\ BackwardPort \in AllReads /\ ServerIP \in AllReads /\ PortLength \in AllReads
      /\ NoIndex \in AllReads /\ ClientLength \in AllReads /\ ClientPort \in AllReads
  BY DEF AllReads, FixedReads
<1>4. BackwardReads = <<BackwardPort, ServerIP, PortLength, NoIndex>>
  BY DEF BackwardReads, NoIndex
<1>5. BackwardReads \in Seq(AllReads) /\ Len(BackwardReads) = 4
  BY <1>3, <1>4
<1>6. PICK ports : ports = Ports(count)
  OBVIOUS
<1>7. ports \in Seq(AllReads) /\ Len(ports) = count /\ \A k \in 1 .. count : ports[k] = ForwardPort(k - 1)
  BY <1>2, <1>6, PortsAre DEF Ports
<1>8. Todo(5) = {SubSeq(ports, b + 1, count) \o <<ClientLength>> : b \in 0 .. count}
  BY <1>6 DEF Todo
<1>9. CASE p \in 1 .. 4
  <2>1. t = SubSeq(BackwardReads, p, 4)
    BY <1>9 DEF Todo
  <2>2. t # <<>> /\ Head(t) = BackwardReads[p] /\ Tail(t) = SubSeq(BackwardReads, p + 1, 4)
        /\ t \in Seq(AllReads)
    BY <1>5, <1>9, <2>1, RestOf
  <2>3. p = 1 \/ p = 2 \/ p = 3 \/ p = 4
    BY <1>9
  <2>4. BackwardReads[p] = Once[p]
    BY <1>4, <2>3, OnceBackward
  <2>5. CASE p # 4
    <3>1. Once[p] # ClientLength /\ Once[p].member # "index"
      BY <2>3, <2>5, OnceBackward, FixedMembers
    <3>2. Tail(t) \in Seq(AllReads)
      BY <2>2
    <3>3. After(Once[p], t) = Tail(t)
      BY <3>1, <3>2, ThenNothing
    <3>4. PICK q \in 1 .. 4 : q = p + 1 /\ p # Final
      BY <1>1, <1>9, <2>5
    <3>5. Todo(q) = {SubSeq(BackwardReads, q, 4)}
      BY <1>9 DEF Todo
    <3>6. After(Once[p], t) \in Todo(q)
      BY <2>2, <3>3, <3>4, <3>5
    <3>7. QED
      BY <2>2, <2>4, <3>4, <3>6 DEF OnceNext
  <2>6. CASE p = 4
    <3>1. Tail(t) = <<>>
      BY <1>5, <2>2, <2>6
    <3>2. Once[p] = NoIndex /\ NoIndex # ClientLength /\ NoIndex.member = "index"
      BY <2>6, OnceBackward, FixedMembers
    <3>3. conf["portLength"] = count
      <4>1. conf[Once[3].member] = Val(Once[3]) /\ ~Stops(Once[3], Val(Once[3]))
        <5>1. 3 \in 1 .. p - 1
          BY <2>6
        <5>2. QED
          BY <5>1 DEF ReadOnce
      <4>2. QED
        BY <4>1, OnceBackward, FixedMembers, NumbersRead DEF Stops
    <3>4. Then(NoIndex, Val(NoIndex)) = ports \o <<ClientLength>>
      BY <1>6, <3>2, <3>3 DEF Then, IsBackward, Ports
    <3>5. ports \o <<ClientLength>> \in Seq(AllReads)
      BY <1>3, <1>7
    <3>6. After(Once[p], t) = ports \o <<ClientLength>>
      BY <3>1, <3>2, <3>4, <3>5, ConcatEmptySeq DEF After
    <3>7. ports \o <<ClientLength>> \in Todo(5)
      <4>1. SubSeq(ports, 0 + 1, count) = ports
        BY <1>7, SubSeqFull
      <4>2. 0 \in 0 .. count
        BY <1>2
      <4>3. QED
        BY <1>8, <4>1, <4>2
    <3>8. QED
      BY <1>1, <2>2, <2>4, <2>6, <3>6, <3>7 DEF OnceNext
  <2>7. QED
    BY <2>5, <2>6
<1>10. PICK rest : rest = <<ClientPort>> \o Instances(count)
  OBVIOUS
<1>11. /\ Instances(count) \in Seq(AllReads) /\ rest \in Seq(AllReads) /\ rest # <<>>
       /\ Head(rest) = ClientPort /\ Tail(rest) = Instances(count)
  <2>1. Instances(count) \in Seq(AllReads)
    BY <1>2, InstancesAre
  <2>2. rest # <<>> /\ Head(rest) = ClientPort /\ Tail(rest) = Instances(count)
    BY <1>3, <1>10, <2>1, HeadConcat
  <2>3. QED
    BY <1>3, <1>10, <2>1, <2>2
<1>12. CASE p = 5
  <2>1. PICK b \in 0 .. count : t = SubSeq(ports, b + 1, count) \o <<ClientLength>>
    BY <1>8, <1>12
  <2>2. CASE b = count
    <3>1. SubSeq(ports, b + 1, count) = <<>>
      BY <1>2, <1>7, <2>2
    <3>2. <<ClientLength>> \in Seq(AllReads)
      BY <1>3
    <3>3. t = <<ClientLength>> /\ Once[p] = ClientLength
      BY <1>12, <2>1, <3>1, <3>2, ConcatEmptySeq, OnceBackward
    <3>4. t # <<>> /\ Head(t) = ClientLength /\ Tail(t) = <<>>
      BY <3>3
    <3>5. ASSUME ~Stops(Once[p], Val(Once[p])) PROVE After(Once[p], t) = rest
      <4>1. Then(ClientLength, Val(ClientLength)) = rest
        BY <1>10, <3>3, <3>5, LengthRead
      <4>2. QED
        BY <1>11, <3>3, <3>4, <4>1, ConcatEmptySeq DEF After
    <3>6. Todo(6) = {rest}
      BY <1>10 DEF Todo
    <3>7. QED
      BY <1>1, <1>12, <3>3, <3>4, <3>5, <3>6 DEF OnceNext
  <2>3. CASE b # count
    <3>1. b + 1 \in 1 .. Len(ports) /\ b \in 0 .. count - 1 /\ b + 1 \in 0 .. count
      BY <1>2, <1>7, <2>3
    <3>2. PICK s : s = SubSeq(ports, b + 1, count)
      OBVIOUS
    <3>3. s # <<>> /\ Head(s) = ports[b + 1] /\ s \in Seq(AllReads)
          /\ Tail(s) = SubSeq(ports, (b + 1) + 1, count)
      BY <1>7, <3>1, <3>2, RestOf
    <3>4. t = Append(s, ClientLength)
      BY <1>3, <2>1, <3>2, <3>3, AppendIsConcat
    <3>5. t # <<>> /\ Head(t) = Head(s) /\ Tail(t) = Append(Tail(s), ClientLength)
      <4>1. Len(t) = Len(s) + 1 /\ Len(s) \in Nat
        BY <1>3, <3>3, <3>4, AppendProperties
      <4>2. Head(t) = Head(s) /\ Tail(t) = Append(Tail(s), ClientLength)
        BY <3>3, <3>4, HeadTailAppend
      <4>3. QED
        BY <4>1, <4>2
    <3>6. Tail(s) \in Seq(AllReads)
      BY <3>3
    <3>7. Tail(t) = SubSeq(ports, (b + 1) + 1, count) \o <<ClientLength>> /\ Tail(t) \in Seq(AllReads)
      <4>1. PICK u : u = Tail(s)
        OBVIOUS
      <4>2. Append(u, ClientLength) = u \o <<ClientLength>> /\ Append(u, ClientLength) \in Seq(AllReads)
        BY <1>3, <3>6, <4>1, AppendIsConcat, AppendProperties
      <4>3. QED
        BY <3>3, <3>5, <4>1, <4>2
    <3>8. Head(t) = ForwardPort(b)
      <4>1. ports[b + 1] = ForwardPort((b + 1) - 1) /\ (b + 1) - 1 = b
        BY <1>7, <3>1
      <4>2. QED
        BY <3>3, <3>5, <4>1
    <3>9. After(ForwardPort(b), t) = Tail(t)
      <4>1. ForwardPort(b) # ClientLength /\ ForwardPort(b).member # "index"
        BY FixedMembers, TableMembers
      <4>2. QED
        BY <3>7, <4>1, ThenNothing
    <3>10. After(ForwardPort(b), t) \in Todo(5)
      BY <1>8, <3>1, <3>7, <3>9
    <3>11. QED
      BY <1>12, <3>1, <3>5, <3>8, <3>10 DEF PortNext
  <2>4. QED
    BY <2>2, <2>3
<1>13. CASE p = 6
  <2>1. t = rest /\ Once[p] = ClientPort
    BY <1>10, <1>13, OnceBackward DEF Todo
  <2>2. ClientPort # ClientLength /\ ClientPort.member # "index"
    BY FixedMembers
  <2>3. After(Once[p], t) = RowReads
    BY <1>11, <2>1, <2>2, ThenNothing DEF RowReads
  <2>4. QED
    BY <1>1, <1>11, <1>13, <2>1, <2>3 DEF OnceNext
<1>14. QED
  BY <1>1, <1>9, <1>12, <1>13

\* Before the last key something is left to read.
LEMMA TodoNonEmpty ==
    ASSUME FileOK, NEW p \in 1 .. Final, NEW t \in Todo(p)
    PROVE  t # <<>>
<1>1. CASE IsClient
  BY <1>1, TodoClient
<1>2. CASE ~IsClient /\ ~IsBackward
  BY <1>2, TodoForward
<1>3. CASE ~IsClient /\ IsBackward
  <2>1. p \in 1 .. 6 /\ count \in Nat \ {0}
    BY <1>3, OnceBackward, CountOK DEF FileOK
  <2>2. /\ BackwardPort \in AllReads /\ ServerIP \in AllReads /\ PortLength \in AllReads
        /\ NoIndex \in AllReads /\ ClientLength \in AllReads /\ ClientPort \in AllReads
    BY DEF AllReads, FixedReads
  <2>3. CASE p \in 1 .. 4
    <3>1. BackwardReads = <<BackwardPort, ServerIP, PortLength, NoIndex>>
      BY DEF BackwardReads, NoIndex
    <3>2. BackwardReads \in Seq(AllReads) /\ Len(BackwardReads) = 4
      BY <2>2, <3>1
    <3>3. t = SubSeq(BackwardReads, p, 4)
      BY <1>3, <2>3 DEF Todo
    <3>4. QED
      BY <2>3, <3>2, <3>3, RestOf
  <2>4. CASE p = 5
    <3>1. PICK b \in 0 .. count : t = SubSeq(Ports(count), b + 1, count) \o <<ClientLength>>
      <4>1. Todo(5) = {SubSeq(Ports(count), b + 1, count) \o <<ClientLength>> : b \in 0 .. count}
        BY <1>3 DEF Todo
      <4>2. QED
        BY <2>4, <4>1
    <3>2. PICK s : s = SubSeq(Ports(count), b + 1, count)
      OBVIOUS
    <3>3. s \in Seq(AllReads)
      <4>1. Ports(count) \in Seq(AllReads) /\ Len(Ports(count)) = count
        BY <2>1, PortsAre
      <4>2. \A i \in b + 1 .. count : Ports(count)[i] \in AllReads
        BY <2>1, <4>1
      <4>3. QED
        BY <2>1, <3>2, <4>2, SubSeqProperties
    <3>4. t = Append(s, ClientLength)
      BY <2>2, <3>1, <3>2, <3>3, AppendIsConcat
    <3>5. Len(t) = Len(s) + 1 /\ Len(s) \in Nat
      BY <2>2, <3>3, <3>4, AppendProperties
    <3>6. QED
      BY <3>5
  <2>5. CASE p = 6
    <3>1. t = <<ClientPort>> \o Instances(count)
      BY <1>3, <2>5 DEF Todo
    <3>2. Instances(count) \in Seq(AllReads)
      BY <2>1, InstancesAre
    <3>3. QED
      BY <2>2, <3>1, <3>2, HeadConcat
  <2>6. QED
    BY <2>1, <2>3, <2>4, <2>5
<1>4. QED
  BY <1>1, <1>2, <1>3

\* One read, at one of the keys that are read once.
LEMMA TodoSteps ==
    ASSUME FileOK, NEW p \in 1 .. Final, ReadOnce(conf, p), NEW t \in Todo(p)
    PROVE  t # <<>> /\ (OnceNext(p, t) \/ PortNext(p, t))
<1>1. CASE IsClient
  BY <1>1, TodoClient
<1>2. CASE ~IsClient /\ ~IsBackward
  BY <1>2, TodoForward
<1>3. CASE ~IsClient /\ IsBackward
  BY <1>3, TodoBackward
<1>4. QED
  BY <1>1, <1>2, <1>3

\* The same, at a row: the next key, and what is to read after it.
RowNext(c, t, b) ==
    \/ /\ IsClient /\ Head(t) = PeerID(b)
       /\ After(PeerID(b), t) = SubSeq(Peers(count), (b + 1) + 1, count)
    \/ /\ ~IsClient /\ Head(t) = InstancePort(b)
       /\ After(InstancePort(b), t) = SubSeq(Instances(count), (2 * b) + 2, 2 * count)
       /\ After(InstancePort(b), t) # <<>>
    \/ /\ ~IsClient /\ Head(t) = InstanceIP(b)
       /\ Val(InstancePort(b)) # Missing /\ c["instancePort"] = Val(InstancePort(b))
       /\ After(InstanceIP(b), t) = SubSeq(Instances(count), (2 * (b + 1)) + 1, 2 * count)

\* After the last of the single keys the whole table is left.
LEMMA TableMore ==
    ASSUME FileOK
    PROVE  /\ IsClient => RowReads = SubSeq(Peers(count), 0 + 1, count)
           /\ ~IsClient => RowReads = SubSeq(Instances(count), (2 * 0) + 1, 2 * count)
           /\ RowReads # <<>>
<1>1. count \in Nat \ {0}
  BY CountOK DEF FileOK
<1>2. CASE IsClient
  <2>1. \A k \in 1 .. count : PeerID(k - 1) \in AllReads
    BY <1>1 DEF AllReads, TableReads
  <2>2. Peers(count) \in Seq(AllReads) /\ Len(Peers(count)) = count
    BY <1>1, <2>1 DEF Peers
  <2>3. SubSeq(Peers(count), 0 + 1, count) = Peers(count)
    BY <2>2, SubSeqFull
  <2>4. QED
    BY <1>1, <1>2, <2>2, <2>3 DEF RowReads
<1>3. CASE ~IsClient
  <2>1. Instances(count) \in Seq(AllReads) /\ Len(Instances(count)) = 2 * count
    BY <1>1, InstancesAre
  <2>2. (2 * 0) + 1 = 1
    OBVIOUS
  <2>3. SubSeq(Instances(count), 1, 2 * count) = Instances(count)
    BY <2>1, SubSeqFull
  <2>4. Instances(count) # <<>>
    BY <1>1, <2>1
  <2>5. QED
    BY <1>3, <2>2, <2>3, <2>4 DEF RowReads
<1>4. QED
  BY <1>2, <1>3

\* Between rows, the next key is the next one of the table.
LEMMA TableSteps ==
    ASSUME FileOK, NEW c, NEW t, NEW r, NEW b \in 0 .. count, AtRow(c, t, r, b)
    PROVE  t # <<>> /\ RowNext(c, t, b)
<1>1. count \in Nat \ {0} /\ b \in Nat /\ b < count
  BY CountOK DEF FileOK, AtRow
<1>2. CASE IsClient
  <2>1. \A k \in 1 .. count : PeerID(k - 1) \in AllReads
    BY <1>1 DEF AllReads, TableReads
  <2>2. PICK s : s = Peers(count)
    OBVIOUS
  <2>3. s \in Seq(AllReads) /\ Len(s) = count /\ \A k \in 1 .. count : s[k] = PeerID(k - 1)
    BY <1>1, <2>1, <2>2 DEF Peers
  <2>4. b + 1 \in 1 .. count /\ (b + 1) - 1 = b
    BY <1>1
  <2>5. t = SubSeq(s, b + 1, count)
    BY <1>2, <2>2 DEF AtRow
  <2>6. t # <<>> /\ Head(t) = s[b + 1] /\ Tail(t) = SubSeq(s, (b + 1) + 1, count) /\ t \in Seq(AllReads)
    BY <2>3, <2>4, <2>5, RestOf
  <2>7. Head(t) = PeerID(b)
    BY <2>3, <2>4, <2>6
  <2>8. Tail(t) \in Seq(AllReads)
    BY <2>6
  <2>9. After(PeerID(b), t) = Tail(t)
    BY <2>8, ThenNothing, FixedMembers, TableMembers
  <2>10. QED
    BY <1>2, <2>2, <2>6, <2>7, <2>9 DEF RowNext
<1>3. CASE ~IsClient
  <2>1. PICK s : s = Instances(count)
    OBVIOUS
  <2>2. PICK n \in Nat : n = 2 * count
    BY <1>1
  <2>3. s \in Seq(AllReads) /\ Len(s) = n
    BY <1>1, <2>1, <2>2, InstancesAre
  <2>4. s[(2 * b) + 1] = InstancePort(b) /\ s[(2 * b) + 2] = InstanceIP(b)
    <3>1. b + 1 \in 1 .. count /\ (b + 1) - 1 = b
      BY <1>1
    <3>2. /\ s[(2 * ((b + 1) - 1)) + 1] = InstancePort((b + 1) - 1)
          /\ s[(2 * ((b + 1) - 1)) + 2] = InstanceIP((b + 1) - 1)
      BY <1>1, <2>1, <3>1, InstancesAre
    <3>3. QED
      BY <3>1, <3>2
  <2>5. PICK i : i = (2 * b) + 1
    OBVIOUS
  <2>6. /\ i \in 1 .. n /\ i + 1 \in 1 .. n /\ (2 * b) + 2 = i + 1
        /\ (2 * (b + 1)) + 1 = (i + 1) + 1
    BY <1>1, <2>2, <2>5
  <2>7. CASE t = SubSeq(s, i, n)
    <3>1. t # <<>> /\ Head(t) = s[i] /\ Tail(t) = SubSeq(s, i + 1, n) /\ t \in Seq(AllReads)
      BY <2>3, <2>6, <2>7, RestOf
    <3>2. Tail(t) \in Seq(AllReads) /\ Tail(t) # <<>>
      <4>1. SubSeq(s, i + 1, n) # <<>> /\ SubSeq(s, i + 1, n) \in Seq(AllReads)
        BY <2>3, <2>6, RestOf
      <4>2. QED
        BY <3>1, <4>1
    <3>3. After(InstancePort(b), t) = Tail(t)
      BY <3>2, ThenNothing, FixedMembers, TableMembers
    <3>4. Head(t) = InstancePort(b)
      BY <2>4, <2>5, <3>1
    <3>5. After(InstancePort(b), t) = SubSeq(Instances(count), (2 * b) + 2, 2 * count)
      BY <2>1, <2>2, <2>6, <3>1, <3>3
    <3>6. QED
      BY <1>3, <3>1, <3>2, <3>3, <3>4, <3>5 DEF RowNext
  <2>8. CASE /\ t = SubSeq(s, i + 1, n)
             /\ Val(InstancePort(b)) # Missing /\ c["instancePort"] = Val(InstancePort(b))
    <3>1. t # <<>> /\ Head(t) = s[i + 1] /\ Tail(t) = SubSeq(s, (i + 1) + 1, n) /\ t \in Seq(AllReads)
      BY <2>3, <2>6, <2>8, RestOf
    <3>2. Tail(t) \in Seq(AllReads)
      BY <3>1
    <3>3. After(InstanceIP(b), t) = Tail(t)
      BY <3>2, ThenNothing, FixedMembers, TableMembers
    <3>4. Head(t) = InstanceIP(b)
      BY <2>4, <2>6, <3>1
    <3>5. After(InstanceIP(b), t) = SubSeq(Instances(count), (2 * (b + 1)) + 1, 2 * count)
      BY <2>1, <2>2, <2>6, <3>1, <3>3
    <3>6. QED
      BY <1>3, <2>8, <3>1, <3>4, <3>5 DEF RowNext
  <2>9. QED
    BY <1>3, <2>1, <2>2, <2>5, <2>6, <2>7, <2>8 DEF AtRow
<1>4. QED
  BY <1>2, <1>3

-----------------------------------------------------------------------------
(* One step.                                                               *)

\* A key that is read once changes nothing of what was read before.
LEMMA ReadOnceMore ==
    ASSUME FileOK, DOMAIN conf = Members, NEW p \in 1 .. Final, ReadOnce(conf, p),
           NEW c, c = [conf EXCEPT ![Once[p].member] = Val(Once[p])]
    PROVE  /\ c[Once[p].member] = Val(Once[p])
           /\ Stops(Once[p], Val(Once[p])) => ReadOnce(c, p)
           /\ ~Stops(Once[p], Val(Once[p])) => ReadOnce(c, p + 1)
<1>1. PICK n \in {6, 8} : n = Final
  BY OnceMembers
<1>2. PICK m : m = Once[p].member
  OBVIOUS
<1>3. /\ m \in Members /\ "clientPort" \in Members
      /\ m = "clientPort" => Once[p] = ClientPort
  BY <1>2, OnceMembers DEF OnceMember, Members
<1>4. c[m] = Val(Once[p]) /\ \A x \in Members : x # m => c[x] = conf[x]
  BY <1>2, <1>3
<1>5. \A k \in 1 .. p - 1 :
         c[Once[k].member] = Val(Once[k]) /\ ~Stops(Once[k], Val(Once[k]))
  <2> SUFFICES ASSUME NEW k \in 1 .. p - 1
               PROVE  c[Once[k].member] = Val(Once[k]) /\ ~Stops(Once[k], Val(Once[k]))
    OBVIOUS
  <2>1. k \in 1 .. n /\ p \in 1 .. n /\ k # p
    BY <1>1
  <2>2. Once[k].member # m /\ Once[k].member \in Members
    BY <1>1, <1>2, <2>1, OnceMembers DEF OnceMember
  <2>3. QED
    BY <1>4, <2>2 DEF ReadOnce
<1>6. /\ p \in 1 .. Final + 1 /\ p + 1 \in 1 .. Final + 1 /\ (p + 1) - 1 = p /\ p \in 1 .. p
      /\ \A k \in 1 .. p : k \in 1 .. p - 1 \/ k = p
      /\ \A k \in 1 .. p - 1 : k \in 1 .. p
  BY <1>1
<1>7. conf["clientPort"] > 0 => \E k \in 1 .. p - 1 : Once[k] = ClientPort
  BY DEF ReadOnce
<1>8. CASE Stops(Once[p], Val(Once[p]))
  <2>1. c["clientPort"] > 0 => \E k \in 1 .. p - 1 : Once[k] = ClientPort
    <3>1. CASE m = "clientPort"
      BY <1>4, <1>8, <3>1 DEF Stops, Missing
    <3>2. CASE m # "clientPort"
      BY <1>3, <1>4, <1>7, <3>2
    <3>3. QED
      BY <3>1, <3>2
  <2>2. QED
    BY <1>2, <1>4, <1>5, <1>6, <1>8, <2>1 DEF ReadOnce
<1>9. CASE ~Stops(Once[p], Val(Once[p]))
  <2>1. c["clientPort"] > 0 => \E k \in 1 .. p : Once[k] = ClientPort
    <3>1. CASE m = "clientPort"
      BY <1>3, <1>6, <3>1
    <3>2. CASE m # "clientPort"
      BY <1>3, <1>4, <1>6, <1>7, <3>2
    <3>3. QED
      BY <3>1, <3>2
  <2>2. \A k \in 1 .. p : c[Once[k].member] = Val(Once[k]) /\ ~Stops(Once[k], Val(Once[k]))
    BY <1>2, <1>4, <1>5, <1>6, <1>9
  <2>3. QED
    BY <1>2, <1>4, <1>6, <1>9, <2>1, <2>2 DEF ReadOnce
<1>10. QED
  BY <1>8, <1>9

\* Nor does a key of a table.
LEMMA ReadOnceStill ==
    ASSUME FileOK, DOMAIN conf = Members, NEW p, ReadOnce(conf, p), NEW m \in Members, NEW v,
           m \in {"peer", "instancePort", "instanceIP"} \/ (IsBackward /\ m = "forwardPort"),
           NEW c, c = [conf EXCEPT ![m] = v]
    PROVE  ReadOnce(c, p) /\ c[m] = v
<1>1. PICK n \in {6, 8} : n = Final
  BY OnceMembers
<1>2. p \in 1 .. n + 1
  BY <1>1 DEF ReadOnce
<1>3. c[m] = v /\ \A x \in Members : x # m => c[x] = conf[x]
  OBVIOUS
<1>4. m # "clientPort" /\ "clientPort" \in Members
  BY DEF Members
<1>5. ASSUME NEW k \in 1 .. p - 1 PROVE c[Once[k].member] = conf[Once[k].member]
  <2>1. k \in 1 .. Final
    BY <1>1, <1>2
  <2>2. Once[k].member \in Members /\ Once[k].member # m
    BY <2>1, OnceMembers DEF OnceMember
  <2>3. QED
    BY <1>3, <2>2
<1>6. c["clientPort"] = conf["clientPort"]
  BY <1>3, <1>4
<1>7. QED
  BY <1>3, <1>5, <1>6 DEF ReadOnce

\* What readInitFile does with the key that comes next.
LEMMA OneRead ==
    ASSUME readInitFile, NEW read, read = Head(todo)
    PROVE  /\ conf' = [conf EXCEPT ![read.member] = Val(read)]
           /\ Stops(read, Val(read)) => pc' = "init" /\ rows' = rows
           /\ ~Stops(read, Val(read)) =>
                 /\ todo' = After(read, todo)
                 /\ rows' = rows \o Row(read, Val(read))
                 /\ pc' = IF todo' = <<>> THEN "init" ELSE "reading"
           /\ UNCHANGED <<program, file, count, complete, boundTo>>
BY DEF readInitFile, Val, After

\* Reading a single key completes no row.
LEMMA NoRow ==
    ASSUME NEW read, read.member \notin {"peer", "instanceIP"}, RowsDone(rows, 0)
    PROVE  rows \o Row(read, Val(read)) = rows
<1>1. Row(read, Val(read)) = <<>>
  BY DEF Row
<1>2. rows = <<>>
  BY DEF RowsDone
<1>3. QED
  BY <1>1, <1>2

\* What a read leaves: it goes on, or it is over.
ReadLeft ==
    \/ pc' = "reading" /\ Reading(conf', todo', rows')
    \/ pc' = "init" /\ ReadingOver(conf', rows')

\* readInitFile at a single key leaves the reading at the next place, or ends it.
LEMMA ReadAtOnce ==
    ASSUME FileOK, DOMAIN conf = Members, readInitFile,
           NEW p \in 1 .. Final, AtOnce(conf, todo, rows, p)
    PROVE  ReadLeft
<1>1. ReadOnce(conf, p) /\ todo \in Todo(p) /\ RowsDone(rows, 0)
  BY DEF AtOnce
<1>2. PICK n \in {6, 8} : n = Final
  BY OnceMembers
<1>3. p \in 1 .. n /\ 0 \in 0 .. count /\ count \in Nat \ {0}
  BY <1>2, CountOK DEF FileOK
<1>4. todo # <<>> /\ (OnceNext(p, todo) \/ PortNext(p, todo))
  BY <1>1, TodoSteps
<1>5. CASE OnceNext(p, todo)
  <2>1. Head(todo) = Once[p]
    BY <1>5 DEF OnceNext
  <2>2. PICK c : c = conf' /\ c = [conf EXCEPT ![Once[p].member] = Val(Once[p])]
    BY <2>1, OneRead
  <2>3. Once[p].member \notin {"peer", "instanceIP"}
    BY OnceMembers DEF OnceMember
  <2>4. CASE Stops(Once[p], Val(Once[p]))
    <3>1. ReadOnce(c, p) /\ c[Once[p].member] = Val(Once[p])
      BY <1>1, <2>2, <2>4, ReadOnceMore
    <3>2. SomeMissing
      BY <2>4, OnceKeys DEF Stops, SomeMissing
    <3>3. Ended(c, rows, p, 0)
      BY <1>1, <3>1, <3>2 DEF Ended
    <3>4. pc' = "init" /\ rows' = rows
      BY <2>1, <2>4, OneRead
    <3>5. p \in 1 .. Final + 1
      BY <1>2, <1>3
    <3>6. QED
      BY <1>3, <2>2, <3>3, <3>4, <3>5 DEF ReadLeft, ReadingOver
  <2>5. CASE ~Stops(Once[p], Val(Once[p]))
    <3>1. ReadOnce(c, p + 1)
      BY <1>1, <2>2, <2>5, ReadOnceMore
    <3>2. /\ todo' = After(Once[p], todo) /\ rows' = rows
          /\ pc' = IF todo' = <<>> THEN "init" ELSE "reading"
      BY <1>1, <2>1, <2>3, <2>5, OneRead, NoRow
    <3>3. CASE p = Final
      <4>1. todo' = RowReads
        BY <1>5, <2>5, <3>2, <3>3 DEF OnceNext
      <4>2. AtRow(c, RowReads, rows, 0)
        BY <1>1, <1>3, <3>1, <3>3, TableMore DEF AtRow
      <4>3. Reading(c, RowReads, rows)
        BY <1>3, <4>2 DEF Reading
      <4>4. QED
        BY <2>2, <3>2, <4>1, <4>3, TableMore DEF ReadLeft
    <3>4. CASE p # Final
      <4>1. PICK q \in 1 .. Final : q = p + 1
        BY <1>2, <1>3, <3>4
      <4>2. todo' \in Todo(q)
        BY <1>5, <2>5, <3>2, <3>4, <4>1 DEF OnceNext
      <4>3. PICK t : t = todo'
        OBVIOUS
      <4>4. t # <<>>
        BY <4>2, <4>3, TodoNonEmpty
      <4>5. AtOnce(c, t, rows, q)
        BY <1>1, <3>1, <4>1, <4>2, <4>3 DEF AtOnce
      <4>6. Reading(c, t, rows)
        BY <4>5 DEF Reading
      <4>7. QED
        BY <2>2, <3>2, <4>3, <4>4, <4>6 DEF ReadLeft
    <3>5. QED
      BY <3>3, <3>4
  <2>6. QED
    BY <2>4, <2>5
<1>6. CASE PortNext(p, todo)
  <2>1. PICK b \in 0 .. count - 1 : /\ Head(todo) = ForwardPort(b)
                                    /\ After(ForwardPort(b), todo) \in Todo(5)
    BY <1>6 DEF PortNext
  <2>2. PICK read : read = ForwardPort(b)
    OBVIOUS
  <2>3. IsBackward /\ ~IsClient /\ p = 5 /\ read.member = "forwardPort" /\ "forwardPort" \in Members
        /\ read.must
    BY <1>6, <2>2, TableMembers, Kinds DEF PortNext, Members
  <2>4. PICK c : c = conf' /\ c = [conf EXCEPT ![read.member] = Val(read)]
    BY <2>1, <2>2, OneRead
  <2>5. ReadOnce(c, p)
    <3>1. PICK m, v : m = read.member /\ v = Val(read)
      OBVIOUS
    <3>2. m \in Members /\ IsBackward /\ m = "forwardPort" /\ c = [conf EXCEPT ![m] = v]
      BY <2>3, <2>4, <3>1
    <3>3. QED
      BY <1>1, <3>2, ReadOnceStill
  <2>6. CASE Stops(read, Val(read))
    <3>1. SomeMissing
      <4>1. read \in Range(Keys)
        BY <2>2, <2>3, OnceKeys
      <4>2. QED
        BY <2>6, <4>1 DEF Stops, SomeMissing
    <3>2. Ended(c, rows, p, 0)
      BY <1>1, <2>3, <2>5, <3>1 DEF Ended
    <3>3. pc' = "init" /\ rows' = rows
      BY <2>1, <2>2, <2>6, OneRead
    <3>4. p \in 1 .. Final + 1
      BY <1>2, <1>3
    <3>5. QED
      BY <1>3, <2>4, <3>2, <3>3, <3>4 DEF ReadLeft, ReadingOver
  <2>7. CASE ~Stops(read, Val(read))
    <3>1. /\ todo' = After(read, todo) /\ rows' = rows
          /\ pc' = IF todo' = <<>> THEN "init" ELSE "reading"
      BY <1>1, <2>1, <2>2, <2>3, <2>7, OneRead, NoRow
    <3>2. PICK t : t = todo'
      OBVIOUS
    <3>3. t \in Todo(p)
      BY <2>1, <2>2, <2>3, <3>1, <3>2
    <3>4. t # <<>>
      BY <3>3, TodoNonEmpty
    <3>5. Reading(c, t, rows)
      BY <1>1, <2>5, <3>3 DEF AtOnce, Reading
    <3>6. QED
      BY <2>4, <3>1, <3>2, <3>4, <3>5 DEF ReadLeft
  <2>8. QED
    BY <2>6, <2>7
<1>7. QED
  BY <1>4, <1>5, <1>6

\* A row that has all its keys extends the rows read so far.
LEMMA OneMoreRow ==
    ASSUME count \in Nat, NEW b \in Nat, b < count, NEW r, RowsDone(r, b), RowGood(b + 1)
    PROVE  RowsDone(r \o <<RowVal(b + 1)>>, b + 1)
<1>1. PICK S : S = {RowVal(k) : k \in 1 .. count}
  OBVIOUS
<1>2. PICK x, n : x = RowVal(b + 1) /\ n = b + 1
  OBVIOUS
<1>3. n \in 1 .. count /\ n \in Nat /\ \A k \in 1 .. n : k \in 1 .. count /\ (k \in 1 .. b \/ k = n)
  BY <1>2
<1>4. x \in S /\ \A k \in 1 .. n : RowVal(k) \in S
  BY <1>1, <1>2, <1>3
<1>5. r = [k \in 1 .. b |-> RowVal(k)]
  BY DEF RowsDone
<1>6. r \in Seq(S) /\ Len(r) = b
  <2>1. \A k \in 1 .. b : RowVal(k) \in S
    BY <1>2, <1>3, <1>4
  <2>2. QED
    BY <1>5, <2>1
<1>7. \A k \in 1 .. b : r[k] = RowVal(k)
  BY <1>5
<1>8. Append(r, x) \in Seq(S) /\ Len(Append(r, x)) = n
      /\ \A k \in 1 .. n : Append(r, x)[k] = RowVal(k)
  <2>1. /\ Append(r, x) \in Seq(S) /\ Len(Append(r, x)) = Len(r) + 1
        /\ \A k \in 1 .. Len(r) : Append(r, x)[k] = r[k]
        /\ Append(r, x)[Len(r) + 1] = x
    BY <1>4, <1>6, AppendProperties
  <2>2. ASSUME NEW k \in 1 .. n PROVE Append(r, x)[k] = RowVal(k)
    <3>1. CASE k \in 1 .. b
      BY <1>6, <1>7, <2>1, <3>1
    <3>2. CASE k = n
      BY <1>2, <1>6, <2>1, <3>2
    <3>3. QED
      BY <1>3, <3>1, <3>2
  <2>3. QED
    BY <1>2, <1>6, <2>1, <2>2
<1>9. PICK u : u = Append(r, x)
  OBVIOUS
<1>10. u = [k \in 1 .. n |-> RowVal(k)]
  <2>1. u = [k \in 1 .. n |-> u[k]]
    <3>1. u \in Seq(S) /\ Len(u) = n
      BY <1>8, <1>9
    <3>2. QED
      BY <3>1
  <2>2. QED
    BY <1>8, <1>9, <2>1
<1>11. r \o <<x>> = u
  BY <1>4, <1>6, <1>9, AppendIsConcat
<1>12. \A k \in 1 .. n : RowGood(k)
  <2>1. \A k \in 1 .. b : RowGood(k)
    BY DEF RowsDone
  <2>2. QED
    BY <1>2, <1>3, <2>1
<1>13. n \in 0 .. count
  BY <1>3
<1>14. RowsDone(u, n)
  BY <1>10, <1>12, <1>13 DEF RowsDone
<1>15. QED
  BY <1>2, <1>11, <1>14

\* With a row complete the next one follows, or the reading is over.
LEMMA RowLeft ==
    ASSUME FileOK, NEW b \in Nat, b < count, NEW c, ReadOnce(c, Final + 1), NEW t, NEW r,
           RowsDone(r, b + 1),
           IF IsClient THEN t = SubSeq(Peers(count), (b + 1) + 1, count)
           ELSE t = SubSeq(Instances(count), (2 * (b + 1)) + 1, 2 * count)
    PROVE  IF t = <<>> THEN ReadingOver(c, r) ELSE Reading(c, t, r)
<1>1. count \in Nat \ {0}
  BY CountOK DEF FileOK
<1>2. PICK n : n = b + 1
  OBVIOUS
<1>3. n \in 0 .. count
  BY <1>1, <1>2
<1>4. CASE n < count
  <2>1. AtRow(c, t, r, n)
    BY <1>2, <1>4 DEF AtRow
  <2>2. t # <<>>
    BY <1>3, <2>1, TableSteps
  <2>3. QED
    BY <1>3, <2>1, <2>2 DEF Reading
<1>5. CASE n = count
  <2>1. t = <<>>
    <3>1. CASE IsClient
      <4>1. t = SubSeq(Peers(count), count + 1, count)
        BY <1>2, <1>5, <3>1
      <4>2. Len(Peers(count)) = count
        BY <1>1 DEF Peers
      <4>3. QED
        BY <1>1, <4>1, <4>2
    <3>2. CASE ~IsClient
      <4>1. PICK m \in Nat : m = 2 * count
        BY <1>1
      <4>2. t = SubSeq(Instances(count), m + 1, m)
        BY <1>2, <1>5, <3>2, <4>1
      <4>3. QED
        BY <4>1, <4>2
    <3>3. QED
      BY <3>1, <3>2
  <2>2. PICK p : p = Final + 1
    OBVIOUS
  <2>3. p \in 1 .. Final + 1 /\ ~(p <= Final)
    BY <2>2, OnceMembers
  <2>4. Ended(c, r, p, n)
    BY <1>2, <1>5, <2>2, <2>3 DEF Ended
  <2>5. QED
    BY <1>3, <2>1, <2>3, <2>4 DEF ReadingOver
<1>6. QED
  BY <1>1, <1>2, <1>4, <1>5

\* The reading ends within the table if a key of it is missing.
LEMMA RowStops ==
    ASSUME FileOK, NEW b \in 0 .. count, NEW c, ReadOnce(c, Final + 1), NEW r, RowsDone(r, b),
           SomeMissing
    PROVE  ReadingOver(c, r)
<1>1. PICK p : p = Final + 1
  OBVIOUS
<1>2. p \in 1 .. Final + 1 /\ ~(p <= Final)
  BY <1>1, OnceMembers
<1>3. Ended(c, r, p, b)
  BY <1>1, <1>2 DEF Ended
<1>4. QED
  BY <1>2, <1>3 DEF ReadingOver

\* readInitFile at a key of the table does so too.
LEMMA ReadAtRow ==
    ASSUME FileOK, DOMAIN conf = Members, readInitFile,
           NEW b \in 0 .. count, AtRow(conf, todo, rows, b)
    PROVE  ReadLeft
<1>1. ReadOnce(conf, Final + 1) /\ RowsDone(rows, b) /\ b < count
  BY DEF AtRow
<1>2. count \in Nat \ {0} /\ b \in Nat /\ (b + 1) - 1 = b /\ b \in 0 .. count - 1
  BY <1>1, CountOK DEF FileOK
<1>3. todo # <<>> /\ RowNext(conf, todo, b)
  BY TableSteps
<1>4. PICK read : read = Head(todo)
  OBVIOUS
<1>5. PICK v, c, m : /\ v = Val(read) /\ m = read.member
                     /\ c = conf' /\ c = [conf EXCEPT ![m] = v]
  BY <1>4, OneRead
<1>6. /\ m \in {"peer", "instancePort", "instanceIP"} /\ m \in Members
      /\ read.must /\ read \in Range(Keys)
  BY <1>2, <1>3, <1>4, <1>5, TableMembers, OnceKeys DEF RowNext, Members
<1>7. ReadOnce(c, Final + 1) /\ c[m] = v
  <2>1. PICK p : p = Final + 1
    OBVIOUS
  <2>2. ReadOnce(conf, p) /\ m \in {"peer", "instancePort", "instanceIP"} /\ m \in Members
        /\ c = [conf EXCEPT ![m] = v]
    BY <1>1, <1>5, <1>6, <2>1
  <2>3. ReadOnce(c, p) /\ c[m] = v
    BY <2>2, ReadOnceStill
  <2>4. QED
    BY <2>1, <2>3
<1>8. CASE Stops(read, v)
  <2>1. SomeMissing
    BY <1>5, <1>6, <1>8 DEF Stops, SomeMissing
  <2>2. ReadingOver(c, rows)
    BY <1>1, <1>7, <2>1, RowStops
  <2>3. pc' = "init" /\ rows' = rows
    BY <1>4, <1>5, <1>8, OneRead
  <2>4. QED
    BY <1>5, <2>2, <2>3 DEF ReadLeft
<1>9. CASE ~Stops(read, v)
  <2>1. v # Missing
    BY <1>6, <1>9 DEF Stops
  <2>2. PICK t, r : t = todo' /\ r = rows'
    OBVIOUS
  <2>3. /\ t = After(read, todo) /\ r = rows \o Row(read, v)
        /\ pc' = IF t = <<>> THEN "init" ELSE "reading"
    BY <1>4, <1>5, <1>9, <2>2, OneRead
  <2>4. CASE IsClient /\ read = PeerID(b)
    <3>1. Row(read, v) = <<v>>
      BY <2>4, TableMembers DEF Row
    <3>2. RowVal(b + 1) = v /\ RowGood(b + 1)
      BY <1>2, <1>5, <2>1, <2>4 DEF RowVal, RowGood
    <3>3. RowsDone(r, b + 1)
      BY <1>1, <1>2, <2>3, <3>1, <3>2, OneMoreRow
    <3>4. t = SubSeq(Peers(count), (b + 1) + 1, count)
      BY <1>3, <1>4, <2>3, <2>4 DEF RowNext
    <3>5. IF t = <<>> THEN ReadingOver(c, r) ELSE Reading(c, t, r)
      BY <1>1, <1>2, <1>7, <2>4, <3>3, <3>4, RowLeft
    <3>6. QED
      BY <1>5, <2>2, <2>3, <3>5 DEF ReadLeft
  <2>5. CASE ~IsClient /\ read = InstancePort(b)
    <3>1. m = "instancePort" /\ Row(read, v) = <<>>
      BY <1>5, <2>5, TableMembers DEF Row
    <3>2. r = rows
      <4>1. PICK S : S = {RowVal(k) : k \in 1 .. count}
        OBVIOUS
      <4>2. rows \in Seq(S)
        <5>1. \A k \in 1 .. b : RowVal(k) \in S
          BY <1>2, <4>1
        <5>2. QED
          BY <1>1, <1>2, <5>1 DEF RowsDone
      <4>3. QED
        BY <2>3, <3>1, <4>2, ConcatEmptySeq
    <3>3. t = SubSeq(Instances(count), (2 * b) + 2, 2 * count) /\ t # <<>>
      <4>1. InstancePort(b) # InstanceIP(b)
        BY TableMembers
      <4>2. QED
        BY <1>3, <1>4, <2>3, <2>5, <4>1 DEF RowNext
    <3>4. AtRow(c, t, rows, b)
      BY <1>1, <1>5, <1>7, <2>1, <2>5, <3>1, <3>3 DEF AtRow
    <3>5. Reading(c, t, rows)
      BY <3>4 DEF Reading
    <3>6. QED
      BY <1>5, <2>2, <2>3, <3>2, <3>3, <3>5 DEF ReadLeft
  <2>6. CASE ~IsClient /\ read = InstanceIP(b)
    <3>1. InstancePort(b) # InstanceIP(b)
      BY TableMembers
    <3>2. /\ Val(InstancePort(b)) # Missing /\ conf["instancePort"] = Val(InstancePort(b))
          /\ t = SubSeq(Instances(count), (2 * (b + 1)) + 1, 2 * count)
      BY <1>3, <1>4, <2>3, <2>6, <3>1 DEF RowNext
    <3>3. Row(read, v) = <<<<Val(InstancePort(b)), v>>>>
      BY <2>6, <3>2, TableMembers DEF Row
    <3>4. RowVal(b + 1) = <<Val(InstancePort(b)), v>> /\ RowGood(b + 1)
      BY <1>2, <1>5, <2>1, <2>6, <3>2 DEF RowVal, RowGood
    <3>5. RowsDone(r, b + 1)
      BY <1>1, <1>2, <2>3, <3>3, <3>4, OneMoreRow
    <3>6. IF t = <<>> THEN ReadingOver(c, r) ELSE Reading(c, t, r)
      BY <1>1, <1>2, <1>7, <2>6, <3>2, <3>5, RowLeft
    <3>7. QED
      BY <1>5, <2>2, <2>3, <3>6 DEF ReadLeft
  <2>7. QED
    BY <1>3, <1>4, <2>4, <2>5, <2>6 DEF RowNext
<1>10. QED
  BY <1>8, <1>9

\* Nothing but the reading itself changes what there is to read.
Frame == UNCHANGED <<program, file, count, complete>>

\* What depends on the program and its file only is the same after a step.
LEMMA Rigid ==
    ASSUME Frame
    PROVE  /\ Once' = Once /\ Final' = Final /\ Keys' = Keys /\ FileLines' = FileLines
           /\ IsClient' = IsClient /\ IsBackward' = IsBackward
           /\ \A p : Todo(p)' = Todo(p)
           /\ \A k : RowVal(k)' = RowVal(k) /\ RowGood(k)' = RowGood(k)
<1>1. program' = program /\ file' = file /\ count' = count
  BY DEF Frame
<1>2. IsClient' = IsClient /\ IsBackward' = IsBackward
  BY <1>1 DEF IsClient, IsBackward
<1>3. Once' = Once /\ Final' = Final
  BY <1>1, <1>2 DEF Once, Final, Val
<1>4. Keys' = Keys
  BY <1>1 DEF Keys
<1>5. FileLines' = FileLines
  BY <1>1, <1>4 DEF FileLines
<1>6. \A p : Todo(p)' = Todo(p)
  BY <1>1, <1>2 DEF Todo, Val
<1>7. \A k : RowVal(k)' = RowVal(k) /\ RowGood(k)' = RowGood(k)
  BY <1>1, <1>2 DEF RowVal, RowGood, Val
<1>8. QED
  BY <1>2, <1>3, <1>4, <1>5, <1>6, <1>7

\* So the file stays what it is.
LEMMA FileKept == FileOK /\ Frame => FileOK'
<1> SUFFICES ASSUME FileOK, Frame PROVE FileOK'
  OBVIOUS
<1>1. FileLines' = FileLines
  BY Rigid
<1>2. QED
  BY <1>1 DEF FileOK, Frame

\* What was said of the new values holds in the new state: of the single keys,
LEMMA ReadOnceKept ==
    ASSUME Frame, NEW p, ReadOnce(conf', p)
    PROVE  ReadOnce(conf, p)'
<1>1. Once' = Once /\ Final' = Final /\ file' = file
  BY Rigid DEF Frame
<1>2. QED
  BY <1>1 DEF ReadOnce, Val

\* of the rows,
LEMMA RowsKept ==
    ASSUME Frame, NEW b, RowsDone(rows', b)
    PROVE  RowsDone(rows, b)'
<1>1. /\ count' = count
      /\ \A k : RowVal(k)' = RowVal(k) /\ RowGood(k)' = RowGood(k)
  BY Rigid DEF Frame
<1>2. QED
  BY <1>1 DEF RowsDone

\* of a reading that goes on,
LEMMA ReadingKept ==
    ASSUME Frame, Reading(conf', todo', rows')
    PROVE  Reading(conf, todo, rows)'
<1>1. /\ Final' = Final /\ count' = count /\ file' = file /\ IsClient' = IsClient
      /\ \A p : Todo(p)' = Todo(p)
  BY Rigid DEF Frame
<1>2. ASSUME NEW p \in 1 .. Final, AtOnce(conf', todo', rows', p)
      PROVE  AtOnce(conf, todo, rows, p)'
  <2>1. ReadOnce(conf, p)' /\ RowsDone(rows, 0)'
    BY <1>2, ReadOnceKept, RowsKept DEF AtOnce
  <2>2. todo' \in Todo(p)'
    BY <1>1, <1>2 DEF AtOnce
  <2>3. QED
    BY <1>1, <2>1, <2>2 DEF AtOnce
<1>3. ASSUME NEW b \in 0 .. count, AtRow(conf', todo', rows', b)
      PROVE  AtRow(conf, todo, rows, b)'
  <2>1. PICK p : p = Final + 1
    OBVIOUS
  <2>2. ReadOnce(conf', p) /\ RowsDone(rows', b)
    BY <1>3, <2>1 DEF AtRow
  <2>3. ReadOnce(conf, p)' /\ RowsDone(rows, b)'
    BY <2>2, ReadOnceKept, RowsKept
  <2>4. p = (Final + 1)'
    BY <1>1, <2>1
  <2>5. ReadOnce(conf, Final + 1)'
    BY <2>3, <2>4 DEF ReadOnce
  <2>6. QED
    BY <1>1, <1>3, <2>3, <2>5 DEF AtRow, Val
<1>4. QED
  BY <1>1, <1>2, <1>3 DEF Reading

\* and of one that is over.
LEMMA OverKept ==
    ASSUME Frame, ReadingOver(conf', rows')
    PROVE  ReadingOver(conf, rows)'
<1>1. /\ Final' = Final /\ count' = count /\ file' = file /\ IsClient' = IsClient
      /\ Once' = Once /\ Keys' = Keys
  BY Rigid DEF Frame
<1>2. SomeMissing => SomeMissing'
  BY <1>1 DEF SomeMissing, Val
<1>3. PICK p \in 1 .. Final + 1, b \in 0 .. count : Ended(conf', rows', p, b)
  BY DEF ReadingOver
<1>4. ReadOnce(conf, p)' /\ RowsDone(rows, b)'
  BY <1>3, ReadOnceKept, RowsKept DEF Ended
<1>5. Ended(conf, rows, p, b)'
  BY <1>1, <1>2, <1>3, <1>4 DEF Ended, Val
<1>6. QED
  BY <1>1, <1>5 DEF ReadingOver

\* The constructors leave the reading at its first key.
LEMMA InitStartup == Init => StartupInv
<1> SUFFICES ASSUME Init PROVE StartupInv
  OBVIOUS
<1>1. FileOK
  BY InitFile
<1>2. DOMAIN conf = Members /\ conf["clientPort"] = Garbage
  BY DEF Init, Constructed, Members
<1>3. BoundOK
  BY DEF Init, BoundOK
<1>4. count \in Nat \ {0} /\ 1 \in 1 .. Final /\ 1 \in 1 .. Final + 1
  BY <1>1, CountOK, OnceMembers DEF FileOK
<1>5. ReadOnce(conf, 1)
  BY <1>2, <1>4 DEF ReadOnce, Garbage
<1>6. RowsDone(rows, 0)
  <2>1. rows = <<>>
    BY DEF Init
  <2>2. \A k \in 1 .. 0 : FALSE
    OBVIOUS
  <2>3. <<>> = [k \in 1 .. 0 |-> RowVal(k)]
    OBVIOUS
  <2>4. QED
    BY <1>4, <2>1, <2>2, <2>3 DEF RowsDone
<1>7. todo \in Todo(1)
  <2>1. todo = ReadsOf(program)
    BY DEF Init
  <2>2. \A read \in FixedReads : read \in AllReads
    BY DEF AllReads
  <2>3. CASE IsClient
    <3>1. todo = ClientReads
      BY <2>1, <2>3 DEF ReadsOf, IsClient, ClientPrograms, ClientSendReads, ClientRecvReads,
                        ClientGuiReads
    <3>2. ClientReads \in Seq(AllReads) /\ Len(ClientReads) = 6
      BY <2>2 DEF ClientReads, FixedReads
    <3>3. SubSeq(ClientReads, 1, 6) = ClientReads
      BY <3>2, SubSeqFull
    <3>4. QED
      BY <2>3, <3>1, <3>3 DEF Todo
  <2>4. CASE ~IsClient /\ IsBackward
    <3>1. todo = BackwardReads /\ BackwardReads = <<BackwardPort, ServerIP, PortLength, NoIndex>>
      BY <2>1, <2>4 DEF ReadsOf, IsBackward, BackwardReads, NoIndex
    <3>2. BackwardReads \in Seq(AllReads) /\ Len(BackwardReads) = 4
      BY <2>2, <3>1 DEF FixedReads
    <3>3. SubSeq(BackwardReads, 1, 4) = BackwardReads
      BY <3>2, SubSeqFull
    <3>4. QED
      BY <2>4, <3>1, <3>3 DEF Todo
  <2>5. CASE ~IsClient /\ ~IsBackward
    <3>1. todo = ForwardReads
      BY <1>1, <2>1, <2>5, Kinds DEF ReadsOf, ForwardGuiReads
    <3>2. ForwardReads \in Seq(AllReads) /\ Len(ForwardReads) = 5
      BY <2>2 DEF ForwardReads, FixedReads
    <3>3. SubSeq(ForwardReads, 1, 5) = ForwardReads
      BY <3>2, SubSeqFull
    <3>4. QED
      BY <2>5, <3>1, <3>3 DEF Todo
  <2>6. QED
    BY <2>3, <2>4, <2>5
<1>8. Reading(conf, todo, rows)
  BY <1>4, <1>5, <1>6, <1>7 DEF AtOnce, Reading
<1>9. pc = "reading"
  BY DEF Init
<1>10. QED
  BY <1>1, <1>2, <1>3, <1>8, <1>9 DEF StartupInv

\* readInitFile keeps the invariant.
LEMMA ReadStep ==
    ASSUME StartupInv, readInitFile
    PROVE  StartupInv'
<1>1. FileOK /\ DOMAIN conf = Members /\ pc = "reading" /\ Reading(conf, todo, rows) /\ BoundOK
  BY DEF StartupInv, readInitFile
<1>2. Frame /\ boundTo' = boundTo
  BY DEF readInitFile, Frame
<1>3. ReadLeft
  <2>1. ASSUME NEW p \in 1 .. Final, AtOnce(conf, todo, rows, p) PROVE ReadLeft
    BY <1>1, <2>1, ReadAtOnce
  <2>2. ASSUME NEW b \in 0 .. count, AtRow(conf, todo, rows, b) PROVE ReadLeft
    BY <1>1, <2>2, ReadAtRow
  <2>3. QED
    BY <1>1, <2>1, <2>2 DEF Reading
<1>4. (pc' = "reading" /\ Reading(conf, todo, rows)') \/ (pc' = "init" /\ ReadingOver(conf, rows)')
  BY <1>2, <1>3, ReadingKept, OverKept DEF ReadLeft
<1>5. FileOK'
  BY <1>1, <1>2, FileKept
<1>6. DOMAIN conf' = Members
  BY <1>1 DEF readInitFile
<1>7. BoundOK'
  BY <1>1, <1>2 DEF BoundOK
<1>8. QED
  BY <1>4, <1>5, <1>6, <1>7 DEF StartupInv

\* After the reading only the socket is bound, and only by programs that have one.
Later ==
    /\ Frame /\ UNCHANGED <<conf, rows>> /\ pc # "reading" /\ pc' # "reading"
    /\ boundTo' = boundTo \/ (Bound /\ (IsClient \/ IsBackward))

\* The rest of Init and Run sets nothing but the port that is bound.
LEMMA LaterStep ==
    ASSUME \/ ClientAllInit \/ ScriptInit \/ GuiInit
           \/ ForwardInit \/ ForwardGuiInit \/ ForwardRun \/ BackwardInit \/ BackwardRun
    PROVE  Later
<1>1. CASE ClientAllInit
  BY <1>1 DEF ClientAllInit, Goto, NotBound, Later, Frame, IsClient, ClientPrograms
<1>2. CASE ScriptInit
  BY <1>2 DEF ScriptInit, Goto, NotBound, Later, Frame, IsClient, ClientPrograms
<1>3. CASE GuiInit
  BY <1>3 DEF GuiInit, Goto, NotBound, Later, Frame, IsClient, ClientPrograms
<1>4. CASE ForwardInit \/ ForwardGuiInit \/ ForwardRun \/ BackwardInit
  BY <1>4 DEF ForwardInit, ForwardGuiInit, ForwardRun, BackwardInit, Goto, NotBound, Later, Frame
<1>5. CASE BackwardRun
  BY <1>5 DEF BackwardRun, Goto, NotBound, Later, Frame, IsBackward
<1>6. QED
  BY <1>1, <1>2, <1>3, <1>4, <1>5

\* So it keeps the invariant.
LEMMA LaterKeeps ==
    ASSUME StartupInv, Later
    PROVE  StartupInv'
<1>1. FileOK /\ DOMAIN conf = Members /\ BoundOK /\ ReadingOver(conf, rows)
  BY DEF StartupInv, Later
<1>2. Frame /\ conf' = conf /\ rows' = rows /\ pc' # "reading"
  BY DEF Later
<1>3. ReadingOver(conf', rows')
  BY <1>1, <1>2
<1>4. ReadingOver(conf, rows)'
  BY <1>2, <1>3, OverKept
<1>5. FileOK'
  BY <1>1, <1>2, FileKept
<1>6. BoundOK'
  <2>1. IsClient' = IsClient /\ IsBackward' = IsBackward
    BY <1>2, Rigid
  <2>2. QED
    BY <1>1, <1>2, <2>1 DEF BoundOK, Later, Bound
<1>7. QED
  BY <1>1, <1>2, <1>4, <1>5, <1>6 DEF StartupInv

\* A step that changes nothing.
LEMMA Unchanged ==
    ASSUME StartupInv, UNCHANGED vars
    PROVE  StartupInv'
<1>1. /\ Frame /\ conf' = conf /\ rows' = rows /\ todo' = todo /\ pc' = pc /\ boundTo' = boundTo
  BY DEF vars, Frame
<1>2. FileOK' /\ DOMAIN conf' = Members
  BY <1>1, FileKept DEF StartupInv
<1>3. BoundOK'
  <2>1. IsClient' = IsClient /\ IsBackward' = IsBackward
    BY <1>1, Rigid
  <2>2. QED
    BY <1>1, <2>1 DEF BoundOK, StartupInv
<1>4. pc' = "reading" => Reading(conf, todo, rows)'
  <2>1. pc' = "reading" => Reading(conf', todo', rows')
    BY <1>1 DEF StartupInv
  <2>2. QED
    BY <1>1, <2>1, ReadingKept
<1>5. pc' # "reading" => ReadingOver(conf, rows)'
  <2>1. pc' # "reading" => ReadingOver(conf', rows')
    BY <1>1 DEF StartupInv
  <2>2. QED
    BY <1>1, <2>1, OverKept
<1>6. QED
  BY <1>2, <1>3, <1>4, <1>5 DEF StartupInv

\* Where the reading stands, at every moment: readInitFile has read its keys in their
\* order, each as the file gives it, up to the first that is missing, and with the
\* table's rows whole and in order; nothing after it changes what was read.
THEOREM ReadInOrder == Spec => []StartupInv
<1>1. StartupInv /\ [Next]_vars => StartupInv'
  <2> SUFFICES ASSUME StartupInv, [Next]_vars PROVE StartupInv'
    OBVIOUS
  <2>1. CASE readInitFile
    BY <2>1, ReadStep
  <2>2. CASE \/ ClientAllInit \/ ScriptInit \/ GuiInit
             \/ ForwardInit \/ ForwardGuiInit \/ ForwardRun \/ BackwardInit \/ BackwardRun
    BY <2>2, LaterStep, LaterKeeps
  <2>3. CASE UNCHANGED vars
    BY <2>3, Unchanged
  <2>4. QED
    BY <2>1, <2>2, <2>3 DEF Next
<1>2. QED
  BY <1>1, InitStartup, PTL DEF Spec

-----------------------------------------------------------------------------
(* What follows from it.                                                   *)

\* What a program uses, but for forward ports, is found under exactly its name.
LEMMA UsedPlain ==
    ASSUME FileOK, NEW read \in Used, read.member # "forwardPort"
    PROVE  Val(read) = Says(read)
<1>1. read \in FixedReads
  BY TableMembers DEF Used, FixedReads
<1>2. QED
  BY <1>1, ValIsSaid DEF Plain

\* With at most Radix rows the table that is read is the one that the file says.
LEMMA RowsSaid ==
    ASSUME FileOK, count <= Radix, NEW k \in 1 .. count
    PROVE  RowVal(k) = SaysRows[k]
<1>1. count \in Nat \ {0} /\ k - 1 \in 0 .. count - 1
  BY CountOK DEF FileOK
<1>2. Plain(PeerID(k - 1)) /\ Plain(InstancePort(k - 1)) /\ Plain(InstanceIP(k - 1))
  BY <1>1 DEF Plain, TableReads
<1>3. /\ Val(PeerID(k - 1)) = Says(PeerID(k - 1))
      /\ Val(InstancePort(k - 1)) = Says(InstancePort(k - 1))
      /\ Val(InstanceIP(k - 1)) = Says(InstanceIP(k - 1))
  BY <1>2, ValIsSaid
<1>4. QED
  BY <1>3 DEF RowVal, SaysRows, IsClient

\* A complete file ends the reading only after its last key, and it is read as written.
LEMMA Configured ==
    ASSUME StartupInv
    PROVE  ConfigRead
<1> SUFFICES ASSUME Started, complete, count <= Radix
             PROVE  /\ \A read \in Used : conf[read.member] = Says(read)
                    /\ rows = SaysRows
  BY DEF ConfigRead
<1>1. FileOK /\ ReadingOver(conf, rows)
  BY DEF StartupInv, Started
<1>2. PICK p \in 1 .. Final + 1, b \in 0 .. count : Ended(conf, rows, p, b)
  BY <1>1 DEF ReadingOver
<1>3. ~SomeMissing
  BY <1>1, CompleteRead DEF SomeMissing
<1>4. p = Final + 1 /\ b = count /\ ReadOnce(conf, p) /\ RowsDone(rows, b)
  BY <1>2, <1>3 DEF Ended
<1>5. count \in Nat \ {0}
  BY <1>1, CountOK DEF FileOK
<1>6. \A k \in 1 .. Final : conf[Once[k].member] = Val(Once[k])
  <2>1. p - 1 = Final
    BY <1>1, <1>4, OnceMembers
  <2>2. QED
    BY <1>4, <2>1 DEF ReadOnce
<1>7. ASSUME NEW read \in Used PROVE conf[read.member] = Says(read)
  <2>1. CASE IsClient
    <3>1. read \in {Once[1], Once[2], Once[3], Once[4], Once[5]} /\ read.member # "forwardPort"
      BY <1>7, <2>1, OnceClient, FixedMembers DEF Used, IsClient
    <3>2. 1 \in 1 .. Final /\ 2 \in 1 .. Final /\ 3 \in 1 .. Final /\ 4 \in 1 .. Final /\ 5 \in 1 .. Final
      BY <2>1, OnceClient
    <3>3. conf[read.member] = Val(read)
      BY <1>6, <3>1, <3>2
    <3>4. QED
      BY <1>1, <3>1, <3>3, UsedPlain
  <2>2. CASE ~IsClient /\ IsBackward
    <3>1. read \in {Once[1], Once[2], Once[6]} /\ read.member # "forwardPort"
      BY <1>7, <2>2, OnceBackward, FixedMembers DEF Used, IsClient, IsBackward
    <3>2. 1 \in 1 .. Final /\ 2 \in 1 .. Final /\ 6 \in 1 .. Final
      BY <2>2, OnceBackward
    <3>3. conf[read.member] = Val(read)
      BY <1>6, <3>1, <3>2
    <3>4. QED
      BY <1>1, <3>1, <3>3, UsedPlain
  <2>3. CASE ~IsClient /\ ~IsBackward
    <3>1. Val(PortIndex) = count - 1
      BY <1>1, <2>3, NumbersRead
    <3>2. read \in {Once[2], Once[3], Once[8], Once[6]} /\ Once[6] = ForwardPort(count - 1)
          /\ (read.member # "forwardPort" \/ read = ForwardPort(count - 1))
      BY <1>7, <2>3, <3>1, OnceForward, FixedMembers DEF Used, IsClient, IsBackward
    <3>3. 2 \in 1 .. Final /\ 3 \in 1 .. Final /\ 6 \in 1 .. Final /\ 8 \in 1 .. Final
      BY <2>3, OnceForward
    <3>4. conf[read.member] = Val(read)
      BY <1>6, <3>2, <3>3
    <3>5. Val(ForwardPort(count - 1)) = Says(ForwardPort(count - 1))
      <4>1. count - 1 \in 0 .. count - 1
        BY <1>5
      <4>2. Plain(ForwardPort(count - 1))
        BY <4>1 DEF Plain, TableReads
      <4>3. QED
        BY <1>1, <4>2, ValIsSaid
    <3>6. QED
      BY <1>1, <3>2, <3>4, <3>5, UsedPlain
  <2>4. QED
    BY <2>1, <2>2, <2>3
<1>8. rows = SaysRows
  <2>1. rows = [k \in 1 .. count |-> RowVal(k)]
    BY <1>4 DEF RowsDone
  <2>2. \A k \in 1 .. count : RowVal(k) = SaysRows[k]
    BY <1>1, RowsSaid
  <2>3. SaysRows = [k \in 1 .. count |-> SaysRows[k]]
    BY DEF SaysRows
  <2>4. QED
    BY <2>1, <2>2, <2>3
<1>9. QED
  BY <1>7, <1>8

\* What says where a program sends must not be missing.
LEMMA UsedMust ==
    ASSUME NEW read \in Used, read.member # "forwardPort"
    PROVE  read.must = TRUE
<1>1. /\ ClientName.must = TRUE /\ ChannelPort.must = TRUE /\ ChannelIP.must = TRUE
      /\ ClientPort.must = TRUE /\ UserID.must = TRUE
      /\ BackwardPort.must = TRUE /\ ServerIP.must = TRUE
  BY DEF ClientName, ChannelPort, ChannelIP, ClientPort, UserID, BackwardPort, ServerIP, Key
<1>2. read \in {ClientName, ChannelPort, ChannelIP, ClientPort, UserID,
                BackwardPort, ServerIP, ForwardPort(count - 1)}
  BY DEF Used
<1>3. read # ForwardPort(count - 1)
  BY TableMembers
<1>4. QED
  BY <1>1, <1>2, <1>3

\* A program that has its port has read the keys before it, and a client that after it.
LEMMA Reachable ==
    ASSUME StartupInv
    PROVE  ReachableIsConfigured
<1> SUFFICES ASSUME pc = "running", boundTo # NoPort
             PROVE  /\ \A read \in Used \ {UserID} : read.member # "forwardPort" =>
                         Says(read) # Missing /\ conf[read.member] = Says(read)
                    /\ IsClient => conf["userID"] = Says(UserID)
  BY DEF ReachableIsConfigured, IsClient, Missing
<1>1. FileOK /\ ReadingOver(conf, rows) /\ conf["clientPort"] > 0 /\ (IsClient \/ IsBackward)
  BY DEF StartupInv, BoundOK
<1>2. PICK p \in 1 .. Final + 1, b \in 0 .. count : Ended(conf, rows, p, b)
  BY <1>1 DEF ReadingOver
<1>3. ReadOnce(conf, p) /\ (IsClient /\ p <= Final => conf[Once[p].member] = Val(Once[p]))
  BY <1>2 DEF Ended
<1>4. PICK k \in 1 .. p - 1 : Once[k] = ClientPort
  BY <1>1, <1>3 DEF ReadOnce
<1>5. \A j \in 1 .. p - 1 : conf[Once[j].member] = Val(Once[j]) /\ ~Stops(Once[j], Val(Once[j]))
  BY <1>3 DEF ReadOnce
<1>6. ASSUME NEW j \in 1 .. p - 1, Once[j] \in Used, Once[j].member # "forwardPort"
      PROVE  Says(Once[j]) # Missing /\ conf[Once[j].member] = Says(Once[j])
  <2>1. Val(Once[j]) = Says(Once[j]) /\ Once[j].must = TRUE
    BY <1>1, <1>6, UsedPlain, UsedMust
  <2>2. QED
    BY <1>5, <2>1 DEF Stops
<1>7. CASE IsClient
  <2>1. Final = 6 /\ p \in 1 .. 7 /\ k \in 1 .. 6
    BY <1>7, OnceClient
  <2>2. k = 4
    <3>1. /\ Once[1].member = "name" /\ Once[2].member = "channelPort"
          /\ Once[3].member = "channelIP" /\ Once[5].member = "userID"
          /\ Once[6].member = "length" /\ Once[k].member = "clientPort"
      BY <1>4, <1>7, OnceClient, FixedMembers
    <3>2. Six(k)
      BY <2>1 DEF Six
    <3>3. QED
      BY <3>1, <3>2 DEF Six
  <2>3. 1 \in 1 .. p - 1 /\ 2 \in 1 .. p - 1 /\ 3 \in 1 .. p - 1 /\ 4 \in 1 .. p - 1
    BY <2>1, <2>2
  <2>4. Used \ {UserID} \subseteq {Once[1], Once[2], Once[3], Once[4]}
    BY <1>7, OnceClient DEF Used, IsClient
  <2>5. Once[5] = UserID /\ UserID \in Used /\ UserID.member = "userID"
    BY <1>7, OnceClient, FixedMembers DEF Used, IsClient
  <2>6. conf[UserID.member] = Val(UserID)
    <3>1. CASE p = 5
      BY <1>3, <1>7, <2>1, <2>5, <3>1
    <3>2. CASE p # 5
      <4>1. 5 \in 1 .. p - 1
        BY <2>1, <2>2, <3>2
      <4>2. QED
        BY <1>5, <2>5, <4>1
    <3>3. QED
      BY <3>1, <3>2
  <2>7. Val(UserID) = Says(UserID)
    BY <1>1, <2>5, UsedPlain
  <2>8. QED
    BY <1>6, <2>3, <2>4, <2>5, <2>6, <2>7
<1>8. CASE ~IsClient /\ IsBackward
  <2>1. Final = 6 /\ p \in 1 .. 7 /\ k \in 1 .. 6
    BY <1>8, OnceBackward
  <2>2. k = 6
    <3>1. /\ Once[1].member = "backwardPort" /\ Once[2].member = "serverIP"
          /\ Once[3].member = "portLength" /\ Once[4].member = "index"
          /\ Once[5].member = "length" /\ Once[k].member = "clientPort"
      BY <1>4, <1>8, OnceBackward, FixedMembers
    <3>2. Six(k)
      BY <2>1 DEF Six
    <3>3. QED
      BY <3>1, <3>2 DEF Six
  <2>3. 1 \in 1 .. p - 1 /\ 2 \in 1 .. p - 1 /\ 6 \in 1 .. p - 1
    BY <2>1, <2>2
  <2>4. Used \subseteq {Once[1], Once[2], Once[6]}
    BY <1>8, OnceBackward DEF Used, IsClient, IsBackward
  <2>5. QED
    BY <1>6, <1>8, <2>3, <2>4
<1>9. QED
  BY <1>1, <1>7, <1>8

\* The rows that have been read are the first of the file, and none is half empty.
LEMMA TablePrefix ==
    ASSUME StartupInv
    PROVE  TableIsPrefix
<1> SUFFICES ASSUME count <= Radix
             PROVE  IsPrefix(rows, SaysRows) /\ \A k \in DOMAIN rows : ~Incomplete(rows[k])
  BY DEF TableIsPrefix
<1>1. FileOK /\ count \in Nat \ {0}
  BY CountOK DEF StartupInv, FileOK
<1>2. \E b \in 0 .. count : RowsDone(rows, b)
  <2>1. CASE pc = "reading"
    <3>1. ASSUME NEW p \in 1 .. Final, AtOnce(conf, todo, rows, p)
          PROVE  \E b \in 0 .. count : RowsDone(rows, b)
      BY <1>1, <3>1 DEF AtOnce
    <3>2. ASSUME NEW b \in 0 .. count, AtRow(conf, todo, rows, b)
          PROVE  \E a \in 0 .. count : RowsDone(rows, a)
      BY <3>2 DEF AtRow
    <3>3. QED
      BY <2>1, <3>1, <3>2 DEF StartupInv, Reading
  <2>2. CASE pc # "reading"
    BY <2>2 DEF StartupInv, ReadingOver, Ended
  <2>3. QED
    BY <2>1, <2>2
<1>3. PICK b \in 0 .. count : RowsDone(rows, b)
  BY <1>2
<1>4. PICK S : S = {RowVal(k) : k \in 1 .. count}
  OBVIOUS
<1>5. \A k \in 1 .. count : RowVal(k) = SaysRows[k] /\ RowVal(k) \in S
  BY <1>1, <1>4, RowsSaid
<1>6. PICK t : t = SaysRows
  OBVIOUS
<1>7. t \in Seq(S) /\ Len(t) = count
  <2>1. t = [k \in 1 .. count |-> t[k]]
    BY <1>6 DEF SaysRows
  <2>2. \A k \in 1 .. count : t[k] \in S
    BY <1>5, <1>6
  <2>3. QED
    BY <1>1, <2>1, <2>2
<1>8. rows \in Seq(S) /\ Len(rows) = b /\ \A k \in 1 .. b : rows[k] = RowVal(k)
  <2>1. rows = [k \in 1 .. b |-> RowVal(k)] /\ \A k \in 1 .. b : k \in 1 .. count
    BY <1>1, <1>3 DEF RowsDone
  <2>2. \A k \in 1 .. b : RowVal(k) \in S
    BY <1>5, <2>1
  <2>3. QED
    BY <1>1, <2>1, <2>2
<1>9. IsPrefix(rows, t)
  <2>1. \A k \in 1 .. b : k \in 1 .. count
    BY <1>1
  <2>2. Len(rows) <= Len(t) /\ \A k \in 1 .. Len(rows) : rows[k] = t[k]
    BY <1>1, <1>5, <1>6, <1>7, <1>8, <2>1
  <2>3. QED
    BY <1>7, <1>8, <2>2, PrefixElements
<1>10. ASSUME NEW k \in DOMAIN rows PROVE ~Incomplete(rows[k])
  <2>1. k \in 1 .. b /\ rows[k] = RowVal(k)
    BY <1>8
  <2>2. RowGood(k)
    BY <1>3, <2>1 DEF RowsDone
  <2>3. CASE IsClient
    BY <2>1, <2>2, <2>3 DEF Incomplete, RowGood, RowVal, IsClient
  <2>4. CASE ~IsClient
    <3>1. PICK x, y : x = Val(InstancePort(k - 1)) /\ y = Val(InstanceIP(k - 1))
      OBVIOUS
    <3>2. rows[k] = <<x, y>> /\ x # Missing /\ y # Missing
      BY <2>1, <2>2, <2>4, <3>1 DEF RowGood, RowVal
    <3>3. Missing \notin Range(rows[k])
      BY <3>2, Range2
    <3>4. QED
      BY <2>4, <3>3 DEF Incomplete, IsClient
  <2>5. QED
    BY <2>3, <2>4
<1>11. QED
  BY <1>6, <1>9, <1>10

\* A program with a complete file goes on with what the file says, in every member it
\* uses and in every row.
THEOREM ConfigAlwaysRead == Spec => []ConfigRead
BY ReadInOrder, Configured, PTL

\* A program that receives at its port has read where it sends to, complete file or not;
\* a client may still have no number but 0.
THEOREM ReachableConfigured == Spec => []ReachableIsConfigured
BY ReadInOrder, Reachable, PTL

\* The table that a program works with is a beginning of the file's table.
THEOREM TableAlwaysPrefix == Spec => []TableIsPrefix
BY ReadInOrder, TablePrefix, PTL
=============================================================================
