--------------------------- MODULE SequenceLemmas ----------------------------
(***************************************************************************)
(* Lemmas about operators of the community modules that Startup and        *)
(* Keyboard are built from: FlattenSeq, IsPrefix and SelectInSeq.          *)
(*                                                                         *)
(* FlattenSeq is defined by recursion over a sequence.  FlattenPlaces says *)
(* without recursion what it is: element j of sequence k stands at         *)
(* position off[k - 1] + j.  Inductions are by a least counterexample.     *)
(***************************************************************************)
EXTENDS SequencesExt, SequenceTheorems, WellFoundedInduction, TLAPS

\* A nonempty set of numbers has a least element.
LEMMA Least ==
    ASSUME NEW T, T \subseteq Nat, T # {}
    PROVE  \E x \in T : \A y \in T : x <= y
<1>1. IsWellFoundedOn(OpToRel(<, Nat), Nat)
  BY NatLessThanWellFounded
<1>2. PICK x \in T : \A y \in T : ~(<<y, x>> \in OpToRel(<, Nat))
  BY <1>1, WFMin, Zenon
<1>3. \A y \in T : ~(y < x)
  BY <1>2 DEF OpToRel
<1>4. QED
  BY <1>3

\* The two ways in which numbers up to a bound are gone through.
LEMMA UpTo ==
    ASSUME NEW n \in Nat, NEW T, 0 \in T, \A m \in 0 .. n - 1 : m \in T => m + 1 \in T
    PROVE  \A m \in 0 .. n : m \in T
<1> SUFFICES ASSUME {m \in 0 .. n : m \notin T} # {} PROVE FALSE
  OBVIOUS
<1>1. PICK m \in {m \in 0 .. n : m \notin T} : \A y \in {y \in 0 .. n : y \notin T} : m <= y
  <2> DEFINE U == {m \in 0 .. n : m \notin T}
  <2>1. U \subseteq Nat /\ U # {}
    OBVIOUS
  <2> HIDE DEF U
  <2>2. \E x \in U : \A y \in U : x <= y
    BY <2>1, Least
  <2>3. QED
    BY <2>2 DEF U
<1>2. m # 0 /\ m - 1 \in 0 .. n /\ m - 1 \in 0 .. n - 1
  BY <1>1
<1>3. m - 1 \in T
  BY <1>1, <1>2
<1>4. QED
  BY <1>1, <1>2, <1>3

-----------------------------------------------------------------------------
(* FlattenSeq.                                                             *)

\* One turn of the recursion of FlattenSeq.
Joined(ss, f, i) == IF i = 1 THEN ss[i] ELSE f[i - 1] \o ss[i]

\* The first m values of the recursion, which are sequences.
Joins(ss, f, m, S) ==
    /\ f \in [1 .. m -> Seq(S)]
    /\ \A i \in 1 .. m : f[i] = Joined(ss, f, i)

\* The recursive function of FlattenSeq exists, on sequences of sequences.
LEMMA JoinsExist ==
    ASSUME NEW S, NEW ss \in Seq(Seq(S))
    PROVE  \E f : Joins(ss, f, Len(ss), S)
<1> DEFINE n == Len(ss)
           T == {m \in 0 .. n : \E f : Joins(ss, f, m, S)}
<1>1. n \in Nat
  OBVIOUS
<1>2. 0 \in T
  <2> DEFINE f == [i \in 1 .. 0 |-> <<>>]
  <2>1. Joins(ss, f, 0, S)
    BY DEF Joins
  <2>2. QED
    BY <1>1, <2>1
<1>3. ASSUME NEW m \in 0 .. n - 1, m \in T PROVE m + 1 \in T
  <2>1. PICK f : Joins(ss, f, m, S)
    BY <1>3
  <2> DEFINE x == Joined(ss, f, m + 1)
             g == [i \in 1 .. m + 1 |-> IF i = m + 1 THEN x ELSE f[i]]
  <2>2. m + 1 \in 1 .. n /\ ss[m + 1] \in Seq(S)
    BY <1>1, ElementOfSeq
  <2>3. x \in Seq(S)
    <3>1. CASE m = 0
      BY <2>2, <3>1 DEF Joined
    <3>2. CASE m # 0
      <4>1. f[m] \in Seq(S)
        BY <2>1, <3>2 DEF Joins
      <4>2. x = f[m] \o ss[m + 1]
        <5>1. m + 1 # 1 /\ (m + 1) - 1 = m
          BY <3>2
        <5>2. QED
          BY <5>1, Zenon DEF Joined
      <4>3. QED
        BY <2>2, <4>1, <4>2, ConcatProperties
    <3>3. QED
      BY <3>1, <3>2
  <2>4. g \in [1 .. m + 1 -> Seq(S)]
    BY <2>1, <2>3 DEF Joins
  <2>5. ASSUME NEW i \in 1 .. m + 1 PROVE g[i] = Joined(ss, g, i)
    <3>1. i # 1 => g[i - 1] = f[i - 1]
      OBVIOUS
    <3>2. Joined(ss, g, i) = Joined(ss, f, i)
      BY <3>1 DEF Joined
    <3>3. i # m + 1 => i \in 1 .. m
      OBVIOUS
    <3>4. QED
      BY <2>1, <3>2, <3>3 DEF Joins
  <2>6. Joins(ss, g, m + 1, S)
    BY <2>4, <2>5 DEF Joins
  <2>7. QED
    BY <1>1, <2>6
<1> HIDE DEF n, T
<1>4. \A m \in 0 .. n : m \in T
  BY <1>1, <1>2, <1>3, UpTo
<1>5. n \in 0 .. n
  BY <1>1
<1>6. QED
  BY <1>4, <1>5 DEF n, T

\* So FlattenSeq is the last value of a function that obeys its recursion.
LEMMA FlattenJoins ==
    ASSUME NEW S, NEW ss \in Seq(Seq(S)), Len(ss) # 0
    PROVE  \E f : Joins(ss, f, Len(ss), S) /\ FlattenSeq(ss) = f[Len(ss)]
<1> DEFINE Rec(f) == f = [i \in 1 .. Len(ss) |-> IF i = 1 THEN ss[i] ELSE f[i - 1] \o ss[i]]
           flatten == CHOOSE f : Rec(f)
<1>1. PICK f : Joins(ss, f, Len(ss), S)
  BY JoinsExist
<1>2. Rec(f)
  BY <1>1 DEF Joins, Joined
<1>3. Rec(flatten)
  BY <1>2, Zenon
<1>4. FlattenSeq(ss) = flatten[Len(ss)]
  BY Zenon DEF FlattenSeq
<1> DEFINE n == Len(ss)
           T == {m \in 0 .. n : \A i \in 1 .. m : flatten[i] \in Seq(S)}
<1> HIDE DEF flatten
<1>5. DOMAIN flatten = 1 .. n /\ \A i \in 1 .. n : flatten[i] = Joined(ss, flatten, i)
  BY <1>3 DEF Joined
<1>6. n \in Nat
  OBVIOUS
<1>7. 0 \in T
  BY <1>6
<1>8. ASSUME NEW m \in 0 .. n - 1, m \in T PROVE m + 1 \in T
  <2>1. m + 1 \in 1 .. n /\ ss[m + 1] \in Seq(S) /\ m + 1 \in 0 .. n
    BY <1>6, ElementOfSeq
  <2>2. flatten[m + 1] = Joined(ss, flatten, m + 1)
    BY <1>5, <2>1
  <2>3. CASE m = 0
    BY <1>8, <2>1, <2>2, <2>3 DEF Joined
  <2>4. CASE m # 0
    <3>1. m + 1 # 1 /\ (m + 1) - 1 = m /\ m \in 1 .. m
      BY <2>4
    <3>2. flatten[m + 1] = flatten[m] \o ss[m + 1]
      BY <2>2, <3>1, Zenon DEF Joined
    <3>3. flatten[m] \in Seq(S)
      BY <1>8, <3>1
    <3>4. flatten[m + 1] \in Seq(S)
      BY <2>1, <3>2, <3>3, ConcatProperties
    <3>5. QED
      BY <1>8, <2>1, <3>4
  <2>5. QED
    BY <2>3, <2>4
<1> HIDE DEF n, T
<1>9. \A m \in 0 .. n : m \in T
  BY <1>6, <1>7, <1>8, UpTo
<1>10. n \in T
  BY <1>6, <1>9
<1>11. \A i \in 1 .. n : flatten[i] \in Seq(S)
  BY <1>10 DEF T
<1>12. flatten \in [1 .. n -> Seq(S)]
  <2>1. flatten = [i \in 1 .. n |-> flatten[i]]
    BY <1>3, <1>5 DEF n
  <2>2. QED
    BY <1>11, <2>1
<1>13. QED
  BY <1>4, <1>5, <1>12 DEF Joins, n

\* Element j of sequence k stands in t at position off[k - 1] + j, and there is
\* nothing else in t.
Places(ss, t, off) ==
    /\ off \in [0 .. Len(ss) -> Nat] /\ off[0] = 0 /\ off[Len(ss)] = Len(t)
    /\ \A k \in 1 .. Len(ss) :
         /\ off[k] = off[k - 1] + Len(ss[k]) /\ off[k] <= Len(t)
         /\ \A j \in 1 .. Len(ss[k]) : t[off[k - 1] + j] = ss[k][j]
    /\ \A p \in 1 .. Len(t) :
         \E k \in 1 .. Len(ss) : \E j \in 1 .. Len(ss[k]) : p = off[k - 1] + j

\* Of no sequences, all begin at place 0.
LEMMA PlacesEmpty ==
    ASSUME NEW off, off = [k \in 0 .. 0 |-> 0]
    PROVE  Places(<<>>, <<>>, off)
<1>1. Len(<<>>) = 0
  OBVIOUS
<1>2. QED
  BY <1>1 DEF Places

\* One more sequence.
LEMMA PlacesMore ==
    ASSUME NEW S, NEW ss \in Seq(Seq(S)), NEW s \in Seq(S), NEW t \in Seq(S), NEW off,
           Places(ss, t, off),
           NEW more, more = [k \in 0 .. Len(ss) + 1 |->
                                IF k = Len(ss) + 1 THEN Len(t) + Len(s) ELSE off[k]]
    PROVE  Places(Append(ss, s), t \o s, more)
<1> DEFINE n == Len(ss)
           tt == Append(ss, s)
           u == t \o s
<1>1. n \in Nat /\ Len(t) \in Nat /\ Len(s) \in Nat
  OBVIOUS
<1>2. /\ Len(tt) = n + 1 /\ tt[n + 1] = s
      /\ \A k \in 1 .. n : tt[k] = ss[k]
  BY AppendProperties
<1>3. /\ Len(u) = Len(t) + Len(s)
      /\ \A p \in 1 .. Len(t) + Len(s) : u[p] = IF p <= Len(t) THEN t[p] ELSE s[p - Len(t)]
  BY ConcatProperties
<1>4. \A k \in 1 .. n : Len(ss[k]) \in Nat
  BY ElementOfSeq, LenProperties
<1>5. /\ off \in [0 .. n -> Nat] /\ off[0] = 0 /\ off[n] = Len(t)
      /\ \A k \in 1 .. n :
           /\ off[k] = off[k - 1] + Len(ss[k]) /\ off[k] <= Len(t)
           /\ \A j \in 1 .. Len(ss[k]) : t[off[k - 1] + j] = ss[k][j]
      /\ \A p \in 1 .. Len(t) :
           \E k \in 1 .. n : \E j \in 1 .. Len(ss[k]) : p = off[k - 1] + j
  BY DEF Places
<1>6. /\ more \in [0 .. n + 1 -> Nat] /\ more[n + 1] = Len(t) + Len(s)
      /\ \A k \in 0 .. n : more[k] = off[k]
  BY <1>1, <1>5
<1> HIDE DEF n, tt, u
<1>7. more[0] = 0 /\ more[n] = Len(t) /\ more[n + 1] = Len(u)
  BY <1>1, <1>3, <1>5, <1>6
<1>8. ASSUME NEW k \in 1 .. n + 1
      PROVE  /\ more[k] = more[k - 1] + Len(tt[k]) /\ more[k] <= Len(u)
             /\ \A j \in 1 .. Len(tt[k]) : u[more[k - 1] + j] = tt[k][j]
  <2>1. CASE k = n + 1
    <3>1. more[k - 1] = Len(t) /\ tt[k] = s /\ more[k] = Len(t) + Len(s)
      BY <1>1, <1>2, <1>6, <1>7, <2>1
    <3>2. ASSUME NEW j \in 1 .. Len(s) PROVE u[Len(t) + j] = s[j]
      <4>1. /\ Len(t) + j \in 1 .. Len(t) + Len(s) /\ ~(Len(t) + j <= Len(t))
            /\ (Len(t) + j) - Len(t) = j
        BY <1>1
      <4>2. QED
        BY <1>3, <4>1
    <3>3. more[k] = more[k - 1] + Len(tt[k]) /\ more[k] <= Len(u)
      <4>1. Len(tt[k]) = Len(s)
        BY <3>1, Zenon
      <4>2. more[k] = more[k - 1] + Len(tt[k])
        BY <3>1, <4>1, Zenon
      <4>3. Len(u) = more[k] /\ more[k] \in Nat
        BY <1>1, <1>3, <3>1
      <4>4. QED
        BY <4>2, <4>3
    <3>4. \A j \in 1 .. Len(tt[k]) : u[more[k - 1] + j] = tt[k][j]
      BY <3>1, <3>2, Zenon
    <3>5. QED
      BY <3>3, <3>4
  <2>2. CASE k # n + 1
    <3>1. k \in 1 .. n /\ k - 1 \in 0 .. n /\ k \in 0 .. n
      BY <1>1, <2>2
    <3>2. more[k] = off[k] /\ more[k - 1] = off[k - 1] /\ tt[k] = ss[k]
      BY <1>2, <1>6, <3>1
    <3>3. ASSUME NEW j \in 1 .. Len(ss[k]) PROVE u[off[k - 1] + j] = ss[k][j]
      <4>1. off[k - 1] \in Nat /\ off[k] = off[k - 1] + Len(ss[k]) /\ off[k] <= Len(t)
        BY <1>5, <3>1
      <4>2. Len(ss[k]) \in Nat /\ j \in 1 .. Len(ss[k])
        BY <1>4, <3>1
      <4>3. off[k - 1] + j \in 1 .. Len(t) + Len(s) /\ off[k - 1] + j <= Len(t)
        BY <1>1, <4>1, <4>2
      <4>4. u[off[k - 1] + j] = t[off[k - 1] + j]
        BY <1>3, <4>3, Zenon
      <4>5. t[off[k - 1] + j] = ss[k][j]
        BY <1>5, <3>1, Zenon
      <4>6. QED
        BY <4>4, <4>5
    <3>4. off[k] = off[k - 1] + Len(ss[k]) /\ off[k] <= Len(u)
      BY <1>1, <1>3, <1>5, <3>1
    <3>5. QED
      BY <3>2, <3>3, <3>4
  <2>3. QED
    BY <2>1, <2>2
<1>9. ASSUME NEW p \in 1 .. Len(u)
      PROVE  \E k \in 1 .. n + 1 : \E j \in 1 .. Len(tt[k]) : p = more[k - 1] + j
  <2>1. CASE p <= Len(t)
    <3>1. p \in 1 .. Len(t)
      BY <2>1
    <3>2. PICK k \in 1 .. n : \E j \in 1 .. Len(ss[k]) : p = off[k - 1] + j
      BY <1>5, <3>1
    <3>3. k - 1 \in 0 .. n /\ k \in 1 .. n + 1
      BY <1>1
    <3>4. tt[k] = ss[k] /\ more[k - 1] = off[k - 1]
      BY <1>2, <1>6, <3>3
    <3>5. QED
      BY <3>2, <3>3, <3>4
  <2>2. CASE p > Len(t)
    <3>1. p - Len(t) \in 1 .. Len(s) /\ p = Len(t) + (p - Len(t))
      BY <1>1, <1>3, <2>2
    <3>2. n + 1 \in 1 .. n + 1 /\ (n + 1) - 1 = n
      BY <1>1
    <3>3. p = more[(n + 1) - 1] + (p - Len(t))
      BY <1>7, <3>1, <3>2
    <3>4. QED
      BY <1>2, <3>1, <3>2, <3>3
  <2>3. p <= Len(t) \/ p > Len(t)
    BY <1>1, <1>3
  <2>4. QED
    BY <2>1, <2>2, <2>3, Zenon
<1>10. Places(tt, u, more)
  <2>1. more \in [0 .. Len(tt) -> Nat] /\ more[Len(tt)] = Len(u)
    BY <1>2, <1>6, <1>7
  <2>2. \A k \in 1 .. Len(tt) :
           /\ more[k] = more[k - 1] + Len(tt[k]) /\ more[k] <= Len(u)
           /\ \A j \in 1 .. Len(tt[k]) : u[more[k - 1] + j] = tt[k][j]
    BY <1>2, <1>8, Zenon
  <2>3. \A p \in 1 .. Len(u) :
           \E k \in 1 .. Len(tt) : \E j \in 1 .. Len(tt[k]) : p = more[k - 1] + j
    <3> SUFFICES ASSUME NEW p \in 1 .. Len(u)
                 PROVE  \E k \in 1 .. Len(tt) : \E j \in 1 .. Len(tt[k]) : p = more[k - 1] + j
      OBVIOUS
    <3>1. PICK k \in 1 .. n + 1 : \E j \in 1 .. Len(tt[k]) : p = more[k - 1] + j
      BY <1>9
    <3>2. k \in 1 .. Len(tt)
      BY <1>2
    <3>3. QED
      BY <3>1, <3>2, Zenon
  <2>4. QED
    BY <1>7, <2>1, <2>2, <2>3, Zenon DEF Places
<1>11. QED
  BY <1>10 DEF tt, u

\* Every flattened sequence is laid out by offsets.
LEMMA FlattenPlaces ==
    ASSUME NEW S, NEW ss \in Seq(Seq(S))
    PROVE  FlattenSeq(ss) \in Seq(S) /\ \E off : Places(ss, FlattenSeq(ss), off)
<1>1. CASE Len(ss) = 0
  <2>1. FlattenSeq(ss) = ss /\ ss = <<>>
    BY <1>1 DEF FlattenSeq
  <2>2. Places(<<>>, <<>>, [k \in 0 .. 0 |-> 0])
    BY PlacesEmpty
  <2>3. QED
    BY <2>1, <2>2, EmptySeq
<1>2. CASE Len(ss) # 0
  <2> DEFINE n == Len(ss)
             first(m) == SubSeq(ss, 1, m)
  <2>1. PICK f : Joins(ss, f, n, S) /\ FlattenSeq(ss) = f[n]
    BY <1>2, FlattenJoins
  <2>2. n \in Nat \ {0} /\ f \in [1 .. n -> Seq(S)]
        /\ \A i \in 1 .. n : f[i] = Joined(ss, f, i)
    BY <1>2, <2>1 DEF Joins
  <2> DEFINE T == {m \in 0 .. n : m # 0 => \E off : Places(first(m), f[m], off)}
  <2>3. ASSUME NEW m \in 1 .. n
        PROVE  /\ first(m - 1) \in Seq(Seq(S)) /\ Len(first(m - 1)) = m - 1
               /\ first(m) = Append(first(m - 1), ss[m])
               /\ ss[m] \in Seq(S)
    <3>1. first(m) = first(m - 1) \o <<ss[m]>>
      BY <2>2, SubSeqRecursiveSecond
    <3>2. ss[m] \in Seq(S)
      BY ElementOfSeq
    <3>3. first(m - 1) \in Seq(Seq(S)) /\ Len(first(m - 1)) = m - 1
      <4>1. \A i \in 1 .. m - 1 : ss[i] \in Seq(S)
        BY <2>2, ElementOfSeq
      <4>2. 1 \in Int /\ m - 1 \in Int
        OBVIOUS
      <4>3. /\ first(m - 1) \in Seq(Seq(S))
            /\ Len(first(m - 1)) = IF 1 <= m - 1 THEN (m - 1) - 1 + 1 ELSE 0
        BY <4>1, <4>2, SubSeqProperties
      <4>4. QED
        BY <4>3
    <3>4. QED
      BY <3>1, <3>2, <3>3, AppendIsConcat
  <2>4. 0 \in T
    BY <2>2
  <2>5. ASSUME NEW m \in 0 .. n - 1, m \in T PROVE m + 1 \in T
    <3>1. m + 1 \in 1 .. n /\ (m + 1) - 1 = m
      BY <2>2
    <3>2. /\ first(m) \in Seq(Seq(S)) /\ Len(first(m)) = m
          /\ first(m + 1) = Append(first(m), ss[m + 1])
          /\ ss[m + 1] \in Seq(S)
      BY <2>3, <3>1
    <3> HIDE DEF first
    <3>3. CASE m = 0
      <4>1. first(0) = <<>>
        BY <3>2, <3>3
      <4>2. f[m + 1] = ss[m + 1]
        <5>1. m + 1 = 1
          BY <3>3
        <5>2. f[m + 1] = Joined(ss, f, m + 1)
          BY <2>2, <3>1
        <5>3. QED
          BY <5>1, <5>2, Zenon DEF Joined
      <4>3. <<>> \o ss[m + 1] = ss[m + 1]
        BY <3>2, ConcatEmptySeq
      <4>4. Places(<<>>, <<>>, [k \in 0 .. 0 |-> 0])
        BY PlacesEmpty
      <4>5. \E off : Places(Append(<<>>, ss[m + 1]), <<>> \o ss[m + 1], off)
        BY <3>2, <4>4, EmptySeq, PlacesMore
      <4>6. \E off : Places(first(m + 1), f[m + 1], off)
        BY <3>2, <3>3, <4>1, <4>2, <4>3, <4>5, Zenon
      <4>7. QED
        BY <3>1, <4>6
    <3>4. CASE m # 0
      <4>1. PICK off : Places(first(m), f[m], off)
        BY <2>5, <3>4
      <4>2. f[m + 1] = f[m] \o ss[m + 1] /\ f[m] \in Seq(S)
        <5>1. m + 1 # 1 /\ m \in 1 .. n
          BY <3>4
        <5>2. f[m + 1] = Joined(ss, f, m + 1)
          BY <2>2, <3>1
        <5>3. QED
          BY <2>2, <3>1, <5>1, <5>2, Zenon DEF Joined
      <4>3. \E more : Places(Append(first(m), ss[m + 1]), f[m] \o ss[m + 1], more)
        BY <3>2, <4>1, <4>2, PlacesMore
      <4>4. \E more : Places(first(m + 1), f[m + 1], more)
        BY <3>2, <4>2, <4>3, Zenon
      <4>5. QED
        BY <3>1, <4>4
    <3>5. QED
      BY <3>3, <3>4
  <2>6. \A m \in 0 .. n : m \in T
    <3> HIDE DEF n, T
    <3>1. QED
      BY <2>2, <2>4, <2>5, UpTo
  <2>7. first(n) = ss
    BY SubSeqFull
  <2>8. \E off : Places(ss, f[n], off)
    <3>1. n \in T /\ n # 0
      BY <2>2, <2>6
    <3>2. \E off : Places(first(n), f[n], off)
      BY <3>1
    <3>3. QED
      BY <2>7, <3>2
  <2>9. f[n] \in Seq(S)
    BY <2>2
  <2>10. QED
    BY <2>1, <2>8, <2>9
<1>3. QED
  BY <1>1, <1>2

\* Position off[k - 1] + j is one of t, and element j of sequence k stands there.
LEMMA PlaceOf ==
    ASSUME NEW S, NEW ss \in Seq(Seq(S)), NEW t \in Seq(S), NEW off, Places(ss, t, off),
           NEW k \in 1 .. Len(ss), NEW j \in 1 .. Len(ss[k])
    PROVE  /\ off[k - 1] + j \in 1 .. Len(t) /\ t[off[k - 1] + j] = ss[k][j]
           /\ off[k - 1] \in Nat /\ off[k] \in Nat /\ Len(ss[k]) \in Nat
           /\ off[k] = off[k - 1] + Len(ss[k]) /\ off[k] <= Len(t)
<1>1. k - 1 \in 0 .. Len(ss) /\ k \in 0 .. Len(ss)
  OBVIOUS
<1>2. off \in [0 .. Len(ss) -> Nat]
  BY DEF Places
<1>3. off[k - 1] \in Nat /\ off[k] \in Nat
  BY <1>1, <1>2
<1>4. /\ off[k] = off[k - 1] + Len(ss[k]) /\ off[k] <= Len(t)
      /\ t[off[k - 1] + j] = ss[k][j]
  BY Zenon DEF Places
<1>5. Len(ss[k]) \in Nat /\ Len(t) \in Nat
  BY ElementOfSeq, LenProperties
<1>6. off[k - 1] + j \in 1 .. Len(t)
  BY <1>3, <1>4, <1>5
<1>7. QED
  BY <1>3, <1>4, <1>5, <1>6

\* Sequences that are not empty, walked through from element to element.
Walks(ss, t) ==
    /\ t # <<>> /\ t[1] = ss[1][1]
    /\ \A p \in 1 .. Len(t) :
         \E k \in 1 .. Len(ss) : \E j \in 1 .. Len(ss[k]) :
           /\ t[p] = ss[k][j]
           /\ p < Len(t) /\ j < Len(ss[k]) => t[p + 1] = ss[k][j + 1]
           /\ p < Len(t) /\ j = Len(ss[k]) =>
                k < Len(ss) /\ t[p + 1] = ss[k + 1][1]
           /\ p = Len(t) => k = Len(ss) /\ j = Len(ss[k])

\* Whoever walks along a flattened sequence, of which no part is empty, walks along
\* each part in turn.
LEMMA FlattenWalk ==
    ASSUME NEW S, NEW ss \in Seq(Seq(S)), Len(ss) # 0,
           \A k \in 1 .. Len(ss) : ss[k] # <<>>,
           NEW t, t = FlattenSeq(ss)
    PROVE  t \in Seq(S) /\ Walks(ss, t)
<1>1. t \in Seq(S) /\ \E off : Places(ss, t, off)
  BY FlattenPlaces
<1>2. PICK off : Places(ss, t, off)
  BY <1>1
<1>3. Len(ss) \in Nat \ {0} /\ Len(t) \in Nat
  BY <1>1
<1>4. off[0] = 0 /\ off[Len(ss)] = Len(t)
  BY <1>2 DEF Places
<1>5. ASSUME NEW k \in 1 .. Len(ss) PROVE 1 \in 1 .. Len(ss[k]) /\ Len(ss[k]) \in Nat
  <2>1. ss[k] \in Seq(S) /\ ss[k] # <<>>
    BY ElementOfSeq
  <2>2. Len(ss[k]) \in Nat \ {0}
    BY <2>1, EmptySeq
  <2>3. QED
    BY <2>2
<1>6. \A k \in 1 .. Len(ss) : \A j \in 1 .. Len(ss[k]) :
         off[k - 1] + j \in 1 .. Len(t) /\ t[off[k - 1] + j] = ss[k][j]
  BY <1>1, <1>2, PlaceOf
<1>7. t # <<>> /\ t[1] = ss[1][1]
  <2>1. 1 \in 1 .. Len(ss) /\ 1 - 1 = 0
    BY <1>3
  <2>2. off[1 - 1] + 1 \in 1 .. Len(t) /\ t[off[1 - 1] + 1] = ss[1][1]
    BY <1>1, <1>2, <1>5, <2>1, PlaceOf
  <2>3. off[1 - 1] + 1 = 1
    BY <1>4
  <2>4. 1 \in 1 .. Len(t) /\ t[1] = ss[1][1]
    BY <2>2, <2>3
  <2>5. t # <<>>
    BY <1>3, <2>4
  <2>6. QED
    BY <2>4, <2>5
<1>8. ASSUME NEW p \in 1 .. Len(t)
      PROVE  \E k \in 1 .. Len(ss) : \E j \in 1 .. Len(ss[k]) :
                /\ t[p] = ss[k][j]
                /\ p < Len(t) /\ j < Len(ss[k]) => t[p + 1] = ss[k][j + 1]
                /\ p < Len(t) /\ j = Len(ss[k]) => k < Len(ss) /\ t[p + 1] = ss[k + 1][1]
                /\ p = Len(t) => k = Len(ss) /\ j = Len(ss[k])
  <2>1. PICK k \in 1 .. Len(ss) : \E j \in 1 .. Len(ss[k]) : p = off[k - 1] + j
    BY <1>2, Zenon DEF Places
  <2>2. PICK j \in 1 .. Len(ss[k]) : p = off[k - 1] + j
    BY <2>1
  <2>3. /\ t[p] = ss[k][j] /\ off[k - 1] \in Nat /\ off[k] \in Nat /\ Len(ss[k]) \in Nat
        /\ off[k] = off[k - 1] + Len(ss[k]) /\ off[k] <= Len(t)
    BY <1>1, <1>2, <2>2, PlaceOf
  <2>4. ASSUME k < Len(ss)
        PROVE  off[k] + 1 \in 1 .. Len(t) /\ t[off[k] + 1] = ss[k + 1][1]
    <3>1. k + 1 \in 1 .. Len(ss) /\ (k + 1) - 1 = k
      BY <1>3, <2>4
    <3>2. 1 \in 1 .. Len(ss[k + 1])
      BY <1>5, <3>1
    <3>3. /\ off[(k + 1) - 1] + 1 \in 1 .. Len(t)
          /\ t[off[(k + 1) - 1] + 1] = ss[k + 1][1]
      BY <1>6, <3>1, <3>2, Zenon
    <3>4. QED
      BY <3>1, <3>3
  <2>5. ASSUME p < Len(t), j < Len(ss[k]) PROVE t[p + 1] = ss[k][j + 1]
    <3>1. PICK i \in Nat : i = j + 1
      OBVIOUS
    <3>2. i \in 1 .. Len(ss[k])
      BY <2>3, <2>5, <3>1
    <3>3. p + 1 = off[k - 1] + i
      <4>1. PICK a \in Nat : a = off[k - 1]
        BY <2>3
      <4>2. j \in Nat /\ p = a + j
        BY <2>2, <2>3, <4>1
      <4>3. p + 1 = a + i
        BY <3>1, <4>2
      <4>4. QED
        BY <4>1, <4>3, Zenon
    <3>4. t[off[k - 1] + i] = ss[k][i]
      BY <1>6, <3>2, Zenon
    <3>5. QED
      BY <3>1, <3>3, <3>4, Zenon
  <2>6. ASSUME p < Len(t), j = Len(ss[k]) PROVE k < Len(ss) /\ t[p + 1] = ss[k + 1][1]
    <3>1. p = off[k]
      BY <2>2, <2>3, <2>6
    <3>2. k # Len(ss)
      BY <1>3, <1>4, <2>6, <3>1
    <3>3. k < Len(ss)
      BY <1>3, <3>2
    <3>4. QED
      BY <2>4, <3>1, <3>3
  <2>7. ASSUME p = Len(t) PROVE k = Len(ss) /\ j = Len(ss[k])
    <3>1. j = Len(ss[k]) /\ off[k] = Len(t)
      BY <1>3, <2>2, <2>3, <2>7
    <3>2. ~(k < Len(ss))
      BY <1>3, <2>4, <3>1
    <3>3. QED
      BY <1>3, <3>1, <3>2
  <2>8. QED
    BY <2>3, <2>5, <2>6, <2>7
<1>9. QED
  BY <1>1, <1>7, <1>8 DEF Walks

-----------------------------------------------------------------------------
(* IsPrefix.                                                               *)

\* Prefixes by their elements.
LEMMA PrefixElements ==
    ASSUME NEW S, NEW s \in Seq(S), NEW t \in Seq(S)
    PROVE  IsPrefix(s, t) <=>
               Len(s) <= Len(t) /\ \A i \in 1 .. Len(s) : s[i] = t[i]
<1>1. SubSeq(s, 1, Len(s)) = s
  BY SubSeqFull
<1>2. CASE Len(s) <= Len(t)
  <2>1. Len(s) \in Nat /\ Len(t) \in Nat /\ \A i \in 1 .. Len(s) : t[i] \in S
    BY <1>2, ElementOfSeq
  <2> DEFINE u == SubSeq(t, 1, Len(s))
  <2>2. /\ u \in Seq(S) /\ Len(u) = IF 1 <= Len(s) THEN Len(s) - 1 + 1 ELSE 0
        /\ \A i \in 1 .. Len(s) - 1 + 1 : u[i] = t[1 + i - 1]
    BY <2>1, SubSeqProperties
  <2>3. Len(u) = Len(s) /\ \A i \in 1 .. Len(s) : u[i] = t[i]
    BY <2>1, <2>2
  <2>4. s = u <=> \A i \in 1 .. Len(s) : s[i] = t[i]
    <3> HIDE DEF u
    <3>1. QED
      BY <2>2, <2>3, SeqEqual
  <2>5. QED
    BY <1>1, <1>2, <2>4 DEF IsPrefix
<1>3. CASE ~(Len(s) <= Len(t))
  BY <1>3 DEF IsPrefix
<1>4. QED
  BY <1>2, <1>3

\* A prefix remains one of a longer sequence.
LEMMA PrefixAppend ==
    ASSUME NEW S, NEW s \in Seq(S), NEW t \in Seq(S), NEW x \in S, IsPrefix(s, t)
    PROVE  IsPrefix(s, Append(t, x))
<1>1. Len(s) <= Len(t) /\ \A i \in 1 .. Len(s) : s[i] = t[i]
  BY PrefixElements
<1>2. /\ Append(t, x) \in Seq(S) /\ Len(Append(t, x)) = Len(t) + 1
      /\ \A i \in 1 .. Len(t) : Append(t, x)[i] = t[i]
  BY AppendProperties
<1>3. Len(s) <= Len(Append(t, x)) /\ \A i \in 1 .. Len(s) : s[i] = Append(t, x)[i]
  BY <1>1, <1>2
<1>4. QED
  BY <1>2, <1>3, PrefixElements

-----------------------------------------------------------------------------
(* The elements of a sequence, whatever their order.                       *)

\* Range is the set of the elements.
LEMMA RangeOf ==
    ASSUME NEW S, NEW s \in Seq(S)
    PROVE  /\ \A x : x \in Range(s) <=> \E i \in 1 .. Len(s) : x = s[i]
           /\ Range(s) \subseteq S
<1>1. DOMAIN s = 1 .. Len(s) /\ \A i \in 1 .. Len(s) : s[i] \in S
  BY ElementOfSeq
<1>2. QED
  BY <1>1 DEF Range

\* The elements of two sequences in a row are those of both.
LEMMA RangeConcat ==
    ASSUME NEW S, NEW s \in Seq(S), NEW t \in Seq(S)
    PROVE  s \o t \in Seq(S) /\ Range(s \o t) = Range(s) \cup Range(t)
<1> DEFINE u == s \o t
<1>1. /\ u \in Seq(S) /\ Len(u) = Len(s) + Len(t) /\ Len(s) \in Nat /\ Len(t) \in Nat
      /\ \A i \in 1 .. Len(s) + Len(t) : u[i] = IF i <= Len(s) THEN s[i] ELSE t[i - Len(s)]
  BY ConcatProperties, LenProperties
<1> HIDE DEF u
<1>2. ASSUME NEW x \in Range(u) PROVE x \in Range(s) \/ x \in Range(t)
  <2>1. PICK i \in 1 .. Len(u) : x = u[i]
    BY <1>1, RangeOf
  <2>2. CASE i <= Len(s)
    <3>1. i \in 1 .. Len(s) /\ x = s[i]
      BY <1>1, <2>1, <2>2
    <3>2. QED
      BY <3>1, RangeOf
  <2>3. CASE ~(i <= Len(s))
    <3>1. i - Len(s) \in 1 .. Len(t) /\ x = t[i - Len(s)]
      BY <1>1, <2>1, <2>3
    <3>2. QED
      BY <3>1, RangeOf
  <2>4. QED
    BY <2>2, <2>3
<1>3. ASSUME NEW x \in Range(s) PROVE x \in Range(u)
  <2>1. PICK i \in 1 .. Len(s) : x = s[i]
    BY RangeOf
  <2>2. i \in 1 .. Len(u) /\ u[i] = x
    BY <1>1, <2>1
  <2>3. QED
    BY <1>1, <2>2, RangeOf
<1>4. ASSUME NEW x \in Range(t) PROVE x \in Range(u)
  <2>1. PICK i \in 1 .. Len(t) : x = t[i]
    BY RangeOf
  <2>2. PICK j \in Nat : j = Len(s) + i
    BY <1>1
  <2>3. j \in 1 .. Len(u) /\ ~(j <= Len(s)) /\ j - Len(s) = i /\ j \in 1 .. Len(s) + Len(t)
    BY <1>1, <2>2
  <2>4. u[j] = x
    BY <1>1, <2>1, <2>3
  <2>5. QED
    BY <1>1, <2>3, <2>4, RangeOf
<1>5. QED
  BY <1>1, <1>2, <1>3, <1>4 DEF u

\* Reversing keeps the elements.
LEMMA ReverseRange ==
    ASSUME NEW S, NEW s \in Seq(S)
    PROVE  Reverse(s) \in Seq(S) /\ Range(Reverse(s)) = Range(s)
<1> DEFINE r == Reverse(s)
<1>1. /\ Len(s) \in Nat
      /\ \A i \in 1 .. Len(s) : (Len(s) - i) + 1 \in 1 .. Len(s)
      /\ \A i \in 1 .. Len(s) : s[i] \in S
  BY LenProperties, ElementOfSeq
<1>2. r = [i \in 1 .. Len(s) |-> s[(Len(s) - i) + 1]]
  BY DEF Reverse
<1>3. r \in Seq(S) /\ Len(r) = Len(s) /\ \A i \in 1 .. Len(s) : r[i] = s[(Len(s) - i) + 1]
  BY <1>1, <1>2
<1> HIDE DEF r
<1>4. ASSUME NEW x \in Range(r) PROVE x \in Range(s)
  <2>1. PICK i \in 1 .. Len(s) : x = s[(Len(s) - i) + 1]
    BY <1>3, RangeOf
  <2>2. QED
    BY <1>1, <2>1, RangeOf
<1>5. ASSUME NEW x \in Range(s) PROVE x \in Range(r)
  <2>1. PICK i \in 1 .. Len(s) : x = s[i]
    BY RangeOf
  <2>2. PICK j : j = (Len(s) - i) + 1
    OBVIOUS
  <2>3. j \in 1 .. Len(s) /\ (Len(s) - j) + 1 = i
    BY <1>1, <2>2
  <2>4. r[j] = x
    BY <1>3, <2>1, <2>3
  <2>5. QED
    BY <1>3, <2>3, <2>4, RangeOf
<1>6. QED
  BY <1>3, <1>4, <1>5 DEF r

\* t has the elements of the sequences of ss.
HasAll(ss, t) ==
    \A x : x \in Range(t) <=>
        \E k \in 1 .. Len(ss) : \E j \in 1 .. Len(ss[k]) : x = ss[k][j]

\* A flattened sequence has the elements of its parts.
LEMMA FlattenRange ==
    ASSUME NEW S, NEW ss \in Seq(Seq(S)), NEW t, t = FlattenSeq(ss)
    PROVE  t \in Seq(S) /\ HasAll(ss, t)
<1>1. t \in Seq(S) /\ \E off : Places(ss, t, off)
  BY FlattenPlaces
<1>2. PICK off : Places(ss, t, off)
  BY <1>1
<1>3. \A k \in 1 .. Len(ss) : \A j \in 1 .. Len(ss[k]) :
         off[k - 1] + j \in 1 .. Len(t) /\ t[off[k - 1] + j] = ss[k][j]
  BY <1>1, <1>2, PlaceOf
<1>4. \A p \in 1 .. Len(t) :
         \E k \in 1 .. Len(ss) : \E j \in 1 .. Len(ss[k]) : p = off[k - 1] + j
  BY <1>2, Zenon DEF Places
<1>5. \A x : x \in Range(t) <=> \E p \in 1 .. Len(t) : x = t[p]
  BY <1>1, RangeOf
<1>6. ASSUME NEW x \in Range(t)
      PROVE  \E k \in 1 .. Len(ss) : \E j \in 1 .. Len(ss[k]) : x = ss[k][j]
  <2>1. PICK p \in 1 .. Len(t) : x = t[p]
    BY <1>5, Zenon
  <2>2. PICK k \in 1 .. Len(ss) : \E j \in 1 .. Len(ss[k]) : p = off[k - 1] + j
    BY <1>4, Zenon
  <2>3. PICK j \in 1 .. Len(ss[k]) : p = off[k - 1] + j
    BY <2>2, Zenon
  <2>4. x = ss[k][j]
    BY <1>3, <2>1, <2>3, Zenon
  <2>5. QED
    BY <2>4
<1>7. ASSUME NEW k \in 1 .. Len(ss), NEW j \in 1 .. Len(ss[k]), NEW x, x = ss[k][j]
      PROVE  x \in Range(t)
  BY <1>3, <1>5, <1>7, Zenon
<1>8. QED
  BY <1>1, <1>6, <1>7, Zenon DEF HasAll

\* Sequences of two elements each.
InPairs(ss, t) ==
    \A k \in 1 .. Len(ss) :
        t[(2 * (k - 1)) + 1] = ss[k][1] /\ t[(2 * (k - 1)) + 2] = ss[k][2]

\* Flattened pairs stand two by two.
LEMMA FlattenPairs ==
    ASSUME NEW S, NEW ss \in Seq(Seq(S)), \A k \in 1 .. Len(ss) : Len(ss[k]) = 2,
           NEW t, t = FlattenSeq(ss)
    PROVE  t \in Seq(S) /\ Len(t) = 2 * Len(ss) /\ InPairs(ss, t)
<1>1. t \in Seq(S) /\ \E off : Places(ss, t, off)
  BY FlattenPlaces
<1>2. PICK off : Places(ss, t, off)
  BY <1>1
<1>3. PICK n \in Nat : n = Len(ss)
  BY LenProperties
<1>4. /\ off \in [0 .. n -> Nat] /\ off[0] = 0 /\ off[n] = Len(t)
      /\ \A k \in 1 .. n : off[k] = off[k - 1] + 2
  BY <1>2, <1>3 DEF Places
<1> DEFINE T == {k \in 0 .. n : off[k] = 2 * k}
<1>5. 0 \in T
  BY <1>4
<1>6. ASSUME NEW m \in 0 .. n - 1, m \in T PROVE m + 1 \in T
  <2>1. m + 1 \in 1 .. n /\ (m + 1) - 1 = m /\ m + 1 \in 0 .. n
    OBVIOUS
  <2>2. off[m + 1] = off[m] + 2 /\ off[m] = 2 * m
    BY <1>4, <1>6, <2>1
  <2>3. QED
    BY <2>1, <2>2
<1> HIDE DEF T
<1>7. \A k \in 0 .. n : k \in T
  BY <1>5, <1>6, UpTo
<1>8. \A k \in 0 .. n : off[k] = 2 * k
  BY <1>7 DEF T
<1>9. ASSUME NEW k \in 1 .. Len(ss)
      PROVE  t[(2 * (k - 1)) + 1] = ss[k][1] /\ t[(2 * (k - 1)) + 2] = ss[k][2]
  <2>1. 1 \in 1 .. Len(ss[k]) /\ 2 \in 1 .. Len(ss[k])
    <3>1. 1 \in 1 .. 2 /\ 2 \in 1 .. 2
      OBVIOUS
    <3>2. QED
      BY <3>1, Zenon
  <2>2. t[off[k - 1] + 1] = ss[k][1] /\ t[off[k - 1] + 2] = ss[k][2]
    BY <1>2, <2>1, Zenon DEF Places
  <2>3. k - 1 \in 0 .. n
    BY <1>3
  <2>4. off[k - 1] = 2 * (k - 1)
    BY <1>8, <2>3, Zenon
  <2>5. QED
    BY <2>2, <2>4, Zenon
<1>10. Len(t) = 2 * Len(ss)
  BY <1>3, <1>4, <1>8
<1>11. QED
  BY <1>1, <1>9, <1>10 DEF InPairs

\* The smallest number of a set.
LEMMA MinInSet ==
    ASSUME NEW I, I \subseteq Nat, I # {}
    PROVE  Min(I) \in I
<1>1. \E x \in I : \A y \in I : x <= y
  BY Least
<1>2. QED
  BY <1>1, Zenon DEF Min

\* What is left of a sequence after its first elements.
LEMMA RestOf ==
    ASSUME NEW S, NEW s \in Seq(S), NEW p \in 1 .. Len(s)
    PROVE  /\ SubSeq(s, p, Len(s)) # <<>> /\ Head(SubSeq(s, p, Len(s))) = s[p]
           /\ Tail(SubSeq(s, p, Len(s))) = SubSeq(s, p + 1, Len(s))
           /\ SubSeq(s, p, Len(s)) \in Seq(S)
<1>1. PICK n \in Nat : n = Len(s) /\ p \in 1 .. n /\ n \in p .. n
  BY LenProperties
<1>2. \A i \in p .. n : s[i] \in S
  BY <1>1, ElementOfSeq
<1>3. SubSeq(s, p, n) \in Seq(S) /\ Len(SubSeq(s, p, n)) = (n - p) + 1
  BY <1>1, <1>2, SubSeqProperties
<1>4. SubSeq(s, p, n) # <<>>
  <2>1. (n - p) + 1 # 0
    BY <1>1
  <2>2. QED
    BY <1>3, <2>1, EmptySeq
<1>5. Head(SubSeq(s, p, n)) = s[p] /\ Tail(SubSeq(s, p, n)) = SubSeq(s, p + 1, n)
  BY <1>1, HeadTailOfSubSeq
<1>6. QED
  BY <1>1, <1>3, <1>4, <1>5

-----------------------------------------------------------------------------
(* Concatenations that are written out.                                    *)

\* Short sequences in a row, written out.
LEMMA Concat11 ==
    ASSUME NEW x, NEW y
    PROVE  <<x>> \o <<y>> = <<x, y>>
<1>1. PICK S, s, t, u : S = {x, y} /\ s = <<x>> /\ t = <<y>> /\ u = <<x, y>>
  OBVIOUS
<1>2. /\ s \in Seq(S) /\ Len(s) = 1 /\ s[1] = x
      /\ t \in Seq(S) /\ Len(t) = 1 /\ t[1] = y
      /\ u \in Seq(S) /\ Len(u) = 2
      /\ u[1] = x /\ u[2] = y
  BY <1>1
<1>3. /\ s \o t \in Seq(S) /\ Len(s \o t) = 2
      /\ (s \o t)[1] = x /\ (s \o t)[2] = y
  <2>1. /\ s \o t \in Seq(S) /\ Len(s \o t) = Len(s) + Len(t)
        /\ \A i \in 1 .. Len(s) + Len(t) :
              (s \o t)[i] = IF i <= Len(s) THEN s[i] ELSE t[i - Len(s)]
    BY <1>2, ConcatProperties
  <2>2. QED
    BY <1>2, <2>1
<1>4. \A i \in 1 .. Len(s \o t) : (s \o t)[i] = u[i]
  BY <1>2, <1>3
<1>5. s \o t = u
  BY <1>2, <1>3, <1>4, SeqEqual
<1>6. QED
  BY <1>1, <1>5, Zenon

\* One and two elements,
LEMMA Concat12 ==
    ASSUME NEW x, NEW y, NEW z
    PROVE  <<x>> \o <<y, z>> = <<x, y, z>>
<1>1. PICK S, s, t, u : S = {x, y, z} /\ s = <<x>> /\ t = <<y, z>> /\ u = <<x, y, z>>
  OBVIOUS
<1>2. /\ s \in Seq(S) /\ Len(s) = 1 /\ s[1] = x
      /\ t \in Seq(S) /\ Len(t) = 2 /\ t[1] = y /\ t[2] = z
      /\ u \in Seq(S) /\ Len(u) = 3
      /\ u[1] = x /\ u[2] = y /\ u[3] = z
  BY <1>1
<1>3. /\ s \o t \in Seq(S) /\ Len(s \o t) = 3
      /\ (s \o t)[1] = x /\ (s \o t)[2] = y /\ (s \o t)[3] = z
  <2>1. /\ s \o t \in Seq(S) /\ Len(s \o t) = Len(s) + Len(t)
        /\ \A i \in 1 .. Len(s) + Len(t) :
              (s \o t)[i] = IF i <= Len(s) THEN s[i] ELSE t[i - Len(s)]
    BY <1>2, ConcatProperties
  <2>2. QED
    BY <1>2, <2>1
<1>4. \A i \in 1 .. Len(s \o t) : (s \o t)[i] = u[i]
  BY <1>2, <1>3
<1>5. s \o t = u
  BY <1>2, <1>3, <1>4, SeqEqual
<1>6. QED
  BY <1>1, <1>5, Zenon

\* two and one,
LEMMA Concat21 ==
    ASSUME NEW x, NEW y, NEW z
    PROVE  <<x, y>> \o <<z>> = <<x, y, z>>
<1>1. PICK S, s, t, u : S = {x, y, z} /\ s = <<x, y>> /\ t = <<z>> /\ u = <<x, y, z>>
  OBVIOUS
<1>2. /\ s \in Seq(S) /\ Len(s) = 2 /\ s[1] = x /\ s[2] = y
      /\ t \in Seq(S) /\ Len(t) = 1 /\ t[1] = z
      /\ u \in Seq(S) /\ Len(u) = 3
      /\ u[1] = x /\ u[2] = y /\ u[3] = z
  BY <1>1
<1>3. /\ s \o t \in Seq(S) /\ Len(s \o t) = 3
      /\ (s \o t)[1] = x /\ (s \o t)[2] = y /\ (s \o t)[3] = z
  <2>1. /\ s \o t \in Seq(S) /\ Len(s \o t) = Len(s) + Len(t)
        /\ \A i \in 1 .. Len(s) + Len(t) :
              (s \o t)[i] = IF i <= Len(s) THEN s[i] ELSE t[i - Len(s)]
    BY <1>2, ConcatProperties
  <2>2. QED
    BY <1>2, <2>1
<1>4. \A i \in 1 .. Len(s \o t) : (s \o t)[i] = u[i]
  BY <1>2, <1>3
<1>5. s \o t = u
  BY <1>2, <1>3, <1>4, SeqEqual
<1>6. QED
  BY <1>1, <1>5, Zenon

\* two and two.
LEMMA Concat22 ==
    ASSUME NEW x, NEW y, NEW z, NEW w
    PROVE  <<x, y>> \o <<z, w>> = <<x, y, z, w>>
<1>1. PICK S, s, t, u : S = {x, y, z, w} /\ s = <<x, y>> /\ t = <<z, w>> /\ u = <<x, y, z, w>>
  OBVIOUS
<1>2. /\ s \in Seq(S) /\ Len(s) = 2 /\ s[1] = x /\ s[2] = y
      /\ t \in Seq(S) /\ Len(t) = 2 /\ t[1] = z /\ t[2] = w
      /\ u \in Seq(S) /\ Len(u) = 4
      /\ u[1] = x /\ u[2] = y /\ u[3] = z /\ u[4] = w
  BY <1>1
<1>3. /\ s \o t \in Seq(S) /\ Len(s \o t) = 4
      /\ (s \o t)[1] = x /\ (s \o t)[2] = y /\ (s \o t)[3] = z /\ (s \o t)[4] = w
  <2>1. /\ s \o t \in Seq(S) /\ Len(s \o t) = Len(s) + Len(t)
        /\ \A i \in 1 .. Len(s) + Len(t) :
              (s \o t)[i] = IF i <= Len(s) THEN s[i] ELSE t[i - Len(s)]
    BY <1>2, ConcatProperties
  <2>2. QED
    BY <1>2, <2>1
<1>4. \A i \in 1 .. Len(s \o t) : (s \o t)[i] = u[i]
  BY <1>2, <1>3
<1>5. s \o t = u
  BY <1>2, <1>3, <1>4, SeqEqual
<1>6. QED
  BY <1>1, <1>5, Zenon
=============================================================================
