--------------------------- MODULE KeyboardProofs ----------------------------
(***************************************************************************)
(* Theorems about the commands that Client-all reads, for any number of    *)
(* lines, typed at a terminal or written into a pipe.                      *)
(*                                                                         *)
(* InTypedOrder is about what has been executed; whether it stays true     *)
(* depends on what is in the buffer of scanf, and that on the lines which  *)
(* no read has returned.  Consumed follows a line from one to the other.   *)
(***************************************************************************)
EXTENDS Keyboard, SequenceLemmas

Kinds == {"send", "move", "num", "word"}
Word == [line : Nat, at : Nat, kind : Kinds]

\* The word of a line at a place.
WordAt(k, at) == [line |-> k, at |-> at, kind |-> typed[k][at]]

IsCommand(k) == typed[k] # <<>> /\ typed[k][1] \in {"send", "move"}

\* How many lines reads have returned.
Returned == Len(typed) - Len(unread)

\* Of the line of a word, the next word, or the first of the next line.
Follows(x, y) ==
    IF x.at < Len(typed[x.line])
    THEN y.line = x.line /\ y.at = x.at + 1
    ELSE y.line = x.line + 1 /\ y.at = 1

\* The lines that no read has returned are the last ones.
UnreadAreLast ==
    /\ unread \in Seq(Nat) /\ Len(unread) <= Len(typed)
    /\ \A n \in 1 .. Len(unread) : unread[n] = Returned + n

\* The buffer holds words one after the other, up to the end of the last line returned.
BufferIsRest ==
    /\ buffer \in Seq(Word)
    /\ \A n \in 1 .. Len(buffer) :
         /\ buffer[n].line \in 1 .. Returned
         /\ buffer[n].at \in 1 .. Len(typed[buffer[n].line])
         /\ buffer[n].kind = typed[buffer[n].line][buffer[n].at]
         /\ n < Len(buffer) => Follows(buffer[n], buffer[n + 1])
         /\ n = Len(buffer) =>
              buffer[n].line = Returned /\ buffer[n].at = Len(typed[Returned])

\* Between commands the buffer begins with a line; during one, with its next argument.
Reading ==
    /\ pc \in {"loop", "word", "args"}
    /\ (pc # "args" /\ buffer # <<>>) => buffer[1].at = 1
    /\ pc = "args" =>
         /\ buffer # <<>> /\ IsCommand(buffer[1].line)
         /\ command \in Seq(Word) /\ Len(command) = buffer[1].at - 1 /\ Len(command) # 0
         /\ \A at \in 1 .. Len(command) : command[at] = WordAt(buffer[1].line, at)

\* How many lines are done with.
Finished == IF buffer = <<>> THEN Returned ELSE buffer[1].line - 1

\* f[k] is what the first k lines say.
Saying(f) ==
    /\ f \in [0 .. Len(typed) -> Seq(Seq(Word))] /\ f[0] = <<>>
    /\ \A k \in 1 .. Len(typed) :
         f[k] = IF IsCommand(k) THEN Append(f[k - 1], Words(k)) ELSE f[k - 1]

Consumed ==
    /\ typed \in Seq(GoodLines) /\ UnreadAreLast /\ BufferIsRest /\ Reading
    /\ \E f : Saying(f) /\ executed = f[Finished]
    /\ ghost => ended /\ unread = <<>> /\ buffer = <<>>

TypedOK == typed \in Seq(GoodLines \cup BadLines)

KeyboardInv == TypedOK /\ (AllGood => Consumed)

-----------------------------------------------------------------------------
(* Lines, words and what they say.                                         *)

\* A good line is a word, or a command with the arguments that scanf converts.
LEMMA GoodLine ==
    ASSUME NEW line \in GoodLines
    PROVE  /\ line \in Seq(Kinds) /\ Len(line) \in 1 .. 5 /\ line # <<>>
           /\ line[1] \in {"send", "move", "word"}
           /\ line[1] = "word" => Len(line) = 1
           /\ line[1] # "word" =>
                /\ Len(line) = Len(Conversions(line[1])) + 1 /\ Len(line) > 1
                /\ \A at \in 2 .. Len(line) : Conversions(line[1])[at - 1] = line[at]
<1>1. CASE line = <<"send", "num", "num", "num", "word">>
  <2>1. /\ line \in Seq(Kinds) /\ Len(line) = 5 /\ line[1] = "send"
        /\ line[2] = "num" /\ line[3] = "num" /\ line[4] = "num" /\ line[5] = "word"
    BY <1>1 DEF Kinds
  <2>2. Conversions("send") = <<"num", "num", "num", "word">>
    BY DEF Conversions
  <2>3. \A at \in 2 .. 5 : at = 2 \/ at = 3 \/ at = 4 \/ at = 5
    OBVIOUS
  <2>4. \A at \in 2 .. 5 : Conversions("send")[at - 1] = line[at]
    BY <2>1, <2>2, <2>3
  <2>5. line # <<>> /\ Len(Conversions("send")) = 4
    BY <2>1, <2>2
  <2>6. Len(line) \in 1 .. 5 /\ Len(line) = Len(Conversions(line[1])) + 1 /\ Len(line) > 1
    <3>1. Len(Conversions(line[1])) = 4
      BY <2>1, <2>5, Zenon
    <3>2. Len(line) = 5
      BY <2>1
    <3>3. QED
      BY <3>1, <3>2
  <2>7. \A at \in 2 .. Len(line) : Conversions(line[1])[at - 1] = line[at]
    BY <2>1, <2>4, Zenon
  <2>8. line[1] # "word" /\ line[1] \in {"send", "move", "word"}
    BY <2>1
  <2>9. QED
    BY <2>1, <2>5, <2>6, <2>7, <2>8
<1>2. CASE line = <<"move", "num">>
  <2>1. line \in Seq(Kinds) /\ Len(line) = 2 /\ line[1] = "move" /\ line[2] = "num"
    BY <1>2 DEF Kinds
  <2>2. Conversions("move") = <<"num">>
    BY DEF Conversions
  <2>3. \A at \in 2 .. 2 : Conversions("move")[at - 1] = line[at]
    BY <2>1, <2>2
  <2>4. line # <<>> /\ Len(Conversions("move")) = 1
    BY <2>1, <2>2
  <2>5. Len(line) \in 1 .. 5 /\ Len(line) = Len(Conversions(line[1])) + 1 /\ Len(line) > 1
    <3>1. Len(Conversions(line[1])) = 1
      BY <2>1, <2>4, Zenon
    <3>2. Len(line) = 2
      BY <2>1
    <3>3. QED
      BY <3>1, <3>2
  <2>6. \A at \in 2 .. Len(line) : Conversions(line[1])[at - 1] = line[at]
    BY <2>1, <2>3, Zenon
  <2>7. line[1] # "word" /\ line[1] \in {"send", "move", "word"}
    BY <2>1
  <2>8. QED
    BY <2>1, <2>4, <2>5, <2>6, <2>7
<1>3. CASE line = <<"word">>
  BY <1>3 DEF Kinds
<1>4. QED
  BY <1>1, <1>2, <1>3 DEF GoodLines

Good == typed \in Seq(GoodLines)

\* All lines are good just when what was typed is a sequence of good ones.
LEMMA GoodTyped ==
    ASSUME TypedOK
    PROVE  AllGood <=> Good
<1>1. typed \in Seq(GoodLines \cup BadLines)
  BY DEF TypedOK
<1>2. ASSUME AllGood PROVE Good
  <2>1. \A k \in 1 .. Len(typed) : typed[k] \in GoodLines
    BY <1>1, <1>2 DEF AllGood
  <2>2. typed = [k \in 1 .. Len(typed) |-> typed[k]] /\ Len(typed) \in Nat
    BY <1>1
  <2>3. QED
    BY <2>1, <2>2 DEF Good
<1>3. ASSUME Good PROVE AllGood
  BY <1>3, ElementOfSeq DEF Good, AllGood
<1>4. QED
  BY <1>2, <1>3

\* The words of a line.
LEMMA WordsOfLine ==
    ASSUME Good, NEW k \in 1 .. Len(typed)
    PROVE  /\ typed[k] \in GoodLines /\ Len(typed[k]) \in 1 .. 5
           /\ Words(k) \in Seq(Word) /\ Len(Words(k)) = Len(typed[k])
           /\ \A at \in 1 .. Len(typed[k]) :
                 Words(k)[at] = WordAt(k, at) /\ WordAt(k, at) \in Word
<1>1. typed[k] \in GoodLines /\ Len(typed) \in Nat
  BY ElementOfSeq DEF Good
<1>2. typed[k] \in Seq(Kinds) /\ Len(typed[k]) \in 1 .. 5
  BY <1>1, GoodLine
<1>3. DOMAIN typed[k] = 1 .. Len(typed[k])
  BY <1>2
<1>4. ASSUME NEW at \in 1 .. Len(typed[k]) PROVE WordAt(k, at) \in Word
  <2>1. typed[k][at] \in Kinds
    BY <1>2, ElementOfSeq
  <2>2. k \in Nat /\ at \in Nat
    BY <1>1, <1>2
  <2>3. QED
    BY <2>1, <2>2 DEF WordAt, Word
<1>5. Words(k) = [at \in 1 .. Len(typed[k]) |-> WordAt(k, at)]
  BY <1>3 DEF Words, WordAt
<1>6. QED
  BY <1>1, <1>2, <1>4, <1>5

\* f[k] is a beginning of what all lines say.
LEMMA SayingGrows ==
    ASSUME Good, NEW f, Saying(f), NEW k \in 0 .. Len(typed)
    PROVE  IsPrefix(f[k], f[Len(typed)])
<1> DEFINE n == Len(typed)
           T == {m \in 0 .. n : k <= m => IsPrefix(f[k], f[m])}
<1>1. n \in Nat /\ \A m \in 0 .. n : f[m] \in Seq(Seq(Word))
  <2>1. n \in Nat
    BY LenProperties DEF Good
  <2>2. f \in [0 .. n -> Seq(Seq(Word))]
    BY DEF Saying
  <2>3. QED
    BY <2>1, <2>2
<1>2. \A s \in Seq(Seq(Word)) : IsPrefix(s, s)
  BY DEF IsPrefix
<1>3. 0 \in T
  BY <1>1, <1>2
<1>4. ASSUME NEW m \in 0 .. n - 1, m \in T PROVE m + 1 \in T
  <2>1. m + 1 \in 0 .. n /\ m \in 0 .. n /\ k \in 0 .. n /\ m + 1 \in 1 .. n /\ (m + 1) - 1 = m
    BY <1>1
  <2>2. CASE k = m + 1
    BY <1>1, <1>2, <2>1, <2>2
  <2>3. CASE k <= m
    <3>1. IsPrefix(f[k], f[m])
      BY <1>4, <2>3
    <3>2. f[m + 1] = f[m] \/ f[m + 1] = Append(f[m], Words(m + 1))
      BY <2>1 DEF Saying
    <3>3. Words(m + 1) \in Seq(Word)
      BY <2>1, WordsOfLine
    <3>4. \A s, t \in Seq(Seq(Word)) :
             IsPrefix(s, t) => IsPrefix(s, Append(t, Words(m + 1)))
      BY <3>3, PrefixAppend
    <3>5. QED
      BY <1>1, <2>1, <3>1, <3>2, <3>4
  <2>4. CASE k > m + 1
    BY <2>1, <2>4
  <2>5. QED
    BY <2>1, <2>2, <2>3, <2>4
<1> HIDE DEF n, T
<1>5. \A m \in 0 .. n : m \in T
  BY <1>1, <1>3, <1>4, UpTo
<1>6. QED
  BY <1>1, <1>5 DEF n, T

\* All lines together say what Commands has.
LEMMA CommandsSaid ==
    ASSUME Good, NEW f, Saying(f)
    PROVE  Commands = f[Len(typed)]
<1> DEFINE n == Len(typed)
           Rec(g) == g = [k \in 0 .. n |->
                             IF k = 0 THEN <<>>
                             ELSE IF typed[k] # <<>> /\ typed[k][1] \in {"send", "move"}
                                  THEN Append(g[k - 1], Words(k))
                                  ELSE g[k - 1]]
           upTo == CHOOSE g : Rec(g)
<1>1. n \in Nat
  BY DEF Good
<1>2. Rec(f)
  <2>1. f = [k \in 0 .. n |-> f[k]]
    BY DEF Saying
  <2>2. \A k \in 0 .. n : f[k] = IF k = 0 THEN <<>>
                                 ELSE IF typed[k] # <<>> /\ typed[k][1] \in {"send", "move"}
                                      THEN Append(f[k - 1], Words(k))
                                      ELSE f[k - 1]
    <3> SUFFICES ASSUME NEW k \in 0 .. n, k # 0
                 PROVE  f[k] = IF IsCommand(k) THEN Append(f[k - 1], Words(k)) ELSE f[k - 1]
      BY Zenon DEF Saying, IsCommand
    <3>1. k \in 1 .. n
      BY <1>1
    <3>2. QED
      BY <3>1, Zenon DEF Saying
  <2> DEFINE g == [k \in 0 .. n |-> IF k = 0 THEN <<>>
                                   ELSE IF typed[k] # <<>> /\ typed[k][1] \in {"send", "move"}
                                        THEN Append(f[k - 1], Words(k))
                                        ELSE f[k - 1]]
  <2>3. \A k \in 0 .. n : f[k] = g[k]
    BY <2>2
  <2>4. g = [k \in 0 .. n |-> g[k]]
    OBVIOUS
  <2>5. f = g
    <3> HIDE DEF g
    <3>1. QED
      BY <2>1, <2>3, <2>4
  <2>6. QED
    BY <2>5
<1>3. Rec(upTo)
  BY <1>2, Zenon
<1>4. Commands = upTo[n]
  BY Zenon DEF Commands
<1> HIDE DEF upTo
<1> DEFINE T == {k \in 0 .. n : upTo[k] = f[k]}
<1>5. 0 \in T
  BY <1>1, <1>3 DEF Saying
<1>6. ASSUME NEW m \in 0 .. n - 1, m \in T PROVE m + 1 \in T
  <2>1. m + 1 \in 0 .. n /\ m + 1 \in 1 .. n /\ (m + 1) - 1 = m /\ m + 1 # 0
    BY <1>1
  <2>2. upTo[m + 1] = IF IsCommand(m + 1) THEN Append(upTo[m], Words(m + 1)) ELSE upTo[m]
    BY <1>3, <2>1 DEF IsCommand
  <2>3. f[m + 1] = IF IsCommand(m + 1) THEN Append(f[m], Words(m + 1)) ELSE f[m]
    BY <2>1 DEF Saying
  <2>4. upTo[m] = f[m]
    BY <1>6
  <2>5. QED
    BY <2>1, <2>2, <2>3, <2>4
<1> HIDE DEF n, T
<1>7. \A k \in 0 .. n : k \in T
  BY <1>1, <1>5, <1>6, UpTo
<1>8. QED
  BY <1>1, <1>4, <1>7 DEF n, T

-----------------------------------------------------------------------------
(* The steps.                                                              *)

\* Of the lines the client needs only what is in these variables.
lineVars == <<typed, ended, unread, buffer, pc, command, executed, ghost>>

\* The invariant in parts, for the steps that disturb few of them.
Said == \E f : Saying(f) /\ executed = f[Finished]
GhostAtEnd == ghost => ended /\ unread = <<>> /\ buffer = <<>>

\* Consumed in the parts that a step disturbs one by one.
LEMMA ConsumedParts ==
    Consumed <=> Good /\ UnreadAreLast /\ BufferIsRest /\ Reading /\ Said /\ GhostAtEnd
BY DEF Consumed, Good, Said, GhostAtEnd

\* At the start nothing has been typed.
LEMMA InitConsumed == Init => TypedOK /\ Consumed
<1> SUFFICES ASSUME Init PROVE TypedOK /\ Consumed
  OBVIOUS
<1>1. /\ typed = <<>> /\ unread = <<>> /\ buffer = <<>> /\ pc = "loop"
      /\ executed = <<>> /\ ghost = FALSE
  BY DEF Init
<1>2. Len(typed) = 0 /\ Len(unread) = 0 /\ Len(buffer) = 0
  BY <1>1
<1>3. TypedOK /\ Good
  BY <1>1 DEF TypedOK, Good
<1>4. Returned = 0 /\ Finished = 0
  BY <1>1, <1>2 DEF Returned, Finished
<1>5. UnreadAreLast /\ BufferIsRest /\ Reading /\ GhostAtEnd
  BY <1>1, <1>2 DEF UnreadAreLast, BufferIsRest, Reading, GhostAtEnd
<1>6. Said
  <2> DEFINE f == [k \in 0 .. 0 |-> <<>>]
  <2>1. Saying(f)
    BY <1>2 DEF Saying
  <2>2. executed = f[Finished]
    BY <1>1, <1>4
  <2>3. QED
    BY <2>1, <2>2 DEF Said
<1>7. QED
  BY <1>3, <1>5, <1>6, ConsumedParts

\* What the first lines say does not depend on the rest of the state.
LEMMA SayingKept ==
    ASSUME UNCHANGED typed, NEW f, Saying(f)
    PROVE  Saying(f)'
BY DEF Saying, IsCommand, Words

\* Steps that leave input and buffer alone keep what is said of them,
LEMMA LinesKept ==
    ASSUME Good, UnreadAreLast, BufferIsRest, UNCHANGED <<typed, unread, buffer>>
    PROVE  Good' /\ UnreadAreLast' /\ BufferIsRest' /\ Finished' = Finished
BY DEF Good, UnreadAreLast, BufferIsRest, Returned, Follows, Finished

\* and of what has been executed, if as many lines are done with.
LEMMA SaidKept ==
    ASSUME Said, UNCHANGED <<typed, executed>>, Finished' = Finished
    PROVE  Said'
<1>1. PICK f : Saying(f) /\ executed = f[Finished]
  BY DEF Said
<1>2. Saying(f)' /\ executed' = f[Finished']
  BY <1>1, SayingKept
<1>3. QED
  BY <1>2 DEF Said

\* A datagram, or a return to epoll, changes none of it.
LEMMA KeepsConsumed ==
    ASSUME Consumed, UNCHANGED lineVars
    PROVE  Consumed'
<1>1. UNCHANGED <<typed, ended, unread, buffer, pc, command, executed, ghost>>
  BY DEF lineVars
<1>2. Good' /\ UnreadAreLast' /\ BufferIsRest' /\ Finished' = Finished
  BY <1>1, ConsumedParts, LinesKept
<1>3. Said'
  BY <1>1, <1>2, ConsumedParts, SaidKept
<1>4. Reading' /\ GhostAtEnd'
  <2>1. Reading /\ GhostAtEnd
    BY ConsumedParts
  <2>2. QED
    BY <1>1, <2>1 DEF Reading, GhostAtEnd, IsCommand, WordAt
<1>5. QED
  BY <1>2, <1>3, <1>4, ConsumedParts DEF Consumed, Good, Said, GhostAtEnd

\* How far the lines are done with.
LEMMA FinishedLines ==
    ASSUME Good, UnreadAreLast, BufferIsRest
    PROVE  /\ Len(typed) \in Nat /\ Returned \in 0 .. Len(typed)
           /\ Finished \in 0 .. Len(typed)
           /\ buffer # <<>> => /\ buffer[1].line \in 1 .. Returned
                              /\ Finished = buffer[1].line - 1
<1>1. Len(typed) \in Nat /\ Len(unread) \in Nat /\ Len(unread) <= Len(typed)
  BY LenProperties DEF Good, UnreadAreLast
<1>2. Returned \in 0 .. Len(typed)
  BY <1>1 DEF Returned
<1>3. CASE buffer = <<>>
  BY <1>1, <1>2, <1>3 DEF Finished
<1>4. CASE buffer # <<>>
  <2>1. 1 \in 1 .. Len(buffer)
    BY <1>4, EmptySeq DEF BufferIsRest
  <2>2. buffer[1].line \in 1 .. Returned
    BY <2>1 DEF BufferIsRest
  <2>3. QED
    BY <1>1, <1>2, <1>4, <2>2 DEF Finished
<1>5. QED
  BY <1>3, <1>4

\* A good line that is typed joins the unread ones at their end.
LEMMA TypeLineConsumed ==
    ASSUME TypedOK, Consumed, TypeLine, AllGood'
    PROVE  Consumed'
<1> DEFINE n == Len(typed)
<1>1. /\ Good /\ UnreadAreLast /\ BufferIsRest /\ Reading /\ Said /\ GhostAtEnd
  BY ConsumedParts
<1>2. PICK line \in GoodLines \cup BadLines : typed' = Append(typed, line)
  BY DEF TypeLine
<1>3. /\ ~ended /\ unread' = Append(unread, Len(typed'))
      /\ UNCHANGED <<ended, buffer, pc, command, executed, ghost>>
  BY DEF TypeLine
<1>4. n \in Nat /\ Returned \in 0 .. n /\ Finished \in 0 .. n
  BY <1>1, FinishedLines
<1>5. /\ Len(typed') = n + 1 /\ typed'[n + 1] = line /\ DOMAIN typed' = 1 .. n + 1
      /\ \A k \in 1 .. n : typed'[k] = typed[k]
  <2>1. typed \in Seq(GoodLines \cup BadLines)
    BY DEF TypedOK
  <2>2. QED
    BY <1>2, <2>1, AppendProperties
<1>6. line \in GoodLines
  <2>1. n + 1 \in DOMAIN typed'
    BY <1>4, <1>5
  <2>2. QED
    BY <1>5, <2>1 DEF AllGood
<1>7. Good'
  BY <1>1, <1>2, <1>6, AppendProperties DEF Good
<1>8. UnreadAreLast' /\ Returned' = Returned
  <2>1. unread \in Seq(Nat) /\ Len(unread) \in Nat /\ Len(unread) <= n
    BY <1>1 DEF UnreadAreLast
  <2>2. unread' = Append(unread, n + 1)
    BY <1>3, <1>5
  <2>3. /\ unread' \in Seq(Nat) /\ Len(unread') = Len(unread) + 1
        /\ unread'[Len(unread) + 1] = n + 1
        /\ \A j \in 1 .. Len(unread) : unread'[j] = unread[j]
    BY <1>4, <2>1, <2>2, AppendProperties
  <2>4. Returned = n - Len(unread) /\ Returned' = Returned
    BY <1>4, <1>5, <2>1, <2>3 DEF Returned
  <2>5. \A j \in 1 .. Len(unread) : unread[j] = Returned + j
    BY <1>1 DEF UnreadAreLast
  <2>6. \A j \in 1 .. Len(unread') : unread'[j] = Returned' + j
    <3> SUFFICES ASSUME NEW j \in 1 .. Len(unread') PROVE unread'[j] = Returned' + j
      OBVIOUS
    <3>1. CASE j = Len(unread) + 1
      BY <1>4, <2>1, <2>3, <2>4, <3>1
    <3>2. CASE j # Len(unread) + 1
      <4>1. j \in 1 .. Len(unread)
        BY <2>1, <2>3, <3>2
      <4>2. QED
        BY <2>3, <2>4, <2>5, <4>1
    <3>3. QED
      BY <3>1, <3>2
  <2>7. Len(unread') <= Len(typed')
    BY <1>4, <1>5, <2>1, <2>3
  <2>8. QED
    BY <2>3, <2>4, <2>6, <2>7, Zenon DEF UnreadAreLast
<1>9. BufferIsRest' /\ Finished' = Finished
  <2>1. Finished' = Finished
    BY <1>3, <1>8 DEF Finished
  <2>2. \A k \in 1 .. Returned : typed'[k] = typed[k]
    BY <1>4, <1>5
  <2>3. ASSUME NEW j \in 1 .. Len(buffer)
        PROVE  /\ buffer[j].line \in 1 .. Returned /\ Returned \in 1 .. Returned
               /\ buffer[j].at \in 1 .. Len(typed[buffer[j].line])
               /\ buffer[j].kind = typed[buffer[j].line][buffer[j].at]
               /\ j < Len(buffer) => Follows(buffer[j], buffer[j + 1])
               /\ j = Len(buffer) =>
                    buffer[j].line = Returned /\ buffer[j].at = Len(typed[Returned])
    BY <1>1, <1>4 DEF BufferIsRest
  <2>4. ASSUME NEW j \in 1 .. Len(buffer), j < Len(buffer)
        PROVE  Follows(buffer[j], buffer[j + 1])'
    BY <1>3, <2>2, <2>3, <2>4 DEF Follows
  <2>5. ASSUME NEW j \in 1 .. Len(buffer)
        PROVE  /\ buffer[j].at \in 1 .. Len(typed'[buffer[j].line])
               /\ buffer[j].kind = typed'[buffer[j].line][buffer[j].at]
               /\ j = Len(buffer) =>
                    buffer[j].line = Returned /\ buffer[j].at = Len(typed'[Returned])
    <3>1. typed'[buffer[j].line] = typed[buffer[j].line] /\ typed'[Returned] = typed[Returned]
      BY <2>2, <2>3
    <3>2. QED
      BY <2>3, <3>1
  <2>6. buffer \in Seq(Word)
    BY <1>1 DEF BufferIsRest
  <2>7. BufferIsRest'
    BY <1>3, <1>8, <2>3, <2>4, <2>5, <2>6 DEF BufferIsRest
  <2>8. QED
    BY <2>1, <2>7
<1>10. Said'
  <2>1. PICK f : Saying(f) /\ executed = f[Finished]
    BY <1>1 DEF Said
  <2>2. line \in Seq(Kinds) /\ Len(line) \in Nat /\ DOMAIN line = 1 .. Len(line)
    BY <1>6, GoodLine
  <2> DEFINE last == [at \in DOMAIN line |-> [line |-> n + 1, at |-> at, kind |-> line[at]]]
             x == IF line # <<>> /\ line[1] \in {"send", "move"} THEN Append(f[n], last) ELSE f[n]
             g == [k \in 0 .. n + 1 |-> IF k = n + 1 THEN x ELSE f[k]]
  <2>3. last \in Seq(Word)
    <3>1. \A at \in 1 .. Len(line) : last[at] \in Word
      BY <1>4, <2>2, ElementOfSeq DEF Word
    <3>2. last = [at \in 1 .. Len(line) |-> last[at]]
      BY <2>2
    <3> HIDE DEF last
    <3>3. QED
      BY <2>2, <3>1, <3>2
  <2>4. ASSUME NEW k, k = n + 1 PROVE Words(k)' = last
    <3>1. typed'[k] = line
      BY <1>5, <2>4
    <3>2. QED
      BY <2>4, <3>1, Zenon DEF Words, last
  <2>5. \A k \in 1 .. n : Words(k)' = Words(k)
    BY <1>5 DEF Words
  <2>6. f \in [0 .. n -> Seq(Seq(Word))] /\ f[0] = <<>> /\ f[n] \in Seq(Seq(Word))
    <3>1. f \in [0 .. n -> Seq(Seq(Word))] /\ f[0] = <<>>
      BY <2>1 DEF Saying
    <3>2. n \in 0 .. n
      BY <1>4
    <3>3. QED
      BY <3>1, <3>2
  <2> HIDE DEF last
  <2>7. x \in Seq(Seq(Word))
    BY <2>3, <2>6
  <2>8. g \in [0 .. n + 1 -> Seq(Seq(Word))]
    BY <2>6, <2>7
  <2>9. \A k \in 1 .. n : f[k] = IF IsCommand(k) THEN Append(f[k - 1], Words(k)) ELSE f[k - 1]
    BY <2>1 DEF Saying
  <2>10. g[n + 1] = x /\ g[0] = <<>> /\ \A k \in 0 .. n : g[k] = f[k]
    BY <1>4, <2>6
  <2>11. PICK h : h = g
    OBVIOUS
  <2> HIDE DEF g
  <2>12. ASSUME NEW k \in 1 .. n + 1
         PROVE  h[k] = IF IsCommand(k)' THEN Append(h[k - 1], Words(k)') ELSE h[k - 1]
    <3>1. CASE k = n + 1
      <4>1. k - 1 = n /\ h[k - 1] = f[n] /\ h[k] = x
        BY <1>4, <2>10, <2>11, <3>1
      <4>2. IsCommand(k)' <=> line # <<>> /\ line[1] \in {"send", "move"}
        BY <1>5, <3>1 DEF IsCommand
      <4>3. Words(k)' = last
        BY <2>4, <3>1, Zenon
      <4>4. QED
        BY <4>1, <4>2, <4>3
    <3>2. CASE k # n + 1
      <4>1. k \in 1 .. n /\ k - 1 \in 0 .. n /\ k \in 0 .. n
        BY <1>4, <3>2
      <4>2. h[k] = f[k] /\ h[k - 1] = f[k - 1] /\ Words(k)' = Words(k)
        BY <2>5, <2>10, <2>11, <4>1
      <4>3. IsCommand(k)' <=> IsCommand(k)
        BY <1>5, <4>1 DEF IsCommand
      <4>4. QED
        BY <2>9, <4>1, <4>2, <4>3
    <3>3. QED
      BY <3>1, <3>2
  <2>13. Saying(h)'
    <3>1. 1 .. Len(typed') = 1 .. n + 1 /\ 0 .. Len(typed') = 0 .. n + 1
      BY <1>5
    <3>2. QED
      BY <2>8, <2>10, <2>11, <2>12, <3>1, Zenon DEF Saying
  <2>14. executed' = h[Finished']
    BY <1>3, <1>4, <1>9, <2>1, <2>10, <2>11
  <2>15. QED
    BY <2>13, <2>14, Zenon DEF Said
<1>11. Reading'
  <2>1. buffer # <<>> => IsCommand(buffer[1].line)' = IsCommand(buffer[1].line)
    <3>1. buffer # <<>> => buffer[1].line \in 1 .. n
      BY <1>1, <1>4, FinishedLines
    <3>2. buffer # <<>> => typed'[buffer[1].line] = typed[buffer[1].line]
      BY <1>5, <3>1
    <3>3. QED
      BY <1>3, <3>2, Zenon DEF IsCommand
  <2>2. buffer # <<>> => \A at : WordAt(buffer[1].line, at)' = WordAt(buffer[1].line, at)
    <3>1. buffer # <<>> => buffer[1].line \in 1 .. n
      BY <1>1, <1>4, FinishedLines
    <3>2. QED
      BY <1>3, <1>5, <3>1 DEF WordAt
  <2>3. QED
    BY <1>1, <1>3, <2>1, <2>2 DEF Reading
<1>12. GhostAtEnd'
  BY <1>1, <1>3 DEF GhostAtEnd
<1>13. QED
  BY <1>7, <1>8, <1>9, <1>10, <1>11, <1>12 DEF Consumed, Good, Said, GhostAtEnd

\* A line that is not empty has a first word.
LEMMA OneToFive == \A n \in 1 .. 5 : 1 \in 1 .. n
OBVIOUS

\* What a read puts into the buffer: the words of the lines from u + 1 to u + m.
LinesAfter(u, m, lines) ==
    /\ lines \in Seq(Nat) /\ Len(lines) = m /\ u + m <= Len(typed)
    /\ \A j \in 1 .. m : lines[j] = u + j

\* t holds the words of m lines from line u + 1, one after the other.
WordsFrom(u, m, t) ==
    /\ t \in Seq(Word) /\ t # <<>> /\ t[1].line = u + 1 /\ t[1].at = 1
    /\ \A p \in 1 .. Len(t) :
         /\ t[p].line \in 1 .. u + m
         /\ t[p].at \in 1 .. Len(typed[t[p].line])
         /\ t[p].kind = typed[t[p].line][t[p].at]
         /\ p < Len(t) => Follows(t[p], t[p + 1])
         /\ p = Len(t) => t[p].line = u + m /\ t[p].at = Len(typed[u + m])

\* The words of lines that a read returns follow one upon the other, from the first
\* word of the first line to the last word of the last.
LEMMA WordsRead ==
    ASSUME Good, NEW u \in Nat, NEW m \in Nat \ {0}, NEW lines, LinesAfter(u, m, lines),
           NEW t, t = WordsOf(lines)
    PROVE  WordsFrom(u, m, t)
<1> DEFINE ss == [j \in 1 .. m |-> Words(u + j)]
<1>1. ASSUME NEW j \in 1 .. m
      PROVE  /\ u + j \in 1 .. Len(typed) /\ u + j \in 1 .. u + m
             /\ Len(typed[u + j]) \in 1 .. 5
             /\ ss[j] \in Seq(Word) /\ Len(ss[j]) = Len(typed[u + j]) /\ Len(ss[j]) \in 1 .. 5
             /\ \A at \in 1 .. Len(ss[j]) : ss[j][at] = WordAt(u + j, at)
  <2>1. u + j \in 1 .. Len(typed) /\ u + j \in 1 .. u + m
    BY LenProperties DEF Good, LinesAfter
  <2>2. ss[j] = Words(u + j)
    OBVIOUS
  <2> HIDE DEF ss
  <2>3. /\ Len(typed[u + j]) \in 1 .. 5
        /\ Words(u + j) \in Seq(Word) /\ Len(Words(u + j)) = Len(typed[u + j])
        /\ \A at \in 1 .. Len(typed[u + j]) : Words(u + j)[at] = WordAt(u + j, at)
    BY <2>1, WordsOfLine
  <2>4. QED
    BY <2>1, <2>2, <2>3
<1>2. ss \in Seq(Seq(Word)) /\ Len(ss) = m
  <2>1. \A j \in 1 .. m : Words(u + j) \in Seq(Word)
    BY <1>1
  <2>2. QED
    BY <2>1
<1>3. WordsOf(lines) = FlattenSeq(ss)
  <2>1. DOMAIN lines = 1 .. m /\ \A j \in 1 .. m : lines[j] = u + j
    BY LenProperties DEF LinesAfter
  <2>2. [j \in DOMAIN lines |-> Words(lines[j])] = ss
    BY <2>1
  <2>3. QED
    BY <2>2, Zenon DEF WordsOf
<1>4. ASSUME NEW j \in 1 .. m PROVE ss[j] # <<>>
  <2>1. Len(ss[j]) # 0
    BY <1>1
  <2>2. QED
    BY <2>1, EmptySeq
<1> HIDE DEF ss
<1>5. /\ t \in Seq(Word) /\ t # <<>> /\ t[1] = ss[1][1]
      /\ \A p \in 1 .. Len(t) :
           \E k \in 1 .. m : \E j \in 1 .. Len(ss[k]) :
             /\ t[p] = ss[k][j]
             /\ p < Len(t) /\ j < Len(ss[k]) => t[p + 1] = ss[k][j + 1]
             /\ p < Len(t) /\ j = Len(ss[k]) => k < m /\ t[p + 1] = ss[k + 1][1]
             /\ p = Len(t) => k = m /\ j = Len(ss[k])
  <2>1. t = FlattenSeq(ss) /\ Len(ss) # 0
    BY <1>2, <1>3
  <2>2. \A j \in 1 .. Len(ss) : ss[j] # <<>>
    BY <1>2, <1>4, Zenon
  <2>3. t \in Seq(Word) /\ Walks(ss, t)
    BY <1>2, <2>1, <2>2, FlattenWalk
  <2>4. QED
    BY <1>2, <2>3, Zenon DEF Walks
<1>6. ASSUME NEW p \in 1 .. Len(t)
      PROVE  /\ t[p].line \in 1 .. u + m
             /\ t[p].at \in 1 .. Len(typed[t[p].line])
             /\ t[p].kind = typed[t[p].line][t[p].at]
             /\ p < Len(t) => Follows(t[p], t[p + 1])
             /\ p = Len(t) => t[p].line = u + m /\ t[p].at = Len(typed[u + m])
  <2>1. PICK k \in 1 .. m : \E j \in 1 .. Len(ss[k]) :
             /\ t[p] = ss[k][j]
             /\ p < Len(t) /\ j < Len(ss[k]) => t[p + 1] = ss[k][j + 1]
             /\ p < Len(t) /\ j = Len(ss[k]) => k < m /\ t[p + 1] = ss[k + 1][1]
             /\ p = Len(t) => k = m /\ j = Len(ss[k])
    BY <1>5, Zenon
  <2>2. PICK j \in 1 .. Len(ss[k]) :
             /\ t[p] = ss[k][j]
             /\ p < Len(t) /\ j < Len(ss[k]) => t[p + 1] = ss[k][j + 1]
             /\ p < Len(t) /\ j = Len(ss[k]) => k < m /\ t[p + 1] = ss[k + 1][1]
             /\ p = Len(t) => k = m /\ j = Len(ss[k])
    BY <2>1, Zenon
  <2>3. /\ u + k \in 1 .. u + m /\ Len(ss[k]) = Len(typed[u + k]) /\ Len(ss[k]) \in 1 .. 5
        /\ \A at \in 1 .. Len(ss[k]) : ss[k][at] = WordAt(u + k, at)
    BY <1>1
  <2>4. t[p].line = u + k /\ t[p].at = j /\ t[p].kind = typed[u + k][j]
    <3>1. t[p] = WordAt(u + k, j)
      BY <2>2, <2>3, Zenon
    <3>2. QED
      BY <3>1 DEF WordAt
  <2>5. ASSUME p < Len(t) PROVE Follows(t[p], t[p + 1])
    <3>1. CASE j < Len(ss[k])
      <4>1. j + 1 \in 1 .. Len(ss[k])
        BY <2>3, <3>1
      <4>2. t[p + 1] = WordAt(u + k, j + 1)
        BY <2>2, <2>3, <2>5, <3>1, <4>1, Zenon
      <4>3. QED
        BY <2>3, <2>4, <3>1, <4>2, SMTT(20) DEF Follows, WordAt
    <3>2. CASE j = Len(ss[k])
      <4>1. k < m /\ t[p + 1] = ss[k + 1][1]
        BY <2>2, <2>5, <3>2, Zenon
      <4>2. k + 1 \in 1 .. m
        BY <4>1
      <4>3. /\ Len(ss[k + 1]) \in 1 .. 5
            /\ \A at \in 1 .. Len(ss[k + 1]) : ss[k + 1][at] = WordAt(u + (k + 1), at)
        <5>1. Len(ss[k + 1]) = Len(typed[u + (k + 1)]) /\ Len(typed[u + (k + 1)]) \in 1 .. 5
          BY <1>1, <4>2
        <5>2. QED
          BY <1>1, <4>2, <5>1
      <4>4. t[p + 1] = WordAt(u + (k + 1), 1)
        <5>1. 1 \in 1 .. Len(ss[k + 1])
          BY <4>3, OneToFive, Zenon
        <5>2. QED
          BY <4>1, <4>3, <5>1, Zenon
      <4>5. t[p + 1].line = (u + k) + 1 /\ t[p + 1].at = 1
        BY <4>4 DEF WordAt
      <4>6. ~(t[p].at < Len(typed[t[p].line]))
        BY <2>3, <2>4, <3>2
      <4>7. QED
        BY <2>4, <4>5, <4>6, Zenon DEF Follows
    <3>3. QED
      BY <2>3, <3>1, <3>2
  <2>6. ASSUME p = Len(t) PROVE t[p].line = u + m /\ t[p].at = Len(typed[u + m])
    BY <2>2, <2>3, <2>4, <2>6, Zenon
  <2>7. t[p].at \in 1 .. Len(typed[t[p].line]) /\ t[p].kind = typed[t[p].line][t[p].at]
    BY <2>3, <2>4
  <2>8. QED
    BY <2>3, <2>4, <2>5, <2>6, <2>7
<1>7. t[1].line = u + 1 /\ t[1].at = 1
  <2>1. 1 \in 1 .. m /\ 1 \in 1 .. Len(ss[1])
    <3>1. 1 \in 1 .. m
      OBVIOUS
    <3>2. Len(ss[1]) = Len(typed[u + 1]) /\ Len(typed[u + 1]) \in 1 .. 5
      BY <1>1, <3>1
    <3>3. 1 \in 1 .. Len(ss[1])
      BY <3>2, OneToFive, Zenon
    <3>4. QED
      BY <3>1, <3>3
  <2>2. t[1] = WordAt(u + 1, 1)
    BY <1>1, <1>5, <2>1
  <2>3. QED
    BY <2>2 DEF WordAt
<1>8. QED
  BY <1>5, <1>6, <1>7, Zenon DEF WordsFrom

\* A read puts one line (terminal) or all of them (pipe) behind what is in the buffer.
LEMMA ReadStdinConsumed ==
    ASSUME Consumed, ReadStdin
    PROVE  Consumed'
<1>1. Good /\ UnreadAreLast /\ BufferIsRest /\ Reading /\ Said /\ GhostAtEnd
  BY ConsumedParts
<1>2. /\ pc # "loop" /\ buffer = <<>> /\ unread # <<>>
      /\ UNCHANGED <<typed, ended, pc, command, executed, ghost>>
  BY DEF ReadStdin, inputVars
<1>3. /\ Len(typed) \in Nat /\ unread \in Seq(Nat) /\ Len(unread) \in Nat \ {0}
      /\ Len(unread) <= Len(typed)
      /\ Returned \in Nat /\ Returned + Len(unread) = Len(typed)
  <2>1. Len(typed) \in Nat /\ unread \in Seq(Nat) /\ Len(unread) <= Len(typed)
    BY <1>1, LenProperties DEF Good, UnreadAreLast
  <2>2. Len(unread) \in Nat \ {0}
    BY <1>2, <2>1, EmptySeq
  <2>3. QED
    BY <2>1, <2>2 DEF Returned
<1>4. PICK m : /\ m \in 1 .. Len(unread)
               /\ buffer' = WordsOf(SubSeq(unread, 1, m))
               /\ unread' = SubSeq(unread, m + 1, Len(unread))
  <2> DEFINE n == IF terminal THEN 1 ELSE Len(unread)
  <2>1. n \in 1 .. Len(unread)
    BY <1>3
  <2>2. /\ buffer' = WordsOf(SubSeq(unread, 1, n))
        /\ unread' = SubSeq(unread, n + 1, Len(unread))
    BY DEF ReadStdin
  <2> HIDE DEF n
  <2>3. QED
    BY <2>1, <2>2
<1>5. PICK u \in Nat : u = Returned
  BY <1>3
<1> DEFINE lines == SubSeq(unread, 1, m)
<1>6. m \in Nat \ {0} /\ LinesAfter(u, m, lines)
  <2>1. m \in Nat \ {0} /\ m <= Len(unread)
    BY <1>3, <1>4
  <2>2. lines = [j \in 1 .. m |-> unread[j]] /\ Len(lines) = m
    BY <1>3, <2>1, SubSeqProperties
  <2>3. \A j \in 1 .. m : j \in 1 .. Len(unread)
    BY <1>3, <2>1
  <2>4. \A j \in 1 .. m : unread[j] = u + j
    BY <1>1, <1>5, <2>3, Zenon DEF UnreadAreLast
  <2>5. lines \in Seq(Nat)
    BY <1>3, <2>1
  <2>6. u + m <= Len(typed)
    BY <1>3, <1>5, <2>1
  <2> HIDE DEF lines
  <2>7. QED
    BY <2>1, <2>2, <2>4, <2>5, <2>6 DEF LinesAfter
<1> HIDE DEF lines
<1>7. /\ buffer' \in Seq(Word) /\ buffer' # <<>> /\ buffer'[1].line = u + 1 /\ buffer'[1].at = 1
      /\ \A p \in 1 .. Len(buffer') :
           /\ buffer'[p].line \in 1 .. u + m
           /\ buffer'[p].at \in 1 .. Len(typed[buffer'[p].line])
           /\ buffer'[p].kind = typed[buffer'[p].line][buffer'[p].at]
           /\ p < Len(buffer') => Follows(buffer'[p], buffer'[p + 1])
           /\ p = Len(buffer') =>
                buffer'[p].line = u + m /\ buffer'[p].at = Len(typed[u + m])
  <2>1. PICK t : t = WordsOf(lines) /\ buffer' = t
    BY <1>4 DEF lines
  <2>2. WordsFrom(u, m, t)
    BY <1>1, <1>6, <2>1, WordsRead
  <2>3. WordsFrom(u, m, buffer')
    BY <2>1, <2>2, Zenon
  <2>4. QED
    BY <2>3, Zenon DEF WordsFrom
<1>8. UnreadAreLast' /\ Returned' = u + m
  <2>1. /\ unread' \in Seq(Nat) /\ Len(unread') = Len(unread) - m
        /\ \A j \in 1 .. Len(unread) - m : unread'[j] = unread[m + j]
    BY <1>3, <1>4
  <2>2. PICK a \in Nat : a = Len(unread) /\ m \in 1 .. a /\ u + a = Len(typed) /\ Len(unread') = a - m
    BY <1>3, <1>4, <1>5, <2>1
  <2>3. Returned' = u + m /\ Len(unread') <= Len(typed')
    <3>1. Len(typed') = u + a
      BY <1>2, <2>2
    <3>2. Returned' = (u + a) - (a - m)
      BY <2>2, <3>1, Zenon DEF Returned
    <3>3. a - m <= u + a /\ (u + a) - (a - m) = u + m
      BY <2>2
    <3>4. QED
      BY <2>2, <3>1, <3>2, <3>3
  <2>4. ASSUME NEW j \in 1 .. Len(unread') PROVE unread'[j] = Returned' + j
    <3>1. j \in 1 .. Len(unread) - m /\ m + j \in 1 .. Len(unread)
      <4>1. j \in 1 .. a - m /\ m + j \in 1 .. a
        BY <2>2
      <4>2. QED
        BY <2>2, <4>1, Zenon
    <3>2. unread[m + j] = u + (m + j)
      BY <1>1, <1>5, <3>1, Zenon DEF UnreadAreLast
    <3>3. QED
      BY <2>1, <2>2, <2>3, <3>1, <3>2
  <2>5. QED
    BY <2>1, <2>3, <2>4 DEF UnreadAreLast
<1>9. BufferIsRest'
  BY <1>2, <1>7, <1>8, Zenon DEF BufferIsRest, Follows
<1>10. Finished = u /\ Finished' = u
  BY <1>2, <1>5, <1>7 DEF Finished
<1>11. Said'
  BY <1>1, <1>2, <1>10, SaidKept
<1>12. Good' /\ GhostAtEnd'
  BY <1>1, <1>2 DEF Good, GhostAtEnd
<1>13. Reading'
  <2>1. pc = "word"
    BY <1>1, <1>2 DEF Reading
  <2>2. QED
    BY <1>2, <1>7, <2>1 DEF Reading
<1>14. QED
  BY <1>8, <1>9, <1>11, <1>12, <1>13 DEF Consumed, Good, Said, GhostAtEnd

\* The first word of the buffer.
LEMMA FirstWord ==
    ASSUME Good, UnreadAreLast, BufferIsRest, buffer # <<>>,
           NEW x, x = Head(buffer)
    PROVE  /\ x = buffer[1] /\ x \in Word /\ Len(typed) \in Nat
           /\ x.line \in 1 .. Len(typed) /\ typed[x.line] \in GoodLines
           /\ x.at \in 1 .. Len(typed[x.line]) /\ Len(typed[x.line]) \in 1 .. 5
           /\ x.kind = typed[x.line][x.at] /\ x = WordAt(x.line, x.at)
           /\ Finished = x.line - 1
<1>1. 1 \in 1 .. Len(buffer) /\ buffer[1] \in Word /\ x = buffer[1]
  BY EmptySeq, ElementOfSeq DEF BufferIsRest
<1>2. /\ Len(typed) \in Nat /\ Returned \in 0 .. Len(typed)
      /\ x.line \in 1 .. Returned /\ Finished = x.line - 1
  BY <1>1, FinishedLines
<1>3. x.line \in 1 .. Len(typed)
  BY <1>2
<1>4. x.at \in 1 .. Len(typed[x.line]) /\ x.kind = typed[x.line][x.at]
  BY <1>1, Zenon DEF BufferIsRest
<1>5. typed[x.line] \in GoodLines /\ Len(typed[x.line]) \in 1 .. 5
  BY <1>3, WordsOfLine
<1>6. x = WordAt(x.line, x.at)
  BY <1>1, <1>4 DEF Word, WordAt
<1>7. QED
  BY <1>1, <1>2, <1>3, <1>4, <1>5, <1>6

\* When it is taken, the next one of its line comes first, or its line is done with.
LEMMA TailRest ==
    ASSUME Good, UnreadAreLast, BufferIsRest, buffer # <<>>, NEW x, x = Head(buffer),
           UNCHANGED <<typed, unread>>, buffer' = Tail(buffer)
    PROVE  /\ Good' /\ UnreadAreLast' /\ BufferIsRest'
           /\ x.at # Len(typed[x.line]) =>
                /\ buffer' # <<>> /\ Finished' = Finished
                /\ buffer'[1].line = x.line /\ buffer'[1].at = x.at + 1
           /\ x.at = Len(typed[x.line]) =>
                Finished' = x.line /\ (buffer' # <<>> => buffer'[1].at = 1)
<1>1. Good' /\ UnreadAreLast' /\ Returned' = Returned
  BY DEF Good, UnreadAreLast, Returned
<1>2. /\ buffer \in Seq(Word) /\ Len(buffer) \in Nat \ {0} /\ buffer' \in Seq(Word)
      /\ Len(buffer') = Len(buffer) - 1 /\ Len(buffer') \in Nat
      /\ \A n \in 1 .. Len(buffer') : buffer'[n] = buffer[n + 1]
  <2>1. buffer \in Seq(Word)
    BY DEF BufferIsRest
  <2>2. Len(buffer) \in Nat \ {0}
    BY <2>1, EmptySeq
  <2>3. QED
    BY <2>1, <2>2, HeadTailProperties
<1>3. \A n \in 1 .. Len(buffer') :
         /\ n + 1 \in 1 .. Len(buffer) /\ (n < Len(buffer') <=> n + 1 < Len(buffer))
         /\ (n = Len(buffer') <=> n + 1 = Len(buffer))
         /\ n < Len(buffer') => n + 1 \in 1 .. Len(buffer')
  BY <1>2
<1>4. BufferIsRest'
  <2>1. ASSUME NEW n \in 1 .. Len(buffer')
        PROVE  /\ buffer'[n].line \in 1 .. Returned
               /\ buffer'[n].at \in 1 .. Len(typed[buffer'[n].line])
               /\ buffer'[n].kind = typed[buffer'[n].line][buffer'[n].at]
               /\ n < Len(buffer') => Follows(buffer'[n], buffer'[n + 1])
               /\ n = Len(buffer') =>
                    buffer'[n].line = Returned /\ buffer'[n].at = Len(typed[Returned])
    <3>1. buffer'[n] = buffer[n + 1] /\ n + 1 \in 1 .. Len(buffer)
      BY <1>2, <1>3
    <3>2. n < Len(buffer') => n + 1 < Len(buffer) /\ buffer'[n + 1] = buffer[(n + 1) + 1]
      BY <1>2, <1>3
    <3>3. n = Len(buffer') => n + 1 = Len(buffer)
      BY <1>3
    <3>4. QED
      BY <3>1, <3>2, <3>3, Zenon DEF BufferIsRest
  <2>2. QED
    BY <1>1, <1>2, <2>1, Zenon DEF BufferIsRest, Follows
<1>5. /\ x = buffer[1] /\ x.line \in 1 .. Len(typed) /\ x.at \in 1 .. Len(typed[x.line])
      /\ Len(typed[x.line]) \in 1 .. 5 /\ Finished = x.line - 1
  BY FirstWord
<1>6. CASE Len(buffer) = 1
  <2>1. buffer' = <<>> /\ Finished' = Returned
    BY <1>1, <1>2, <1>6, EmptySeq DEF Finished
  <2>2. 1 \in 1 .. Len(buffer)
    BY <1>6
  <2>3. x.line = Returned /\ x.at = Len(typed[Returned])
    BY <1>5, <1>6, <2>2, Zenon DEF BufferIsRest
  <2>4. QED
    BY <1>1, <1>4, <2>1, <2>3
<1>7. CASE Len(buffer) # 1
  <2>1. 1 \in 1 .. Len(buffer) /\ 1 < Len(buffer) /\ 1 \in 1 .. Len(buffer') /\ Len(buffer') # 0
    BY <1>2, <1>7
  <2>2. buffer' # <<>> /\ buffer'[1] = buffer[1 + 1] /\ Finished' = buffer'[1].line - 1
    BY <1>2, <2>1, EmptySeq DEF Finished
  <2>3. Follows(x, buffer'[1])
    BY <1>5, <2>1, <2>2, Zenon DEF BufferIsRest
  <2>4. CASE x.at < Len(typed[x.line])
    <3>1. buffer'[1].line = x.line /\ buffer'[1].at = x.at + 1
      BY <2>3, <2>4 DEF Follows
    <3>2. x.at # Len(typed[x.line])
      BY <1>5, <2>4
    <3>3. QED
      BY <1>1, <1>4, <1>5, <2>2, <3>1, <3>2, Zenon
  <2>5. CASE ~(x.at < Len(typed[x.line]))
    <3>1. buffer'[1].line = x.line + 1 /\ buffer'[1].at = 1
      BY <2>3, <2>5 DEF Follows
    <3>2. x.at = Len(typed[x.line])
      BY <1>5, <2>5
    <3>3. Finished' = x.line
      BY <1>5, <2>2, <3>1
    <3>4. QED
      BY <1>1, <1>4, <3>1, <3>2, <3>3, Zenon
  <2>6. QED
    BY <2>4, <2>5
<1>8. QED
  BY <1>6, <1>7

\* A line is done with; if it is a command, it has been executed.
LEMMA LineSaid ==
    ASSUME Good, Said, NEW k \in 1 .. Len(typed), Finished = k - 1,
           UNCHANGED typed, Finished' = k,
           executed' = IF IsCommand(k) THEN Append(executed, Words(k)) ELSE executed
    PROVE  Said'
<1>1. PICK f : Saying(f) /\ executed = f[Finished]
  BY DEF Said
<1>2. f[k] = IF IsCommand(k) THEN Append(f[k - 1], Words(k)) ELSE f[k - 1]
  BY <1>1 DEF Saying
<1>3. Saying(f)' /\ executed' = f[Finished']
  BY <1>1, <1>2, SayingKept
<1>4. QED
  BY <1>3 DEF Said

\* scanf takes the first word of a line, and the line is done with if it was no command.
LEMMA ScanWordConsumed ==
    ASSUME Consumed, ScanWord
    PROVE  Consumed'
<1>a. PICK x : x = Head(buffer)
  OBVIOUS
<1>b. PICK k : k = x.line
  OBVIOUS
<1>1. Good /\ UnreadAreLast /\ BufferIsRest /\ Reading /\ Said /\ GhostAtEnd
  BY ConsumedParts
<1>2. /\ pc = "word" /\ buffer # <<>> /\ buffer' = Tail(buffer)
      /\ UNCHANGED <<typed, ended, unread, executed, ghost>>
      /\ IF x.kind \in {"send", "move"} THEN pc' = "args" /\ command' = <<x>> ELSE pc' = "loop"
  BY <1>a DEF ScanWord, Taken, inputVars
<1>3. /\ x = buffer[1] /\ x \in Word /\ k \in 1 .. Len(typed) /\ typed[k] \in GoodLines
      /\ Len(typed[k]) \in 1 .. 5 /\ x.kind = typed[k][x.at] /\ x = WordAt(k, x.at)
      /\ Finished = k - 1
  BY <1>a, <1>b, <1>1, <1>2, FirstWord
<1>4. x.at = 1
  BY <1>1, <1>2, <1>3 DEF Reading
<1>5. /\ Good' /\ UnreadAreLast' /\ BufferIsRest'
      /\ x.at # Len(typed[k]) =>
            /\ buffer' # <<>> /\ Finished' = Finished
            /\ buffer'[1].line = k /\ buffer'[1].at = x.at + 1
      /\ x.at = Len(typed[k]) => Finished' = k /\ (buffer' # <<>> => buffer'[1].at = 1)
  BY <1>a, <1>b, <1>1, <1>2, TailRest
<1>6. typed[k] # <<>> /\ (IsCommand(k) <=> x.kind \in {"send", "move"})
  BY <1>3, <1>4, GoodLine DEF IsCommand
<1>7. GhostAtEnd'
  BY <1>1, <1>2 DEF GhostAtEnd
<1>8. CASE x.kind \in {"send", "move"}
  <2>1. Len(typed[k]) > 1
    BY <1>3, <1>4, <1>8, GoodLine
  <2>2. /\ buffer' # <<>> /\ Finished' = Finished
        /\ buffer'[1].line = k /\ buffer'[1].at = 2
    <3>1. 1 + 1 = 2 /\ \A n \in 1 .. 5 : n > 1 => n # 1
      OBVIOUS
    <3>2. x.at # Len(typed[k])
      BY <1>3, <1>4, <2>1, <3>1, Zenon
    <3>3. QED
      BY <1>4, <1>5, <3>1, <3>2, Zenon
  <2>3. Said'
    BY <1>1, <1>2, <2>2, SaidKept
  <2>4. pc' = "args" /\ command' = <<x>>
    BY <1>2, <1>8
  <2>5. /\ command' \in Seq(Word) /\ Len(command') = 1 /\ command'[1] = x
        /\ \A at \in 1 .. Len(command') : at = 1
    BY <1>3, <2>4
  <2>6. IsCommand(k)' /\ WordAt(k, 1)' = x
    BY <1>2, <1>3, <1>4, <1>6, <1>8, Zenon DEF IsCommand, WordAt
  <2>7. Reading'
    <3>1. (\A at \in 1 .. Len(command) : command[at] = WordAt(buffer[1].line, at))'
      BY <2>2, <2>5, <2>6, Zenon
    <3>2. Len(command') = buffer'[1].at - 1 /\ Len(command') # 0
      BY <2>2, <2>5
    <3>3. QED
      BY <2>2, <2>4, <2>5, <2>6, <3>1, <3>2 DEF Reading
  <2>8. QED
    BY <1>5, <1>7, <2>3, <2>7 DEF Consumed, Good, Said, GhostAtEnd
<1>9. CASE x.kind \notin {"send", "move"}
  <2>1. Len(typed[k]) = 1
    BY <1>3, <1>4, <1>9, GoodLine
  <2>2. Finished' = k /\ (buffer' # <<>> => buffer'[1].at = 1)
    BY <1>4, <1>5, <2>1
  <2>3. Said'
    BY <1>1, <1>2, <1>3, <1>6, <1>9, <2>2, LineSaid
  <2>4. pc' = "loop"
    BY <1>2, <1>9
  <2>5. Reading'
    BY <2>2, <2>4 DEF Reading
  <2>6. QED
    BY <1>5, <1>7, <2>3, <2>5 DEF Consumed, Good, Said, GhostAtEnd
<1>10. QED
  BY <1>8, <1>9

\* A conversion meets the word it is for, and the last one executes the command.
LEMMA ScanArgumentConsumed ==
    ASSUME Consumed, ScanArgument
    PROVE  Consumed'
<1>a. PICK x : x = Head(buffer)
  OBVIOUS
<1>b. PICK k : k = x.line
  OBVIOUS
<1> DEFINE conversions == Conversions(command[1].kind)
           done == Append(command, x)
<1>1. Good /\ UnreadAreLast /\ BufferIsRest /\ Reading /\ Said /\ GhostAtEnd
  BY ConsumedParts
<1>2. /\ pc = "args" /\ buffer # <<>> /\ UNCHANGED <<typed, ended, unread, ghost>>
      /\ conversions[Len(command)] \in {"word", x.kind} =>
           /\ buffer' = Tail(buffer) /\ command' = done
           /\ IF Len(command) = Len(conversions)
              THEN executed' = Append(executed, done) /\ pc' = "loop"
              ELSE UNCHANGED <<pc, executed>>
  BY <1>a DEF ScanArgument, Execute, inputVars
<1>3. /\ x = buffer[1] /\ x \in Word /\ k \in 1 .. Len(typed) /\ typed[k] \in GoodLines
      /\ x.at \in 1 .. Len(typed[k]) /\ Len(typed[k]) \in 1 .. 5
      /\ x.kind = typed[k][x.at] /\ x = WordAt(k, x.at) /\ Finished = k - 1
  BY <1>a, <1>b, <1>1, <1>2, FirstWord
<1>4. /\ IsCommand(k) /\ command \in Seq(Word) /\ Len(command) = x.at - 1 /\ Len(command) # 0
      /\ \A at \in 1 .. Len(command) : command[at] = WordAt(k, at)
  BY <1>b, <1>1, <1>2, <1>3, Zenon DEF Reading
<1>5. x.at \in 2 .. Len(typed[k]) /\ Len(command) \in Nat /\ Len(command) + 1 = x.at
  BY <1>3, <1>4
<1>6. command[1].kind = typed[k][1]
  <2>1. 1 \in 1 .. Len(command)
    BY <1>4, <1>5
  <2>2. command[1] = WordAt(k, 1)
    BY <1>4, <2>1
  <2>3. QED
    BY <2>2 DEF WordAt
<1>7. Len(typed[k]) = Len(conversions) + 1 /\ conversions[Len(command)] = x.kind
  <2>1. typed[k][1] # "word"
    BY <1>4 DEF IsCommand
  <2>2. /\ Len(typed[k]) = Len(conversions) + 1
        /\ \A at \in 2 .. Len(typed[k]) : conversions[at - 1] = typed[k][at]
    BY <1>3, <1>6, <2>1, GoodLine
  <2>3. QED
    BY <1>3, <1>4, <1>5, <2>2
<1> HIDE DEF conversions
<1>8. /\ buffer' = Tail(buffer) /\ command' = done
      /\ IF Len(command) = Len(conversions)
         THEN executed' = Append(executed, done) /\ pc' = "loop"
         ELSE UNCHANGED <<pc, executed>>
  BY <1>2, <1>7
<1>9. /\ Good' /\ UnreadAreLast' /\ BufferIsRest'
      /\ x.at # Len(typed[k]) =>
            /\ buffer' # <<>> /\ Finished' = Finished
            /\ buffer'[1].line = k /\ buffer'[1].at = x.at + 1
      /\ x.at = Len(typed[k]) => Finished' = k /\ (buffer' # <<>> => buffer'[1].at = 1)
  BY <1>a, <1>b, <1>1, <1>2, <1>8, TailRest
<1>10. /\ done \in Seq(Word) /\ Len(done) = x.at
       /\ \A at \in 1 .. x.at : done[at] = WordAt(k, at)
  <2>1. /\ done \in Seq(Word) /\ Len(done) = Len(command) + 1 /\ done[Len(command) + 1] = x
        /\ \A at \in 1 .. Len(command) : done[at] = command[at]
    <3> HIDE DEF done
    <3>1. command \in Seq(Word) /\ x \in Word /\ done = Append(command, x)
      BY <1>3, <1>4 DEF done
    <3>2. QED
      BY <3>1, AppendProperties, Zenon
  <2>2. ASSUME NEW at \in 1 .. x.at PROVE done[at] = WordAt(k, at)
    <3>1. CASE at = x.at
      BY <1>3, <1>5, <2>1, <3>1
    <3>2. CASE at # x.at
      <4>1. at \in 1 .. Len(command)
        BY <1>3, <1>5, <3>2
      <4>2. QED
        BY <1>4, <2>1, <4>1
    <3>3. QED
      BY <3>1, <3>2
  <2>3. QED
    BY <1>5, <2>1, <2>2
<1> HIDE DEF done
<1>11. GhostAtEnd'
  BY <1>1, <1>2 DEF GhostAtEnd
<1>12. CASE x.at = Len(typed[k])
  <2>1. Finished' = k /\ (buffer' # <<>> => buffer'[1].at = 1)
    BY <1>9, <1>12
  <2>2. Len(command) = Len(conversions)
    BY <1>3, <1>5, <1>7, <1>12
  <2>3. executed' = Append(executed, done) /\ pc' = "loop"
    BY <1>8, <2>2
  <2>4. done = Words(k)
    <3>1. /\ Words(k) \in Seq(Word) /\ Len(Words(k)) = x.at
          /\ \A at \in 1 .. x.at : Words(k)[at] = WordAt(k, at)
      BY <1>1, <1>3, <1>12, WordsOfLine
    <3>2. Len(done) = Len(Words(k)) /\ \A at \in 1 .. Len(done) : done[at] = Words(k)[at]
      BY <1>10, <3>1
    <3>3. QED
      BY <1>10, <3>1, <3>2, SeqEqual
  <2>5. Said'
    BY <1>1, <1>2, <1>3, <1>4, <2>1, <2>3, <2>4, LineSaid
  <2>6. Reading'
    BY <2>1, <2>3 DEF Reading
  <2>7. QED
    BY <1>9, <1>11, <2>5, <2>6 DEF Consumed, Good, Said, GhostAtEnd
<1>13. CASE x.at # Len(typed[k])
  <2>1. /\ buffer' # <<>> /\ Finished' = Finished
        /\ buffer'[1].line = k /\ buffer'[1].at = x.at + 1
    BY <1>9, <1>13
  <2>2. Len(command) # Len(conversions)
    BY <1>3, <1>5, <1>7, <1>13
  <2>3. UNCHANGED <<pc, executed>>
    BY <1>8, <2>2
  <2>4. Said'
    BY <1>1, <1>2, <2>1, <2>3, SaidKept
  <2>5. IsCommand(k)' /\ \A at : WordAt(k, at)' = WordAt(k, at)
    BY <1>2, <1>4 DEF IsCommand, WordAt
  <2>6. Reading'
    <3>1. (\A at \in 1 .. Len(command) : command[at] = WordAt(buffer[1].line, at))'
      BY <1>8, <1>10, <2>1, <2>5, Zenon
    <3>2. Len(command') = buffer'[1].at - 1 /\ Len(command') # 0
      <4>1. Len(command') = x.at
        BY <1>8, <1>10
      <4>2. x.at \in Nat \ {0} /\ buffer'[1].at = x.at + 1
        BY <1>3, <2>1
      <4>3. QED
        BY <4>1, <4>2
    <3>3. pc' = "args" /\ command' \in Seq(Word)
      BY <1>2, <1>8, <1>10, <2>3
    <3>4. QED
      BY <2>1, <2>5, <3>1, <3>2, <3>3 DEF Reading
  <2>7. QED
    BY <1>9, <1>11, <2>4, <2>6 DEF Consumed, Good, Said, GhostAtEnd
<1>14. QED
  BY <1>12, <1>13

\* At its end, the input is all done with, and only a word is still waited for.
LEMMA ScanEndConsumed ==
    ASSUME Consumed, ScanEnd
    PROVE  Consumed'
<1>1. Good /\ UnreadAreLast /\ BufferIsRest /\ Reading /\ Said /\ GhostAtEnd
  BY ConsumedParts
<1>2. /\ buffer = <<>> /\ unread = <<>> /\ ended
      /\ UNCHANGED <<typed, ended, unread, buffer>>
      /\ pc = "args" \/ (pc' = "loop" /\ UNCHANGED executed)
  BY DEF ScanEnd, inputVars
<1>3. pc # "args"
  BY <1>1, <1>2 DEF Reading
<1>4. Good' /\ UnreadAreLast' /\ BufferIsRest' /\ Finished' = Finished
  BY <1>1, <1>2, LinesKept
<1>5. Said'
  BY <1>1, <1>2, <1>3, <1>4, SaidKept
<1>6. Reading' /\ GhostAtEnd'
  BY <1>2, <1>3 DEF Reading, GhostAtEnd
<1>7. QED
  BY <1>4, <1>5, <1>6 DEF Consumed, Good, Said, GhostAtEnd

\* The handler begins between two lines.
LEMMA HandleStdinConsumed ==
    ASSUME Consumed, HandleStdin
    PROVE  Consumed'
<1>1. Good /\ UnreadAreLast /\ BufferIsRest /\ Reading /\ Said /\ GhostAtEnd
  BY ConsumedParts
<1>2. /\ pc = "loop" /\ pc' = "word"
      /\ UNCHANGED <<typed, ended, unread, buffer, executed, ghost>>
  BY DEF HandleStdin, inputVars
<1>3. Good' /\ UnreadAreLast' /\ BufferIsRest' /\ Finished' = Finished
  BY <1>1, <1>2, LinesKept
<1>4. Said'
  BY <1>1, <1>2, <1>3, SaidKept
<1>5. Reading' /\ GhostAtEnd'
  BY <1>1, <1>2 DEF Reading, GhostAtEnd
<1>6. QED
  BY <1>3, <1>4, <1>5 DEF Consumed, Good, Said, GhostAtEnd

\* The end of the input takes no line away.
LEMMA EndInputConsumed ==
    ASSUME Consumed, EndInput
    PROVE  Consumed'
<1>1. Good /\ UnreadAreLast /\ BufferIsRest /\ Reading /\ Said /\ GhostAtEnd
  BY ConsumedParts
<1>2. ended' /\ UNCHANGED <<typed, unread, buffer, pc, command, executed, ghost>>
  BY DEF EndInput
<1>3. Good' /\ UnreadAreLast' /\ BufferIsRest' /\ Finished' = Finished
  BY <1>1, <1>2, LinesKept
<1>4. Said'
  BY <1>1, <1>2, <1>3, SaidKept
<1>5. Reading' /\ GhostAtEnd'
  BY <1>1, <1>2 DEF Reading, GhostAtEnd, IsCommand, WordAt
<1>6. QED
  BY <1>3, <1>4, <1>5 DEF Consumed, Good, Said, GhostAtEnd

\* Whatever happens, lines that are all good were all good before.
LEMMA NextConsumed == KeyboardInv /\ [Next]_vars => KeyboardInv'
<1> SUFFICES ASSUME KeyboardInv, [Next]_vars PROVE KeyboardInv'
  OBVIOUS
<1>1. TypedOK /\ (AllGood => Consumed)
  BY DEF KeyboardInv
<1>2. CASE TypeLine
  <2>1. TypedOK'
    <3>1. PICK line \in GoodLines \cup BadLines : typed' = Append(typed, line)
      BY <1>2 DEF TypeLine
    <3>2. QED
      BY <1>1, <3>1, AppendProperties DEF TypedOK
  <2>2. ASSUME AllGood' PROVE AllGood
    <3>1. PICK line : typed' = Append(typed, line)
      BY <1>2 DEF TypeLine
    <3>2. typed \in Seq(GoodLines \cup BadLines) /\ Len(typed) \in Nat
      BY <1>1, LenProperties DEF TypedOK
    <3>3. /\ DOMAIN typed = 1 .. Len(typed) /\ DOMAIN typed' = 1 .. Len(typed) + 1
          /\ \A k \in 1 .. Len(typed) : typed'[k] = typed[k]
      BY <3>1, <3>2
    <3>4. \A k \in DOMAIN typed : k \in DOMAIN typed' /\ typed'[k] = typed[k]
      BY <3>2, <3>3
    <3>5. QED
      BY <2>2, <3>4, Zenon DEF AllGood
  <2>3. AllGood' => Consumed'
    BY <1>1, <1>2, <2>2, TypeLineConsumed
  <2>4. QED
    BY <2>1, <2>3 DEF KeyboardInv
<1>3. CASE ~TypeLine /\ [Next]_vars
  <2>1. UNCHANGED typed
    BY <1>3 DEF Next, Thread, vars, inputVars, EndInput, DatagramArrives, EpollWait, HandleUdp,
                HandleStdin, ReadStdin, ScanWord, ScanArgument, ScanEnd
  <2>2. TypedOK' /\ (AllGood' <=> AllGood)
    BY <1>1, <2>1 DEF TypedOK, AllGood
  <2>3. ASSUME Consumed PROVE Consumed'
    <3>1. CASE EndInput
      BY <2>3, <3>1, EndInputConsumed
    <3>2. CASE DatagramArrives \/ EpollWait \/ HandleUdp \/ UNCHANGED vars
      <4>1. UNCHANGED lineVars
        BY <3>2 DEF DatagramArrives, EpollWait, HandleUdp, vars, inputVars, lineVars
      <4>2. QED
        BY <2>3, <4>1, KeepsConsumed
    <3>3. CASE HandleStdin
      BY <2>3, <3>3, HandleStdinConsumed
    <3>4. CASE ReadStdin
      BY <2>3, <3>4, ReadStdinConsumed
    <3>5. CASE ScanWord
      BY <2>3, <3>5, ScanWordConsumed
    <3>6. CASE ScanArgument
      BY <2>3, <3>6, ScanArgumentConsumed
    <3>7. CASE ScanEnd
      BY <2>3, <3>7, ScanEndConsumed
    <3>8. QED
      BY <1>3, <3>1, <3>2, <3>3, <3>4, <3>5, <3>6, <3>7 DEF Next, Thread
  <2>4. QED
    BY <1>1, <2>2, <2>3 DEF KeyboardInv
<1>4. QED
  BY <1>2, <1>3

-----------------------------------------------------------------------------
(* The results.                                                            *)

\* As long as all lines are good, what has been executed, the command being read, the
\* buffer of scanf and the lines that no read has returned follow one upon the other,
\* at a terminal and with a pipe.
THEOREM InputConsumed == Spec => []KeyboardInv
<1>1. Init => KeyboardInv
  BY InitConsumed DEF KeyboardInv
<1>2. QED
  BY <1>1, NextConsumed, PTL DEF Spec

\* And so the commands are executed in the order in which they were typed, each once and
\* with its own arguments, and none is made up before all of them are done.
LEMMA ConsumedInOrder == KeyboardInv => InTypedOrder
<1> SUFFICES ASSUME KeyboardInv, AllGood
             PROVE  IsPrefix(executed, Commands) /\ (ghost => ended /\ executed = Commands)
  BY DEF InTypedOrder
<1>1. Good /\ UnreadAreLast /\ BufferIsRest /\ Said /\ GhostAtEnd
  BY ConsumedParts DEF KeyboardInv
<1>2. PICK f : Saying(f) /\ executed = f[Finished]
  BY <1>1 DEF Said
<1>3. Len(typed) \in Nat /\ Finished \in 0 .. Len(typed)
  BY <1>1, FinishedLines
<1>4. Commands = f[Len(typed)]
  BY <1>1, <1>2, CommandsSaid
<1>5. IsPrefix(executed, Commands)
  BY <1>1, <1>2, <1>3, <1>4, SayingGrows
<1>6. ASSUME ghost PROVE ended /\ executed = Commands
  <2>1. ended /\ unread = <<>> /\ buffer = <<>>
    BY <1>1, <1>6 DEF GhostAtEnd
  <2>2. Finished = Len(typed)
    BY <1>3, <2>1 DEF Finished, Returned
  <2>3. QED
    BY <1>2, <1>4, <2>1, <2>2
<1>7. QED
  BY <1>5, <1>6

\* Good lines are executed as typed, whole and in their order, at a terminal and with a
\* pipe (the stdin branch of handleEvent); a command word that nobody typed is executed
\* only when the input has ended and all of them are done.
THEOREM ExecutedInTypedOrder == Spec => []InTypedOrder
BY InputConsumed, ConsumedInOrder, PTL
=============================================================================
