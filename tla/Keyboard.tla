------------------------------ MODULE Keyboard -------------------------------
(***************************************************************************)
(* How Client-all reads its commands: epoll watches the descriptor of      *)
(* stdin, handleEvent reads with scanf, which has a buffer of its own that *)
(* epoll knows nothing of.  ClientAll has whole commands arrive one at a   *)
(* time; here lines are typed at a terminal, which gives one line to a     *)
(* read, or written into a pipe, which gives all there is.                 *)
(*                                                                         *)
(* A line is the sequence of the kinds of its words: "send", "move",       *)
(* "num" (what %d can read) or "word".  pc is "loop" (in Run; ready holds  *)
(* the events not handled yet), "word" (in the first scanf) or "args" (in  *)
(* the one for the arguments of command).  What a command does then is in  *)
(* ClientAll.                                                              *)
(***************************************************************************)
EXTENDS Naturals, SequencesExt

CONSTANT MaxLines       \* bound: lines typed

ASSUME KeyboardAssumption == MaxLines \in Nat

VARIABLES terminal,     \* is stdin a terminal?
          typed,        \* the lines typed so far
          ended,        \* stdin has been closed at the other end
          unread,       \* the lines that no read has returned yet
          buffer,       \* the words in the buffer of scanf
          waiting,      \* a datagram is at the UDP socket
          pc, ready,
          command,      \* the words read of the current command
          executed,     \* the commands executed, each as its words
          ghost         \* a command was executed that is in no line

inputVars == <<terminal, typed, ended>>
vars == <<inputVars, unread, buffer, waiting, pc, ready, command, executed, ghost>>

\* Lines as they should be, and some that are not: an empty one, one without all
\* its arguments, and one with a word for a number.
GoodLines == {<<"send", "num", "num", "num", "word">>, <<"move", "num">>, <<"word">>}
BadLines == {<<>>, <<"send", "num", "num">>, <<"send", "num", "word">>, <<"num", "word">>}

Words(k) == [at \in DOMAIN typed[k] |-> [line |-> k, at |-> at, kind |-> typed[k][at]]]
WordsOf(lines) == FlattenSeq([n \in DOMAIN lines |-> Words(lines[n])])

Init ==
    /\ terminal \in BOOLEAN /\ typed = <<>> /\ ended = FALSE
    /\ unread = <<>> /\ buffer = <<>> /\ waiting = FALSE
    /\ pc = "loop" /\ ready = {} /\ command = <<>>
    /\ executed = <<>> /\ ghost = FALSE

-----------------------------------------------------------------------------
(* The outside.                                                            *)

TypeLine ==
    /\ ~ended /\ Len(typed) < MaxLines
    /\ \E line \in GoodLines \cup BadLines : typed' = Append(typed, line)
    /\ unread' = Append(unread, Len(typed'))
    /\ UNCHANGED <<terminal, ended, buffer, waiting, pc, ready, command, executed, ghost>>

EndInput ==
    /\ ended' = TRUE
    /\ UNCHANGED <<terminal, typed, unread, buffer, waiting, pc, ready, command,
                   executed, ghost>>

DatagramArrives ==
    /\ waiting' = TRUE
    /\ UNCHANGED <<inputVars, unread, buffer, pc, ready, command, executed, ghost>>

-----------------------------------------------------------------------------
(* Run and handleEvent.                                                    *)

StdinReadable == unread # <<>> \/ ended

\* Mutant: room for one event only.
ReportedOne ==
    IF StdinReadable THEN {"stdin"} ELSE {e \in {"udp"} : waiting}

\* All that epoll finds; stdin at its end is readable for ever.
Reported ==
    {e \in {"stdin"} : StdinReadable} \cup {e \in {"udp"} : waiting}

EpollWait ==
    /\ pc = "loop" /\ ready = {} /\ Reported # {}
    /\ ready' = Reported
    /\ UNCHANGED <<inputVars, unread, buffer, waiting, pc, command, executed, ghost>>

HandleUdp ==
    /\ pc = "loop" /\ "udp" \in ready
    /\ ready' = ready \ {"udp"} /\ waiting' = FALSE
    /\ UNCHANGED <<inputVars, unread, buffer, pc, command, executed, ghost>>

HandleStdin ==
    /\ pc = "loop" /\ "stdin" \in ready
    /\ ready' = ready \ {"stdin"} /\ pc' = "word" /\ command' = <<>>
    /\ UNCHANGED <<inputVars, unread, buffer, waiting, executed, ghost>>

\* scanf has no word left and reads.
ReadStdin ==
    /\ pc # "loop" /\ buffer = <<>> /\ unread # <<>>
    /\ LET n == IF terminal THEN 1 ELSE Len(unread)
       IN  /\ buffer' = WordsOf(SubSeq(unread, 1, n))
           /\ unread' = SubSeq(unread, n + 1, Len(unread))
    /\ UNCHANGED <<inputVars, waiting, pc, ready, command, executed, ghost>>

\* Mutant: a word that is no command is left where it is.
TakenUnlessUnknown(tok) == IF tok.kind \in {"send", "move"} THEN Tail(buffer) ELSE buffer

Taken(tok) == Tail(buffer)

\* scanf("%s", optString); a word that is no command is dropped.
ScanWord ==
    /\ pc = "word" /\ buffer # <<>>
    /\ LET tok == Head(buffer)
       IN  /\ buffer' = Taken(tok)
           /\ IF tok.kind \in {"send", "move"}
              THEN pc' = "args" /\ command' = <<tok>>
              ELSE pc' = "loop" /\ UNCHANGED command
    /\ UNCHANGED <<inputVars, unread, waiting, ready, executed, ghost>>

\* Mutant: the text is not read.
ConversionsNoText(word) ==
    IF word = "send" THEN <<"num", "num", "num">> ELSE <<"num">>

\* The second scanf: "%d %d %d %s" or "%d".
Conversions(word) ==
    IF word = "send" THEN <<"num", "num", "num", "word">> ELSE <<"num">>

Execute(words) == executed' = Append(executed, words) /\ pc' = "loop"

\* The next argument.  One that does not fit stays in the buffer, and the command is
\* executed with what memory holds for it and the others.
ScanArgument ==
    /\ pc = "args" /\ buffer # <<>>
    /\ LET conversions == Conversions(command[1].kind)
           conversion == conversions[Len(command)]
           tok == Head(buffer)
       IN  IF conversion \in {"word", tok.kind}
           THEN /\ buffer' = Tail(buffer)
                /\ command' = Append(command, tok)
                /\ IF Len(command) = Len(conversions)
                   THEN Execute(command') ELSE UNCHANGED <<pc, executed>>
           ELSE Execute(command) /\ UNCHANGED <<buffer, command>>
    /\ UNCHANGED <<inputVars, unread, waiting, ready, ghost>>

\* scanf finds the end of the input.  optString is not set then: it may still hold a
\* command, which is executed.
ScanEnd ==
    /\ pc # "loop" /\ buffer = <<>> /\ unread = <<>> /\ ended
    /\ \/ pc = "word" /\ pc' = "loop" /\ ghost' \in {ghost, TRUE} /\ UNCHANGED executed
       \/ pc = "args" /\ Execute(command) /\ UNCHANGED ghost
    /\ UNCHANGED <<inputVars, unread, buffer, waiting, ready, command>>

Thread ==
    \/ EpollWait \/ HandleUdp \/ HandleStdin
    \/ ReadStdin \/ ScanWord \/ ScanArgument \/ ScanEnd

Next == TypeLine \/ EndInput \/ DatagramArrives \/ Thread

Spec == Init /\ [][Next]_vars

\* The client runs; nobody has to type, close or send.
FairSpec == Spec /\ WF_vars(Thread)

-----------------------------------------------------------------------------
(* Properties.                                                             *)

AllGood == \A k \in DOMAIN typed : typed[k] \in GoodLines

\* What the lines say: each command with its own arguments.
Commands ==
    LET upTo[k \in 0 .. Len(typed)] ==
            IF k = 0 THEN <<>>
            ELSE IF typed[k] # <<>> /\ typed[k][1] \in {"send", "move"}
                 THEN Append(upTo[k - 1], Words(k))
                 ELSE upTo[k - 1]
    IN  upTo[Len(typed)]

\* As long as all lines are good, the commands are executed as typed and in that
\* order, whoever buffers them, and none is made up before all of them are done.
InTypedOrder ==
    AllGood => /\ IsPrefix(executed, Commands)
               /\ ghost => ended /\ executed = Commands

\* scanf blocks the client.
Blocked == pc # "loop" /\ buffer = <<>> /\ unread = <<>> /\ ~ended

\* A datagram that has arrived is received unless scanf blocks, which it does only
\* while the last line that was typed is a bad one, an empty one for example; bad
\* lines before it do not matter, nor does a stdin that is at its end and readable
\* for ever.
DatagramHandled == waiting ~> (~waiting \/ (Blocked /\ Last(typed) \in BadLines))

InBuffer(k) == \E n \in DOMAIN buffer : buffer[n].line = k

\* Whatever is left in the buffer of scanf, where epoll does not see it, is used up
\* when the next input arrives, also after bad lines.
BufferUsedUp ==
    \A k \in 1 .. MaxLines : (InBuffer(k) /\ unread # <<>>) ~> ~InBuffer(k)
=============================================================================
