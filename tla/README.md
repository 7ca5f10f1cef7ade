# RDSS-SimuClient in TLA+

RDSS-SimuClient simulates the user terminals of a satellite short-message
system: clients that send and confirm short messages, and channel units that
connect them to a central station (the station itself is not in the
repository). This directory holds TLA+ models of the program, TLC
configurations that check them, and TLAPS proofs.

    client --UDP--> ChannelUnitBackward --TCP--> central station
    client <--UDP (broadcast)-- ChannelUnitForward <--TCP-- central station

## 1. Inventory

| Component | State | Operations | Hard behaviour | What makes it correct |
|---|---|---|---|---|
| Client-all (`Client.cpp`) | user number, frame number, the wait it is in, datagrams in its socket | `Run`, `handleEvent`, `userSend`, `userMove`, `userRecv`, `userRecvWait`, `userOnWait`, `userSendWaitRet`, `userSendWaitCnf` | handlers that block in receive loops of their own and discard what they did not wait for; stale events; lost, duplicated, overtaken datagrams; restarts | shows only its messages; a report means what it says; waits end |
| ChannelUnitForward | TCP connection, table of clients | `Run`: each packet to every client | broadcast, partial failure, disconnect | every client gets every frame or the failure is only its own |
| ChannelUnitBackward | UDP socket, TCP connection | `Run`: each datagram to the station | a receive error ends it | order and content are kept |
| TcpSocket | receive buffer, write position | `SendPacket`, `RecvPacket` | partial sends, split and merged packets, a full buffer | the packets received are those sent, in order |
| ChannelForwardGUI | the table of clients, shared by two threads | `run_blocked`, `on_pushButton_clicked` | data race on two vectors | a frame goes to one consistent table, unless the handler runs meanwhile |
| ClientGUI (`mainwindow.cpp`) | like Client-all, and the connection of a slot | button slots, `recvMessage`, waits | `processEvents` inside a wait re-enters the slots | waits of messages are private, the slot comes back |
| Client-send, Client-recv | like Client-all | scripted `Run` | different confirm layouts and header orders | the two complete their script |
| FifoQueue (in no build file) | ring buffer, counters | `PushPacket`, `PopPacket`, `PeekNextPackLen`, `Reset`, `Update` | wrap-around, full, end flag | a queue |
| inifile, start-up | text, configuration fields | `parse_file`, `read_profile_*`, `readInitFile`, `Init` | prefix matches, ignored failures | what runs is what was configured |
| UDP/common sockets, epoll | descriptors | `SendTo`, `RecvFrom`, `Wait` | blocking, errors | - |
| Central station (external) | - | receipt, relay, answer to a report | order of relay and receipt | - |
| Keyboard of Client-all | stdin, and the buffer of `scanf` | the stdin branch of `handleEvent` | two buffers, of which epoll sees one; lines that do not parse | commands are executed as typed, the client keeps receiving |
| utils, `.ui` files | - | formatting, forms | - | - |

Components talk by frames only: two user numbers, a frame number, an option
byte and data. Nothing is persisted.

The hazards of the code, each with its line, are listed under `hazards` in
`PROJECT.json`, with the properties that watch them.

## 2. Modules

| Module | Contents |
|---|---|
| `Wire` | frames, header words (`enum POS`), option and data bytes, how a byte is read through `char *` |
| `Channel` | UDP hops with loss, duplication and overtaking; socket calls; central station (external); the broadcast of `ChannelUnitForward` |
| `ClientAll` | the command-line client, any number of them, composed with `Channel` |
| `MessageService` | abstract: messages are sent, accepted, shown and reported, in the order that `userSend` fixes; `ClientAll` refines it |
| `ClientAllInv` | inductive invariants `FramesTrue` and `Tokens` |
| `ClientAllProofs` | theorems about `ClientAll`: what holds under every failure, and where answers are when there is none; what tokens give, and the refinement |
| `Keyboard` | how Client-all reads its commands: epoll on the descriptor, `scanf` with a buffer of its own |
| `KeyboardProofs` | theorems about the order in which typed lines are executed |
| `TcpSocket` | `SendPacket` and `RecvPacket` as operators on byte streams |
| `PacketFifo` | abstract: packets come out as they went in; refined by the framing and, for one length, by `FifoQueue` |
| `ChannelUnits` | the backward unit, the forward unit and the forward unit with a window, each over its TCP connection |
| `ChannelUnitsProofs` | theorems about the table of clients that two threads share, about the packets on the TCP connections of the units, and that the framing implements `PacketFifo` |
| `ClientGui` | the Qt client, any number of them, composed with `Channel`; nested event loops |
| `ClientGuiProofs` | theorems about nested calls, the connections of `recvMessage`, and the answers that are in flight for the calls |
| `ScriptedClients` | Client-send and Client-recv, composed with `Channel` |
| `ScriptedClientsProofs` | theorems about the replies that their waits take |
| `FifoQueue` | the ring buffer |
| `FifoQueueProofs` | theorems about the positions and the contents of the ring buffer |
| `IniFile` | the search in a configuration file, and what a file says |
| `Startup` | `main`, `Init`, `readInitFile` and `Run` as far as its loop, of all seven programs |
| `StartupProofs` | theorems about what is read from a file, and what a program then works with |
| `SequenceLemmas` | lemmas on sequences that the proofs share: flattening, prefixes, ranges, least numbers |
| `MCClientAll`, `MCChannelUnits`, `MCClientGui`, `MCScriptedClients`, `MCFifoQueue` | values and constraints for the runs |

`Channel` is the composition of the units as the clients see it: a datagram goes
up by UDP and TCP, and a frame of the station comes down in order and is
broadcast. `ChannelUnits` looks at the same programs from inside, where a packet
is bytes.

### Correspondence: Client-all

*State.* `pc[u]` is where the thread of client `u` is: in `Run`, or in one of
the three receive loops. `ready[u]` is the rest of the event array of the last
`epoll_wait`. `call[u]` holds the arguments of the running `userSend`;
`frameNo[u]` is `m_frameNo`. `up`, `down` and `inbox[u]` are the frames in
flight: towards the station, in the TCP connection to `ChannelUnitForward`, and
at the socket of client `u`. `sent`, `accepted`, `shown`, `receipted`,
`confirmed`, `wasted` are history: what was sent, accepted, displayed, reported
(the two success messages of the waits) and thrown away.

*Actions.* One per handler, up to the next blocking call. `SendLine` is
`handleEvent`'s "send" and `userSend` up to its first wait, including a failed
`sendto`; each iteration of a wait is one step, which either passes all tests of
the loop (and does everything up to the next blocking call) or discards the
datagram. A failed `recvfrom` inside a wait is retried at once and is a
stuttering step. `HandleUdp` is `recvfrom`, `userRecv` and `userRecvWait`,
which despite its name only sends. `Restart` is the operator killing a client
and starting it again.

*Events.* `EpollWait` reports a readable socket or a typed line; the handlers
run later. Between them the handler of the first event may wait, and so empty
the socket that the second event is about. Then `HandleUdp` has no datagram to
take and is disabled: the thread is blocked in `recvfrom`.

*The sign of char.* `*(buf+option)` has type `char`. `CharSigned` says whether
the build makes it signed, and `AsChar` is the conversion. The passing runs
model builds where it is unsigned (`-funsigned-char`, ARM); with signed char no
wait ends (finding below), and little would be left to check. The safety proofs
cover both.

*The scan.* `scanf("%d %d ...", &isRet, &isCnf, ...)` stores ints into bools.
Whether the second store clears `isRet` depends on the stack layout, so with
`ScanClobbers` it is a nondeterministic choice.

*Abstractions.* Message texts, positions, time stamps and SNR are left out: no
receiver looks at them. `id` orders datagrams and `msg` identifies the message
that a frame is about; neither is on the wire and no guard of the program reads
them (`MayArrive` uses `id` to decide which arrival orders are possible).
Datagrams shorter than the header are not modelled: every sender fills it.
`0x51`, which `userRecv` shows, is sent by no client. Typed lines are complete
and arrive one at a time. The options are any of the four pairs and the addressee
any of `Addressees`, numbers that no user has among them: this is also what a
line that does not parse can leave in the variables. How lines become
commands is in `Keyboard`: there a line is the sequence of the kinds of its
words, one read returns a line (terminal) or all there is (pipe), an argument
that does not fit ends the `scanf` and stays in the buffer, and a `scanf` at the
end of the input leaves the command word unset, so that one may be executed that
nobody typed (`ghost`). The waits of `userSend` take no time in that module.

*The station.* It is modelled from what the waits expect: 0x40 is relayed;
0x50 and 0x60 are relayed and answered with a receipt, before or after the
relay; a confirm is relayed to the user that it names; a report is answered
with 0x00, 0x01 or 0x03 to the user number in its first word.

### Correspondence: channel units

A behaviour of `ChannelUnits` is a run of one of the three programs. `stream` is
everything ever put into the TCP connection; a byte is known by its packet and
its place in it. `Recv` returns any number of bytes that are there and fit in,
so every cutting of the stream occurs. The search for packets tests nothing but
lengths, like the code. `recv_buffer_` is one sequence: the write position
is its length. Each of the two `Send`s of `SendPacket` is a step, and the
station may close the connection between them. `memcpy` of the leftover to the
front is undefined where the two areas overlap. It is taken to work as `memmove`,
as that of glibc does on current x86-64 processors; with another `memcpy` the
framing may lose a header, and nothing is claimed.

The table of ChannelForwardGUI is two vectors, each a size and elements, the
stale ones included. The button handler is one step per `clear` and
`push_back`; the thread of the unit reads the size, a port and an address in
steps of their own. Reading while the handler runs is undefined behaviour:
the element at that index, also a stale one, or garbage. A reallocation under a
read, and the crash of a garbage pointer, are "garbage" and "crashed".

### Correspondence: the Qt client

`stack[u]` is the stack of calls of the thread, innermost first; `processEvents`
is what lets a call begin inside another. `slots[u]` counts how often `readyRead`
is connected to `recvMessage`: `connect` adds one, `disconnect` removes all. Of
Qt (external): `readyRead` is emitted by the event loop and by
`waitForReadyRead`, and not again before somebody has called `readDatagram`,
whether or not a slot was connected (`armed[u]`); an emitted signal calls each
connection in turn (`calls[u]`). Waits of `userSend` run no event loop. The
addressee is the `toInt()` of a text field: any number, 0 for a text that is none.

### Correspondence: the rest

`ScriptedClients`: users are sockets, `userID` is the number in `config.ini`,
and the reports carry the numbers 1 and 2 that the code has as literals.

`FifoQueue`: a cell of the buffer is known by its packet and its place in it.
Pushing is two steps (copy, count) and popping three (read the length, copy,
count), because `Reset` takes no lock and may come between them; `raced` records
that it did. A `Reset` between two lines of one step is taken for one before or
behind that step. `PeekNextPackLen` takes no lock either; peeking and popping are
one thread. A reader reads a length from the bytes where it stands
(`LengthsAt`): if these are no length of a packet, any number of `Garbage`, and
its position may leave the buffer.

`IniFile`: a file is the sequence of its key lines with their sections. Names
are sequences of parts, which keeps what `strncmp` over the shorter name can
confuse. The base of the numbers in names is `Radix`, so that the confusion of
the eleventh row with the second occurs in a small instance as the third row's
with the second (base 2). A string and the number that `atoi` makes of it are one value.

`Startup`: `readInitFile` reads key by key; what a missing key leaves unread
keeps the default of the constructor or what was in memory (`Garbage`). Nobody
looks at the results of `Init` and `readInitFile`: a client whose file has no
`ID` has already read its port, and runs as number 0.

Several source files exist in up to seven byte-identical copies (`inifile.cpp`,
`tcp_socket.cpp`, `udp_socket.cpp`, `comm_socket.cpp`, `UDPInterface.cpp`,
`utils.cpp`). A definition is mapped to the copy of one program, and stands for all.

## 3. Runs

| Run | Instance | Shows |
|---|---|---|
| `client_exact` | 2 clients, both typing, 2 lines to 3 numbers, datagrams overtaken, scan may clobber | `ConfirmSound`, `ReceiptSound`: a report is about the message it is made for, although no frame number is compared. `ReceiptOwed`, `ConfirmOwed`: what a wait needs is on its way, or is not coming for a named reason. `ServiceSpec`: implements `MessageService` |
| `client_faulty` | 1 client typing 2 lines, 1 loss or socket error or duplicate or restart, ordered hops | `ShownSound`, `ConfirmFromPeer`, `ReceiptFromStation`: what survives every failure |
| `client_live` | 2 clients, 2 lines to 3 numbers, ordered, no failure, fairness | `ReceiptArrives`, `MoveAnswered`: these waits end. `ConfirmArrivesOrNotComing`: the wait for a confirm ends but for four reasons: none was asked for, the addressee is nobody, the addressee's wait threw the message away, the sender's own wait the confirm |
| `client_signed` | signed char | violates `ReceiptArrives` |
| `client_blocks` | 2 clients | violates `EventNeverBlocks` |
| `client_crossed` | 2 clients, crossing confirmed messages | violates `ConfirmArrives` |
| `keyboard` | 3 lines of 7 kinds, good and bad, terminal or pipe, end of input at any time | `InTypedOrder`: good lines are executed as typed. `DatagramHandled`: the client keeps receiving, unless the very last line is a bad one that `scanf` waits in. `BufferUsedUp`: what `scanf` has buffered goes with the next input |
| `channel_units` | each unit, 3 packets, a header of 2 bytes, data of 0 or 2 or too many, buffers of 9 and 7 bytes, 1 error, 1 click, 2 clients of which one is replaced | `FramingSpec`: refines `PacketFifo` at both ends, however the bytes are cut. `BackwardKeepsAll`, `Broadcasts`: nothing is dropped while the connection lives. `DisconnectIsReal`, `CallerBufferFits`: the two buffers. `QuietBroadcast`, `AddressesMatch`: the race on the table hits only packets during which the button is clicked |
| `gui_client` | 2 users, 2 clicks, nested 2 deep, to 3 numbers; 1 loss or failing call where only user 1 clicks; fairness | `SlotRestored`, `WaitIsPrivate`, `EatenOnlyWhenNested`, `OnAnswerOwed`, `ReceiptOwed`, `ReceiptSound`: which call gets which answer. `ThreadReturns`, `MessageShown`: every click is dealt with and every message displayed, but for named reasons |
| `scripted` | one program of each kind, shipped or right numbers, 1 message, 1 failure with the right numbers | `AnswerIsOwn`, `ScriptArrives`, `MessageShown` |
| `fifo` | buffers of 6 to 11 bytes, packets of 1, of 2, of 3, or of 1 and 2 bytes, 5 pushes, 1 reset | `TypeOK`: the writer stays in the buffer whatever the lengths and wherever the reset falls, the reader for one length. `QueueInOrder`, `PeekIsNext`, `AllPopped`: a packet queue for one length, unless a reset came in the middle of a push or a pop |
| `startup` | 7 programs, 1 to 3 rows, base 2, 2 missing lines, both orders of lines | `ConfigRead`: a complete file is read as it says. `ReachableIsConfigured`: a program that receives at its port sends where its file says; a client without a number there runs as 0. `TableIsPrefix`: no half or skipped row |

### Bounds

Two clients suffice for every exchange of the program: a sender and an
addressee, which may be the same, and a bystander of the broadcast is either of
them. `Addressees` are the numbers typed: in `client_exact`, `client_faulty` and
`gui_client` the users and 0, in `client_live` two users, of whom user 1 receives
the answers to reports, and 3, which is nobody. Two typed lines allow two messages in a row (stale answers), two messages
that cross, and a message and a report. One failure of any kind is enough to
break the exact statements, which is why they are stated under `NoFaults` or
checked without failures; the statements of `client_faulty` are proved for any
number of failures. In `channel_units` the receive buffer holds two packets and
a cut header, and the buffer of the caller less than that, so a full buffer,
a cut header and an overrun all occur. Two clicks on the Qt client are a call inside a
call, two calls in a row, or two users that exchange messages; the nesting
properties that are proved hold for any number. Buffers of 6 to 11 bytes with five packets
reach every distance of the wrap-around from the end, twice; of `Garbage` two
values differ, `END_FLAG` and a length that leads out of every buffer. Three rows are one
more than `Radix`, so the confusion of rows occurs; two missing lines allow a
table that ends early after a default was used.

The bounds are `MaxTyped`, `MaxRestarts`, `MaxFaults` (lost datagrams and
failed calls), `MaxDups`, `MaxLines`, `MaxPackets`, `MaxErrors`, `MaxClicks`,
`MaxDepth` (the stack of a thread), `MaxSends`, `MaxPush`, `MaxResets`,
`MaxMissing`, and the constraints `OneFailure` (`client_faulty`),
`OneActsOrNothingFails` (`gui_client`) and `FailuresIfRight` (`scripted`). `CHECK_DEADLOCK FALSE` in all runs: what people
and the station do is bounded, programs end, and a client may wait for ever.

### Fairness

Weak fairness of every program's thread (`ClientAll`: of each handler and wait,
and of `epoll_wait` when a datagram is there; `Thread`, `Script`, `UnitStep`
elsewhere), since a thread that can run does; of the station; and of the
network. No fairness for people, and none for failures: the fair steps are
those that leave the count of failures alone. In `FifoQueue`, of the end of a
push and of the three steps of a pop; the notification wakes the consumer.

### Findings

* **Signed char** (`Client.cpp:108, 292, 344, 454`): `*(buf+option) != 0x80` is
  always true where char is signed, as on x86-64, for which the checked-in
  objects are built. No wait ever ends. (The GUI client casts to
  `unsigned char`.)
* **Blocking** (`Client.cpp:541`): the socket is blocking, contrary to the
  comment, and a stale event stops the client.
* **Crossing** (`Client.cpp:278`): two confirmed messages that cross are both
  thrown away by the waits, and both senders wait for ever.

### Observations

Behaviour that shaped how the properties are stated, and that, but for the first
item, no document of the repository contradicts:

* Client-recv puts its confirm byte two bytes behind where Client-send looks,
  which finds the high byte of the frame number there. Frame numbers start at
  0x00ff, so the sender waits for ever, although `Client-send/Client.cpp:21` says
  "need peer confirm". `ScriptArrives` takes this wait for the end of the script.
* The shipped `config.ini` gives Client-recv the number 1, while it reports
  itself as 2: it looks for the answers to user 1, and takes that to the report of
  Client-send for its own, or waits for ever.
* Nobody looks at the addressee of a message. One with a receipt and a confirm to a
  number that no user has (mistyped, left uninitialised by `scanf`, or 0 for a
  blank field in the window) is accepted, and its sender waits for ever; the window
  freezes.
* A client whose `config.ini` has no number starts all the same, as number 0.
* Client-all without its UDP port (bind failed) runs on and hears nothing, its
  keyboard included: stdin is added to epoll after the socket.
* An empty line, or one without all its arguments, blocks Client-all in `scanf`
  until the next line. Lines written together into a pipe are executed one for
  each event, and the last of them wait until something else is written.
* A click during the `processEvents` of `userOnWait` nests a call whose wait may
  take the answer that the outer one waits for; and `userOnWait` can leave the
  socket silent, because the signal was emitted while nothing was connected.
* With packets of different lengths the ring buffer overwrites unread packets
  (9 bytes, lengths 1 and 2), and the reader, which then takes data for a length,
  may leave the buffer; a packet of length 0 reads as `END_FLAG`. A `Reset` in
  the middle of a push or a pop leaves the counters and positions in disagreement.
* `strncmp` over the shorter name lets the eleventh row of a table be read from
  the line of the second, whichever comes first in the file.
* The backward unit asks for its port index under a key that no file has, and
  uses all forward ports instead; the window of ChannelForwardGUI reads two
  clients even if the file lists one.

## 4. Theorems

All are about `Spec` for every value of the constants that satisfies the
assumptions: any finite set of users, either sign of char, ordered or not, any
bounds, any table. Those about `Startup` assume that a file lists at most
`Radix * Radix` rows, which is what two digits can number.

| Theorem | Statement | Argument |
|---|---|---|
| `TypeCorrect` | `[]TypeOK` (ClientAll) | inductive as it stands; one lemma per action |
| `FramesCorrect` | `[]FramesTrue` | with `TypeOK`, inductive |
| `ShownCorrect`, `ConfirmsFromPeer`, `ReceiptsFromStation` | `[]ShownSound`, `[]ConfirmFromPeer`, `[]ReceiptFromStation` | the reported frame is true |
| `TokensCorrect`, `ReceiptTokensCorrect` | `[]Tokens`, `[]ReceiptTokens` if `MaxDups = 0` and `MaxRestarts = 0` | with `TypeOK` and `FramesTrue`, inductive |
| `ConfirmsExact`, `ReceiptsExact` | `[]ConfirmSound`, `[]ReceiptSound` under the same hypotheses | the frame that ends the wait is the token |
| `NumberedCorrect` | `[]Numbered` | inductive |
| `ServiceImplemented` | `ServiceSpec` under the same hypotheses | initial state to initial state, and each action to a step or a stutter |
| `ReceiptsOwed`, `ConfirmsOwed` | `[]ReceiptOwed`, `[]ConfirmOwed` if `CharSigned = FALSE` | the stronger `ReceiptsComing`, `ConfirmsComing` are inductive, the latter with `FramesTrue`: a confirm comes from a client |
| `StacksCorrect` | `[]IInv` (ClientGui) | inductive; one lemma per action |
| `SlotAlwaysRestored`, `WaitsPrivate` | `[]SlotRestored`, `[]WaitIsPrivate` | read off `IInv` |
| `FramesCorrect` | `[]FramesInv` (ClientGui) | with `IInv`, inductive; one lemma per action |
| `EatenNested`, `OnAnswerAlwaysOwed`, `ReceiptAlwaysOwed` | `[]EatenOnlyWhenNested`, `[]OnAnswerOwed`, `[]ReceiptOwed` | read off `FramesInv` |
| `ReceiptsSound` | `[]ReceiptSound` if `MaxDups = 0` (ClientGui) | the frame that ends the wait is a token, of an accepted message |
| `ScriptsCorrect` | `[]ScriptInv` (ScriptedClients) | inductive; one lemma per action |
| `AnswersOwn` | `[]AnswerIsOwn` | the frame that ends a wait is the token |
| `PositionsInside` | `[]TypeOK` (FifoQueue) | the writer: `Inside` is inductive; the reader: the buffer is a ring of slots |
| `QueueAlwaysInOrder`, `PeekAlwaysNext` | `[]QueueInOrder`, `[]PeekIsNext` | the buffer is a ring of slots |
| `QueueImplemented` | `Fifo!Init /\ [][StepOfFifo]_vars`: between resets, and with one length, `PacketFifo` | the buffer is a ring of slots; each step to a step or a stutter |
| `TableCorrect` | `[](TableInv /\ BatchInv)` (ChannelUnits) | inductive |
| `AddressesAlwaysMatch`, `QuietBroadcastReachesAll` | `[]AddressesMatch`, `[]QuietBroadcast` | read off both |
| `FramingCorrect` | `[]FramingInv` (ChannelUnits) | inductive; where each packet stands in the bytes |
| `BackwardComplete`, `CallerBuffer` | `[]BackwardKeepsAll`, `[]CallerBufferFits` | read off `FramingInv` |
| `FramingImplemented` | `FramingSpec` | initial state to initial state, each step to a step or a stutter |
| `DisconnectsReal` | `[]DisconnectIsReal` | read off `FramingInv` |
| `InputConsumed` | `[]KeyboardInv` (Keyboard) | inductive; one lemma per action |
| `ExecutedInTypedOrder` | `[]InTypedOrder` | read off `KeyboardInv` |
| `ReadInOrder` | `[]StartupInv` (Startup) | inductive; one lemma per place where the reading can stand |
| `ConfigAlwaysRead`, `ReachableConfigured`, `TableAlwaysPrefix` | `[]ConfigRead`, `[]ReachableIsConfigured`, `[]TableIsPrefix` | read off `StartupInv` |

*Client-all.* None of the safety properties is inductive: they speak of the
history, and the step that could break them depends on a frame. `FramesTrue`
says of each frame in flight what it testifies (sent by, accepted, shown) and is
kept by the relays; the history only grows (`HistoryGrows`), so what is true
stays true. It does not say *which* message an answer is about. For that,
`Tokens` counts: the message of a client that asks for a confirm, or later the
confirm of it, is one token that moves from place to place; it exists only
during the call that sent it, and is unique. So the confirm that ends the wait
is about the message of the call. `ReceiptTokens` is the same for the answer of
the station. Losing a token is harmless, copying it (a duplicate) or forgetting
the call (a restart) is not, whence the two hypotheses; without them only
`ConfirmFromPeer` and `ReceiptFromStation` hold. The refinement needs both
tokens, and `Numbered`: a message number is new, and a client that waits for the
confirm of a 0x60 message has reported its receipt.

The "owed" properties say where an answer is. They are strengthened to say it
for every place that the message and its answers pass; of the confirm they allow
the four ways in which it does not come, an addressee that is no user among them.
They need that a confirm is sent by a client, never by the station (`FramesTrue`),
and that a wait recognises its answer, hence `CharSigned = FALSE`: with signed char TLC shows
the strengthened formula violated, since the wait throws the receipt away.

*Qt client.* `SlotRestored` speaks of the empty stack only. `IInv` says what
holds below: every call under the innermost one is inside an event loop, so a
wait of `userSend` is innermost and nothing has run since it disconnected; and as
long as all calls on the stack are `userOn`s that have not yet disconnected, the
slot is connected. Any other call connects it when it returns.

The properties about answers need to know which frames are in flight.
`FramesInv` follows the tokens of a client, of three kinds: what brings a
receipt, a confirm, or the answer to a report. There is at most one of a kind,
and only while the innermost call waits for it and about its message; of reports
this is true until a click is handled inside a call (`nested`), after which two
of them may be out. When nothing fails the token that a call waits for is there
(`Owed`), `recvMessage` is not connected when it arrives, so it is not eaten.

*Scripted clients.* `userOnWait` accepts any reply of the station. `ScriptInv`
says that there is only one that could come: with user numbers that differ and
are the ones reported (`Configured`), and without duplicates, at most one frame
in flight brings a program a reply, while it waits, and about its current call.
A lost frame leaves the program waiting, and so cannot bring a late answer into
the next wait.

*Ring buffer.* The writer stays inside because of its two wrap-around tests,
which look at its position only, and because a packet at the front fits: `Inside`
says so, in every state, whatever the counters say after a `Reset` in the wrong
place and with any mix of lengths. The reader has no such tests: it follows the
lengths that it finds, so its half needs the contents, and holds for packets of
one length and resets that meet no push and no pop (`Uniform`). There `Layout` describes the contents: packet k lies in the
slot that is as many slots before the write position as packets came after it,
those of the previous lap behind the last write of this lap, and `END_FLAG`, if
it fits, after the last slot. It also says where the reader stands between the
three steps of a pop: in the slot of the next packet, behind its length, or
behind it. So each packet that `PopPacket` returns is put behind the earlier ones, and each that a push has counted behind those pushed:
the steps of `PacketFifo` (`QueueImplemented`), to whose initial state a `Reset`
returns.

*ChannelForwardGUI.* `TableInv` describes the two vectors after each write: the
remaining writes are a clear, then pairs of a port and an address of one field,
and the vectors agree up to the shorter one. `BatchInv`: while no write has come
since the packet began, it has gone to the clients before the index, and a port
that has been read is that of the index.

*Framing.* The search for packets is a recursive function of all bytes, which
says little about a stream to which a few are added. `FramingInv` says instead
where the packets stand: there are offsets, such that packet k fills the bytes
from the offset of packet k - 1 to its own (`Laid`). The backward unit has
written the first datagrams whole, and perhaps the header of the next;
`RecvPacket` has returned the first packets, `recvBuf` is the stream from the
offset behind them to the last byte taken, and that is less than a packet, so
there is room for more (`DisconnectIsReal`). Two lemmas connect the offsets with the search: on such
a stream it finds exactly these packets (`ScanLaid`), also when it starts at one
of them and stops in the middle of another (`ScanPiece`): it goes from header to
header, and never takes other bytes for one. The induction over
the turns of the search, and over the packets, is by a least counterexample:
a set of numbers that is not empty has a least element (`Least`). Nothing is
assumed about the sizes but that a header has a byte, and that the buffer holds
the longest packet.

*Keyboard.* `InTypedOrder` is about what has been executed; whether it stays
true depends on the words in the buffer of `scanf`, and these on the lines that
no read has returned. `KeyboardInv` follows the input through all four: the
unread lines are the last ones, the buffer is the rest of what reads have
returned, word by word without a gap, the command being read is the beginning of
its line up to that place, and what has been executed are the commands of the
lines before it. So `scanf` begins a command at the first word of a line, and
its conversions meet the words they are for, as long as all lines are good. A
pipe hands over several lines at once, which are flattened into one buffer;
`FlattenWalk` says that the flattened words follow one upon the other as the
lines do.

*Start-up.* `parse_file` compares a name only as far as that of the line goes.
`Exact` says when this finds the same as a full comparison: the names of the
program are never prefixes of each other but in a numeral, and then the longer
one has two digits (`LongNames`). So the keys that a program reads once are
always found, and the rows of a table as long as their numbers have one digit
(`Plain`). That is why `ConfigRead` and `TableIsPrefix` speak of at most `Radix`
rows, while the assumption of `Startup` allows `Radix * Radix`. `StartupInv` says
where `readInitFile` stands: the keys before that place have been read as the
file gives them and ended nothing, those behind it are still to read (`Todo`),
and the rows read so far are whole and the first ones; once the reading is over,
either nothing was left or a key is missing from the file. The port of the
client stands behind all keys that say where a program sends, and directly
before the number of a client. A program that has the port has found and read the
former, and has tried to read the latter: if the file has no number, what it gets
is 0, with which the reading ends and the client runs. This is
`ReachableIsConfigured`. The
list of what is to read is a flattened list of rows, and the lemmas on
`FlattenSeq` in `SequenceLemmas` turn it into numbered positions.

*Recursion.* `FlattenSeq`, the search for packets and the commands of typed lines
are recursive functions. What is proved of them is by a least counterexample
(`Least`, `UpTo`): a set of numbers that is not empty has a least element, which
is a theorem about a set and needs no operator as a parameter.

Every safety property of the passing runs is stated by a theorem. Only
model-checked is liveness, since fairness and ENABLED are out of the prover's
reach: `ReceiptArrives`, `ConfirmArrivesOrNotComing`, `MoveAnswered`,
`Broadcasts`, `ThreadReturns`, `ScriptArrives`, `MessageShown`, `AllPopped`,
`DatagramHandled`, `BufferUsedUp`; so are, by their nature, the three runs that
show a property violated.

## 5. Not modelled

* Code that no program reaches: `userOn` and `userMoveWait` of Client-all,
  `userMove` of the Qt client, `WaitMsg`, `Wait`, `Listen`, `Accept`,
  `DelEvent`, `write_profile_string`, most of the functions that Client-send and
  Client-recv share with each other and do not call.
* Files that no project file builds: `ClientGUI/Client.cpp` and the socket,
  epoll and queue copies in `ClientGUI` (`FifoQueue` is modelled all the same,
  but for `Update` and the build without a lock).
* The signal `changeClients` of ChannelForwardGUI, whose slot has no body.
* Formatting, logging, `utils`, the Qt form files.
* `inifile`: comments, blank lines and spaces around a line, the limits of
  16 KB for a file and of the caller's buffer for a value.

This is why the map covers a modest share of the lines of the repository: more
than half of them are copies of the socket, configuration and utility files, and
much of each client is a dead function or the printing of bytes. Of the lines
that remain when each identical file is counted once, about half are mapped.

