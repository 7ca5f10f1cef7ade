-------------------------------- MODULE Wire --------------------------------
(***************************************************************************)
(* The frame that clients, channel units and central station exchange.     *)
(*                                                                         *)
(* A frame has two 4-byte user numbers (offsets 0 and 4), a 2-byte frame   *)
(* number (8), an option byte (10) and data (12 on).  The meaning of the   *)
(* two user numbers depends on the direction: enum POS of Client.h gives   *)
(* offset 0 to the SOURCE of a frame on its way up and to the DESTINATION  *)
(* of a frame on its way down.                                             *)
(*                                                                         *)
(* Abstracted: time stamp, position, SNR and message text (no receiver     *)
(* looks at them); lengths (every sender fills the fixed header).          *)
(***************************************************************************)
EXTENDS Integers, FiniteSets

CONSTANTS Users,        \* user numbers, m_userID of the running clients
          CharSigned    \* does the build make plain char a signed type?

ASSUME UsersAssumption == Users \subseteq Nat \ {0} /\ IsFiniteSet(Users)
ASSUME CharAssumption == CharSigned \in BOOLEAN

Station == 0            \* user number of the central station

\* Option bytes.
MoveOpt  == 3           \* 0x03 mobility report
PlainOpt == 64          \* 0x40 short message
RetOpt   == 80          \* 0x50 short message, station receipt wanted
Ret1Opt  == 81          \* 0x51 shown by userRecv, sent by no client
CnfOpt   == 96          \* 0x60 short message, receipt and peer confirm wanted
ReplyOpt == 128         \* 0x80 reply

MessageOpts == {PlainOpt, RetOpt, Ret1Opt, CnfOpt}
Options == MessageOpts \cup {MoveOpt, ReplyOpt}

\* First data byte of a reply (offsets "ret" and "data" are both 12), and of a
\* message, whose text starts with "test:".
OnOk == 0
OnFailed == 1
MoveOk == 3
Receipt == 80
Confirm == 96
TextByte == 116
DataBytes == {OnOk, OnFailed, MoveOk, Receipt, Confirm, TextByte}

FrameNoCount == 65536   \* unsigned short m_frameNo
FrameNos == 0 .. FrameNoCount - 1

\* "id" is the position of the datagram in the order of sending and "msg" the
\* short message (or report) that it carries or answers; neither is on the wire.
Frame == [id : Nat, w0 : Nat, w1 : Nat, frame : FrameNos, opt : Options,
          data : DataBytes, msg : Nat]

\* Mutant: the two user numbers of a downward frame exchanged.
recv_dest_user_up(f) == f.w1

recv_dest_user(f) == f.w0
recv_src_user(f)  == f.w1
send_src_user(f)  == f.w0
send_dest_user(f) == f.w1

UpFrame(id, src, dest, frame, opt, data, msg) ==
    [id |-> id, w0 |-> src, w1 |-> dest, frame |-> frame, opt |-> opt,
     data |-> data, msg |-> msg]

DownFrame(id, dest, src, frame, opt, data, msg) ==
    [id |-> id, w0 |-> dest, w1 |-> src, frame |-> frame, opt |-> opt,
     data |-> data, msg |-> msg]

\* Mutant: the comparison on a build with signed char.
AsSignedChar(byte) == IF byte >= 128 THEN byte - 256 ELSE byte

\* A byte read through "char *": the integer that the comparison sees.
AsChar(byte) == IF CharSigned /\ byte >= 128 THEN byte - 256 ELSE byte

\* ~ (*(buf+option) != 0x80), the test in every wait of Client-all.
IsReply(f) == AsChar(f.opt) = ReplyOpt
=============================================================================
