------------------------------ MODULE Startup -------------------------------
(***************************************************************************)
(* The start of the seven programs: main calls Init, Init calls            *)
(* readInitFile, and none of them looks at what the other returned.        *)
(*                                                                         *)
(* readInitFile reads its keys one by one and returns at the first that is *)
(* missing; the members that come later keep what they had: the default of *)
(* the constructor, or what was in memory (Garbage).  The rest of Init and *)
(* Run go on with that.                                                    *)
(*                                                                         *)
(* pc: "reading", "init" (the rest of Init), "run" (Run as far as its      *)
(* loop), then "running", "idle" (an epoll loop without descriptors, or a  *)
(* window without a socket), "ended" or "crashed".                         *)
(***************************************************************************)
EXTENDS IniFile, FiniteSets

CONSTANTS Programs,     \* the programs that may be started
          Lengths,      \* how many peers, clients or ports a file may list
          MaxMissing    \* bound: lines missing in the file

ASSUME StartupAssumption ==
    /\ Programs \subseteq {"Client-all", "Client-send", "Client-recv", "ClientGUI",
                           "ChannelUnitForward", "ChannelForwardGUI", "ChannelUnitBackward"}
    /\ Lengths \subseteq Nat \ {0} /\ MaxMissing \in Nat
    /\ \A n \in Lengths : n <= Radix * Radix

VARIABLES program,
          file, count,  \* the file, and how many rows its tables have
          complete,     \* no line is missing
          pc,
          todo,         \* the keys that readInitFile has still to read
          conf,         \* the members that are set from the file
          rows,         \* m_peers, or the pairs of m_clientIPs and m_clientPorts
          boundTo       \* the port of the UDP socket

vars == <<program, file, count, complete, pc, todo, conf, rows, boundTo>>

Garbage == -1
NoPort == -2            \* not bound, or bound to a port nobody chose

ClientPrograms == {"Client-all", "Client-send", "Client-recv", "ClientGUI"}

-----------------------------------------------------------------------------
(* Keys, and the order they are read in.  A missing key ends the reading   *)
(* if the code says so (must).                                             *)

Key(member, sec, key) == [member |-> member, sec |-> sec, key |-> key, must |-> TRUE]

Peer(n) == <<"Peer">> \o Numeral(n)
Instance(n) == <<"Client", "Instance">> \o Numeral(n)

ClientName == Key("name", <<"Client">>, <<"name">>)
ChannelPort == Key("channelPort", <<"Channel">>, <<"Port">>)
ChannelIP == Key("channelIP", <<"Channel">>, <<"IP">>)
ClientPort == Key("clientPort", <<"Client">>, <<"Port">>)
UserID == Key("userID", <<"Client">>, <<"ID">>)
ClientLength == Key("length", <<"Client">>, <<"Length">>)
MetaName == Key("name", <<"Meta">>, <<"Name">>)
BackwardPort == Key("backwardPort", <<"Server">>, <<"Backward", "Port">>)
ServerIP == Key("serverIP", <<"Server">>, <<"IP">>)
PortLength == Key("portLength", <<"Server">>, <<"Forward", "Port", "Length">>)
PortIndex == [Key("index", <<"Server">>, <<"Forward", "Port", "Index">>) EXCEPT !.must = FALSE]
ForwardPort(n) == Key("forwardPort", <<"Server">>, <<"Forward", "Port">> \o Numeral(n))

PeerID(n) == Key("peer", Peer(n), <<"ID">>)
InstancePort(n) == Key("instancePort", Instance(n), <<"Instance", "Port">>)
InstanceIP(n) == Key("instanceIP", Instance(n), <<"Instance", "IP">>)

\* Mutant: the port of the client is read first.
ClientReadsPortFirst ==
    <<ClientPort, ClientName, ChannelPort, ChannelIP, UserID, ClientLength>>

\* Each client has its own copy of readInitFile, with the same keys.
ClientReads == <<ClientName, ChannelPort, ChannelIP, ClientPort, UserID, ClientLength>>
ClientSendReads == ClientReads
ClientRecvReads == ClientReads
ClientGuiReads == ClientReads

\* Both forward units do without an index.
ForwardReads == <<MetaName, BackwardPort, ServerIP, PortLength, PortIndex>>
ForwardGuiReads == ForwardReads

\* The backward unit asks for an index under a name that no file has, and takes 0.
BackwardReads ==
    <<BackwardPort, ServerIP, PortLength,
      [PortIndex EXCEPT !.key = <<"server", "Forward", "Port", "Index">>]>>

ReadsOf(prog) ==
    CASE prog = "Client-all"          -> ClientReads
      [] prog = "Client-send"         -> ClientSendReads
      [] prog = "Client-recv"         -> ClientRecvReads
      [] prog = "ClientGUI"           -> ClientGuiReads
      [] prog = "ChannelUnitForward"  -> ForwardReads
      [] prog = "ChannelForwardGUI"   -> ForwardGuiReads
      [] prog = "ChannelUnitBackward" -> BackwardReads

Peers(n) == [k \in 1 .. n |-> PeerID(k - 1)]
Instances(n) ==
    FlattenSeq([k \in 1 .. n |-> <<InstancePort(k - 1), InstanceIP(k - 1)>>])

\* The reads that follow from a number: as many rows as Length says, the forward
\* port with the index, or all forward ports.
Then(read, val) ==
    IF read = ClientLength
    THEN IF program \in ClientPrograms THEN Peers(val) ELSE <<ClientPort>> \o Instances(val)
    ELSE IF read.member # "index" THEN <<>>
    ELSE IF program = "ChannelUnitBackward"
         THEN [k \in 1 .. conf["portLength"] |-> ForwardPort(k - 1)] \o <<ClientLength>>
         ELSE <<ForwardPort(val), ClientLength>>

-----------------------------------------------------------------------------
(* The files: those of the repository with any number of rows, their       *)
(* lines in this order or backwards, up to MaxMissing of them missing.     *)

ClientKeys(n) ==
    <<ChannelPort, ChannelIP, ClientName, ClientPort, ClientLength, UserID>> \o Peers(n)
UnitKeys(n) ==
    <<MetaName, ServerIP, BackwardPort, PortLength, PortIndex>>
    \o [k \in 1 .. n |-> ForwardPort(k - 1)] \o <<ClientLength, ClientPort>> \o Instances(n)

KeysOf(prog, n) == IF prog \in ClientPrograms THEN ClientKeys(n) ELSE UnitKeys(n)

\* A line whose value is its own: a length, the last index, or something unique.
Line(read, n, unique) ==
    [sec |-> read.sec, key |-> read.key,
     val |-> CASE read \in {ClientLength, PortLength} -> n
               [] read = PortIndex -> n - 1
               [] OTHER -> 100 + unique]

Lines(prog, n, gone) ==
    LET keys == KeysOf(prog, n)
    IN  FlattenSeq([k \in DOMAIN keys |->
            IF k \in gone THEN <<>> ELSE <<Line(keys[k], n, k)>>])

\* Choosing a position behind the last line leaves nothing out.
Gone(prog, n) ==
    {Range(choice) : choice \in [1 .. MaxMissing -> 1 .. Len(KeysOf(prog, n)) + 1]}

Members == {"name", "channelPort", "channelIP", "clientPort", "userID", "length",
            "backwardPort", "serverIP", "portLength", "index", "forwardPort",
            "peer", "instancePort", "instanceIP"}

\* The constructors: m_userID is 1, ports are not set, a name is one that stands in no
\* file and an address is empty (both Missing).
Constructed ==
    [m \in Members |->
        CASE m \in {"name", "channelIP", "serverIP"} -> Missing
          [] m = "userID" -> 1
          [] OTHER -> Garbage]

Init ==
    /\ program \in Programs /\ count \in Lengths
    /\ \E gone \in Gone(program, count) :
         /\ complete = (gone \cap DOMAIN KeysOf(program, count) = {})
         /\ LET lines == Lines(program, count, gone)
            IN  file \in {lines, Reverse(lines)}
    /\ pc = "reading" /\ todo = ReadsOf(program)
    /\ conf = Constructed /\ rows = <<>> /\ boundTo = NoPort

-----------------------------------------------------------------------------
(* readInitFile.                                                           *)

\* Mutant: a missing key ends nothing.
StopsNever(read, val) == FALSE

Stops(read, val) == read.must /\ val = Missing

\* A row is complete with its last key.
Row(read, val) ==
    CASE read.member = "peer" -> <<val>>
      [] read.member = "instanceIP" -> <<<<conf["instancePort"], val>>>>
      [] OTHER -> <<>>

readInitFile ==
    /\ pc = "reading" /\ todo # <<>>
    /\ LET read == Head(todo)
           val == read_profile(file, read.sec, read.key)
       IN  /\ conf' = [conf EXCEPT ![read.member] = val]
           /\ IF Stops(read, val)
              THEN pc' = "init" /\ UNCHANGED <<todo, rows>>
              ELSE /\ todo' = Tail(todo) \o Then(read, val)
                   /\ rows' = rows \o Row(read, val)
                   /\ pc' = IF todo' = <<>> THEN "init" ELSE "reading"
    /\ UNCHANGED <<program, file, count, complete, boundTo>>

-----------------------------------------------------------------------------
(* The rest of Init, and Run as far as its loop.                           *)

Goto(at) == pc' = at /\ UNCHANGED <<program, file, count, complete, todo, conf, rows>>

\* bind takes the port, and for port 0 any; garbage is a port nobody chose.  What
\* is in memory is assumed not to be the right port by chance.
Bound == boundTo' = IF conf["clientPort"] > 0 THEN conf["clientPort"] ELSE NoPort
NotBound == UNCHANGED boundTo

\* Client-all: without its socket Run waits for no event at all.
ClientAllInit ==
    /\ program = "Client-all" /\ pc = "init"
    /\ \/ Bound /\ Goto("running")
       \/ NotBound /\ Goto("idle")

\* Client-send and Client-recv run their script with whatever socket they have.
ScriptInit ==
    /\ program \in {"Client-send", "Client-recv"} /\ pc = "init"
    /\ Bound \/ NotBound
    /\ Goto("running")

\* The window opens, and recvMessage is connected if bind worked.
GuiInit ==
    /\ program = "ClientGUI" /\ pc = "init"
    /\ \/ Bound /\ Goto("running")
       \/ NotBound /\ Goto("idle")

\* The forward unit needs no port of its own.
ForwardInit ==
    /\ program = "ChannelUnitForward" /\ pc = "init"
    /\ NotBound /\ Goto("run")

\* The window reads the first two clients, whether there are any or not.
ForwardGuiInit ==
    /\ program = "ChannelForwardGUI" /\ pc = "init"
    /\ NotBound
    /\ \/ Goto("run")
       \/ Len(rows) < 2 /\ Goto("crashed")

\* Connect works with the right address, and perhaps with a port that is garbage.
ForwardRun ==
    /\ program \in {"ChannelUnitForward", "ChannelForwardGUI"} /\ pc = "run"
    /\ NotBound
    /\ \/ conf["serverIP"] # Missing /\ conf["forwardPort"] # Missing /\ Goto("running")
       \/ Goto("ended")

BackwardInit ==
    /\ program = "ChannelUnitBackward" /\ pc = "init"
    /\ NotBound /\ Goto("run")

\* The backward unit connects and binds its port; port 0 it does not bind.
BackwardRun ==
    /\ program = "ChannelUnitBackward" /\ pc = "run"
    /\ \/ /\ conf["serverIP"] # Missing /\ conf["backwardPort"] # Missing
          /\ Bound /\ Goto("running")
       \/ NotBound /\ Goto("ended")

Next ==
    \/ readInitFile
    \/ ClientAllInit \/ ScriptInit \/ GuiInit
    \/ ForwardInit \/ ForwardGuiInit \/ ForwardRun \/ BackwardInit \/ BackwardRun

Spec == Init /\ [][Next]_vars

-----------------------------------------------------------------------------
(* Properties.                                                             *)

\* What the file says of exactly this key, and of a whole table.
Says(read) == Said(file, read.sec, read.key)
SaysRows ==
    [k \in 1 .. count |->
        IF program \in ClientPrograms THEN Says(PeerID(k - 1))
        ELSE <<Says(InstancePort(k - 1)), Says(InstanceIP(k - 1))>>]

Started == pc # "reading"

\* The members that the program uses, with the key each comes from.
Used ==
    IF program \in ClientPrograms THEN {ClientName, ChannelPort, ChannelIP, ClientPort, UserID}
    ELSE {BackwardPort, ServerIP, ClientPort}
         \cup (IF program = "ChannelUnitBackward" THEN {} ELSE {ForwardPort(count - 1)})

\* A complete file with at most Radix rows is read as it is written, in whatever
\* order its lines are, although names are compared only as far as the file's go.
ConfigRead ==
    (Started /\ complete /\ count <= Radix) =>
        /\ \A read \in Used : conf[read.member] = Says(read)
        /\ rows = SaysRows

\* Init's result is ignored, but a program that receives at the port of its file
\* has found in it, and read, everything that says where it sends: nobody is reached
\* under a default of the constructor.  A client's number is read after the port: one
\* whose file has no number is reached all the same, and runs as number 0.
ReachableIsConfigured ==
    (pc = "running" /\ boundTo # NoPort /\ boundTo = Says(ClientPort)) =>
        /\ \A read \in Used \ {UserID} : read.member # "forwardPort" =>
             Says(read) # Missing /\ conf[read.member] = Says(read)
        /\ program \in ClientPrograms =>
             conf["userID"] = IF Says(UserID) = Missing THEN 0 ELSE Says(UserID)

Incomplete(row) ==
    IF program \in ClientPrograms THEN row = Missing ELSE Missing \in Range(row)

\* The table that the program works with is a beginning of the file's table: also
\* when a line is missing, no row is skipped, mixed from two rows, or half empty.
TableIsPrefix ==
    count <= Radix =>
        IsPrefix(rows, SaysRows) /\ \A k \in DOMAIN rows : ~Incomplete(rows[k])
=============================================================================
