-------------------------- MODULE NetworkPrograms ---------------------------
(***************************************************************************)
(* The programs that work on datagrams, raw sockets, select() and records  *)
(* of one length; one of them runs (config.h has a macro for each), the    *)
(* variables of the others keep their initial values.                      *)
(*                                                                         *)
(* Fairness: a process that can take a step of its own is scheduled at     *)
(* some time; the network, the hosts behind it and signals owe nothing.    *)
(***************************************************************************)
EXTENDS OrderedDatagrams, NumberedDatagrams, PingExchange, RawPackets,
        ArpExchange, SelectServer, TcpRecords

VARIABLE program   \* the macro that is 1

vars == <<program, orderVars, numberVars, pingVars, rawVars, arpVars, selectVars, recordVars>>

Init ==
    /\ program \in {"UDPORDERSENDRECV_CPP", "UDPPACKAGETCP_CPP", "PING_CPP",
                    "RAWSOCKETDUMP_CPP", "RAWSOCKETUDPSENDTEST_CPP",
                    "RAWSOCKETARP_CPP", "TCPECHOSERVERSELECT_CPP", "TCPTEST_CPP"}
    /\ OrderInit /\ NumberInit /\ PingInit /\ RawInit /\ ArpInit /\ SelectInit /\ RecordInit
    /\ program # "UDPORDERSENDRECV_CPP" =>
        ~leftover /\ \A s \in Transmitters : tx[s].tid = 0
    /\ program # "PING_CPP" => listening
    /\ program # "RAWSOCKETDUMP_CPP" => recvBuf = CHOOSE b \in Garbage : TRUE
    /\ program # "RAWSOCKETARP_CPP" => ~arpEndless
    /\ program # "TCPTEST_CPP" =>
        tcpServer = "one" /\ recvLen = CHOOSE n \in RecvLens : TRUE

Ordering(Step) ==
    /\ program = "UDPORDERSENDRECV_CPP" /\ Step
    /\ UNCHANGED <<program, numberVars, pingVars, rawVars, arpVars, selectVars, recordVars>>
Numbering(Step) ==
    /\ program = "UDPPACKAGETCP_CPP" /\ Step
    /\ UNCHANGED <<program, orderVars, pingVars, rawVars, arpVars, selectVars, recordVars>>
Pinging(Step) ==
    /\ program = "PING_CPP" /\ Step
    /\ UNCHANGED <<program, orderVars, numberVars, rawVars, arpVars, selectVars, recordVars>>
Dumping(Step) ==
    /\ program = "RAWSOCKETDUMP_CPP" /\ Step
    /\ UNCHANGED <<program, orderVars, numberVars, pingVars, arpVars, selectVars, recordVars>>
Building(Step) ==
    /\ program = "RAWSOCKETUDPSENDTEST_CPP" /\ Step
    /\ UNCHANGED <<program, orderVars, numberVars, pingVars, arpVars, selectVars, recordVars>>
Asking(Step) ==
    /\ program = "RAWSOCKETARP_CPP" /\ Step
    /\ UNCHANGED <<program, orderVars, numberVars, pingVars, rawVars, selectVars, recordVars>>
Selecting(Step) ==
    /\ program = "TCPECHOSERVERSELECT_CPP" /\ Step
    /\ UNCHANGED <<program, orderVars, numberVars, pingVars, rawVars, arpVars, recordVars>>
Recording(Step) ==
    /\ program = "TCPTEST_CPP" /\ Step
    /\ UNCHANGED <<program, orderVars, numberVars, pingVars, rawVars, arpVars, selectVars>>

Next ==
    \/ Ordering(OrderNext) \/ Numbering(NumberNext) \/ Pinging(PingNext)
    \/ Dumping(RecvPacket) \/ Building(SendUdpPacketLoops)
    \/ Asking(ArpNext) \/ Selecting(SelectNext) \/ Recording(RecordNext)

Fairness ==
    WF_vars(\/ Pinging(SendRequest \/ Poll \/ SayOvertime \/ ClearFlag \/ SendAlone)
            \/ Asking(SendArpPack \/ RecvArpPack \/ RecvNothing \/ AddEntry \/ GiveUp))

Spec == Init /\ [][Next]_vars /\ Fairness

-----------------------------------------------------------------------------
(* The variables of every program have their types.                        *)
TypeOK ==
    /\ OrderTypeOK /\ NumberTypeOK /\ PingTypeOK
    /\ RawTypeOK /\ ArpTypeOK /\ SelectTypeOK /\ RecordTypeOK

(* What the two receivers say of the numbers they got: nothing wrong means *)
(* a loss no worse than the number space hides (udpOrderSendRecv.cpp:711,  *)
(* udpPackageTcp.cpp:166).                                                 *)
NumbersTellLoss == CleanMeansInOrder /\ CountFitsNumber

(* Every header and request built by hand has the checksum its receiver    *)
(* computes, over the wrap of numbers and identifications.                 *)
ChecksumsVerify == RequestsVerify /\ BuiltVerifies

(* The select() server leaves no connection out, and unless accept() fails *)
(* it ends only when a line is typed, when a client was ready together     *)
(* with a new connection, or when all its descriptors are open.  The       *)
(* server of tcpTest.cpp shows whole reads up to the end it reports, and   *)
(* one client at a time (tcpEchoServerSelect.cpp:130, tcpTest.cpp:145).    *)
ServersHold ==
    /\ EndsByTwoThings /\ AcceptedIsWatched
    /\ RecordsWhole /\ LastOneSends

(* Between a thread and a signal handler, and between two threads with one *)
(* flag: the record of errors is closed under nobody's hands but the       *)
(* counting thread's, and no request is given up whose answer was shown    *)
(* before the flag was looked at (udpOrderSendRecv.cpp:640, ping.cpp:245). *)
HandsOffAreOrdered == MisuseNeedsCountThread /\ OvertimeIsSilence

(* The program that sends echo requests comes to an end whatever the       *)
(* network does.  The one that looks up an address ends as well, unless    *)
(* packets reach its socket for ever: line 224 of rawSocketArp.cpp reads   *)
(* on for as long as there are any.                                        *)
LookupsEnd ==
    /\ program = "PING_CPP" ~> pingIdx = PING_NUM
    /\ program = "RAWSOCKETARP_CPP" /\ ~arpEndless =>
        <>(arpPc = "done") \/ []<><<Asking(ArpPacketArrives)>>_vars
=============================================================================
