----------------------------- MODULE TcpRecords -----------------------------
(***************************************************************************)
(* src/src/tcp/tcpTest.cpp: clients send records of one length; a server   *)
(* either accepts one client and reads recvLen bytes at a time until the   *)
(* stream ends, or accepts for ever and never reads or closes.  Each run   *)
(* of TcpTest_Client() is a process of its own, and all bind one port,     *)
(* which the kernel keeps for a time after the connection is closed.       *)
(*                                                                         *)
(* A byte of a stream is its position; argv[1], the length of a read, is   *)
(* one that fits into recvBuf with its terminator.                         *)
(***************************************************************************)
EXTENDS Naturals, Sequences, Totals

CONSTANTS
    Runs,        \* runs of the client
    RecordLen, Records,   \* length and number of records, 51 and 100
    RecvLens,    \* what argv[1] of the server may be
    MaxOpenFds   \* bound: connections the server's descriptors allow

NoRun == "no run"

ASSUME RecordAssumption ==
    /\ RecordLen \in Nat \ {0} /\ Records \in Nat
    /\ RecvLens \subseteq Nat /\ MaxOpenFds \in Nat /\ NoRun \notin Runs

VARIABLES
    tcpServer,   \* the server that runs, "one" or "roll"
    recvLen,     \* argv[1]
    srvPc,       \* "init", "accept", "recv", "exit"
    backlog, opened,   \* connected runs not yet accepted; accepted, in order
    runPc,       \* run -> "init", "connect", "send", "closed", "exit"
    sendIdx,     \* run -> records it has tried to send
    sentBytes,   \* run -> bytes that are on their way to the server
    broken,      \* runs whose connection is broken
    portClient,  \* the run that PORT_CLIENT belongs to
    shown,       \* lengths the server has printed
    said         \* the last line of the server: "nothing" yet, "disconnect", "broken"

recordVars == <<tcpServer, recvLen, srvPc, backlog, opened, runPc, sendIdx,
                sentBytes, broken, portClient, shown, said>>

RecordInit ==
    /\ tcpServer \in {"one", "roll"} /\ recvLen \in RecvLens
    /\ srvPc = "init" /\ backlog = <<>> /\ opened = <<>>
    /\ runPc = [c \in Runs |-> "init"] /\ sendIdx = [c \in Runs |-> 0]
    /\ sentBytes = [c \in Runs |-> 0] /\ broken = {}
    /\ portClient = NoRun /\ shown = <<>> /\ said = "nothing"

Taken == Total(shown)
Served == opened[1]

-----------------------------------------------------------------------------
(* InitInetSocket() and listen(), or the exit behind one of them.          *)
InitServer ==
    /\ srvPc = "init" /\ srvPc' \in {"accept", "exit"}
    /\ UNCHANGED <<tcpServer, recvLen, backlog, opened, runPc, sendIdx, sentBytes,
                   broken, portClient, shown, said>>

(* close(serverFd) and the end of the process: every connection the server *)
(* has not finished with, accepted or not, is reset.                       *)
ServerEnds ==
    /\ srvPc' = "exit" /\ backlog' = <<>>
    /\ broken' = broken \cup {opened[i] : i \in DOMAIN opened}
                        \cup {backlog[i] : i \in DOMAIN backlog}

AcceptRun ==
    /\ srvPc = "accept" /\ backlog # <<>> /\ Len(opened) < MaxOpenFds
    /\ opened' = Append(opened, Head(backlog)) /\ backlog' = Tail(backlog)
    /\ srvPc' = IF tcpServer = "one" THEN "recv" ELSE "accept"
    /\ UNCHANGED <<tcpServer, recvLen, runPc, sendIdx, sentBytes, broken,
                   portClient, shown, said>>

(* accept() fails, with EMFILE when no descriptor is free.                 *)
AcceptRunFails ==
    /\ srvPc = "accept" /\ ServerEnds
    /\ UNCHANGED <<tcpServer, recvLen, opened, runPc, sendIdx, sentBytes,
                   portClient, shown, said>>

(* recv(recvLen, MSG_WAITALL) returns what it was asked for, or the rest   *)
(* of a stream that ended or broke.                                        *)
StreamOver == runPc[Served] \in {"closed", "exit"} \/ Served \in broken

RecvBytes ==
    /\ srvPc = "recv"
    /\ LET there == sentBytes[Served] - Taken IN
          \/ recvLen > 0 /\ there >= recvLen /\ shown' = Append(shown, recvLen)
          \/ there \in 1..(recvLen - 1) /\ StreamOver /\ shown' = Append(shown, there)
    /\ UNCHANGED <<tcpServer, recvLen, srvPc, backlog, opened, runPc, sendIdx,
                   sentBytes, broken, portClient, said>>

(* 0, at the end of the stream or because 0 of the bytes that are there    *)
(* were asked for; -1 when it broke.                                       *)
RecvOver ==
    /\ srvPc = "recv"
    /\ \/ Taken = sentBytes[Served] /\ StreamOver
          /\ said' = IF Served \in broken THEN "broken" ELSE "disconnect"
       \/ recvLen = 0 /\ sentBytes[Served] > 0 /\ said' = "disconnect"
    /\ ServerEnds
    /\ UNCHANGED <<tcpServer, recvLen, opened, runPc, sendIdx, sentBytes,
                   portClient, shown>>

TcpTestServer == InitServer \/ AcceptRun \/ AcceptRunFails \/ RecvBytes \/ RecvOver

-----------------------------------------------------------------------------
(* InitInetSocket(g_localIP, PORT_CLIENT): bind() fails while another run  *)
(* has the port or has just had it.                                        *)
BindRun(c) ==
    /\ runPc[c] = "init"
    /\ \/ portClient = NoRun /\ portClient' = c /\ runPc' = [runPc EXCEPT ![c] = "connect"]
       \/ runPc' = [runPc EXCEPT ![c] = "exit"] /\ UNCHANGED portClient
    /\ UNCHANGED <<tcpServer, recvLen, srvPc, backlog, opened, sendIdx, sentBytes,
                   broken, shown, said>>

ConnectRun(c) ==
    /\ runPc[c] = "connect"
    /\ \/ /\ srvPc \in {"accept", "recv"}
          /\ backlog' = Append(backlog, c) /\ runPc' = [runPc EXCEPT ![c] = "send"]
          /\ UNCHANGED portClient
       \/ /\ runPc' = [runPc EXCEPT ![c] = "exit"] /\ portClient' = NoRun
          /\ UNCHANGED backlog
    /\ UNCHANGED <<tcpServer, recvLen, srvPc, opened, sendIdx, sentBytes, broken,
                   shown, said>>

(* send() of a record; over a broken connection it fails, which nothing    *)
(* looks at, or SIGPIPE ends the run.                                      *)
SendRecord(c) ==
    /\ runPc[c] = "send" /\ sendIdx[c] < Records
    /\ sendIdx' = [sendIdx EXCEPT ![c] = @ + 1]
    /\ \/ /\ c \notin broken /\ sentBytes' = [sentBytes EXCEPT ![c] = @ + RecordLen]
          /\ UNCHANGED runPc
       \/ c \in broken /\ runPc' \in {runPc, [runPc EXCEPT ![c] = "exit"]}
          /\ UNCHANGED sentBytes
    /\ UNCHANGED <<tcpServer, recvLen, srvPc, backlog, opened, broken, portClient,
                   shown, said>>

CloseRun(c) ==
    /\ runPc[c] = "send" /\ sendIdx[c] = Records
    /\ runPc' = [runPc EXCEPT ![c] = "closed"]
    /\ UNCHANGED <<tcpServer, recvLen, srvPc, backlog, opened, sendIdx, sentBytes,
                   broken, portClient, shown, said>>

TcpTestClient(c) == BindRun(c) \/ ConnectRun(c) \/ SendRecord(c) \/ CloseRun(c)

(* The network breaks a connection; the kernel gives the port free again.  *)
NetBreaks(c) ==
    /\ runPc[c] = "send" /\ c \notin broken /\ broken' = broken \cup {c}
    /\ UNCHANGED <<tcpServer, recvLen, srvPc, backlog, opened, runPc, sendIdx,
                   sentBytes, portClient, shown, said>>

PortFreed ==
    /\ portClient # NoRun /\ runPc[portClient] \in {"closed", "exit"}
    /\ portClient' = NoRun
    /\ UNCHANGED <<tcpServer, recvLen, srvPc, backlog, opened, runPc, sendIdx,
                   sentBytes, broken, shown, said>>

RecordNext ==
    TcpTestServer \/ PortFreed \/ \E c \in Runs : TcpTestClient(c) \/ NetBreaks(c)

-----------------------------------------------------------------------------
RecordTypeOK ==
    /\ srvPc \in {"init", "accept", "recv", "exit"} /\ recvLen \in RecvLens
    /\ \A c \in Runs : /\ runPc[c] \in {"init", "connect", "send", "closed", "exit"}
                       /\ sendIdx[c] \in 0..Records
                       /\ sentBytes[c] \in 0..(Records * RecordLen)
    /\ broken \subseteq Runs /\ portClient \in Runs \cup {NoRun}
    /\ Len(opened) <= MaxOpenFds /\ said \in {"nothing", "disconnect", "broken"}

(* Whatever the records and the reads, all reads but the last are whole,   *)
(* the last is cut only by the end of the stream, and "disconnect" is said *)
(* only of a run that has sent and shown everything, or of a read of 0.    *)
RecordsWhole ==
    /\ \A i \in DOMAIN shown :
          shown[i] = recvLen \/ (i = Len(shown) /\ shown[i] < recvLen /\ StreamOver)
    /\ said = "disconnect" /\ recvLen > 0 =>
          runPc[Served] # "send" /\ Taken = sentBytes[Served] /\ sendIdx[Served] = Records
    /\ shown # <<>> => Taken <= sentBytes[Served]

(* The port lets only one run at a time be connected, so that of the       *)
(* connections the rolling server collects only the last can still send.   *)
LastOneSends ==
    \A i \in DOMAIN opened : i < Len(opened) => runPc[opened[i]] \in {"closed", "exit"}
=============================================================================
