----------------------------- MODULE UdpSenders -----------------------------
(***************************************************************************)
(* src/src/udp/udpMuliSendOneRecv.cpp: threads of one program send through *)
(* one shared socket, gSockFd, to a thread of the same program that        *)
(* receives.  A thread whose send() fails closes gSockFd and ends, so that *)
(* the number can be given to the receiver's socket and closed again by    *)
(* the next sender.                                                        *)
(*                                                                         *)
(* The sleep(1) before the senders start is no guarantee that the receiver *)
(* has its socket by then.  send() can fail at any time: "port             *)
(* unreachable" for an earlier datagram, no buffer.  The kernel keeps the  *)
(* socket recvfrom() waits on until it returns.  Datagrams are not told    *)
(* apart; the file that getprotobyname() reads is left out.                *)
(***************************************************************************)
EXTENDS Naturals

CONSTANTS
    NumSenders,     \* ThreadSend threads
    UdpQueueLen     \* datagrams the receiver's socket holds; more are dropped

ASSUME UdpAssumption == NumSenders \in Nat /\ UdpQueueLen \in Nat \ {0}

VARIABLES
    socketOf,    \* what the free descriptor numbers 3 and 4 stand for
    gSockFd,     \* descriptor the senders use
    udpFd,       \* descriptor of ThreadRecv, 0 before its socket()
    udpPc,       \* where ThreadRecv is; "exit": the program has ended
    sendThread,  \* where each ThreadSend is
    createdNum,  \* ThreadSends created
    bound,       \* the receiver's socket has its port
    datagrams,   \* datagrams in the receiver's socket
    socketLate   \* gSockFd had been closed before the receiver's socket()

udpVars == <<socketOf, gSockFd, udpFd, udpPc, sendThread, createdNum, bound,
             datagrams, socketLate>>

Descriptors == {3, 4}
SendThreads == 1..NumSenders

UdpInit ==
    /\ socketOf = [d \in Descriptors |-> IF d = 3 THEN "send" ELSE "free"]
    /\ gSockFd = 3
    /\ udpFd = 0 /\ udpPc = "socket"
    /\ sendThread = [t \in SendThreads |-> "none"]
    /\ createdNum = 0
    /\ bound = FALSE /\ datagrams = 0
    /\ socketLate = FALSE

UdpRunning == udpPc # "exit"

(* A socket that recvfrom() waits on outlives its descriptor.              *)
CloseSocket(d) ==
    /\ socketOf' = [socketOf EXCEPT ![d] = "free"]
    /\ IF socketOf[d] = "recv" /\ udpPc # "wait"
         THEN bound' = FALSE /\ datagrams' = 0
         ELSE UNCHANGED <<bound, datagrams>>

-----------------------------------------------------------------------------
(* socket() takes the lowest number that is free.                          *)
RecvSocket ==
    /\ udpPc = "socket"
    /\ udpFd' = IF socketOf[3] = "free" THEN 3 ELSE 4
    /\ socketOf' = [socketOf EXCEPT ![udpFd'] = "recv"]
    /\ socketLate' = (socketOf[gSockFd] # "send")
    /\ udpPc' = "bind"
    /\ UNCHANGED <<gSockFd, sendThread, createdNum, bound, datagrams>>

RecvBind ==
    /\ udpPc = "bind" /\ socketOf[udpFd] = "recv"
    /\ bound' = TRUE
    /\ udpPc' = "recvfrom"
    /\ UNCHANGED <<socketOf, gSockFd, udpFd, sendThread, createdNum, datagrams,
                   socketLate>>

(* The port is taken, or a sender has closed the descriptor.               *)
RecvBindFail ==
    /\ udpPc = "bind"
    /\ CloseSocket(udpFd)
    /\ udpPc' = "exit"
    /\ UNCHANGED <<gSockFd, udpFd, sendThread, createdNum, socketLate>>

RecvWait ==
    /\ udpPc = "recvfrom" /\ socketOf[udpFd] = "recv"
    /\ udpPc' = "wait"
    /\ UNCHANGED <<socketOf, gSockFd, udpFd, sendThread, createdNum, bound,
                   datagrams, socketLate>>

(* recvfrom() returns; a socket without a descriptor goes with it.         *)
RecvDatagram ==
    /\ udpPc = "wait" /\ datagrams > 0
    /\ IF socketOf[udpFd] = "recv"
         THEN datagrams' = datagrams - 1 /\ UNCHANGED bound
         ELSE datagrams' = 0 /\ bound' = FALSE
    /\ udpPc' = "recvfrom"
    /\ UNCHANGED <<socketOf, gSockFd, udpFd, sendThread, createdNum, socketLate>>

(* "net broken": the descriptor is closed, and ThreadRecv closes it again. *)
RecvBroken ==
    /\ udpPc = "recvfrom" /\ socketOf[udpFd] # "recv"
    /\ CloseSocket(udpFd)
    /\ udpPc' = "ended"
    /\ UNCHANGED <<gSockFd, udpFd, sendThread, createdNum, socketLate>>

ThreadRecv ==
    \/ RecvSocket \/ RecvBind \/ RecvBindFail
    \/ RecvWait \/ RecvDatagram \/ RecvBroken

-----------------------------------------------------------------------------
(* mutant: for (i = 0; i <= 6; ++i).                                       *)
CreateSenderOneMore ==
    /\ UdpRunning /\ createdNum <= NumSenders
    /\ createdNum' = createdNum + 1
    /\ sendThread' = [sendThread EXCEPT ![createdNum'] = "send"]
    /\ UNCHANGED <<socketOf, gSockFd, udpFd, udpPc, bound, datagrams, socketLate>>

CreateSender ==
    /\ UdpRunning /\ createdNum < NumSenders
    /\ createdNum' = createdNum + 1
    /\ sendThread' = [sendThread EXCEPT ![createdNum'] = "send"]
    /\ UNCHANGED <<socketOf, gSockFd, udpFd, udpPc, bound, datagrams, socketLate>>

(* A datagram to a full socket, or to a port nobody has, is lost.          *)
SendSucceeds(t) ==
    /\ UdpRunning /\ sendThread[t] = "send" /\ socketOf[gSockFd] = "send"
    /\ datagrams' = IF bound /\ datagrams < UdpQueueLen THEN datagrams + 1
                                                        ELSE datagrams
    /\ UNCHANGED <<socketOf, gSockFd, udpFd, udpPc, sendThread, createdNum,
                   bound, socketLate>>

SendFails(t) ==
    /\ UdpRunning /\ sendThread[t] = "send"
    /\ sendThread' = [sendThread EXCEPT ![t] = "close"]
    /\ UNCHANGED <<socketOf, gSockFd, udpFd, udpPc, createdNum, bound,
                   datagrams, socketLate>>

(* mutant: a sender that fails leaves the socket to the others.            *)
SendEndKeepsSocket(t) ==
    /\ UdpRunning /\ sendThread[t] = "close"
    /\ sendThread' = [sendThread EXCEPT ![t] = "ended"]
    /\ UNCHANGED <<socketOf, gSockFd, udpFd, udpPc, createdNum, bound,
                   datagrams, socketLate>>

SendClose(t) ==
    /\ UdpRunning /\ sendThread[t] = "close"
    /\ CloseSocket(gSockFd)
    /\ sendThread' = [sendThread EXCEPT ![t] = "ended"]
    /\ UNCHANGED <<gSockFd, udpFd, udpPc, createdNum, socketLate>>

ThreadSend(t) == SendSucceeds(t) \/ SendFails(t) \/ SendClose(t)

UdpNext == ThreadRecv \/ CreateSender \/ \E t \in SendThreads : ThreadSend(t)

-----------------------------------------------------------------------------
UdpTypeOK ==
    /\ socketOf \in [Descriptors -> {"free", "send", "recv"}]
    /\ gSockFd \in Descriptors /\ udpFd \in Descriptors \cup {0}
    /\ udpPc \in {"socket", "bind", "recvfrom", "wait", "ended", "exit"}
    /\ sendThread \in [SendThreads -> {"none", "send", "close", "ended"}]
    /\ createdNum \in 0..NumSenders
    /\ bound \in BOOLEAN /\ datagrams \in 0..UdpQueueLen
    /\ socketLate \in BOOLEAN

(* A receiver that had its socket before the first sender failed keeps it: *)
(* however many senders close gSockFd, again and again, none of them       *)
(* closes the receiver's.                                                  *)
RecvSocketSafe ==
    udpPc \in {"bind", "recvfrom", "wait"} /\ ~socketLate
        => socketOf[udpFd] = "recv"

(* One failure stops them all: after a sender has ended, every other       *)
(* sender, and every one still to be created, ends too, or the program     *)
(* does; the number's second life as the receiver's socket changes nothing *)
(* about it, a socket that is not connected cannot send().                 *)
AllSendersStop ==
    (\E t \in SendThreads : sendThread[t] = "ended") ~>
        (~UdpRunning \/ \A t \in SendThreads : sendThread[t] = "ended")
=============================================================================
