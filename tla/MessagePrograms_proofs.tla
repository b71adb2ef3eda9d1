----------------------- MODULE MessagePrograms_proofs -----------------------
(***************************************************************************)
(* Proofs about the programs of MessagePrograms, for any number of         *)
(* receivers, senders and sending threads.                                 *)
(***************************************************************************)
EXTENDS MessagePrograms, TLAPS

-----------------------------------------------------------------------------
(* FifoChannel.                                                            *)

(* No SIGINT so far, and no sender that has missed the name.               *)
Quiet ==
    /\ sigints = 0
    /\ \A s \in Senders : fifoPc[s] \notin {"unlink", "exit", "ended"}

(* Only a process that is still on the way to its unlink() has the name.   *)
NameIsServed ==
    \A r \in Receivers :
        fifoName = r => fifoPc[r] \in {"open", "opening", "read", "unlink"}

NoHandlerYet == sigints = 0 => \A p \in Processes : ~inHandler[p]

(* Without a signal nothing fails in a receiver that has made its FIFO.    *)
QuietReceivers ==
    Quiet => \A r \in Receivers :
        /\ fifoPc[r] # "unlink"
        /\ fifoPc[r] \in {"opening", "read"} => opened[r] # NoFifo

FifoIInv ==
    /\ FifoTypeOK
    /\ NameIsServed /\ NoHandlerYet /\ QuietReceivers /\ FifoNameKept

LEMMA FifoInitIInv == FifoInit => FifoIInv
  BY FifoAssumption
  DEF FifoInit, FifoIInv, FifoTypeOK, Processes, Fifos, NameIsServed,
      NoHandlerYet, QuietReceivers, FifoNameKept

(* What each action keeps, the types first.                                *)
LEMMA FifoTypes == ASSUME FifoTypeOK, [FifoNext]_fifoVars PROVE FifoTypeOK'
<1> USE FifoAssumption DEF FifoTypeOK, Processes, Fifos, GoTo
<1>1. ASSUME NEW r \in Receivers, RecvProcess(r) PROVE FifoTypeOK'
  <2>1. CASE Mkfifo(r) \/ MkfifoFail(r) \/ OpenFail(r) \/ PerrorUnlink(r)
             \/ OpenReturns(r) \/ ReadFail(r)
    BY <2>1 DEF Mkfifo, MkfifoFail, OpenFail, PerrorUnlink, Unlink,
        OpenReturns, ReadFail
  <2>2. CASE Open(r)
    BY <2>2 DEF Open
  <2>3. CASE Read(r)
    BY <2>3 DEF Read
  <2>4. CASE PerrorClose(r)
    BY <2>4 DEF PerrorClose, CloseFd
  <2> QED  BY <1>1, <2>1, <2>2, <2>3, <2>4 DEF RecvProcess
<1>2. ASSUME NEW s \in Senders, SendProcess(s) PROVE FifoTypeOK'
  <2>1. CASE OpenFail(s) \/ PerrorUnlink(s) \/ OpenReturns(s)
    BY <2>1 DEF OpenFail, PerrorUnlink, Unlink, OpenReturns
  <2>2. CASE Open(s)
    BY <2>2 DEF Open
  <2>3. CASE Write(s)
    BY <2>3 DEF Write
  <2>4. CASE PerrorClose(s) \/ Sigpipe(s)
    BY <2>4 DEF PerrorClose, Sigpipe, CloseFd
  <2> QED  BY <1>2, <2>1, <2>2, <2>3, <2>4 DEF SendProcess
<1>3. ASSUME NEW p \in Processes, HandlerUnlink(p) PROVE FifoTypeOK'
  BY <1>3 DEF HandlerUnlink, Unlink
<1>4. ASSUME NEW p \in Processes, Sigint(p) PROVE FifoTypeOK'
  BY <1>4 DEF Sigint, CloseFd
<1>5. CASE UNCHANGED fifoVars
  BY <1>5 DEF fifoVars
<1> QED  BY <1>1, <1>2, <1>3, <1>4, <1>5 DEF FifoNext, FifoStep

LEMMA FifoNextIInv == ASSUME FifoIInv, [FifoNext]_fifoVars PROVE FifoIInv'
<1> USE FifoAssumption DEF FifoIInv
<1>1. FifoTypeOK'
  BY FifoTypes
<1> DEFINE Kept == NameIsServed' /\ NoHandlerYet' /\ QuietReceivers'
                   /\ FifoNameKept'
<1>2. ASSUME NEW r \in Receivers, RecvProcess(r) PROVE Kept
  <2> USE DEF At, GoTo, Quiet, NameIsServed, NoHandlerYet, QuietReceivers,
          FifoNameKept, FifoTypeOK, Processes, Fifos
  <2>1. CASE Mkfifo(r)
    BY <2>1 DEF Mkfifo
  <2>2. CASE MkfifoFail(r)
    BY <2>2 DEF MkfifoFail
  <2>3. CASE Open(r)
    BY <2>3 DEF Open
  <2>4. CASE OpenReturns(r)
    BY <2>4 DEF OpenReturns
  <2>5. CASE OpenFail(r)
    BY <2>5 DEF OpenFail
  <2>6. CASE Read(r)
    BY <2>6 DEF Read
  <2>7. CASE ReadFail(r)
    BY <2>7 DEF ReadFail
  <2>8. CASE PerrorUnlink(r)
    BY <2>8 DEF PerrorUnlink, Unlink
  <2>9. CASE PerrorClose(r)
    BY <2>9 DEF PerrorClose, CloseFd
  <2> QED  BY <1>2, <2>1, <2>2, <2>3, <2>4, <2>5, <2>6, <2>7, <2>8, <2>9
             DEF RecvProcess
<1>3. ASSUME NEW s \in Senders, SendProcess(s) PROVE Kept
  <2> USE DEF At, GoTo, Quiet, NameIsServed, NoHandlerYet, QuietReceivers,
          FifoNameKept, FifoTypeOK, Processes, Fifos
  <2>1. CASE Open(s)
    BY <2>1 DEF Open
  <2>2. CASE OpenReturns(s)
    BY <2>2 DEF OpenReturns
  <2>3. CASE OpenFail(s)
    BY <2>3 DEF OpenFail
  <2>4. CASE Write(s)
    BY <2>4 DEF Write
  <2>5. CASE Sigpipe(s)
    BY <2>5 DEF Sigpipe, CloseFd
  <2>6. CASE PerrorUnlink(s)
    BY <2>6 DEF PerrorUnlink, Unlink
  <2>7. CASE PerrorClose(s)
    BY <2>7 DEF PerrorClose, CloseFd
  <2> QED  BY <1>3, <2>1, <2>2, <2>3, <2>4, <2>5, <2>6, <2>7 DEF SendProcess
<1>4. ASSUME NEW p \in Processes, HandlerUnlink(p) PROVE Kept
  BY <1>4 DEF HandlerUnlink, Unlink, Quiet, NameIsServed, NoHandlerYet,
      QuietReceivers, FifoNameKept, FifoTypeOK, Processes, Fifos
<1>5. ASSUME NEW p \in Processes, Sigint(p) PROVE Kept
  <2>1. sigints' # 0
    BY <1>5 DEF Sigint, FifoTypeOK
  <2>2. NameIsServed'
    BY <1>5 DEF Sigint, GoTo, NameIsServed, FifoTypeOK, Processes
  <2>3. NoHandlerYet' /\ FifoNameKept'
    BY <2>1 DEF NoHandlerYet, FifoNameKept
  <2>4. QuietReceivers'
    BY <2>1 DEF Quiet, QuietReceivers
  <2> QED  BY <2>2, <2>3, <2>4
<1>6. CASE UNCHANGED fifoVars
  BY <1>1, <1>6 DEF fifoVars, Quiet, NameIsServed, NoHandlerYet, QuietReceivers,
      FifoNameKept, Processes
<1> QED  BY <1>1, <1>2, <1>3, <1>4, <1>5, <1>6 DEF FifoNext, FifoStep

LEMMA FifoIInvOwned == FifoIInv => FifoNameOwned
  BY DEF FifoIInv, FifoNameOwned, NoFifoLeft, NameIsServed, Running

-----------------------------------------------------------------------------
(* UdpSenders.                                                             *)

(* A receiver in time has the other number, and nobody takes it away.      *)
ReceiverApart ==
    udpPc \in {"bind", "recvfrom", "wait"} /\ ~socketLate
        => udpFd = 4 /\ socketOf[4] = "recv"

UdpIInv == UdpTypeOK /\ gSockFd = 3 /\ ReceiverApart

LEMMA UdpInitIInv == UdpInit => UdpIInv
<1> SUFFICES ASSUME UdpInit PROVE UdpIInv
  OBVIOUS
<1>1. createdNum \in 0..NumSenders /\ datagrams \in 0..UdpQueueLen
  BY UdpAssumption DEF UdpInit
<1>2. socketOf \in [Descriptors -> {"free", "send", "recv"}]
  BY DEF UdpInit, Descriptors
<1>3. /\ gSockFd \in Descriptors /\ udpFd \in Descriptors \cup {0}
      /\ sendThread \in [SendThreads -> {"none", "send", "close", "ended"}]
  BY DEF UdpInit, Descriptors, SendThreads
<1> QED  BY <1>1, <1>2, <1>3 DEF UdpInit, UdpIInv, UdpTypeOK, ReceiverApart

LEMMA UdpNextIInv == ASSUME UdpIInv, [UdpNext]_udpVars PROVE UdpIInv'
<1> USE UdpAssumption
        DEF UdpIInv, UdpTypeOK, Descriptors, SendThreads, ReceiverApart
<1>1. CASE RecvSocket
  BY <1>1 DEF RecvSocket
<1>2. CASE RecvBind \/ RecvWait
  BY <1>2 DEF RecvBind, RecvWait
<1>9. CASE RecvDatagram
  <2>1. datagrams' \in 0..UdpQueueLen
    BY <1>9 DEF RecvDatagram
  <2> QED  BY <1>9, <2>1 DEF RecvDatagram
<1>3. CASE RecvBindFail \/ RecvBroken
  <2>1. datagrams' \in 0..UdpQueueLen
    BY <1>3 DEF RecvBindFail, RecvBroken, CloseSocket
  <2>2. bound' \in BOOLEAN
    BY <1>3 DEF RecvBindFail, RecvBroken, CloseSocket
  <2>3. socketOf' = [socketOf EXCEPT ![udpFd] = "free"]
    BY <1>3 DEF RecvBindFail, RecvBroken, CloseSocket
  <2>4. udpPc' \in {"exit", "ended"}
    BY <1>3 DEF RecvBindFail, RecvBroken
  <2> QED  BY <1>3, <2>1, <2>2, <2>3, <2>4 DEF RecvBindFail, RecvBroken
<1>4. CASE CreateSender
  <2>1. createdNum' \in 0..NumSenders
    BY <1>4 DEF CreateSender
  <2> QED  BY <1>4, <2>1 DEF CreateSender
<1>5. ASSUME NEW t \in SendThreads, SendSucceeds(t) PROVE UdpIInv'
  <2>1. datagrams' \in 0..UdpQueueLen
    BY <1>5 DEF SendSucceeds
  <2> QED  BY <1>5, <2>1 DEF SendSucceeds
<1>6. ASSUME NEW t \in SendThreads, SendFails(t) PROVE UdpIInv'
  BY <1>6 DEF SendFails
<1>7. ASSUME NEW t \in SendThreads, SendClose(t) PROVE UdpIInv'
  <2>1. datagrams' \in 0..UdpQueueLen
    BY <1>7 DEF SendClose, CloseSocket
  <2>2. bound' \in BOOLEAN
    BY <1>7 DEF SendClose, CloseSocket
  <2>3. socketOf' = [socketOf EXCEPT ![3] = "free"]
    BY <1>7 DEF SendClose, CloseSocket
  <2> QED  BY <1>7, <2>1, <2>2, <2>3 DEF SendClose
<1>8. CASE UNCHANGED udpVars
  BY <1>8 DEF udpVars
<1> QED  BY <1>1, <1>2, <1>3, <1>4, <1>5, <1>6, <1>7, <1>8, <1>9
           DEF UdpNext, ThreadRecv, ThreadSend

LEMMA UdpIInvSafe == UdpIInv => RecvSocketSafe
  BY DEF UdpIInv, ReceiverApart, RecvSocketSafe

-----------------------------------------------------------------------------
(* Whichever program runs, each one's variables take its steps only.       *)
IInv == FifoIInv /\ UdpIInv

LEMMA InitIInv == Init => IInv
  BY FifoInitIInv, UdpInitIInv DEF Init, IInv

LEMMA NextIInv == IInv /\ [Next]_vars => IInv'
<1> SUFFICES ASSUME IInv, [Next]_vars PROVE IInv'
  OBVIOUS
<1>1. [FifoNext]_fifoVars /\ [UdpNext]_udpVars
  BY DEF Next, Meeting, Sending, vars
<1>2. FifoIInv'
  BY <1>1, FifoNextIInv DEF IInv
<1>3. UdpIInv'
  BY <1>1, UdpNextIInv DEF IInv
<1> QED  BY <1>2, <1>3 DEF IInv

(* The variables keep their types.                                         *)
THEOREM TypeCorrect == Spec => []TypeOK
<1>1. IInv => TypeOK
  BY DEF IInv, FifoIInv, UdpIInv, TypeOK
<1> QED  BY <1>1, InitIInv, NextIInv, PTL DEF Spec

(* With any number of processes under one name no FIFO stays behind, and   *)
(* without signals and early senders a receiver keeps its name.            *)
THEOREM NameOwned == Spec => []FifoNameOwned
<1>1. IInv => FifoNameOwned
  BY FifoIInvOwned DEF IInv
<1> QED  BY <1>1, InitIInv, NextIInv, PTL DEF Spec

(* However many senders close the shared socket, and however often, a      *)
(* receiver that was in time keeps its own.                                *)
THEOREM ReceiverKeepsSocket == Spec => []RecvSocketSafe
<1>1. IInv => RecvSocketSafe
  BY UdpIInvSafe DEF IInv
<1> QED  BY <1>1, InitIInv, NextIInv, PTL DEF Spec

(* The FIFO under its name and the socket under its number stay with their *)
(* receivers.                                                              *)
THEOREM ReceiversKeepTheirs == Spec => []NamesAndSocketsKept
  BY NameOwned, ReceiverKeepsSocket, PTL DEF NamesAndSocketsKept
=============================================================================
