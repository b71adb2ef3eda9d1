-------------------------- MODULE OrderedDatagrams --------------------------
(***************************************************************************)
(* src/src/udp/udpOrderSendRecv.cpp: transmitters number their datagrams,  *)
(* a receiver checks the numbers per transmitter index and counts packets  *)
(* and errors in two alternating counters; a second thread adds the        *)
(* counter it swapped out to the totals, and the SIGINT handler closes the *)
(* record of errors, prints the totals and lets the signal kill.           *)
(*                                                                         *)
(* InitInetSocket() ends with an exit() behind a debugging printf          *)
(* (line 563): leftover says whether those lines are compiled in.  The 64- *)
(* and 32-bit counters do not wrap within the bounds; an increment through *)
(* gpRxAllDataPer is one step, it ends within UPDATE_CONFLICT_TIME_S of    *)
(* reading the pointer (StatisticsDouble has the version with time).  The  *)
(* counts of bytes are left out: only the rates use them.                  *)
(***************************************************************************)
EXTENDS Naturals, Totals

CONSTANTS
    Transmitters,        \* transmitting processes
    Indexes,             \* what they may get as [threadIdx]
    MAX_SEND_THREAD_NUM, \* the receiver has a state for 0..this-1
    SendSizes,           \* subset of {"full", "part", "byte", "empty"}: with
                         \* all six bytes of the header, with two to five,
                         \* with one, without any
    MaxNumbered,         \* bound: datagrams in a behaviour
    MaxTwice             \* bound: datagrams the network delivers twice

ASSUME OrderAssumption ==
    /\ Indexes \subseteq Nat /\ MAX_SEND_THREAD_NUM \in Nat \ {0}
    /\ SendSizes \subseteq {"full", "part", "byte", "empty"}
    /\ MaxNumbered \in Nat /\ MaxTwice \in Nat

Tids == 0..(MAX_SEND_THREAD_NUM - 1)

VARIABLES
    leftover,       \* the exit() of line 563 is there
    tx,             \* transmitter -> tid, sno (also gTxAllData.txAllPacket)
    wire, twice,    \* datagrams under way, deliveries repeated
    rx,             \* receiver: pc, and tid, sno: the header in recvBuf,
                    \* which is the argument of CheckSno() as well
    gRxThdData,     \* index -> expectSno, rxPaceket, rxError
    gRxAllDataPer, gDataPerIdx, gRxAllData, countPc, \* the two counters, the
                    \* current one, the totals, the counting thread
    errLog,         \* gErrFd: "null", "open", "closed"
    handler,        \* signal handler: "none", the thread in it, "crashed"
    misuse,         \* written to gErrFd after its fclose() (history)
    came,           \* datagrams that came (history)
    charged         \* index -> how many were checked under it, whether
                    \* numbered 0, 1, 2, ..., whether all with a whole
                    \* header (history)

orderVars == <<leftover, tx, wire, twice, rx, gRxThdData, gRxAllDataPer,
               gDataPerIdx, gRxAllData, countPc, errLog, handler, misuse, came, charged>>

rxOnly == <<rx, gRxThdData, gRxAllDataPer, gDataPerIdx, gRxAllData, countPc,
            errLog, handler, misuse, came, charged>>
countOnly == <<gRxAllDataPer, gDataPerIdx, gRxAllData, countPc>>

Zero == [packets |-> 0, errors |-> 0]
Bak == 1 - gDataPerIdx                               \* gDataPerIdxChange

OrderInit ==
    /\ leftover \in BOOLEAN
    /\ tx \in [Transmitters -> [tid: Indexes, sno: {0}]]
    /\ wire = {} /\ twice = 0
    /\ rx = [pc |-> "init", tid |-> 0, sno |-> 0]
    /\ gRxThdData = [t \in Tids |-> [expectSno |-> 0, rxPaceket |-> 0, rxError |-> 0]]
    /\ gRxAllDataPer = [i \in 0..1 |-> Zero] /\ gDataPerIdx = 0
    /\ gRxAllData = Zero /\ countPc = "none"
    /\ errLog = "null" /\ handler = "none" /\ misuse = FALSE
    /\ came = 0
    /\ charged = [t \in Tids |-> [count |-> 0, inOrder |-> TRUE, whole |-> TRUE]]

-----------------------------------------------------------------------------
SentBy == [s \in Transmitters |-> tx[s].sno]
Alive == handler # "crashed" /\ rx.pc # "end"    \* the receiver

(* A transmitter: signals, the counting thread (it only prints), CPU and   *)
(* priority, socket and connect(), then one turn of the loop: the number   *)
(* goes into the header, the length is one of gRandSendLen, the datagram   *)
(* into the network.  A transmitter whose send() failed, that has sent     *)
(* packetNum datagrams or was killed takes no further step.                *)
TxSend(s) ==
    /\ ~leftover
    /\ Total(SentBy) < MaxNumbered
    /\ \E size \in SendSizes :
          wire' = wire \cup {[from |-> s, tid |-> tx[s].tid,
                              sno |-> tx[s].sno, size |-> size]}
    /\ tx' = [tx EXCEPT ![s].sno = @ + 1]
    /\ UNCHANGED <<leftover, twice, rxOnly>>

-----------------------------------------------------------------------------
(* The receiving process.  A handler stops the thread it runs in.          *)

MainRuns == Alive /\ handler # "main"

(* InitInetSocket(), InitCheckSno() and the counting thread.               *)
RxStart ==
    /\ MainRuns /\ rx.pc = "init"
    /\ IF leftover THEN rx' = [rx EXCEPT !.pc = "end"] /\ UNCHANGED <<errLog, countPc>>
                   ELSE /\ rx' = [rx EXCEPT !.pc = "recv"]
                        /\ errLog' = "open" /\ countPc' = "swap"
    /\ UNCHANGED <<leftover, tx, wire, twice, gRxThdData, gRxAllDataPer,
                   gDataPerIdx, gRxAllData, handler, misuse, came, charged>>

(* A number whose last bytes, those below b, are still of the old one.     *)
Byte == 256
Mixed(new, old, b) == (new \div b) * b + (old % b)

(* What may be in recvBuf when a datagram has been copied into it: the     *)
(* bytes that it does not have are those of the datagrams before, so that  *)
(* one of a single byte leaves the low half of another index.              *)
Header(d) ==
    [tid: {IF d.size = "byte" THEN Mixed(d.tid, rx.tid, Byte) ELSE d.tid},
     sno: CASE d.size = "full" -> {d.sno}
            [] d.size = "part" ->
                  {rx.sno} \cup {Mixed(d.sno, rx.sno, b) :
                                    b \in {Byte, Byte * Byte, Byte * Byte * Byte}}
            [] OTHER -> {rx.sno}]

Longer(was, d) ==
    [count |-> was.count + 1,
     inOrder |-> was.inOrder /\ d.sno = was.count,
     whole |-> was.whole /\ d.size = "full"]

PacketCame(d) ==
    /\ came' = came + 1
    /\ \E h \in Header(d) :
          /\ rx' = [pc |-> "count", tid |-> h.tid, sno |-> h.sno]
          /\ charged' = [t \in Tids |-> IF t = h.tid THEN Longer(charged[t], d)
                                                    ELSE charged[t]]

(* A datagram without a byte is taken for the end of the connection.       *)
NetDown ==
    /\ rx' = [rx EXCEPT !.pc = "end"]
    /\ UNCHANGED <<came, charged>>

(* Any datagram under way may be the next one, once more later, or never.  *)
Recv ==
    /\ MainRuns /\ rx.pc = "recv"
    /\ \E d \in wire :
        /\ IF d.size = "empty" THEN NetDown ELSE PacketCame(d)
        /\ \/ wire' = wire \ {d} /\ UNCHANGED twice
           \/ twice < MaxTwice /\ twice' = twice + 1 /\ UNCHANGED wire
    /\ UNCHANGED <<leftover, tx, gRxThdData, countOnly, errLog, handler, misuse>>

(* recvfrom() returns -1: "net broken".                                    *)
RecvFail ==
    /\ MainRuns /\ rx.pc = "recv"
    /\ NetDown
    /\ UNCHANGED <<leftover, tx, wire, twice, gRxThdData, countOnly, errLog,
                   handler, misuse>>

(* The packet is counted before its number is looked at.                   *)
CountPacket ==
    /\ MainRuns /\ rx.pc = "count"
    /\ rx' = [rx EXCEPT !.pc = "check"]
    /\ gRxAllDataPer' = [gRxAllDataPer EXCEPT ![gDataPerIdx].packets = @ + 1]
    /\ UNCHANGED <<leftover, tx, wire, twice, gRxThdData, gDataPerIdx, gRxAllData,
                   countPc, errLog, handler, misuse, came, charged>>

(* A line is written to gErrFd.                                            *)
Record == misuse' = (misuse \/ errLog = "closed")

(* CheckSno() begins: an index that is too large is only recorded, an      *)
(* unexpected number counted for all, an expected one recorded if          *)
(* gOpenRightSnoRecord says so.                                            *)
CheckSno ==
    /\ MainRuns /\ rx.pc = "check"
    /\ \/ /\ rx.tid \notin Tids
          /\ rx' = [rx EXCEPT !.pc = "recv"]
          /\ Record /\ UNCHANGED gRxAllDataPer
       \/ /\ rx.tid \in Tids /\ gRxThdData[rx.tid].expectSno # rx.sno
          /\ rx' = [rx EXCEPT !.pc = "error"]
          /\ gRxAllDataPer' = [gRxAllDataPer EXCEPT ![gDataPerIdx].errors = @ + 1]
          /\ UNCHANGED misuse
       \/ /\ rx.tid \in Tids /\ gRxThdData[rx.tid].expectSno = rx.sno
          /\ rx' = [rx EXCEPT !.pc = "expect"]
          /\ Record \/ UNCHANGED misuse
          /\ UNCHANGED gRxAllDataPer
    /\ UNCHANGED <<leftover, tx, wire, twice, gRxThdData, gDataPerIdx, gRxAllData,
                   countPc, errLog, handler, came, charged>>

(* The unexpected number is counted for its index and recorded.            *)
CountError ==
    /\ MainRuns /\ rx.pc = "error"
    /\ rx' = [rx EXCEPT !.pc = "expect"]
    /\ gRxThdData' = [gRxThdData EXCEPT ![rx.tid].rxError = @ + 1]
    /\ Record
    /\ UNCHANGED <<leftover, tx, wire, twice, countOnly, errLog, handler, came,
                   charged>>

(* CheckSno() ends: the next number expected is the one after this one.    *)
Expect ==
    /\ MainRuns /\ rx.pc = "expect"
    /\ rx' = [rx EXCEPT !.pc = "recv"]
    /\ gRxThdData' = [gRxThdData EXCEPT ![rx.tid].rxPaceket = @ + 1,
                                        ![rx.tid].expectSno = rx.sno + 1]
    /\ UNCHANGED <<leftover, tx, wire, twice, countOnly, errLog, handler, misuse,
                   came, charged>>

UpdateTwoFrom(c) == \* mutant: the counter swapped out is cleared
    /\ c = "swap"
    /\ gRxAllDataPer' = [gRxAllDataPer EXCEPT ![gDataPerIdx] = Zero]
    /\ gDataPerIdx' = Bak /\ countPc' = "addPackets" /\ UNCHANGED gRxAllData

(* UpdateRxDataPer() clears the counter at rest and makes it current.      *)
UpdateRxDataPer(c) ==
    /\ c = "swap"
    /\ gRxAllDataPer' = [gRxAllDataPer EXCEPT ![Bak] = Zero]
    /\ gDataPerIdx' = Bak /\ countPc' = "addPackets" /\ UNCHANGED gRxAllData

(* sleep(UPDATE_CONFLICT_TIME_S), then the counts of the counter swapped   *)
(* out are added one by one.                                               *)
AddPackets(c) ==
    /\ c = "addPackets"
    /\ gRxAllData' = [gRxAllData EXCEPT !.packets = @ + gRxAllDataPer[Bak].packets]
    /\ countPc' = "addErrors" /\ UNCHANGED <<gRxAllDataPer, gDataPerIdx>>

AddErrors(c) ==
    /\ c = "addErrors"
    /\ gRxAllData' = [gRxAllData EXCEPT !.errors = @ + gRxAllDataPer[Bak].errors]
    /\ countPc' = "swap" /\ UNCHANGED <<gRxAllDataPer, gDataPerIdx>>

ThreadRecvCount ==
    /\ Alive /\ handler # "count"
    /\ UpdateRxDataPer(countPc) \/ AddPackets(countPc) \/ AddErrors(countPc)
    /\ UNCHANGED <<leftover, tx, wire, twice, rx, gRxThdData, errLog, handler,
                   misuse, came, charged>>

(* SIGINT finds either thread: the record of errors is closed, the totals  *)
(* are printed and the default action of the signal kills the process,     *)
(* which then takes no further step.  Before InitCheckSno() gErrFd is      *)
(* NULL, which fclose() does not survive.                                  *)
RxSigHandler(thread) ==
    /\ Alive /\ handler = "none"
    /\ thread = "count" => countPc # "none"
    /\ IF errLog = "null" THEN handler' = "crashed" /\ UNCHANGED errLog
                          ELSE handler' = thread /\ errLog' = "closed"
    /\ UNCHANGED <<leftover, tx, wire, twice, rx, gRxThdData, countOnly, misuse,
                   came, charged>>

OrderNext ==
    \/ \E s \in Transmitters : TxSend(s)
    \/ RxStart \/ Recv \/ RecvFail \/ CountPacket
    \/ CheckSno \/ CountError \/ Expect \/ ThreadRecvCount
    \/ \E thread \in {"main", "count"} : RxSigHandler(thread)

-----------------------------------------------------------------------------
OrderTypeOK ==
    /\ leftover \in BOOLEAN /\ twice \in 0..MaxTwice /\ misuse \in BOOLEAN
    /\ tx \in [Transmitters -> [tid: Indexes, sno: 0..MaxNumbered]]
    /\ wire \subseteq [from: Transmitters, tid: Indexes, sno: 0..MaxNumbered,
                       size: {"full", "part", "byte", "empty"}]
    /\ rx \in [pc: {"init", "recv", "count", "check", "error", "expect", "end"},
               tid: Nat, sno: Nat]
    /\ came \in Nat
    /\ charged \in [Tids -> [count: Nat, inOrder: BOOLEAN, whole: BOOLEAN]]
    /\ gRxThdData \in [Tids -> [expectSno: Nat, rxPaceket: Nat, rxError: Nat]]
    /\ gRxAllDataPer \in [0..1 -> [packets: Nat, errors: Nat]] /\ gDataPerIdx \in 0..1
    /\ gRxAllData \in [packets: Nat, errors: Nat]
    /\ countPc \in {"none", "swap", "addPackets", "addErrors"} /\ errLog \in {"null", "open", "closed"}
    /\ handler \in {"none", "main", "count", "crashed"}

(* What the totals lack of either count, and the errors by index.          *)
PacketsBehind ==
    IF countPc = "addPackets"
    THEN gRxAllDataPer[0].packets + gRxAllDataPer[1].packets
    ELSE gRxAllDataPer[gDataPerIdx].packets
ErrorsBehind ==
    IF countPc \in {"addPackets", "addErrors"}
    THEN gRxAllDataPer[0].errors + gRxAllDataPer[1].errors
    ELSE gRxAllDataPer[gDataPerIdx].errors
Wrong == [t \in Tids |-> gRxThdData[t].rxError]

(* At every moment, however the threads and the signal interleave, each of *)
(* the two totals lacks what is in the counters not yet added to it, and   *)
(* the packet or the error that is just being counted (lines 233 and 705), *)
(* and nothing else is lost or counted twice.  Line 645 reads the two one  *)
(* after the other: between lines 488 and 490 it finds packets without     *)
(* their errors.                                                           *)
TotalsAgree ==
    /\ gRxAllData.packets + PacketsBehind + (IF rx.pc = "count" THEN 1 ELSE 0) = came
    /\ gRxAllData.errors + ErrorsBehind = Total(Wrong) + (IF rx.pc = "error" THEN 1 ELSE 0)

(* An index under which only packets with a whole header were checked has  *)
(* no error if and only if they were numbered 0, 1, 2, ..., whoever sent   *)
(* them and whatever the network lost, swapped or repeated.  Nothing is    *)
(* said of an index under which a shorter one was checked: it has a number *)
(* of another packet, and of a single byte the index as well, so that an   *)
(* error may be charged to an index whose own packets all came in order.   *)
CleanMeansInOrder ==
    \A t \in Tids :
        charged[t].whole /\ (rx.tid # t \/ rx.pc \in {"init", "recv", "end"})
        => (gRxThdData[t].rxError = 0 <=> charged[t].inOrder)

(* The record of errors is written after the handler closed it only when   *)
(* the signal found the counting thread: the handler of line 640 is safe   *)
(* in the thread it interrupts.                                            *)
MisuseNeedsCountThread == [][misuse' /\ ~misuse => handler = "count"]_orderVars
=============================================================================
