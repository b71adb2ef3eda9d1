-------------------------- MODULE MessagePrograms --------------------------
(***************************************************************************)
(* The small programs that pass messages over a FIFO or a datagram socket; *)
(* one of them runs, the variables of the other keep their initial values. *)
(* main() does not call UdpMuliSendOneRecv() at this commit, although      *)
(* config.h has its macro: it needs its call.                              *)
(*                                                                         *)
(* Fairness: a process or thread that can take a step is scheduled at some *)
(* time.  A send() may fail and SIGINT may come, but neither has to.       *)
(***************************************************************************)
EXTENDS FifoChannel, UdpSenders

VARIABLE program   \* the macro that is 1

vars == <<program, fifoVars, udpVars>>

Init ==
    /\ program \in {"FIFOTEST_CPP", "UDPMULISENDONERECV_CPP"}
    /\ FifoInit /\ UdpInit

Meeting(Step) ==
    /\ program = "FIFOTEST_CPP" /\ Step
    /\ UNCHANGED <<program, udpVars>>

Sending(Step) ==
    /\ program = "UDPMULISENDONERECV_CPP" /\ Step
    /\ UNCHANGED <<program, fifoVars>>

Next == Meeting(FifoNext) \/ Sending(UdpNext)

Fairness ==
    /\ \A p \in Processes : WF_vars(Meeting(FifoStep(p)))
    /\ WF_vars(Sending(CreateSender))
    /\ \A t \in SendThreads : WF_vars(Sending(ThreadSend(t)))

Spec == Init /\ [][Next]_vars /\ Fairness

(* The variables of both programs have their types.                        *)
TypeOK == FifoTypeOK /\ UdpTypeOK

(* What one process or thread may not take from another: the FIFO under    *)
(* its name, the socket under its number (fifoTest.cpp:31,                 *)
(* udpMuliSendOneRecv.cpp:182).                                            *)
NamesAndSocketsKept == FifoNameOwned /\ RecvSocketSafe

(* A receiver ends on SIGINT, and the senders stop after one failure.      *)
EverybodyStops == EndsAfterSigint /\ AllSendersStop
=============================================================================
