--------------------------- MODULE MsgQueueSched ---------------------------
(***************************************************************************)
(* src/src/msgQueue/msgQueueSchedTime.cpp: a thread sends the numbers of a *)
(* POSIX message queue to another thread of the program and stores the     *)
(* time in gBeginTime after each mq_send(); the receiver takes a message   *)
(* and calls the time since gBeginTime the use time of that message.       *)
(*                                                                         *)
(* All messages have one priority, so that the queue is first-in first-out *)
(* and holds the messages from received + 1 to sent.  The queue is never   *)
(* unlinked: messages of an earlier run, numbered 0, -1, ..., may be in it *)
(* at the start.  A queue that is found may have messages of another size: *)
(* mq_send() or mq_receive() fails then, is complained of, and the time is *)
(* taken all the same.  A time is the number of the message after which it *)
(* was taken, 0 one nobody took.  gBeginTime is two words, which           *)
(* gettimeofday() writes one by one.                                       *)
(***************************************************************************)
EXTENDS Integers

CONSTANTS
    MAX_MSG_NUM,  \* capacity of the queue
    MaxSent       \* bound: messages sent

ASSUME MsgQueueAssumption ==
    MAX_MSG_NUM \in Nat \ {0} /\ MaxSent \in Nat

VARIABLES
    sent,      \* number of the last message sent
    received,  \* number of the last message received: idx[recvData]
    sendPc,    \* where ThreadSendMsg is
    recvPc,    \* where ThreadRecvMsg is
    beginSec, beginUsec,  \* gBeginTime
    readSec, readUsec     \* what EndCntTime() has read of it

queueVars == <<sent, received, sendPc, recvPc, beginSec, beginUsec, readSec, readUsec>>

QueueInit ==
    /\ sent = 0
    /\ received \in -MAX_MSG_NUM..0
    /\ sendPc = "send" /\ recvPc = "receive"
    /\ beginSec = 0 /\ beginUsec = 0
    /\ readSec = 0 /\ readUsec = 0

Queued == sent - received

Send ==
    /\ sendPc = "send" /\ sent < MaxSent
    /\ Queued < MAX_MSG_NUM
    /\ sent' = sent + 1
    /\ sendPc' = "stamp sec"
    /\ UNCHANGED <<received, recvPc, beginSec, beginUsec, readSec, readUsec>>

SendFail ==
    /\ sendPc = "send"
    /\ sendPc' = "stamp sec"
    /\ UNCHANGED <<sent, received, recvPc, beginSec, beginUsec, readSec, readUsec>>

StampSec ==
    /\ sendPc = "stamp sec"
    /\ beginSec' = sent
    /\ sendPc' = "stamp usec"
    /\ UNCHANGED <<sent, received, recvPc, beginUsec, readSec, readUsec>>

StampUsec ==
    /\ sendPc = "stamp usec"
    /\ beginUsec' = sent
    /\ sendPc' = "send"
    /\ UNCHANGED <<sent, received, recvPc, beginSec, readSec, readUsec>>

(* mutant: the time is taken before mq_send().                            *)
ThreadSendMsgEarly ==
    \/ /\ sendPc = "send" /\ sent < MaxSent
       /\ beginSec' = sent + 1 /\ sendPc' = "stamp sec"
       /\ UNCHANGED <<sent, received, recvPc, beginUsec, readSec, readUsec>>
    \/ /\ sendPc = "stamp sec"
       /\ beginUsec' = sent + 1 /\ sendPc' = "stamp usec"
       /\ UNCHANGED <<sent, received, recvPc, beginSec, readSec, readUsec>>
    \/ /\ sendPc = "stamp usec" /\ Queued < MAX_MSG_NUM
       /\ sent' = sent + 1 /\ sendPc' = "send"
       /\ UNCHANGED <<received, recvPc, beginSec, beginUsec, readSec, readUsec>>

ThreadSendMsg == Send \/ SendFail \/ StampSec \/ StampUsec

Receive ==
    /\ recvPc = "receive" /\ Queued > 0
    /\ received' = received + 1
    /\ recvPc' = "read sec"
    /\ UNCHANGED <<sent, sendPc, beginSec, beginUsec, readSec, readUsec>>

(* mq_receive() fails: recvData is still that of the last message.         *)
ReceiveFail ==
    /\ recvPc = "receive"
    /\ recvPc' = "read sec"
    /\ UNCHANGED <<sent, received, sendPc, beginSec, beginUsec, readSec, readUsec>>

ReadSec ==
    /\ recvPc = "read sec"
    /\ readSec' = beginSec
    /\ recvPc' = "read usec"
    /\ UNCHANGED <<sent, received, sendPc, beginSec, beginUsec, readUsec>>

ReadUsec ==
    /\ recvPc = "read usec"
    /\ readUsec' = beginUsec
    /\ recvPc' = "receive"
    /\ UNCHANGED <<sent, received, sendPc, beginSec, beginUsec, readSec>>

ThreadRecvMsg == Receive \/ ReceiveFail \/ ReadSec \/ ReadUsec

QueueNext == ThreadSendMsg \/ ThreadRecvMsg

QueueSpec == QueueInit /\ [][QueueNext]_queueVars

-----------------------------------------------------------------------------
QueueTypeOK ==
    /\ sent \in Nat /\ received \in Int
    /\ sendPc \in {"send", "stamp sec", "stamp usec"}
    /\ recvPc \in {"receive", "read sec", "read usec"}
    /\ beginSec \in Nat /\ beginUsec \in Nat
    /\ readSec \in Nat /\ readUsec \in Nat

(* What the message last received is measured against.  Each word of       *)
(* gBeginTime comes from a stamp taken after the message before it at the  *)
(* earliest, and at the latest after the one as many places behind it as   *)
(* the queue has, whatever calls fail.  Nothing was stamped yet at most    *)
(* until the first message of this run has been received, and its time is  *)
(* then the one since 1970.                                                *)
Near(stamp) ==
    IF stamp = 0 THEN received <= 1
    ELSE stamp \in (received - 1)..(received + MAX_MSG_NUM)

(* The two words need not come from one stamp.  The microseconds can be    *)
(* those of the stamp before that of the seconds, or of one as many stamps *)
(* later as the queue has places, and one more; the use time shown is then *)
(* off from both by up to the whole seconds between them.                  *)
TornBy(back, ahead) == readUsec' \in (readSec - back)..(readSec + ahead)

StampNear == [][
    /\ ReadSec => Near(readSec')
    /\ ReadUsec => Near(readUsec') /\ TornBy(1, MAX_MSG_NUM + 1)]_queueVars
=============================================================================
