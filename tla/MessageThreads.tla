--------------------------- MODULE MessageThreads ---------------------------
(***************************************************************************)
(* Two programs of src/src/msgQueue whose threads share a message queue.   *)
(*                                                                         *)
(* msgQueueSAROneProcess.cpp: main() starts a sending thread every six     *)
(* seconds; each allocates a buffer, but all keep its address in the one   *)
(* gSendBuf, and send what gSendBuf points to when they come to it.        *)
(*                                                                         *)
(* msgQueueAttr.cpp: a thread takes O_NONBLOCK from the queue's descriptor *)
(* and gives it back while main() receives; another sends one message.     *)
(* Sleeping takes time, which is not counted: it orders nothing.           *)
(***************************************************************************)
EXTENDS Naturals, Sequences

CONSTANTS SarSenders,  \* sending threads of msgQueueSAROneProcess
          gTimes       \* [times]

ASSUME ThreadsAssumption == gTimes \in Nat

VARIABLES
    sarPc, sarTimes,   \* sending thread -> pc, messages sent
    gSendBuf,          \* whose buffer it points to
    bufs,              \* thread -> its buffer: "none", or filled, terminated
    sarQueue, sarGot,  \* kinds of the messages in the queue, and received:
                       \* "text", "junk", "old" of an earlier run
    overlap,           \* a thread allocated while another was at work (history)
    attrQueue,         \* messages in the queue of msgQueueAttr
    attrNonblock, attrChanges, attrSent, attrPc, attrGot

sarVars == <<sarPc, sarTimes, gSendBuf, bufs, sarQueue, sarGot, overlap>>
attrVars == <<attrQueue, attrNonblock, attrChanges, attrSent, attrPc, attrGot>>

(* A queue that an earlier run left behind may still hold its messages:    *)
(* nobody removes the name, and O_CREAT opens what there is.               *)
SarInit ==
    /\ sarPc = [t \in SarSenders |-> "open"] /\ sarTimes = [t \in SarSenders |-> 0]
    /\ gSendBuf \in SarSenders
    /\ bufs = [t \in SarSenders |-> [filled |-> FALSE, terminated |-> FALSE]]
    /\ sarQueue \in {<<>>, <<"old">>} /\ sarGot = {} /\ overlap = FALSE

AttrInit ==
    /\ attrQueue \in 0..1 /\ attrNonblock = TRUE /\ attrChanges = 0 /\ attrSent = FALSE
    /\ attrPc = "call" /\ attrGot = 0

-----------------------------------------------------------------------------
Working(t) == sarPc[t] \in {"fill", "terminate", "send"}

SarMalloc(t) ==
    /\ sarPc[t] = "open" /\ sarPc' = [sarPc EXCEPT ![t] = "fill"]
    /\ gSendBuf' = t
    /\ overlap' = (overlap \/ \E u \in SarSenders \ {t} : Working(u))
    /\ UNCHANGED <<sarTimes, bufs, sarQueue, sarGot>>

(* memset() and the 0 at the end, wherever gSendBuf points by then.        *)
SarFill(t) ==
    /\ sarPc[t] = "fill" /\ sarPc' = [sarPc EXCEPT ![t] = "terminate"]
    /\ bufs' = [bufs EXCEPT ![gSendBuf] = [filled |-> TRUE, terminated |-> FALSE]]
    /\ UNCHANGED <<sarTimes, gSendBuf, sarQueue, sarGot, overlap>>

SarTerminate(t) ==
    /\ sarPc[t] = "terminate" /\ sarPc' = [sarPc EXCEPT ![t] = "send"]
    /\ bufs' = [bufs EXCEPT ![gSendBuf].terminated = TRUE]
    /\ UNCHANGED <<sarTimes, gSendBuf, sarQueue, sarGot, overlap>>

(* mq_send() of strlen(gSendBuf) bytes, its result is not looked at: a     *)
(* buffer that is not ready gives any bytes and any length, and what is    *)
(* too long for the queue, which an earlier run may have made, nothing.    *)
SarSend(t) ==
    /\ sarPc[t] = "send" /\ sarTimes[t] < gTimes
    /\ LET ready == bufs[gSendBuf].filled /\ bufs[gSendBuf].terminated
       IN \/ sarQueue' = Append(sarQueue, IF ready THEN "text" ELSE "junk")
          \/ UNCHANGED sarQueue
    /\ sarTimes' = [sarTimes EXCEPT ![t] = @ + 1]
    /\ UNCHANGED <<sarPc, gSendBuf, bufs, sarGot, overlap>>

SarEnds(t) ==
    /\ sarPc[t] = "send" /\ sarTimes[t] = gTimes
    /\ sarPc' = [sarPc EXCEPT ![t] = "end"]
    /\ UNCHANGED <<sarTimes, gSendBuf, bufs, sarQueue, sarGot, overlap>>

SarReceive ==
    /\ sarQueue # <<>> /\ sarQueue' = Tail(sarQueue)
    /\ sarGot' = sarGot \cup {Head(sarQueue)}
    /\ UNCHANGED <<sarPc, sarTimes, gSendBuf, bufs, overlap>>

SarNext ==
    \/ \E t \in SarSenders :
          SarMalloc(t) \/ SarFill(t) \/ SarTerminate(t) \/ SarSend(t) \/ SarEnds(t)
    \/ SarReceive

-----------------------------------------------------------------------------
AttrTakes == attrQueue' = attrQueue - 1 /\ attrGot' = attrGot + 1 /\ attrPc' = "call"

(* mq_receive() looks at the flag once, when it finds the queue empty: it  *)
(* fails, and is called again a second later, or blocks for a message.     *)
AttrReceive ==
    /\ \/ attrPc = "call" /\ attrQueue > 0 /\ AttrTakes
       \/ attrPc = "blocked" /\ attrQueue > 0 /\ AttrTakes
       \/ /\ attrPc = "call" /\ attrQueue = 0 /\ ~attrNonblock
          /\ attrPc' = "blocked" /\ UNCHANGED <<attrQueue, attrGot>>
    /\ UNCHANGED <<attrNonblock, attrChanges, attrSent>>

ThreadChangeAttr ==
    /\ attrChanges < 2 /\ attrChanges' = attrChanges + 1
    /\ attrNonblock' = (attrChanges = 1)
    /\ UNCHANGED <<attrQueue, attrSent, attrPc, attrGot>>

(* One place in the queue: the message waits for it, or is lost if the     *)
(* flag says so.                                                           *)
AttrSend ==
    /\ ~attrSent /\ (attrQueue = 0 \/ attrNonblock)
    /\ attrSent' = TRUE
    /\ attrQueue' = 1
    /\ UNCHANGED <<attrNonblock, attrChanges, attrPc, attrGot>>

AttrNext == AttrReceive \/ ThreadChangeAttr \/ AttrSend

-----------------------------------------------------------------------------
SarTypeOK ==
    /\ \A t \in SarSenders : /\ sarPc[t] \in {"open", "fill", "terminate", "send", "end"}
                             /\ sarTimes[t] \in 0..gTimes
    /\ gSendBuf \in SarSenders /\ sarGot \subseteq {"text", "junk", "old"}
    /\ overlap \in BOOLEAN
AttrTypeOK ==
    /\ attrQueue \in 0..1 /\ attrChanges \in 0..2 /\ attrGot \in 0..2
    /\ attrPc \in {"call", "blocked"}

(* What a thread of this run has sent and the receiver gets is the text    *)
(* that was filled in, as long as every sending thread ends before the     *)
(* next one starts: sleep(6) against [times] * [sleepTime] is all that     *)
(* keeps gSendBuf in one hand.  What an earlier run left in the queue is   *)
(* received as well, whatever it is.                                       *)
JunkNeedsOverlap == "junk" \in sarGot => overlap

(* The receiver of msgQueueAttr gets every message, also one it has begun  *)
(* to wait for before O_NONBLOCK came back.                                *)
AttrDelivers == attrQueue > 0 ~> attrQueue = 0
=============================================================================
