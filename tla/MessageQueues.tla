--------------------------- MODULE MessageQueues ----------------------------
(***************************************************************************)
(* The programs of src/src/msgQueue that meet at a POSIX message queue:    *)
(* msgQueueTest (one function creates a queue, another sends numbered      *)
(* messages), msgQueueRecv (receives and counts, prints its totals at the  *)
(* end or on SIGINT) and msgQueueUnlink (removes the name: the queue lives *)
(* on in those who have it open, and is destroyed with its messages when   *)
(* there is nobody left).  The call of MsgQueueSendLoop() on line 165,     *)
(* which does not compile, gets its arguments.                             *)
(*                                                                         *)
(* A receiver offers mq_receive() a buffer of mq_maxmsg bytes (line 70),   *)
(* not of mq_msgsize: it receives nothing unless the queue has as many     *)
(* places as a message has bytes.                                          *)
(***************************************************************************)
EXTENDS Naturals, Sequences

CONSTANTS
    MqSenders, MqReceivers,  \* processes
    MqLoops,     \* [sendMsgNum], [max receive message number]
    MaxMsgNums,  \* [maxMsgNum] a queue may be created with
    MsgSize,     \* [maxMsgSize]
    MaxQueues    \* bound: queues created under the one name

ASSUME MqAssumption ==
    /\ MqLoops \in Nat /\ MaxMsgNums \subseteq Nat \ {0} /\ MsgSize \in Nat \ {0}
    /\ MaxQueues \in Nat /\ MqSenders \cap MqReceivers = {}

VARIABLES
    mqName,      \* the queue that has the name, 0: none
    mqs,         \* queue -> places, messages <<sender, times>>, and those
                 \* that were destroyed with it (history)
    mqSend,      \* sender -> pc, queue, times
    mqRecv,      \* receiver -> pc, queue, i, gTotalMsgNum, gTotalMsgLen
    shownTotals, \* receiver -> what DisplayResult() printed: <<>> or num, len
    taken        \* receiver -> messages mq_receive() returned (history)

mqVars == <<mqName, mqs, mqSend, mqRecv, shownTotals, taken>>

MqInit ==
    /\ mqName = 0 /\ mqs = <<>>
    /\ mqSend = [s \in MqSenders |-> [pc |-> "open", mq |-> 0, times |-> 0]]
    /\ mqRecv = [r \in MqReceivers |-> [pc |-> "open", mq |-> 0, i |-> 0, num |-> 0, len |-> 0]]
    /\ shownTotals = [r \in MqReceivers |-> <<>>] /\ taken = [r \in MqReceivers |-> <<>>]

-----------------------------------------------------------------------------
(* mq_open(O_CREAT) makes a queue if the name has none and opens it in any *)
(* case; the flags of its two descriptors are told apart and closed again. *)
CreateMsgQueue ==
    /\ IF mqName = 0
       THEN /\ Len(mqs) < MaxQueues
            /\ \E maxMsgNum \in MaxMsgNums :
                  mqs' = Append(mqs, [places |-> maxMsgNum, msgs |-> <<>>, lost |-> <<>>])
            /\ mqName' = Len(mqs')
       ELSE UNCHANGED <<mqs, mqName>>
    /\ UNCHANGED <<mqSend, mqRecv, shownTotals, taken>>

(* Who has a queue open.                                                   *)
Sending(s, q) == mqSend[s].pc = "send" /\ mqSend[s].mq = q
Receiving(r, q) == mqRecv[r].pc \notin {"open", "exit"} /\ mqRecv[r].mq = q

Held(q, leaving) ==
    \/ \E s \in MqSenders \ leaving : Sending(s, q)
    \/ \E r \in MqReceivers \ leaving : Receiving(r, q)

(* The kernel's part of a close or an unlink that may be the last.         *)
Destroyed(q) == [mqs EXCEPT ![q].msgs = <<>>, ![q].lost = mqs[q].msgs]

MsgQueueUnlink ==
    /\ mqName # 0 /\ mqName' = 0
    /\ mqs' = IF Held(mqName, {}) THEN mqs ELSE Destroyed(mqName)
    /\ UNCHANGED <<mqSend, mqRecv, shownTotals, taken>>

Closes(p, q) ==
    mqs' = IF q \in {0, mqName} \/ Held(q, {p}) THEN mqs ELSE Destroyed(q)

(* mq_open() without O_CREAT.                                              *)
SendOpen(s) ==
    /\ mqSend[s].pc = "open"
    /\ mqSend' = [mqSend EXCEPT ![s].pc = IF mqName = 0 THEN "exit" ELSE "send",
                                ![s].mq = mqName]
    /\ UNCHANGED <<mqName, mqs, mqRecv, shownTotals, taken>>

SendRestarted(s) ==  \* mutant: the number is not written into every message
    /\ mqSend[s].pc = "send" /\ mqSend[s].times < MqLoops
    /\ LET q == mqSend[s].mq
       IN /\ Len(mqs[q].msgs) < mqs[q].places
          /\ mqs' = [mqs EXCEPT ![q].msgs = Append(@, <<s, 0>>)]
          /\ mqSend' = [mqSend EXCEPT ![s].times = @ + 1]
    /\ UNCHANGED <<mqName, mqRecv, shownTotals, taken>>

(* One turn of MsgQueueSendLoop(), which waits for a place in the queue.   *)
MsgQueueSendLoop(s) ==
    /\ mqSend[s].pc = "send" /\ mqSend[s].times < MqLoops
    /\ LET q == mqSend[s].mq
       IN /\ Len(mqs[q].msgs) < mqs[q].places
          /\ mqs' = [mqs EXCEPT ![q].msgs = Append(@, <<s, mqSend[s].times>>)]
          /\ mqSend' = [mqSend EXCEPT ![s].times = @ + 1]
    /\ UNCHANGED <<mqName, mqRecv, shownTotals, taken>>

(* The loop is done; or mq_send() fails, with O_NONBLOCK if the queue is   *)
(* full; or the process is interrupted.                                    *)
SendEnds(s) ==
    /\ mqSend[s].pc = "send"
    /\ mqSend' = [mqSend EXCEPT ![s].pc = "exit"]
    /\ UNCHANGED <<mqName, mqRecv, shownTotals, taken>>
    /\ Closes(s, mqSend[s].mq)

RecvOpen(r) ==
    /\ mqRecv[r].pc = "open"
    /\ mqRecv' = [mqRecv EXCEPT ![r].pc = IF mqName = 0 THEN "exit" ELSE "recv",
                                ![r].mq = mqName]
    /\ UNCHANGED <<mqName, mqs, mqSend, shownTotals, taken>>

DisplayResult(r) ==
    shownTotals' = [shownTotals EXCEPT ![r] = <<mqRecv[r].num, mqRecv[r].len>>]

(* mq_receive() in a buffer of maxMsgLen = mq_maxmsg bytes: EMSGSIZE ends  *)
(* the loop.                                                               *)
MsgReceive(r) ==
    /\ mqRecv[r].pc = "recv" /\ mqRecv[r].i < MqLoops
    /\ LET q == mqRecv[r].mq  fits == mqs[q].places >= MsgSize
       IN /\ fits => mqs[q].msgs # <<>>
          /\ mqs' = IF fits THEN [mqs EXCEPT ![q].msgs = Tail(@)] ELSE mqs
          /\ taken' = IF fits THEN [taken EXCEPT ![r] = Append(@, Head(mqs[q].msgs))]
                              ELSE taken
          /\ mqRecv' = [mqRecv EXCEPT ![r].pc = IF fits THEN "num" ELSE "display"]
    /\ UNCHANGED <<mqName, mqSend, shownTotals>>

AddNum(r) ==
    /\ mqRecv[r].pc = "num"
    /\ mqRecv' = [mqRecv EXCEPT ![r].num = @ + 1, ![r].pc = "len"]
    /\ UNCHANGED <<mqName, mqs, mqSend, shownTotals, taken>>

AddLen(r) ==
    /\ mqRecv[r].pc = "len"
    /\ mqRecv' = [mqRecv EXCEPT ![r].len = @ + MsgSize, ![r].i = @ + 1, ![r].pc = "recv"]
    /\ UNCHANGED <<mqName, mqs, mqSend, shownTotals, taken>>

RecvLoopEnds(r) ==
    /\ mqRecv[r].pc = "display" \/ (mqRecv[r].pc = "recv" /\ mqRecv[r].i = MqLoops)
    /\ DisplayResult(r)
    /\ mqRecv' = [mqRecv EXCEPT ![r].pc = "exit"]
    /\ UNCHANGED <<mqName, mqSend, taken>>
    /\ Closes(r, mqRecv[r].mq)

(* SIGINT, between any two steps: the totals as they are, then the end.    *)
RecvSigHandler(r) ==
    /\ mqRecv[r].pc # "exit"
    /\ DisplayResult(r)
    /\ mqRecv' = [mqRecv EXCEPT ![r].pc = "exit"]
    /\ UNCHANGED <<mqName, mqSend, taken>>
    /\ Closes(r, mqRecv[r].mq)

MqNext ==
    \/ CreateMsgQueue \/ MsgQueueUnlink
    \/ \E s \in MqSenders : SendOpen(s) \/ MsgQueueSendLoop(s) \/ SendEnds(s)
    \/ \E r \in MqReceivers :
          \/ RecvOpen(r) \/ MsgReceive(r) \/ AddNum(r) \/ AddLen(r)
          \/ RecvLoopEnds(r) \/ RecvSigHandler(r)

-----------------------------------------------------------------------------
MqMessages == MqSenders \X (0..(MqLoops - 1))

MqTypeOK ==
    /\ mqs \in Seq([places : MaxMsgNums, msgs : Seq(MqMessages), lost : Seq(MqMessages)])
    /\ mqName \in 0..Len(mqs)
    /\ \A q \in 1..Len(mqs) : Len(mqs[q].msgs) <= mqs[q].places
    /\ mqSend \in [MqSenders -> [pc : {"open", "send", "exit"}, mq : 0..Len(mqs),
                                times : 0..MqLoops]]
    /\ mqRecv \in [MqReceivers -> [pc : {"open", "recv", "num", "len", "display", "exit"},
                                  mq : 0..Len(mqs), i : 0..MqLoops, num : 0..MqLoops,
                                  len : Nat]]
    /\ shownTotals \in [MqReceivers -> {<<>>} \cup (Nat \X Nat)]
    /\ taken \in [MqReceivers -> Seq(MqMessages)]

(* Whatever instant SIGINT picks, the totals printed are those of the      *)
(* messages received, but for one: it is in neither, or in the number and  *)
(* not in the length.                                                      *)
TotalsLagByOne ==
    \A r \in MqReceivers : shownTotals[r] # <<>> =>
        LET num == shownTotals[r][1]  len == shownTotals[r][2]  n == Len(taken[r])
        IN \/ num = n /\ len \in {n * MsgSize, (n - 1) * MsgSize}
           \/ num = n - 1 /\ len = num * MsgSize

(* Where messages are: a queue, the hands of a receiver, or nowhere.       *)
MqPlaces == ({"queue", "lost"} \X (1..Len(mqs))) \cup ({"taken"} \X MqReceivers)

MqAt(place) ==
    CASE place[1] = "queue" -> mqs[place[2]].msgs
      [] place[1] = "lost"  -> mqs[place[2]].lost
      [] place[1] = "taken" -> taken[place[2]]

(* The messages of a sender that are in its queue, were received, by       *)
(* whomever, or were destroyed are the numbers it counted, each once; and  *)
(* a receiver gets them in their order - though another receiver may have  *)
(* taken some, and the name may mean another queue by now.                 *)
EachOnceInOrder ==
    /\ \A s \in MqSenders, t \in 0..(MqLoops - 1) :
          t < mqSend[s].times <=> \E p \in MqPlaces : \E k \in DOMAIN MqAt(p) :
                                      MqAt(p)[k] = <<s, t>>
    /\ \A p, p2 \in MqPlaces : \A k \in DOMAIN MqAt(p), k2 \in DOMAIN MqAt(p2) :
          MqAt(p)[k] = MqAt(p2)[k2] => p = p2 /\ k = k2
    /\ \A p \in MqPlaces : \A j, k \in DOMAIN MqAt(p) :
          j < k /\ MqAt(p)[j][1] = MqAt(p)[k][1] => MqAt(p)[j][2] < MqAt(p)[k][2]

(* Messages are lost only with a queue that was unlinked and that nobody   *)
(* has open any more, and can open again; and they are the last ones: no   *)
(* receiver has got a later one of the same sender.                        *)
LostWithQueue ==
    \A q \in 1..Len(mqs) : mqs[q].lost # <<>> =>
        /\ q # mqName /\ ~Held(q, {})
        /\ \A k \in DOMAIN mqs[q].lost, r \in MqReceivers : \A j \in DOMAIN taken[r] :
              mqs[q].lost[k][1] = taken[r][j][1] => taken[r][j][2] < mqs[q].lost[k][2]
=============================================================================
