---------------------------- MODULE PingExchange ----------------------------
(***************************************************************************)
(* src/src/icmp/ping.cpp: one thread sends echo requests and polls         *)
(* gResFlag, another reads the raw socket, which gets every ICMP packet of *)
(* the host, sets the flag for any packet of the remote host and only then *)
(* looks whether it is an answer.  src/src/icmp/icmpTest.cpp is the same   *)
(* sender without the receiving thread.  Both are modelled with their      *)
(* statements that do not compile repaired (ShowResult() is never called;  *)
(* SendIcmpPacket() gets its arguments).                                   *)
(***************************************************************************)
EXTENDS InternetChecksum

CONSTANTS
    PING_NUM,     \* [packetNum]
    MaxPolls,     \* 4, the second loop of line 234
    Stamps,       \* values of the word of icmp_data that gettimeofday() fills
    MaxForeign    \* bound: ICMP packets that are not answers to this program

ASSUME PingAssumption ==
    /\ PING_NUM \in Nat /\ MaxPolls \in Nat /\ MaxForeign \in Nat
    /\ Stamps \subseteq 0..(Word - 1)

VARIABLES
    listening,               \* the receiving thread exists: ping, not icmpTest
    pingPc, pingIdx, polls,  \* sender
    gResFlag,
    requests,                \* requests at the remote host
    rawQueue,                \* ICMP packets in the raw socket
    recvIdx,                 \* the receiver's idx
    unpacking,               \* the packet in UnpackIcmpPacket(), if any
    foreign,                 \* foreign packets so far
    answered, overtimes      \* answers shown, requests called overtime (history)

pingVars == <<listening, pingPc, pingIdx, polls, gResFlag, requests, rawQueue,
              recvIdx, unpacking, foreign, answered, overtimes>>

PingInit ==
    /\ listening \in BOOLEAN
    /\ pingPc = "send" /\ pingIdx = 0 /\ polls = 0 /\ gResFlag = FALSE
    /\ requests = {} /\ rawQueue = {} /\ recvIdx = 0 /\ unpacking = {} /\ foreign = 0
    /\ answered = {} /\ overtimes = {}

(* ICMP_ECHO and code 0, checksum 0, id, number, time and letters: the     *)
(* checksum goes where the 0 was.                                          *)
SetIcmpHead(packetSno, stamp) ==
    LET letter == Word - 2
        sno == packetSno % Word   \* icmp_seq is a word, idx an int
        cksum == CalcCheckSum(<<8 % Word, 0, 1, sno, stamp, letter>>)
    IN [seq |-> packetSno,
        words |-> <<8 % Word, cksum, 1, sno, stamp, letter>>]

-----------------------------------------------------------------------------
(* sendto(), then usleep(); a request that cannot be sent is passed over.  *)
SendRequest ==
    /\ listening /\ pingPc = "send" /\ pingIdx < PING_NUM
    /\ \/ /\ \E stamp \in Stamps : requests' = requests \cup {SetIcmpHead(pingIdx, stamp)}
          /\ pingPc' = "poll" /\ UNCHANGED pingIdx
       \/ pingIdx' = pingIdx + 1 /\ UNCHANGED <<requests, pingPc>>
    /\ polls' = 0
    /\ UNCHANGED <<listening, gResFlag, rawQueue, recvIdx, unpacking, foreign,
                   answered, overtimes>>

PollBlind ==  \* mutant: overtime without the last look at the flag
    /\ pingPc = "poll"
    /\ IF polls = MaxPolls
       THEN pingPc' = "overtime" /\ UNCHANGED polls
       ELSE IF gResFlag THEN pingPc' = "clear" /\ UNCHANGED polls
                        ELSE polls' = polls + 1 /\ UNCHANGED pingPc
    /\ UNCHANGED <<listening, pingIdx, gResFlag, requests, rawQueue, recvIdx,
                   unpacking, foreign, answered, overtimes>>

(* Up to MaxPolls looks at the flag with a usleep() after each, and a last *)
(* one: the request is given up if the flag is still down.                 *)
Poll ==
    /\ pingPc = "poll"
    /\ IF gResFlag THEN pingPc' = "clear" /\ UNCHANGED polls
       ELSE IF polls < MaxPolls THEN polls' = polls + 1 /\ UNCHANGED pingPc
       ELSE pingPc' = "overtime" /\ UNCHANGED polls
    /\ UNCHANGED <<listening, pingIdx, gResFlag, requests, rawQueue, recvIdx,
                   unpacking, foreign, answered, overtimes>>

(* "icmp response overtime." - the receiver may have run since the look.   *)
SayOvertime ==
    /\ pingPc = "overtime"
    /\ overtimes' = overtimes \cup {pingIdx} /\ pingPc' = "clear"
    /\ UNCHANGED <<listening, pingIdx, polls, gResFlag, requests, rawQueue, recvIdx,
                   unpacking, foreign, answered>>

(* gResFlag = false in front of the next turn: an answer that came since   *)
(* the last look is forgotten.                                             *)
ClearFlag ==
    /\ pingPc = "clear"
    /\ gResFlag' = FALSE /\ pingIdx' = pingIdx + 1 /\ pingPc' = "send"
    /\ UNCHANGED <<listening, polls, requests, rawQueue, recvIdx, unpacking, foreign,
                   answered, overtimes>>

(* Without a receiving thread nobody raises the flag: a turn of icmpTest   *)
(* ends overtime, or sendto() fails.                                       *)
SendAlone ==
    /\ ~listening /\ pingIdx < PING_NUM
    /\ \/ \E stamp \in Stamps :
            /\ requests' = requests \cup {SetIcmpHead(pingIdx, stamp)}
            /\ overtimes' = overtimes \cup {pingIdx}
       \/ UNCHANGED <<requests, overtimes>>
    /\ pingIdx' = pingIdx + 1
    /\ UNCHANGED <<listening, pingPc, polls, gResFlag, rawQueue, recvIdx, unpacking,
                   foreign, answered>>

(* main() returns when the sender has ended: the receiver dies with it.    *)
Sending == pingIdx < PING_NUM

(* A packet of the remote host raises the flag, whatever it is; a failing  *)
(* recvfrom() takes a turn as well.                                        *)
RecvIcmpPacket ==
    /\ listening /\ Sending /\ recvIdx < PING_NUM /\ unpacking = {}
    /\ \/ \E p \in rawQueue :
            /\ rawQueue' = rawQueue \ {p}
            /\ IF p.remote THEN gResFlag' = TRUE /\ unpacking' = {p} /\ UNCHANGED recvIdx
                           ELSE recvIdx' = recvIdx + 1 /\ UNCHANGED <<gResFlag, unpacking>>
       \/ recvIdx' = recvIdx + 1 /\ UNCHANGED <<rawQueue, gResFlag, unpacking>>
    /\ UNCHANGED <<listening, pingPc, pingIdx, polls, requests, foreign, answered, overtimes>>

(* An answer is ours if type and id say so, and is shown.                  *)
UnpackIcmpPacket ==
    /\ Sending
    /\ \E p \in unpacking :
        answered' = IF p.own THEN answered \cup {p.seq} ELSE answered
    /\ unpacking' = {} /\ recvIdx' = recvIdx + 1
    /\ UNCHANGED <<listening, pingPc, pingIdx, polls, gResFlag, requests, rawQueue,
                   foreign, overtimes>>

(* The remote host answers what has a good checksum, late or never; other  *)
(* ICMP packets reach the raw socket as well.                              *)
RemoteAnswers ==
    /\ \E q \in requests :
        /\ Verifies(q.words)
        /\ requests' = requests \ {q}
        /\ rawQueue' = rawQueue \cup {[remote |-> TRUE, own |-> TRUE, seq |-> q.seq]}
    /\ UNCHANGED <<listening, pingPc, pingIdx, polls, gResFlag, recvIdx, unpacking, foreign,
                   answered, overtimes>>

ForeignPacket ==
    /\ foreign < MaxForeign /\ foreign' = foreign + 1
    /\ \E remote \in BOOLEAN :
        rawQueue' = rawQueue \cup {[remote |-> remote, own |-> FALSE, seq |-> foreign]}
    /\ UNCHANGED <<listening, pingPc, pingIdx, polls, gResFlag, requests, recvIdx, unpacking,
                   answered, overtimes>>

PingNext ==
    \/ SendRequest \/ Poll \/ SayOvertime \/ ClearFlag \/ SendAlone
    \/ RecvIcmpPacket \/ UnpackIcmpPacket \/ RemoteAnswers \/ ForeignPacket

-----------------------------------------------------------------------------
PingTypeOK ==
    /\ listening \in BOOLEAN /\ gResFlag \in BOOLEAN
    /\ pingPc \in {"send", "poll", "overtime", "clear"}
    /\ pingIdx \in 0..PING_NUM /\ polls \in 0..MaxPolls /\ recvIdx \in 0..PING_NUM
    /\ requests \subseteq [seq: 0..PING_NUM, words: Seq(0..(Word - 1))]
    /\ rawQueue \cup unpacking \subseteq [remote: BOOLEAN, own: BOOLEAN, seq: Nat]
    /\ foreign \in 0..MaxForeign
    /\ answered \subseteq 0..PING_NUM /\ overtimes \subseteq 0..PING_NUM

(* A request is given up as overtime (line 245) only if its answer has not *)
(* been shown: between two threads with one flag, which any packet of the  *)
(* host raises, this rests on clearing it before the request goes out and  *)
(* on raising it before the answer is shown.  Line 247 prints later: the   *)
(* answer may be shown in between, and "overtime" said after it.           *)
OvertimeIsSilence ==
    [][pingPc' = "overtime" /\ pingPc # "overtime" => pingIdx \notin answered]_pingVars

(* Whatever number and time go into a request, the remote host finds its   *)
(* checksum right.                                                         *)
RequestsVerify == \A q \in requests : Verifies(q.words)
=============================================================================
