------------------------- MODULE NumberedDatagrams --------------------------
(***************************************************************************)
(* src/src/udp/udpPackageTcp.cpp: a sender puts a one-byte number into     *)
(* every datagram, a receiver counts the datagrams whose number does not   *)
(* follow the last one's.  The receiver also takes what                    *)
(* src/src/udp/udpSend.cpp sends to its port: text, whose first letter is  *)
(* read as a number.  Numbers are 0..SnoMod-1, 256 of them in the code, so *)
(* that a loss of SnoMod datagrams in a row is not seen.                   *)
(***************************************************************************)
EXTENDS Naturals, FiniteSets

CONSTANTS
    SnoMod,      \* size of the number space
    PACKET_NUM,  \* [packetNum] of the numbering sender
    TextNum,     \* [packetNum] of the text sender
    LetterA      \* 'a' as a number

ASSUME NumberAssumption ==
    /\ SnoMod \in Nat \ {0} /\ PACKET_NUM \in Nat /\ TextNum \in Nat
    /\ LetterA \in 0..(SnoMod - 1)

VARIABLES
    gPacketSend, textSend,   \* what the two senders have sent
    path,                    \* datagrams under way: <<sender, n>>
    gPacketRecv, gPacketError, oldSno,
    recvPc,                  \* "init", "recv", "killed", "crashed"
    lastSent, texts          \* place in its sender's order of the last numbered
                             \* datagram received, texts received (history)

numberVars == <<gPacketSend, textSend, path, gPacketRecv, gPacketError, oldSno,
                recvPc, lastSent, texts>>
receiver == <<gPacketRecv, gPacketError, oldSno, recvPc, lastSent, texts>>

NumberInit ==
    /\ gPacketSend = 0 /\ textSend = 0 /\ path = {}
    /\ gPacketRecv = 0 /\ gPacketError = 0 /\ oldSno = SnoMod - 1  \* 0xff
    /\ recvPc = "init" /\ lastSent = 0 /\ texts = 0

(* The loop runs while idx <= packetNum: one datagram more than asked for. *)
(* A sender may stop for good anywhere (send() fails).                     *)
UdpTest_Send ==
    /\ gPacketSend <= PACKET_NUM
    /\ path' = path \cup {<<"number", gPacketSend>>}
    /\ gPacketSend' = gPacketSend + 1
    /\ UNCHANGED <<textSend, receiver>>

UdpSend_Send ==
    /\ textSend < TextNum
    /\ path' = path \cup {<<"text", textSend>>}
    /\ textSend' = textSend + 1
    /\ UNCHANGED <<gPacketSend, receiver>>

(* SIGINT's handler is set, then the socket and the two files are opened.  *)
OpenReceiver ==
    /\ recvPc = "init" /\ recvPc' = "recv"
    /\ UNCHANGED <<gPacketSend, textSend, path, gPacketRecv, gPacketError, oldSno,
                   lastSent, texts>>

NumberIn(d) == IF d[1] = "number" THEN d[2] % SnoMod ELSE LetterA

ReceiveLater(newSno) ==  \* mutant: a gap is not counted, only a step back
    /\ gPacketRecv' = gPacketRecv + 1
    /\ gPacketError' = gPacketError
                       + IF newSno < (oldSno + 1) % SnoMod THEN 1 ELSE 0
    /\ oldSno' = newSno

Receive(newSno) ==
    /\ gPacketRecv' = gPacketRecv + 1
    /\ gPacketError' = gPacketError
                       + IF (oldSno + 1) % SnoMod # newSno THEN 1 ELSE 0
    /\ oldSno' = newSno

(* Datagrams arrive in any order, or never.                                *)
UdpPackageTcp_Receive ==
    /\ recvPc = "recv"
    /\ \E d \in path :
        /\ path' = path \ {d}
        /\ Receive(NumberIn(d))
        /\ IF d[1] = "number" THEN lastSent' = d[2] /\ UNCHANGED texts
                              ELSE texts' = texts + 1 /\ UNCHANGED lastSent
    /\ UNCHANGED <<gPacketSend, textSend, recvPc>>

(* The handler closes both files, which are NULL before they are opened,   *)
(* prints the two counts and lets the signal kill.                         *)
SigHandler ==
    /\ recvPc \in {"init", "recv"}
    /\ recvPc' = IF recvPc = "init" THEN "crashed" ELSE "killed"
    /\ UNCHANGED <<gPacketSend, textSend, path, gPacketRecv, gPacketError, oldSno,
                   lastSent, texts>>

NumberNext ==
    UdpTest_Send \/ UdpSend_Send \/ OpenReceiver \/ UdpPackageTcp_Receive \/ SigHandler

-----------------------------------------------------------------------------
NumberTypeOK ==
    /\ gPacketSend \in 0..(PACKET_NUM + 1) /\ textSend \in 0..TextNum
    /\ path \subseteq ({"number", "text"} \X (0..(PACKET_NUM + TextNum)))
    /\ gPacketRecv \in 0..(gPacketSend + textSend) /\ gPacketError \in 0..gPacketRecv
    /\ oldSno \in 0..(SnoMod - 1) /\ lastSent \in Nat /\ texts \in 0..textSend
    /\ recvPc \in {"init", "recv", "killed", "crashed"}

(* "error packet 0" says this much and no more: what was received and the  *)
(* sender's own count agree but for whole turns of the number, whatever    *)
(* was lost or swapped in between - and no text was among it, unless it    *)
(* came where the number of its letter was due.                            *)
CountFitsNumber ==
    gPacketError = 0 /\ gPacketRecv > 0 =>
        /\ gPacketRecv % SnoMod = (oldSno + 1) % SnoMod
        /\ texts = 0 => gPacketRecv % SnoMod = (lastSent + 1) % SnoMod
=============================================================================
