----------------------- MODULE NetworkPrograms_proofs -----------------------
(***************************************************************************)
(* Proofs about the programs of NetworkPrograms, for any number of         *)
(* transmitters, hosts, clients and datagrams.  Each program has its own   *)
(* inductive invariant; a behaviour of NetworkPrograms is one of each of   *)
(* them, idle but for the program that was built.                          *)
(***************************************************************************)
EXTENDS NetworkPrograms, FiniteSetTheorems, SequenceTheorems, WellFoundedInduction, TLAPS

-----------------------------------------------------------------------------
(* ArpExchange.                                                            *)

(* A host that answers in the queue has claimed the address.               *)
QueueClaimed ==
    \A i \in DOMAIN arpQueue : IsAnswer(arpQueue[i]) => arpQueue[i].sha \in claims

(* A turn that has begun is not one too many.                              *)
TurnsCounted ==
    IF arpEndless
    THEN arpPc \in {"send", "recv"}
    ELSE arpPc \in {"recv", "add"} => loops < MAX_ARP_REQUEST_TIMES

(* The address is entered by the last step only, and a host claimed it.    *)
EntryClaimed ==
    /\ arpPc = "add" => dstMacAddr \in claims
    /\ arpPc # "done" => arpTable = NoMac
    /\ arpTable # NoMac => arpTable = dstMacAddr /\ arpTable \in claims
    /\ arpStatus = "success" <=> arpTable # NoMac

ArpIInv == ArpTypeOK /\ QueueClaimed /\ TurnsCounted /\ EntryClaimed

LEMMA ArpInitIInv == ArpInit => ArpIInv
  BY ArpAssumption
  DEF ArpInit, ArpIInv, ArpTypeOK, QueueClaimed, TurnsCounted, EntryClaimed

(* What is read from the queue came from a host.                           *)
LEMMA ArpHead ==
    ASSUME ArpTypeOK, QueueClaimed, arpQueue # <<>>
    PROVE  /\ Head(arpQueue) \in ArpPack /\ Head(arpQueue).sha \in ArpMacs
           /\ IsAnswer(Head(arpQueue)) => Head(arpQueue).sha \in claims
           /\ Tail(arpQueue) \in Seq(ArpPack) /\ Len(Tail(arpQueue)) <= ArpQueueLen
           /\ \A i \in DOMAIN Tail(arpQueue) :
                 IsAnswer(Tail(arpQueue)[i]) => Tail(arpQueue)[i].sha \in claims
<1> USE ArpAssumption
<1>1. /\ arpQueue \in Seq(ArpPack) /\ Len(arpQueue) <= ArpQueueLen
      /\ \A i \in DOMAIN arpQueue : IsAnswer(arpQueue[i]) => arpQueue[i].sha \in claims
  BY Zenon DEF ArpTypeOK, QueueClaimed
<1>2. /\ Len(arpQueue) \in Nat /\ Len(arpQueue) >= 1
      /\ Head(arpQueue) = arpQueue[1] /\ 1 \in DOMAIN arpQueue
      /\ Len(Tail(arpQueue)) = Len(arpQueue) - 1
      /\ DOMAIN Tail(arpQueue) = 1 .. Len(arpQueue) - 1
      /\ \A i \in 1 .. Len(arpQueue) - 1 :
            Tail(arpQueue)[i] = arpQueue[i + 1] /\ i + 1 \in DOMAIN arpQueue
  BY <1>1
<1>3. Head(arpQueue) \in ArpPack /\ Tail(arpQueue) \in Seq(ArpPack)
  BY <1>1
<1>4. Head(arpQueue).sha \in ArpMacs
  BY <1>3 DEF ArpPack
<1> QED  BY <1>1, <1>2, <1>3, <1>4

LEMMA ArpNextIInv == ASSUME ArpIInv, [ArpNext]_arpVars PROVE ArpIInv'
<1> USE ArpAssumption DEF ArpIInv
<1>1. CASE ArpPacketArrives
  <2>1. PICK p \in ArpPack :
           /\ arpQueue' = Append(arpQueue, p) /\ Len(arpQueue) < ArpQueueLen
           /\ claims' = IF IsAnswer(p) THEN claims \cup {p.sha} ELSE claims
           /\ UNCHANGED <<arpEndless, arpPc, loops, dstMacAddr, arpTable, arpStatus>>
    BY <1>1 DEF ArpPacketArrives
  <2>2. /\ claims \subseteq claims' /\ claims' \subseteq ArpMacs
        /\ IsAnswer(p) => p.sha \in claims'
    BY <2>1 DEF ArpTypeOK, ArpPack
  <2>3. /\ arpQueue \in Seq(ArpPack) /\ Len(arpQueue') = Len(arpQueue) + 1
        /\ arpQueue' \in Seq(ArpPack) /\ arpQueue'[Len(arpQueue) + 1] = p
        /\ DOMAIN arpQueue' = DOMAIN arpQueue \cup {Len(arpQueue) + 1}
        /\ \A i \in DOMAIN arpQueue : arpQueue'[i] = arpQueue[i]
    BY <2>1 DEF ArpTypeOK
  <2>4. ArpTypeOK'
    BY <2>1, <2>2, <2>3 DEF ArpTypeOK
  <2>5. QueueClaimed'
    <3>1. ASSUME NEW i \in DOMAIN arpQueue'
          PROVE  IsAnswer(arpQueue'[i]) => arpQueue'[i].sha \in claims'
      <4>1. CASE i \in DOMAIN arpQueue
        BY <4>1, <2>2, <2>3 DEF QueueClaimed
      <4>2. CASE i = Len(arpQueue) + 1
        BY <4>2, <2>2, <2>3
      <4> QED  BY <3>1, <4>1, <4>2, <2>3
    <3> QED  BY <3>1 DEF QueueClaimed, IsAnswer
  <2>6. TurnsCounted' /\ EntryClaimed'
    BY <2>1, <2>2 DEF TurnsCounted, EntryClaimed
  <2> QED  BY <2>4, <2>5, <2>6
<1>2. CASE SendArpPack
  <2>1. ArpTypeOK'
    BY <1>2 DEF SendArpPack, NextTurn, ArpTypeOK, TurnsCounted
  <2>2. TurnsCounted'
    BY <1>2 DEF SendArpPack, NextTurn, ArpTypeOK, TurnsCounted
  <2>3. EntryClaimed' /\ QueueClaimed'
    BY <1>2 DEF SendArpPack, NextTurn, QueueClaimed, EntryClaimed, IsAnswer
  <2> QED  BY <2>1, <2>2, <2>3
<1>3. CASE RecvArpPack
  <2>1. /\ ~arpEndless /\ arpPc = "recv" /\ arpQueue # <<>>
        /\ arpQueue' = Tail(arpQueue)
        /\ UNCHANGED <<arpEndless, loops, arpTable, arpStatus, claims>>
    BY <1>3 DEF RecvArpPack
  <2>2. \/ UNCHANGED <<dstMacAddr, arpPc>>
        \/ /\ IsAnswer(Head(arpQueue)) /\ arpPc' = "add"
           /\ dstMacAddr' = Head(arpQueue).sha
    BY <1>3 DEF RecvArpPack
  <2>3. ArpTypeOK'
    BY <2>1, <2>2, ArpHead DEF ArpTypeOK
  <2>4. QueueClaimed'
    BY <2>1, ArpHead DEF QueueClaimed, IsAnswer
  <2>5. TurnsCounted'
    BY <2>1, <2>2 DEF TurnsCounted
  <2>6. EntryClaimed'
    BY <2>1, <2>2, ArpHead DEF EntryClaimed
  <2> QED  BY <2>3, <2>4, <2>5, <2>6
<1>4. CASE RecvNothing \/ AddEntry \/ GiveUp
  <2>1. ArpTypeOK'
    BY <1>4 DEF RecvNothing, AddEntry, GiveUp, NextTurn, ArpTypeOK, TurnsCounted
  <2>2. TurnsCounted'
    BY <1>4 DEF RecvNothing, AddEntry, GiveUp, NextTurn, ArpTypeOK, TurnsCounted
  <2>3. EntryClaimed'
    BY <1>4 DEF RecvNothing, AddEntry, GiveUp, NextTurn, EntryClaimed, ArpTypeOK
  <2>4. QueueClaimed'
    BY <1>4 DEF RecvNothing, AddEntry, GiveUp, QueueClaimed, IsAnswer
  <2> QED  BY <2>1, <2>2, <2>3, <2>4
<1>5. CASE RecvAndShow
  <2>1. /\ arpEndless /\ arpPc = "recv" /\ arpPc' = "send" /\ loops' = loops
        /\ UNCHANGED <<arpEndless, arpTable, arpStatus, claims>>
    BY <1>5 DEF RecvAndShow, NextTurn
  <2>2. \/ UNCHANGED <<arpQueue, dstMacAddr>>
        \/ /\ arpQueue # <<>> /\ arpQueue' = Tail(arpQueue)
           /\ dstMacAddr' \in {Head(arpQueue).sha, dstMacAddr}
    BY <1>5 DEF RecvAndShow
  <2>3. ArpTypeOK'
    BY <2>1, <2>2, ArpHead DEF ArpTypeOK
  <2>4. QueueClaimed'
    BY <2>1, <2>2, ArpHead DEF QueueClaimed, IsAnswer
  <2>5. TurnsCounted' /\ EntryClaimed'
    BY <2>1 DEF TurnsCounted, EntryClaimed
  <2> QED  BY <2>3, <2>4, <2>5
<1>6. CASE UNCHANGED arpVars
  BY <1>6
  DEF arpVars, ArpTypeOK, QueueClaimed, TurnsCounted, EntryClaimed, IsAnswer
<1> QED  BY <1>1, <1>2, <1>3, <1>4, <1>5, <1>6 DEF ArpNext

LEMMA ArpInvAnswers == ArpIInv => ArpAnswered
  BY Zenon DEF ArpIInv, EntryClaimed, ArpAnswered

-----------------------------------------------------------------------------
(* The remainder of the next number.                                       *)

LEMMA Division ==
    ASSUME NEW m \in Int, m > 0, NEW a \in Int
    PROVE  /\ a \div m \in Int /\ a % m \in 0 .. m - 1
           /\ a = m * (a \div m) + (a % m)
  OBVIOUS

LEMMA DivisionUnique ==
    ASSUME NEW m \in Int, m > 0, NEW q \in Int, NEW p \in Int,
           NEW r \in 0 .. m - 1, NEW s \in 0 .. m - 1, m * q + r = m * p + s
    PROVE  q = p /\ r = s
<1>1. CASE p = q
  BY <1>1
<1>2. CASE p > q
  <2>1. m * p >= m * (q + 1) /\ m * (q + 1) = m * q + m
    BY <1>2
  <2> QED  BY <2>1
<1>3. CASE p < q
  <2>1. m * q >= m * (p + 1) /\ m * (p + 1) = m * p + m
    BY <1>3
  <2> QED  BY <2>1
<1> QED  BY <1>1, <1>2, <1>3

LEMMA NextRemainder ==
    ASSUME NEW m \in Int, m > 0, NEW a \in Int
    PROVE  (a + 1) % m = IF a % m = m - 1 THEN 0 ELSE (a % m) + 1
<1> DEFINE q == a \div m  r == a % m  p == (a + 1) \div m  s == (a + 1) % m
<1>1. /\ a = m * q + r /\ a + 1 = m * p + s /\ q \in Int /\ p \in Int
      /\ r \in 0 .. m - 1 /\ s \in 0 .. m - 1
  BY Division
<1> HIDE DEF q, r, p, s
<1>2. CASE r = m - 1
  <2>1. m * p + s = m * (q + 1) + 0
    BY <1>1, <1>2
  <2>2. s = 0
    BY <1>1, <2>1, DivisionUnique
  <2> QED  BY <1>2, <2>2 DEF r, s
<1>3. CASE r # m - 1
  <2>1. m * p + s = m * q + (r + 1) /\ r + 1 \in 0 .. m - 1
    BY <1>1, <1>3
  <2>2. s = r + 1
    BY <1>1, <2>1, DivisionUnique
  <2> QED  BY <1>3, <2>2 DEF r, s
<1> QED  BY <1>2, <1>3

LEMMA SameRemainder ==
    ASSUME NEW m \in Int, m > 0, NEW a \in Int, NEW b \in Int, a % m = b % m
    PROVE  (a + 1) % m = (b + 1) % m
<1>1. (a + 1) % m = IF a % m = m - 1 THEN 0 ELSE (a % m) + 1
  BY NextRemainder
<1>2. (b + 1) % m = IF b % m = m - 1 THEN 0 ELSE (b % m) + 1
  BY NextRemainder
<1> QED  BY <1>1, <1>2

LEMMA SmallRemainder ==
    ASSUME NEW m \in Int, m > 0, NEW a \in 0 .. m - 1 PROVE a % m = a
  OBVIOUS

-----------------------------------------------------------------------------
(* NumberedDatagrams.                                                      *)

(* A datagram under way has been sent, and is not received yet.            *)
PathFits ==
    /\ \A d \in path : \/ d[1] = "number" /\ d[2] < gPacketSend
                       \/ d[1] = "text" /\ d[2] < textSend
    /\ IsFiniteSet(path)
    /\ gPacketRecv + Cardinality(path) <= gPacketSend + textSend

TextsUnderWay == {d \in path : d[1] = "text"}

TextsFit == texts + Cardinality(TextsUnderWay) <= textSend

(* Without an error so far the count and the last number agree, and the    *)
(* last number is that of the last datagram if no text was received.       *)
InStep ==
    /\ gPacketError = 0 => gPacketRecv % SnoMod = (oldSno + 1) % SnoMod
    /\ gPacketRecv > 0 /\ texts = 0 => oldSno = lastSent % SnoMod

NumberIInv == NumberTypeOK /\ PathFits /\ TextsFit /\ InStep

LEMMA NumberConstants ==
    /\ SnoMod \in Int /\ SnoMod > 0 /\ PACKET_NUM \in Int /\ PACKET_NUM >= 0
    /\ TextNum \in Int /\ TextNum >= 0 /\ LetterA \in 0 .. (SnoMod - 1)
  BY NumberAssumption

LEMMA NumberInitIInv == NumberInit => NumberIInv
<1> SUFFICES ASSUME NumberInit PROVE NumberIInv
  OBVIOUS
<1> USE NumberConstants DEF NumberInit
<1>1. NumberTypeOK
  BY DEF NumberTypeOK
<1>2. TextsUnderWay = {}
  BY DEF TextsUnderWay
<1>3. PathFits /\ TextsFit
  BY <1>2, FS_EmptySet DEF PathFits, TextsFit
<1>4. InStep
  <2>1. (SnoMod - 1) % SnoMod = SnoMod - 1
    BY SmallRemainder
  <2>2. (SnoMod - 1 + 1) % SnoMod = 0 /\ 0 % SnoMod = 0
    BY <2>1, NextRemainder, SmallRemainder
  <2> QED  BY <2>2 DEF InStep
<1> QED  BY <1>1, <1>3, <1>4 DEF NumberIInv

(* The sets of datagrams under way are finite and have a size.             *)
LEMMA PathSizes ==
    ASSUME PathFits
    PROVE  /\ IsFiniteSet(TextsUnderWay) /\ Cardinality(TextsUnderWay) \in Nat
           /\ Cardinality(path) \in Nat /\ TextsUnderWay \subseteq path
<1>1. TextsUnderWay \subseteq path /\ IsFiniteSet(path)
  BY DEF TextsUnderWay, PathFits
<1> QED  BY <1>1, FS_Subset, FS_CardinalityType

(* A number that is received.                                              *)
LEMMA ReceivedInStep ==
    ASSUME NumberTypeOK, InStep, NEW sno \in 0 .. SnoMod - 1, Receive(sno)
    PROVE  /\ gPacketError' = 0 => gPacketRecv' % SnoMod = (oldSno' + 1) % SnoMod
           /\ gPacketError' \in 0 .. gPacketRecv' /\ oldSno' = sno
           /\ gPacketRecv' = gPacketRecv + 1 /\ gPacketRecv' \in Nat
<1> USE NumberConstants
<1>1. /\ gPacketRecv \in Int /\ gPacketRecv >= 0 /\ oldSno \in 0 .. SnoMod - 1
      /\ gPacketError \in 0 .. gPacketRecv
  BY DEF NumberTypeOK
<1>2. /\ gPacketRecv' = gPacketRecv + 1 /\ oldSno' = sno
      /\ (oldSno + 1) % SnoMod = sno => gPacketError' = gPacketError
      /\ (oldSno + 1) % SnoMod # sno => gPacketError' = gPacketError + 1
  BY <1>1 DEF Receive
<1>3. gPacketError' \in 0 .. gPacketRecv'
  BY <1>1, <1>2
<1>4. ASSUME gPacketError' = 0
      PROVE  gPacketRecv' % SnoMod = (oldSno' + 1) % SnoMod
  <2>1. gPacketError = 0 /\ (oldSno + 1) % SnoMod = sno
    BY <1>1, <1>2, <1>4
  <2>2. gPacketRecv % SnoMod = sno
    BY <2>1 DEF InStep
  <2>3. sno % SnoMod = sno
    BY SmallRemainder
  <2>4. gPacketRecv % SnoMod = sno % SnoMod /\ sno \in Int
    BY <2>2, <2>3
  <2>5. (gPacketRecv + 1) % SnoMod = (sno + 1) % SnoMod
    BY <1>1, <2>4, SameRemainder, Zenon
  <2> QED  BY <1>2, <2>5
<1> QED  BY <1>1, <1>2, <1>3, <1>4

LEMMA NumberNextIInv == ASSUME NumberIInv, [NumberNext]_numberVars PROVE NumberIInv'
<1> USE NumberConstants DEF NumberIInv
<1>0. /\ gPacketSend \in Int /\ gPacketSend >= 0 /\ textSend \in Int /\ textSend >= 0
      /\ gPacketRecv \in Int /\ gPacketRecv >= 0 /\ texts \in Int /\ texts >= 0
      /\ Cardinality(path) \in Nat /\ Cardinality(TextsUnderWay) \in Nat
      /\ IsFiniteSet(path) /\ IsFiniteSet(TextsUnderWay)
  BY PathSizes DEF NumberTypeOK, PathFits
<1>1. CASE UdpTest_Send
  <2> DEFINE d == <<"number", gPacketSend>>
  <2>1. /\ path' = path \cup {d} /\ gPacketSend' = gPacketSend + 1
        /\ gPacketSend <= PACKET_NUM /\ UNCHANGED <<textSend, receiver>>
    BY <1>1 DEF UdpTest_Send
  <2>2. d \notin path /\ TextsUnderWay' = TextsUnderWay
    BY <1>0, <2>1 DEF PathFits, TextsUnderWay
  <2>3. IsFiniteSet(path)' /\ Cardinality(path)' = Cardinality(path) + 1
    BY <1>0, <2>1, <2>2, FS_AddElement
  <2>4. NumberTypeOK'
    BY <1>0, <2>1 DEF receiver, NumberTypeOK
  <2>a. \A e \in path' : \/ e[1] = "number" /\ e[2] < gPacketSend'
                         \/ e[1] = "text" /\ e[2] < textSend'
    <3> SUFFICES ASSUME NEW e \in path, e # d
                 PROVE  \/ e[1] = "number" /\ e[2] < gPacketSend'
                        \/ e[1] = "text" /\ e[2] < textSend'
      BY <1>0, <2>1
    <3>1. e[2] \in Int
      BY DEF NumberTypeOK
    <3> QED  BY <1>0, <2>1, <3>1 DEF PathFits
  <2>5. PathFits'
    BY <1>0, <2>1, <2>3, <2>a DEF receiver, PathFits
  <2>6. TextsFit' /\ InStep'
    BY <2>1, <2>2 DEF receiver, TextsFit, InStep
  <2> QED  BY <2>4, <2>5, <2>6
<1>2. CASE UdpSend_Send
  <2> DEFINE d == <<"text", textSend>>
  <2>1. /\ path' = path \cup {d} /\ textSend' = textSend + 1
        /\ textSend < TextNum /\ UNCHANGED <<gPacketSend, receiver>>
    BY <1>2 DEF UdpSend_Send
  <2>2. d \notin path /\ d \notin TextsUnderWay
        /\ TextsUnderWay' = TextsUnderWay \cup {d}
    BY <1>0, <2>1 DEF PathFits, TextsUnderWay
  <2>3. /\ IsFiniteSet(path)' /\ Cardinality(path)' = Cardinality(path) + 1
        /\ Cardinality(TextsUnderWay)' = Cardinality(TextsUnderWay) + 1
    BY <1>0, <2>1, <2>2, FS_AddElement
  <2>4. NumberTypeOK'
    BY <1>0, <2>1 DEF receiver, NumberTypeOK
  <2>a. \A e \in path' : \/ e[1] = "number" /\ e[2] < gPacketSend'
                         \/ e[1] = "text" /\ e[2] < textSend'
    <3> SUFFICES ASSUME NEW e \in path, e # d
                 PROVE  \/ e[1] = "number" /\ e[2] < gPacketSend'
                        \/ e[1] = "text" /\ e[2] < textSend'
      BY <1>0, <2>1
    <3>1. e[2] \in Int
      BY DEF NumberTypeOK
    <3> QED  BY <1>0, <2>1, <3>1 DEF PathFits
  <2>5. PathFits'
    BY <1>0, <2>1, <2>3, <2>a DEF receiver, PathFits
  <2>6. TextsFit' /\ InStep'
    BY <1>0, <2>1, <2>3 DEF receiver, TextsFit, InStep
  <2> QED  BY <2>4, <2>5, <2>6
<1>3. CASE UdpPackageTcp_Receive
  <2>1. PICK d \in path :
          /\ path' = path \ {d} /\ Receive(NumberIn(d))
          /\ IF d[1] = "number" THEN lastSent' = d[2] /\ UNCHANGED texts
                                ELSE texts' = texts + 1 /\ UNCHANGED lastSent
          /\ UNCHANGED <<gPacketSend, textSend, recvPc>>
    BY <1>3 DEF UdpPackageTcp_Receive
  <2>2. /\ d \in {"number", "text"} \X (0..(PACKET_NUM + TextNum))
        /\ d[1] \in {"number", "text"} /\ d[2] \in Int /\ d[2] >= 0
    BY <2>1 DEF NumberTypeOK
  <2>3. NumberIn(d) \in 0 .. SnoMod - 1
    BY <2>2, Division DEF NumberIn
  <2>4. /\ gPacketError' = 0 => gPacketRecv' % SnoMod = (oldSno' + 1) % SnoMod
        /\ gPacketError' \in 0 .. gPacketRecv' /\ oldSno' = NumberIn(d)
        /\ gPacketRecv' = gPacketRecv + 1 /\ gPacketRecv' \in Nat
    BY <2>1, <2>3, ReceivedInStep
  <2>5. IsFiniteSet(path)' /\ Cardinality(path)' = Cardinality(path) - 1
    BY <1>0, <2>1, FS_RemoveElement
  <2>6. PathFits'
    BY <1>0, <2>1, <2>4, <2>5 DEF PathFits
  <2>7. TextsFit' /\ texts' \in 0 .. textSend'
    <3>1. CASE d[1] = "number"
      <4>1. TextsUnderWay' = TextsUnderWay /\ texts' = texts
        BY <2>1, <3>1 DEF TextsUnderWay
      <4> QED  BY <2>1, <4>1 DEF TextsFit, NumberTypeOK
    <3>2. CASE d[1] = "text"
      <4>1. /\ TextsUnderWay' = TextsUnderWay \ {d} /\ d \in TextsUnderWay
            /\ texts' = texts + 1
        BY <2>1, <3>2 DEF TextsUnderWay
      <4>2. /\ Cardinality(TextsUnderWay)' = Cardinality(TextsUnderWay) - 1
            /\ Cardinality(TextsUnderWay)' \in Nat
        BY <1>0, <4>1, FS_RemoveElement, FS_CardinalityType
      <4> QED  BY <1>0, <2>1, <4>1, <4>2 DEF TextsFit
    <3> QED  BY <2>2, <3>1, <3>2
  <2>8. NumberTypeOK'
    <3>1. gPacketRecv' \in 0 .. (gPacketSend' + textSend')
      <4>1. Cardinality(path)' \in Nat
        BY <2>5, FS_CardinalityType
      <4> QED  BY <1>0, <2>4, <2>6, <4>1, <2>1 DEF PathFits
    <3>2. lastSent' \in Nat
      BY <2>1, <2>2 DEF NumberTypeOK
    <3> QED  BY <2>1, <2>3, <2>4, <2>7, <3>1, <3>2 DEF NumberTypeOK
  <2>9. InStep'
    <3>1. ASSUME texts' = 0 PROVE oldSno' = lastSent' % SnoMod
      <4>1. d[1] = "number"
        BY <1>0, <2>1, <2>2, <3>1
      <4> QED  BY <2>1, <2>4, <4>1 DEF NumberIn
    <3> QED  BY <2>4, <3>1 DEF InStep
  <2> QED  BY <2>6, <2>7, <2>8, <2>9
<1>4. CASE OpenReceiver \/ SigHandler \/ UNCHANGED numberVars
  <2>1. UNCHANGED <<gPacketSend, textSend, path, gPacketRecv, gPacketError,
                    oldSno, lastSent, texts>>
        /\ recvPc' \in {"init", "recv", "killed", "crashed"}
    BY <1>4 DEF OpenReceiver, SigHandler, numberVars, NumberTypeOK
  <2> QED  BY <2>1 DEF NumberTypeOK, PathFits, TextsUnderWay, TextsFit, InStep
<1> QED  BY <1>1, <1>2, <1>3, <1>4 DEF NumberNext

LEMMA NumberInvFits == NumberIInv => CountFitsNumber
<1> SUFFICES ASSUME NumberIInv, gPacketError = 0, gPacketRecv > 0, texts = 0
             PROVE  gPacketRecv % SnoMod = (lastSent + 1) % SnoMod
  BY DEF NumberIInv, InStep, CountFitsNumber
<1>1. gPacketRecv % SnoMod = (oldSno + 1) % SnoMod /\ oldSno = lastSent % SnoMod
  BY DEF NumberIInv, InStep
<1>2. lastSent \in Int /\ oldSno \in 0 .. SnoMod - 1
  BY DEF NumberIInv, NumberTypeOK
<1>3. oldSno % SnoMod = oldSno
  BY <1>2, NumberConstants, SmallRemainder
<1>4. lastSent % SnoMod = oldSno % SnoMod /\ oldSno \in Int
  BY <1>1, <1>2, <1>3
<1>5. (lastSent + 1) % SnoMod = (oldSno + 1) % SnoMod
  BY <1>2, <1>4, NumberConstants, SameRemainder, Zenon
<1> QED  BY <1>1, <1>5

-----------------------------------------------------------------------------
(* Totals: counting up by one adds one unit.                               *)

LEMMA NoUnits ==
    ASSUME NEW f, \A i \in DOMAIN f : f[i] = 0
    PROVE  IsFiniteSet(Units(f)) /\ Total(f) = 0
<1>1. Units(f) = {}
  BY DEF Units
<1> QED  BY <1>1, FS_EmptySet DEF Total

LEMMA OneMore ==
    ASSUME NEW S, NEW f \in [S -> Nat], NEW i \in S, IsFiniteSet(Units(f)),
           NEW g \in [S -> Nat], \A j \in S : g[j] = IF j = i THEN f[j] + 1 ELSE f[j]
    PROVE  IsFiniteSet(Units(g)) /\ Total(g) = Total(f) + 1
<1> DEFINE new == <<i, f[i] + 1>>
<1>1. new \notin Units(f)
  BY DEF Units
<1>2. ASSUME NEW u \in Units(g) PROVE u \in Units(f) \cup {new}
  <2>1. PICK j \in S : u \in {j} \X (1 .. g[j])
    BY <1>2 DEF Units
  <2>2. PICK n \in 1 .. g[j] : u = <<j, n>>
    BY <2>1
  <2>3. CASE j = i /\ n = f[i] + 1
    BY <2>2, <2>3
  <2>4. CASE ~(j = i /\ n = f[i] + 1)
    <3>1. n \in 1 .. f[j]
      BY <2>2, <2>4
    <3> QED  BY <2>1, <2>2, <3>1 DEF Units
  <2> QED  BY <2>3, <2>4
<1>3. ASSUME NEW u \in Units(f) PROVE u \in Units(g)
  <2>1. PICK j \in S : u \in {j} \X (1 .. f[j])
    BY <1>3 DEF Units
  <2>2. PICK n \in 1 .. f[j] : u = <<j, n>>
    BY <2>1
  <2>3. n \in 1 .. g[j]
    BY <2>2
  <2> QED  BY <2>1, <2>2, <2>3 DEF Units
<1>4. new \in Units(g)
  <2>1. f[i] + 1 \in 1 .. g[i]
    OBVIOUS
  <2> QED  BY <2>1 DEF Units
<1>5. Units(g) = Units(f) \cup {new}
  BY <1>2, <1>3, <1>4
<1> QED  BY <1>1, <1>5, FS_AddElement DEF Total

LEMMA FirstNumbers ==
    ASSUME NEW n \in Nat PROVE IsFiniteSet(1 .. n) /\ Cardinality(1 .. n) = n
  BY FS_Interval

(* No value is more than the total.                                        *)
LEMMA PartOfTotal ==
    ASSUME NEW S, NEW f \in [S -> Nat], NEW i \in S, IsFiniteSet(Units(f))
    PROVE  f[i] <= Total(f) /\ Total(f) \in Nat
<1>1. {i} \X (1 .. f[i]) \subseteq Units(f)
  BY DEF Units
<1>2. IsFiniteSet({i}) /\ Cardinality({i}) = 1
  BY FS_Singleton
<1>3. f[i] \in Nat
  OBVIOUS
<1>4. IsFiniteSet(1 .. f[i]) /\ Cardinality(1 .. f[i]) = f[i]
  BY <1>3, FirstNumbers, Zenon
<1>5. Cardinality({i} \X (1 .. f[i])) = Cardinality({i}) * Cardinality(1 .. f[i])
  BY <1>2, <1>4, FS_Product, Zenon
<1>6. Cardinality({i} \X (1 .. f[i])) <= Cardinality(Units(f))
  BY <1>1, FS_Subset
<1>7. Total(f) \in Nat
  BY FS_CardinalityType DEF Total
<1> QED  BY <1>2, <1>3, <1>4, <1>5, <1>6, <1>7 DEF Total

-----------------------------------------------------------------------------
(* OrderedDatagrams.                                                       *)

Finite == IsFiniteSet(Units(SentBy)) /\ IsFiniteSet(Units(Wrong))

(* While all packets of an index have their numbers: it has no error just  *)
(* when they came in order, and then it expects the number of its next     *)
(* packet; the one in recvBuf takes three steps to get into the state.     *)
OrderedAt(t) ==
    LET was == charged[t]  state == gRxThdData[t]
    IN CASE rx.tid = t /\ rx.pc \in {"count", "check"} ->
              /\ was.inOrder <=> state.rxError = 0 /\ was.count = rx.sno + 1
              /\ state.rxError = 0 => was.count = state.expectSno + 1
         [] rx.tid = t /\ rx.pc = "error" -> ~was.inOrder
         [] rx.tid = t /\ rx.pc = "expect" ->
              /\ was.inOrder <=> state.rxError = 0
              /\ state.rxError = 0 => was.count = rx.sno + 1
         [] rx.tid # t \/ rx.pc \in {"init", "recv", "end"} ->
              /\ was.inOrder <=> state.rxError = 0
              /\ state.rxError = 0 => was.count = state.expectSno

InOrderSoFar ==
    /\ \A t \in Tids : charged[t].whole => OrderedAt(t)
    /\ rx.pc \in {"error", "expect"} => rx.tid \in Tids

(* The record of errors is closed by the handler, which stays where it is; *)
(* the counting thread is created after the socket.                        *)
ClosedByHandler ==
    /\ errLog = "closed" => handler \in {"main", "count"}
    /\ rx.pc = "init" => countPc = "none"

OrderIInv == OrderTypeOK /\ Finite /\ TotalsAgree /\ InOrderSoFar /\ ClosedByHandler

RxPcs == {"init", "recv", "count", "check", "error", "expect", "end"}

(* The type invariant, one part after the other.                           *)
LEMMA RxTypes ==
    ASSUME OrderTypeOK
    PROVE  /\ rx \in [pc: RxPcs, tid: Nat, sno: Nat]
           /\ came \in Nat /\ misuse \in BOOLEAN /\ twice \in 0 .. MaxTwice
  BY Zenon DEF OrderTypeOK, RxPcs

LEMMA CounterTypes ==
    ASSUME OrderTypeOK
    PROVE  /\ gRxAllDataPer \in [0 .. 1 -> [packets: Nat, errors: Nat]]
           /\ gDataPerIdx \in 0 .. 1 /\ gRxAllData \in [packets: Nat, errors: Nat]
  BY Zenon DEF OrderTypeOK

LEMMA IndexTypes ==
    ASSUME OrderTypeOK
    PROVE  /\ gRxThdData \in [Tids -> [expectSno: Nat, rxPaceket: Nat, rxError: Nat]]
           /\ charged \in [Tids -> [count: Nat, inOrder: BOOLEAN, whole: BOOLEAN]]
  BY Zenon DEF OrderTypeOK

LEMMA WireTypes ==
    ASSUME OrderTypeOK
    PROVE  /\ tx \in [Transmitters -> [tid: Indexes, sno: 0 .. MaxNumbered]]
           /\ wire \subseteq [from: Transmitters, tid: Indexes, sno: 0 .. MaxNumbered,
                               size: {"full", "part", "byte", "empty"}]
  BY Zenon DEF OrderTypeOK

(* What the functions of counts hold.                                      *)
LEMMA OrderCounts ==
    ASSUME OrderTypeOK
    PROVE  /\ SentBy \in [Transmitters -> Nat] /\ Wrong \in [Tids -> Nat]
           /\ \A i \in 0 .. 1 : /\ gRxAllDataPer[i].packets \in Nat
                                /\ gRxAllDataPer[i].errors \in Nat
           /\ gRxAllData.packets \in Nat /\ gRxAllData.errors \in Nat
           /\ gDataPerIdx \in 0 .. 1 /\ Bak \in 0 .. 1 /\ Bak # gDataPerIdx
<1>1. SentBy \in [Transmitters -> Nat]
  BY OrderAssumption, WireTypes DEF SentBy
<1>2. Wrong \in [Tids -> Nat]
  BY IndexTypes DEF Wrong
<1>3. /\ \A i \in 0 .. 1 : /\ gRxAllDataPer[i].packets \in Nat
                           /\ gRxAllDataPer[i].errors \in Nat
      /\ gRxAllData.packets \in Nat /\ gRxAllData.errors \in Nat
      /\ gDataPerIdx \in 0 .. 1 /\ Bak \in 0 .. 1 /\ Bak # gDataPerIdx
  BY CounterTypes DEF Bak
<1> QED  BY <1>1, <1>2, <1>3

LEMMA OrderTids ==
    ASSUME OrderTypeOK, NEW t \in Tids
    PROVE  /\ gRxThdData[t].expectSno \in Nat /\ gRxThdData[t].rxPaceket \in Nat
           /\ gRxThdData[t].rxError \in Nat
           /\ charged[t].count \in Nat /\ charged[t].inOrder \in BOOLEAN
           /\ charged[t].whole \in BOOLEAN /\ t \in Nat
<1>1. t \in Nat
  BY OrderAssumption DEF Tids
<1> QED  BY <1>1, IndexTypes

LEMMA OrderInitIInv == OrderInit => OrderIInv
<1> SUFFICES ASSUME OrderInit PROVE OrderIInv
  OBVIOUS
<1> USE OrderAssumption DEF OrderInit
<1>1. OrderTypeOK
  <2>1. tx \in [Transmitters -> [tid: Indexes, sno: 0 .. MaxNumbered]]
    BY 0 \in 0 .. MaxNumbered
  <2>2. Zero \in [packets: Nat, errors: Nat]
    BY DEF Zero
  <2>3. gRxAllDataPer \in [0 .. 1 -> [packets: Nat, errors: Nat]]
    BY <2>2
  <2>4. /\ charged \in [Tids -> [count: Nat, inOrder: BOOLEAN, whole: BOOLEAN]]
        /\ gRxThdData \in [Tids -> [expectSno: Nat, rxPaceket: Nat, rxError: Nat]]
    OBVIOUS
  <2>5. /\ rx \in [pc: RxPcs, tid: Nat, sno: Nat]
        /\ came \in Nat
    BY DEF RxPcs
  <2>6. wire \subseteq [from: Transmitters, tid: Indexes, sno: 0 .. MaxNumbered,
                        size: {"full", "part", "byte", "empty"}]
    OBVIOUS
  <2>7. leftover \in BOOLEAN /\ misuse \in BOOLEAN
    OBVIOUS
  <2>8. twice \in 0 .. MaxTwice /\ gDataPerIdx \in 0 .. 1
    OBVIOUS
  <2>9. gRxAllData \in [packets: Nat, errors: Nat]
    BY <2>2
  <2>10. /\ countPc \in {"none", "swap", "addPackets", "addErrors"}
         /\ errLog \in {"null", "open", "closed"}
         /\ handler \in {"none", "main", "count", "crashed"}
    OBVIOUS
  <2> HIDE DEF OrderInit
  <2> QED  BY <2>1, <2>3, <2>4, <2>5, <2>6, <2>7, <2>8, <2>9, <2>10 DEF OrderTypeOK, RxPcs
<1>2. /\ IsFiniteSet(Units(SentBy)) /\ IsFiniteSet(Units(Wrong)) /\ Total(Wrong) = 0
  <2>1. \A i \in DOMAIN SentBy : SentBy[i] = 0
    BY DEF SentBy
  <2>2. \A i \in DOMAIN Wrong : Wrong[i] = 0
    BY DEF Wrong
  <2> QED  BY <2>1, <2>2, NoUnits
<1>3. TotalsAgree
  BY <1>2 DEF TotalsAgree, PacketsBehind, ErrorsBehind, Zero
<1>4. InOrderSoFar /\ ClosedByHandler
  BY DEF InOrderSoFar, OrderedAt, ClosedByHandler
<1> QED  BY <1>1, <1>2, <1>3, <1>4 DEF OrderIInv, Finite

LEMMA OrderTxSend == ASSUME OrderIInv, NEW s \in Transmitters, TxSend(s) PROVE OrderIInv'
<1> USE OrderAssumption DEF OrderIInv
<1>0. /\ Total(SentBy) < MaxNumbered
      /\ tx' = [tx EXCEPT ![s].sno = @ + 1]
      /\ \E size \in SendSizes :
            wire' = wire \cup {[from |-> s, tid |-> tx[s].tid, sno |-> tx[s].sno,
                                size |-> size]}
      /\ UNCHANGED <<leftover, twice, rx, gRxThdData, gRxAllDataPer, gDataPerIdx,
                     gRxAllData, countPc, errLog, handler, misuse, came, charged>>
  BY Zenon DEF TxSend, rxOnly
<1>1. /\ tx[s] \in [tid: Indexes, sno: 0 .. MaxNumbered] /\ tx[s].sno = SentBy[s]
      /\ tx[s].sno <= Total(SentBy) /\ Total(SentBy) \in Nat
  BY OrderCounts, PartOfTotal, WireTypes DEF Finite, SentBy
<1>2. tx[s].sno + 1 \in 0 .. MaxNumbered
  BY <1>0, <1>1
<1>3. tx' \in [Transmitters -> [tid: Indexes, sno: 0 .. MaxNumbered]]
  BY <1>0, <1>2, WireTypes
<1>4. OrderTypeOK'
  <2>1. wire' \subseteq [from: Transmitters, tid: Indexes, sno: 0 .. MaxNumbered,
                         size: {"full", "part", "byte", "empty"}]
    BY <1>0, <1>1, WireTypes
  <2> QED  BY <1>0, <1>3, <2>1 DEF OrderTypeOK
<1>5. Finite'
  <2>1. \A u \in Transmitters : SentBy'[u] = IF u = s THEN SentBy[u] + 1 ELSE SentBy[u]
    BY <1>0, WireTypes DEF SentBy
  <2>2. SentBy' \in [Transmitters -> Nat]
    BY <1>3 DEF SentBy
  <2>3. IsFiniteSet(Units(SentBy'))
    BY <2>1, <2>2, OrderCounts, OneMore DEF Finite
  <2>4. Wrong' = Wrong
    BY <1>0 DEF Wrong
  <2> QED  BY <2>3, <2>4 DEF Finite, Units
<1>6. TotalsAgree'
  BY <1>0 DEF TotalsAgree, PacketsBehind, ErrorsBehind, Wrong, Total, Units
<1>7. InOrderSoFar' /\ ClosedByHandler'
  BY <1>0 DEF InOrderSoFar, OrderedAt, ClosedByHandler
<1> QED  BY <1>4, <1>5, <1>6, <1>7

(* What a step of the receiver leaves alone.                               *)
LEMMA OrderQuiet ==
    ASSUME OrderIInv, rx' \in [pc: RxPcs, tid: Nat, sno: Nat],
           misuse' \in BOOLEAN, wire' \subseteq wire, twice' \in 0 .. MaxTwice, came' \in Nat,
           gRxAllDataPer' \in [0 .. 1 -> [packets: Nat, errors: Nat]],
           charged' \in [Tids -> [count: Nat, inOrder: BOOLEAN, whole: BOOLEAN]],
           gRxThdData' \in [Tids -> [expectSno: Nat, rxPaceket: Nat, rxError: Nat]],
           rx'.pc # "init",
           UNCHANGED <<leftover, tx, gDataPerIdx, gRxAllData, countPc, errLog, handler>>
    PROVE  OrderTypeOK' /\ SentBy' = SentBy /\ ClosedByHandler'
<1>1. UNCHANGED leftover /\ UNCHANGED tx /\ UNCHANGED gDataPerIdx /\ UNCHANGED gRxAllData
      /\ UNCHANGED countPc /\ UNCHANGED errLog /\ UNCHANGED handler
  OBVIOUS
<1>2. SentBy' = SentBy
  BY <1>1 DEF SentBy
<1>3. ClosedByHandler'
  BY <1>1 DEF ClosedByHandler, OrderIInv
<1>4. wire' \subseteq [from: Transmitters, tid: Indexes, sno: 0 .. MaxNumbered,
                      size: {"full", "part", "byte", "empty"}]
  BY WireTypes DEF OrderIInv
<1>5. /\ leftover' \in BOOLEAN
      /\ tx' \in [Transmitters -> [tid: Indexes, sno: 0 .. MaxNumbered]]
      /\ gDataPerIdx' \in 0 .. 1 /\ gRxAllData' \in [packets: Nat, errors: Nat]
      /\ countPc' \in {"none", "swap", "addPackets", "addErrors"}
      /\ errLog' \in {"null", "open", "closed"}
      /\ handler' \in {"none", "main", "count", "crashed"}
  BY Zenon, <1>1 DEF OrderTypeOK, OrderIInv
<1> QED  BY Zenon, <1>2, <1>3, <1>4, <1>5 DEF OrderTypeOK, RxPcs

Parts == {Byte, Byte * Byte, Byte * Byte * Byte}

LEMMA MixedIsNat ==
    ASSUME NEW new \in Nat, NEW old \in Nat, NEW b \in Parts
    PROVE  Mixed(new, old, b) \in Nat
<1>1. b \in Nat /\ b > 0
  BY DEF Parts, Byte
<1>2. new \div b \in Nat /\ old % b \in Nat
  BY <1>1
<1>3. (new \div b) * b \in Nat
  BY <1>1, <1>2
<1> QED  BY <1>2, <1>3 DEF Mixed

(* Whatever is mixed into recvBuf, a whole header is the datagram's own.   *)
LEMMA HeaderIsNat ==
    ASSUME OrderTypeOK, NEW d \in wire, NEW h \in Header(d)
    PROVE  /\ h.tid \in Nat /\ h.sno \in Nat
           /\ d.size = "full" => h.tid = d.tid /\ h.sno = d.sno
<1> DEFINE Tid == {IF d.size = "byte" THEN Mixed(d.tid, rx.tid, Byte) ELSE d.tid}
           Sno == CASE d.size = "full" -> {d.sno}
                    [] d.size = "part" -> {rx.sno} \cup {Mixed(d.sno, rx.sno, b) : b \in Parts}
                    [] OTHER -> {rx.sno}
<1>1. d.tid \in Nat /\ d.sno \in Nat
  <2>1. d.tid \in Indexes /\ d.sno \in 0 .. MaxNumbered
    BY WireTypes
  <2>2. Indexes \subseteq Nat /\ MaxNumbered \in Nat
    BY Zenon, OrderAssumption
  <2>3. d.sno \in Nat
    BY <2>1, <2>2
  <2>4. d.tid \in Nat
    BY Zenon, <2>1, <2>2
  <2> QED  BY <2>3, <2>4
<1>2. rx.tid \in Nat /\ rx.sno \in Nat
  BY RxTypes
<1>3. h \in [tid: Tid, sno: Sno]
  BY Zenon DEF Header, Parts
<1>4. h.tid \in Tid /\ h.sno \in Sno
  <2> HIDE DEF Tid, Sno
  <2> QED  BY <1>3
<1>5. Byte \in Parts
  BY DEF Parts
<1>6. Mixed(d.tid, rx.tid, Byte) \in Nat
  BY <1>1, <1>2, <1>5, MixedIsNat
<1>7. h.tid \in Nat /\ (d.size = "full" => h.tid = d.tid)
  BY <1>1, <1>4, <1>6
<1>8. \A b \in Parts : Mixed(d.sno, rx.sno, b) \in Nat
  BY <1>1, <1>2, MixedIsNat
<1>9. h.sno \in Nat /\ (d.size = "full" => h.sno = d.sno)
  BY <1>1, <1>2, <1>4, <1>8
<1> QED  BY <1>7, <1>9

(* A datagram without a byte, and a failing recvfrom(), end the receiver.  *)
LEMMA OrderNetDown ==
    ASSUME OrderIInv, rx.pc = "recv", NetDown, wire' \subseteq wire,
           twice' \in 0 .. MaxTwice,
           UNCHANGED <<leftover, tx, gRxThdData, gRxAllDataPer, gDataPerIdx, gRxAllData,
                       countPc, errLog, handler, misuse>>
    PROVE  OrderIInv'
<1> USE DEF OrderIInv
<1>1. /\ rx' = [rx EXCEPT !.pc = "end"] /\ UNCHANGED <<came, charged>>
  BY Zenon DEF NetDown
<1>2. /\ rx'.pc = "end" /\ rx'.tid = rx.tid /\ misuse' \in BOOLEAN
      /\ rx' \in [pc: RxPcs, tid: Nat, sno: Nat]
  BY <1>1, RxTypes DEF RxPcs
<1>3. OrderTypeOK' /\ SentBy' = SentBy /\ ClosedByHandler'
  BY <1>1, <1>2, OrderQuiet DEF OrderTypeOK
<1>4. Wrong' = Wrong
  BY DEF Wrong
<1>5. Finite' /\ TotalsAgree'
  BY <1>1, <1>2, <1>3, <1>4 DEF Finite, TotalsAgree, PacketsBehind, ErrorsBehind, Units, Total
<1>6. InOrderSoFar'
  BY <1>1, <1>2 DEF InOrderSoFar, OrderedAt
<1> QED  BY <1>3, <1>5, <1>6

(* A packet that comes is to be counted, and charged to the index that its *)
(* header names.                                                           *)
LEMMA OrderPacketCame ==
    ASSUME OrderIInv, NEW d \in wire, rx.pc = "recv", PacketCame(d), wire' \subseteq wire,
           twice' \in 0 .. MaxTwice,
           UNCHANGED <<leftover, tx, gRxThdData, gRxAllDataPer, gDataPerIdx, gRxAllData,
                       countPc, errLog, handler, misuse>>
    PROVE  OrderIInv'
<1> USE DEF OrderIInv
<1>1. PICK h \in Header(d) :
        /\ rx' = [pc |-> "count", tid |-> h.tid, sno |-> h.sno]
        /\ charged' = [t \in Tids |-> IF t = h.tid THEN Longer(charged[t], d)
                                                  ELSE charged[t]]
        /\ came' = came + 1
  BY Zenon DEF PacketCame
<1>2. /\ h.tid \in Nat /\ h.sno \in Nat /\ d.sno \in Nat
      /\ d.size = "full" => h.tid = d.tid /\ h.sno = d.sno
  BY HeaderIsNat, OrderAssumption, WireTypes
<1>3. \A t \in Tids :
         /\ t # h.tid => charged'[t] = charged[t]
         /\ t = h.tid => /\ charged'[t].count = charged[t].count + 1
                         /\ charged'[t].inOrder = (charged[t].inOrder /\ d.sno = charged[t].count)
                         /\ charged'[t].whole = (charged[t].whole /\ d.size = "full")
  <2> TAKE t \in Tids
  <2>1. CASE t = h.tid
    <3> DEFINE n == charged[t].count + 1
               o == charged[t].inOrder /\ d.sno = charged[t].count
               w == charged[t].whole /\ d.size = "full"
    <3>1. charged'[t] = [count |-> n, inOrder |-> o, whole |-> w]
      BY Zenon, <1>1, <2>1 DEF Longer
    <3> HIDE DEF n, o, w
    <3>2. charged'[t].count = n /\ charged'[t].inOrder = o /\ charged'[t].whole = w
      BY <3>1
    <3> QED  BY Zenon, <2>1, <3>2 DEF n, o, w
  <2>2. CASE t # h.tid
    BY Zenon, <1>1, <2>2
  <2> QED  BY Zenon, <2>1, <2>2
<1>4. charged' \in [Tids -> [count: Nat, inOrder: BOOLEAN, whole: BOOLEAN]]
  <2>1. \A t \in Tids : Longer(charged[t], d) \in [count: Nat, inOrder: BOOLEAN, whole: BOOLEAN]
    <3> TAKE t \in Tids
    <3> DEFINE n == charged[t].count + 1
               o == charged[t].inOrder /\ d.sno = charged[t].count
               w == charged[t].whole /\ d.size = "full"
    <3>1. n \in Nat
      BY OrderTids
    <3>2. o \in BOOLEAN /\ w \in BOOLEAN
      BY Zenon, OrderTids
    <3>3. Longer(charged[t], d) = [count |-> n, inOrder |-> o, whole |-> w]
      BY Zenon DEF Longer
    <3> HIDE DEF n, o, w
    <3> QED  BY <3>1, <3>2, <3>3
  <2>2. \A t \in Tids : charged[t] \in [count: Nat, inOrder: BOOLEAN, whole: BOOLEAN]
    BY IndexTypes
  <2> QED  BY <1>1, <2>1, <2>2
<1>5. /\ rx'.pc = "count" /\ rx'.tid = h.tid /\ rx'.sno = h.sno /\ misuse' \in BOOLEAN
      /\ rx' \in [pc: RxPcs, tid: Nat, sno: Nat]
      /\ came \in Nat
  BY <1>1, <1>2, RxTypes DEF RxPcs
<1>6. OrderTypeOK' /\ SentBy' = SentBy /\ ClosedByHandler'
  BY <1>1, <1>4, <1>5, OrderQuiet DEF OrderTypeOK
<1>7. Wrong' = Wrong
  BY DEF Wrong
<1>8. Finite'
  BY <1>6, <1>7 DEF Finite, Units
<1>9. TotalsAgree'
  <2>1. /\ PacketsBehind \in Nat
        /\ PacketsBehind' = PacketsBehind
        /\ ErrorsBehind' = ErrorsBehind
    BY OrderCounts DEF PacketsBehind, ErrorsBehind
  <2>2. /\ gRxAllData.packets + PacketsBehind = came
        /\ gRxAllData.errors + ErrorsBehind = Total(Wrong)
    <3>1. gRxAllData.packets \in Nat /\ Total(Wrong) \in Nat
      BY OrderCounts, FS_CardinalityType DEF Total, Finite
    <3> QED  BY <1>5, <2>1, <3>1 DEF TotalsAgree
  <2>3. Total(Wrong)' = Total(Wrong) /\ Total(Wrong) \in Nat
    BY <1>7, FS_CardinalityType DEF Total, Units, Finite
  <2>4. gRxAllData.packets \in Nat
    BY OrderCounts
  <2> HIDE DEF PacketsBehind, ErrorsBehind
  <2> QED  BY <1>1, <1>5, <2>1, <2>2, <2>3, <2>4 DEF TotalsAgree
<1>10. InOrderSoFar'
  <2> SUFFICES ASSUME NEW t \in Tids, charged'[t].whole PROVE OrderedAt(t)'
    BY <1>5 DEF InOrderSoFar
  <2>1. charged[t].whole
    BY Zenon, <1>3
  <2>2. /\ charged[t].inOrder <=> gRxThdData[t].rxError = 0
        /\ gRxThdData[t].rxError = 0 => charged[t].count = gRxThdData[t].expectSno
    BY <2>1 DEF InOrderSoFar, OrderedAt
  <2>3. CASE t = h.tid
    <3>1. d.size = "full" /\ h.sno = d.sno
      BY Zenon, <1>2, <1>3, <2>3
    <3>2. /\ charged'[t].count = charged[t].count + 1
          /\ charged'[t].inOrder <=> charged[t].inOrder /\ d.sno = charged[t].count
      BY Zenon, <1>3, <2>3
    <3> QED  BY <1>2, <1>5, <2>2, <2>3, <3>1, <3>2, OrderTids DEF OrderedAt
  <2>4. CASE t # h.tid
    <3>1. charged'[t] = charged[t]
      BY <1>3, <2>4
    <3> QED  BY <1>5, <2>2, <2>4, <3>1 DEF OrderedAt
  <2> QED  BY <2>3, <2>4
<1> QED  BY <1>6, <1>8, <1>9, <1>10

LEMMA OrderRecv == ASSUME OrderIInv, Recv \/ RecvFail PROVE OrderIInv'
<1>1. CASE RecvFail
  <2>1. /\ rx.pc = "recv" /\ NetDown
        /\ UNCHANGED <<leftover, tx, wire, twice, gRxThdData, gRxAllDataPer, gDataPerIdx,
                       gRxAllData, countPc, errLog, handler, misuse>>
    BY Zenon, <1>1 DEF RecvFail, countOnly
  <2>2. wire' \subseteq wire /\ twice' \in 0 .. MaxTwice
    BY <2>1, RxTypes DEF OrderIInv
  <2> QED  BY <2>1, <2>2, OrderNetDown
<1>2. CASE Recv
  <2>1. /\ rx.pc = "recv"
        /\ UNCHANGED <<leftover, tx, gRxThdData, gRxAllDataPer, gDataPerIdx,
                       gRxAllData, countPc, errLog, handler, misuse>>
    BY Zenon, <1>2 DEF Recv, countOnly
  <2>2. PICK d \in wire :
          /\ IF d.size = "empty" THEN NetDown ELSE PacketCame(d)
          /\ \/ wire' = wire \ {d} /\ UNCHANGED twice
             \/ twice < MaxTwice /\ twice' = twice + 1 /\ UNCHANGED wire
    BY Zenon, <1>2 DEF Recv
  <2>3. wire' \subseteq wire /\ twice' \in 0 .. MaxTwice
    BY <2>2, OrderAssumption, RxTypes DEF OrderIInv
  <2>4. NetDown \/ PacketCame(d)
    BY <2>2
  <2> QED  BY <2>1, <2>3, <2>4, OrderNetDown, OrderPacketCame
<1> QED  BY <1>1, <1>2

(* One more packet or error in the current counter.                        *)
LEMMA OrderCounted ==
    ASSUME OrderTypeOK, NEW p \in 0 .. 1, NEW e \in 0 .. 1,
           gRxAllDataPer' \in [0 .. 1 -> [packets: Nat, errors: Nat]],
           \A i \in 0 .. 1 :
              /\ gRxAllDataPer'[i].packets
                   = gRxAllDataPer[i].packets + (IF i = gDataPerIdx THEN p ELSE 0)
              /\ gRxAllDataPer'[i].errors
                   = gRxAllDataPer[i].errors + (IF i = gDataPerIdx THEN e ELSE 0),
           UNCHANGED <<gDataPerIdx, countPc>>
    PROVE  /\ PacketsBehind' = PacketsBehind + p
           /\ ErrorsBehind' = ErrorsBehind + e
           /\ PacketsBehind \in Nat
           /\ ErrorsBehind \in Nat
<1>1. gDataPerIdx = 0 \/ gDataPerIdx = 1
  BY CounterTypes
<1>2. /\ gRxAllDataPer[0].packets \in Nat /\ gRxAllDataPer[1].packets \in Nat
      /\ gRxAllDataPer[0].errors \in Nat /\ gRxAllDataPer[1].errors \in Nat
  BY OrderCounts
<1>3. CASE gDataPerIdx = 0
  BY <1>2, <1>3 DEF PacketsBehind, ErrorsBehind
<1>4. CASE gDataPerIdx = 1
  BY <1>2, <1>4 DEF PacketsBehind, ErrorsBehind
<1> QED  BY <1>1, <1>3, <1>4

LEMMA OrderCountPacket == ASSUME OrderIInv, CountPacket PROVE OrderIInv'
<1> USE DEF OrderIInv
<1>1. /\ rx.pc = "count" /\ rx' = [rx EXCEPT !.pc = "check"]
      /\ gRxAllDataPer' = [gRxAllDataPer EXCEPT ![gDataPerIdx].packets = @ + 1]
      /\ UNCHANGED <<leftover, tx, wire, twice, gRxThdData, gDataPerIdx, gRxAllData,
                     countPc, errLog, handler, misuse, came, charged>>
  BY Zenon DEF CountPacket
<1>2. /\ rx'.pc = "check" /\ rx'.tid = rx.tid /\ rx'.sno = rx.sno /\ misuse' \in BOOLEAN
      /\ rx' \in [pc: RxPcs, tid: Nat, sno: Nat]
      /\ twice' \in 0 .. MaxTwice /\ wire' \subseteq wire
  BY <1>1, RxTypes DEF RxPcs
<1>3. gRxAllDataPer' \in [0 .. 1 -> [packets: Nat, errors: Nat]]
  BY <1>1, CounterTypes
<1>4. \A i \in 0 .. 1 :
         /\ gRxAllDataPer'[i].packets
              = gRxAllDataPer[i].packets + (IF i = gDataPerIdx THEN 1 ELSE 0)
         /\ gRxAllDataPer'[i].errors
              = gRxAllDataPer[i].errors + (IF i = gDataPerIdx THEN 0 ELSE 0)
  BY <1>1, CounterTypes
<1>5. OrderTypeOK' /\ SentBy' = SentBy /\ ClosedByHandler'
  BY <1>1, <1>2, <1>3, OrderQuiet DEF OrderTypeOK
<1>6. Wrong' = Wrong
  BY <1>1 DEF Wrong
<1>7. Finite'
  BY <1>5, <1>6 DEF Finite, Units
<1>8. TotalsAgree'
  <2>1. /\ PacketsBehind' = PacketsBehind + 1
        /\ ErrorsBehind' = ErrorsBehind + 0
        /\ PacketsBehind \in Nat
        /\ ErrorsBehind \in Nat
    <3>1. 0 \in 0 .. 1 /\ 1 \in 0 .. 1 /\ UNCHANGED <<gDataPerIdx, countPc>>
      BY <1>1
    <3> QED  BY <1>3, <1>4, <3>1, OrderCounted
  <2>2. Total(Wrong)' = Total(Wrong) /\ Total(Wrong) \in Nat
    BY <1>6, FS_CardinalityType DEF Total, Units, Finite
  <2>3. gRxAllData.packets \in Nat /\ gRxAllData.errors \in Nat /\ came \in Nat
    BY OrderCounts, RxTypes
  <2>4. /\ gRxAllData'.packets = gRxAllData.packets /\ gRxAllData'.errors = gRxAllData.errors
        /\ came' = came
    BY <1>1
  <2>5. gRxAllData.packets + PacketsBehind + 1 = came
    BY <1>1 DEF TotalsAgree
  <2>6. gRxAllData.errors + ErrorsBehind = Total(Wrong) + 0
    BY <1>1 DEF TotalsAgree
  <2>7. gRxAllData'.packets + PacketsBehind' + 0 = came'
    BY <2>1, <2>3, <2>4, <2>5
  <2>8. gRxAllData'.errors + ErrorsBehind' = Total(Wrong)' + 0
    BY <2>1, <2>2, <2>3, <2>4, <2>6
  <2> QED  BY <1>2, <2>7, <2>8 DEF TotalsAgree
<1>9. InOrderSoFar'
  BY <1>1, <1>2 DEF InOrderSoFar, OrderedAt
<1> QED  BY <1>5, <1>7, <1>8, <1>9

(* An index that is too large leaves nothing, an expected number leaves    *)
(* the counts.                                                             *)
LEMMA OrderCheckSno == ASSUME OrderIInv, CheckSno PROVE OrderIInv'
<1> USE DEF OrderIInv
<1>1. /\ rx.pc = "check" /\ misuse' \in BOOLEAN
      /\ UNCHANGED <<leftover, tx, wire, twice, gRxThdData, gDataPerIdx, gRxAllData,
                     countPc, errLog, handler, came, charged>>
  <2>1. /\ rx.pc = "check"
        /\ UNCHANGED <<leftover, tx, wire, twice, gRxThdData, gDataPerIdx, gRxAllData,
                       countPc, errLog, handler, came, charged>>
    BY Zenon DEF CheckSno
  <2>2. misuse' = misuse \/ misuse' = (misuse \/ errLog = "closed")
    BY Zenon DEF CheckSno, Record
  <2> QED  BY Zenon, <2>1, <2>2, RxTypes
<1>2. PICK p \in {"recv", "error", "expect"} : rx' = [rx EXCEPT !.pc = p]
  BY Zenon DEF CheckSno
<1>3. \/ /\ p = "recv" /\ rx.tid \notin Tids /\ gRxAllDataPer' = gRxAllDataPer
      \/ /\ p = "error" /\ rx.tid \in Tids /\ gRxThdData[rx.tid].expectSno # rx.sno
         /\ gRxAllDataPer' = [gRxAllDataPer EXCEPT ![gDataPerIdx].errors = @ + 1]
      \/ /\ p = "expect" /\ rx.tid \in Tids /\ gRxThdData[rx.tid].expectSno = rx.sno
         /\ gRxAllDataPer' = gRxAllDataPer
  <2>1. rx'.pc = p
    BY <1>2, RxTypes
  <2>2. \A q : [rx EXCEPT !.pc = q].pc = q
    BY RxTypes
  <2> QED  BY Zenon, <2>1, <2>2 DEF CheckSno
<1>4. /\ rx'.pc = p /\ rx'.tid = rx.tid /\ rx'.sno = rx.sno /\ rx.sno \in Nat
      /\ rx' \in [pc: RxPcs, tid: Nat, sno: Nat]
      /\ twice' \in 0 .. MaxTwice /\ wire' \subseteq wire
  BY <1>1, <1>2, RxTypes DEF RxPcs
<1>5. gRxAllDataPer' \in [0 .. 1 -> [packets: Nat, errors: Nat]]
  BY <1>3, CounterTypes
<1>6. OrderTypeOK' /\ SentBy' = SentBy /\ ClosedByHandler'
  BY <1>1, <1>4, <1>5, OrderQuiet DEF OrderTypeOK
<1>7. Wrong' = Wrong
  BY <1>1 DEF Wrong
<1>8. Finite'
  BY <1>6, <1>7 DEF Finite, Units
<1>9. TotalsAgree'
  <2> DEFINE e == IF p = "error" THEN 1 ELSE 0
  <2>1. \A i \in 0 .. 1 :
           /\ gRxAllDataPer'[i].packets
                = gRxAllDataPer[i].packets + (IF i = gDataPerIdx THEN 0 ELSE 0)
           /\ gRxAllDataPer'[i].errors
                = gRxAllDataPer[i].errors + (IF i = gDataPerIdx THEN e ELSE 0)
    <3>1. CASE p = "error"
      BY <1>3, <3>1, CounterTypes
    <3>2. CASE p # "error"
      BY <1>3, <3>2, OrderCounts
    <3> QED  BY <3>1, <3>2
  <2>2. /\ PacketsBehind' = PacketsBehind + 0
        /\ ErrorsBehind' = ErrorsBehind + e
        /\ PacketsBehind \in Nat
        /\ ErrorsBehind \in Nat
    <3>1. e \in 0 .. 1 /\ 0 \in 0 .. 1 /\ UNCHANGED <<gDataPerIdx, countPc>>
      BY <1>1
    <3> HIDE DEF e
    <3> QED  BY <1>5, <2>1, <3>1, OrderCounted
  <2>3. Total(Wrong)' = Total(Wrong) /\ Total(Wrong) \in Nat
    BY <1>7, FS_CardinalityType DEF Total, Units, Finite
  <2>4. gRxAllData.packets \in Nat /\ gRxAllData.errors \in Nat /\ came \in Nat
    BY OrderCounts, RxTypes
  <2> QED  BY <1>1, <1>4, <2>2, <2>3, <2>4 DEF TotalsAgree
<1>10. InOrderSoFar'
  <2>1. rx'.pc \in {"error", "expect"} => rx'.tid \in Tids
    BY <1>3, <1>4
  <2>2. ASSUME NEW t \in Tids, charged'[t].whole PROVE OrderedAt(t)'
    <3>1. OrderedAt(t)
      BY <1>1, <2>2 DEF InOrderSoFar
    <3>2. /\ charged'[t] = charged[t] /\ gRxThdData'[t] = gRxThdData[t]
      BY <1>1
    <3>3. CASE rx.tid # t
      BY <1>1, <1>4, <3>1, <3>2, <3>3 DEF OrderedAt
    <3>4. CASE rx.tid = t
      <4>1. /\ charged[t].inOrder <=> gRxThdData[t].rxError = 0 /\ charged[t].count = rx.sno + 1
            /\ gRxThdData[t].rxError = 0 => charged[t].count = gRxThdData[t].expectSno + 1
        BY <1>1, <3>1, <3>4 DEF OrderedAt
      <4>2. CASE p = "error"
        BY <1>3, <1>4, <3>2, <3>4, <4>1, <4>2, OrderTids DEF OrderedAt
      <4>3. CASE p = "expect"
        BY <1>3, <1>4, <3>2, <3>4, <4>1, <4>3, OrderTids DEF OrderedAt
      <4>4. p \in {"error", "expect"}
        BY <1>3, <3>4
      <4> QED  BY <4>2, <4>3, <4>4
    <3> QED  BY <3>3, <3>4
  <2> QED  BY <2>1, <2>2 DEF InOrderSoFar
<1> QED  BY <1>6, <1>8, <1>9, <1>10

(* The error is counted for its index.                                     *)
LEMMA OrderCountError == ASSUME OrderIInv, CountError PROVE OrderIInv'
<1> USE DEF OrderIInv
<1> DEFINE t == rx.tid
<1>1. /\ rx.pc = "error" /\ rx' = [rx EXCEPT !.pc = "expect"]
      /\ gRxThdData' = [gRxThdData EXCEPT ![t].rxError = @ + 1]
      /\ misuse' = (misuse \/ errLog = "closed")
      /\ UNCHANGED <<leftover, tx, wire, twice, gRxAllDataPer, gDataPerIdx, gRxAllData,
                     countPc, errLog, handler, came, charged>>
  BY Zenon DEF CountError, Record, countOnly
<1>2. /\ rx'.pc = "expect" /\ rx'.tid = t /\ rx'.sno = rx.sno
      /\ rx' \in [pc: RxPcs, tid: Nat, sno: Nat]
      /\ twice' \in 0 .. MaxTwice /\ wire' \subseteq wire /\ t \in Tids
  BY <1>1, RxTypes DEF InOrderSoFar, RxPcs
<1>3. misuse' \in BOOLEAN
  BY Zenon, <1>1, RxTypes DEF RxPcs
<1>4. \A i \in Tids :
         /\ gRxThdData'[i].expectSno = gRxThdData[i].expectSno
         /\ gRxThdData'[i].rxPaceket = gRxThdData[i].rxPaceket
         /\ gRxThdData'[i].rxError = gRxThdData[i].rxError + (IF i = t THEN 1 ELSE 0)
  BY <1>1, OrderTids, IndexTypes
<1>5. gRxThdData' \in [Tids -> [expectSno: Nat, rxPaceket: Nat, rxError: Nat]]
  <2> DEFINE more == [gRxThdData[t] EXCEPT !.rxError = @ + 1]
  <2>1. gRxThdData' = [gRxThdData EXCEPT ![t] = more]
    BY <1>1
  <2>2. more \in [expectSno: Nat, rxPaceket: Nat, rxError: Nat]
    <3>1. /\ gRxThdData[t] \in [expectSno: Nat, rxPaceket: Nat, rxError: Nat]
          /\ gRxThdData[t].rxError + 1 \in Nat
      BY <1>2, IndexTypes
    <3> QED  BY <3>1
  <2> HIDE DEF more
  <2> QED  BY <2>1, <2>2, IndexTypes
<1>6. OrderTypeOK' /\ SentBy' = SentBy /\ ClosedByHandler'
  BY <1>1, <1>2, <1>3, <1>5, OrderQuiet DEF OrderTypeOK
<1>7. IsFiniteSet(Units(Wrong')) /\ Total(Wrong') = Total(Wrong) + 1
  <2>1. \A i \in Tids : Wrong'[i] = IF i = t THEN Wrong[i] + 1 ELSE Wrong[i]
    BY <1>4, OrderTids DEF Wrong
  <2>2. Wrong' \in [Tids -> Nat]
    <3>1. \A i \in Tids : gRxThdData'[i].rxError \in Nat
      BY <1>5
    <3> QED  BY <3>1 DEF Wrong
  <2>3. Wrong \in [Tids -> Nat] /\ IsFiniteSet(Units(Wrong)) /\ t \in Tids
    BY <1>2, OrderCounts DEF Finite
  <2> HIDE DEF t
  <2> QED  BY <2>1, <2>2, <2>3, OneMore
<1>8. Finite'
  BY <1>6, <1>7 DEF Finite, Units
<1>9. TotalsAgree'
  <2>1. /\ PacketsBehind' = PacketsBehind
        /\ ErrorsBehind' = ErrorsBehind
    BY <1>1 DEF PacketsBehind, ErrorsBehind
  <2>2. Total(Wrong)' = Total(Wrong) + 1 /\ Total(Wrong) \in Nat
    BY <1>7, FS_CardinalityType DEF Total, Units, Finite
  <2>3. gRxAllData'.errors = gRxAllData.errors /\ gRxAllData'.packets = gRxAllData.packets
    BY <1>1
  <2> QED  BY <1>1, <1>2, <2>1, <2>2, <2>3 DEF TotalsAgree
<1>10. InOrderSoFar'
  <2> SUFFICES ASSUME NEW i \in Tids, charged'[i].whole PROVE OrderedAt(i)'
    BY <1>2 DEF InOrderSoFar
  <2>1. OrderedAt(i)
    BY <1>1 DEF InOrderSoFar
  <2>2. /\ charged'[i].inOrder = charged[i].inOrder /\ charged'[i].count = charged[i].count
    BY <1>1
  <2>3. CASE i = t
    BY <1>1, <1>2, <1>4, <2>1, <2>2, <2>3, OrderTids DEF OrderedAt
  <2>4. CASE i # t
    <3>1. gRxThdData'[i].rxError = gRxThdData[i].rxError
      BY <1>4, <2>4, OrderTids
    <3> QED  BY <1>1, <1>2, <1>4, <2>1, <2>2, <2>4, <3>1 DEF OrderedAt
  <2> QED  BY <2>3, <2>4
<1> QED  BY <1>6, <1>8, <1>9, <1>10

(* The next number is expected.                                            *)
LEMMA OrderExpect == ASSUME OrderIInv, Expect PROVE OrderIInv'
<1> USE DEF OrderIInv
<1> DEFINE t == rx.tid
           mid == [gRxThdData EXCEPT ![t].rxPaceket = @ + 1]
<1>1. /\ rx.pc = "expect" /\ rx' = [rx EXCEPT !.pc = "recv"]
      /\ gRxThdData' = [gRxThdData EXCEPT ![t].rxPaceket = @ + 1,
                                          ![t].expectSno = rx.sno + 1]
      /\ UNCHANGED <<leftover, tx, wire, twice, gRxAllDataPer, gDataPerIdx, gRxAllData,
                     countPc, errLog, handler, misuse, came, charged>>
  BY Zenon DEF Expect, countOnly
<1>2. /\ rx'.pc = "recv" /\ rx'.tid = t /\ rx.sno \in Nat /\ misuse' \in BOOLEAN
      /\ rx' \in [pc: RxPcs, tid: Nat, sno: Nat]
      /\ twice' \in 0 .. MaxTwice /\ wire' \subseteq wire /\ t \in Tids
  BY <1>1, RxTypes DEF InOrderSoFar, RxPcs
<1>3. gRxThdData' = [mid EXCEPT ![t].expectSno = rx.sno + 1]
  BY <1>1, RxTypes DEF RxPcs
<1>4. mid \in [Tids -> [expectSno: Nat, rxPaceket: Nat, rxError: Nat]]
  <2> DEFINE more == [gRxThdData[t] EXCEPT !.rxPaceket = @ + 1]
  <2>1. mid = [gRxThdData EXCEPT ![t] = more]
    OBVIOUS
  <2>2. more \in [expectSno: Nat, rxPaceket: Nat, rxError: Nat]
    <3>1. /\ gRxThdData[t] \in [expectSno: Nat, rxPaceket: Nat, rxError: Nat]
          /\ gRxThdData[t].rxPaceket + 1 \in Nat
      BY <1>2, IndexTypes
    <3> QED  BY <3>1
  <2> HIDE DEF more, mid
  <2> QED  BY <2>1, <2>2, IndexTypes
<1>5. \A i \in Tids : /\ mid[i].expectSno = gRxThdData[i].expectSno
                      /\ mid[i].rxError = gRxThdData[i].rxError
  BY IndexTypes
<1>6. /\ gRxThdData' \in [Tids -> [expectSno: Nat, rxPaceket: Nat, rxError: Nat]]
      /\ \A i \in Tids :
            /\ gRxThdData'[i].expectSno = IF i = t THEN rx.sno + 1 ELSE gRxThdData[i].expectSno
            /\ gRxThdData'[i].rxError = gRxThdData[i].rxError
  <2> HIDE DEF mid
  <2> QED  BY <1>2, <1>3, <1>4, <1>5
<1>7. OrderTypeOK' /\ SentBy' = SentBy /\ ClosedByHandler'
  BY <1>1, <1>2, <1>6, OrderQuiet DEF OrderTypeOK
<1>8. Wrong' = Wrong
  BY <1>6 DEF Wrong
<1>9. Finite'
  BY <1>7, <1>8 DEF Finite, Units
<1>10. TotalsAgree'
  <2>1. /\ PacketsBehind' = PacketsBehind
        /\ ErrorsBehind' = ErrorsBehind
    BY <1>1 DEF PacketsBehind, ErrorsBehind
  <2>2. Total(Wrong)' = Total(Wrong)
    BY <1>8 DEF Total, Units
  <2>3. gRxAllData'.errors = gRxAllData.errors /\ gRxAllData'.packets = gRxAllData.packets
    BY <1>1
  <2> QED  BY <1>1, <1>2, <2>1, <2>2, <2>3 DEF TotalsAgree
<1>11. InOrderSoFar'
  <2> SUFFICES ASSUME NEW i \in Tids, charged'[i].whole PROVE OrderedAt(i)'
    BY <1>2 DEF InOrderSoFar
  <2>1. OrderedAt(i)
    BY <1>1 DEF InOrderSoFar
  <2>2. charged'[i].inOrder = charged[i].inOrder /\ charged'[i].count = charged[i].count
    BY <1>1
  <2> QED  BY <1>1, <1>2, <1>6, <2>1, <2>2 DEF OrderedAt
<1> QED  BY <1>7, <1>9, <1>10, <1>11

LEMMA OrderKept == ASSUME InOrderSoFar, UNCHANGED <<charged, gRxThdData, rx>> PROVE InOrderSoFar'
<1>1. charged' = charged /\ gRxThdData' = gRxThdData /\ rx' = rx
  OBVIOUS
<1>2. ASSUME NEW t \in Tids PROVE OrderedAt(t)' = OrderedAt(t)
  BY Zenon, <1>1 DEF OrderedAt
<1> QED  BY Zenon, <1>1, <1>2 DEF InOrderSoFar

(* The counting thread moves what is in the counters, and loses nothing.   *)
LEMMA OrderThreadRecvCount == ASSUME OrderIInv, ThreadRecvCount PROVE OrderIInv'
<1> USE DEF OrderIInv
<1>1. UNCHANGED <<leftover, tx, wire, twice, rx, gRxThdData, errLog, handler,
                  misuse, came, charged>>
  BY Zenon DEF ThreadRecvCount
<1>2. Finite' /\ InOrderSoFar' /\ ClosedByHandler'
  <2>1. countPc # "none"
    BY Zenon DEF ThreadRecvCount, UpdateRxDataPer, AddPackets, AddErrors
  <2>2. Finite'
    BY <1>1 DEF Finite, Units, SentBy, Wrong
  <2>3. InOrderSoFar'
    BY Zenon, <1>1, OrderKept
  <2>4. ClosedByHandler'
    BY <1>1, <2>1 DEF ClosedByHandler
  <2> QED  BY <2>2, <2>3, <2>4
<1>3. Total(Wrong)' = Total(Wrong)
  BY <1>1 DEF Wrong, Total, Units
<1>4. /\ gRxAllDataPer[0].packets \in Nat /\ gRxAllDataPer[1].packets \in Nat
      /\ gRxAllDataPer[0].errors \in Nat /\ gRxAllDataPer[1].errors \in Nat
      /\ gRxAllData.packets \in Nat /\ gRxAllData.errors \in Nat
      /\ \/ gDataPerIdx = 0 /\ Bak = 1
         \/ gDataPerIdx = 1 /\ Bak = 0
  BY OrderCounts DEF Bak
<1>5. ASSUME gRxAllDataPer' \in [0 .. 1 -> [packets: Nat, errors: Nat]],
             gDataPerIdx' \in 0 .. 1, gRxAllData' \in [packets: Nat, errors: Nat],
             countPc' \in {"none", "swap", "addPackets", "addErrors"}
      PROVE  OrderTypeOK'
  BY <1>1, <1>5 DEF OrderTypeOK
<1>6. CASE UpdateRxDataPer(countPc)
  <2>1. /\ countPc = "swap" /\ gRxAllDataPer' = [gRxAllDataPer EXCEPT ![Bak] = Zero]
        /\ gDataPerIdx' = Bak /\ countPc' = "addPackets" /\ gRxAllData' = gRxAllData
    BY Zenon, <1>6 DEF UpdateRxDataPer
  <2>2. Zero \in [packets: Nat, errors: Nat] /\ Bak \in 0 .. 1
    BY OrderCounts DEF Zero
  <2>3. gRxAllDataPer' \in [0 .. 1 -> [packets: Nat, errors: Nat]]
    BY <2>1, <2>2, CounterTypes
  <2>4. OrderTypeOK'
    BY <1>5, <2>1, <2>2, <2>3 DEF OrderTypeOK
  <2>5. /\ gRxAllDataPer'[Bak].packets = 0 /\ gRxAllDataPer'[Bak].errors = 0
        /\ gRxAllDataPer'[gDataPerIdx] = gRxAllDataPer[gDataPerIdx]
    BY <2>1, OrderCounts, CounterTypes DEF Zero
  <2>6. /\ PacketsBehind' = PacketsBehind
        /\ ErrorsBehind' = ErrorsBehind
    BY <1>4, <2>1, <2>5 DEF PacketsBehind, ErrorsBehind
  <2>7. TotalsAgree'
    BY <1>1, <1>3, <2>1, <2>6 DEF TotalsAgree
  <2> QED  BY <1>2, <2>4, <2>7
<1>7. CASE AddPackets(countPc)
  <2>1. /\ countPc = "addPackets"
        /\ gRxAllData' = [gRxAllData EXCEPT !.packets = @ + gRxAllDataPer[Bak].packets]
        /\ countPc' = "addErrors" /\ UNCHANGED <<gRxAllDataPer, gDataPerIdx>>
    BY Zenon, <1>7 DEF AddPackets
  <2>2. /\ gRxAllData'.packets = gRxAllData.packets + gRxAllDataPer[Bak].packets
        /\ gRxAllData'.errors = gRxAllData.errors
    BY <2>1, CounterTypes
  <2>3. gRxAllData' \in [packets: Nat, errors: Nat]
    BY <2>1, OrderCounts, CounterTypes
  <2>4. OrderTypeOK'
    BY <1>5, <2>1, <2>3 DEF OrderTypeOK
  <2>5. /\ gRxAllData'.packets + PacketsBehind' = gRxAllData.packets + PacketsBehind
        /\ gRxAllData'.errors + ErrorsBehind' = gRxAllData.errors + ErrorsBehind
    BY <1>4, <2>1, <2>2 DEF PacketsBehind, ErrorsBehind
  <2>6. TotalsAgree'
    BY <1>1, <1>3, <2>5 DEF TotalsAgree
  <2> QED  BY <1>2, <2>4, <2>6
<1>8. CASE AddErrors(countPc)
  <2>1. /\ countPc = "addErrors"
        /\ gRxAllData' = [gRxAllData EXCEPT !.errors = @ + gRxAllDataPer[Bak].errors]
        /\ countPc' = "swap" /\ UNCHANGED <<gRxAllDataPer, gDataPerIdx>>
    BY Zenon, <1>8 DEF AddErrors
  <2>2. /\ gRxAllData'.errors = gRxAllData.errors + gRxAllDataPer[Bak].errors
        /\ gRxAllData'.packets = gRxAllData.packets
    BY <2>1, CounterTypes
  <2>3. gRxAllData' \in [packets: Nat, errors: Nat]
    BY <2>1, OrderCounts, CounterTypes
  <2>4. OrderTypeOK'
    BY <1>5, <2>1, <2>3 DEF OrderTypeOK
  <2>5. /\ gRxAllData'.packets + PacketsBehind' = gRxAllData.packets + PacketsBehind
        /\ gRxAllData'.errors + ErrorsBehind' = gRxAllData.errors + ErrorsBehind
    BY <1>4, <2>1, <2>2 DEF PacketsBehind, ErrorsBehind
  <2>6. TotalsAgree'
    BY <1>1, <1>3, <2>5 DEF TotalsAgree
  <2> QED  BY <1>2, <2>4, <2>6
<1> QED  BY Zenon, <1>6, <1>7, <1>8 DEF ThreadRecvCount

LEMMA OrderNextIInv == ASSUME OrderIInv, [OrderNext]_orderVars PROVE OrderIInv'
<1>1. CASE RxStart
  <2> USE DEF OrderIInv
  <2>1. /\ rx.pc = "init" /\ handler # "crashed"
        /\ \/ /\ rx' = [rx EXCEPT !.pc = "end"] /\ UNCHANGED <<errLog, countPc>>
           \/ /\ rx' = [rx EXCEPT !.pc = "recv"]
              /\ errLog' = "open" /\ countPc' = "swap"
        /\ UNCHANGED <<leftover, tx, wire, twice, gRxThdData, gRxAllDataPer,
                       gDataPerIdx, gRxAllData, handler, misuse, came, charged>>
    BY Zenon, <1>1 DEF RxStart, MainRuns, Alive
  <2>2. OrderTypeOK'
    BY <2>1 DEF OrderTypeOK
  <2>3. rx'.pc \in {"recv", "end"} /\ rx'.tid = rx.tid /\ rx'.sno = rx.sno
    BY <2>1, RxTypes
  <2>4. Finite' /\ ClosedByHandler'
    BY <2>1, <2>3 DEF Finite, Units, SentBy, Wrong, ClosedByHandler
  <2>5. TotalsAgree'
    <3>1. /\ PacketsBehind' = PacketsBehind
          /\ ErrorsBehind' = ErrorsBehind
      BY <2>1 DEF PacketsBehind, ErrorsBehind, ClosedByHandler
    <3>2. Total(Wrong)' = Total(Wrong)
      BY <2>1 DEF Wrong, Total, Units
    <3> QED  BY <2>1, <2>3, <3>1, <3>2 DEF TotalsAgree
  <2>6. InOrderSoFar'
    BY <2>1, <2>3 DEF InOrderSoFar, OrderedAt
  <2> QED  BY <2>2, <2>4, <2>5, <2>6
<1>2. CASE \E thread \in {"main", "count"} : RxSigHandler(thread)
  <2> USE DEF OrderIInv
  <2>1. /\ handler' \in {"main", "count", "crashed"} /\ handler = "none"
        /\ errLog' = errLog \/ (errLog' = "closed" /\ handler' \in {"main", "count"})
        /\ UNCHANGED <<leftover, tx, wire, twice, rx, gRxThdData, gRxAllDataPer,
                       gDataPerIdx, gRxAllData, countPc, misuse, came, charged>>
    <3>1. PICK thread \in {"main", "count"} : RxSigHandler(thread)
      BY <1>2
    <3>2. handler = "none" /\ thread \in {"main", "count"}
      BY Zenon, <3>1 DEF RxSigHandler
    <3>3. \/ handler' = "crashed" /\ errLog' = errLog
          \/ handler' = thread /\ errLog' = "closed"
      BY Zenon, <3>1 DEF RxSigHandler
    <3>4. UNCHANGED <<leftover, tx, wire, twice, rx, gRxThdData, gRxAllDataPer,
                      gDataPerIdx, gRxAllData, countPc, misuse, came, charged>>
      BY Zenon, <3>1 DEF RxSigHandler, countOnly
    <3> QED  BY <3>2, <3>3, <3>4
  <2>2. OrderTypeOK'
    BY <2>1 DEF OrderTypeOK
  <2>3. Finite' /\ TotalsAgree'
    BY <2>1 DEF Finite, TotalsAgree, PacketsBehind, ErrorsBehind, Total, Units, SentBy, Wrong
  <2>4. InOrderSoFar'
    BY Zenon, <2>1, OrderKept
  <2>5. ClosedByHandler'
    BY <2>1 DEF ClosedByHandler
  <2> QED  BY <2>2, <2>3, <2>4, <2>5
<1>3. CASE UNCHANGED orderVars
  <2>1. UNCHANGED <<leftover, tx, wire, twice, rx, gRxThdData, gRxAllDataPer, gDataPerIdx,
                    gRxAllData, countPc, errLog, handler, misuse, came, charged>>
    BY Zenon, <1>3 DEF orderVars
  <2>2. OrderTypeOK'
    BY Zenon, <2>1 DEF OrderTypeOK, OrderIInv
  <2>3. Finite' /\ TotalsAgree'
    BY <2>1 DEF OrderIInv, Finite, TotalsAgree, PacketsBehind, ErrorsBehind, Total, Units,
                SentBy, Wrong
  <2>4. InOrderSoFar' /\ ClosedByHandler'
    BY Zenon, <2>1, OrderKept DEF OrderIInv, ClosedByHandler
  <2> QED  BY <2>2, <2>3, <2>4 DEF OrderIInv
<1> QED
  BY Zenon, <1>1, <1>2, <1>3, OrderTxSend, OrderRecv, OrderCountPacket, OrderCheckSno,
     OrderCountError, OrderExpect, OrderThreadRecvCount
  DEF OrderNext

LEMMA OrderInvClean == OrderIInv => CleanMeansInOrder
  BY DEF OrderIInv, InOrderSoFar, OrderedAt, CleanMeansInOrder

(* A record is written after it was closed by the main thread only, while  *)
(* the handler waits in the other.                                         *)
LEMMA OrderMisuse ==
    ASSUME OrderIInv, [OrderNext]_orderVars
    PROVE  misuse' /\ ~misuse => handler = "count"
<1>1. CASE CheckSno \/ CountError
  <2>1. MainRuns /\ (misuse' = misuse \/ misuse' = (misuse \/ errLog = "closed"))
    BY Zenon, <1>1 DEF CheckSno, CountError, Record
  <2> QED  BY Zenon, <2>1 DEF MainRuns, OrderIInv, ClosedByHandler
<1>2. CASE ~(CheckSno \/ CountError)
  <2>1. misuse' = misuse
    BY Zenon, <1>2
    DEF OrderNext, orderVars, TxSend, rxOnly, RxStart, Recv, RecvFail, CountPacket,
        Expect, ThreadRecvCount, RxSigHandler
  <2> QED  BY Zenon, <2>1
<1> QED  BY Zenon, <1>1, <1>2

-----------------------------------------------------------------------------
(* InternetChecksum.  The loops over the words of a header are followed    *)
(* from left to right by an invariant: the register and the reference hold *)
(* the same value modulo Word - 1, with 0 for the sum of nothing only.     *)

LEMMA QuotientIs ==
    ASSUME NEW m \in Int, m > 0, NEW a \in Int, NEW q \in Int, NEW r \in 0 .. m - 1,
           a = m * q + r
    PROVE  a \div m = q /\ a % m = r
<1> DEFINE p == a \div m  s == a % m
<1>1. p \in Int /\ s \in 0 .. m - 1 /\ a = m * p + s
  BY Division
<1> HIDE DEF p, s
<1>2. m * p + s = m * q + r
  BY <1>1
<1>3. p = q /\ s = r
  BY <1>1, <1>2, DivisionUnique
<1> QED  BY <1>3 DEF p, s

LEMMA FromZeroUp ==
    ASSUME NEW P, 0 \in P, \A n \in Nat : n \in P => n + 1 \in P
    PROVE  \A n \in Nat : n \in P
<1> DEFINE T == Nat \ P
<1> SUFFICES ASSUME T # {} PROVE FALSE
  OBVIOUS
<1>1. PICK x \in T : \A y \in T : ~(<<y, x>> \in OpToRel(<, Nat))
  BY NatLessThanWellFounded, WFMin
<1>2. x \in Nat /\ x # 0 /\ x - 1 \in Nat /\ x - 1 < x /\ (x - 1) + 1 = x
  OBVIOUS
<1>3. x - 1 \in T
  BY <1>2
<1>4. <<x - 1, x>> \in OpToRel(<, Nat)
  BY <1>2 DEF OpToRel
<1> QED  BY <1>1, <1>3, <1>4

(* What a loop that adds a word at a time computes exists.                 *)
IsLoop(f, base, step, N) ==
    /\ f[0] = base
    /\ \A n \in 1 .. N : f[n] = step[<<f[n - 1], n>>]

LEMMA LoopExists ==
    ASSUME NEW X, NEW base \in X, NEW step \in [X \X Nat -> X], NEW N \in Nat
    PROVE  \E f \in [0 .. N -> X] : IsLoop(f, base, step, N)
<1> DEFINE Loop(f, m) == /\ f[0] = base
                         /\ \A n \in 1 .. m : f[n] = step[<<f[n - 1], n>>]
                         /\ \A n \in 0 .. m : f[n] \in X
           P == {m \in Nat : \E f : Loop(f, m)}
<1>1. 0 \in P
  <2>1. Loop([n \in 0 .. 0 |-> base], 0)
    OBVIOUS
  <2> QED  BY <2>1
<1>2. ASSUME NEW m \in Nat, m \in P PROVE m + 1 \in P
  <2>1. PICK f : Loop(f, m)
    BY <1>2
  <2> HIDE DEF P
  <2> DEFINE g == [n \in 0 .. (m + 1) |->
                     IF n = m + 1 THEN step[<<f[m], m + 1>>] ELSE f[n]]
  <2>2. /\ \A n \in 0 .. m : g[n] = f[n]
        /\ g[m + 1] = step[<<f[m], m + 1>>] /\ m \in 0 .. m /\ 0 \in 0 .. m
    <3>1. /\ \A n \in 0 .. m : n \in 0 .. (m + 1) /\ n # m + 1
          /\ m + 1 \in 0 .. (m + 1) /\ m \in 0 .. m /\ 0 \in 0 .. m
      OBVIOUS
    <3> HIDE DEF Loop
    <3> QED  BY <3>1
  <2> HIDE DEF g
  <2>3. g[0] = base
    BY <2>1, <2>2
  <2>4. ASSUME NEW n \in 1 .. (m + 1) PROVE g[n] = step[<<g[n - 1], n>>] /\ g[n] \in X
    <3>1. CASE n = m + 1
      <4>1. n - 1 = m
        BY <3>1
      <4>2. g[m] = f[m] /\ f[m] \in X /\ m + 1 \in Nat
        BY <2>1, <2>2
      <4> QED  BY <2>2, <3>1, <4>1, <4>2
    <3>2. CASE n # m + 1
      <4>1. n \in 1 .. m /\ n \in 0 .. m /\ n - 1 \in 0 .. m
        BY <3>2
      <4>2. /\ g[n] = f[n] /\ g[n - 1] = f[n - 1] /\ f[n] \in X
            /\ f[n] = step[<<f[n - 1], n>>]
        BY <2>1, <2>2, <4>1
      <4> QED  BY <4>2
    <3> QED  BY <3>1, <3>2
  <2>5. Loop(g, m + 1)
    <3>1. \A n \in 0 .. (m + 1) : n = 0 \/ n \in 1 .. (m + 1)
      OBVIOUS
    <3> QED  BY <2>3, <2>4, <3>1
  <2> HIDE DEF Loop
  <2> QED  BY <2>5 DEF P
<1>3. N \in P
  <2> HIDE DEF P
  <2> QED  BY <1>1, <1>2, FromZeroUp
<1>4. PICK f : Loop(f, N)
  BY <1>3
<1> DEFINE g == [n \in 0 .. N |-> f[n]]
<1>5. g \in [0 .. N -> X] /\ g[0] = base
  BY <1>4
<1>6. \A n \in 1 .. N : g[n] = step[<<g[n - 1], n>>]
  <2>1. \A n \in 1 .. N : n \in 0 .. N /\ n - 1 \in 0 .. N
    OBVIOUS
  <2> QED  BY <1>4, <2>1
<1> QED  BY <1>5, <1>6 DEF IsLoop

(* The loop over the words of a header.                                    *)
LEMMA SummedLoop ==
    ASSUME NEW add \in [Nat \X Nat -> Nat], NEW words \in Seq(Nat)
    PROVE  \E sum \in [0 .. Len(words) -> Nat] :
              /\ sum[0] = 0
              /\ \A n \in 1 .. Len(words) : sum[n] = add[<<sum[n - 1], words[n]>>]
              /\ Summed(add, words) = sum[Len(words)]
<1> DEFINE N == Len(words)
           Is(f) == f = [n \in 0 .. N |-> IF n = 0 THEN 0 ELSE add[<<f[n - 1], words[n]>>]]
           sum == CHOOSE f : Is(f)
<1>1. N \in Nat /\ \A n \in 1 .. N : words[n] \in Nat
  OBVIOUS
<1>2. \E f : Is(f)
  <2> DEFINE step == [p \in Nat \X Nat |->
                        add[<<p[1], IF p[2] \in 1 .. N THEN words[p[2]] ELSE 0>>]]
  <2>1. step \in [Nat \X Nat -> Nat]
    BY <1>1
  <2>2. ASSUME NEW a \in Nat, NEW n \in 1 .. N PROVE step[<<a, n>>] = add[<<a, words[n]>>]
    <3>1. /\ <<a, n>> \in Nat \X Nat /\ <<a, n>>[1] = a /\ <<a, n>>[2] = n
      BY <1>1
    <3> QED  BY <3>1
  <2> HIDE DEF step, N
  <2>3. PICK f \in [0 .. N -> Nat] : IsLoop(f, 0, step, N)
    <3>1. 0 \in Nat /\ N \in Nat
      BY <1>1
    <3> QED  BY <3>1, <2>1, LoopExists
  <2>4. \A n \in 0 .. N : n # 0 => n \in 1 .. N /\ n - 1 \in 0 .. N
    BY <1>1
  <2>5. \A n \in 0 .. N : f[n] = IF n = 0 THEN 0 ELSE add[<<f[n - 1], words[n]>>]
    BY <2>2, <2>3, <2>4 DEF IsLoop
  <2>6. Is(f)
    BY <2>3, <2>5
  <2> QED  BY <2>6
<1>3. Is(sum)
  BY <1>2
<1>4. Summed(add, words) = sum[N]
  BY DEF Summed
<1> HIDE DEF sum, N
<1>5. 0 \in 0 .. N /\ \A n \in 1 .. N : n \in 0 .. N /\ n - 1 \in 0 .. N /\ n # 0
  BY <1>1
<1>6. sum[0] = 0 /\ \A n \in 1 .. N : sum[n] = add[<<sum[n - 1], words[n]>>]
  BY <1>3, <1>5
<1>7. \A n \in 0 .. N : sum[n] \in Nat
  <2> DEFINE P == {n \in Nat : n <= N => sum[n] \in Nat}
  <2>1. 0 \in P
    BY <1>6
  <2>2. ASSUME NEW n \in Nat, n \in P PROVE n + 1 \in P
    <3>1. CASE n + 1 <= N
      <4>1. sum[n] \in Nat /\ n + 1 \in 1 .. N /\ (n + 1) - 1 = n
        BY <1>1, <2>2, <3>1
      <4>2. sum[n + 1] = add[<<sum[n], words[n + 1]>>] /\ words[n + 1] \in Nat
        BY <1>1, <1>6, <4>1
      <4> QED  BY <4>1, <4>2
    <3>2. CASE ~(n + 1 <= N)
      BY <3>2
    <3> QED  BY <3>1, <3>2
  <2> HIDE DEF P
  <2>3. \A n \in Nat : n \in P
    BY <2>1, <2>2, FromZeroUp
  <2> QED  BY <1>1, <2>3 DEF P
<1>8. sum \in [0 .. N -> Nat]
  BY <1>3, <1>7
<1> QED  BY <1>4, <1>6, <1>8 DEF N

(* What the three loops do with a sum and a word.                          *)
LEMMA Adders ==
    /\ Plain \in [Nat \X Nat -> Nat] /\ Carrying \in [Nat \X Nat -> Nat]
    /\ EndAround \in [Nat \X Nat -> Nat]
    /\ \A a, w \in Nat :
         /\ Plain[<<a, w>>] = a + w
         /\ Carrying[<<a, w>>] = IF a + w >= TopBit THEN Carried(a + w) ELSE a + w
         /\ EndAround[<<a, w>>] = IF a + w >= Word THEN a + w - Word + 1 ELSE a + w
<1>1. \A s \in Nat : Carried(s) \in Nat
  BY WordAssumption DEF Carried
<1>2. \A s \in Nat : s >= Word => s - Word + 1 \in Nat
  BY WordAssumption
<1>3. \A p \in Nat \X Nat : p[1] \in Nat /\ p[2] \in Nat /\ p[1] + p[2] \in Nat
  OBVIOUS
<1>4. /\ Plain \in [Nat \X Nat -> Nat] /\ Carrying \in [Nat \X Nat -> Nat]
      /\ EndAround \in [Nat \X Nat -> Nat]
  BY <1>1, <1>2, <1>3 DEF Plain, Carrying, EndAround
<1>5. ASSUME NEW a \in Nat, NEW w \in Nat
      PROVE  /\ Plain[<<a, w>>] = a + w
             /\ Carrying[<<a, w>>] = IF a + w >= TopBit THEN Carried(a + w) ELSE a + w
             /\ EndAround[<<a, w>>] = IF a + w >= Word THEN a + w - Word + 1 ELSE a + w
  <2>1. <<a, w>> \in Nat \X Nat /\ <<a, w>>[1] = a /\ <<a, w>>[2] = w
    OBVIOUS
  <2>2. Plain[<<a, w>>] = a + w
    BY <2>1 DEF Plain
  <2>3. Carrying[<<a, w>>] = IF a + w >= TopBit THEN Carried(a + w) ELSE a + w
    BY <2>1 DEF Carrying
  <2>4. EndAround[<<a, w>>] = IF a + w >= Word THEN a + w - Word + 1 ELSE a + w
    BY <2>1, WordAssumption DEF EndAround
  <2> QED  BY <2>2, <2>3, <2>4
<1> QED  BY <1>4, <1>5

(* The one's complement value r of a sum s: the sum without its multiples  *)
(* of Word - 1, and 0 for the sum of nothing only.                         *)
Ones(s, r) ==
    /\ r \in 0 .. Word - 1 /\ (r = 0 <=> s = 0)
    /\ \E k \in Int : s = r + k * (Word - 1)

LEMMA WordIsNumber == Word \in Int /\ Word > 8 /\ Word - 1 \in Int
  BY WordAssumption

LEMMA OnesUnique ==
    ASSUME NEW s \in Nat, NEW r, NEW q, Ones(s, r), Ones(s, q) PROVE r = q
<1> DEFINE m == Word - 1
<1>1. m \in Int /\ m > 0 /\ r \in 0 .. m /\ q \in 0 .. m
  BY WordIsNumber DEF Ones
<1>2. PICK k \in Int, j \in Int : s = r + k * m /\ s = q + j * m
  BY DEF Ones
<1>3. CASE s = 0
  BY <1>3 DEF Ones
<1>4. CASE s # 0
  <2>1. r - 1 \in 0 .. m - 1 /\ q - 1 \in 0 .. m - 1
    BY <1>1, <1>4 DEF Ones
  <2> HIDE DEF m
  <2>2. m * k + (r - 1) = m * j + (q - 1)
    <3>1. m * k = k * m /\ m * j = j * m /\ k * m \in Int /\ j * m \in Int
      BY <1>1
    <3>2. k * m + r = j * m + q
      BY <1>1, <1>2, <3>1
    <3> QED  BY <1>1, <3>1, <3>2
  <2>3. r - 1 = q - 1
    BY <1>1, <2>1, <2>2, DivisionUnique
  <2> QED  BY <1>1, <2>3
<1> QED  BY <1>3, <1>4

LEMMA OnesOfWord == ASSUME NEW w \in 0 .. Word - 1 PROVE Ones(w, w)
<1>1. w = w + 0 * (Word - 1)
  BY WordIsNumber
<1> QED  BY <1>1 DEF Ones

(* The reference adds a word.                                              *)
LEMMA OnesAdd ==
    ASSUME NEW s \in Nat, NEW r, Ones(s, r), NEW w \in 0 .. Word - 1
    PROVE  Ones(s + w, EndAround[<<r, w>>])
<1> DEFINE m == Word - 1
<1>1. /\ m \in Int /\ m > 7 /\ Word = m + 1 /\ r \in 0 .. m /\ w \in 0 .. m
      /\ r \in Nat /\ w \in Nat
  BY WordIsNumber DEF Ones
<1>2. PICK k \in Int : s = r + k * m
  BY DEF Ones
<1>3. EndAround[<<r, w>>] = IF r + w >= Word THEN r + w - Word + 1 ELSE r + w
  BY <1>1, Adders
<1> HIDE DEF m
<1>4. CASE r + w >= Word
  <2>1. EndAround[<<r, w>>] = r + w - m /\ r + w - m \in 1 .. m /\ s + w # 0
    BY <1>1, <1>3, <1>4
  <2>2. s + w = (r + w - m) + (k + 1) * m
    <3>1. (k + 1) * m = k * m + m /\ k * m \in Int
      BY <1>1
    <3> QED  BY <1>1, <1>2, <3>1
  <2> QED  BY <2>1, <2>2 DEF Ones, m
<1>5. CASE ~(r + w >= Word)
  <2>1. EndAround[<<r, w>>] = r + w /\ r + w \in 0 .. m
    BY <1>1, <1>3, <1>5
  <2>2. s + w = (r + w) + k * m
    <3>1. k * m \in Int
      BY <1>1
    <3> QED  BY <1>1, <1>2, <3>1
  <2>3. r + w = 0 <=> s + w = 0
    <3>1. r = 0 <=> s = 0
      BY DEF Ones
    <3> QED  BY <1>1, <3>1
  <2> QED  BY <2>1, <2>2, <2>3 DEF Ones, m
<1> QED  BY <1>4, <1>5

(* Folding the carry in does not change the value.                         *)
LEMMA OnesCarried ==
    ASSUME NEW s \in Nat
    PROVE  /\ Carried(s) \in Nat /\ (Carried(s) = 0 <=> s = 0)
           /\ \E j \in Int : s = Carried(s) + j * (Word - 1)
<1> DEFINE q == s \div Word  r == s % Word
<1>1. q \in Int /\ r \in 0 .. Word - 1 /\ s = Word * q + r
  BY WordIsNumber, Division
<1>2. Carried(s) = q + r
  BY DEF Carried
<1> HIDE DEF q, r
<1>3. q >= 0
  <2>1. CASE q < 0
    <3>1. Word * q <= Word * (-1) 
      BY <1>1, <2>1, WordIsNumber
    <3> QED  BY <1>1, <3>1, WordIsNumber
  <2> QED  BY <1>1, <2>1
<1>4. Word * q = q + q * (Word - 1)
  BY <1>1, WordIsNumber
<1>5. s = Carried(s) + q * (Word - 1)
  <2>1. q * (Word - 1) \in Int
    BY <1>1, WordIsNumber
  <2> QED  BY <1>1, <1>2, <1>4, <2>1, WordIsNumber
<1>a. q = 0 => Word * q = 0
  BY WordIsNumber
<1>6. q + r = 0 => s = 0
  <2>1. q + r = 0 => q = 0 /\ r = 0
    BY <1>1, <1>3, WordIsNumber
  <2> QED  BY <1>1, <1>a, <2>1
<1>7. s = 0 => q + r = 0
  <2>1. CASE q > 0
    <3>1. Word * q >= Word * 1
      BY <1>1, <2>1, WordIsNumber
    <3> QED  BY <1>1, <3>1, WordIsNumber
  <2>2. CASE q = 0
    BY <1>1, <1>a, <2>2, WordIsNumber
  <2> QED  BY <1>1, <1>3, <2>1, <2>2
<1> QED  BY <1>1, <1>2, <1>3, <1>5, <1>6, <1>7

(* The register of the loop keeps the value, whether it is folded on the   *)
(* way or not.                                                             *)
LEMMA OnesPlain ==
    ASSUME NEW s \in Nat, NEW r, Ones(s, r), NEW j \in Int, NEW c \in Nat,
           s = c + j * (Word - 1), c = 0 <=> s = 0
    PROVE  Ones(c, r)
<1> DEFINE m == Word - 1
<1>1. m \in Int /\ r \in 0 .. m
  BY WordIsNumber DEF Ones
<1>2. PICK k \in Int : s = r + k * m
  BY DEF Ones
<1> HIDE DEF m
<1>3. (k - j) * m = k * m - j * m /\ k * m \in Int /\ j * m \in Int
  BY <1>1
<1>4. s = c + j * m
  BY DEF m
<1>5. c = r + (k - j) * m
  BY <1>1, <1>2, <1>3, <1>4
<1>6. k - j \in Int
  OBVIOUS
<1> QED  BY <1>5, <1>6 DEF Ones, m

LEMMA OneWordMore ==
    ASSUME NEW a \in Word .. 2 * Word - 1
    PROVE  a \div Word = 1 /\ a % Word = a - Word
<1>1. /\ a = Word * 1 + (a - Word) /\ a - Word \in 0 .. Word - 1
      /\ a \in Int /\ 1 \in Int /\ Word \in Int /\ Word > 0
  BY WordIsNumber
<1> QED  BY <1>1, QuotientIs, Zenon

(* Both carries give the value of a register of two words.                 *)
LEMMA OnesFolded ==
    ASSUME NEW s \in 0 .. Word * Word - 1
    PROVE  Ones(s, Folded(s) % Word) /\ Folded(s) \in Nat
<1> DEFINE q == s \div Word  r == s % Word
<1>1. s \in Nat /\ Word * Word \in Int
  BY WordIsNumber
<1>2. q \in Int /\ r \in 0 .. Word - 1 /\ s = Word * q + r
  BY <1>1, WordIsNumber, Division
<1>3. Carried(s) = q + r
  BY DEF Carried
<1> HIDE DEF q, r
<1>4. q <= Word - 1
  <2>1. CASE q >= Word
    <3>1. Word * q >= Word * Word
      BY <1>2, <2>1, WordIsNumber
    <3> QED  BY <1>1, <1>2, <3>1, WordIsNumber
  <2> QED  BY <1>2, <2>1, WordIsNumber
<1>5. PICK j \in Int : /\ Carried(s) \in Nat /\ (Carried(s) = 0 <=> s = 0)
                       /\ s = Carried(s) + j * (Word - 1)
  BY <1>1, OnesCarried
<1>c. PICK c : c = Carried(s)
  OBVIOUS
<1>6. c \in Nat /\ c <= 2 * Word - 2
  BY <1>2, <1>3, <1>4, <1>5, <1>c, WordIsNumber
<1>7. Folded(s) = c + (c \div Word)
  BY <1>c DEF Folded
<1>8. CASE c < Word
  <2>1. c \div Word = 0 /\ c % Word = c
    BY <1>6, <1>8, WordIsNumber
  <2>2. Folded(s) % Word = c /\ Folded(s) = c
    BY <1>6, <1>7, <2>1
  <2>3. Ones(s, c)
    <3>1. s = c + j * (Word - 1) /\ (c = 0 <=> s = 0)
      BY <1>5, <1>c
    <3>2. c \in 0 .. Word - 1
      BY <1>6, <1>8, WordIsNumber
    <3> QED  BY <3>1, <3>2 DEF Ones
  <2> QED  BY <1>6, <2>2, <2>3
<1>9. CASE c >= Word
  <2>1. c \div Word = 1
    BY <1>6, <1>9, WordIsNumber, OneWordMore
  <2>2. Folded(s) = c + 1 /\ Folded(s) \in Nat
    BY <1>6, <1>7, <2>1
  <2>3. Folded(s) % Word = c + 1 - Word
    <3>1. c + 1 \in Word .. 2 * Word - 1
      BY <1>6, <1>9, WordIsNumber
    <3>2. (c + 1) % Word = (c + 1) - Word
      BY <3>1, OneWordMore, Zenon
    <3> QED  BY <1>6, <2>2, <3>2, WordIsNumber
  <2>4. c + 1 - Word \in 1 .. Word - 1
    BY <1>6, <1>9, WordIsNumber
  <2>5. s = (c + 1 - Word) + (j + 1) * (Word - 1)
    <3> DEFINE m == Word - 1
    <3>1. m \in Int /\ Word = m + 1
      BY WordIsNumber
    <3>2. s = c + j * m
      BY <1>5, <1>c DEF m
    <3> HIDE DEF m
    <3>3. (j + 1) * m = j * m + m /\ j * m \in Int
      BY <3>1
    <3>4. s = (c - m) + (j + 1) * m /\ c + 1 - Word = c - m
      BY <1>6, <3>1, <3>2, <3>3
    <3> QED  BY <3>4 DEF m
  <2>6. s # 0
    BY <1>5, <1>6, <1>9, <1>c, WordIsNumber
  <2> QED  BY <2>2, <2>3, <2>4, <2>5, <2>6 DEF Ones
<1> QED  BY <1>6, <1>8, <1>9, WordIsNumber

(* The register of the folding loop never holds more than two words.       *)
LEMMA CarryingFits ==
    ASSUME NEW c \in 0 .. Word * Word - 1, NEW w \in 0 .. Word - 1
    PROVE  Carrying[<<c, w>>] \in 0 .. Word * Word - 1
<1> DEFINE b == c + w  d == Word * Word
<1>1. /\ d \in Int /\ d >= 9 * Word /\ Word \in Int /\ Word > 8
  BY WordIsNumber
<1> HIDE DEF d
<1>2. c \in 0 .. d - 1
  BY DEF d
<1>3. c \in Nat /\ w \in Nat /\ b \in Nat /\ b <= d + Word
  BY <1>1, <1>2
<1>4. Carrying[<<c, w>>] = IF b >= TopBit THEN Carried(b) ELSE b
  BY <1>3, Adders
<1>5. TopBit \in Int /\ TopBit <= d
  <2>1. TopBit \in Int /\ d % 2 \in 0 .. 1 /\ d = 2 * TopBit + (d % 2)
    BY <1>1, Division DEF TopBit, d
  <2> QED  BY <1>1, <2>1
<1>6. CASE b >= TopBit
  <2> DEFINE q == b \div Word  r == b % Word
  <2>1. q \in Int /\ r \in 0 .. Word - 1 /\ b = Word * q + r
    BY <1>1, <1>3, Division
  <2>2. Carried(b) = q + r /\ Carried(b) \in Nat
    BY <1>3, OnesCarried DEF Carried
  <2> HIDE DEF q, r, b
  <2>3. q <= Word + 1
    <3>1. CASE q >= Word + 2
      <4>1. Word * q >= Word * (Word + 2) /\ Word * (Word + 2) = d + 2 * Word
        BY <1>1, <2>1, <3>1 DEF d
      <4> QED  BY <1>1, <1>3, <2>1, <4>1
    <3> QED  BY <1>1, <2>1, <3>1
  <2>4. Carried(b) \in 0 .. d - 1
    BY <1>1, <2>1, <2>2, <2>3
  <2> QED  BY <1>4, <1>6, <2>4 DEF d
<1>7. CASE ~(b >= TopBit)
  <2> HIDE DEF b
  <2>1. Carrying[<<c, w>>] = b /\ b \in 0 .. d - 1
    BY <1>1, <1>3, <1>4, <1>5, <1>7
  <2> QED  BY <2>1 DEF d
<1> QED  BY <1>6, <1>7

LEMMA OnesCarrying ==
    ASSUME NEW c \in 0 .. Word * Word - 1, NEW w \in 0 .. Word - 1, NEW r, Ones(c, r)
    PROVE  Ones(Carrying[<<c, w>>], EndAround[<<r, w>>])
<1> DEFINE b == c + w
<1>1. c \in Nat /\ w \in Nat /\ b \in Nat
  BY WordIsNumber
<1>2. Carrying[<<c, w>>] = IF b >= TopBit THEN Carried(b) ELSE b
  BY <1>1, Adders
<1>3. Ones(b, EndAround[<<r, w>>])
  BY <1>1, OnesAdd
<1> HIDE DEF b
<1>4. Ones(Carried(b), EndAround[<<r, w>>])
  BY <1>1, <1>3, OnesCarried, OnesPlain
<1> QED  BY <1>2, <1>3, <1>4

LEMMA WordsOf ==
    ASSUME NEW W, W \subseteq Nat, NEW words \in Seq(W)
    PROVE  /\ Len(words) \in Nat /\ words \in Seq(Nat)
           /\ \A n \in 1 .. Len(words) : words[n] \in W
<1>1. Len(words) \in Nat /\ \A n \in 1 .. Len(words) : words[n] \in W
  OBVIOUS
<1>2. words \in [1 .. Len(words) -> Nat]
  <2>1. DOMAIN words = 1 .. Len(words) /\ words = [n \in 1 .. Len(words) |-> words[n]]
    OBVIOUS
  <2> QED  BY <1>1, <2>1
<1>3. words \in Seq(Nat)
  BY <1>1, <1>2
<1> QED  BY <1>1, <1>3

(* What the loops leave of the words of a header.                          *)
LEMMA Sums ==
    ASSUME NEW words \in Seq(0 .. Word - 1)
    PROVE  /\ Summed(Plain, words) \in Nat
           /\ Summed(Plain, words) <= Len(words) * (Word - 1)
           /\ Ones(Summed(Plain, words), OnesSum(words))
           /\ Summed(Carrying, words) \in 0 .. Word * Word - 1
           /\ Ones(Summed(Carrying, words), OnesSum(words))
<1> DEFINE N == Len(words)
<1>1. N \in Nat /\ words \in Seq(Nat) /\ \A n \in 1 .. N : words[n] \in 0 .. Word - 1
  <2>1. 0 .. Word - 1 \subseteq Nat
    OBVIOUS
  <2> QED  BY <2>1, WordsOf
<1>2. PICK p \in [0 .. N -> Nat] :
         /\ p[0] = 0 /\ \A n \in 1 .. N : p[n] = Plain[<<p[n - 1], words[n]>>]
         /\ Summed(Plain, words) = p[N]
  BY <1>1, Adders, SummedLoop
<1>3. PICK c \in [0 .. N -> Nat] :
         /\ c[0] = 0 /\ \A n \in 1 .. N : c[n] = Carrying[<<c[n - 1], words[n]>>]
         /\ Summed(Carrying, words) = c[N]
  BY <1>1, Adders, SummedLoop
<1>4. PICK o \in [0 .. N -> Nat] :
         /\ o[0] = 0 /\ \A n \in 1 .. N : o[n] = EndAround[<<o[n - 1], words[n]>>]
         /\ Summed(EndAround, words) = o[N]
  BY <1>1, Adders, SummedLoop
<1> DEFINE Good(n) == /\ p[n] <= n * (Word - 1) /\ Ones(p[n], o[n])
                      /\ c[n] \in 0 .. Word * Word - 1 /\ Ones(c[n], o[n])
           P == {n \in Nat : n <= N => Good(n)}
<1> HIDE DEF N
<1>5. 0 \in P
  <2>1. Ones(0, 0) /\ 0 \in 0 .. Word * Word - 1 /\ 0 * (Word - 1) = 0
    BY WordIsNumber, OnesOfWord
  <2> QED  BY <1>2, <1>3, <1>4, <2>1
<1>6. ASSUME NEW n \in Nat, n \in P PROVE n + 1 \in P
  <2> SUFFICES ASSUME n + 1 <= N PROVE Good(n + 1)
    OBVIOUS
  <2>1. /\ n \in 0 .. N /\ n + 1 \in 1 .. N /\ (n + 1) - 1 = n
        /\ words[n + 1] \in 0 .. Word - 1 /\ words[n + 1] \in Nat
    BY <1>1
  <2>2. Good(n)
    BY <1>1, <1>6
  <2>3. /\ p[n] \in Nat /\ c[n] \in Nat /\ o[n] \in Nat
        /\ p[n + 1] = p[n] + words[n + 1]
        /\ c[n + 1] = Carrying[<<c[n], words[n + 1]>>]
        /\ o[n + 1] = EndAround[<<o[n], words[n + 1]>>]
    <3>1. p[n] \in Nat /\ c[n] \in Nat /\ o[n] \in Nat
      BY <2>1
    <3>2. /\ p[n + 1] = Plain[<<p[n], words[n + 1]>>]
          /\ c[n + 1] = Carrying[<<c[n], words[n + 1]>>]
          /\ o[n + 1] = EndAround[<<o[n], words[n + 1]>>]
      BY <1>2, <1>3, <1>4, <2>1
    <3>3. Plain[<<p[n], words[n + 1]>>] = p[n] + words[n + 1]
      BY <2>1, <3>1, Adders
    <3> QED  BY <3>1, <3>2, <3>3
  <2>4. p[n + 1] <= (n + 1) * (Word - 1)
    <3>1. ASSUME NEW a \in Nat, NEW w \in 0 .. Word - 1, a <= n * (Word - 1)
          PROVE  a + w <= (n + 1) * (Word - 1)
      <4>1. (n + 1) * (Word - 1) = n * (Word - 1) + (Word - 1) /\ n * (Word - 1) \in Int
        BY WordIsNumber
      <4> QED  BY <3>1, <4>1, WordIsNumber
    <3> QED  BY <2>1, <2>2, <2>3, <3>1
  <2>5. Ones(p[n + 1], o[n + 1])
    BY <2>1, <2>2, <2>3, OnesAdd
  <2>6. c[n + 1] \in 0 .. Word * Word - 1
    BY <2>1, <2>2, <2>3, CarryingFits
  <2>7. Ones(c[n + 1], o[n + 1])
    BY <2>1, <2>2, <2>3, OnesCarrying
  <2> QED  BY <2>4, <2>5, <2>6, <2>7
<1> HIDE DEF P
<1>7. N \in P
  BY <1>1, <1>5, <1>6, FromZeroUp
<1>8. Good(N)
  BY <1>1, <1>7 DEF P
<1>9. p[N] \in Nat
  BY <1>1
<1> QED  BY <1>2, <1>3, <1>4, <1>8, <1>9 DEF OnesSum, N

(* Both functions of the code compute the complement of the RFC's sum, the *)
(* one that folds at the end only for headers that cannot fill its         *)
(* register.                                                               *)
LEMMA ComplementOfSum ==
    ASSUME NEW words \in Seq(0 .. Word - 1)
    PROVE  /\ OnesSum(words) \in 0 .. Word - 1
           /\ CalcIpv4HdrCheckSum(words) = Word - 1 - OnesSum(words)
           /\ Len(words) <= Word => CalcCheckSum(words) = Word - 1 - OnesSum(words)
<1>1. /\ Summed(Plain, words) \in Nat
      /\ Summed(Plain, words) <= Len(words) * (Word - 1)
      /\ Ones(Summed(Plain, words), OnesSum(words))
      /\ Summed(Carrying, words) \in 0 .. Word * Word - 1
      /\ Ones(Summed(Carrying, words), OnesSum(words))
  BY Sums
<1>2. ASSUME NEW s \in 0 .. Word * Word - 1, Ones(s, OnesSum(words))
      PROVE  Complement(Folded(s)) = Word - 1 - OnesSum(words)
  <2>1. Ones(s, Folded(s) % Word)
    BY OnesFolded
  <2>2. s \in Nat
    BY WordIsNumber
  <2>3. Folded(s) % Word = OnesSum(words)
    BY <1>2, <2>1, <2>2, OnesUnique, Zenon
  <2> QED  BY <2>3 DEF Complement
<1>3. CalcIpv4HdrCheckSum(words) = Word - 1 - OnesSum(words)
  BY <1>1, <1>2 DEF CalcIpv4HdrCheckSum
<1>4. ASSUME Len(words) <= Word
      PROVE  CalcCheckSum(words) = Word - 1 - OnesSum(words)
  <2>1. Len(words) \in Nat
    OBVIOUS
  <2>2. Len(words) * (Word - 1) <= Word * (Word - 1) /\ Len(words) * (Word - 1) \in Int
    BY <1>4, <2>1, WordIsNumber
  <2>3. Word * (Word - 1) = Word * Word - Word /\ Word * Word \in Int
    BY WordIsNumber
  <2>4. Summed(Plain, words) \in 0 .. Word * Word - 1
    BY <1>1, <2>2, <2>3, WordIsNumber
  <2> QED  BY <1>1, <1>2, <2>4 DEF CalcCheckSum
<1>5. OnesSum(words) \in 0 .. Word - 1
  BY <1>1 DEF Ones
<1> QED  BY <1>3, <1>4, <1>5

(* One word of a header makes the difference it is to the sum.             *)
LEMMA OneWordChanged ==
    ASSUME NEW words \in Seq(0 .. Word - 1), NEW i \in 1 .. Len(words), NEW v \in 0 .. Word - 1
    PROVE  /\ [words EXCEPT ![i] = v] \in Seq(0 .. Word - 1)
           /\ Summed(Plain, [words EXCEPT ![i] = v]) + words[i] = Summed(Plain, words) + v
           /\ words[i] \in 0 .. Word - 1
           /\ Summed(Plain, words) \in Nat /\ Summed(Plain, [words EXCEPT ![i] = v]) \in Nat
<1> DEFINE N == Len(words)
           filled == [words EXCEPT ![i] = v]
<1>1. v \in Nat
  BY WordIsNumber
<1>2. /\ N \in Nat /\ words \in Seq(Nat) /\ \A n \in 1 .. N : words[n] \in 0 .. Word - 1
  <2>1. 0 .. Word - 1 \subseteq Nat
    OBVIOUS
  <2> QED  BY <2>1, WordsOf
<1>3. /\ filled \in Seq(0 .. Word - 1) /\ Len(filled) = N
      /\ \A n \in 1 .. N : filled[n] = IF n = i THEN v ELSE words[n]
  BY <1>1
<1>4. filled \in Seq(Nat)
  <2>1. 0 .. Word - 1 \subseteq Nat
    OBVIOUS
  <2> QED  BY <1>3, <2>1, WordsOf
<1> HIDE DEF filled
<1>5. PICK p \in [0 .. N -> Nat] :
         /\ p[0] = 0 /\ \A n \in 1 .. N : p[n] = Plain[<<p[n - 1], words[n]>>]
         /\ Summed(Plain, words) = p[N]
  BY <1>2, Adders, SummedLoop
<1>6. PICK q \in [0 .. N -> Nat] :
         /\ q[0] = 0 /\ \A n \in 1 .. N : q[n] = Plain[<<q[n - 1], filled[n]>>]
         /\ Summed(Plain, filled) = q[N]
  <2>1. \E q \in [0 .. Len(filled) -> Nat] :
         /\ q[0] = 0 /\ \A n \in 1 .. Len(filled) : q[n] = Plain[<<q[n - 1], filled[n]>>]
         /\ Summed(Plain, filled) = q[Len(filled)]
    BY <1>4, Adders, SummedLoop
  <2> QED  BY <1>3, <2>1
<1> HIDE DEF N
<1>7. i \in Nat /\ i \in 1 .. N /\ words[i] \in 0 .. Word - 1 /\ words[i] \in Nat
  <2>1. i \in 1 .. N
    BY DEF N
  <2>2. i \in Nat
    BY <1>2, <2>1
  <2> QED  BY <1>2, <2>1, <2>2
<1> DEFINE P == {n \in Nat : n <= N => IF n >= i THEN q[n] + words[i] = p[n] + v
                                                ELSE q[n] = p[n]}
<1>8. 0 \in P
  BY <1>1, <1>5, <1>6, <1>7
<1>9. ASSUME NEW n \in Nat, n \in P PROVE n + 1 \in P
  <2> SUFFICES ASSUME n + 1 <= N
               PROVE  IF n + 1 >= i THEN q[n + 1] + words[i] = p[n + 1] + v
                                    ELSE q[n + 1] = p[n + 1]
    OBVIOUS
  <2>1. /\ n \in 0 .. N /\ n + 1 \in 1 .. N /\ (n + 1) - 1 = n
    BY <1>2
  <2>2. /\ words[n + 1] \in Nat /\ filled[n + 1] \in Nat
        /\ filled[n + 1] = IF n + 1 = i THEN v ELSE words[n + 1]
    <3>1. /\ words[n + 1] \in 0 .. Word - 1
          /\ filled[n + 1] = IF n + 1 = i THEN v ELSE words[n + 1]
      BY <1>2, <1>3, <2>1
    <3> QED  BY <1>1, <2>1, <3>1
  <2>3. /\ p[n] \in Nat /\ q[n] \in Nat
        /\ IF n >= i THEN q[n] + words[i] = p[n] + v ELSE q[n] = p[n]
    BY <1>2, <1>9, <2>1
  <2>4. p[n + 1] = Plain[<<p[n], words[n + 1]>>] /\ q[n + 1] = Plain[<<q[n], filled[n + 1]>>]
    BY <1>5, <1>6, <2>1
  <2>5. p[n + 1] = p[n] + words[n + 1] /\ q[n + 1] = q[n] + filled[n + 1]
    BY <2>2, <2>3, <2>4, Adders
  <2>6. CASE n + 1 = i
    <3>1. words[n + 1] = words[i] /\ filled[n + 1] = v /\ ~(n >= i) /\ n + 1 >= i
      BY <1>7, <2>2, <2>6
    <3>2. q[n] = p[n] /\ q[n + 1] = q[n] + v /\ p[n + 1] = p[n] + words[i]
      BY <2>3, <2>5, <3>1
    <3>3. q[n + 1] + words[i] = p[n + 1] + v
      BY <1>1, <1>7, <2>3, <3>2
    <3> QED  BY <3>1, <3>3
  <2>7. CASE n + 1 # i
    <3>1. q[n + 1] = q[n] + words[n + 1] /\ (n + 1 >= i <=> n >= i)
      <4>1. filled[n + 1] = words[n + 1]
        BY <2>2, <2>7
      <4>2. n + 1 >= i <=> n >= i
        BY <1>7, <2>7
      <4> QED  BY <2>5, <4>1, <4>2
    <3>2. CASE n >= i
      <4>1. q[n] + words[i] = p[n] + v
        BY <2>3, <3>2
      <4>2. q[n + 1] + words[i] = p[n + 1] + v
        <5> DEFINE a == q[n]  b == p[n]  w == words[n + 1]  c == words[i]
        <5>1. a \in Nat /\ b \in Nat
          BY <2>3
        <5>2. w \in Nat /\ c \in Nat /\ v \in Nat
          BY <1>1, <1>7, <2>2
        <5>3. a + c = b + v
          BY <4>1
        <5>4. q[n + 1] = a + w /\ p[n + 1] = b + w
          BY <2>5, <3>1
        <5> HIDE DEF a, b, c, w
        <5>5. (a + w) + c = (b + w) + v
          BY <5>1, <5>2, <5>3
        <5>6. c = words[i]
          BY DEF c
        <5> QED  BY <5>4, <5>5, <5>6
      <4> QED  BY <3>1, <3>2, <4>2
    <3>3. CASE ~(n >= i)
      <4>1. q[n] = p[n]
        BY <2>3, <3>3
      <4> QED  BY <2>5, <3>1, <3>3, <4>1
    <3> QED  BY <3>2, <3>3
  <2> QED  BY <2>6, <2>7
<1> HIDE DEF P
<1>10. N \in P
  BY <1>2, <1>8, <1>9, FromZeroUp
<1>11. q[N] + words[i] = p[N] + v
  BY <1>2, <1>7, <1>10 DEF P
<1>12. p[N] \in Nat /\ q[N] \in Nat
  BY <1>2
<1> QED  BY <1>3, <1>5, <1>6, <1>7, <1>11, <1>12 DEF filled

(* A header with its checksum in place of a 0 is one the reference accepts *)
(* and one the code finds right; with another word that is greater by one  *)
(* it is neither.                                                          *)
LEMMA FilledVerifies ==
    ASSUME NEW words \in Seq(0 .. Word - 1), NEW i \in 1 .. Len(words), words[i] = 0,
           NEW sum, sum = Word - 1 - OnesSum(words)
    PROVE  /\ [words EXCEPT ![i] = sum] \in Seq(0 .. Word - 1)
           /\ Verifies([words EXCEPT ![i] = sum])
           /\ CalcIpv4HdrCheckSum([words EXCEPT ![i] = sum]) = 0
<1> DEFINE m == Word - 1
           o == OnesSum(words)
           a == Summed(Plain, words)
           filled == [words EXCEPT ![i] = sum]
           b == Summed(Plain, filled)
<1>1. m \in Int /\ m > 7 /\ o \in 0 .. m /\ sum = m - o /\ sum \in 0 .. m
  BY ComplementOfSum, WordIsNumber
<1>2. /\ filled \in Seq(0 .. m) /\ b = a + sum /\ a \in Nat /\ b \in Nat
  BY <1>1, OneWordChanged
<1>3. Ones(a, o) /\ Ones(b, OnesSum(filled))
  BY <1>2, Sums
<1>4. PICK k \in Int : a = o + k * m
  BY <1>3 DEF Ones
<1>5. o = 0 <=> a = 0
  BY <1>3 DEF Ones
<1> HIDE DEF a, b, o, filled
<1>6. Ones(b, m)
  <2> HIDE DEF m
  <2>1. b = m + k * m
    <3>1. k * m \in Int
      BY <1>1
    <3> QED  BY <1>1, <1>2, <1>4, <3>1
  <2>2. b # 0 /\ m # 0 /\ m \in 0 .. m
    BY <1>1, <1>2, <1>5
  <2> QED  BY <2>1, <2>2 DEF Ones, m
<1>7. OnesSum(filled) = m
  BY <1>2, <1>3, <1>6, OnesUnique
<1>8. CalcIpv4HdrCheckSum(filled) = 0
  BY <1>1, <1>2, <1>7, ComplementOfSum
<1> QED  BY <1>2, <1>7, <1>8 DEF Verifies, filled

-----------------------------------------------------------------------------
(* RawPackets.                                                             *)

(* What the transmitter builds.                                            *)
LEMMA BuiltHeader ==
    ASSUME NEW id \in 0 .. Word - 1, NEW src \in 0 .. Word - 1, NEW dst \in 0 .. Word - 1
    PROVE  /\ BuildIpv4Hdr(id, src, dst) \in Seq(0 .. Word - 1)
           /\ Verifies(BuildIpv4Hdr(id, src, dst))
           /\ CalcIpv4HdrCheckSum(BuildIpv4Hdr(id, src, dst)) = 0
<1> DEFINE words == Ipv4Hdr(id, 0, src, dst)
           sum == CalcIpv4HdrCheckSum(words)
<1>1. words \in Seq(0 .. Word - 1) /\ Len(words) = 8 /\ words[6] = 0 /\ 6 \in 1 .. Len(words)
  BY WordIsNumber DEF Ipv4Hdr
<1>2. sum = Word - 1 - OnesSum(words)
  BY <1>1, ComplementOfSum
<1>3. BuildIpv4Hdr(id, src, dst) = Ipv4Hdr(id, sum, src, dst)
  BY DEF BuildIpv4Hdr
<1> HIDE DEF sum
<1>4. Ipv4Hdr(id, sum, src, dst) = [words EXCEPT ![6] = sum]
  BY DEF Ipv4Hdr
<1> HIDE DEF words
<1>5. /\ [words EXCEPT ![6] = sum] \in Seq(0 .. Word - 1)
      /\ Verifies([words EXCEPT ![6] = sum])
      /\ CalcIpv4HdrCheckSum([words EXCEPT ![6] = sum]) = 0
  BY <1>1, <1>2, FilledVerifies
<1> QED  BY <1>3, <1>4, <1>5

(* The code finds a header right just when the reference does.             *)
LEMMA RightIsVerified ==
    ASSUME NEW words \in Seq(0 .. Word - 1)
    PROVE  CalcIpv4HdrCheckSum(words) = 0 <=> Verifies(words)
  BY ComplementOfSum, WordIsNumber DEF Verifies

(* The words of an IP header that passes the device, options or not.       *)
LEMMA RawConstants ==
    /\ Addresses \subseteq 0 .. Word - 1 /\ OptionWords \subseteq 0 .. Word - 1
    /\ Ports \subseteq Nat /\ Cuts \subseteq 0 .. 10 /\ RAW_NUM \in Nat
  BY RawAssumption

LEMMA OptionsAreWords == ASSUME NEW o \in Options PROVE o \in Seq(0 .. Word - 1)
<1>1. CASE o = <<>>
  BY <1>1
<1>2. CASE o \in OptionWords \X OptionWords
  <2>1. PICK v \in OptionWords, w \in OptionWords : o = <<v, w>>
    BY <1>2
  <2>2. v \in 0 .. Word - 1 /\ w \in 0 .. Word - 1
    BY RawConstants
  <2> QED  BY <2>1, <2>2
<1> QED  BY <1>1, <1>2 DEF Options

LEMMA JoinedHeader ==
    ASSUME NEW ip_sum \in 0 .. Word - 1, NEW a \in Addresses, NEW o \in Options
    PROVE  /\ Ipv4Hdr(5, ip_sum, a, 2) \in Seq(0 .. Word - 1)
           /\ Len(Ipv4Hdr(5, ip_sum, a, 2)) = 8
           /\ Ipv4Hdr(5, ip_sum, a, 2) \o o \in Seq(0 .. Word - 1)
           /\ Len(Ipv4Hdr(5, ip_sum, a, 2) \o o) >= 8
           /\ Len(Ipv4Hdr(5, ip_sum, a, 2) \o o) \in Nat
<1> DEFINE h == Ipv4Hdr(5, ip_sum, a, 2)
<1>1. a \in 0 .. Word - 1
  BY RawConstants
<1>2. h \in Seq(0 .. Word - 1) /\ Len(h) = 8
  BY <1>1, WordIsNumber DEF Ipv4Hdr
<1> HIDE DEF h
<1>3. o \in Seq(0 .. Word - 1) /\ Len(o) \in Nat
  BY OptionsAreWords
<1>4. h \o o \in Seq(0 .. Word - 1) /\ Len(h \o o) = 8 + Len(o)
  <2>1. h \o o \in Seq(0 .. Word - 1) /\ Len(h \o o) = Len(h) + Len(o)
    BY Zenon, <1>2, <1>3, ConcatProperties
  <2> QED  BY <1>2, <2>1
<1> QED  BY <1>2, <1>3, <1>4 DEF h

LEMMA HdrSumsAreWords == HdrSums \subseteq 0 .. Word - 1
<1> SUFFICES ASSUME NEW s \in HdrSums PROVE s \in 0 .. Word - 1
  OBVIOUS
<1>1. PICK a \in Addresses, o \in Options :
         s = CalcIpv4HdrCheckSum(Ipv4Hdr(5, 0, a, 2) \o o)
  BY DEF HdrSums
<1>2. 0 \in 0 .. Word - 1
  BY WordIsNumber
<1>3. Ipv4Hdr(5, 0, a, 2) \o o \in Seq(0 .. Word - 1)
  BY <1>2, JoinedHeader
<1> DEFINE h == Ipv4Hdr(5, 0, a, 2) \o o
<1>4. OnesSum(h) \in 0 .. Word - 1 /\ CalcIpv4HdrCheckSum(h) = Word - 1 - OnesSum(h)
  BY <1>3, ComplementOfSum
<1> HIDE DEF h
<1>5. CalcIpv4HdrCheckSum(h) \in 0 .. Word - 1
  BY <1>4, WordIsNumber
<1> QED  BY Zenon, <1>1, <1>5 DEF h

(* What is in a frame.                                                     *)
LEMMA TrafficHas ==
    ASSUME NEW f \in Traffic
    PROVE  /\ f.mac \in Macs /\ f.kind \in {"udp", "fragment", "tcp", "notIp"}
           /\ f.came \in Int /\ Len(f.ip) \in Nat /\ Len(f.ip) >= 8
           /\ f.ip \in Seq(0 .. Word - 1)
           /\ f.data \in Seq(Nat) /\ Len(f.data) = 2 /\ f.data = <<f.data[1], f.data[2]>>
<1>1. /\ f.mac \in Macs /\ f.kind \in {"udp", "fragment", "tcp", "notIp"}
      /\ f.ip \in IpHdrs /\ f.data \in {50000} \X Ports /\ f.came \in Cuts
  BY DEF Traffic
<1>2. f.came \in Int
  <2>1. f.came \in Cuts
    BY <1>1
  <2>2. f.came \in 0 .. 10
    BY Zenon, <2>1, RawConstants
  <2> QED  BY <2>2
<1>3. PICK ip_sum \in HdrSums, a \in Addresses, o \in Options :
         f.ip = Ipv4Hdr(5, ip_sum, a, 2) \o o
  BY <1>1 DEF IpHdrs
<1>4. ip_sum \in 0 .. Word - 1
  BY HdrSumsAreWords
<1>5. Len(f.ip) \in Nat /\ Len(f.ip) >= 8 /\ f.ip \in Seq(0 .. Word - 1)
  BY <1>3, <1>4, JoinedHeader
<1>6. PICK p \in Ports : f.data = <<50000, p>>
  BY <1>1
<1>7. p \in Nat
  BY RawConstants
<1>8. f.data \in Seq(Nat) /\ Len(f.data) = 2 /\ f.data = <<f.data[1], f.data[2]>>
  BY <1>6, <1>7
<1> QED  BY <1>1, <1>2, <1>5, <1>8

Words == 0 .. Word - 1

LEMMA WordsAreNumbers == Words \subseteq Nat /\ Words \subseteq 0 .. Word /\ 0 \in Words
  BY WordIsNumber DEF Words

Bufs == [mac: Macs, isIp: BOOLEAN, udp: BOOLEAN,
         ip: [1 .. 8 -> Words], data: [1 .. 2 -> Nat]]

(* The headers in the buffer are those of a frame with nothing unusual.    *)
Holds(b, f) ==
    /\ b.isIp /\ b.udp /\ b.mac = f.mac /\ b.ip = f.ip
    /\ f.data = <<b.data[1], b.data[2]>>

(* Of the two words after eight the header has them, or they are of what   *)
(* comes after it.                                                         *)
LEMMA AfterHeader ==
    ASSUME NEW n \in Nat, n >= 8, NEW i \in 1 .. 2
    PROVE  /\ i + 8 \in 1 .. n + 2 /\ i + 8 \in Int
           /\ i + 8 <= n => i + 8 \in 1 .. n
           /\ ~(i + 8 <= n) => (i + 8) - n = 1 \/ (i + 8) - n = 2
  OBVIOUS

(* A frame that is cut, or has options, leaves words in the buffer all the *)
(* same.                                                                   *)
LEMMA CopiedIs ==
    ASSUME NEW f \in Traffic, NEW old \in Bufs
    PROVE  /\ Copied(f, old) \in Bufs
           /\ Ordinary(f) => Holds(Copied(f, old), f)
<1> DEFINE words == IpPacket(f)
           isIp == f.kind # "notIp"
           udp == IF f.came < 5 THEN old.udp ELSE f.kind \in {"udp", "fragment"}
           ip == [i \in 1 .. 8 |-> IF i <= f.came THEN words[i] ELSE old.ip[i]]
           dat == [i \in 1 .. 2 |-> IF i + 8 <= f.came THEN words[i + 8] ELSE old.data[i]]
<1>1. /\ old.mac \in Macs /\ old.udp \in BOOLEAN
      /\ \A i \in 1 .. 8 : old.ip[i] \in Words
      /\ \A i \in 1 .. 2 : old.data[i] \in Nat
  BY DEF Bufs
<1>2. /\ f.mac \in Macs /\ f.came \in Int
      /\ f.ip \in Seq(Words) /\ Len(f.ip) \in Nat /\ Len(f.ip) >= 8
      /\ f.data \in Seq(Nat) /\ Len(f.data) = 2 /\ f.data = <<f.data[1], f.data[2]>>
  BY Zenon, TrafficHas DEF Words
<1>3. /\ \A i \in 1 .. Len(f.ip) + 2 :
           words[i] = IF i <= Len(f.ip) THEN f.ip[i] ELSE f.data[i - Len(f.ip)]
      /\ \A i \in 1 .. Len(f.ip) : f.ip[i] \in Words
      /\ f.data[1] \in Nat /\ f.data[2] \in Nat
  <2>1. f.ip \in Seq(Nat)
    BY Zenon, <1>2, WordsAreNumbers, SeqMonotonic
  <2>2. \A i \in 1 .. Len(f.ip) + Len(f.data) :
          words[i] = IF i <= Len(f.ip) THEN f.ip[i] ELSE f.data[i - Len(f.ip)]
    BY Zenon, <1>2, <2>1, ConcatProperties DEF IpPacket
  <2>3. \A i \in 1 .. Len(f.ip) : f.ip[i] \in Words
    BY Zenon, <1>2, ElementOfSeq
  <2>4. \A i \in 1 .. Len(f.data) : f.data[i] \in Nat
    BY Zenon, <1>2, ElementOfSeq
  <2> HIDE DEF words
  <2>5. f.data[1] \in Nat /\ f.data[2] \in Nat
    <3>1. 1 \in 1 .. 2 /\ 2 \in 1 .. 2
      OBVIOUS
    <3> QED  BY Zenon, <1>2, <2>4, <3>1
  <2>6. Len(f.ip) + Len(f.data) = Len(f.ip) + 2
    BY <1>2
  <2> QED  BY Zenon, <2>2, <2>3, <2>5, <2>6
<1> HIDE DEF words
<1>4. ip \in [1 .. 8 -> Words]
  <2>1. ASSUME NEW i \in 1 .. 8 PROVE words[i] \in Words
    <3>1. i \in 1 .. Len(f.ip) /\ i \in 1 .. Len(f.ip) + 2 /\ i <= Len(f.ip)
      BY <1>2
    <3> QED  BY Zenon, <1>3, <3>1
  <2> QED  BY Zenon, <1>1, <2>1
<1>5. dat \in [1 .. 2 -> Nat]
  <2>1. ASSUME NEW i \in 1 .. 2 PROVE words[i + 8] \in Nat
    <3>1. /\ i + 8 \in 1 .. Len(f.ip) + 2 /\ i + 8 \in Int
          /\ i + 8 <= Len(f.ip) => i + 8 \in 1 .. Len(f.ip)
          /\ ~(i + 8 <= Len(f.ip)) => (i + 8) - Len(f.ip) = 1 \/ (i + 8) - Len(f.ip) = 2
      BY Zenon, <1>2, AfterHeader
    <3>2. CASE i + 8 <= Len(f.ip)
      BY Zenon, <1>3, <3>1, <3>2, WordsAreNumbers
    <3>3. CASE ~(i + 8 <= Len(f.ip))
      BY Zenon, <1>3, <3>1, <3>3
    <3> QED  BY <3>2, <3>3
  <2> QED  BY Zenon, <1>1, <2>1
<1>6. Copied(f, old) = [mac |-> f.mac, isIp |-> isIp, udp |-> udp, ip |-> ip, data |-> dat]
  BY Zenon DEF Copied, words
<1>7. isIp \in BOOLEAN /\ udp \in BOOLEAN
  <2>1. isIp \in BOOLEAN
    BY Zenon
  <2>2. CASE f.came < 5
    BY Zenon, <1>1, <2>2
  <2>3. CASE ~(f.came < 5)
    <3>1. udp = (f.kind \in {"udp", "fragment"})
      BY Zenon, <2>3
    <3> HIDE DEF udp
    <3>2. udp = TRUE \/ udp = FALSE
      BY <3>1
    <3> QED  BY Zenon, <3>2
  <2> QED  BY Zenon, <2>1, <2>2, <2>3
<1>8. ASSUME Ordinary(f)
      PROVE  isIp /\ udp /\ ip = f.ip /\ f.data = <<dat[1], dat[2]>>
  <2>1. f.kind = "udp" /\ f.came = 10 /\ Len(f.ip) = 8
    BY Zenon, <1>8 DEF Ordinary
  <2>2. isIp /\ udp
    BY <2>1
  <2>3. f.ip = [i \in 1 .. 8 |-> f.ip[i]]
    <3>1. f.ip \in [1 .. 8 -> Words]
      BY Zenon, <1>2, <2>1, LenProperties
    <3> QED  BY Zenon, <3>1
  <2>4. ip = [i \in 1 .. 8 |-> f.ip[i]]
    <3>1. \A i \in 1 .. 8 : i <= 10 /\ i \in 1 .. 8 + 2 /\ i <= 8
      OBVIOUS
    <3> QED  BY Zenon, <1>3, <2>1, <3>1
  <2>5. dat[1] = f.data[1] /\ dat[2] = f.data[2]
    BY <1>2, <1>3, <2>1
  <2> QED  BY <1>2, <2>2, <2>3, <2>4, <2>5
<1> HIDE DEF isIp, udp, ip, dat
<1>9. Copied(f, old) \in Bufs
  BY <1>2, <1>4, <1>5, <1>6, <1>7 DEF Bufs
<1>10. /\ Copied(f, old).mac = f.mac /\ Copied(f, old).isIp = isIp
       /\ Copied(f, old).udp = udp /\ Copied(f, old).ip = ip /\ Copied(f, old).data = dat
  BY <1>6
<1> QED  BY Zenon, <1>8, <1>9, <1>10 DEF Holds

Results == [mac: Macs \cup {"none"}, src: 0 .. Word, dst: 0 .. Word,
            srcPort: Nat, dstPort: Nat, ipChkCorrect: 0 .. 1]

LEMMA BufsHave ==
    ASSUME NEW b \in Bufs
    PROVE  /\ b.mac \in Macs /\ b.isIp \in BOOLEAN /\ b.udp \in BOOLEAN
           /\ b.ip \in Seq(0 .. Word - 1)
           /\ b.ip[7] \in 0 .. Word /\ b.ip[8] \in 0 .. Word
           /\ b.data[1] \in Nat /\ b.data[2] \in Nat
<1>1. /\ b.mac \in Macs /\ b.isIp \in BOOLEAN /\ b.udp \in BOOLEAN
      /\ b.ip \in [1 .. 8 -> Words] /\ b.data \in [1 .. 2 -> Nat]
  BY DEF Bufs
<1>2. b.ip \in Seq(0 .. Word - 1)
  <2>1. b.ip \in UNION {[1 .. n -> Words] : n \in Nat}
    <3>1. 8 \in Nat
      OBVIOUS
    <3> QED  BY Zenon, <1>1, <3>1
  <2> QED  BY Zenon, <2>1, SeqDef DEF Words
<1>3. /\ b.ip[7] \in Words /\ b.ip[8] \in Words
      /\ b.data[1] \in Nat /\ b.data[2] \in Nat
  BY <1>1
<1> QED  BY Zenon, <1>1, <1>2, <1>3, WordsAreNumbers

(* The functions that parse a header write their part of the result.       *)
LEMMA ParsedIpv4Hdr ==
    ASSUME NEW r \in Results, NEW b \in Bufs
    PROVE  /\ ParseIpv4Hdr(r, b) \in Results
           /\ ParseIpv4Hdr(r, b).mac = r.mac
           /\ ParseIpv4Hdr(r, b).ipChkCorrect = 1 <=> Verifies(b.ip)
           /\ ParseIpv4Hdr(r, b).src = IF Verifies(b.ip) THEN b.ip[7] ELSE r.src
           /\ ParseIpv4Hdr(r, b).dst = IF Verifies(b.ip) THEN b.ip[8] ELSE r.dst
<1>1. b.ip[7] \in 0 .. Word /\ b.ip[8] \in 0 .. Word
  BY BufsHave
<1>2. CalcIpv4HdrCheckSum(b.ip) = 0 <=> Verifies(b.ip)
  BY BufsHave, RightIsVerified
<1>3. CASE Verifies(b.ip)
  <2>1. ParseIpv4Hdr(r, b) = [r EXCEPT !.ipChkCorrect = 1, !.src = b.ip[7], !.dst = b.ip[8]]
    BY Zenon, <1>2, <1>3 DEF ParseIpv4Hdr
  <2> DEFINE q == [r EXCEPT !.ipChkCorrect = 1]  t == [q EXCEPT !.src = b.ip[7]]
  <2>2. q \in Results /\ q.mac = r.mac /\ q.ipChkCorrect = 1
    BY DEF Results
  <2> HIDE DEF q
  <2>3. t \in Results /\ t.mac = q.mac /\ t.ipChkCorrect = q.ipChkCorrect /\ t.src = b.ip[7]
    BY <1>1, <2>2 DEF Results
  <2>4. ParseIpv4Hdr(r, b) = [t EXCEPT !.dst = b.ip[8]]
    BY <2>1 DEF q
  <2> HIDE DEF t
  <2> QED  BY <1>1, <1>3, <2>2, <2>3, <2>4 DEF Results
<1>4. CASE ~Verifies(b.ip)
  <2>1. ParseIpv4Hdr(r, b) = [r EXCEPT !.ipChkCorrect = 0]
    BY Zenon, <1>2, <1>4 DEF ParseIpv4Hdr
  <2> QED  BY <1>4, <2>1 DEF Results
<1> QED  BY <1>3, <1>4

LEMMA ParsedUdpHdr ==
    ASSUME NEW r \in Results, NEW b \in Bufs
    PROVE  /\ ParseUdpHdr(r, b) \in Results
           /\ ParseUdpHdr(r, b).mac = r.mac
           /\ ParseUdpHdr(r, b).ipChkCorrect = r.ipChkCorrect
           /\ ParseUdpHdr(r, b).src = r.src /\ ParseUdpHdr(r, b).dst = r.dst
           /\ ParseUdpHdr(r, b).srcPort = b.data[1] /\ ParseUdpHdr(r, b).dstPort = b.data[2]
<1>1. b.data[1] \in Nat /\ b.data[2] \in Nat
  BY BufsHave
<1> QED  BY <1>1 DEF ParseUdpHdr, Results

LEMMA ParsedPacketHdr ==
    ASSUME NEW r \in Results, NEW b \in Bufs
    PROVE  /\ ParsePacketHdr(r, b) \in Results
           /\ b.isIp /\ b.udp =>
                /\ ParsePacketHdr(r, b).mac = b.mac
                /\ ParsePacketHdr(r, b).ipChkCorrect = 1 <=> Verifies(b.ip)
                /\ ParsePacketHdr(r, b).srcPort = b.data[1]
                /\ ParsePacketHdr(r, b).dstPort = b.data[2]
           /\ ParsePacketHdr(r, b).src =
                IF b.isIp /\ b.udp /\ Verifies(b.ip) THEN b.ip[7] ELSE r.src
           /\ ParsePacketHdr(r, b).dst =
                IF b.isIp /\ b.udp /\ Verifies(b.ip) THEN b.ip[8] ELSE r.dst
<1> DEFINE m == [r EXCEPT !.mac = b.mac]
<1>1. b.mac \in Macs /\ b.isIp \in BOOLEAN /\ b.udp \in BOOLEAN
  BY BufsHave
<1>2. m \in Results /\ m.mac = b.mac /\ m.src = r.src /\ m.dst = r.dst
  BY <1>1 DEF Results
<1>3. CASE ~b.isIp
  <2>1. ParsePacketHdr(r, b) = r
    BY Zenon, <1>3 DEF ParsePacketHdr
  <2> QED  BY Zenon, <1>3, <2>1
<1>4. CASE b.isIp /\ ~b.udp
  <2>1. ParsePacketHdr(r, b) = m
    BY Zenon, <1>4 DEF ParsePacketHdr
  <2> QED  BY Zenon, <1>2, <1>4, <2>1
<1>5. CASE b.isIp /\ b.udp
  <2> DEFINE h == ParseIpv4Hdr(m, b)
  <2>1. ParsePacketHdr(r, b) = ParseUdpHdr(h, b)
    BY Zenon, <1>5 DEF ParsePacketHdr
  <2> HIDE DEF m
  <2>2. /\ h \in Results /\ h.mac = m.mac /\ (h.ipChkCorrect = 1 <=> Verifies(b.ip))
        /\ h.src = IF Verifies(b.ip) THEN b.ip[7] ELSE m.src
        /\ h.dst = IF Verifies(b.ip) THEN b.ip[8] ELSE m.dst
    BY <1>2, ParsedIpv4Hdr
  <2> HIDE DEF h
  <2>3. /\ ParseUdpHdr(h, b) \in Results /\ ParseUdpHdr(h, b).mac = h.mac
        /\ ParseUdpHdr(h, b).ipChkCorrect = h.ipChkCorrect
        /\ ParseUdpHdr(h, b).src = h.src /\ ParseUdpHdr(h, b).dst = h.dst
        /\ ParseUdpHdr(h, b).srcPort = b.data[1] /\ ParseUdpHdr(h, b).dstPort = b.data[2]
    BY <2>2, ParsedUdpHdr
  <2> QED  BY Zenon, <1>2, <1>5, <2>1, <2>2, <2>3
<1> QED  BY Zenon, <1>1, <1>3, <1>4, <1>5

(* The result of the last packets has the addresses of the last header     *)
(* that was right, or of none; a frame with nothing unusual is in the      *)
(* buffer.                                                                 *)
DumpRemembers ==
    /\ lastGood = <<gPackParseResult.src, gPackParseResult.dst>>
    /\ whole # NoFrame => Holds(recvBuf, whole)

RawIInv == RawTypeOK /\ BuiltVerifies /\ DumpRemembers /\ LinesTellTruth

LEMMA RawInitIInv == RawInit => RawIInv
<1> SUFFICES ASSUME RawInit PROVE RawIInv
  OBVIOUS
<1>1. recvBuf \in Bufs
  <2>1. PICK ip_sum \in HdrSums, a \in Addresses : recvBuf.ip = Ipv4Hdr(5, ip_sum, a, 2)
    BY DEF RawInit, Garbage
  <2>2. PICK p \in Ports : recvBuf.data = <<50000, p>>
    BY DEF RawInit, Garbage
  <2>3. /\ ip_sum \in Words /\ a \in Words /\ p \in Nat /\ 5 \in Words /\ 0 \in Words
        /\ 2 \in Words /\ Word - 1 \in Words /\ Word - 2 \in Words /\ Word - 3 \in Words
    <3>1. ip_sum \in Words /\ a \in Words /\ p \in Nat
      BY Zenon, HdrSumsAreWords, RawConstants DEF Words
    <3> QED  BY <3>1, WordIsNumber DEF Words
  <2>4. recvBuf.ip \in [1 .. 8 -> Words]
    BY <2>1, <2>3 DEF Ipv4Hdr
  <2>5. recvBuf.data \in [1 .. 2 -> Nat]
    BY <2>2, <2>3
  <2>6. recvBuf \in [mac: Macs, isIp: BOOLEAN, udp: BOOLEAN,
                     ip: {Ipv4Hdr(5, s, b, 2) : s \in HdrSums, b \in Addresses},
                     data: {50000} \X Ports]
    BY DEF RawInit, Garbage
  <2> QED  BY <2>4, <2>5, <2>6 DEF Bufs
<1>2. RawTypeOK
  <2>1. NoAddress \in 0 .. Word
    BY WordIsNumber DEF NoAddress
  <2>2. /\ gPackParseResult \in Results /\ lastGood \in (0 .. Word) \X (0 .. Word)
    BY <2>1 DEF RawInit, Results
  <2>3. /\ lineShown \in BOOLEAN /\ whole \in Traffic \cup {NoFrame}
        /\ txPacks = 0 /\ gIpId = 0 /\ packBuf = <<>>
    BY Zenon DEF RawInit
  <2>4. /\ txPacks \in 0 .. RAW_NUM /\ gIpId \in 0 .. Word - 1
        /\ packBuf \in Seq(0 .. Word - 1)
    <3>1. 0 \in 0 .. RAW_NUM /\ 0 \in 0 .. Word - 1
      BY RawConstants, WordIsNumber
    <3> QED  BY Zenon, <2>3, <3>1, EmptySeq
  <2> QED  BY Zenon, <1>1, <2>2, <2>3, <2>4 DEF RawTypeOK, Bufs, Results, Words
<1>3. gPackParseResult.src = NoAddress /\ gPackParseResult.dst = NoAddress
  BY DEF RawInit
<1> QED
  BY Zenon, <1>2, <1>3 DEF RawInit, RawIInv, BuiltVerifies, DumpRemembers, LinesTellTruth

LEMMA RawRecvPacket == ASSUME RawIInv, RecvPacket PROVE RawIInv'
<1> DEFINE r == gPackParseResult
           b == recvBuf'
           told == b.isIp /\ b.udp /\ Verifies(b.ip)
<1>1. RawTypeOK /\ BuiltVerifies /\ DumpRemembers
  BY DEF RawIInv
<1>2. r \in Results /\ recvBuf \in Bufs
  BY Zenon, <1>1 DEF RawTypeOK, Results, Bufs, Words
<1>3. /\ b \in Bufs /\ whole' \in Traffic \cup {NoFrame}
      /\ whole' # NoFrame => Holds(b, whole')
  <2>1. CASE UNCHANGED <<recvBuf, whole>>
    <3>1. recvBuf' = recvBuf /\ whole' = whole
      BY <2>1
    <3> QED  BY Zenon, <1>1, <1>2, <3>1 DEF RawTypeOK, DumpRemembers
  <2>2. CASE ~UNCHANGED <<recvBuf, whole>>
    <3>1. PICK f \in Traffic : /\ recvBuf' = Copied(f, recvBuf)
                               /\ whole' = IF Ordinary(f) THEN f ELSE NoFrame
      BY Zenon, <2>2 DEF RecvPacket
    <3>2. /\ Copied(f, recvBuf) \in Bufs
          /\ Ordinary(f) => Holds(Copied(f, recvBuf), f)
      BY <1>2, CopiedIs
    <3> QED  BY Zenon, <3>1, <3>2
  <2> QED  BY <2>1, <2>2
<1>4. /\ r' = ParsePacketHdr(r, b)
      /\ lineShown' = (b.isIp /\ b.udp /\ FilterPacket(r'))
      /\ lastGood' = IF told THEN <<b.ip[7], b.ip[8]>> ELSE lastGood
      /\ UNCHANGED <<txPacks, gIpId, packBuf>>
  BY Zenon DEF RecvPacket
<1> HIDE DEF b
<1>5. /\ r' \in Results
      /\ b.isIp /\ b.udp => r'.mac = b.mac
      /\ b.isIp /\ b.udp => (r'.ipChkCorrect = 1 <=> Verifies(b.ip))
      /\ b.isIp /\ b.udp => r'.srcPort = b.data[1] /\ r'.dstPort = b.data[2]
      /\ r'.src = IF told THEN b.ip[7] ELSE r.src
      /\ r'.dst = IF told THEN b.ip[8] ELSE r.dst
  <2> DEFINE s == ParsePacketHdr(r, b)
  <2>1. /\ s \in Results
        /\ b.isIp /\ b.udp => s.mac = b.mac
        /\ b.isIp /\ b.udp => (s.ipChkCorrect = 1 <=> Verifies(b.ip))
        /\ b.isIp /\ b.udp => s.srcPort = b.data[1] /\ s.dstPort = b.data[2]
        /\ s.src = IF told THEN b.ip[7] ELSE r.src
        /\ s.dst = IF told THEN b.ip[8] ELSE r.dst
    BY Zenon, <1>2, <1>3, ParsedPacketHdr
  <2> HIDE DEF s, told
  <2>2. r' = s
    BY <1>4 DEF s
  <2> QED  BY Zenon, <2>1, <2>2
<1>6. lastGood' = <<r'.src, r'.dst>>
  BY Zenon, <1>1, <1>4, <1>5 DEF DumpRemembers
<1>7. RawTypeOK'
  <2>1. r'.src \in 0 .. Word /\ r'.dst \in 0 .. Word
    BY <1>5 DEF Results
  <2>2. lastGood' \in (0 .. Word) \X (0 .. Word)
    BY <1>6, <2>1
  <2>3. lineShown' \in BOOLEAN
    BY Zenon, <1>4
  <2>4. /\ txPacks' \in 0 .. RAW_NUM /\ gIpId' \in 0 .. Word - 1
        /\ packBuf' \in Seq(0 .. Word - 1)
    BY Zenon, <1>1, <1>4 DEF RawTypeOK
  <2>5. recvBuf' \in Bufs
    BY <1>3 DEF b
  <2> QED  BY Zenon, <1>3, <1>5, <2>2, <2>3, <2>4, <2>5 DEF RawTypeOK, Results, Bufs, Words
<1>8. BuiltVerifies'
  BY Zenon, <1>1, <1>4 DEF BuiltVerifies
<1>9. DumpRemembers'
  BY Zenon, <1>3, <1>6 DEF DumpRemembers, b
<1>10. LinesTellTruth'
  <2> SUFFICES ASSUME lineShown'
               PROVE  /\ r'.ipChkCorrect = 1 <=> Verifies(b.ip)
                      /\ <<r'.src, r'.dst>> = lastGood' /\ NoAddress \notin {r'.src, r'.dst}
                      /\ whole' # NoFrame =>
                           /\ r'.mac = whole'.mac
                           /\ <<r'.srcPort, r'.dstPort>> = whole'.data
                           /\ r'.ipChkCorrect = 1 <=> Verifies(whole'.ip)
                           /\ r'.ipChkCorrect = 1 =>
                                <<r'.src, r'.dst>> = <<whole'.ip[7], whole'.ip[8]>>
    BY Zenon DEF LinesTellTruth, b
  <2>1. b.isIp /\ b.udp /\ FilterPacket(r')
    BY Zenon, <1>4
  <2>2. r'.src = 1 /\ r'.dst = 2
    BY <2>1 DEF FilterPacket, gPackFilter
  <2>3. NoAddress \notin {r'.src, r'.dst}
    BY <2>2, WordIsNumber DEF NoAddress
  <2>4. /\ r'.mac = b.mac /\ (r'.ipChkCorrect = 1 <=> Verifies(b.ip))
        /\ r'.srcPort = b.data[1] /\ r'.dstPort = b.data[2]
        /\ Verifies(b.ip) => r'.src = b.ip[7] /\ r'.dst = b.ip[8]
    BY Zenon, <1>5, <2>1
  <2>5. whole' # NoFrame => /\ b.mac = whole'.mac /\ b.ip = whole'.ip
                            /\ whole'.data = <<b.data[1], b.data[2]>>
    BY Zenon, <1>3 DEF Holds
  <2> QED  BY Zenon, <1>6, <2>3, <2>4, <2>5
<1> QED  BY Zenon, <1>7, <1>8, <1>9, <1>10 DEF RawIInv

LEMMA RawSend == ASSUME RawIInv, SendUdpPacketLoops PROVE RawIInv'
<1>1. RawTypeOK /\ BuiltVerifies /\ DumpRemembers /\ LinesTellTruth
  BY DEF RawIInv
<1>2. /\ txPacks < RAW_NUM /\ txPacks' = txPacks + 1
      /\ packBuf' = BuildIpv4Hdr(gIpId, 1, 2)
      /\ gIpId' = (gIpId + 1) % Word
      /\ UNCHANGED <<gPackParseResult, recvBuf, lineShown, whole, lastGood>>
  BY Zenon DEF SendUdpPacketLoops, dumpVars
<1>3. gIpId \in 0 .. Word - 1 /\ txPacks \in 0 .. RAW_NUM /\ RAW_NUM \in Nat
  BY Zenon, <1>1, RawConstants DEF RawTypeOK
<1>4. gIpId' \in 0 .. Word - 1
  <2>1. gIpId + 1 \in Int /\ Word \in Int /\ Word > 0
    BY <1>3, WordIsNumber
  <2>2. (gIpId + 1) % Word \in 0 .. Word - 1
    BY <2>1, Division, Zenon
  <2> QED  BY <1>2, <2>2
<1>5. /\ packBuf' \in Seq(0 .. Word - 1) /\ Verifies(packBuf')
      /\ CalcIpv4HdrCheckSum(packBuf') = 0
  <2>1. 1 \in 0 .. Word - 1 /\ 2 \in 0 .. Word - 1
    BY WordIsNumber
  <2> QED  BY <1>2, <1>3, <2>1, BuiltHeader
<1>6. txPacks' \in 0 .. RAW_NUM
  BY <1>2, <1>3
<1>7. RawTypeOK'
  BY Zenon, <1>1, <1>2, <1>4, <1>5, <1>6 DEF RawTypeOK
<1> QED
  BY Zenon, <1>1, <1>2, <1>5, <1>7 DEF RawIInv, BuiltVerifies, DumpRemembers, LinesTellTruth

-----------------------------------------------------------------------------
(* PingExchange.                                                           *)

(* A request is out, or answered, only when its number has come up.        *)
RequestsAreOld ==
    /\ ~listening => pingPc = "send"
    /\ pingPc # "send" => pingIdx < PING_NUM
    /\ unpacking # {} => recvIdx < PING_NUM
    /\ \A q \in requests : q.seq < pingIdx \/ (q.seq = pingIdx /\ pingPc # "send")
    /\ \A p \in rawQueue \cup unpacking : p.own =>
          p.seq < pingIdx \/ (p.seq = pingIdx /\ pingPc # "send")

(* The answer to the request that is waited for is unpacked, and shown,    *)
(* with the flag up, or the waiting is over.                               *)
Waited(n) ==
    \/ n < pingIdx
    \/ n = pingIdx /\ (pingPc \in {"overtime", "clear"} \/ (pingPc = "poll" /\ gResFlag))

AnswersRaiseFlag ==
    /\ \A n \in answered : Waited(n)
    /\ \A p \in unpacking : p.own => Waited(p.seq)

PingIInv == PingTypeOK /\ RequestsAreOld /\ AnswersRaiseFlag /\ RequestsVerify

LEMMA PingNumbers == PING_NUM \in Nat /\ MaxPolls \in Nat /\ MaxForeign \in Nat
  BY PingAssumption

LEMMA PingInitIInv == PingInit => PingIInv
<1> SUFFICES ASSUME PingInit PROVE PingIInv
  OBVIOUS
<1>1. gResFlag \in BOOLEAN /\ listening \in BOOLEAN
  BY DEF PingInit
<1>2. PingTypeOK
  BY <1>1, PingNumbers DEF PingInit, PingTypeOK
<1> QED
  BY <1>2 DEF PingInit, PingIInv, RequestsAreOld, AnswersRaiseFlag, Waited, RequestsVerify

LEMMA IcmpPacket ==
    ASSUME NEW remote \in BOOLEAN, NEW own \in BOOLEAN, NEW seq \in Nat
    PROVE  [remote |-> remote, own |-> own, seq |-> seq]
              \in [remote: BOOLEAN, own: BOOLEAN, seq: Nat]
  BY Zenon

(* A request carries its number and a checksum that is right.              *)
LEMMA RequestMade ==
    ASSUME NEW sno \in 0 .. PING_NUM, NEW stamp \in Stamps
    PROVE  /\ SetIcmpHead(sno, stamp) \in [seq: 0 .. PING_NUM, words: Seq(0 .. Word - 1)]
           /\ SetIcmpHead(sno, stamp).seq = sno
           /\ Verifies(SetIcmpHead(sno, stamp).words)
<1> DEFINE s == sno % Word
           Head6(sum) == <<8 % Word, sum, 1, s, stamp, Word - 2>>
           words == Head6(0)
           cksum == CalcCheckSum(words)
<1>1. s \in 0 .. Word - 1 /\ stamp \in 0 .. Word - 1 /\ 8 % Word \in 0 .. Word - 1
  <2>1. sno \in Int /\ Word \in Int /\ Word > 0 /\ 8 \in Int
    BY WordIsNumber
  <2>2. s \in 0 .. Word - 1 /\ 8 % Word \in 0 .. Word - 1
    BY <2>1, Division, Zenon
  <2> QED  BY <2>2, PingAssumption
<1> HIDE DEF s
<1>2. /\ words \in Seq(0 .. Word - 1) /\ Len(words) = 6 /\ Len(words) <= Word
      /\ words[2] = 0 /\ 2 \in 1 .. Len(words)
  <2> DEFINE e == 8 % Word
  <2>1. e \in 0 .. Word - 1 /\ words = <<e, 0, 1, s, stamp, Word - 2>>
    BY <1>1
  <2> HIDE DEF e
  <2> QED  BY <1>1, <2>1, WordIsNumber
<1>3. cksum = Word - 1 - OnesSum(words)
  BY <1>2, ComplementOfSum
<1>4. SetIcmpHead(sno, stamp) = [seq |-> sno, words |-> Head6(cksum)]
  BY DEF SetIcmpHead, s
<1> HIDE DEF cksum
<1>5. Head6(cksum) = [words EXCEPT ![2] = cksum]
  OBVIOUS
<1> HIDE DEF words
<1>6. [words EXCEPT ![2] = cksum] \in Seq(0 .. Word - 1) /\ Verifies([words EXCEPT ![2] = cksum])
  BY <1>2, <1>3, FilledVerifies
<1> HIDE DEF Head6
<1> QED  BY <1>4, <1>5, <1>6

LEMMA PingNextIInv == ASSUME PingIInv, [PingNext]_pingVars PROVE PingIInv'
<1>1. PingTypeOK /\ RequestsAreOld /\ AnswersRaiseFlag /\ RequestsVerify
  BY DEF PingIInv
<1>2. /\ listening \in BOOLEAN /\ gResFlag \in BOOLEAN
      /\ pingPc \in {"send", "poll", "overtime", "clear"}
      /\ pingIdx \in 0 .. PING_NUM /\ polls \in 0 .. MaxPolls /\ recvIdx \in 0 .. PING_NUM
      /\ foreign \in 0 .. MaxForeign
      /\ answered \subseteq 0 .. PING_NUM /\ overtimes \subseteq 0 .. PING_NUM
      /\ requests \subseteq [seq: 0 .. PING_NUM, words: Seq(0 .. Word - 1)]
      /\ rawQueue \subseteq [remote: BOOLEAN, own: BOOLEAN, seq: Nat]
      /\ unpacking \subseteq [remote: BOOLEAN, own: BOOLEAN, seq: Nat]
  BY <1>1 DEF PingTypeOK
<1>3. ASSUME NEW stamp \in Stamps, requests' = requests \cup {SetIcmpHead(pingIdx, stamp)}
      PROVE  /\ requests' \subseteq [seq: 0 .. PING_NUM, words: Seq(0 .. Word - 1)]
             /\ RequestsVerify'
             /\ \A q \in requests' : q \in requests \/ q.seq = pingIdx
  BY <1>1, <1>2, <1>3, RequestMade DEF RequestsVerify
<1>4. CASE SendRequest
  <2>1. /\ listening /\ pingPc = "send" /\ pingIdx < PING_NUM /\ polls' = 0
        /\ UNCHANGED <<listening, gResFlag, rawQueue, recvIdx, unpacking, foreign,
                       answered, overtimes>>
    BY <1>4 DEF SendRequest
  <2>2. CASE pingPc' = "poll" /\ pingIdx' = pingIdx /\ ~UNCHANGED requests
    <3>1. /\ requests' \subseteq [seq: 0 .. PING_NUM, words: Seq(0 .. Word - 1)]
          /\ RequestsVerify'
          /\ \A q \in requests' : q \in requests \/ q.seq = pingIdx
      BY <1>3, <1>4, <2>2 DEF SendRequest
    <3>2. PingTypeOK'
      BY <1>2, <2>1, <2>2, <3>1, PingNumbers DEF PingTypeOK
    <3>3. RequestsAreOld'
      BY <1>1, <1>2, <2>1, <2>2, <3>1 DEF RequestsAreOld
    <3>4. AnswersRaiseFlag'
      BY <1>1, <1>2, <2>1, <2>2 DEF AnswersRaiseFlag, Waited
    <3> QED  BY <3>1, <3>2, <3>3, <3>4 DEF PingIInv
  <2>3. CASE pingPc' = "poll" /\ pingIdx' = pingIdx /\ UNCHANGED requests
    <3>1. PingTypeOK'
      BY <1>2, <2>1, <2>3, PingNumbers DEF PingTypeOK
    <3>2. RequestsAreOld' /\ AnswersRaiseFlag' /\ RequestsVerify'
      BY <1>1, <1>2, <2>1, <2>3 DEF RequestsAreOld, AnswersRaiseFlag, Waited, RequestsVerify
    <3> QED  BY <3>1, <3>2 DEF PingIInv
  <2>4. CASE pingIdx' = pingIdx + 1 /\ UNCHANGED <<requests, pingPc>>
    <3>1. PingTypeOK'
      BY <1>2, <2>1, <2>4, PingNumbers DEF PingTypeOK
    <3>2. RequestsAreOld'
      BY <1>1, <1>2, <2>1, <2>4, PingNumbers DEF RequestsAreOld
    <3>3. AnswersRaiseFlag' /\ RequestsVerify'
      BY <1>1, <1>2, <2>1, <2>4, PingNumbers DEF AnswersRaiseFlag, Waited, RequestsVerify
    <3> QED  BY <3>1, <3>2, <3>3 DEF PingIInv
  <2> QED  BY <1>4, <2>2, <2>3, <2>4 DEF SendRequest
<1>5. CASE Poll \/ SayOvertime
  <2>1. /\ pingPc \in {"poll", "overtime"} /\ pingPc' \in {"poll", "overtime", "clear"}
        /\ pingPc = "overtime" => pingPc' = "clear"
        /\ polls' \in 0 .. MaxPolls
        /\ overtimes' \subseteq overtimes \cup {pingIdx}
        /\ UNCHANGED <<listening, pingIdx, gResFlag, requests, rawQueue, recvIdx, unpacking,
                       foreign, answered>>
    BY <1>2, <1>5, PingNumbers DEF Poll, SayOvertime
  <2>2. PingTypeOK'
    BY <1>2, <2>1 DEF PingTypeOK
  <2>3. RequestsAreOld' /\ RequestsVerify'
    BY <1>1, <2>1 DEF RequestsAreOld, RequestsVerify
  <2>4. AnswersRaiseFlag'
    <3>1. \A n \in Nat : Waited(n) => Waited(n)'
      BY <2>1 DEF Waited
    <3>2. answered \subseteq Nat /\ \A p \in unpacking : p.seq \in Nat
      BY <1>2, PingNumbers
    <3> QED  BY Zenon, <1>1, <2>1, <3>1, <3>2 DEF AnswersRaiseFlag
  <2> QED  BY <2>2, <2>3, <2>4 DEF PingIInv
<1>6. CASE ClearFlag
  <2>1. /\ pingPc = "clear" /\ pingPc' = "send"
        /\ gResFlag' = FALSE /\ pingIdx' = pingIdx + 1
        /\ UNCHANGED <<listening, polls, requests, rawQueue, recvIdx, unpacking, foreign, answered,
                       overtimes>>
    BY <1>6 DEF ClearFlag
  <2>2. pingIdx < PING_NUM
    BY <1>1, <2>1 DEF RequestsAreOld
  <2>3. PingTypeOK'
    <3>1. gResFlag' \in BOOLEAN
      BY <2>1
    <3>2. pingIdx' \in 0 .. PING_NUM
      BY <1>2, <2>1, <2>2, PingNumbers
    <3> QED  BY <1>2, <2>1, <3>1, <3>2 DEF PingTypeOK
  <2>4. RequestsAreOld'
    BY <1>1, <1>2, <2>1, PingNumbers DEF RequestsAreOld
  <2>5. AnswersRaiseFlag' /\ RequestsVerify'
    BY <1>1, <1>2, <2>1, PingNumbers DEF AnswersRaiseFlag, Waited, RequestsVerify
  <2> QED  BY <2>3, <2>4, <2>5 DEF PingIInv
<1>7. CASE SendAlone
  <2>1. /\ ~listening /\ pingPc = "send" /\ pingIdx < PING_NUM /\ pingIdx' = pingIdx + 1
        /\ UNCHANGED <<listening, pingPc, polls, gResFlag, rawQueue, recvIdx, unpacking,
                       foreign, answered>>
    BY <1>1, <1>7 DEF SendAlone, RequestsAreOld
  <2>2. overtimes' \subseteq overtimes \cup {pingIdx}
    BY <1>7 DEF SendAlone
  <2>3. /\ requests' \subseteq [seq: 0 .. PING_NUM, words: Seq(0 .. Word - 1)]
        /\ RequestsVerify'
        /\ \A q \in requests' : q \in requests \/ q.seq = pingIdx
    <3>1. CASE UNCHANGED requests
      BY <1>1, <1>2, <3>1 DEF RequestsVerify
    <3>2. CASE ~UNCHANGED requests
      BY <1>3, <1>7, <3>2 DEF SendAlone
    <3> QED  BY <3>1, <3>2
  <2>4. PingTypeOK'
    BY <1>2, <2>1, <2>2, <2>3, PingNumbers DEF PingTypeOK
  <2>5. RequestsAreOld'
    BY <1>1, <1>2, <2>1, <2>3, PingNumbers DEF RequestsAreOld
  <2>6. AnswersRaiseFlag'
    BY <1>1, <1>2, <2>1, PingNumbers DEF AnswersRaiseFlag, Waited
  <2> QED  BY <2>3, <2>4, <2>5, <2>6 DEF PingIInv
<1>8. CASE RecvIcmpPacket
  <2>1. /\ unpacking = {} /\ unpacking' \subseteq rawQueue /\ rawQueue' \subseteq rawQueue
        /\ recvIdx < PING_NUM
        /\ \/ recvIdx' = recvIdx /\ gResFlag' = TRUE
           \/ recvIdx' = recvIdx + 1 /\ unpacking' = {} /\ gResFlag' = gResFlag
        /\ UNCHANGED <<listening, pingPc, pingIdx, polls, requests, foreign, answered,
                       overtimes>>
    BY <1>8 DEF RecvIcmpPacket
  <2>2. gResFlag' \in BOOLEAN /\ (gResFlag => gResFlag')
    <3>1. CASE gResFlag' = TRUE
      BY Zenon, <3>1
    <3>2. CASE gResFlag' = gResFlag
      BY Zenon, <1>2, <3>2
    <3> QED  BY Zenon, <2>1, <3>1, <3>2
  <2>3. recvIdx' \in 0 .. PING_NUM /\ (unpacking' # {} => recvIdx' < PING_NUM)
    BY <1>2, <2>1, PingNumbers
  <2>4. PingTypeOK'
    <3>1. rawQueue' \cup unpacking' \subseteq [remote: BOOLEAN, own: BOOLEAN, seq: Nat]
      BY Zenon, <1>2, <2>1
    <3> QED  BY Zenon, <1>2, <2>1, <2>2, <2>3, <3>1 DEF PingTypeOK
  <2>5. RequestsAreOld' /\ RequestsVerify'
    <3>1. \A p \in rawQueue' \cup unpacking' : p \in rawQueue
      BY Zenon, <2>1
    <3> QED  BY Zenon, <1>1, <2>1, <2>3, <3>1 DEF RequestsAreOld, RequestsVerify
  <2>6. AnswersRaiseFlag'
    <3>1. ASSUME NEW n \in answered PROVE Waited(n)'
      BY Zenon, <1>1, <2>1, <2>2 DEF AnswersRaiseFlag, Waited
    <3>2. ASSUME NEW p \in unpacking', p.own PROVE Waited(p.seq)'
      <4>1. p.seq < pingIdx \/ (p.seq = pingIdx /\ pingPc # "send")
        BY Zenon, <1>1, <2>1, <3>2 DEF RequestsAreOld
      <4>2. pingPc \in {"poll", "overtime", "clear"} \/ pingPc = "send"
        BY Zenon, <1>2
      <4>3. gResFlag' = TRUE
        BY Zenon, <2>1, <3>2
      <4> QED  BY Zenon, <2>1, <4>1, <4>2, <4>3 DEF Waited
    <3> QED  BY Zenon, <2>1, <3>1, <3>2 DEF AnswersRaiseFlag
  <2> QED  BY <2>4, <2>5, <2>6 DEF PingIInv
<1>12. CASE UnpackIcmpPacket
  <2>1. PICK p \in unpacking : answered' = IF p.own THEN answered \cup {p.seq} ELSE answered
    BY <1>12 DEF UnpackIcmpPacket
  <2>2. /\ unpacking' = {} /\ recvIdx' = recvIdx + 1
        /\ UNCHANGED <<listening, pingPc, pingIdx, polls, gResFlag, requests, rawQueue,
                       foreign, overtimes>>
    BY <1>12 DEF UnpackIcmpPacket
  <2>3. recvIdx' \in 0 .. PING_NUM
    <3>1. recvIdx < PING_NUM
      BY <1>1, <2>1 DEF RequestsAreOld
    <3> QED  BY <1>2, <2>2, <3>1, PingNumbers
  <2>4. answered' \subseteq 0 .. PING_NUM
    <3>1. p.own => p.seq \in 0 .. PING_NUM
      BY <1>1, <1>2, PingNumbers DEF RequestsAreOld
    <3> QED  BY Zenon, <1>2, <2>1, <3>1
  <2>5. PingTypeOK'
    <3>1. rawQueue' \cup unpacking' \subseteq [remote: BOOLEAN, own: BOOLEAN, seq: Nat]
      BY Zenon, <1>2, <2>2
    <3> QED  BY Zenon, <1>2, <2>2, <2>3, <2>4, <3>1 DEF PingTypeOK
  <2>6. RequestsAreOld' /\ RequestsVerify'
    BY Zenon, <1>1, <2>2 DEF RequestsAreOld, RequestsVerify
  <2>7. AnswersRaiseFlag'
    <3>1. ASSUME NEW n \in answered' PROVE Waited(n)
      BY Zenon, <1>1, <2>1 DEF AnswersRaiseFlag
    <3>2. ASSUME NEW n \in answered' PROVE Waited(n)'
      BY Zenon, <2>2, <3>1 DEF Waited
    <3> QED  BY Zenon, <2>2, <3>2 DEF AnswersRaiseFlag
  <2> QED  BY <2>5, <2>6, <2>7 DEF PingIInv
<1>9. CASE RemoteAnswers
  <2>1. PICK q \in requests :
          /\ requests' = requests \ {q}
          /\ rawQueue' = rawQueue \cup {[remote |-> TRUE, own |-> TRUE, seq |-> q.seq]}
    BY <1>9 DEF RemoteAnswers
  <2>2. UNCHANGED <<listening, pingPc, pingIdx, polls, gResFlag, recvIdx, unpacking, foreign,
                    answered, overtimes>>
    BY <1>9 DEF RemoteAnswers
  <2>3. q.seq \in Nat
    BY <1>2, PingNumbers
  <2>4. rawQueue' \subseteq [remote: BOOLEAN, own: BOOLEAN, seq: Nat]
    <3>1. [remote |-> TRUE, own |-> TRUE, seq |-> q.seq]
             \in [remote: BOOLEAN, own: BOOLEAN, seq: Nat]
      BY <2>3, IcmpPacket
    <3> QED  BY <1>2, <2>1, <3>1
  <2>5. PingTypeOK'
    BY <1>2, <2>1, <2>2, <2>4 DEF PingTypeOK
  <2>6. RequestsAreOld'
    <3>1. q.seq < pingIdx \/ (q.seq = pingIdx /\ pingPc # "send")
      BY <1>1 DEF RequestsAreOld
    <3>2. \A p \in rawQueue' : p \in rawQueue \/ p.seq = q.seq
      BY <2>1
    <3>3. \A p \in rawQueue' : p.own =>
             p.seq < pingIdx \/ (p.seq = pingIdx /\ pingPc # "send")
      BY <1>1, <3>1, <3>2 DEF RequestsAreOld
    <3> QED  BY <1>1, <2>1, <2>2, <3>3 DEF RequestsAreOld
  <2>7. AnswersRaiseFlag' /\ RequestsVerify'
    BY <1>1, <2>1, <2>2 DEF AnswersRaiseFlag, Waited, RequestsVerify
  <2> QED  BY <2>5, <2>6, <2>7 DEF PingIInv
<1>10. CASE ForeignPacket
  <2>1. PICK remote \in BOOLEAN :
          rawQueue' = rawQueue \cup {[remote |-> remote, own |-> FALSE, seq |-> foreign]}
    BY <1>10 DEF ForeignPacket
  <2>2. /\ foreign < MaxForeign /\ foreign' = foreign + 1
        /\ UNCHANGED <<listening, pingPc, pingIdx, polls, gResFlag, requests, recvIdx,
                       unpacking, answered, overtimes>>
    BY <1>10 DEF ForeignPacket
  <2>3. rawQueue' \subseteq [remote: BOOLEAN, own: BOOLEAN, seq: Nat]
    <3>1. [remote |-> remote, own |-> FALSE, seq |-> foreign]
             \in [remote: BOOLEAN, own: BOOLEAN, seq: Nat]
      <4>1. foreign \in Nat
        BY <1>2, PingNumbers
      <4> QED  BY <4>1, IcmpPacket
    <3> QED  BY <1>2, <2>1, <3>1
  <2>4. PingTypeOK'
    BY <1>2, <2>2, <2>3, PingNumbers DEF PingTypeOK
  <2>5. RequestsAreOld'
    <3>1. \A p \in rawQueue' : p \in rawQueue \/ ~p.own
      BY <2>1
    <3> QED  BY <1>1, <2>2, <3>1 DEF RequestsAreOld
  <2>6. AnswersRaiseFlag' /\ RequestsVerify'
    BY <1>1, <2>2 DEF AnswersRaiseFlag, Waited, RequestsVerify
  <2> QED  BY <2>4, <2>5, <2>6 DEF PingIInv
<1>11. CASE UNCHANGED pingVars
  BY <1>1, <1>11
  DEF PingIInv, PingTypeOK, RequestsAreOld, AnswersRaiseFlag, Waited, RequestsVerify, pingVars
<1> QED  BY <1>4, <1>5, <1>6, <1>7, <1>8, <1>9, <1>10, <1>11, <1>12 DEF PingNext

(* A request is given up with the flag down.                               *)
LEMMA PingOvertime ==
    ASSUME PingIInv, [PingNext]_pingVars, pingPc' = "overtime", pingPc # "overtime"
    PROVE  pingIdx \notin answered
<1>1. AnswersRaiseFlag /\ pingIdx \in Nat
  BY PingNumbers DEF PingIInv, PingTypeOK
<1>2. Poll
  BY DEF PingNext, pingVars, SendRequest, SayOvertime, ClearFlag, SendAlone,
         RecvIcmpPacket, UnpackIcmpPacket, RemoteAnswers, ForeignPacket
<1>3. pingPc = "poll" /\ ~gResFlag
  BY <1>2 DEF Poll
<1> QED  BY <1>1, <1>3 DEF AnswersRaiseFlag, Waited

-----------------------------------------------------------------------------
(* SelectServer.                                                           *)

(* Below the connections there are files and the listening socket, which   *)
(* are open until a line is typed or a client is ready together with it.   *)
DescriptorsOpen ==
    /\ saveClientFdSet \in [Fds -> Fds \cup {None}]
    /\ connOf[serverFd] \in {Listener, Closed}
    /\ \A fd \in Fds : /\ connOf[fd] = Listener => fd = serverFd
                       /\ connOf[fd] = File => fd < serverFd
    /\ ~typed /\ ~together => connOf[serverFd] = Listener /\ connOf[0] = File

(* A connection has one descriptor, with an entry of its own that the loop *)
(* over the entries reaches; an entry of its own is for what is open.      *)
ConnectionsKept ==
    /\ \A fd \in Fds : connOf[fd] \in Conns =>
          fd < maxFd /\ saveClientFdSet[fd] = fd /\ connOf[fd] <= accepted
    /\ \A fd \in Fds : saveClientFdSet[fd] = fd /\ fd # 0 => connOf[fd] # Closed
    /\ \A fd, other \in Fds : connOf[fd] = connOf[other] /\ connOf[fd] \in Conns => fd = other

(* What the loop over the set may still meet.                              *)
SetScanned ==
    /\ selPc = "accept" =>
          /\ connOf[serverFd] = Listener /\ nconn > accepted /\ serverFd \in sockFdSet
          /\ fdCnt > 0 /\ (together \/ fdCnt = 1)
    /\ selPc \in {"scan", "read"} /\ serverFd \in sockFdSet => together \/ fdCnt = 0
    /\ selPc \in {"accept", "scan", "read"} /\ 0 \in sockFdSet => typed \/ together
    /\ selPc = "read" => scanFd \in sockFdSet /\ fdCnt > 0

SelectIInv ==
    SelectTypeOK /\ DescriptorsOpen /\ ConnectionsKept /\ SetScanned /\ EndsByTwoThings

LEMMA FdNumbers ==
    /\ MaxConn \in Nat /\ MaxConn > 0 /\ Fds \subseteq Nat /\ 0 \in Fds /\ serverFd \in Fds
    /\ \A fd \in Fds : fd <= serverFd + MaxConn
    /\ IsFiniteSet(Fds)
    /\ Conns \subseteq Nat /\ File \notin Conns /\ Listener \notin Conns /\ Closed \notin Conns
<1>1. MaxConn \in Nat /\ MaxConn > 0
  BY ClientAssumption
<1>2. IsFiniteSet(0 .. (3 + MaxConn))
  BY <1>1, FS_Interval
<1> QED  BY <1>1, <1>2 DEF Fds, serverFd, Conns, File, Listener, Closed

(* The least member of a set of descriptors.                               *)
LEMMA LeastFd ==
    ASSUME NEW S, S \subseteq Nat, S # {}
    PROVE  Min(S) \in S /\ \A y \in S : Min(S) <= y
<1>1. PICK x \in S : \A y \in S : ~(<<y, x>> \in OpToRel(<, Nat))
  BY NatLessThanWellFounded, WFMin
<1>2. ASSUME NEW y \in S PROVE x <= y
  <2>1. x \in Nat /\ y \in Nat
    OBVIOUS
  <2>2. y < x => <<y, x>> \in OpToRel(<, Nat)
    BY <2>1 DEF OpToRel
  <2>3. ~(y < x)
    BY <1>1, <2>2, Zenon
  <2> QED  BY <2>1, <2>3
<1>3. Min(S) = CHOOSE z \in S : \A y \in S : z <= y
  BY Zenon DEF Min
<1> DEFINE z == CHOOSE z \in S : \A y \in S : z <= y
<1>4. z \in S /\ \A y \in S : z <= y
  BY Zenon, <1>2
<1> QED  BY Zenon, <1>3, <1>4

LEMMA SelectClientStep ==
    ASSUME ClientTypeOK,
           ClientNext \/ (\E c \in Conns, n \in 1 .. MaxMsg : Take(c, n))
    PROVE  ClientTypeOK' /\ nconn' \in Nat /\ nconn <= nconn'
<1> USE ClientAssumption DEF ClientTypeOK
<1>1. CASE Connect
  BY <1>1 DEF Connect
<1>2. ASSUME NEW c \in Conns, ClientSend(c) PROVE ClientTypeOK' /\ nconn' = nconn
  <2>1. sent[c] + 1 \in 0 .. MaxMsg /\ data[c] + 1 \in 0 .. MaxMsg
    BY <1>2 DEF ClientSend
  <2> QED  BY <1>2, <2>1 DEF ClientSend
<1>3. ASSUME NEW c \in Conns, ClientClose(c) \/ ConnReset(c)
      PROVE  ClientTypeOK' /\ nconn' = nconn
  BY <1>3 DEF ClientClose, ConnReset
<1>4. ASSUME NEW c \in Conns, NEW n \in 1 .. MaxMsg, Take(c, n)
      PROVE  ClientTypeOK' /\ nconn' = nconn
  <2>1. data[c] - n \in 0 .. MaxMsg /\ data[c] - n <= data[c]
    BY <1>4 DEF Take
  <2> QED  BY <1>4, <2>1 DEF Take
<1> QED  BY <1>1, <1>2, <1>3, <1>4 DEF ClientNext

LEMMA SelectInitIInv == SelectInit => SelectIInv
<1> SUFFICES ASSUME SelectInit PROVE SelectIInv
  OBVIOUS
<1> USE FdNumbers
<1>1. ClientTypeOK
  BY ClientAssumption DEF SelectInit, ClientInit, ClientTypeOK
<1>2. /\ connOf \in [Fds -> {File, Listener, Closed}]
      /\ \A fd \in Fds : connOf[fd] = IF fd < serverFd THEN File
                                      ELSE IF fd = serverFd THEN Listener ELSE Closed
      /\ saveClientFdSet \in [Fds -> Fds \cup {None}]
      /\ \A fd \in Fds : saveClientFdSet[fd] = IF fd = 0 THEN None ELSE 0
  BY DEF SelectInit
<1>3. /\ accepted = 0 /\ maxFd = serverFd + 1 /\ nconn = 0
      /\ sockFdSet = {} /\ fdCnt = 0 /\ scanFd = 0 /\ iTimes = 0
      /\ selPc = "select" /\ typed = FALSE /\ together = FALSE
  BY DEF SelectInit, ClientInit
<1>4. SelectTypeOK
  <2>1. typed \in BOOLEAN /\ together \in BOOLEAN
    BY <1>3
  <2>2. maxFd \in serverFd + 1 .. serverFd + MaxConn + 1 /\ scanFd \in 0 .. serverFd + MaxConn + 1
    BY <1>3 DEF serverFd
  <2> QED  BY <1>1, <1>2, <1>3, <2>1, <2>2 DEF SelectTypeOK
<1>5. DescriptorsOpen
  BY <1>2, <1>3 DEF DescriptorsOpen, serverFd, File, Listener, Closed
<1>6. ConnectionsKept
  BY <1>2, <1>3 DEF ConnectionsKept, Closed, None
<1> QED  BY <1>3, <1>4, <1>5, <1>6 DEF SelectIInv, SetScanned, EndsByTwoThings

(* Every connection is watched.                                            *)
LEMMA SelectInvWatches == SelectIInv => AcceptedIsWatched
<1> SUFFICES ASSUME SelectIInv PROVE AcceptedIsWatched
  OBVIOUS
<1> USE FdNumbers
<1>1. ASSUME NEW fd \in Fds, connOf[fd] \in Conns PROVE fd \in Watched
  <2>1. fd < maxFd /\ saveClientFdSet[fd] = fd /\ maxFd \in Int
    BY <1>1 DEF SelectIInv, ConnectionsKept, SelectTypeOK, serverFd
  <2>2. fd \in 0 .. (maxFd - 1) /\ fd # None
    BY <2>1 DEF None
  <2> QED  BY <2>1, <2>2 DEF Watched
<1> QED  BY <1>1 DEF AcceptedIsWatched, SelectIInv, ConnectionsKept

(* What is watched is a descriptor: 3, 0 for an entry never set, or one of *)
(* its own.                                                                *)
LEMMA WatchedFds ==
    ASSUME SelectTypeOK
    PROVE  \A fd \in Watched : fd \in Fds /\ (fd = serverFd \/ fd = 0 \/ saveClientFdSet[fd] = fd)
<1> USE FdNumbers
<1>1. ASSUME NEW fd \in Watched, fd # serverFd
      PROVE  fd \in Fds /\ (fd = 0 \/ saveClientFdSet[fd] = fd)
  <2>1. PICK idx \in 0 .. (maxFd - 1) : saveClientFdSet[idx] = fd /\ fd # None
    BY <1>1 DEF Watched
  <2>2. idx \in Fds
    BY <2>1 DEF SelectTypeOK, Fds, serverFd
  <2>3. fd = 0 \/ fd = idx
    BY <2>1, <2>2 DEF SelectTypeOK
  <2> QED  BY <2>1, <2>2, <2>3
<1> QED  BY <1>1

LEMMA SelectSelect == ASSUME SelectIInv, Select PROVE SelectIInv'
<1> USE FdNumbers
<1>1. SelectTypeOK /\ DescriptorsOpen /\ ConnectionsKept /\ SetScanned /\ EndsByTwoThings
  BY DEF SelectIInv
<1>2. /\ selPc = "select" /\ scanFd' = 0 /\ iTimes' = 0
      /\ UNCHANGED <<connOf, accepted, saveClientFdSet, maxFd, typed, clientVars>>
  BY DEF Select
<1>3. ConnectionsKept'
  BY <1>1, <1>2 DEF ConnectionsKept
<1>4. ClientTypeOK' /\ nconn' = nconn
  BY <1>1, <1>2 DEF SelectTypeOK, ClientTypeOK, clientVars
<1>5. CASE selPc' = "selectError" /\ UNCHANGED <<sockFdSet, fdCnt, together>>
  <2>1. PICK fd \in Watched : connOf[fd] = Closed
    BY <1>5 DEF Select
  <2>2. typed \/ together
    <3>1. CASE fd = serverFd
      BY <1>1, <2>1, <3>1 DEF DescriptorsOpen, Listener, Closed
    <3>2. CASE fd = 0
      BY <1>1, <2>1, <3>2 DEF DescriptorsOpen, File, Closed
    <3>3. CASE fd # serverFd /\ fd # 0
      BY <1>1, <2>1, <3>3, WatchedFds DEF ConnectionsKept
    <3> QED  BY <3>1, <3>2, <3>3
  <2>3. SelectTypeOK'
    BY <1>1, <1>2, <1>4, <1>5 DEF SelectTypeOK, serverFd
  <2>4. DescriptorsOpen'
    BY <1>1, <1>2, <1>5 DEF DescriptorsOpen
  <2>5. SetScanned' /\ EndsByTwoThings'
    BY <1>2, <1>5, <2>2 DEF SetScanned, EndsByTwoThings
  <2> QED  BY <1>3, <2>3, <2>4, <2>5 DEF SelectIInv
<1>6. CASE ~(selPc' = "selectError" /\ UNCHANGED <<sockFdSet, fdCnt, together>>)
  <2>1. /\ \A fd \in Watched : connOf[fd] # Closed
        /\ sockFdSet' = {fd \in Watched : Readable(fd)} /\ sockFdSet' # {}
        /\ fdCnt' = Cardinality(sockFdSet')
        /\ together' = (together \/ (serverFd \in sockFdSet' /\ sockFdSet' # {serverFd}))
        /\ selPc' = IF serverFd \in sockFdSet' THEN "accept" ELSE "scan"
    BY <1>6 DEF Select
  <2>2. sockFdSet' \subseteq Fds
    BY <1>1, <2>1, WatchedFds
  <2>3. /\ IsFiniteSet(sockFdSet') /\ fdCnt' \in Nat /\ fdCnt' > 0
        /\ sockFdSet' = {serverFd} => fdCnt' = 1
    <3>1. IsFiniteSet(sockFdSet')
      BY <2>2, FS_Subset
    <3>2. fdCnt' \in Nat /\ fdCnt' # 0
      BY <2>1, <3>1, FS_CardinalityType, FS_EmptySet
    <3>3. sockFdSet' = {serverFd} => fdCnt' = 1
      BY <2>1, FS_Singleton
    <3> QED  BY <3>1, <3>2, <3>3
  <2>4. together' \in BOOLEAN /\ (together => together')
    BY <2>1
  <2>5. serverFd \in sockFdSet' => connOf[serverFd] = Listener /\ nconn > accepted
    <3>1. SUFFICES ASSUME serverFd \in sockFdSet'
                   PROVE  connOf[serverFd] = Listener /\ nconn > accepted
      OBVIOUS
    <3>2. serverFd \in Watched /\ Readable(serverFd)
      BY <2>1, <3>1
    <3>3. connOf[serverFd] = Listener
      BY <1>1, <2>1, <3>2 DEF DescriptorsOpen
    <3> QED  BY <3>2, <3>3 DEF Readable, Listener, File
  <2>6. 0 \in sockFdSet' => typed \/ together
    <3>1. SUFFICES ASSUME 0 \in sockFdSet', ~together, ~typed PROVE FALSE
      OBVIOUS
    <3>2. Readable(0) /\ connOf[0] = File
      BY <1>1, <2>1, <3>1 DEF DescriptorsOpen
    <3> QED  BY <3>1, <3>2 DEF Readable, Listener, File, Conns
  <2>7. SelectTypeOK'
    <3>1. fdCnt' \in Nat /\ iTimes' \in Nat /\ scanFd' \in 0 .. (serverFd + MaxConn + 1)
      BY <1>2, <2>3 DEF serverFd
    <3>2. selPc' \in {"select", "accept", "scan", "read", "selectError", "acceptFailed", "overrun"}
      BY <2>1
    <3> QED  BY <1>1, <1>2, <1>4, <2>2, <2>4, <3>1, <3>2 DEF SelectTypeOK
  <2>8. DescriptorsOpen'
    BY <1>1, <1>2, <2>4 DEF DescriptorsOpen
  <2>9. SetScanned'
    BY <1>2, <1>4, <2>1, <2>3, <2>4, <2>5, <2>6 DEF SetScanned
  <2>10. EndsByTwoThings'
    BY <2>1 DEF EndsByTwoThings
  <2> QED  BY <1>3, <2>7, <2>8, <2>9, <2>10 DEF SelectIInv
<1> QED  BY <1>5, <1>6


(* There is a descriptor for a connection that has been established: no    *)
(* two are one connection, and those of the accepted ones are not enough   *)
(* to fill the table.                                                      *)
LEMMA DescriptorFree ==
    ASSUME SelectTypeOK, DescriptorsOpen, ConnectionsKept, nconn > accepted
    PROVE  \E fd \in Fds : connOf[fd] = Closed
<1> USE FdNumbers
<1> SUFFICES ASSUME \A fd \in Fds : connOf[fd] # Closed PROVE FALSE
  OBVIOUS
<1> DEFINE S == (serverFd + 1) .. (serverFd + MaxConn)
           T == 1 .. (MaxConn - 1)
           f == [fd \in S |-> connOf[fd]]
<1>1. S \subseteq Fds /\ \A fd \in S : fd # serverFd /\ ~(fd < serverFd)
  BY DEF Fds, serverFd
<1>2. accepted \in Nat /\ accepted < MaxConn
  BY DEF SelectTypeOK, ClientTypeOK
<1>3. ASSUME NEW fd \in S PROVE connOf[fd] \in T /\ connOf[fd] \in Conns
  <2>1. connOf[fd] \in Conns
    BY <1>1 DEF SelectTypeOK, DescriptorsOpen
  <2>2. connOf[fd] <= accepted
    BY <1>1, <2>1 DEF ConnectionsKept
  <2> QED  BY <1>2, <2>1, <2>2 DEF Conns
<1>4. f \in [S -> T]
  BY <1>3
<1>5. IsFiniteSet(S) /\ Cardinality(S) = MaxConn
  BY FS_Interval DEF serverFd
<1>6. IsFiniteSet(T) /\ Cardinality(T) = MaxConn - 1
  BY FS_Interval
<1>7. Cardinality(T) < Cardinality(S) /\ \A fd \in S : f[fd] = connOf[fd]
  BY <1>5, <1>6
<1> HIDE DEF S, T, f
<1>8. PICK x \in S, y \in S : x # y /\ f[x] = f[y]
  <2>1. \A A, B : IsFiniteSet(A) /\ IsFiniteSet(B) /\ Cardinality(B) < Cardinality(A) =>
                     \A g \in [A -> B] : \E x, y \in A : x # y /\ g[x] = g[y]
    BY FS_PigeonHole
  <2> QED  BY <1>4, <1>5, <1>6, <1>7, <2>1
<1> QED  BY <1>1, <1>3, <1>7, <1>8 DEF ConnectionsKept

(* accept() fails, or all descriptors below the one it returns are open.   *)
LEMMA SelectAcceptEnds == ASSUME SelectIInv, AcceptEnds PROVE SelectIInv'
<1> USE FdNumbers
<1>1. SelectTypeOK /\ DescriptorsOpen /\ ConnectionsKept /\ SetScanned
  BY DEF SelectIInv
<1>2. /\ selPc = "accept" /\ selPc' \in {"acceptFailed", "overrun"}
      /\ selPc' = "overrun" => ~(LowestFree < FD_SETSIZE)
      /\ UNCHANGED <<connOf, accepted, saveClientFdSet, maxFd, sockFdSet, fdCnt,
                     scanFd, iTimes, typed, together, clientVars>>
  BY DEF AcceptEnds
<1>3. ClientTypeOK' /\ nconn' = nconn
  BY <1>1, <1>2 DEF SelectTypeOK, ClientTypeOK, clientVars
<1>4. SelectTypeOK'
  BY <1>1, <1>2, <1>3 DEF SelectTypeOK
<1>5. DescriptorsOpen' /\ ConnectionsKept' /\ SetScanned'
  BY <1>1, <1>2 DEF DescriptorsOpen, ConnectionsKept, SetScanned
<1>6. ASSUME selPc' = "overrun", NEW fd \in 0 .. FD_SETSIZE - 1
      PROVE  connOf[fd] # Closed
  <2> DEFINE free == {x \in Fds : connOf[x] = Closed}
  <2>1. nconn > accepted
    BY <1>1, <1>2 DEF SetScanned
  <2>2. free \subseteq Nat /\ free # {}
    BY <1>1, <2>1, DescriptorFree
  <2>3. Min(free) \in free /\ \A x \in free : Min(free) <= x
    BY Zenon, <2>2, LeastFd
  <2>4. ~(Min(free) < FD_SETSIZE)
    BY Zenon, <1>2, <1>6 DEF LowestFree
  <2>5. Min(free) \in Fds
    BY <2>3
  <2> DEFINE least == Min(free)
  <2>6. least \in Fds /\ ~(least < FD_SETSIZE) /\ \A x \in free : least <= x
    BY Zenon, <2>3, <2>4, <2>5
  <2> HIDE DEF least, free
  <2>7. fd \in Fds /\ ~(least <= fd)
    BY <2>6, SelectAssumption DEF Fds, serverFd
  <2>8. fd \notin free
    BY Zenon, <2>6, <2>7
  <2> QED  BY Zenon, <2>7, <2>8 DEF free
<1>7. EndsByTwoThings'
  BY Zenon, <1>2, <1>6 DEF EndsByTwoThings
<1> QED  BY Zenon, <1>4, <1>5, <1>7 DEF SelectIInv

LEMMA SelectAccept == ASSUME SelectIInv, Accept PROVE SelectIInv'
<1> USE FdNumbers
<1>1. SelectTypeOK /\ DescriptorsOpen /\ ConnectionsKept /\ SetScanned /\ EndsByTwoThings
  BY DEF SelectIInv
<1> DEFINE fds == {fd \in Fds : connOf[fd] = Closed}
<1>2. /\ connOf[serverFd] = Listener /\ nconn > accepted /\ serverFd \in sockFdSet
      /\ fdCnt > 0 /\ (together \/ fdCnt = 1)
  BY <1>1 DEF Accept, SetScanned
<1>3. fds # {} /\ fds \subseteq Nat
  BY <1>1, <1>2, DescriptorFree
<1>4. PICK acceptFd \in Fds :
        /\ connOf[acceptFd] = Closed
        /\ connOf' = [connOf EXCEPT ![acceptFd] = accepted + 1]
        /\ maxFd' = IF acceptFd >= maxFd THEN acceptFd + 1 ELSE maxFd
        /\ saveClientFdSet' = [saveClientFdSet EXCEPT ![acceptFd] = acceptFd]
  <2>1. Min(fds) \in fds
    BY <1>3, LeastFd
  <2> QED  BY <2>1 DEF Accept, LowestFree
<1>5. /\ accepted' = accepted + 1 /\ fdCnt' = fdCnt - 1 /\ selPc = "accept" /\ selPc' = "scan"
      /\ UNCHANGED <<sockFdSet, scanFd, iTimes, typed, together, clientVars>>
  BY DEF Accept
<1>6. /\ accepted \in Nat /\ nconn \in 0 .. MaxConn /\ fdCnt \in Nat /\ maxFd \in Nat
      /\ maxFd >= serverFd + 1 /\ maxFd <= serverFd + MaxConn + 1
      /\ connOf \in [Fds -> Conns \cup {File, Listener, Closed}]
      /\ saveClientFdSet \in [Fds -> Fds \cup {None}]
  BY <1>1 DEF SelectTypeOK, ClientTypeOK, DescriptorsOpen, serverFd
<1>7. accepted + 1 \in Conns /\ acceptFd # serverFd /\ acceptFd \in Nat
      /\ acceptFd <= serverFd + MaxConn
  BY <1>2, <1>4, <1>6 DEF Conns, Listener, Closed
<1>8. /\ \A fd \in Fds : connOf'[fd] = IF fd = acceptFd THEN accepted + 1 ELSE connOf[fd]
      /\ \A fd \in Fds :
            saveClientFdSet'[fd] = IF fd = acceptFd THEN acceptFd ELSE saveClientFdSet[fd]
  BY <1>4, <1>6
<1>9. /\ maxFd' \in Nat /\ maxFd' >= serverFd + 1 /\ maxFd' <= serverFd + MaxConn + 1
      /\ maxFd <= maxFd' /\ acceptFd < maxFd'
  BY <1>4, <1>6, <1>7 DEF serverFd
<1>10. ClientTypeOK' /\ nconn' = nconn
  BY <1>1, <1>5 DEF SelectTypeOK, ClientTypeOK, clientVars
<1>11. SelectTypeOK'
  <2>1. connOf' \in [Fds -> Conns \cup {File, Listener, Closed}]
    BY <1>4, <1>6, <1>7
  <2>2. accepted' \in 0 .. nconn' /\ fdCnt' \in Nat
    BY <1>2, <1>5, <1>6, <1>10
  <2>3. maxFd' \in (serverFd + 1) .. (serverFd + MaxConn + 1)
    BY <1>9 DEF serverFd
  <2>4. \A fd \in Fds : saveClientFdSet'[fd] \in {None, 0, fd}
    BY <1>1, <1>8 DEF SelectTypeOK
  <2> QED  BY <1>1, <1>5, <1>10, <2>1, <2>2, <2>3, <2>4 DEF SelectTypeOK
<1>12. DescriptorsOpen'
  <2>1. saveClientFdSet' \in [Fds -> Fds \cup {None}]
    BY <1>4, <1>6
  <2>2. connOf'[serverFd] = connOf[serverFd]
    BY <1>7, <1>8
  <2>3. \A fd \in Fds : /\ connOf'[fd] = Listener => fd = serverFd
                        /\ connOf'[fd] = File => fd < serverFd
    BY <1>1, <1>7, <1>8 DEF DescriptorsOpen
  <2>4. connOf[0] = File => connOf'[0] = File
    BY <1>4, <1>8 DEF File, Closed
  <2> QED  BY <1>1, <1>5, <2>1, <2>2, <2>3, <2>4 DEF DescriptorsOpen
<1>13. ConnectionsKept'
  <2>1. \A fd \in Fds : connOf'[fd] \in Conns =>
           fd < maxFd' /\ saveClientFdSet'[fd] = fd /\ connOf'[fd] <= accepted'
    <3>1. SUFFICES ASSUME NEW fd \in Fds, connOf'[fd] \in Conns
                   PROVE  fd < maxFd' /\ saveClientFdSet'[fd] = fd /\ connOf'[fd] <= accepted'
      OBVIOUS
    <3>2. CASE fd = acceptFd
      BY <1>5, <1>6, <1>8, <1>9, <3>2
    <3>3. CASE fd # acceptFd
      <4>1. fd < maxFd /\ saveClientFdSet[fd] = fd /\ connOf[fd] <= accepted
        BY <1>1, <1>8, <3>1, <3>3 DEF ConnectionsKept
      <4>2. connOf'[fd] = connOf[fd] /\ connOf[fd] \in Nat
        BY <1>8, <3>1, <3>3
      <4> QED  BY <1>5, <1>6, <1>8, <1>9, <3>3, <4>1, <4>2
    <3> QED  BY <3>2, <3>3
  <2>2. \A fd \in Fds : saveClientFdSet'[fd] = fd /\ fd # 0 => connOf'[fd] # Closed
    BY <1>1, <1>7, <1>8 DEF ConnectionsKept
  <2>3. ASSUME NEW fd \in Fds, NEW other \in Fds,
               connOf'[fd] = connOf'[other], connOf'[fd] \in Conns
        PROVE  fd = other
    <3>1. \A x \in Fds : connOf[x] \in Conns => connOf[x] # accepted + 1
      BY <1>1, <1>6 DEF ConnectionsKept
    <3> QED  BY <1>1, <1>7, <1>8, <2>3, <3>1 DEF ConnectionsKept
  <2> QED  BY <2>1, <2>2, <2>3 DEF ConnectionsKept
<1>14. SetScanned' /\ EndsByTwoThings'
  <2>1. together \/ fdCnt' = 0
    BY <1>2, <1>5
  <2> QED  BY <1>1, <1>5, <2>1 DEF SetScanned, EndsByTwoThings
<1> QED  BY <1>11, <1>12, <1>13, <1>14 DEF SelectIInv

LEMMA SelectScan == ASSUME SelectIInv, Scan PROVE SelectIInv'
<1> USE FdNumbers
<1>1. SelectTypeOK /\ DescriptorsOpen /\ ConnectionsKept /\ SetScanned /\ EndsByTwoThings
  BY DEF SelectIInv
<1> DEFINE ahead == {fd \in sockFdSet : fd >= scanFd /\ fd < maxFd}
<1>2. /\ selPc = "scan"
      /\ UNCHANGED <<connOf, accepted, saveClientFdSet, maxFd, sockFdSet, fdCnt,
                     typed, together, clientVars>>
  BY DEF Scan
<1>3. ClientTypeOK' /\ nconn' = nconn
  BY <1>1, <1>2 DEF SelectTypeOK, ClientTypeOK, clientVars
<1>4. DescriptorsOpen' /\ ConnectionsKept'
  BY <1>1, <1>2 DEF DescriptorsOpen, ConnectionsKept
<1>5. CASE iTimes < fdCnt /\ ahead # {}
  <2>1. scanFd' = Min(ahead) /\ iTimes' = iTimes + 1 /\ selPc' = "read"
    BY <1>5 DEF Scan
  <2>2. ahead \subseteq Nat
    BY <1>1 DEF SelectTypeOK
  <2>3. Min(ahead) \in ahead
    BY <1>5, <2>2, LeastFd
  <2>4. scanFd' \in sockFdSet /\ scanFd' \in Fds /\ fdCnt > 0
    <3>1. fdCnt \in Nat /\ iTimes \in Nat /\ sockFdSet \subseteq Fds
      BY <1>1 DEF SelectTypeOK
    <3>2. fdCnt > 0
      BY <1>5, <3>1
    <3> HIDE DEF ahead
    <3>3. scanFd' \in ahead
      BY <2>1, <2>3
    <3> QED  BY <3>1, <3>2, <3>3 DEF ahead
  <2>5. SelectTypeOK'
    <3>1. scanFd' \in 0 .. (serverFd + MaxConn + 1) /\ iTimes' \in Nat
      BY <1>1, <2>1, <2>4 DEF SelectTypeOK, serverFd
    <3> QED  BY <1>1, <1>2, <1>3, <2>1, <3>1 DEF SelectTypeOK
  <2> QED  BY <1>1, <1>2, <1>4, <2>1, <2>4, <2>5 DEF SelectIInv, SetScanned, EndsByTwoThings
<1>6. CASE ~(iTimes < fdCnt /\ ahead # {})
  <2>1. selPc' = "select" /\ UNCHANGED <<scanFd, iTimes>>
    BY <1>6 DEF Scan
  <2>2. SelectTypeOK'
    BY <1>1, <1>2, <1>3, <2>1 DEF SelectTypeOK
  <2> QED  BY <1>1, <1>2, <1>4, <2>1, <2>2 DEF SelectIInv, SetScanned, EndsByTwoThings
<1> QED  BY <1>5, <1>6

LEMMA SelectReadEnd == ASSUME SelectIInv, ReadEnd PROVE SelectIInv'
<1> USE FdNumbers
<1>1. SelectTypeOK /\ DescriptorsOpen /\ ConnectionsKept /\ SetScanned /\ EndsByTwoThings
  BY DEF SelectIInv
<1>2. /\ selPc = "read" /\ selPc' = "scan" /\ scanFd' = scanFd + 1
      /\ saveClientFdSet' = [saveClientFdSet EXCEPT ![scanFd] = None]
      /\ connOf' = [connOf EXCEPT ![scanFd] = Closed]
      /\ UNCHANGED <<accepted, maxFd, sockFdSet, fdCnt, iTimes, typed, together, clientVars>>
  BY DEF ReadEnd
<1>3. scanFd \in sockFdSet /\ scanFd \in Fds /\ fdCnt > 0
  BY <1>1, <1>2 DEF SetScanned, SelectTypeOK
<1>4. /\ scanFd = serverFd => together
      /\ scanFd = 0 => typed \/ together
  BY <1>1, <1>2, <1>3 DEF SetScanned
<1>5. /\ connOf \in [Fds -> Conns \cup {File, Listener, Closed}]
      /\ saveClientFdSet \in [Fds -> Fds \cup {None}]
  BY <1>1 DEF SelectTypeOK, DescriptorsOpen
<1>6. /\ \A fd \in Fds : connOf'[fd] = IF fd = scanFd THEN Closed ELSE connOf[fd]
      /\ \A fd \in Fds :
            saveClientFdSet'[fd] = IF fd = scanFd THEN None ELSE saveClientFdSet[fd]
  BY <1>2, <1>3, <1>5
<1>7. ClientTypeOK' /\ nconn' = nconn
  BY <1>1, <1>2 DEF SelectTypeOK, ClientTypeOK, clientVars
<1>8. SelectTypeOK'
  <2>1. connOf' \in [Fds -> Conns \cup {File, Listener, Closed}]
    BY <1>2, <1>5
  <2>2. scanFd' \in 0 .. (serverFd + MaxConn + 1)
    BY <1>2, <1>3 DEF serverFd
  <2>3. \A fd \in Fds : saveClientFdSet'[fd] \in {None, 0, fd}
    BY <1>1, <1>6 DEF SelectTypeOK
  <2> QED  BY <1>1, <1>2, <1>7, <2>1, <2>2, <2>3 DEF SelectTypeOK
<1>9. DescriptorsOpen'
  <2>1. saveClientFdSet' \in [Fds -> Fds \cup {None}]
    BY <1>2, <1>5
  <2>2. connOf'[serverFd] \in {Listener, Closed}
    BY <1>1, <1>6 DEF DescriptorsOpen
  <2>3. \A fd \in Fds : /\ connOf'[fd] = Listener => fd = serverFd
                        /\ connOf'[fd] = File => fd < serverFd
    BY <1>1, <1>6 DEF DescriptorsOpen, Listener, File, Closed
  <2>4. ~typed' /\ ~together' => connOf'[serverFd] = Listener /\ connOf'[0] = File
    BY <1>1, <1>2, <1>4, <1>6 DEF DescriptorsOpen
  <2> QED  BY <2>1, <2>2, <2>3, <2>4 DEF DescriptorsOpen
<1>10. ConnectionsKept'
  <2>1. \A fd \in Fds : connOf'[fd] \in Conns =>
           fd < maxFd' /\ saveClientFdSet'[fd] = fd /\ connOf'[fd] <= accepted'
    BY <1>1, <1>2, <1>6 DEF ConnectionsKept
  <2>2. \A fd \in Fds : saveClientFdSet'[fd] = fd /\ fd # 0 => connOf'[fd] # Closed
    BY <1>1, <1>6 DEF ConnectionsKept, None
  <2>3. ASSUME NEW fd \in Fds, NEW other \in Fds,
               connOf'[fd] = connOf'[other], connOf'[fd] \in Conns
        PROVE  fd = other
    BY <1>1, <1>6, <2>3 DEF ConnectionsKept
  <2> QED  BY <2>1, <2>2, <2>3 DEF ConnectionsKept
<1>11. SetScanned' /\ EndsByTwoThings'
  BY <1>1, <1>2 DEF SetScanned, EndsByTwoThings
<1> QED  BY <1>8, <1>9, <1>10, <1>11 DEF SelectIInv

LEMMA SelectNextIInv == ASSUME SelectIInv, [SelectNext]_selectVars PROVE SelectIInv'
<1>1. SelectTypeOK /\ DescriptorsOpen /\ ConnectionsKept /\ SetScanned /\ EndsByTwoThings
  BY DEF SelectIInv
<1>2. ASSUME ReadData \/ SelectClients PROVE SelectIInv'
  <2>1. UNCHANGED <<connOf, accepted, saveClientFdSet, maxFd, sockFdSet, fdCnt,
                    scanFd, iTimes, selPc, typed, together>>
    BY <1>2 DEF ReadData, SelectClients
  <2>2. ClientTypeOK' /\ nconn' \in Nat /\ nconn <= nconn' /\ nconn \in Nat /\ accepted \in 0 .. nconn
    BY <1>1, <1>2, SelectClientStep, ClientAssumption
    DEF ReadData, SelectClients, SelectTypeOK, ClientTypeOK
  <2>3. SelectTypeOK'
    BY <1>1, <2>1, <2>2 DEF SelectTypeOK
  <2>4. SetScanned'
    BY <1>1, <2>1, <2>2 DEF SetScanned
  <2> QED
    BY <1>1, <2>1, <2>3, <2>4 DEF SelectIInv, DescriptorsOpen, ConnectionsKept, EndsByTwoThings
<1>3. CASE Typing
  <2>1. /\ typed' = TRUE
        /\ UNCHANGED <<connOf, accepted, saveClientFdSet, maxFd, sockFdSet, fdCnt,
                       scanFd, iTimes, selPc, together, clientVars>>
    BY <1>3 DEF Typing
  <2>2. typed' \in BOOLEAN /\ ClientTypeOK' /\ nconn' = nconn
    BY <1>1, <2>1 DEF SelectTypeOK, ClientTypeOK, clientVars
  <2>3. SelectTypeOK'
    BY <1>1, <2>1, <2>2 DEF SelectTypeOK
  <2> QED
    BY <1>1, <2>1, <2>2, <2>3
    DEF SelectIInv, DescriptorsOpen, ConnectionsKept, SetScanned, EndsByTwoThings
<1>4. CASE UNCHANGED selectVars
  BY <1>1, <1>4
  DEF SelectIInv, SelectTypeOK, ClientTypeOK, DescriptorsOpen, ConnectionsKept, SetScanned,
      EndsByTwoThings, selectVars, clientVars
<1> QED
  BY <1>2, <1>3, <1>4, SelectSelect, SelectAccept, SelectAcceptEnds, SelectScan, SelectReadEnd
  DEF SelectNext

-----------------------------------------------------------------------------
(* TcpRecords.                                                             *)

Over(c) == runPc[c] \in {"closed", "exit"}

(* A run has sent what it has counted, and all of it when it closed; the   *)
(* port belongs to the one that is between bind() and close().             *)
RunsCounted ==
    /\ runPc \in [Runs -> {"init", "connect", "send", "closed", "exit"}]
    /\ sendIdx \in [Runs -> 0 .. Records] /\ sentBytes \in [Runs -> Nat]
    /\ \A c \in Runs : /\ sentBytes[c] <= sendIdx[c] * RecordLen
                       /\ runPc[c] = "closed" => sendIdx[c] = Records
                       /\ runPc[c] \in {"connect", "send"} => portClient = c

Connected(c) ==
    runPc[c] \in {"send", "closed", "exit"} /\ (runPc[c] = "exit" => c \in broken)

(* Of all runs that have connected, accepted or not, only the last has not *)
(* ended; one ends without closing only when its connection is broken.     *)
ConnectedInOrder ==
    /\ opened \in Seq(Runs) /\ backlog \in Seq(Runs)
    /\ \A i \in 1 .. Len(opened) :
          Connected(opened[i]) /\ (i < Len(opened) \/ backlog # <<>> => Over(opened[i]))
    /\ \A i \in 1 .. Len(backlog) :
          Connected(backlog[i]) /\ (i < Len(backlog) => Over(backlog[i]))

(* What was shown is part of what the first run has sent; a read that was  *)
(* cut short is the rest of a stream that is over.                         *)
ServedFirst ==
    /\ shown \in Seq(Nat) /\ IsFiniteSet(Units(shown)) /\ Taken \in Nat
    /\ srvPc = "recv" \/ shown # <<>> \/ said # "nothing" => opened # <<>>
    /\ opened = <<>> => Taken = 0
    /\ opened # <<>> => Taken <= sentBytes[Served]
    /\ shown # <<>> /\ shown[Len(shown)] # recvLen => Taken = sentBytes[Served] /\ StreamOver

RecordIInv == RecordTypeOK /\ RunsCounted /\ ConnectedInOrder /\ ServedFirst /\ RecordsWhole

(* The total of a sequence grows by what is appended.                      *)
LEMMA AppendedTotal ==
    ASSUME NEW s \in Seq(Nat), IsFiniteSet(Units(s)), Total(s) \in Nat, NEW n \in Nat
    PROVE  /\ IsFiniteSet(Units(Append(s, n))) /\ Total(Append(s, n)) = Total(s) + n
           /\ Total(Append(s, n)) \in Nat
<1> DEFINE k == Len(s) + 1
           new == {k} \X (1 .. n)
           t == Append(s, n)
<1>1. /\ k \in Nat /\ DOMAIN s = 1 .. k - 1 /\ DOMAIN t = 1 .. k /\ t[k] = n
      /\ \A i \in 1 .. k - 1 : t[i] = s[i]
  OBVIOUS
<1> HIDE DEF k, t
<1>2. Units(t) = Units(s) \cup new
  <2>1. \A i \in 1 .. k : i \in 1 .. k - 1 \/ i = k
    BY <1>1
  <2>2. 1 .. k - 1 \subseteq 1 .. k /\ k \in 1 .. k
    <3>1. k >= 1
      BY DEF k
    <3> QED  BY <1>1, <3>1
  <2>3. ASSUME NEW u \in Units(t) PROVE u \in Units(s) \cup new
    <3>1. PICK i \in 1 .. k : u \in {i} \X (1 .. t[i])
      BY <1>1, <2>3 DEF Units
    <3> QED  BY <1>1, <2>1, <3>1 DEF Units
  <2>4. ASSUME NEW u \in Units(s) PROVE u \in Units(t)
    <3>1. PICK i \in 1 .. k - 1 : u \in {i} \X (1 .. s[i])
      BY <1>1, <2>4 DEF Units
    <3> QED  BY <1>1, <2>2, <3>1 DEF Units
  <2>5. new \subseteq Units(t)
    BY <1>1, <2>2 DEF Units
  <2> QED  BY <2>3, <2>4, <2>5
<1>3. Units(s) \cap new = {}
  <2>1. \A i \in 1 .. k - 1 : i # k
    BY <1>1
  <2> QED  BY <1>1, <2>1 DEF Units
<1>4. IsFiniteSet(new) /\ Cardinality(new) = n
  <2>1. IsFiniteSet({k}) /\ Cardinality({k}) = 1
    BY FS_Singleton
  <2>2. IsFiniteSet(1 .. n) /\ Cardinality(1 .. n) = n
    BY FirstNumbers, Zenon
  <2>3. IsFiniteSet(new) /\ Cardinality(new) = Cardinality({k}) * Cardinality(1 .. n)
    BY <2>1, <2>2, FS_Product, Zenon
  <2> QED  BY <2>1, <2>2, <2>3
<1> HIDE DEF new
<1>5. /\ IsFiniteSet(Units(s) \cup new)
      /\ Cardinality(Units(s) \cup new)
            = Cardinality(Units(s)) + Cardinality(new) - Cardinality(Units(s) \cap new)
  BY <1>4, FS_Union, Zenon
<1>6. Cardinality(Units(s) \cap new) = 0
  BY <1>3, FS_EmptySet
<1> QED  BY <1>2, <1>4, <1>5, <1>6 DEF Total, t

LEMMA RecordNumbers ==
    /\ RecordLen \in Nat /\ Records \in Nat /\ MaxOpenFds \in Nat /\ RecvLens \subseteq Nat
    /\ Records * RecordLen \in Nat /\ NoRun \notin Runs
<1>1. \A m, n \in Nat : m * n \in Nat
  OBVIOUS
<1> QED  BY <1>1, RecordAssumption

LEMMA RecordInitIInv == RecordInit => RecordIInv
<1> SUFFICES ASSUME RecordInit PROVE RecordIInv
  OBVIOUS
<1>1. /\ recvLen \in RecvLens
      /\ srvPc = "init" /\ backlog = <<>> /\ opened = <<>>
      /\ runPc = [c \in Runs |-> "init"] /\ sendIdx = [c \in Runs |-> 0]
      /\ sentBytes = [c \in Runs |-> 0] /\ broken = {}
      /\ portClient = NoRun /\ shown = <<>> /\ said = "nothing"
  BY DEF RecordInit
<1>2. IsFiniteSet(Units(shown)) /\ Taken = 0
  BY <1>1, NoUnits DEF Taken
<1>3. \A c \in Runs : sentBytes[c] <= sendIdx[c] * RecordLen
  BY <1>1, RecordNumbers
<1>4. RecordTypeOK
  BY <1>1, RecordNumbers DEF RecordTypeOK
<1>5. RunsCounted
  BY <1>1, <1>3, RecordNumbers DEF RunsCounted
<1>6. ConnectedInOrder
  BY <1>1 DEF ConnectedInOrder
<1> QED  BY <1>1, <1>2, <1>4, <1>5, <1>6 DEF RecordIInv, ServedFirst, RecordsWhole

(* The bytes of a run are no more than its records make.                   *)
LEMMA SentFits ==
    ASSUME NEW n \in 0 .. Records, NEW b \in Nat, b <= n * RecordLen
    PROVE  /\ b \in 0 .. Records * RecordLen
           /\ n < Records => b + RecordLen <= (n + 1) * RecordLen
<1>1. n * RecordLen <= Records * RecordLen /\ n * RecordLen \in Nat
  <2>1. PICK d \in Nat : Records = n + d
    <3>1. Records = n + (Records - n) /\ Records - n \in Nat
      BY RecordNumbers
    <3> QED  BY <3>1
  <2>2. (n + d) * RecordLen = n * RecordLen + d * RecordLen
        /\ n * RecordLen \in Nat /\ d * RecordLen \in Nat
    BY RecordNumbers
  <2> QED  BY <2>1, <2>2
<1>2. (n + 1) * RecordLen = n * RecordLen + RecordLen
  BY RecordNumbers
<1> QED  BY <1>1, <1>2, RecordNumbers

(* What no step undoes, for a run c: its stream stays over, and no byte    *)
(* joins a stream that is over.                                            *)
Kept(c) ==
    /\ Over(c) => Over(c)' /\ sendIdx'[c] = sendIdx[c]
    /\ Over(c) \/ c \in broken => sentBytes'[c] = sentBytes[c]
    /\ c \in broken => c \in broken'
    /\ Connected(c) => Connected(c)'
    /\ sentBytes[c] <= sentBytes'[c]

(* The run that is served, once there is one.                              *)
LEMMA ServedRun ==
    ASSUME ConnectedInOrder, opened # <<>>
    PROVE  Served \in Runs /\ Connected(Served)
<1>1. opened \in Seq(Runs) /\ Len(opened) \in Nat /\ 1 \in 1 .. Len(opened)
  BY DEF ConnectedInOrder
<1> QED  BY <1>1 DEF ConnectedInOrder, Served

LEMMA ServedStays ==
    ASSUME NEW s \in Seq(Runs), NEW t, t = s \/ (\E c \in Runs : t = Append(s, c)), s # <<>>
    PROVE  t # <<>> /\ t[1] = s[1]
<1>1. CASE t = s
  BY <1>1
<1>2. ASSUME NEW c \in Runs, t = Append(s, c) PROVE t # <<>> /\ t[1] = s[1]
  <2>1. Len(s) \in Nat /\ 1 \in 1 .. Len(s)
    OBVIOUS
  <2> QED  BY <1>2, <2>1
<1> QED  BY <1>1, <1>2

(* Steps that neither show nor say anything.                               *)
LEMMA NothingShown ==
    ASSUME RecordIInv, UNCHANGED <<shown, said, recvLen>>,
           opened' = opened \/ (\E c \in Runs : opened' = Append(opened, c)),
           srvPc' = "recv" => srvPc = "recv" \/ opened' # <<>>,
           \A c \in Runs : Kept(c), sentBytes' \in [Runs -> Nat], ConnectedInOrder'
    PROVE  ServedFirst' /\ RecordsWhole'
<1>1. RunsCounted /\ ConnectedInOrder /\ ServedFirst /\ RecordsWhole
  BY DEF RecordIInv
<1>2. Taken' = Taken /\ Taken \in Nat /\ IsFiniteSet(Units(shown))'
  BY <1>1 DEF Taken, Total, Units, ServedFirst
<1>3. CASE opened = <<>>
  <2>1. shown = <<>> /\ said = "nothing" /\ Taken = 0 /\ srvPc # "recv"
    BY <1>1, <1>3 DEF ServedFirst
  <2>2. opened' # <<>> => sentBytes'[Served'] \in Nat
    <3>1. ASSUME opened' # <<>> PROVE opened'[1] \in Runs
      <4>1. opened' \in Seq(Runs)
        BY DEF ConnectedInOrder
      <4> QED  BY <3>1, <4>1
    <3> QED  BY <3>1 DEF Served
  <2> QED  BY <1>1, <1>2, <2>1, <2>2 DEF ServedFirst, RecordsWhole
<1>4. CASE opened # <<>>
  <2>1. opened' # <<>> /\ Served' = Served /\ Served \in Runs /\ Connected(Served)
    BY <1>1, <1>4, ServedStays, ServedRun DEF Served, ConnectedInOrder
  <2>2. Kept(Served) /\ sentBytes[Served] \in Nat /\ sentBytes'[Served] \in Nat
    BY <1>1, <2>1 DEF RunsCounted
  <2>3. StreamOver => StreamOver' /\ sentBytes'[Served] = sentBytes[Served]
    BY <2>1, <2>2 DEF StreamOver, Kept, Over
  <2>4. Taken <= sentBytes'[Served]
    BY <1>1, <1>2, <1>4, <2>2 DEF ServedFirst, Kept
  <2>5. ServedFirst'
    BY <1>1, <1>2, <2>1, <2>3, <2>4 DEF ServedFirst
  <2>6. \A i \in DOMAIN shown :
           shown[i] = recvLen \/ (i = Len(shown) /\ shown[i] < recvLen /\ StreamOver')
    BY <1>1, <2>3 DEF RecordsWhole
  <2>7. said = "disconnect" /\ recvLen > 0 =>
           /\ runPc'[Served] # "send" /\ Taken = sentBytes'[Served]
           /\ sendIdx'[Served] = Records
    BY <1>1, <2>1, <2>2 DEF RecordsWhole, Kept, Over, Connected
  <2>8. (said = "disconnect" /\ recvLen > 0 =>
           /\ runPc[Served] # "send" /\ Taken = sentBytes[Served]
           /\ sendIdx[Served] = Records)'
    BY <1>2, <2>1, <2>7
  <2>9. (shown # <<>> => Taken <= sentBytes[Served])'
    BY <1>2, <2>1, <2>4
  <2>10. (\A i \in DOMAIN shown :
           shown[i] = recvLen \/ (i = Len(shown) /\ shown[i] < recvLen /\ StreamOver))'
    BY <2>6
  <2> QED  BY <2>5, <2>8, <2>9, <2>10 DEF RecordsWhole
<1> QED  BY <1>3, <1>4

(* Steps of one run that take nobody into or out of the queue.             *)
LEMMA QueueStays ==
    ASSUME ConnectedInOrder, UNCHANGED <<opened, backlog>>, \A c \in Runs : Kept(c)
    PROVE  ConnectedInOrder'
<1>1. \A i \in 1 .. Len(opened) : opened[i] \in Runs
  BY DEF ConnectedInOrder
<1>2. \A i \in 1 .. Len(backlog) : backlog[i] \in Runs
  BY DEF ConnectedInOrder
<1>3. \A c \in Runs : (Connected(c) => Connected(c)') /\ (Over(c) => Over(c)')
  BY DEF Kept
<1>4. \A i \in 1 .. Len(opened) :
        Connected(opened[i])' /\ (i < Len(opened) \/ backlog # <<>> => Over(opened[i])')
  BY <1>1, <1>3 DEF ConnectedInOrder, Connected, Over
<1>5. \A i \in 1 .. Len(backlog) :
        Connected(backlog[i])' /\ (i < Len(backlog) => Over(backlog[i])')
  BY <1>2, <1>3 DEF ConnectedInOrder, Connected, Over
<1> QED  BY <1>4, <1>5 DEF ConnectedInOrder

LEMMA RecordInitServer == ASSUME RecordIInv, InitServer PROVE RecordIInv'
<1>1. /\ srvPc' \in {"accept", "exit"}
      /\ UNCHANGED <<tcpServer, recvLen, backlog, opened, runPc, sendIdx, sentBytes,
                     broken, portClient, shown, said>>
  BY DEF InitServer
<1>2. RecordTypeOK /\ RunsCounted /\ ConnectedInOrder /\ ServedFirst /\ RecordsWhole
  BY DEF RecordIInv
<1>3. \A c \in Runs : Kept(c)
  BY <1>1, <1>2 DEF Kept, Over, Connected, RunsCounted
<1>4. ConnectedInOrder'
  BY <1>1, <1>2, <1>3, QueueStays
<1>5. ServedFirst' /\ RecordsWhole'
  BY <1>1, <1>2, <1>3, <1>4, NothingShown DEF RunsCounted
<1>6. RecordTypeOK' /\ RunsCounted'
  BY <1>1, <1>2 DEF RecordTypeOK, RunsCounted
<1> QED  BY <1>4, <1>5, <1>6 DEF RecordIInv

LEMMA RecordAcceptRun == ASSUME RecordIInv, AcceptRun PROVE RecordIInv'
<1>1. /\ srvPc = "accept" /\ backlog # <<>> /\ Len(opened) < MaxOpenFds
      /\ opened' = Append(opened, Head(backlog)) /\ backlog' = Tail(backlog)
      /\ srvPc' \in {"recv", "accept"}
      /\ UNCHANGED <<tcpServer, recvLen, runPc, sendIdx, sentBytes, broken,
                     portClient, shown, said>>
  BY DEF AcceptRun
<1>2. RecordTypeOK /\ RunsCounted /\ ConnectedInOrder /\ ServedFirst /\ RecordsWhole
  BY DEF RecordIInv
<1>3. opened \in Seq(Runs) /\ backlog \in Seq(Runs)
  BY <1>2 DEF ConnectedInOrder
<1> DEFINE n == Len(opened)  m == Len(backlog)
<1>4. /\ n \in Nat /\ m \in Nat /\ m >= 1 /\ Head(backlog) = backlog[1] /\ backlog[1] \in Runs
      /\ Tail(backlog) \in Seq(Runs) /\ Len(Tail(backlog)) = m - 1
      /\ \A i \in 1 .. m - 1 : Tail(backlog)[i] = backlog[i + 1]
      /\ Tail(backlog) # <<>> => m > 1
  BY <1>1, <1>3
<1>5. /\ opened' \in Seq(Runs) /\ Len(opened') = n + 1 /\ opened'[n + 1] = backlog[1]
      /\ \A i \in 1 .. n : opened'[i] = opened[i]
  BY <1>1, <1>3, <1>4
<1>6. ConnectedInOrder'
  <2>1. ASSUME NEW i \in 1 .. Len(opened')
        PROVE  /\ Connected(opened'[i])
               /\ i < Len(opened') \/ backlog' # <<>> => Over(opened'[i])
    <3>1. CASE i = n + 1
      BY <1>1, <1>2, <1>4, <1>5, <3>1 DEF ConnectedInOrder
    <3>2. CASE i # n + 1
      <4>1. i \in 1 .. n
        BY <1>4, <1>5, <2>1, <3>2
      <4> QED  BY <1>1, <1>2, <1>5, <4>1 DEF ConnectedInOrder
    <3> QED  BY <3>1, <3>2
  <2>2. ASSUME NEW i \in 1 .. Len(backlog')
        PROVE  Connected(backlog'[i]) /\ (i < Len(backlog') => Over(backlog'[i]))
    <3>1. /\ i \in 1 .. m - 1 /\ i + 1 \in 1 .. m /\ backlog'[i] = backlog[i + 1]
          /\ i < Len(backlog') => i + 1 < m
      BY <1>1, <1>4, <2>2
    <3> QED  BY <1>2, <3>1 DEF ConnectedInOrder
  <2>3. \A c : Connected(c)' = Connected(c) /\ Over(c)' = Over(c)
    BY <1>1 DEF Connected, Over
  <2> QED  BY <1>1, <1>4, <1>5, <2>1, <2>2, <2>3 DEF ConnectedInOrder, Connected, Over
<1>7. \A c \in Runs : Kept(c)
  BY <1>1, <1>2 DEF Kept, Over, Connected, RunsCounted
<1>8. opened' # <<>>
  BY <1>4, <1>5
<1>9. ServedFirst' /\ RecordsWhole'
  BY <1>1, <1>2, <1>4, <1>6, <1>7, <1>8, NothingShown DEF RunsCounted
<1>10. RecordTypeOK' /\ RunsCounted'
  <2>1. Len(opened') <= MaxOpenFds
    BY <1>1, <1>4, <1>5, RecordNumbers
  <2>2. RecordTypeOK'
    BY <1>1, <1>2, <2>1 DEF RecordTypeOK
  <2>3. RunsCounted'
    BY <1>1, <1>2 DEF RunsCounted
  <2> QED  BY <2>2, <2>3
<1> QED  BY <1>6, <1>9, <1>10 DEF RecordIInv

(* When the server ends, no connection is left that is not broken.         *)
LEMMA ServerEndsKeeps ==
    ASSUME RecordIInv, ServerEnds, UNCHANGED <<opened, runPc, sendIdx, sentBytes>>
    PROVE  /\ ConnectedInOrder' /\ (\A c \in Runs : Kept(c)) /\ broken' \subseteq Runs
           /\ opened # <<>> => Served \in broken'
<1>1. /\ RecordTypeOK /\ RunsCounted /\ ConnectedInOrder
      /\ backlog' = <<>>
      /\ broken' = broken \cup {opened[i] : i \in DOMAIN opened}
                          \cup {backlog[i] : i \in DOMAIN backlog}
  BY DEF RecordIInv, ServerEnds
<1>2. /\ opened \in Seq(Runs) /\ backlog \in Seq(Runs)
      /\ \A i \in DOMAIN opened : opened[i] \in Runs
      /\ \A i \in DOMAIN backlog : backlog[i] \in Runs
  BY <1>1 DEF ConnectedInOrder
<1>3. broken' \subseteq Runs /\ broken \subseteq broken'
  BY <1>1, <1>2 DEF RecordTypeOK
<1>4. \A c \in Runs : Kept(c)
  BY <1>1, <1>3 DEF Kept, Over, Connected, RunsCounted
<1>5. ConnectedInOrder'
  BY <1>1, <1>2, <1>3 DEF ConnectedInOrder, Connected, Over
<1>6. opened # <<>> => Served \in broken'
  <2>1. opened # <<>> => 1 \in DOMAIN opened
    BY <1>2
  <2> QED  BY <1>1, <2>1 DEF Served
<1> QED  BY <1>3, <1>4, <1>5, <1>6

LEMMA RecordAcceptFails == ASSUME RecordIInv, AcceptRunFails PROVE RecordIInv'
<1>1. /\ ServerEnds /\ srvPc' = "exit" /\ backlog' = <<>>
      /\ UNCHANGED <<tcpServer, recvLen, opened, runPc, sendIdx, sentBytes,
                     portClient, shown, said>>
  BY DEF AcceptRunFails, ServerEnds
<1>2. RecordTypeOK /\ RunsCounted
  BY DEF RecordIInv
<1>3. ConnectedInOrder' /\ (\A c \in Runs : Kept(c)) /\ broken' \subseteq Runs
  BY <1>1, ServerEndsKeeps
<1>4. ServedFirst' /\ RecordsWhole'
  BY <1>1, <1>2, <1>3, NothingShown DEF RunsCounted
<1>5. RecordTypeOK' /\ RunsCounted'
  BY <1>1, <1>2, <1>3 DEF RecordTypeOK, RunsCounted
<1> QED  BY <1>3, <1>4, <1>5 DEF RecordIInv

LEMMA RecordRecvBytes == ASSUME RecordIInv, RecvBytes PROVE RecordIInv'
<1>1. RecordTypeOK /\ RunsCounted /\ ConnectedInOrder /\ ServedFirst /\ RecordsWhole
  BY DEF RecordIInv
<1> DEFINE there == sentBytes[Served] - Taken
<1>2. PICK n : /\ shown' = Append(shown, n)
               /\ \/ recvLen > 0 /\ there >= recvLen /\ n = recvLen
                  \/ there \in 1 .. (recvLen - 1) /\ StreamOver /\ n = there
  BY DEF RecvBytes
<1>3. /\ srvPc = "recv"
      /\ UNCHANGED <<tcpServer, recvLen, srvPc, backlog, opened, runPc, sendIdx,
                     sentBytes, broken, portClient, said>>
  BY DEF RecvBytes
<1>4. opened # <<>> /\ Served \in Runs /\ sentBytes[Served] \in Nat /\ Taken \in Nat
      /\ recvLen \in Nat /\ Taken <= sentBytes[Served]
  <2>1. opened # <<>>
    BY <1>1, <1>3 DEF ServedFirst
  <2>2. Served \in Runs
    BY <1>1, <2>1, ServedRun
  <2> QED  BY <1>1, <2>1, <2>2, RecordNumbers DEF ServedFirst, RunsCounted, RecordTypeOK
<1>5. /\ n \in Nat /\ n <= there /\ n > 0 /\ there \in Nat
      /\ n # recvLen => n < recvLen /\ StreamOver /\ n = there
  BY <1>2, <1>4
<1>6. /\ Taken' = Taken + n /\ Taken' \in Nat /\ IsFiniteSet(Units(shown'))
  BY <1>1, <1>2, <1>5, AppendedTotal DEF ServedFirst, Taken
<1>7. Served' = Served /\ (StreamOver' = StreamOver)
  BY <1>3 DEF Served, StreamOver
<1> DEFINE k == Len(shown)
<1>8. /\ k \in Nat /\ shown' \in Seq(Nat) /\ Len(shown') = k + 1 /\ shown'[k + 1] = n
      /\ shown' # <<>> /\ DOMAIN shown' = 1 .. k + 1
      /\ \A i \in 1 .. k : shown'[i] = shown[i] /\ i \in DOMAIN shown
      /\ k > 0 => shown # <<>>
  <2>1. shown \in Seq(Nat)
    BY <1>1 DEF ServedFirst
  <2> QED  BY <1>2, <1>5, <2>1
<1>9. \A i \in 1 .. k : shown[i] = recvLen
  <2>1. SUFFICES ASSUME NEW i \in 1 .. k, shown[i] # recvLen PROVE FALSE
    OBVIOUS
  <2>2. i = Len(shown) /\ StreamOver /\ shown # <<>>
    BY <1>1, <1>8, <2>1 DEF RecordsWhole
  <2>3. Taken = sentBytes[Served]
    BY <1>1, <2>1, <2>2 DEF ServedFirst
  <2> QED  BY <1>4, <1>5, <2>3
<1>10. Taken' <= sentBytes[Served] /\ (n # recvLen => Taken' = sentBytes[Served])
  BY <1>4, <1>5, <1>6
<1>11. ServedFirst'
  <2>1. shown'[Len(shown')] = n
    BY <1>8
  <2> QED  BY <1>3, <1>4, <1>5, <1>6, <1>7, <1>8, <1>10, <2>1 DEF ServedFirst
<1>12. RecordsWhole'
  <2>1. ASSUME NEW i \in DOMAIN shown'
        PROVE  shown'[i] = recvLen \/ (i = Len(shown') /\ shown'[i] < recvLen /\ StreamOver)
    <3>1. i \in 1 .. k \/ i = k + 1
      BY <1>8, <2>1
    <3> QED  BY <1>5, <1>8, <1>9, <3>1
  <2>2. said = "disconnect" /\ recvLen > 0 => FALSE
    BY <1>1, <1>4, <1>5 DEF RecordsWhole
  <2> QED  BY <1>3, <1>7, <1>10, <2>1, <2>2 DEF RecordsWhole
<1>13. RecordTypeOK' /\ RunsCounted' /\ ConnectedInOrder'
  BY <1>1, <1>3 DEF RecordTypeOK, RunsCounted, ConnectedInOrder, Connected, Over
<1> QED  BY <1>11, <1>12, <1>13 DEF RecordIInv

LEMMA RecordRecvOver == ASSUME RecordIInv, RecvOver PROVE RecordIInv'
<1>1. RecordTypeOK /\ RunsCounted /\ ConnectedInOrder /\ ServedFirst /\ RecordsWhole
  BY DEF RecordIInv
<1>2. /\ srvPc = "recv" /\ ServerEnds /\ srvPc' = "exit"
      /\ \/ Taken = sentBytes[Served] /\ StreamOver
            /\ said' = IF Served \in broken THEN "broken" ELSE "disconnect"
         \/ recvLen = 0 /\ sentBytes[Served] > 0 /\ said' = "disconnect"
      /\ UNCHANGED <<tcpServer, recvLen, opened, runPc, sendIdx, sentBytes,
                     portClient, shown>>
  BY DEF RecvOver, ServerEnds
<1>3. /\ ConnectedInOrder' /\ (\A c \in Runs : Kept(c)) /\ broken' \subseteq Runs
      /\ opened # <<>> => Served \in broken'
  BY <1>2, ServerEndsKeeps
<1>4. /\ opened # <<>> /\ Served \in Runs /\ Connected(Served) /\ Served' = Served
      /\ recvLen \in Nat
  BY <1>1, <1>2, ServedRun, RecordNumbers DEF ServedFirst, Served, RecordTypeOK
<1>5. Taken' = Taken /\ IsFiniteSet(Units(shown')) /\ StreamOver'
  BY <1>1, <1>2, <1>3, <1>4 DEF Taken, ServedFirst, StreamOver
<1>6. ServedFirst'
  BY <1>1, <1>2, <1>4, <1>5 DEF ServedFirst
<1>7. said' = "disconnect" /\ recvLen > 0 =>
         runPc[Served] # "send" /\ Taken = sentBytes[Served] /\ sendIdx[Served] = Records
  <2>1. SUFFICES ASSUME said' = "disconnect", recvLen > 0
                 PROVE  /\ runPc[Served] # "send" /\ Taken = sentBytes[Served]
                        /\ sendIdx[Served] = Records
    OBVIOUS
  <2>2. Taken = sentBytes[Served] /\ StreamOver /\ Served \notin broken
    BY <1>2, <1>4, <2>1
  <2>3. runPc[Served] = "closed"
    BY <1>4, <2>2 DEF StreamOver, Connected
  <2> QED  BY <1>1, <1>4, <2>2, <2>3 DEF RunsCounted
<1>8. RecordsWhole'
  BY <1>1, <1>2, <1>4, <1>5, <1>7 DEF RecordsWhole
<1>9. RecordTypeOK' /\ RunsCounted'
  BY <1>1, <1>2, <1>3 DEF RecordTypeOK, RunsCounted
<1> QED  BY <1>3, <1>6, <1>8, <1>9 DEF RecordIInv

(* A run that has not connected is in no queue.                            *)
LEMMA RecordBindRun == ASSUME RecordIInv, NEW c \in Runs, BindRun(c) PROVE RecordIInv'
<1>1. /\ RecordTypeOK /\ RunsCounted /\ ConnectedInOrder /\ ServedFirst /\ RecordsWhole
  BY DEF RecordIInv
<1>2. /\ runPc[c] = "init"
      /\ \/ portClient = NoRun /\ portClient' = c /\ runPc' = [runPc EXCEPT ![c] = "connect"]
         \/ runPc' = [runPc EXCEPT ![c] = "exit"] /\ UNCHANGED portClient
      /\ UNCHANGED <<tcpServer, recvLen, srvPc, backlog, opened, sendIdx, sentBytes,
                     broken, shown, said>>
  BY DEF BindRun
<1>3. /\ \A d \in Runs : d # c => runPc'[d] = runPc[d]
      /\ runPc'[c] \in {"connect", "exit"}
      /\ runPc'[c] = "connect" => portClient = NoRun /\ portClient' = c
      /\ runPc'[c] = "exit" => portClient' = portClient
      /\ runPc' \in [Runs -> {"init", "connect", "send", "closed", "exit"}]
  BY <1>1, <1>2 DEF RunsCounted
<1>4. \A d \in Runs : Kept(d)
  BY <1>1, <1>2, <1>3 DEF Kept, Over, Connected, RunsCounted
<1>5. ConnectedInOrder'
  BY <1>1, <1>2, <1>4, QueueStays
<1>6. ServedFirst' /\ RecordsWhole'
  BY <1>1, <1>2, <1>4, <1>5, NothingShown DEF RunsCounted
<1>7. portClient' \in Runs \cup {NoRun}
  BY <1>1, <1>3 DEF RecordTypeOK
<1>8. RecordTypeOK'
  BY <1>1, <1>2, <1>3, <1>7 DEF RecordTypeOK
<1>9. RunsCounted'
  <2>1. ASSUME NEW d \in Runs, runPc'[d] \in {"connect", "send"} PROVE portClient' = d
    <3>1. CASE d = c
      BY <1>3, <2>1, <3>1
    <3>2. CASE d # c
      <4>1. portClient = d
        BY <1>1, <1>3, <2>1, <3>2 DEF RunsCounted
      <4> QED  BY <1>3, <4>1, RecordNumbers
    <3> QED  BY <3>1, <3>2
  <2>2. \A d \in Runs : runPc'[d] = "closed" => sendIdx[d] = Records
    BY <1>1, <1>3 DEF RunsCounted
  <2> QED  BY <1>1, <1>2, <1>3, <2>1, <2>2 DEF RunsCounted
<1> QED  BY <1>5, <1>6, <1>8, <1>9 DEF RecordIInv

LEMMA RecordConnectRun == ASSUME RecordIInv, NEW c \in Runs, ConnectRun(c) PROVE RecordIInv'
<1>1. /\ RecordTypeOK /\ RunsCounted /\ ConnectedInOrder /\ ServedFirst /\ RecordsWhole
  BY DEF RecordIInv
<1>2. /\ runPc[c] = "connect"
      /\ \/ /\ backlog' = Append(backlog, c) /\ runPc' = [runPc EXCEPT ![c] = "send"]
            /\ UNCHANGED portClient
         \/ /\ runPc' = [runPc EXCEPT ![c] = "exit"] /\ portClient' = NoRun
            /\ UNCHANGED backlog
      /\ UNCHANGED <<tcpServer, recvLen, srvPc, opened, sendIdx, sentBytes, broken,
                     shown, said>>
  BY DEF ConnectRun
<1>3. /\ \A d \in Runs : d # c => runPc'[d] = runPc[d]
      /\ runPc'[c] \in {"send", "exit"}
      /\ runPc'[c] = "send" => backlog' = Append(backlog, c) /\ portClient' = portClient
      /\ runPc'[c] = "exit" => backlog' = backlog /\ portClient' = NoRun
      /\ runPc' \in [Runs -> {"init", "connect", "send", "closed", "exit"}]
  BY <1>1, <1>2 DEF RunsCounted
<1>4. \A d \in Runs : Kept(d)
  BY <1>1, <1>2, <1>3 DEF Kept, Over, Connected, RunsCounted
<1>5. \A d \in Runs : d # c => runPc[d] \notin {"connect", "send"}
  <2>1. portClient = c
    BY <1>1, <1>2 DEF RunsCounted
  <2> QED  BY <1>1, <2>1 DEF RunsCounted
<1>6. ConnectedInOrder'
  <2>1. CASE backlog' = backlog
    BY <1>1, <1>2, <1>4, <2>1, QueueStays
  <2>2. CASE backlog' = Append(backlog, c) /\ runPc'[c] = "send"
    <3> DEFINE m == Len(backlog)
    <3>1. /\ opened \in Seq(Runs) /\ backlog \in Seq(Runs) /\ m \in Nat
          /\ backlog' \in Seq(Runs) /\ Len(backlog') = m + 1 /\ backlog'[m + 1] = c
          /\ \A i \in 1 .. m : backlog'[i] = backlog[i]
      BY <1>1, <2>2 DEF ConnectedInOrder
    <3>2. ASSUME NEW d \in Runs, Connected(d) PROVE Connected(d)' /\ Over(d)'
      <4>1. d # c /\ runPc'[d] = runPc[d]
        BY <1>2, <1>3, <3>2 DEF Connected
      <4> QED  BY <1>2, <1>5, <3>2, <4>1 DEF Connected, Over
    <3>3. ASSUME NEW i \in 1 .. Len(opened) PROVE Connected(opened[i])' /\ Over(opened[i])'
      <4>1. opened[i] \in Runs /\ Connected(opened[i])
        BY <1>1, <3>1 DEF ConnectedInOrder
      <4> QED  BY <1>2, <3>2, <4>1 DEF Connected, Over
    <3>4. ASSUME NEW i \in 1 .. m PROVE Connected(backlog[i])' /\ Over(backlog[i])'
      <4>1. backlog[i] \in Runs /\ Connected(backlog[i])
        BY <1>1, <3>1 DEF ConnectedInOrder
      <4>2. backlog'[i] = backlog[i]
        BY <3>1
      <4>3. /\ runPc'[backlog[i]] \in {"send", "closed", "exit"}
            /\ runPc'[backlog[i]] = "exit" => backlog[i] \in broken'
            /\ runPc'[backlog[i]] \in {"closed", "exit"}
        BY <3>2, <4>1 DEF Connected, Over
      <4> QED  BY <4>2, <4>3 DEF Connected, Over
    <3>5. Connected(c)'
      BY <2>2 DEF Connected
    <3>6. ASSUME NEW i \in 1 .. Len(backlog')
          PROVE  (Connected(backlog[i]) /\ (i < Len(backlog) => Over(backlog[i])))'
      <4>1. CASE i = m + 1
        BY <3>1, <3>5, <4>1 DEF Connected, Over
      <4>2. CASE i \in 1 .. m
        BY <3>4, <4>2
      <4> QED  BY <3>1, <4>1, <4>2
    <3> QED  BY <1>2, <3>1, <3>3, <3>6 DEF ConnectedInOrder
  <2> QED  BY <1>3, <2>1, <2>2
<1>7. ServedFirst' /\ RecordsWhole'
  BY <1>1, <1>2, <1>4, <1>6, NothingShown DEF RunsCounted
<1>8. RecordTypeOK'
  BY <1>1, <1>2, <1>3 DEF RecordTypeOK
<1>9. RunsCounted'
  <2>1. ASSUME NEW d \in Runs, runPc'[d] \in {"connect", "send"} PROVE portClient' = d
    <3>1. d = c /\ runPc'[c] = "send"
      BY <1>3, <1>5, <2>1
    <3> QED  BY <1>1, <1>2, <1>3, <3>1 DEF RunsCounted
  <2>2. \A d \in Runs : runPc'[d] = "closed" => sendIdx[d] = Records
    BY <1>1, <1>3 DEF RunsCounted
  <2> QED  BY <1>1, <1>2, <1>3, <2>1, <2>2 DEF RunsCounted
<1> QED  BY <1>6, <1>7, <1>8, <1>9 DEF RecordIInv

LEMMA RecordSendRecord == ASSUME RecordIInv, NEW c \in Runs, SendRecord(c) PROVE RecordIInv'
<1>1. /\ RecordTypeOK /\ RunsCounted /\ ConnectedInOrder /\ ServedFirst /\ RecordsWhole
  BY DEF RecordIInv
<1>2. /\ runPc[c] = "send" /\ sendIdx[c] < Records
      /\ sendIdx' = [sendIdx EXCEPT ![c] = @ + 1]
      /\ \/ /\ c \notin broken /\ sentBytes' = [sentBytes EXCEPT ![c] = @ + RecordLen]
            /\ UNCHANGED runPc
         \/ c \in broken /\ runPc' \in {runPc, [runPc EXCEPT ![c] = "exit"]}
            /\ UNCHANGED sentBytes
      /\ UNCHANGED <<tcpServer, recvLen, srvPc, backlog, opened, broken, portClient,
                     shown, said>>
  BY DEF SendRecord
<1>3. /\ sendIdx[c] \in 0 .. Records /\ sentBytes[c] \in Nat
      /\ sentBytes[c] <= sendIdx[c] * RecordLen
      /\ sendIdx \in [Runs -> 0 .. Records] /\ sentBytes \in [Runs -> Nat]
      /\ runPc \in [Runs -> {"init", "connect", "send", "closed", "exit"}]
  BY <1>1 DEF RunsCounted
<1>4. sentBytes[c] + RecordLen <= (sendIdx[c] + 1) * RecordLen
      /\ (sendIdx[c] + 1) * RecordLen \in Int /\ sendIdx[c] + 1 \in 0 .. Records
  <2>1. sentBytes[c] + RecordLen <= (sendIdx[c] + 1) * RecordLen
    BY <1>2, <1>3, SentFits
  <2>2. \A m, n \in Int : m * n \in Int
    OBVIOUS
  <2> QED  BY <1>2, <1>3, <2>1, <2>2, RecordNumbers
<1>5. /\ \A d \in Runs : d # c =>
            runPc'[d] = runPc[d] /\ sendIdx'[d] = sendIdx[d] /\ sentBytes'[d] = sentBytes[d]
      /\ sendIdx'[c] = sendIdx[c] + 1
      /\ sendIdx' \in [Runs -> 0 .. Records] /\ sentBytes' \in [Runs -> Nat]
      /\ runPc' \in [Runs -> {"init", "connect", "send", "closed", "exit"}]
  <2>1. sendIdx' \in [Runs -> 0 .. Records] /\ sendIdx'[c] = sendIdx[c] + 1
        /\ \A d \in Runs : d # c => sendIdx'[d] = sendIdx[d]
    BY <1>2, <1>3, <1>4
  <2>2. sentBytes' \in [Runs -> Nat] /\ \A d \in Runs : d # c => sentBytes'[d] = sentBytes[d]
    BY <1>2, <1>3, RecordNumbers
  <2>3. /\ runPc' \in [Runs -> {"init", "connect", "send", "closed", "exit"}]
        /\ \A d \in Runs : d # c => runPc'[d] = runPc[d]
    BY <1>2, <1>3
  <2> QED  BY <2>1, <2>2, <2>3
<1>6. /\ sentBytes'[c] \in {sentBytes[c], sentBytes[c] + RecordLen}
      /\ runPc'[c] \in {"send", "exit"}
      /\ c \in broken => sentBytes'[c] = sentBytes[c]
      /\ runPc'[c] = "exit" => c \in broken
  BY <1>2, <1>3
<1>7. \A d \in Runs : Kept(d)
  <2>1. Kept(c)
    BY <1>2, <1>3, <1>6, RecordNumbers DEF Kept, Over, Connected
  <2>2. ASSUME NEW d \in Runs, d # c PROVE Kept(d)
    BY <1>1, <1>2, <1>5, <2>2 DEF Kept, Over, Connected, RunsCounted
  <2> QED  BY <2>1, <2>2
<1>8. ConnectedInOrder'
  BY <1>1, <1>2, <1>7, QueueStays
<1>9. ServedFirst' /\ RecordsWhole'
  BY <1>1, <1>2, <1>5, <1>7, <1>8, NothingShown
<1>10. RunsCounted'
  <2>1. \A d \in Runs : sentBytes'[d] <= sendIdx'[d] * RecordLen
    <3>1. sentBytes'[c] <= sendIdx'[c] * RecordLen
      BY <1>3, <1>4, <1>5, <1>6, RecordNumbers
    <3> QED  BY <1>1, <1>5, <3>1 DEF RunsCounted
  <2>2. \A d \in Runs : runPc'[d] = "closed" => sendIdx'[d] = Records
    BY <1>1, <1>5, <1>6 DEF RunsCounted
  <2>3. \A d \in Runs : runPc'[d] \in {"connect", "send"} => portClient' = d
    BY <1>1, <1>2, <1>5, <1>6 DEF RunsCounted
  <2> QED  BY <1>5, <2>1, <2>2, <2>3 DEF RunsCounted
<1>11. RecordTypeOK'
  <2>1. \A d \in Runs : sentBytes'[d] \in 0 .. Records * RecordLen
    BY <1>5, <1>10, SentFits DEF RunsCounted
  <2> QED  BY <1>1, <1>2, <1>5, <2>1 DEF RecordTypeOK
<1> QED  BY <1>8, <1>9, <1>10, <1>11 DEF RecordIInv

(* A run closes, the network breaks a connection, the port is free again.  *)
LEMMA RecordOtherSteps ==
    ASSUME RecordIInv, PortFreed \/ (\E c \in Runs : CloseRun(c) \/ NetBreaks(c))
    PROVE  RecordIInv'
<1>1. /\ RecordTypeOK /\ RunsCounted /\ ConnectedInOrder /\ ServedFirst /\ RecordsWhole
  BY DEF RecordIInv
<1>2. ASSUME PortFreed PROVE RecordIInv'
  <2>1. /\ runPc[portClient] \in {"closed", "exit"} /\ portClient' = NoRun
        /\ UNCHANGED <<tcpServer, recvLen, srvPc, backlog, opened, runPc, sendIdx,
                       sentBytes, broken, shown, said>>
    BY <1>2 DEF PortFreed
  <2>2. \A c \in Runs : Kept(c)
    BY <1>1, <2>1 DEF Kept, Over, Connected, RunsCounted
  <2>3. ConnectedInOrder'
    BY <1>1, <2>1, <2>2, QueueStays
  <2>4. ServedFirst' /\ RecordsWhole'
    BY <1>1, <2>1, <2>2, <2>3, NothingShown DEF RunsCounted
  <2>5. RecordTypeOK' /\ RunsCounted'
    BY <1>1, <2>1 DEF RecordTypeOK, RunsCounted
  <2> QED  BY <2>3, <2>4, <2>5 DEF RecordIInv
<1>3. ASSUME NEW c \in Runs, CloseRun(c) PROVE RecordIInv'
  <2>1. /\ runPc[c] = "send" /\ sendIdx[c] = Records
        /\ runPc' = [runPc EXCEPT ![c] = "closed"]
        /\ UNCHANGED <<tcpServer, recvLen, srvPc, backlog, opened, sendIdx, sentBytes,
                       broken, portClient, shown, said>>
    BY <1>3 DEF CloseRun
  <2>2. /\ runPc' \in [Runs -> {"init", "connect", "send", "closed", "exit"}]
        /\ \A d \in Runs : runPc'[d] = IF d = c THEN "closed" ELSE runPc[d]
    BY <1>1, <2>1 DEF RunsCounted
  <2>3. \A d \in Runs : Kept(d)
    BY <1>1, <2>1, <2>2 DEF Kept, Over, Connected, RunsCounted
  <2>4. ConnectedInOrder'
    BY <1>1, <2>1, <2>3, QueueStays
  <2>5. ServedFirst' /\ RecordsWhole'
    BY <1>1, <2>1, <2>3, <2>4, NothingShown DEF RunsCounted
  <2>6. RecordTypeOK' /\ RunsCounted'
    BY <1>1, <2>1, <2>2 DEF RecordTypeOK, RunsCounted
  <2> QED  BY <2>4, <2>5, <2>6 DEF RecordIInv
<1>4. ASSUME NEW c \in Runs, NetBreaks(c) PROVE RecordIInv'
  <2>1. /\ broken' = broken \cup {c}
        /\ UNCHANGED <<tcpServer, recvLen, srvPc, backlog, opened, runPc, sendIdx,
                       sentBytes, portClient, shown, said>>
    BY <1>4 DEF NetBreaks
  <2>2. \A d \in Runs : Kept(d)
    BY <1>1, <2>1 DEF Kept, Over, Connected, RunsCounted
  <2>3. ConnectedInOrder'
    BY <1>1, <2>1, <2>2, QueueStays
  <2>4. ServedFirst' /\ RecordsWhole'
    BY <1>1, <2>1, <2>2, <2>3, NothingShown DEF RunsCounted
  <2>5. RecordTypeOK' /\ RunsCounted'
    BY <1>1, <2>1 DEF RecordTypeOK, RunsCounted
  <2> QED  BY <2>3, <2>4, <2>5 DEF RecordIInv
<1> QED  BY <1>2, <1>3, <1>4

LEMMA RecordNextIInv == ASSUME RecordIInv, [RecordNext]_recordVars PROVE RecordIInv'
<1>1. CASE UNCHANGED recordVars
  <2>1. RecordTypeOK /\ RunsCounted /\ ConnectedInOrder /\ ServedFirst /\ RecordsWhole
    BY DEF RecordIInv
  <2>2. RecordTypeOK' /\ RunsCounted' /\ ConnectedInOrder'
    BY <1>1, <2>1
    DEF RecordTypeOK, RunsCounted, ConnectedInOrder, Connected, Over, recordVars
  <2>3. ServedFirst' /\ RecordsWhole'
    BY <1>1, <2>1
    DEF ServedFirst, RecordsWhole, Taken, Total, Units, Served, StreamOver, recordVars
  <2> QED  BY <2>2, <2>3 DEF RecordIInv
<1> QED
  BY <1>1, RecordInitServer, RecordAcceptRun, RecordAcceptFails, RecordRecvBytes,
     RecordRecvOver, RecordBindRun, RecordConnectRun, RecordSendRecord, RecordOtherSteps
  DEF RecordNext, TcpTestServer, TcpTestClient

LEMMA RecordInvLast == RecordIInv => LastOneSends
<1> SUFFICES ASSUME RecordIInv PROVE LastOneSends
  OBVIOUS
<1>1. opened \in Seq(Runs)
  BY DEF RecordIInv, ConnectedInOrder
<1>2. DOMAIN opened = 1 .. Len(opened)
  BY <1>1
<1> QED  BY <1>2 DEF RecordIInv, ConnectedInOrder, Over, LastOneSends

-----------------------------------------------------------------------------
(* NetworkPrograms: a behaviour of the programs is one of each of them.    *)

NetworkIInv ==
    /\ OrderIInv /\ NumberIInv /\ PingIInv /\ RawIInv /\ ArpIInv
    /\ SelectIInv /\ RecordIInv

LEMMA NetworkInit == Init => NetworkIInv
  BY OrderInitIInv, NumberInitIInv, PingInitIInv, RawInitIInv, ArpInitIInv,
     SelectInitIInv, RecordInitIInv
  DEF Init, NetworkIInv

LEMMA NetworkSteps ==
    ASSUME [Next]_vars
    PROVE  /\ [OrderNext]_orderVars /\ [NumberNext]_numberVars /\ [PingNext]_pingVars
           /\ [RecvPacket \/ SendUdpPacketLoops]_rawVars /\ [ArpNext]_arpVars
           /\ [SelectNext]_selectVars /\ [RecordNext]_recordVars
<1>1. CASE UNCHANGED vars
  BY <1>1 DEF vars
<1>2. CASE Ordering(OrderNext)
  BY <1>2 DEF Ordering
<1>3. CASE Numbering(NumberNext)
  BY <1>3 DEF Numbering
<1>4. CASE Pinging(PingNext)
  BY <1>4 DEF Pinging
<1>5. CASE Dumping(RecvPacket)
  BY <1>5 DEF Dumping
<1>6. CASE Building(SendUdpPacketLoops)
  BY <1>6 DEF Building
<1>7. CASE Asking(ArpNext)
  BY <1>7 DEF Asking
<1>8. CASE Selecting(SelectNext)
  BY <1>8 DEF Selecting
<1>9. CASE Recording(RecordNext)
  BY <1>9 DEF Recording
<1> QED
  BY <1>1, <1>2, <1>3, <1>4, <1>5, <1>6, <1>7, <1>8, <1>9 DEF Next

LEMMA RawNextIInv ==
    ASSUME RawIInv, [RecvPacket \/ SendUdpPacketLoops]_rawVars PROVE RawIInv'
<1>1. CASE UNCHANGED rawVars
  BY <1>1
  DEF RawIInv, RawTypeOK, BuiltVerifies, DumpRemembers, LinesTellTruth, rawVars, dumpVars
<1> QED  BY <1>1, RawRecvPacket, RawSend

LEMMA NetworkNext == ASSUME NetworkIInv, [Next]_vars PROVE NetworkIInv'
  BY NetworkSteps, OrderNextIInv, NumberNextIInv, PingNextIInv, RawNextIInv, ArpNextIInv,
     SelectNextIInv, RecordNextIInv
  DEF NetworkIInv

LEMMA NetworkHolds == Spec => []NetworkIInv
  BY NetworkInit, NetworkNext, PTL DEF Spec

(* The variables of all programs keep their types.                         *)
THEOREM NetworkType == Spec => []TypeOK
<1>1. NetworkIInv => TypeOK
  BY DEF NetworkIInv, OrderIInv, NumberIInv, PingIInv, RawIInv, ArpIInv, SelectIInv,
         RecordIInv, TypeOK
<1> QED  BY <1>1, NetworkHolds, PTL

(* An entry of the ARP table is an address that a host has claimed         *)
(* (rawSocketArp.cpp).                                                     *)
THEOREM ArpIsAnswered == Spec => []ArpAnswered
<1>1. NetworkIInv => ArpAnswered
  BY ArpInvAnswers DEF NetworkIInv
<1> QED  BY <1>1, NetworkHolds, PTL

(* An index under which only whole headers were checked has no error just  *)
(* when its packets came in order; a receiver of numbered packets that has *)
(* no error lost no more than the number space hides                       *)
(* (udpOrderSendRecv.cpp:711, udpPackageTcp.cpp:166).                      *)
THEOREM LossIsTold == Spec => []NumbersTellLoss
<1>1. NetworkIInv => NumbersTellLoss
  BY OrderInvClean, NumberInvFits DEF NetworkIInv, NumbersTellLoss
<1> QED  BY <1>1, NetworkHolds, PTL

(* The totals over all threads are what the threads have counted, but for  *)
(* what the handler of the signal has cut in two                           *)
(* (udpOrderSendRecv.cpp:488, :645, :705).                                 *)
THEOREM TotalsHold == Spec => []TotalsAgree
<1>1. NetworkIInv => TotalsAgree
  BY DEF NetworkIInv, OrderIInv
<1> QED  BY <1>1, NetworkHolds, PTL

(* Every checksum the two transmitters compute is one the reference and    *)
(* the receiver accept (ping.cpp:352, rawSocketUdpSendTest.cpp).           *)
THEOREM ChecksumsHold == Spec => []ChecksumsVerify
<1>1. NetworkIInv => ChecksumsVerify
  BY DEF NetworkIInv, PingIInv, RawIInv, ChecksumsVerify
<1> QED  BY <1>1, NetworkHolds, PTL

(* A line of the dump has the verdict on the twenty bytes it was given and *)
(* the addresses of the last right ones, and of a packet with nothing      *)
(* unusual its own fields only (rawSocketDump.cpp:293).                    *)
THEOREM DumpTellsTruth == Spec => []LinesTellTruth
<1>1. NetworkIInv => LinesTellTruth
  BY DEF NetworkIInv, RawIInv
<1> QED  BY <1>1, NetworkHolds, PTL

(* The select() server watches every connection; besides a failed accept() *)
(* it ends for the two reasons line 86 and line 130 leave, or with all its *)
(* descriptors open.  The record server shows whole reads of one client at *)
(* a time (tcpEchoServerSelect.cpp:112, :130, tcpTest.cpp:145).            *)
THEOREM ServersKeepOrder == Spec => []ServersHold
<1>1. NetworkIInv => ServersHold
  BY SelectInvWatches, RecordInvLast DEF NetworkIInv, SelectIInv, RecordIInv, ServersHold
<1> QED  BY <1>1, NetworkHolds, PTL

(* A closed record of errors is written by the counting thread only, and   *)
(* no request is given up whose answer was shown before the last look at   *)
(* the flag (udpOrderSendRecv.cpp:640, ping.cpp:245).                      *)
THEOREM HandsOffHold == Spec => HandsOffAreOrdered
<1>1. ASSUME NetworkIInv, [Next]_vars
      PROVE  /\ [misuse' /\ ~misuse => handler = "count"]_orderVars
             /\ [pingPc' = "overtime" /\ pingPc # "overtime" => pingIdx \notin answered]_pingVars
  BY <1>1, NetworkSteps, OrderMisuse, PingOvertime DEF NetworkIInv
<1> QED
  BY <1>1, NetworkHolds, PTL DEF Spec, HandsOffAreOrdered, MisuseNeedsCountThread, OvertimeIsSilence
=============================================================================
