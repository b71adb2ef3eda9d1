---------------------------- MODULE ArpExchange -----------------------------
(***************************************************************************)
(* src/src/socketRaw/rawSocketArp.cpp looks up the Ethernet address of one *)
(* IPv4 address with at most MAX_ARP_REQUEST_TIMES requests and enters it  *)
(* into the ARP table; src/src/socketRaw/arpSendAndRecv.cpp asks for ever  *)
(* and shows every reply.  Their sockets get all ARP packets of the        *)
(* network, in order, asked for or not; the first one does not block.      *)
(***************************************************************************)
EXTENDS Naturals, Sequences

CONSTANTS
    ArpMacs,                 \* Ethernet addresses of the hosts
    NoMac,                   \* none
    MAX_ARP_REQUEST_TIMES,
    ArpQueueLen              \* packets the socket holds, what comes then is dropped

ASSUME ArpAssumption ==
    /\ NoMac \notin ArpMacs
    /\ MAX_ARP_REQUEST_TIMES \in Nat /\ ArpQueueLen \in Nat

VARIABLES
    arpEndless,              \* arpSendAndRecv runs, not rawSocketArp
    arpPc,                   \* "send", "recv", "add", "done"
    loops, arpQueue,
    dstMacAddr,              \* *pDstMacAddr, what was shown last
    arpTable,                \* the entry made for the address
    arpStatus,               \* what GetMacAddrFromArp() returns
    claims                   \* hosts that said the address is theirs (history)

arpVars == <<arpEndless, arpPc, loops, arpQueue, dstMacAddr, arpTable, arpStatus, claims>>

dstIpv4Addr == "asked"

(* What hosts send: replies for either address, and what is no reply (a    *)
(* request, or a packet that IsArpPacket() refuses).                       *)
ArpPack == [op: {"ARPOP_REPLY", "other"}, spa: {dstIpv4Addr, "other"}, sha: ArpMacs]

ArpInit ==
    /\ arpEndless \in BOOLEAN
    /\ arpPc = "send" /\ loops = 0 /\ arpQueue = <<>>
    /\ dstMacAddr = NoMac /\ arpTable = NoMac /\ arpStatus = "none"
    /\ claims = {}

-----------------------------------------------------------------------------
IsAnswer(p) == p.op = "ARPOP_REPLY" /\ p.spa = dstIpv4Addr

ArpPacketArrives ==
    /\ Len(arpQueue) < ArpQueueLen
    /\ \E p \in ArpPack :
        /\ arpQueue' = Append(arpQueue, p)
        /\ claims' = IF IsAnswer(p) THEN claims \cup {p.sha} ELSE claims
    /\ UNCHANGED <<arpEndless, arpPc, loops, dstMacAddr, arpTable, arpStatus>>

(* The next turn of either loop; only the one of rawSocketArp counts.      *)
NextTurn == arpPc' = "send" /\ loops' = IF arpEndless THEN loops ELSE loops + 1

SendOneMore ==  \* mutant: loops <= MAX_ARP_REQUEST_TIMES
    /\ arpPc = "send" /\ (arpEndless \/ loops <= MAX_ARP_REQUEST_TIMES)
    /\ \/ arpPc' = "recv" /\ UNCHANGED loops
       \/ NextTurn
    /\ UNCHANGED <<arpEndless, arpQueue, dstMacAddr, arpTable, arpStatus, claims>>

(* A request that cannot be sent is a turn without an answer, and without  *)
(* the usleep() of the others.                                             *)
SendArpPack ==
    /\ arpPc = "send" /\ (arpEndless \/ loops < MAX_ARP_REQUEST_TIMES)
    /\ \/ arpPc' = "recv" /\ UNCHANGED loops
       \/ NextTurn
    /\ UNCHANGED <<arpEndless, arpQueue, dstMacAddr, arpTable, arpStatus, claims>>

RecvUncheckedIp ==  \* mutant: any reply is taken
    /\ ~arpEndless /\ arpPc = "recv" /\ arpQueue # <<>>
    /\ arpQueue' = Tail(arpQueue)
    /\ IF Head(arpQueue).op = "ARPOP_REPLY"
       THEN dstMacAddr' = Head(arpQueue).sha /\ arpPc' = "add"
       ELSE UNCHANGED <<dstMacAddr, arpPc>>
    /\ UNCHANGED <<arpEndless, loops, arpTable, arpStatus, claims>>

(* RecvArpPack() of rawSocketArp: packets are read until one answers.      *)
RecvArpPack ==
    /\ ~arpEndless /\ arpPc = "recv" /\ arpQueue # <<>>
    /\ arpQueue' = Tail(arpQueue)
    /\ IF IsAnswer(Head(arpQueue))
       THEN dstMacAddr' = Head(arpQueue).sha /\ arpPc' = "add"
       ELSE UNCHANGED <<dstMacAddr, arpPc>>
    /\ UNCHANGED <<arpEndless, loops, arpTable, arpStatus, claims>>

RecvNothingBlocks ==  \* mutant: the socket is left blocking
    ~arpEndless /\ arpPc = "recv" /\ arpQueue = <<>> /\ UNCHANGED arpVars

(* There is nothing to read, or recvfrom() fails.                          *)
RecvNothing ==
    /\ ~arpEndless /\ arpPc = "recv"
    /\ NextTurn
    /\ UNCHANGED <<arpEndless, arpQueue, dstMacAddr, arpTable, arpStatus, claims>>

(* system("arp -s"): when it fails the address is asked for again, though  *)
(* dstMacAddr has been written.                                            *)
AddEntry ==
    /\ arpPc = "add"
    /\ \/ arpTable' = dstMacAddr /\ arpStatus' = "success" /\ arpPc' = "done" /\ UNCHANGED loops
       \/ NextTurn /\ UNCHANGED <<arpTable, arpStatus>>
    /\ UNCHANGED <<arpEndless, arpQueue, dstMacAddr, claims>>

GiveUp ==
    /\ ~arpEndless /\ arpPc = "send" /\ loops = MAX_ARP_REQUEST_TIMES
    /\ arpPc' = "done" /\ arpStatus' = "error"
    /\ UNCHANGED <<arpEndless, loops, arpQueue, dstMacAddr, arpTable, claims>>

(* RecvArpPack() of arpSendAndRecv: one packet is waited for and shown if  *)
(* it is a reply, whoever it is about; a failing recvfrom() is a turn too. *)
RecvAndShow ==
    /\ arpEndless /\ arpPc = "recv"
    /\ \/ /\ arpQueue # <<>> /\ arpQueue' = Tail(arpQueue)
          /\ dstMacAddr' = IF Head(arpQueue).op = "ARPOP_REPLY" THEN Head(arpQueue).sha
                                                                ELSE dstMacAddr
       \/ UNCHANGED <<arpQueue, dstMacAddr>>
    /\ NextTurn
    /\ UNCHANGED <<arpEndless, arpTable, arpStatus, claims>>

ArpNext ==
    \/ ArpPacketArrives \/ SendArpPack \/ RecvArpPack \/ RecvNothing
    \/ AddEntry \/ GiveUp \/ RecvAndShow

-----------------------------------------------------------------------------
ArpTypeOK ==
    /\ arpEndless \in BOOLEAN /\ arpPc \in {"send", "recv", "add", "done"}
    /\ loops \in 0..MAX_ARP_REQUEST_TIMES
    /\ arpQueue \in Seq(ArpPack) /\ Len(arpQueue) <= ArpQueueLen
    /\ claims \subseteq ArpMacs
    /\ dstMacAddr \in ArpMacs \cup {NoMac} /\ arpTable \in ArpMacs \cup {NoMac}
    /\ arpStatus \in {"none", "success", "error"}

(* Success is reported exactly when an entry was made, and the entry is    *)
(* what the caller gets and a host claimed it for the address asked for:   *)
(* whatever replies, late ones of failed turns among them, are in the      *)
(* queue, and however many turns a failed command, a lost reply or a       *)
(* failing recvfrom() cost.                                                *)
ArpAnswered ==
    /\ arpStatus = "success" <=> arpTable # NoMac
    /\ arpTable # NoMac => arpTable = dstMacAddr /\ arpTable \in claims
=============================================================================
