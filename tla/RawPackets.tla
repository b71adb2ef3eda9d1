----------------------------- MODULE RawPackets -----------------------------
(***************************************************************************)
(* src/src/socketRaw/rawSocketDump.cpp shows the UDP packets of one        *)
(* connection that pass a network device, and                              *)
(* src/src/socketRaw/rawSocketUdpSendTest.cpp builds such packets by hand. *)
(*                                                                         *)
(* The dump has one buffer and one PacketParseResult for all packets: what *)
(* a frame does not have is left of the frames before it, and a header     *)
(* that is not accepted leaves the fields it would have filled.  When a    *)
(* line with ipSum[0] is shown after a failed recv() its dump of "length"  *)
(* bytes may end the program, which then takes no further step.            *)
(* The transmitter does not compile; its PrepareSendBuf() is taken for a   *)
(* call whose failure ends the program, isDoUdpCheckSum for a local        *)
(* variable (nothing reads it: BuildUdpHdr() leaves the check 0).          *)
(***************************************************************************)
EXTENDS InternetChecksum

CONSTANTS
    Macs,         \* source addresses of the Ethernet header
    Addresses,    \* words that stand for IPv4 addresses
    Ports,        \* UDP ports
    OptionWords,  \* words that IP options are made of
    Cuts,         \* how many words of its IP packet a frame may have, up to 10
    RAW_NUM       \* [packetNum] of the transmitter

ASSUME RawAssumption ==
    /\ Addresses \subseteq 0..(Word - 1) /\ {1, 2} \subseteq Addresses
    /\ {50000, 50302} \subseteq Ports /\ Ports \subseteq Nat
    /\ OptionWords \subseteq 0..(Word - 1)
    /\ Cuts \subseteq 0..10 /\ RAW_NUM \in Nat

VARIABLES
    gPackParseResult, \* the fields of the last packets
    recvBuf,          \* what is in the buffer where the parser looks
    lineShown,        \* the last packet was shown
    whole,            \* the frame that came last, if it is Ordinary (history)
    lastGood,         \* the addresses last seen in a header that is right (history)
    txPacks, gIpId,   \* transmitter: packets sent, next identification
    packBuf           \* its packet

dumpVars == <<gPackParseResult, recvBuf, lineShown, whole, lastGood>>
rawVars == <<dumpVars, txPacks, gIpId, packBuf>>

NoAddress == Word    \* the zeros a global starts with
gPackFilter == [src |-> 1, dst |-> 2, srcPort |-> 50000, dstPort |-> 50302]

(* The twenty bytes of a header without options: version and length, total *)
(* length, id, offset, ttl and protocol, checksum, addresses.              *)
Ipv4Hdr(id, ip_sum, src, dst) ==
    <<Word - 1, Word - 2, id, 0, Word - 3, ip_sum, src, dst>>

(* BuildIpv4Hdr(): the checksum is computed with 0 in its place.           *)
BuildIpv4Hdr(id, src, dst) ==
    Ipv4Hdr(id, CalcIpv4HdrCheckSum(Ipv4Hdr(id, 0, src, dst)), src, dst)

-----------------------------------------------------------------------------
(* What passes the device: frames cut short, IP headers with and without   *)
(* options whose checksum is right or that of another one, later fragments *)
(* with data where the first one has the UDP header, and what is not UDP.  *)
Options == {<<>>} \cup (OptionWords \X OptionWords)
HdrSums == {CalcIpv4HdrCheckSum(Ipv4Hdr(5, 0, a, 2) \o o) : a \in Addresses, o \in Options}
IpHdrs == {Ipv4Hdr(5, ip_sum, a, 2) \o o :
              ip_sum \in HdrSums, a \in Addresses, o \in Options}

Traffic == [mac: Macs, kind: {"udp", "fragment", "tcp", "notIp"}, ip: IpHdrs,
            data: {50000} \X Ports, came: Cuts]

(* The words after the Ethernet header, and a frame without anything       *)
(* unusual.                                                                *)
IpPacket(f) == f.ip \o f.data
Ordinary(f) == f.kind = "udp" /\ f.came = 10 /\ Len(f.ip) = 8

NoFrame == [kind |-> "none"]

(* The buffer where ParsePacketHdr() looks: every header has the length it *)
(* has without options.  A frame overwrites as many words as it has.       *)
Copied(f, old) ==
    [mac  |-> f.mac,
     isIp |-> f.kind # "notIp",
     udp  |-> IF f.came < 5 THEN old.udp ELSE f.kind \in {"udp", "fragment"},
     ip   |-> [i \in 1..8 |-> IF i <= f.came THEN IpPacket(f)[i] ELSE old.ip[i]],
     data |-> [i \in 1..2 |-> IF i + 8 <= f.came THEN IpPacket(f)[i + 8] ELSE old.data[i]]]

(* An array on the stack starts with anything, a packet for example.       *)
Garbage == [mac: Macs, isIp: BOOLEAN, udp: BOOLEAN,
            ip: {Ipv4Hdr(5, ip_sum, a, 2) : ip_sum \in HdrSums, a \in Addresses},
            data: {50000} \X Ports]

RawInit ==
    /\ gPackParseResult = [mac |-> "none", src |-> NoAddress, dst |-> NoAddress,
                           srcPort |-> 0, dstPort |-> 0, ipChkCorrect |-> 0]
    /\ recvBuf \in Garbage /\ lineShown = FALSE /\ whole = NoFrame
    /\ lastGood = <<NoAddress, NoAddress>>
    /\ txPacks = 0 /\ gIpId = 0 /\ packBuf = <<>>

-----------------------------------------------------------------------------
ParseIpv4HdrSticky(r, b) ==  \* mutant: ipChkCorrect is not set again
    IF CalcIpv4HdrCheckSum(b.ip) # 0
    THEN [r EXCEPT !.ipChkCorrect = 0]
    ELSE [r EXCEPT !.src = b.ip[7], !.dst = b.ip[8],
                   !.ipChkCorrect = IF r.src = NoAddress THEN 1 ELSE @]

(* A header with a wrong checksum leaves the addresses as they are - and   *)
(* does not end the parsing, -1 is not DUMP_JUMP_ERROR.                    *)
ParseIpv4Hdr(r, b) ==
    IF CalcIpv4HdrCheckSum(b.ip) # 0
    THEN [r EXCEPT !.ipChkCorrect = 0]
    ELSE [r EXCEPT !.ipChkCorrect = 1, !.src = b.ip[7], !.dst = b.ip[8]]

ParseUdpHdr(r, b) == [r EXCEPT !.srcPort = b.data[1], !.dstPort = b.data[2]]

(* ParsePacketHdr(): a packet that is not IP changes nothing, one that is  *)
(* not UDP over IPv4 the Ethernet addresses; neither is shown.             *)
ParsePacketHdr(r, b) ==
    CASE ~b.isIp          -> r
      [] b.isIp /\ ~b.udp -> [r EXCEPT !.mac = b.mac]
      [] b.isIp /\ b.udp  -> ParseUdpHdr(ParseIpv4Hdr([r EXCEPT !.mac = b.mac], b), b)

(* Both ports are compared with the source port of the filter.             *)
FilterPacket(r) ==
    /\ r.srcPort = gPackFilter.srcPort /\ r.dstPort = gPackFilter.srcPort
    /\ r.src = gPackFilter.src /\ r.dst = gPackFilter.dst

(* recv() fills the buffer, from its start; when it fails, the -1 in an    *)
(* unsigned length is taken for a packet, and the buffer is parsed as it   *)
(* is.  The length is not given to the parser.                             *)
RecvPacket ==
    /\ \/ \E f \in Traffic :
            /\ recvBuf' = Copied(f, recvBuf)
            /\ whole' = IF Ordinary(f) THEN f ELSE NoFrame
       \/ UNCHANGED <<recvBuf, whole>>
    /\ gPackParseResult' = ParsePacketHdr(gPackParseResult, recvBuf')
    /\ lineShown' = (recvBuf'.isIp /\ recvBuf'.udp /\ FilterPacket(gPackParseResult'))
    /\ lastGood' = IF recvBuf'.isIp /\ recvBuf'.udp /\ Verifies(recvBuf'.ip)
                   THEN <<recvBuf'.ip[7], recvBuf'.ip[8]>> ELSE lastGood
    /\ UNCHANGED <<txPacks, gIpId, packBuf>>

(* One turn of the transmitter; a failed sendto() ends it.                 *)
SendUdpPacketLoops ==
    /\ txPacks < RAW_NUM
    /\ packBuf' = BuildIpv4Hdr(gIpId, 1, 2)
    /\ gIpId' = (gIpId + 1) % Word /\ txPacks' = txPacks + 1
    /\ UNCHANGED dumpVars

-----------------------------------------------------------------------------
RawTypeOK ==
    /\ gPackParseResult \in [mac: Macs \cup {"none"}, src: 0..Word, dst: 0..Word,
                             srcPort: Nat, dstPort: Nat, ipChkCorrect: 0..1]
    /\ recvBuf \in [mac: Macs, isIp: BOOLEAN, udp: BOOLEAN,
                    ip: [1..8 -> 0..(Word - 1)], data: [1..2 -> Nat]]
    /\ whole \in Traffic \cup {NoFrame} /\ lastGood \in (0..Word) \X (0..Word)
    /\ lineShown \in BOOLEAN
    /\ txPacks \in 0..RAW_NUM /\ gIpId \in 0..(Word - 1) /\ packBuf \in Seq(0..(Word - 1))

(* Of any frame a line tells the truth in three things.  It says ipSum[1]  *)
(* if and only if the twenty bytes after the Ethernet header sum to what   *)
(* RFC 1071 asks for; its addresses are those of the last such bytes that  *)
(* did, never those of none.  A frame that is not cut and has no options   *)
(* and no UDP header missing is shown with its own address, its own ports  *)
(* and the verdict on its own header, and if that is right with its own IP *)
(* addresses: nothing in the line is of another packet.  All other frames  *)
(* may be shown with fields of earlier ones, or with options or data for   *)
(* ports.                                                                  *)
LinesTellTruth ==
    lineShown =>
        LET line == gPackParseResult
        IN /\ line.ipChkCorrect = 1 <=> Verifies(recvBuf.ip)
           /\ <<line.src, line.dst>> = lastGood /\ NoAddress \notin {line.src, line.dst}
           /\ whole # NoFrame =>
                /\ line.mac = whole.mac /\ <<line.srcPort, line.dstPort>> = whole.data
                /\ line.ipChkCorrect = 1 <=> Verifies(whole.ip)
                /\ line.ipChkCorrect = 1 => <<line.src, line.dst>> = <<whole.ip[7], whole.ip[8]>>

(* Every header the transmitter builds is one the reference accepts,       *)
(* through every value of the identification and over its wrap.            *)
BuiltVerifies == packBuf # <<>> => Verifies(packBuf) /\ CalcIpv4HdrCheckSum(packBuf) = 0

(* InitDefaultFilter() asks for packets to port 50302 (line 382).          *)
ShownIsAskedFor == lineShown => gPackParseResult.dstPort = gPackFilter.dstPort
=============================================================================
