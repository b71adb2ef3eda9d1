--------------------------- MODULE FileTransmitter ---------------------------
(***************************************************************************)
(* src/src/tcp/tcpFileTransmitter.cpp: the sender writes to one TCP        *)
(* connection the length of the file name, the name, then for every block  *)
(* it reads from the file its size and its bytes, and last a size of 0, or *)
(* of -1 when read() failed.  The receiver takes these apart again with    *)
(* recv(..., MSG_WAITALL) and writes the blocks to a file of that name.    *)
(*                                                                         *)
(* A size of four bytes is one unit of the stream: it is at most 128, so   *)
(* its first byte alone decides what recv() leaves in len.  A byte of the  *)
(* file is its position in the file.  File names shorter than recvBuf.     *)
(***************************************************************************)
EXTENDS Integers, Sequences

CONSTANTS
    FileLen,   \* bytes of the file that is sent
    Block,     \* sizeof(readBuf)
    NameLen,   \* bytes of the file name
    OldLens    \* possible lengths of a file the receiver already has

ASSUME FileTransmitterAssumption ==
    /\ FileLen \in Nat
    /\ Block \in Nat \ {0}
    /\ NameLen \in Nat \ {0}
    /\ OldLens \subseteq Nat

VARIABLES
    spc, sent, size,        \* sender: where it is, bytes read so far, block read
    up, net, closed,        \* the connection: established, units in it, ended
    arrived,                \* how many units of net the receiver can take
    rpc, len, rc, recvBuf,  \* receiver: where it is and its variables
    named,                  \* bytes of the file name it got
    dest,                   \* the file it opened
    file, pos,              \* the file of that name and the offset in it
    good,                   \* bytes of the sent file written (history)
    failed, how             \* whether a write failed, how it ended (history)

sender == <<spc, sent, size>>
connection == <<up, net, closed, arrived>>
receiver == <<rpc, len, rc, recvBuf, named, dest, file, pos, good, failed, how>>
vars == <<sender, connection, receiver>>

AddrLen == 16        \* sizeof(addrClient)
Foreign == 0         \* a byte of the name, or of the cleared buffer
Old == -1            \* a byte of a file that was there before
Size(n) == [t |-> "size", v |-> n]
Byte(b) == [t |-> "byte", v |-> b]
Name == [i \in 1..NameLen |-> Byte(Foreign)]
Bytes(from, n) == [i \in 1..n |-> Byte(from + i)]
Least(a, b) == IF a < b THEN a ELSE b

Init ==
    /\ spc = "connect" /\ sent = 0 /\ size = 0
    /\ up = FALSE /\ net = <<>> /\ closed = FALSE /\ arrived = 0
    /\ rpc = "setup" /\ len = 0 /\ rc = 0
    /\ recvBuf = [i \in 1..Block |-> Foreign]
    /\ named = 0 /\ dest = "none"
    /\ \E n \in OldLens : file = [i \in 1..n |-> Old]
    /\ pos = 0 /\ good = 0 /\ failed = FALSE /\ how = "running"

-----------------------------------------------------------------------------
(* The sender.                                                             *)

Connect ==
    /\ spc = "connect"
    /\ rpc = "accept"
    /\ spc' = "open" /\ up' = TRUE
    /\ UNCHANGED <<sent, size, net, closed, arrived, receiver>>

ConnectFail ==
    /\ spc = "connect"
    /\ spc' = "end"
    /\ UNCHANGED <<sent, size, connection, receiver>>

OpenSource ==
    /\ spc = "open"
    /\ spc' = "name"
    /\ UNCHANGED <<sent, size, connection, receiver>>

OpenSourceFail ==
    /\ spc = "open"
    /\ spc' = "end" /\ closed' = TRUE
    /\ UNCHANGED <<sent, size, up, net, arrived, receiver>>

(* The length and the name, two calls of send() with nothing in between.   *)
SendName ==
    /\ spc = "name"
    /\ net' = net \o <<Size(NameLen)>> \o Name
    /\ spc' = "read"
    /\ UNCHANGED <<sent, size, up, closed, arrived, receiver>>

Read ==
    /\ spc = "read"
    /\ IF sent < FileLen
         THEN \E n \in 1..Least(Block, FileLen - sent) :
                size' = n /\ spc' = "size"
         ELSE size' = 0 /\ spc' = "last"
    /\ UNCHANGED <<sent, connection, receiver>>

ReadFail ==
    /\ spc = "read"
    /\ size' = -1 /\ spc' = "last"
    /\ UNCHANGED <<sent, connection, receiver>>

SendSize ==
    /\ spc = "size"
    /\ net' = Append(net, Size(size))
    /\ spc' = "data"
    /\ UNCHANGED <<sent, size, up, closed, arrived, receiver>>

SendDataWhole == \* mutant: sends the whole of readBuf
    /\ spc = "data"
    /\ net' = net \o Bytes(sent, Block)
    /\ sent' = sent + Block
    /\ spc' = "read"
    /\ UNCHANGED <<size, up, closed, arrived, receiver>>

SendData ==
    /\ spc = "data"
    /\ net' = net \o Bytes(sent, size)
    /\ sent' = sent + size
    /\ spc' = "read"
    /\ UNCHANGED <<size, up, closed, arrived, receiver>>

SendLastAlwaysZero == \* mutant: a read error ends it as the end of the file does
    /\ spc = "last"
    /\ net' = Append(net, Size(0))
    /\ spc' = "end" /\ closed' = TRUE
    /\ UNCHANGED <<sent, size, up, arrived, receiver>>

SendLast ==
    /\ spc = "last"
    /\ net' = Append(net, Size(size))
    /\ spc' = "end" /\ closed' = TRUE
    /\ UNCHANGED <<sent, size, up, arrived, receiver>>

Sender ==
    \/ Connect \/ ConnectFail \/ OpenSource \/ OpenSourceFail \/ SendName
    \/ Read \/ ReadFail \/ SendSize \/ SendData \/ SendLast

(* The sender is killed, or ends because send() failed, part of what it    *)
(* was sending being already on its way.                                   *)
SenderDies ==
    /\ up /\ spc # "end"
    /\ net' \in CASE spc = "name" -> {SubSeq(<<Size(NameLen)>> \o Name, 1, k)
                                        : k \in 0..NameLen + 1}
                  [] spc = "data" -> {net \o Bytes(sent, k) : k \in 0..size}
                  [] OTHER -> {net}
    /\ spc' = "end" /\ closed' = TRUE
    /\ UNCHANGED <<sent, size, up, arrived, receiver>>

(* What the receiver can learn of: everything has arrived, and the end.    *)
Ended == closed /\ arrived = Len(net)

(* The connection breaks: some of the end of what is in it is lost.  A     *)
(* reset shows the receiver the end; when the sender's host or the way to  *)
(* it vanishes nothing does, as the socket has no timeout and no keepalive.*)
ConnectionBreaks ==
    /\ up /\ rpc # "end" /\ ~Ended
    /\ \E k \in 0..Len(net) :
         net' = SubSeq(net, 1, k) /\ arrived' = Least(arrived, k)
    /\ spc' = "end" /\ closed' \in BOOLEAN
    /\ UNCHANGED <<sent, size, up, receiver>>

Arrive ==
    /\ arrived < Len(net)
    /\ arrived' = arrived + 1
    /\ UNCHANGED <<sender, up, net, closed, receiver>>

-----------------------------------------------------------------------------
(* The receiver.                                                           *)

SetUp ==
    /\ rpc = "setup"
    /\ rpc' = "accept"
    /\ UNCHANGED <<sender, connection, len, rc, recvBuf, named, dest, file, pos,
                   good, failed, how>>

(* socket(), bind() or listen() fails, or accept().                        *)
SetUpFail ==
    /\ rpc \in {"setup", "accept"}
    /\ rpc' = "end" /\ how' = "cut"
    /\ UNCHANGED <<sender, connection, len, rc, recvBuf, named, dest, file, pos,
                   good, failed>>

Accept ==
    /\ rpc = "accept"
    /\ up
    /\ rpc' = "namelen" /\ len' = AddrLen
    /\ UNCHANGED <<sender, connection, rc, recvBuf, named, dest, file, pos,
                   good, failed, how>>

(* What recv(..., n, MSG_WAITALL) returns: n units, or what is left.       *)
Available(n) == arrived >= n \/ Ended
Taken(n) == SubSeq(net, 1, Least(n, arrived))
Take(n) ==
    /\ net' = SubSeq(net, Least(n, arrived) + 1, Len(net))
    /\ arrived' = arrived - Least(n, arrived)

(* The results of these two calls are not looked at: without a name the    *)
(* receiver goes on to open("").                                           *)
RecvNameLen ==
    /\ rpc = "namelen"
    /\ Available(1)
    /\ len' = IF arrived = 0 THEN len ELSE Head(net).v
    /\ Take(1)
    /\ rpc' = "name"
    /\ UNCHANGED <<sender, up, closed, rc, recvBuf, named, dest, file, pos,
                   good, failed, how>>

RecvName ==
    /\ rpc = "name"
    /\ Available(len)
    /\ named' = Len(Taken(len))
    /\ Take(len)
    /\ rpc' = "create"
    /\ UNCHANGED <<sender, up, closed, len, rc, recvBuf, dest, file, pos,
                   good, failed, how>>

(* open() without O_TRUNC.  A name that was cut names another file.        *)
Create ==
    /\ rpc = "create"
    /\ \/ dest' = "none"
       \/ named > 0 /\ dest' = IF named = NameLen THEN "file" ELSE "other"
    /\ rpc' = "len"
    /\ UNCHANGED <<sender, connection, len, rc, recvBuf, named, file, pos,
                   good, failed, how>>

EndAs(h) == rpc' = "end" /\ how' = h

RecvLenSpins == \* mutant: a closed connection does not end the loop
    /\ rpc = "len"
    /\ Available(1)
    /\ IF arrived = 0
         THEN UNCHANGED <<rpc, how, len>>
         ELSE /\ len' = Head(net).v
              /\ IF len' = 0 THEN EndAs("complete")
                             ELSE rpc' = "data" /\ UNCHANGED how
    /\ Take(1)
    /\ UNCHANGED <<sender, up, closed, rc, recvBuf, named, dest, file, pos,
                   good, failed>>

RecvLen ==
    /\ rpc = "len"
    /\ Available(1)
    /\ IF arrived = 0
         THEN EndAs("cut") /\ UNCHANGED len
         ELSE /\ len' = Head(net).v
              /\ IF len' = 0 THEN EndAs("complete")
                             ELSE rpc' = "data" /\ UNCHANGED how
    /\ Take(1)
    /\ UNCHANGED <<sender, up, closed, rc, recvBuf, named, dest, file, pos,
                   good, failed>>

(* -1 arrives as the largest socklen_t.                                    *)
Wanted == IF len = -1 THEN Len(net) + 1 ELSE len

Received(bytes) ==
    /\ rc' = Len(bytes)
    /\ IF bytes = <<>>
         THEN EndAs("cut") /\ UNCHANGED recvBuf
         ELSE /\ recvBuf' = [i \in 1..Block |->
                    IF i <= Len(bytes) THEN bytes[i].v ELSE recvBuf[i]]
              /\ rpc' = "write" /\ UNCHANGED how

RecvDataAsItComes == \* mutant: recv() without MSG_WAITALL
    /\ rpc = "data"
    /\ arrived > 0 \/ Ended
    /\ Received(Taken(Wanted)) /\ Take(Wanted)
    /\ UNCHANGED <<sender, up, closed, len, named, dest, file, pos, good, failed>>

RecvData ==
    /\ rpc = "data"
    /\ Available(Wanted)
    /\ Received(Taken(Wanted)) /\ Take(Wanted)
    /\ UNCHANGED <<sender, up, closed, len, named, dest, file, pos, good, failed>>

(* The first w bytes of the buffer at the offset.                          *)
Overwritten(w) ==
    [i \in 1..(IF pos + w > Len(file) THEN pos + w ELSE Len(file)) |->
        IF i \in (pos + 1)..(pos + w) THEN recvBuf[i - pos] ELSE file[i]]

(* write() of len bytes, however many recv() returned; its result is not   *)
(* looked at.  It fails without an open file, or writes a part.            *)
Write ==
    /\ rpc = "write"
    /\ \E w \in 0..len :
         /\ w > 0 => dest # "none"
         /\ file' = IF dest = "file" THEN Overwritten(w) ELSE file
         /\ pos' = pos + w
         /\ good' = IF failed \/ dest # "file" THEN good ELSE good + Least(w, rc)
         /\ failed' = (failed \/ w < len)
    /\ rpc' = "len"
    /\ UNCHANGED <<sender, connection, len, rc, recvBuf, named, dest, how>>

Receiver ==
    \/ SetUp \/ SetUpFail \/ Accept \/ RecvNameLen \/ RecvName \/ Create
    \/ RecvLen \/ RecvData \/ Write

Next == Sender \/ SenderDies \/ ConnectionBreaks \/ Arrive \/ Receiver

Spec == Init /\ [][Next]_vars

(* The receiver goes on as long as it can, and what is sent arrives unless *)
(* the connection breaks.  The sender may be stopped at any of its steps.  *)
FairSpec == Spec /\ WF_vars(Receiver) /\ WF_vars(Arrive)

-----------------------------------------------------------------------------
TypeOK ==
    /\ spc \in {"connect", "open", "name", "read", "size", "data", "last", "end"}
    /\ sent \in 0..FileLen /\ size \in -1..Block
    /\ up \in BOOLEAN /\ closed \in BOOLEAN /\ arrived \in 0..Len(net)
    /\ \A i \in DOMAIN net : net[i].t \in {"size", "byte"}
    /\ rpc \in {"setup", "accept", "namelen", "name", "create", "len", "data",
                "write", "end"}
    /\ rc \in 0..Block
    /\ recvBuf \in [1..Block -> 0..FileLen]
    /\ named \in 0..NameLen /\ dest \in {"none", "other", "file"}
    /\ pos \in 0..(FileLen + Block) /\ good \in 0..FileLen
    /\ failed \in BOOLEAN /\ how \in {"running", "cut", "complete"}

(* The receiver never takes a byte of a name or of a block for a size, nor *)
(* a size for a byte, wherever the stream is cut: the two programs agree   *)
(* on where in the stream they are.                                        *)
Framing ==
    /\ rpc \in {"namelen", "len"} /\ net # <<>> => Head(net).t = "size"
    /\ rpc \in {"name", "data"} =>
         \A i \in 1..Least(Wanted, Len(net)) : net[i].t = "byte"

(* What is written is the sent file from its start, byte for byte, over    *)
(* whatever the file held before, until a write fails.                     *)
PrefixWritten == \A i \in 1..good : file[i] = i

(* Bytes that were never received are written only as the end of the last  *)
(* block of a cut connection, fewer than a block of them: lines 221-234    *)
(* write len bytes whatever recv() returned.                               *)
DamagedEndOnly ==
    pos > good /\ ~failed =>
        /\ how # "complete"
        /\ pos - good < Block
        /\ closed /\ net = <<>>

(* A name that was cut in half opens another file, but never puts a byte   *)
(* into it.                                                                *)
OtherFileUntouched == dest = "other" => pos = 0

(* Once the end of the connection is sure to reach it the receiver comes   *)
(* to its own end, at whichever of its five recv() it is and wherever in   *)
(* the stream the connection was cut.  A sender that is stopped, or that   *)
(* vanishes without a word, keeps it for ever.                             *)
ReceiverEnds == <>[]closed => <>(rpc = "end")

-----------------------------------------------------------------------------
(* The transmitter implements what FileTransfer promises.                  *)
verdict ==
    CASE rpc # "end" -> "open"
      [] rpc = "end" /\ how = "complete" /\ ~failed -> "complete"
      [] OTHER -> "incomplete"

Transfer == INSTANCE FileTransfer WITH got <- good, verdict <- verdict

(* Every step of the two programs is a step of FileTransfer: in particular *)
(* a transfer that ends with the size 0 and without a failed write has     *)
(* brought over the whole file.                                            *)
ImplementsTransfer == Transfer!Spec

(* What a cut connection leaves: the two programs agree on the framing,    *)
(* the file starts with what was sent, at most the end of its last block   *)
(* is damaged, and a file opened under half a name stays as it was.        *)
FileStartsAsSent ==
    Framing /\ PrefixWritten /\ DamagedEndOnly /\ OtherFileUntouched
=============================================================================
