----------------------- MODULE ProcessPrograms_proofs ------------------------
(***************************************************************************)
(* Theorems about ProcessPrograms: what its invariants claim holds for any *)
(* number of processes, messages, memories, records and signals.  Every    *)
(* program has an inductive invariant of its own, kept by its own steps    *)
(* and by those of the others, which leave its variables alone; the last   *)
(* part puts them together.                                                *)
(***************************************************************************)
EXTENDS ProcessPrograms, FiniteSetTheorems, SequenceTheorems, WellFoundedInduction, TLAPS

-----------------------------------------------------------------------------
(* MessageThreads, msgQueueSAROneProcess.  While no thread has allocated a *)
(* buffer under another one's hands, gSendBuf is the buffer of the thread  *)
(* at work, which is as far as the thread is.                              *)

OwnBuffer ==
    ~overlap =>
        /\ \A t \in SarSenders : Working(t) => gSendBuf = t
        /\ \A t \in SarSenders :
              /\ sarPc[t] \in {"terminate", "send"} => bufs[t].filled
              /\ sarPc[t] = "send" => bufs[t].terminated
        /\ \A k \in 1 .. Len(sarQueue) : sarQueue[k] # "junk"
        /\ "junk" \notin sarGot

SarIInv ==
    /\ SarTypeOK
    /\ sarPc \in [SarSenders -> {"open", "fill", "terminate", "send", "end"}]
    /\ sarTimes \in [SarSenders -> 0 .. gTimes]
    /\ bufs \in [SarSenders -> [filled : BOOLEAN, terminated : BOOLEAN]]
    /\ sarQueue \in Seq({"text", "junk", "old"})
    /\ OwnBuffer

LEMMA SarInitIInv == SarInit => SarIInv
<1> SUFFICES ASSUME SarInit PROVE SarIInv
  OBVIOUS
<1>1. gTimes \in Nat
  BY ThreadsAssumption
<1>a. overlap \in BOOLEAN
  BY DEF SarInit
<1>2. SarTypeOK /\ sarTimes \in [SarSenders -> 0 .. gTimes]
  BY <1>1, <1>a DEF SarInit, SarTypeOK
<1>3. OwnBuffer
  <2>1. /\ \A t \in SarSenders : sarPc[t] = "open"
        /\ sarGot = {} /\ sarQueue \in {<<>>, <<"old">>}
    BY Zenon DEF SarInit
  <2>2. \A k \in 1 .. Len(sarQueue) : sarQueue[k] # "junk"
    BY <2>1
  <2> QED  BY <2>1, <2>2 DEF OwnBuffer, Working
<1>4. bufs \in [SarSenders -> [filled : BOOLEAN, terminated : BOOLEAN]]
  <2>1. [filled |-> FALSE, terminated |-> FALSE] \in [filled : BOOLEAN, terminated : BOOLEAN]
    BY Zenon
  <2> QED  BY <2>1 DEF SarInit
<1>5. sarQueue \in Seq({"text", "junk", "old"})
  <2>1. sarQueue = <<>> \/ sarQueue = <<"old">>
    BY Zenon DEF SarInit
  <2>2. <<>> \in Seq({"text", "junk", "old"})
    OBVIOUS
  <2>3. Append(<<>>, "old") = <<"old">>
    OBVIOUS
  <2>4. Append(<<>>, "old") \in Seq({"text", "junk", "old"})
    BY <2>2
  <2> QED  BY <2>1, <2>2, <2>3, <2>4
<1>6. sarPc \in [SarSenders -> {"open", "fill", "terminate", "send", "end"}]
  BY DEF SarInit
<1> QED  BY <1>2, <1>3, <1>4, <1>5, <1>6 DEF SarIInv

LEMMA SarNextIInv == ASSUME SarIInv, [SarNext]_sarVars PROVE SarIInv'
<1>0. gTimes \in Nat /\ overlap \in BOOLEAN
  BY ThreadsAssumption DEF SarIInv, SarTypeOK
<1>1. ASSUME NEW t \in SarSenders, SarMalloc(t) PROVE SarIInv'
  <2>1. /\ sarPc[t] = "open" /\ sarPc' = [sarPc EXCEPT ![t] = "fill"] /\ gSendBuf' = t
        /\ UNCHANGED <<sarTimes, bufs, sarQueue, sarGot>>
    BY <1>1 DEF SarMalloc
  <2>2. overlap' \in BOOLEAN /\ (~overlap' => ~overlap)
        /\ (~overlap' => \A u \in SarSenders \ {t} : ~Working(u))
    BY <1>1, <1>0, Zenon DEF SarMalloc
  <2>3. sarPc' \in [SarSenders -> {"open", "fill", "terminate", "send", "end"}]
    BY <2>1 DEF SarIInv
  <2>4. SarTypeOK'
    BY <2>1, <2>2, <2>3 DEF SarIInv, SarTypeOK
  <2>5. OwnBuffer'
    BY <2>1, <2>2 DEF SarIInv, OwnBuffer, Working
  <2> QED  BY <2>1, <2>3, <2>4, <2>5 DEF SarIInv
<1>2. ASSUME NEW t \in SarSenders, SarFill(t) PROVE SarIInv'
  <2>1. /\ sarPc[t] = "fill" /\ sarPc' = [sarPc EXCEPT ![t] = "terminate"]
        /\ bufs' = [bufs EXCEPT ![gSendBuf] = [filled |-> TRUE, terminated |-> FALSE]]
        /\ UNCHANGED <<sarTimes, gSendBuf, sarQueue, sarGot, overlap>>
    BY <1>2 DEF SarFill
  <2>2. gSendBuf \in SarSenders
    BY DEF SarIInv, SarTypeOK
  <2>3. bufs' \in [SarSenders -> [filled : BOOLEAN, terminated : BOOLEAN]]
    <3>1. [filled |-> TRUE, terminated |-> FALSE] \in [filled : BOOLEAN, terminated : BOOLEAN]
      BY Zenon
    <3> QED  BY <2>1, <3>1 DEF SarIInv
  <2>4. bufs'[gSendBuf].filled = TRUE
    BY <2>1, <2>2 DEF SarIInv
  <2>5. SarTypeOK' /\ sarPc' \in [SarSenders -> {"open", "fill", "terminate", "send", "end"}]
    BY <1>0, <2>1 DEF SarIInv, SarTypeOK
  <2>6. OwnBuffer'
    BY <2>1, <2>2, <2>4 DEF SarIInv, OwnBuffer, Working
  <2> QED  BY <2>1, <2>3, <2>5, <2>6 DEF SarIInv
<1>3. ASSUME NEW t \in SarSenders, SarTerminate(t) PROVE SarIInv'
  <2>1. /\ sarPc[t] = "terminate" /\ sarPc' = [sarPc EXCEPT ![t] = "send"]
        /\ bufs' = [bufs EXCEPT ![gSendBuf].terminated = TRUE]
        /\ UNCHANGED <<sarTimes, gSendBuf, sarQueue, sarGot, overlap>>
    BY <1>3 DEF SarTerminate
  <2>2. gSendBuf \in SarSenders
    BY DEF SarIInv, SarTypeOK
  <2>3. bufs' \in [SarSenders -> [filled : BOOLEAN, terminated : BOOLEAN]]
    <3>1. bufs[gSendBuf] \in [filled : BOOLEAN, terminated : BOOLEAN]
      BY <2>2 DEF SarIInv
    <3>2. [bufs[gSendBuf] EXCEPT !.terminated = TRUE] \in [filled : BOOLEAN, terminated : BOOLEAN]
      BY <3>1, Zenon
    <3>3. bufs' = [bufs EXCEPT ![gSendBuf] = [bufs[gSendBuf] EXCEPT !.terminated = TRUE]]
      BY <2>1
    <3> QED  BY <3>2, <3>3 DEF SarIInv
  <2>4. /\ bufs'[gSendBuf].terminated = TRUE
        /\ bufs'[gSendBuf].filled = bufs[gSendBuf].filled
    BY <2>1, <2>2 DEF SarIInv
  <2>5. SarTypeOK' /\ sarPc' \in [SarSenders -> {"open", "fill", "terminate", "send", "end"}]
    BY <1>0, <2>1 DEF SarIInv, SarTypeOK
  <2>6. OwnBuffer'
    BY <2>1, <2>2, <2>4 DEF SarIInv, OwnBuffer, Working
  <2> QED  BY <2>1, <2>3, <2>5, <2>6 DEF SarIInv
<1>4. ASSUME NEW t \in SarSenders, SarSend(t) PROVE SarIInv'
  <2> DEFINE ready == bufs[gSendBuf].filled /\ bufs[gSendBuf].terminated
             m == IF ready THEN "text" ELSE "junk"
  <2>1. /\ sarPc[t] = "send" /\ sarTimes[t] < gTimes
        /\ sarTimes' = [sarTimes EXCEPT ![t] = @ + 1]
        /\ UNCHANGED <<sarPc, gSendBuf, bufs, sarGot, overlap>>
        /\ sarQueue' = Append(sarQueue, m) \/ UNCHANGED sarQueue
    BY <1>4 DEF SarSend
  <2>2. ~overlap => ready
    BY <2>1 DEF SarIInv, OwnBuffer, Working
  <2>3. m \in {"text", "junk"} /\ (~overlap => m = "text")
    BY <2>2
  <2> HIDE DEF m
  <2>4. sarTimes' \in [SarSenders -> 0 .. gTimes]
    BY <1>0, <2>1 DEF SarIInv
  <2>a. sarQueue \in Seq({"text", "junk", "old"})
    BY DEF SarIInv
  <2>5. sarQueue' \in Seq({"text", "junk", "old"})
    <3>1. CASE UNCHANGED sarQueue
      BY <2>a, <3>1
    <3>2. CASE sarQueue' = Append(sarQueue, m)
      BY <2>3, <2>a, <3>2
    <3> QED  BY <2>1, <3>1, <3>2
  <2>6. SarTypeOK'
    BY <1>0, <2>1, <2>4 DEF SarIInv, SarTypeOK
  <2>7. ~overlap => \A k \in 1 .. Len(sarQueue') : sarQueue'[k] # "junk"
    <3>1. CASE UNCHANGED sarQueue
      BY <3>1 DEF SarIInv, OwnBuffer
    <3>2. CASE sarQueue' = Append(sarQueue, m)
      BY <2>3, <2>a, <3>2 DEF SarIInv, OwnBuffer
    <3> QED  BY <2>1, <3>1, <3>2
  <2>8. OwnBuffer'
    BY <2>1, <2>7 DEF SarIInv, OwnBuffer, Working
  <2> QED  BY <2>1, <2>4, <2>5, <2>6, <2>8 DEF SarIInv
<1>5. ASSUME NEW t \in SarSenders, SarEnds(t) PROVE SarIInv'
  <2>1. /\ sarPc[t] = "send" /\ sarPc' = [sarPc EXCEPT ![t] = "end"]
        /\ UNCHANGED <<sarTimes, gSendBuf, bufs, sarQueue, sarGot, overlap>>
    BY <1>5 DEF SarEnds
  <2>2. SarTypeOK' /\ sarPc' \in [SarSenders -> {"open", "fill", "terminate", "send", "end"}]
    BY <1>0, <2>1 DEF SarIInv, SarTypeOK
  <2>3. OwnBuffer'
    BY <2>1 DEF SarIInv, OwnBuffer, Working
  <2> QED  BY <2>1, <2>2, <2>3 DEF SarIInv
<1>6. CASE SarReceive
  <2>1. /\ sarQueue # <<>> /\ sarQueue' = Tail(sarQueue)
        /\ sarGot' = sarGot \cup {Head(sarQueue)}
        /\ UNCHANGED <<sarPc, sarTimes, gSendBuf, bufs, overlap>>
    BY <1>6 DEF SarReceive
  <2>2. /\ sarQueue' \in Seq({"text", "junk", "old"}) /\ Head(sarQueue) \in {"text", "junk", "old"}
        /\ Head(sarQueue) = sarQueue[1] /\ 1 \in 1 .. Len(sarQueue)
        /\ \A k \in 1 .. Len(sarQueue') : sarQueue'[k] = sarQueue[k + 1]
                                          /\ k + 1 \in 1 .. Len(sarQueue)
    BY <2>1 DEF SarIInv
  <2>3. SarTypeOK'
    BY <1>0, <2>1, <2>2 DEF SarIInv, SarTypeOK
  <2>4. OwnBuffer'
    BY <2>1, <2>2 DEF SarIInv, OwnBuffer, Working
  <2> QED  BY <2>1, <2>2, <2>3, <2>4 DEF SarIInv
<1>7. CASE UNCHANGED sarVars
  BY <1>7 DEF SarIInv, SarTypeOK, OwnBuffer, Working, sarVars
<1> QED  BY <1>1, <1>2, <1>3, <1>4, <1>5, <1>6, <1>7 DEF SarNext

LEMMA SarInvJunk == SarIInv => JunkNeedsOverlap
  BY DEF SarIInv, OwnBuffer, JunkNeedsOverlap

(* msgQueueAttr.  Two messages at most come into the queue: one that was   *)
(* left there and the one of the sending thread.                           *)
AttrIInv == AttrTypeOK /\ attrQueue + attrGot <= IF attrSent THEN 2 ELSE 1

LEMMA AttrInitIInv == AttrInit => AttrIInv
  BY DEF AttrInit, AttrIInv, AttrTypeOK

LEMMA AttrNextIInv == ASSUME AttrIInv, [AttrNext]_attrVars PROVE AttrIInv'
<1>1. CASE AttrReceive
  BY <1>1 DEF AttrReceive, AttrTakes, AttrIInv, AttrTypeOK
<1>2. CASE ThreadChangeAttr
  BY <1>2 DEF ThreadChangeAttr, AttrIInv, AttrTypeOK
<1>3. CASE AttrSend
  BY <1>3 DEF AttrSend, AttrIInv, AttrTypeOK
<1>4. CASE UNCHANGED attrVars
  BY <1>4 DEF attrVars, AttrIInv, AttrTypeOK
<1> QED  BY <1>1, <1>2, <1>3, <1>4 DEF AttrNext

-----------------------------------------------------------------------------
(* The least of some numbers, which a search from below finds.             *)

LEMMA LeastIs ==
    ASSUME NEW S \in SUBSET Nat, S # {}
    PROVE  Min(S) \in S /\ \A y \in S : Min(S) <= y
<1>1. PICK x \in S : \A y \in S : ~(<<y, x>> \in OpToRel(<, Nat))
  BY NatLessThanWellFounded, WFMin
<1>2. ASSUME NEW y \in S PROVE x <= y
  <2>1. x \in Nat /\ y \in Nat
    OBVIOUS
  <2>2. y < x => <<y, x>> \in OpToRel(<, Nat)
    BY <2>1 DEF OpToRel
  <2>3. ~(y < x)
    BY <1>1, <2>2, Zenon
  <2> QED  BY <2>1, <2>3
<1> QED  BY <1>2 DEF Min

-----------------------------------------------------------------------------
(* SharedObjects, the memory.  A memory that has the name, or that a       *)
(* reader has mapped, is one a writer has opened; what a writer behind its *)
(* ftruncate() has copied is in the memory until another one cuts it, and  *)
(* the name is its memory's until it is taken away.                        *)

Opened(w) == shmW[w].pc # "open"
AtWork(w) == shmW[w].pc \in {"size", "copy", "sleep"}

(* What is so of a writer, by its record, its memory and the name.         *)
Ahead(rec, memories, name, isRemoved, isCut) ==
    /\ rec.pc # "open" => rec.shm \in 1 .. Len(memories)
    /\ rec.pc \in {"copy", "sleep"} /\ ~isCut =>
          memories[rec.shm].size > 0 /\ 1 .. rec.copied \subseteq memories[rec.shm].bytes
    /\ rec.pc = "sleep" => rec.copied = TextLen
    /\ rec.pc = "copy" => rec.copied < TextLen
    /\ rec.pc = "size" => rec.copied = 0
    /\ rec.pc \in {"size", "copy", "sleep"} /\ ~isRemoved => name = rec.shm

WritersAhead ==
    \A w \in ShmWriters : Ahead(shmW[w], shms, shmName, w \in removed, w \in cut)

MemoriesHaveWriters ==
    /\ shmName # 0 => \E w \in ShmWriters : Opened(w) /\ shmW[w].shm = shmName
    /\ \A r \in ShmReaders : shmR[r].shm # 0 =>
          \E w \in ShmWriters : Opened(w) /\ shmW[w].shm = shmR[r].shm
    /\ \A r \in ShmReaders : shmR[r].pc = "print" => shmR[r].shm # 0

UnsizedAreEmpty ==
    /\ \A q \in 1 .. Len(shms) : shms[q].size = 0 => shms[q].bytes = {}
    /\ \A r \in ShmReaders : shmR[r].pc = "crashed" => saw[r] = 0

ShmIInv == ShmTypeOK /\ WritersAhead /\ MemoriesHaveWriters /\ UnsizedAreEmpty

LEMMA ShmInitIInv == ShmInit => ShmIInv
<1> SUFFICES ASSUME ShmInit PROVE ShmIInv
  OBVIOUS
<1> USE SharedAssumption DEF ShmInit
<1>1. Len(shms) = 0 /\ shms \in Seq([size : 0 .. TextLen, bytes : SUBSET (1 .. TextLen)])
  OBVIOUS
<1>2. ShmTypeOK
  BY <1>1 DEF ShmTypeOK
<1>3. WritersAhead /\ MemoriesHaveWriters /\ UnsizedAreEmpty
  BY <1>1 DEF WritersAhead, Ahead, MemoriesHaveWriters, UnsizedAreEmpty, Opened
<1> QED  BY <1>2, <1>3 DEF ShmIInv

WriterRecord == [pc : {"open", "size", "copy", "sleep", "end", "crashed"},
                 shm : 0 .. Len(shms), copied : 0 .. TextLen]
ReaderRecord == [pc : {"open", "print", "printed", "crashed", "exit"}, shm : 0 .. Len(shms)]
MemoryRecord == [size : 0 .. TextLen, bytes : SUBSET (1 .. TextLen)]

LEMMA ShmTypes ==
    ShmTypeOK <=>
        /\ shmName \in 0 .. Len(shms) /\ removed \subseteq ShmWriters /\ cut \subseteq ShmWriters
        /\ shms \in Seq(MemoryRecord)
        /\ shmW \in [ShmWriters -> WriterRecord] /\ shmR \in [ShmReaders -> ReaderRecord]
        /\ saw \in [ShmReaders -> 0 .. TextLen]
  BY DEF ShmTypeOK, MemoryRecord, WriterRecord, ReaderRecord

LEMMA ShmWriterOpen == ASSUME ShmIInv, NEW w \in ShmWriters, WriterOpen(w) PROVE ShmIInv'
<1> USE SharedAssumption
<1>0. /\ shmName \in 0 .. Len(shms) /\ Len(shms) \in Nat /\ shms \in Seq(MemoryRecord)
      /\ shmW \in [ShmWriters -> WriterRecord] /\ shmR \in [ShmReaders -> ReaderRecord]
  BY ShmTypes DEF ShmIInv
<1> DEFINE new == [pc |-> "size", shm |-> shmName', copied |-> 0]
<1>1. /\ shmW[w].pc = "open" /\ shmW' = [shmW EXCEPT ![w] = new]
      /\ UNCHANGED <<shmR, removed, cut, saw>>
  BY DEF WriterOpen
<1>2. /\ shms' \in Seq(MemoryRecord) /\ Len(shms') \in Nat /\ Len(shms) <= Len(shms')
      /\ \A q \in 1 .. Len(shms) : shms'[q] = shms[q]
      /\ \A q \in 1 .. Len(shms') :
            q \notin 1 .. Len(shms) => shms'[q].size = 0 /\ shms'[q].bytes = {}
      /\ shmName' \in 1 .. Len(shms')
      /\ shmName # 0 => shmName' = shmName
  <2>1. CASE shmName = 0
    <3> DEFINE m == [size |-> 0, bytes |-> {}]
    <3>1. m \in MemoryRecord /\ m.size = 0 /\ m.bytes = {}
      BY DEF MemoryRecord
    <3>2. shms' = Append(shms, m) /\ shmName' = Len(shms')
      BY <2>1 DEF WriterOpen
    <3> HIDE DEF m
    <3> QED  BY <1>0, <2>1, <3>1, <3>2
  <2>2. CASE shmName # 0
    BY <1>0, <2>2 DEF WriterOpen
  <2> QED  BY <2>1, <2>2
<1>3. new \in WriterRecord' /\ new.pc = "size" /\ new.shm = shmName' /\ new.copied = 0
  BY <1>2 DEF WriterRecord
<1>4. \A v \in ShmWriters : shmW'[v] = IF v = w THEN new ELSE shmW[v]
  BY <1>0, <1>1
<1> HIDE DEF new
<1>5. ShmTypeOK'
  <2>1. shmW' \in [ShmWriters -> WriterRecord']
    BY <1>0, <1>1, <1>2, <1>3 DEF WriterRecord
  <2>2. shmR' \in [ShmReaders -> ReaderRecord']
    BY <1>0, <1>1, <1>2 DEF ReaderRecord
  <2>3. MemoryRecord' = MemoryRecord
    BY DEF MemoryRecord
  <2> QED  BY <1>1, <1>2, <2>1, <2>2, <2>3, ShmTypes DEF ShmIInv, ShmTypeOK, MemoryRecord, WriterRecord, ReaderRecord
<1>6. WritersAhead'
  <2> SUFFICES ASSUME NEW v \in ShmWriters
               PROVE  Ahead(shmW'[v], shms', shmName', v \in removed', v \in cut')
    BY DEF WritersAhead
  <2>1. CASE v = w
    BY <1>2, <1>3, <1>4, <2>1 DEF Ahead
  <2>2. CASE v # w
    <3>1. shmW'[v] = shmW[v]
      BY <1>4, <2>2
    <3>2. Ahead(shmW[v], shms, shmName, v \in removed, v \in cut)
      BY DEF ShmIInv, WritersAhead
    <3> QED  BY <1>0, <1>1, <1>2, <3>1, <3>2 DEF Ahead
  <2> QED  BY <2>1, <2>2
<1>7. MemoriesHaveWriters'
  <2>1. Opened(w)' /\ shmW'[w].shm = shmName'
    BY <1>3, <1>4 DEF Opened
  <2>2. \A v \in ShmWriters : Opened(v) => Opened(v)' /\ shmW'[v] = shmW[v]
    BY <1>1, <1>4 DEF Opened
  <2> QED  BY <1>1, <2>1, <2>2 DEF ShmIInv, MemoriesHaveWriters
<1>8. UnsizedAreEmpty'
  BY <1>1, <1>2 DEF ShmIInv, UnsizedAreEmpty
<1> QED  BY <1>5, <1>6, <1>7, <1>8 DEF ShmIInv

(* A step of a writer behind its shm_open() that changes its own record    *)
(* and its memory: what the others have copied stays, or they are cut.     *)
LEMMA ShmWriterStep ==
    ASSUME ShmIInv, NEW w \in ShmWriters, NEW new \in WriterRecord, NEW m \in MemoryRecord,
           Opened(w), new.pc \notin {"open", "size"}, new.shm = shmW[w].shm,
           new.pc \in {"copy", "sleep"} => AtWork(w),
           shmW' = [shmW EXCEPT ![w] = new],
           shms' = [shms EXCEPT ![shmW[w].shm] = m],
           m.size = 0 => m.bytes = {},
           cut \subseteq cut', cut' \subseteq ShmWriters,
           \A v \in ShmWriters \ {w} :
              shmW[v].shm = shmW[w].shm /\ shmW[v].pc \in {"copy", "sleep"} /\ v \notin cut' =>
                  m.size > 0 /\ shms[shmW[w].shm].bytes \subseteq m.bytes,
           new.pc \in {"copy", "sleep"} /\ w \notin cut' =>
              m.size > 0 /\ 1 .. new.copied \subseteq m.bytes,
           new.pc = "sleep" => new.copied = TextLen,
           new.pc = "copy" => new.copied < TextLen,
           UNCHANGED <<shmName, shmR, removed, saw>>
    PROVE  ShmIInv'
<1> USE SharedAssumption
<1> DEFINE q == shmW[w].shm
<1>0. /\ shmName \in 0 .. Len(shms) /\ Len(shms) \in Nat /\ shms \in Seq(MemoryRecord)
      /\ shmW \in [ShmWriters -> WriterRecord] /\ shmR \in [ShmReaders -> ReaderRecord]
  BY ShmTypes DEF ShmIInv
<1>1. \A v \in ShmWriters : shmW'[v] = IF v = w THEN new ELSE shmW[v]
  BY <1>0
<1>2. q \in 1 .. Len(shms)
  BY DEF ShmIInv, WritersAhead, Ahead, Opened
<1>3. /\ shms' \in Seq(MemoryRecord) /\ Len(shms') = Len(shms)
      /\ \A p \in 1 .. Len(shms) : shms'[p] = IF p = q THEN m ELSE shms[p]
  BY <1>0, <1>2, ExceptSeq
<1>4. ShmTypeOK'
  <2>1. shmW' \in [ShmWriters -> WriterRecord']
    BY <1>0, <1>3 DEF WriterRecord
  <2>2. shmR' \in [ShmReaders -> ReaderRecord']
    BY <1>0, <1>3 DEF ReaderRecord
  <2>3. MemoryRecord' = MemoryRecord
    BY DEF MemoryRecord
  <2> QED  BY <1>3, <2>1, <2>2, <2>3, ShmTypes
           DEF ShmIInv, ShmTypeOK, MemoryRecord, WriterRecord, ReaderRecord
<1>5. WritersAhead'
  <2> SUFFICES ASSUME NEW v \in ShmWriters
               PROVE  Ahead(shmW'[v], shms', shmName', v \in removed', v \in cut')
    BY DEF WritersAhead
  <2>1. Ahead(shmW[v], shms, shmName, v \in removed, v \in cut)
    BY DEF ShmIInv, WritersAhead
  <2>2. CASE v = w
    <3>1. shmW'[v] = new /\ shms'[q] = m
      BY <1>1, <1>2, <1>3, <2>2
    <3>2. new.pc \in {"copy", "sleep"} /\ w \notin removed => shmName = q
      BY <2>1, <2>2 DEF Ahead, AtWork
    <3> QED  BY <1>2, <1>3, <2>2, <3>1, <3>2 DEF Ahead
  <2>3. CASE v # w
    <3>1. shmW'[v] = shmW[v]
      BY <1>1, <2>3
    <3>2. ASSUME shmW[v].pc \in {"copy", "sleep"}, v \notin cut'
          PROVE  /\ shms'[shmW[v].shm].size > 0
                 /\ 1 .. shmW[v].copied \subseteq shms'[shmW[v].shm].bytes
      <4>1. /\ shmW[v].shm \in 1 .. Len(shms) /\ shms[shmW[v].shm].size > 0
            /\ 1 .. shmW[v].copied \subseteq shms[shmW[v].shm].bytes
        BY <2>1, <3>2 DEF Ahead
      <4>2. CASE shmW[v].shm = q
        <5>1. m.size > 0 /\ shms[q].bytes \subseteq m.bytes
          BY <2>3, <3>2, <4>2
        <5>2. shms'[shmW[v].shm] = m
          BY <1>2, <1>3, <4>2
        <5> QED  BY <4>1, <4>2, <5>1, <5>2
      <4>3. CASE shmW[v].shm # q
        BY <1>3, <4>1, <4>3
      <4> QED  BY <4>2, <4>3
    <3> QED  BY <1>3, <2>1, <3>1, <3>2 DEF Ahead
  <2> QED  BY <2>2, <2>3
<1>6. MemoriesHaveWriters'
  <2>1. \A v \in ShmWriters : Opened(v) => Opened(v)' /\ shmW'[v].shm = shmW[v].shm
    BY <1>1 DEF Opened
  <2> QED  BY <2>1 DEF ShmIInv, MemoriesHaveWriters
<1>7. UnsizedAreEmpty'
  <2>1. \A p \in 1 .. Len(shms) : shms[p].size = 0 => shms[p].bytes = {}
    BY DEF ShmIInv, UnsizedAreEmpty
  <2>2. \A p \in 1 .. Len(shms') : shms'[p].size = 0 => shms'[p].bytes = {}
    BY <1>3, <2>1
  <2> QED  BY <2>2 DEF ShmIInv, UnsizedAreEmpty
<1> QED  BY <1>4, <1>5, <1>6, <1>7 DEF ShmIInv

LEMMA ShmWriterTruncate ==
    ASSUME ShmIInv, NEW w \in ShmWriters, WriterTruncate(w) PROVE ShmIInv'
<1> USE SharedAssumption
<1>0. /\ Len(shms) \in Nat /\ shms \in Seq(MemoryRecord) /\ shmW \in [ShmWriters -> WriterRecord]
      /\ cut \subseteq ShmWriters
  BY ShmTypes DEF ShmIInv
<1> DEFINE q == shmW[w].shm
           Bytes(size) == IF size > shms[q].size THEN shms[q].bytes
                                                 ELSE shms[q].bytes \cap (1 .. size)
<1>1. /\ shmW[w].pc = "size" /\ UNCHANGED <<shmName, shmR, removed, saw>>
  BY DEF WriterTruncate
<1>2. q \in 1 .. Len(shms) /\ shmW[w].copied = 0
  BY <1>1 DEF ShmIInv, WritersAhead, Ahead
<1>3. PICK size \in ShmSizes :
        /\ shms' = [shms EXCEPT ![q] = [size |-> size, bytes |-> Bytes(size)]]
        /\ cut' = IF size < TextLen THEN cut \cup Copying(w) ELSE cut
        /\ \E pc \in {IF size = 0 THEN "crashed" ELSE "copy", "end"} :
              shmW' = [shmW EXCEPT ![w].pc = pc]
  BY <1>0, <1>2 DEF WriterTruncate
<1>4. PICK pc \in {IF size = 0 THEN "crashed" ELSE "copy", "end"} :
        shmW' = [shmW EXCEPT ![w].pc = pc]
  BY <1>3
<1> DEFINE new == [shmW[w] EXCEPT !.pc = pc]  m == [size |-> size, bytes |-> Bytes(size)]
<1>5. /\ new \in WriterRecord /\ new.pc = pc /\ new.shm = q /\ new.copied = 0
  BY <1>0, <1>2 DEF WriterRecord
<1>6. shmW' = [shmW EXCEPT ![w] = new]
  BY <1>0, <1>4
<1>7. shms[q] \in MemoryRecord
  BY <1>0, <1>2
<1>8. shms[q].size \in 0 .. TextLen /\ shms[q].bytes \subseteq 1 .. TextLen /\ size \in 0 .. TextLen
  BY <1>7 DEF MemoryRecord
<1>9. /\ m \in MemoryRecord /\ m.size = size
      /\ size = 0 => m.bytes = {}
      /\ size = TextLen => m.bytes = shms[q].bytes
  <2>1. Bytes(size) \subseteq 1 .. TextLen
    BY <1>8
  <2>2. size = 0 => Bytes(size) = {}
    BY <1>8
  <2>3. size = TextLen => Bytes(size) = shms[q].bytes
    BY <1>8
  <2> HIDE DEF Bytes
  <2> QED  BY <1>8, <2>1, <2>2, <2>3 DEF MemoryRecord
<1>10. shms' = [shms EXCEPT ![q] = m]
  BY <1>3
<1> HIDE DEF new, m, Bytes
<1>11. cut \subseteq cut' /\ cut' \subseteq ShmWriters
  BY <1>0, <1>3 DEF Copying
<1>12. ASSUME NEW v \in ShmWriters \ {w}, shmW[v].shm = q, shmW[v].pc \in {"copy", "sleep"},
              v \notin cut'
       PROVE  m.size > 0 /\ shms[q].bytes \subseteq m.bytes
  <2>1. v \in Copying(w)
    BY <1>12 DEF Copying
  <2>2. ~(size < TextLen)
    BY <1>3, <1>12, <2>1
  <2> QED  BY <1>8, <1>9, <2>2
<1>13. /\ Opened(w) /\ AtWork(w) /\ pc \in {"copy", "crashed", "end"}
       /\ pc = "copy" => size > 0
  BY <1>1, <1>8 DEF Opened, AtWork
<1>14. /\ new.pc \notin {"open", "size", "sleep"} /\ new.shm = shmW[w].shm
       /\ new.pc \in {"copy", "sleep"} => m.size > 0
       /\ 1 .. new.copied \subseteq m.bytes
       /\ new.pc = "copy" => new.copied < TextLen
  BY <1>5, <1>9, <1>13
<1> HIDE DEF q
<1>15. \A v \in ShmWriters \ {w} :
          shmW[v].shm = shmW[w].shm /\ shmW[v].pc \in {"copy", "sleep"} /\ v \notin cut' =>
              m.size > 0 /\ shms[shmW[w].shm].bytes \subseteq m.bytes
  BY <1>12 DEF q
<1>16. shms' = [shms EXCEPT ![shmW[w].shm] = m] /\ (m.size = 0 => m.bytes = {})
  BY <1>9, <1>10 DEF q
<1> QED
  BY <1>1, <1>5, <1>6, <1>9, <1>11, <1>13, <1>14, <1>15, <1>16, ShmWriterStep

LEMMA ShmWriterCopy == ASSUME ShmIInv, NEW w \in ShmWriters, WriterCopy(w) PROVE ShmIInv'
<1> USE SharedAssumption
<1>0. /\ Len(shms) \in Nat /\ shms \in Seq(MemoryRecord) /\ shmW \in [ShmWriters -> WriterRecord]
      /\ cut \subseteq ShmWriters
  BY ShmTypes DEF ShmIInv
<1> DEFINE q == shmW[w].shm  c == shmW[w].copied
<1>1. shmW[w].pc = "copy" /\ UNCHANGED <<shmName, shmR, removed, cut, saw>>
  BY DEF WriterCopy
<1>2. /\ q \in 1 .. Len(shms) /\ c < TextLen
      /\ w \notin cut => 1 .. c \subseteq shms[q].bytes
  BY <1>1 DEF ShmIInv, WritersAhead, Ahead
<1>3. shms[q] \in MemoryRecord /\ shmW[w] \in WriterRecord
  BY <1>0, <1>2
<1>4. /\ shms[q].size \in 0 .. TextLen /\ shms[q].bytes \subseteq 1 .. TextLen
      /\ c \in 0 .. TextLen /\ q \in 0 .. Len(shms)
  BY <1>3 DEF MemoryRecord, WriterRecord
<1>5. Opened(w) /\ AtWork(w)
  BY <1>1 DEF Opened, AtWork
<1>6. CASE shms[q].size = 0
  <2> DEFINE new == [shmW[w] EXCEPT !.pc = "crashed"]
  <2>1. shmW' = [shmW EXCEPT ![w].pc = "crashed"] /\ shms' = shms
    BY <1>6 DEF WriterCopy
  <2>2. new \in WriterRecord /\ new.pc = "crashed" /\ new.shm = q
    BY <1>3 DEF WriterRecord
  <2>3. shmW' = [shmW EXCEPT ![w] = new] /\ shms' = [shms EXCEPT ![q] = shms[q]]
    BY <1>0, <1>2, <2>1
  <2>4. shms[q].bytes = {}
    BY <1>2, <1>6 DEF ShmIInv, UnsizedAreEmpty
  <2>5. ASSUME NEW v \in ShmWriters \ {w}, shmW[v].shm = q, shmW[v].pc \in {"copy", "sleep"},
               v \notin cut
        PROVE  shms[q].size > 0
    BY <2>5 DEF ShmIInv, WritersAhead, Ahead
  <2> HIDE DEF new
  <2> QED  BY <1>0, <1>1, <1>3, <1>5, <2>2, <2>3, <2>4, <2>5, ShmWriterStep
<1>7. CASE shms[q].size # 0
  <2> DEFINE pc == IF c + 1 = TextLen THEN "sleep" ELSE "copy"
             new == [pc |-> pc, shm |-> q, copied |-> c + 1]
             bytes == shms[q].bytes \cup {c + 1}
             m == [shms[q] EXCEPT !.bytes = bytes]
  <2>1. /\ shmW' = [shmW EXCEPT ![w].copied = c + 1, ![w].pc = pc]
        /\ shms' = [shms EXCEPT ![q].bytes = bytes]
    BY <1>2, <1>7 DEF WriterCopy
  <2>2. /\ c + 1 \in 0 .. TextLen /\ bytes \subseteq 1 .. TextLen
        /\ w \notin cut => 1 .. (c + 1) \subseteq bytes
    <3>1. c \in Int /\ c < TextLen /\ c >= 0 /\ TextLen \in Int
      BY <1>2, <1>4
    <3>2. w \notin cut => 1 .. c \subseteq shms[q].bytes
      BY <1>2
    <3> HIDE DEF c, q
    <3>3. 1 .. (c + 1) = (1 .. c) \cup {c + 1} /\ c + 1 \in 1 .. TextLen
      BY <3>1
    <3> QED  BY <1>4, <3>1, <3>2, <3>3
  <2>3. new \in WriterRecord /\ new.pc = pc /\ new.shm = q /\ new.copied = c + 1
    <3> DEFINE n == c + 1
    <3>1. n \in 0 .. TextLen /\ pc \in {"copy", "sleep"}
      BY <2>2
    <3>2. new = [pc |-> pc, shm |-> q, copied |-> n]
      OBVIOUS
    <3> HIDE DEF n, pc, q, new
    <3>3. new \in WriterRecord /\ new.pc = pc /\ new.shm = q /\ new.copied = n
      BY <1>4, <3>1, <3>2 DEF WriterRecord
    <3> QED  BY <3>3 DEF n
  <2>4. shmW' = [shmW EXCEPT ![w] = new]
    <3> DEFINE old == shmW[w]  n == c + 1  e == [old EXCEPT !.copied = n]
    <3>1. shmW' = [shmW EXCEPT ![w] = [e EXCEPT !.pc = pc]]
      BY <1>0, <2>1
    <3> HIDE DEF old, n, pc
    <3>2. e = [pc |-> old.pc, shm |-> old.shm, copied |-> n]
      BY <1>3 DEF WriterRecord, old
    <3> HIDE DEF e
    <3>3. [e EXCEPT !.pc = pc] = [pc |-> pc, shm |-> old.shm, copied |-> n]
      BY <3>2
    <3> QED  BY <3>1, <3>3 DEF old, n
  <2>5. shms' = [shms EXCEPT ![q] = m]
    BY <1>2, <2>1
  <2> HIDE DEF bytes
  <2>6. m \in MemoryRecord /\ m.size = shms[q].size /\ m.bytes = bytes
    <3>1. m = [size |-> shms[q].size, bytes |-> bytes]
      BY <1>3 DEF MemoryRecord
    <3>2. bytes \in SUBSET (1 .. TextLen) /\ shms[q].size \in 0 .. TextLen
      BY <1>4, <2>2
    <3> HIDE DEF m, q
    <3> QED  BY <3>1, <3>2 DEF MemoryRecord
  <2> HIDE DEF m, new
  <2>7. m.size > 0 /\ shms[q].bytes \subseteq m.bytes
    BY <1>4, <1>7, <2>6 DEF bytes
  <2>8. /\ pc \in {"copy", "sleep"} /\ (pc = "sleep" => c + 1 = TextLen)
        /\ pc = "copy" => c + 1 < TextLen
    BY <1>2, <1>4
  <2> HIDE DEF pc
  <2>9. w \notin cut' => 1 .. new.copied \subseteq m.bytes
    <3>1. new.copied = c + 1 /\ m.bytes = bytes /\ cut' = cut
      BY <1>1, <2>3, <2>6
    <3>2. w \notin cut => 1 .. (c + 1) \subseteq bytes
      BY <2>2
    <3> QED  BY <3>1, <3>2, Zenon
  <2>10. /\ new.pc \in {"copy", "sleep"} /\ new.shm = shmW[w].shm
         /\ new.pc = "sleep" => new.copied = TextLen
         /\ new.pc = "copy" => new.copied < TextLen
         /\ shms' = [shms EXCEPT ![shmW[w].shm] = m]
         /\ m.size > 0 /\ shms[shmW[w].shm].bytes \subseteq m.bytes
    BY <2>3, <2>5, <2>7, <2>8
  <2>11. cut \subseteq cut' /\ cut' \subseteq ShmWriters /\ (m.size = 0 => m.bytes = {})
    BY <1>0, <1>1, <1>4, <2>6, <2>7
  <2> HIDE DEF q, c
  <2> QED  BY <1>1, <1>5, <2>3, <2>4, <2>6, <2>9, <2>10, <2>11, ShmWriterStep
<1> QED  BY <1>6, <1>7

LEMMA ShmWriterUnlink == ASSUME ShmIInv, NEW w \in ShmWriters, WriterUnlink(w) PROVE ShmIInv'
<1> USE SharedAssumption
<1>0. /\ Len(shms) \in Nat /\ shms \in Seq(MemoryRecord) /\ shmW \in [ShmWriters -> WriterRecord]
      /\ removed \subseteq ShmWriters
  BY ShmTypes DEF ShmIInv
<1>1. /\ shmW[w].pc = "sleep" /\ shmW' = [shmW EXCEPT ![w].pc = "end"] /\ shmName' = 0
      /\ removed' = removed \cup {v \in ShmWriters \ {w} : shmName # 0 /\ shmW[v].shm = shmName}
      /\ UNCHANGED <<shms, shmR, cut, saw>>
  BY DEF WriterUnlink
<1> DEFINE new == [shmW[w] EXCEPT !.pc = "end"]
<1>2. new \in WriterRecord /\ new.pc = "end" /\ new.shm = shmW[w].shm
  BY <1>0 DEF WriterRecord
<1>3. \A v \in ShmWriters : shmW'[v] = IF v = w THEN new ELSE shmW[v]
  BY <1>0, <1>1
<1> HIDE DEF new
<1>4. ShmTypeOK'
  <2>1. shmW' \in [ShmWriters -> WriterRecord]
    BY <1>0, <1>1, <1>2, <1>3
  <2>2. removed' \subseteq ShmWriters /\ shmName' \in 0 .. Len(shms)
    BY <1>0, <1>1
  <2> QED  BY <1>1, <2>1, <2>2, ShmTypes DEF ShmIInv, ShmTypeOK, WriterRecord
<1>5. WritersAhead'
  <2> SUFFICES ASSUME NEW v \in ShmWriters
               PROVE  Ahead(shmW'[v], shms', shmName', v \in removed', v \in cut')
    BY DEF WritersAhead
  <2>1. Ahead(shmW[v], shms, shmName, v \in removed, v \in cut)
    BY DEF ShmIInv, WritersAhead
  <2>2. CASE v = w
    BY <1>1, <1>2, <1>3, <2>1, <2>2 DEF Ahead
  <2>3. CASE v # w
    <3>1. shmW'[v] = shmW[v]
      BY <1>3, <2>3
    <3>2. AtWork(v) /\ v \notin removed => shmW[v].shm = shmName /\ shmName # 0
      BY <2>1 DEF AtWork, Ahead
    <3>3. AtWork(v) => v \in removed'
      BY <1>1, <2>3, <3>2
    <3> QED  BY <1>1, <2>1, <3>1, <3>3 DEF Ahead, AtWork
  <2> QED  BY <2>2, <2>3
<1>6. MemoriesHaveWriters'
  <2>1. \A v \in ShmWriters : Opened(v) => Opened(v)' /\ shmW'[v].shm = shmW[v].shm
    BY <1>2, <1>3 DEF Opened
  <2> QED  BY <1>1, <2>1 DEF ShmIInv, MemoriesHaveWriters
<1>7. UnsizedAreEmpty'
  BY <1>1 DEF ShmIInv, UnsizedAreEmpty
<1> QED  BY <1>4, <1>5, <1>6, <1>7 DEF ShmIInv

LEMMA ShmReaderOpen == ASSUME ShmIInv, NEW r \in ShmReaders, ReaderOpen(r) PROVE ShmIInv'
<1> USE SharedAssumption
<1>0. /\ shmName \in 0 .. Len(shms) /\ shmR \in [ShmReaders -> ReaderRecord]
  BY ShmTypes DEF ShmIInv
<1> DEFINE new == [pc |-> IF shmName = 0 THEN "exit" ELSE "print", shm |-> shmName]
<1>1. /\ shmR' = [shmR EXCEPT ![r] = new]
      /\ UNCHANGED <<shmName, shms, shmW, removed, cut, saw>>
  BY DEF ReaderOpen
<1>2. /\ new \in ReaderRecord /\ new.shm = shmName
      /\ new.pc = IF shmName = 0 THEN "exit" ELSE "print"
  BY <1>0 DEF ReaderRecord
<1>3. \A v \in ShmReaders : shmR'[v] = IF v = r THEN new ELSE shmR[v]
  BY <1>0, <1>1
<1> HIDE DEF new
<1>4. ShmTypeOK'
  <2>1. shmR' \in [ShmReaders -> ReaderRecord]
    BY <1>0, <1>1, <1>2, <1>3
  <2> QED  BY <1>1, <2>1, ShmTypes DEF ShmIInv, ShmTypeOK, ReaderRecord
<1>5. WritersAhead'
  BY <1>1 DEF ShmIInv, WritersAhead
<1>6. MemoriesHaveWriters'
  BY <1>1, <1>2, <1>3 DEF ShmIInv, MemoriesHaveWriters, Opened
<1>7. UnsizedAreEmpty'
  BY <1>1, <1>2, <1>3 DEF ShmIInv, UnsizedAreEmpty
<1> QED  BY <1>4, <1>5, <1>6, <1>7 DEF ShmIInv

LEMMA TextInIs ==
    ASSUME NEW bytes \in SUBSET (1 .. TextLen)
    PROVE  TextIn(bytes) \in 0 .. TextLen /\ (bytes = {} => TextIn(bytes) = 0)
<1> USE SharedAssumption
<1> DEFINE Missing == {k \in 1 .. (TextLen + 1) : k \notin bytes}
           n == Min(Missing) - 1
<1>1. Missing \in SUBSET Nat /\ Missing # {}
  <2>1. TextLen + 1 \in Missing
    OBVIOUS
  <2> QED  BY <2>1
<1>2. Min(Missing) \in Missing /\ \A y \in Missing : Min(Missing) <= y
  BY <1>1, LeastIs
<1>3. /\ n \in 0 .. TextLen /\ n + 1 \notin bytes
      /\ \A k \in 1 .. n : k \in bytes
  <2> DEFINE least == Min(Missing)
  <2>1. least \in 1 .. (TextLen + 1) /\ least \notin bytes
        /\ \A k \in 1 .. (TextLen + 1) : k \notin bytes => least <= k
    BY <1>2
  <2>2. n = least - 1
    OBVIOUS
  <2> HIDE DEF least, n
  <2> QED  BY <2>1, <2>2
<1> HIDE DEF n
<1>4. \E k \in 0 .. TextLen : 1 .. k \subseteq bytes /\ k + 1 \notin bytes
  BY <1>3
<1>5. TextIn(bytes) \in 0 .. TextLen /\ 1 .. TextIn(bytes) \subseteq bytes
  BY <1>4 DEF TextIn
<1>6. ASSUME bytes = {} PROVE TextIn(bytes) = 0
  <2> DEFINE t == TextIn(bytes)
  <2>1. t \in 0 .. TextLen /\ 1 .. t \subseteq {}
    BY <1>5, <1>6
  <2> HIDE DEF t
  <2>2. t = 0
    BY <2>1
  <2> QED  BY <2>2 DEF t
<1> QED  BY <1>5, <1>6

LEMMA ShmReaderPrint == ASSUME ShmIInv, NEW r \in ShmReaders, ReaderPrint(r) PROVE ShmIInv'
<1> USE SharedAssumption
<1>0. /\ shms \in Seq(MemoryRecord) /\ shmR \in [ShmReaders -> ReaderRecord]
      /\ saw \in [ShmReaders -> 0 .. TextLen] /\ Len(shms) \in Nat
  BY ShmTypes DEF ShmIInv
<1> DEFINE q == shmR[r].shm  sawText == TextIn(shms[q].bytes)
           pc == IF shms[q].size = 0 THEN "crashed" ELSE "printed"
           new == [shmR[r] EXCEPT !.pc = pc]
<1>1. /\ shmR[r].pc = "print"
      /\ shmR' = [shmR EXCEPT ![r].pc = pc]
      /\ saw' = [saw EXCEPT ![r] = sawText]
      /\ UNCHANGED <<shmName, shms, shmW, removed, cut>>
  BY DEF ReaderPrint
<1>2. q \in 1 .. Len(shms)
  BY <1>1 DEF ShmIInv, MemoriesHaveWriters, WritersAhead, Ahead, Opened
<1>3. shms[q] \in MemoryRecord
  BY <1>0, <1>2
<1>4. shms[q].bytes \in SUBSET (1 .. TextLen)
  BY <1>3 DEF MemoryRecord
<1>5. sawText \in 0 .. TextLen /\ (shms[q].size = 0 => sawText = 0)
  BY <1>2, <1>4, TextInIs DEF ShmIInv, UnsizedAreEmpty
<1>6. new \in ReaderRecord /\ new.pc = pc /\ new.shm = q
  BY <1>0 DEF ReaderRecord
<1>7. \A v \in ShmReaders : shmR'[v] = IF v = r THEN new ELSE shmR[v]
  BY <1>0, <1>1
<1> HIDE DEF new, sawText
<1>8. ShmTypeOK'
  <2>1. shmR' \in [ShmReaders -> ReaderRecord] /\ saw' \in [ShmReaders -> 0 .. TextLen]
    BY <1>0, <1>1, <1>5, <1>6, <1>7
  <2> QED  BY <1>1, <2>1, ShmTypes DEF ShmIInv, ShmTypeOK, ReaderRecord
<1>9. WritersAhead'
  BY <1>1 DEF ShmIInv, WritersAhead
<1>10. MemoriesHaveWriters'
  BY <1>1, <1>6, <1>7 DEF ShmIInv, MemoriesHaveWriters, Opened
<1>11. UnsizedAreEmpty'
  <2>1. \A v \in ShmReaders : saw'[v] = IF v = r THEN sawText ELSE saw[v]
    BY <1>0, <1>1
  <2> QED  BY <1>1, <1>5, <1>6, <1>7, <2>1 DEF ShmIInv, UnsizedAreEmpty
<1> QED  BY <1>8, <1>9, <1>10, <1>11 DEF ShmIInv

LEMMA ShmNextIInv == ASSUME ShmIInv, [ShmNext]_shmVars PROVE ShmIInv'
<1>1. CASE UNCHANGED shmVars
  BY <1>1 DEF ShmIInv, ShmTypeOK, WritersAhead, MemoriesHaveWriters, UnsizedAreEmpty,
              Opened, shmVars
<1> QED
  BY <1>1, ShmWriterOpen, ShmWriterTruncate, ShmWriterCopy, ShmWriterUnlink,
     ShmReaderOpen, ShmReaderPrint DEF ShmNext

LEMMA ShmInvFound == ShmIInv => WriterIsFound
<1> SUFFICES ASSUME ShmIInv PROVE WriterIsFound
  OBVIOUS
<1>1. ASSUME NEW w \in ShmWriters, shmW[w].pc = "sleep"
      PROVE  /\ w \notin cut => /\ shms[shmW[w].shm].size > 0
                                /\ shms[shmW[w].shm].bytes = 1 .. TextLen
             /\ w \notin removed => shmName = shmW[w].shm
  <2> DEFINE q == shmW[w].shm
  <2>1. /\ q \in 1 .. Len(shms) /\ shmW[w].copied = TextLen
        /\ w \notin cut => shms[q].size > 0 /\ 1 .. shmW[w].copied \subseteq shms[q].bytes
        /\ w \notin removed => shmName = q
    BY <1>1 DEF ShmIInv, WritersAhead, Ahead
  <2>2. shms[q] \in MemoryRecord
    BY <2>1, ShmTypes DEF ShmIInv
  <2>3. shms[q].bytes \subseteq 1 .. TextLen
    BY <2>2 DEF MemoryRecord
  <2> QED  BY <2>1, <2>3
<1> QED  BY <1>1 DEF ShmIInv, MemoriesHaveWriters, UnsizedAreEmpty, WriterIsFound

-----------------------------------------------------------------------------
(* SharedObjects, the semaphore.  Posts are in the value or in the clock   *)
(* of the waiter that took them.                                           *)

LEMMA NoUnits ==
    ASSUME NEW f, \A i \in DOMAIN f : f[i] = 0
    PROVE  IsFiniteSet(Units(f)) /\ Total(f) = 0
<1>1. Units(f) = {}
  BY DEF Units
<1> QED  BY <1>1, FS_EmptySet DEF Total

LEMMA OneMore ==
    ASSUME NEW S, NEW f \in [S -> Nat], NEW i \in S, IsFiniteSet(Units(f)),
           NEW g \in [S -> Nat], \A j \in S : g[j] = IF j = i THEN f[j] + 1 ELSE f[j]
    PROVE  IsFiniteSet(Units(g)) /\ Total(g) = Total(f) + 1
<1> DEFINE new == <<i, f[i] + 1>>
<1>1. new \notin Units(f)
  BY DEF Units
<1>2. ASSUME NEW u \in Units(g) PROVE u \in Units(f) \cup {new}
  <2>1. PICK j \in S : u \in {j} \X (1 .. g[j])
    BY <1>2 DEF Units
  <2>2. PICK n \in 1 .. g[j] : u = <<j, n>>
    BY <2>1
  <2>3. CASE j = i /\ n = f[i] + 1
    BY <2>2, <2>3
  <2>4. CASE ~(j = i /\ n = f[i] + 1)
    <3>1. n \in 1 .. f[j]
      BY <2>2, <2>4
    <3> QED  BY <2>1, <2>2, <3>1 DEF Units
  <2> QED  BY <2>3, <2>4
<1>3. ASSUME NEW u \in Units(f) PROVE u \in Units(g)
  <2>1. PICK j \in S : u \in {j} \X (1 .. f[j])
    BY <1>3 DEF Units
  <2>2. PICK n \in 1 .. f[j] : u = <<j, n>>
    BY <2>1
  <2>3. n \in 1 .. g[j]
    BY <2>2
  <2> QED  BY <2>1, <2>2, <2>3 DEF Units
<1>4. new \in Units(g)
  <2>1. f[i] + 1 \in 1 .. g[i]
    OBVIOUS
  <2> QED  BY <2>1 DEF Units
<1>5. Units(g) = Units(f) \cup {new}
  BY <1>2, <1>3, <1>4
<1> QED  BY <1>1, <1>5, FS_AddElement DEF Total

WaiterRecord == [pc : {"open", "wait", "tick", "exit", "lost"},
                 usTime : 0 .. TicksPerS - 1, sumTime : Nat]

Clock(rec) == rec.sumTime * TicksPerS + rec.usTime
InHand(rec) == IF rec.pc \in {"tick", "lost"} THEN 1 ELSE 0

(* A waiter can still take what is in the semaphore, and then its clock is *)
(* not ahead of the posts either.                                          *)
ClocksBehind ==
    \A w \in Waiters :
        /\ waiters[w].pc = "open" => Taken[w] = 0
        /\ waiters[w].pc # "open" =>
              Taken[w] + semValue <= (posts - before[w].posts) + before[w].value

SemIInv ==
    /\ SemTypeOK
    /\ IsFiniteSet(Units(Taken)) /\ semValue + Total(Taken) = posts
    /\ ClocksBehind

LEMMA SemNumbers ==
    /\ TicksPerS \in Int /\ TicksPerS > 0 /\ SemValueMax \in Nat /\ MaxPosts \in Nat
  BY SharedAssumption

LEMMA ClockIs ==
    ASSUME NEW rec \in WaiterRecord
    PROVE  Clock(rec) \in Nat /\ InHand(rec) \in 0 .. 1
<1>1. rec.sumTime \in Nat /\ rec.usTime \in 0 .. TicksPerS - 1
  BY DEF WaiterRecord
<1>2. rec.sumTime * TicksPerS \in Nat
  BY <1>1, SharedAssumption
<1>3. InHand(rec) \in 0 .. 1
  BY DEF InHand
<1> QED  BY <1>1, <1>2, <1>3, SemNumbers DEF Clock

LEMMA TakenAre ==
    ASSUME waiters \in [Waiters -> WaiterRecord]
    PROVE  /\ Taken \in [Waiters -> Nat]
           /\ \A w \in Waiters : Taken[w] = Clock(waiters[w]) + InHand(waiters[w])
<1>1. \A w \in Waiters : waiters[w] \in WaiterRecord
  OBVIOUS
<1>2. Taken = [w \in Waiters |-> Clock(waiters[w]) + InHand(waiters[w])]
  BY DEF Taken, Ticks, Clock, InHand
<1>3. \A w \in Waiters : Clock(waiters[w]) + InHand(waiters[w]) \in Nat
  BY <1>1, ClockIs
<1> QED  BY <1>2, <1>3

LEMMA SemInitIInv == SemInit => SemIInv
<1> SUFFICES ASSUME SemInit PROVE SemIInv
  OBVIOUS
<1> USE SemNumbers DEF SemInit
<1>1. waiters \in [Waiters -> WaiterRecord] /\ before \in [Waiters -> [posts : 0 .. MaxPosts, value : 0 .. SemValueMax]]
  BY DEF WaiterRecord
<1>2. SemTypeOK
  <2>1. semNamed \in BOOLEAN /\ semMade \in BOOLEAN
    BY Zenon
  <2>2. semValue \in 0 .. SemValueMax /\ posts \in 0 .. MaxPosts
        /\ posterPc \in {"open", "post", "exit"}
    OBVIOUS
  <2> QED  BY <1>1, <2>1, <2>2, Zenon DEF SemTypeOK, WaiterRecord
<1>3. \A w \in Waiters : Taken[w] = 0
  <2>1. \A w \in Waiters : Clock(waiters[w]) = 0 /\ InHand(waiters[w]) = 0
    BY DEF Clock, InHand
  <2> QED  BY <1>1, <2>1, TakenAre
<1>4. DOMAIN Taken = Waiters
  BY DEF Taken
<1>5. IsFiniteSet(Units(Taken)) /\ Total(Taken) = 0
  BY <1>3, <1>4, NoUnits
<1>6. ClocksBehind
  BY <1>3 DEF ClocksBehind
<1> QED  BY <1>2, <1>5, <1>6 DEF SemIInv

LEMMA SemTypes ==
    SemTypeOK <=>
        /\ semNamed \in BOOLEAN /\ semMade \in BOOLEAN
        /\ semValue \in 0 .. SemValueMax /\ posts \in 0 .. MaxPosts
        /\ posterPc \in {"open", "post", "exit"}
        /\ waiters \in [Waiters -> WaiterRecord]
        /\ before \in [Waiters -> [posts : 0 .. MaxPosts, value : 0 .. SemValueMax]]
  BY DEF SemTypeOK, WaiterRecord

(* One waiter's record changes.                                            *)
LEMMA WaiterStep ==
    ASSUME NEW w \in Waiters, NEW new \in WaiterRecord,
           waiters \in [Waiters -> WaiterRecord], waiters' = [waiters EXCEPT ![w] = new]
    PROVE  /\ waiters' \in [Waiters -> WaiterRecord]
           /\ \A v \in Waiters : waiters'[v] = IF v = w THEN new ELSE waiters[v]
           /\ Taken' \in [Waiters -> Nat]
           /\ \A v \in Waiters :
                 Taken'[v] = IF v = w THEN Clock(new) + InHand(new) ELSE Taken[v]
<1>1. /\ waiters' \in [Waiters -> WaiterRecord]
      /\ \A v \in Waiters : waiters'[v] = IF v = w THEN new ELSE waiters[v]
  OBVIOUS
<1>2. Taken' = [v \in Waiters |-> Clock(waiters'[v]) + InHand(waiters'[v])]
  BY DEF Taken, Ticks, Clock, InHand
<1>3. \A v \in Waiters : Clock(waiters'[v]) + InHand(waiters'[v]) \in Nat
  <2>1. \A v \in Waiters : waiters'[v] \in WaiterRecord
    BY <1>1
  <2> QED  BY <2>1, ClockIs
<1>4. \A v \in Waiters : Taken[v] = Clock(waiters[v]) + InHand(waiters[v])
  BY TakenAre
<1> QED  BY <1>1, <1>2, <1>3, <1>4

(* Only the pc of a waiter changes, and a post it has in hand stays there. *)
LEMMA WaiterMoves ==
    ASSUME NEW w \in Waiters, NEW pc \in {"wait", "exit", "lost"},
           pc = "lost" <=> waiters[w].pc = "tick", waiters[w].pc # "lost",
           waiters \in [Waiters -> WaiterRecord], waiters' = [waiters EXCEPT ![w].pc = pc]
    PROVE  /\ waiters' \in [Waiters -> WaiterRecord]
           /\ \A v \in Waiters : waiters'[v].pc = IF v = w THEN pc ELSE waiters[v].pc
           /\ Taken' = Taken
<1> DEFINE new == [waiters[w] EXCEPT !.pc = pc]
<1>1. new \in WaiterRecord /\ new.pc = pc
      /\ new.usTime = waiters[w].usTime /\ new.sumTime = waiters[w].sumTime
  BY DEF WaiterRecord
<1>2. waiters' = [waiters EXCEPT ![w] = new]
  OBVIOUS
<1> HIDE DEF new
<1>3. Clock(new) + InHand(new) = Clock(waiters[w]) + InHand(waiters[w])
  BY <1>1 DEF Clock, InHand
<1>4. /\ Taken \in [Waiters -> Nat]
      /\ Taken[w] = Clock(waiters[w]) + InHand(waiters[w])
  BY TakenAre
<1>5. /\ waiters' \in [Waiters -> WaiterRecord]
      /\ \A v \in Waiters : waiters'[v] = IF v = w THEN new ELSE waiters[v]
      /\ Taken' \in [Waiters -> Nat]
      /\ \A v \in Waiters : Taken'[v] = IF v = w THEN Clock(new) + InHand(new) ELSE Taken[v]
  BY <1>1, <1>2, WaiterStep
<1>6. \A v \in Waiters : Taken'[v] = Taken[v]
  BY <1>3, <1>4, <1>5
<1>7. Taken' = Taken
  BY <1>4, <1>5, <1>6
<1> QED  BY <1>1, <1>5, <1>7

LEMMA SemWaiterOpen == ASSUME SemIInv, NEW w \in Waiters, WaiterOpen(w) PROVE SemIInv'
<1> USE SemNumbers
<1> DEFINE rec == [posts |-> posts, value |-> semValue]
<1>0. /\ waiters \in [Waiters -> WaiterRecord] /\ semValue \in 0 .. SemValueMax
      /\ posts \in 0 .. MaxPosts
      /\ before \in [Waiters -> [posts : 0 .. MaxPosts, value : 0 .. SemValueMax]]
  BY SemTypes DEF SemIInv
<1>1. /\ waiters[w].pc = "open" /\ semMade' = TRUE /\ waiters' = [waiters EXCEPT ![w].pc = "wait"]
      /\ before' = [before EXCEPT ![w] = rec]
      /\ UNCHANGED <<semNamed, semValue, posterPc, posts>>
  BY DEF WaiterOpen
<1>2. /\ waiters' \in [Waiters -> WaiterRecord] /\ Taken' = Taken
      /\ \A v \in Waiters : waiters'[v].pc = IF v = w THEN "wait" ELSE waiters[v].pc
  BY <1>0, <1>1, WaiterMoves
<1>3. rec \in [posts : 0 .. MaxPosts, value : 0 .. SemValueMax]
      /\ rec.posts = posts /\ rec.value = semValue
  BY <1>0
<1>4. \A v \in Waiters : before'[v] = IF v = w THEN rec ELSE before[v]
  BY <1>0, <1>1
<1> HIDE DEF rec
<1>5. SemTypeOK'
  <2>1. before' \in [Waiters -> [posts : 0 .. MaxPosts, value : 0 .. SemValueMax]]
    BY <1>0, <1>1, <1>3
  <2>2. semMade' \in BOOLEAN
    BY <1>1
  <2> QED  BY <1>1, <1>2, <2>1, <2>2, SemTypes DEF SemIInv, SemTypeOK, WaiterRecord
<1>6. ClocksBehind'
  <2> SUFFICES ASSUME NEW v \in Waiters
               PROVE  /\ waiters'[v].pc = "open" => Taken[v] = 0
                      /\ waiters'[v].pc # "open" =>
                            Taken[v] + semValue <= (posts - before'[v].posts) + before'[v].value
    BY <1>1, <1>2 DEF ClocksBehind
  <2>1. CASE v = w
    BY <1>0, <1>1, <1>2, <1>3, <1>4, <2>1 DEF SemIInv, ClocksBehind
  <2>2. CASE v # w
    BY <1>2, <1>4, <2>2 DEF SemIInv, ClocksBehind
  <2> QED  BY <2>1, <2>2
<1> QED  BY <1>1, <1>2, <1>5, <1>6 DEF SemIInv

LEMMA SemPostStep == ASSUME SemIInv, SemPost PROVE SemIInv'
<1> USE SemNumbers
<1>0. /\ waiters \in [Waiters -> WaiterRecord] /\ semValue \in 0 .. SemValueMax
      /\ posts \in 0 .. MaxPosts
      /\ before \in [Waiters -> [posts : 0 .. MaxPosts, value : 0 .. SemValueMax]]
  BY SemTypes DEF SemIInv
<1>1. /\ posts < MaxPosts /\ semValue < SemValueMax
      /\ semValue' = semValue + 1 /\ posts' = posts + 1
      /\ UNCHANGED <<semNamed, semMade, posterPc, waiters, before>>
  BY DEF SemPost
<1>2. Taken' = Taken
  BY <1>1 DEF Taken, Ticks
<1>3. SemTypeOK'
  <2>1. semValue' \in 0 .. SemValueMax /\ posts' \in 0 .. MaxPosts
    BY <1>0, <1>1
  <2> QED  BY <1>1, <2>1 DEF SemIInv, SemTypeOK
<1>4. semValue' + Total(Taken) = posts'
  <2>1. Total(Taken) \in Nat
    BY FS_CardinalityType DEF SemIInv, Total
  <2> QED  BY <1>0, <1>1, <2>1 DEF SemIInv
<1>5. ClocksBehind'
  <2> SUFFICES ASSUME NEW v \in Waiters
               PROVE  /\ waiters[v].pc = "open" => Taken[v] = 0
                      /\ waiters[v].pc # "open" =>
                            Taken[v] + semValue' <= (posts' - before[v].posts) + before[v].value
    BY <1>1, <1>2 DEF ClocksBehind
  <2>1. before[v] \in [posts : 0 .. MaxPosts, value : 0 .. SemValueMax]
    BY <1>0
  <2>2. before[v].posts \in Int /\ before[v].value \in Int /\ Taken[v] \in Int
    BY <1>0, <2>1, TakenAre
  <2> QED  BY <1>0, <1>1, <2>2 DEF SemIInv, ClocksBehind
<1> QED  BY <1>2, <1>3, <1>4, <1>5 DEF SemIInv

(* The post goes from the value into the hands of the waiter.              *)
LEMMA SemWaitStep == ASSUME SemIInv, NEW w \in Waiters, SemWait(w) PROVE SemIInv'
<1> USE SemNumbers
<1>0. /\ waiters \in [Waiters -> WaiterRecord] /\ semValue \in 0 .. SemValueMax
      /\ posts \in 0 .. MaxPosts
      /\ before \in [Waiters -> [posts : 0 .. MaxPosts, value : 0 .. SemValueMax]]
  BY SemTypes DEF SemIInv
<1> DEFINE old == waiters[w]  new == [old EXCEPT !.pc = "tick"]
<1>1. /\ waiters[w].pc = "wait" /\ semValue > 0 /\ semValue' = semValue - 1
      /\ waiters' = [waiters EXCEPT ![w].pc = "tick"]
      /\ UNCHANGED <<semNamed, semMade, posterPc, posts, before>>
  BY DEF SemWait
<1>2. /\ old \in WaiterRecord /\ old.pc = "wait" /\ waiters' = [waiters EXCEPT ![w] = new]
  BY <1>0, <1>1
<1>3. /\ new \in WaiterRecord /\ new.pc = "tick"
      /\ new.usTime = old.usTime /\ new.sumTime = old.sumTime
  BY <1>2 DEF WaiterRecord
<1> HIDE DEF new
<1>4. /\ Clock(new) = Clock(old) /\ InHand(new) = 1 /\ InHand(old) = 0
      /\ Clock(old) \in Nat
  <2>1. Clock(new) = Clock(old)
    BY <1>3 DEF Clock
  <2>2. InHand(new) = 1 /\ InHand(old) = 0
    BY <1>2, <1>3 DEF InHand
  <2> QED  BY <1>2, <2>1, <2>2, ClockIs
<1>5. /\ waiters' \in [Waiters -> WaiterRecord]
      /\ \A v \in Waiters : waiters'[v] = IF v = w THEN new ELSE waiters[v]
      /\ Taken' \in [Waiters -> Nat]
      /\ \A v \in Waiters : Taken'[v] = IF v = w THEN Clock(new) + InHand(new) ELSE Taken[v]
  BY <1>0, <1>2, <1>3, WaiterStep
<1>6. Taken \in [Waiters -> Nat] /\ Taken[w] = Clock(old) + InHand(old)
  BY <1>0, TakenAre
<1> HIDE DEF old
<1>7. \A v \in Waiters : Taken'[v] = IF v = w THEN Taken[v] + 1 ELSE Taken[v]
  BY <1>4, <1>5, <1>6
<1>8. IsFiniteSet(Units(Taken')) /\ Total(Taken') = Total(Taken) + 1
  BY <1>5, <1>6, <1>7, OneMore DEF SemIInv
<1>9. IsFiniteSet(Units(Taken))' /\ semValue' + Total(Taken)' = posts'
  <2>1. Total(Taken) \in Nat
    BY FS_CardinalityType DEF SemIInv, Total
  <2>2. semValue + Total(Taken) = posts
    BY DEF SemIInv
  <2>3. semValue' + Total(Taken') = posts'
    BY <1>0, <1>1, <1>8, <2>1, <2>2
  <2> QED  BY <1>8, <2>3 DEF Total, Units
<1>10. SemTypeOK'
  <2>1. semValue' \in 0 .. SemValueMax
    BY <1>0, <1>1
  <2> QED  BY <1>1, <1>5, <2>1 DEF SemIInv, SemTypeOK, WaiterRecord
<1>11. ClocksBehind'
  <2> SUFFICES ASSUME NEW v \in Waiters
               PROVE  /\ waiters'[v].pc = "open" => Taken'[v] = 0
                      /\ waiters'[v].pc # "open" =>
                            Taken'[v] + semValue' <= (posts - before[v].posts) + before[v].value
    BY <1>1 DEF ClocksBehind
  <2>1. before[v] \in [posts : 0 .. MaxPosts, value : 0 .. SemValueMax]
    BY <1>0
  <2>2. before[v].posts \in Int /\ before[v].value \in Int /\ Taken[v] \in Int
    BY <1>6, <2>1
  <2>3. waiters'[v].pc = "open" <=> waiters[v].pc = "open"
    BY <1>1, <1>3, <1>5
  <2>4. v = w => waiters[v].pc # "open"
    BY <1>1
  <2> QED  BY <1>0, <1>1, <1>7, <2>2, <2>3, <2>4 DEF SemIInv, ClocksBehind
<1> QED  BY <1>9, <1>10, <1>11 DEF SemIInv

LEMMA TickIs ==
    ASSUME NEW old \in WaiterRecord
    PROVE  /\ Tick(old) \in WaiterRecord /\ Tick(old).pc = "wait"
           /\ Clock(Tick(old)) = Clock(old) + 1
<1> USE SemNumbers
<1> DEFINE new == Tick(old)  o0 == [old EXCEPT !.pc = "wait"]
<1>1. old.usTime \in 0 .. TicksPerS - 1 /\ old.sumTime \in Nat
  BY DEF WaiterRecord
<1>2. /\ o0 \in WaiterRecord /\ o0.pc = "wait"
      /\ o0.usTime = old.usTime /\ o0.sumTime = old.sumTime
  BY DEF WaiterRecord
<1>3. /\ new \in WaiterRecord /\ new.pc = "wait"
      /\ new.sumTime * TicksPerS + new.usTime = old.sumTime * TicksPerS + old.usTime + 1
  <2>1. CASE old.usTime + 1 >= TicksPerS
    <3> DEFINE o1 == [o0 EXCEPT !.usTime = 0]
    <3>0. new = [o1 EXCEPT !.sumTime = old.sumTime + 1]
      BY <2>1 DEF Tick, WaiterRecord
    <3> HIDE DEF o0, new
    <3>1. o1 \in WaiterRecord /\ o1.pc = "wait" /\ o1.usTime = 0 /\ o1.sumTime = old.sumTime
      BY <1>2 DEF WaiterRecord
    <3> HIDE DEF o1
    <3>3. new \in WaiterRecord /\ new.pc = "wait" /\ new.usTime = 0
          /\ new.sumTime = old.sumTime + 1
      BY <1>1, <3>0, <3>1 DEF WaiterRecord
    <3>4. (old.sumTime + 1) * TicksPerS = old.sumTime * TicksPerS + TicksPerS
      BY <1>1
    <3>5. old.usTime + 1 = TicksPerS /\ old.sumTime * TicksPerS \in Int
      BY <1>1, <2>1
    <3> QED  BY <1>1, <3>3, <3>4, <3>5
  <2>2. CASE ~(old.usTime + 1 >= TicksPerS)
    <3>1. new = [o0 EXCEPT !.usTime = old.usTime + 1]
      BY <2>2 DEF Tick, WaiterRecord
    <3> HIDE DEF o0, new
    <3>2. new \in WaiterRecord /\ new.pc = "wait" /\ new.usTime = old.usTime + 1
          /\ new.sumTime = old.sumTime
      BY <1>1, <1>2, <2>2, <3>1 DEF WaiterRecord
    <3>3. old.sumTime * TicksPerS \in Int
      BY <1>1
    <3> QED  BY <1>1, <3>2, <3>3
  <2> QED  BY <2>1, <2>2
<1> QED  BY <1>3 DEF Clock

(* It goes from there into the clock.                                      *)
LEMMA SemTickStep == ASSUME SemIInv, NEW w \in Waiters, WaiterTick(w) PROVE SemIInv'
<1> USE SemNumbers
<1>0. waiters \in [Waiters -> WaiterRecord]
  BY SemTypes DEF SemIInv
<1> DEFINE old == waiters[w]  new == Tick(old)
<1>1. /\ old.pc = "tick" /\ waiters' = [waiters EXCEPT ![w] = new]
      /\ UNCHANGED <<semNamed, semMade, semValue, posterPc, posts, before>>
  BY DEF WaiterTick
<1>2. old \in WaiterRecord
  BY <1>0
<1>3. new \in WaiterRecord /\ new.pc = "wait" /\ Clock(new) = Clock(old) + 1
  BY <1>2, TickIs
<1> HIDE DEF new
<1>4. /\ waiters' \in [Waiters -> WaiterRecord]
      /\ \A v \in Waiters : waiters'[v] = IF v = w THEN new ELSE waiters[v]
      /\ Taken' \in [Waiters -> Nat]
      /\ \A v \in Waiters : Taken'[v] = IF v = w THEN Clock(new) + InHand(new) ELSE Taken[v]
  BY <1>0, <1>1, <1>3, WaiterStep
<1>5. Taken \in [Waiters -> Nat] /\ Taken[w] = Clock(old) + InHand(old)
  BY <1>0, TakenAre
<1>6. InHand(new) = 0 /\ InHand(old) = 1 /\ Clock(old) \in Nat
  BY <1>1, <1>2, <1>3, ClockIs DEF InHand
<1> HIDE DEF old
<1>7. \A v \in Waiters : Taken'[v] = Taken[v]
  BY <1>3, <1>4, <1>5, <1>6
<1>8. Taken' = Taken
  BY <1>4, <1>5, <1>7
<1>9. \A v \in Waiters : waiters'[v].pc = "open" <=> waiters[v].pc = "open"
  BY <1>1, <1>3, <1>4 DEF old
<1>10. SemTypeOK'
  BY <1>1, <1>4 DEF SemIInv, SemTypeOK, WaiterRecord
<1>11. ClocksBehind'
  BY <1>1, <1>8, <1>9 DEF SemIInv, ClocksBehind
<1> QED  BY <1>1, <1>8, <1>10, <1>11 DEF SemIInv

LEMMA SemOtherStep == ASSUME SemIInv, PosterOpen \/ SemKill PROVE SemIInv'
<1>0. waiters \in [Waiters -> WaiterRecord]
  BY SemTypes DEF SemIInv
<1>1. /\ UNCHANGED <<semNamed, semMade, semValue, posts, before>>
      /\ posterPc' \in {"open", "post", "exit"}
      /\ \/ UNCHANGED waiters
         \/ \E w \in Waiters, pc \in {"exit", "lost"} :
               /\ waiters[w].pc = IF pc = "exit" THEN "wait" ELSE "tick"
               /\ waiters' = [waiters EXCEPT ![w].pc = pc]
  BY DEF PosterOpen, SemKill, SemIInv, SemTypeOK
<1>2. /\ waiters' \in [Waiters -> WaiterRecord] /\ Taken' = Taken
      /\ \A v \in Waiters : waiters'[v].pc = "open" <=> waiters[v].pc = "open"
  <2>1. CASE UNCHANGED waiters
    BY <1>0, <2>1 DEF Taken, Ticks
  <2>2. ASSUME NEW w \in Waiters, NEW pc \in {"exit", "lost"},
               waiters[w].pc = IF pc = "exit" THEN "wait" ELSE "tick",
               waiters' = [waiters EXCEPT ![w].pc = pc]
        PROVE  /\ waiters' \in [Waiters -> WaiterRecord] /\ Taken' = Taken
               /\ \A v \in Waiters : waiters'[v].pc = "open" <=> waiters[v].pc = "open"
    <3>1. /\ waiters' \in [Waiters -> WaiterRecord] /\ Taken' = Taken
          /\ \A v \in Waiters : waiters'[v].pc = IF v = w THEN pc ELSE waiters[v].pc
      BY <1>0, <2>2, WaiterMoves
    <3> QED  BY <2>2, <3>1
  <2> QED  BY <1>1, <2>1, <2>2
<1>3. SemTypeOK'
  BY <1>1, <1>2 DEF SemIInv, SemTypeOK, WaiterRecord
<1>4. ClocksBehind'
  BY <1>1, <1>2 DEF SemIInv, ClocksBehind
<1> QED  BY <1>1, <1>2, <1>3, <1>4 DEF SemIInv

LEMMA SemNextIInv == ASSUME SemIInv, [SemNext]_semVars PROVE SemIInv'
<1>1. CASE UNCHANGED semVars
  BY <1>1 DEF SemIInv, SemTypeOK, ClocksBehind, Taken, Ticks, semVars
<1> QED
  BY <1>1, SemWaiterOpen, SemPostStep, SemWaitStep, SemTickStep, SemOtherStep DEF SemNext

LEMMA SemInvClock == SemIInv => ClockFollowsPosts
<1> SUFFICES ASSUME SemIInv, NEW w \in Waiters, waiters[w].pc # "open"
             PROVE  Taken[w] <= (posts - before[w].posts) + before[w].value
  BY DEF SemIInv, ClockFollowsPosts
<1>1. /\ waiters \in [Waiters -> WaiterRecord] /\ semValue \in 0 .. SemValueMax
      /\ posts \in 0 .. MaxPosts
      /\ before \in [Waiters -> [posts : 0 .. MaxPosts, value : 0 .. SemValueMax]]
  BY SemTypes DEF SemIInv
<1>2. before[w] \in [posts : 0 .. MaxPosts, value : 0 .. SemValueMax]
  BY <1>1
<1>3. before[w].posts \in Int /\ before[w].value \in Int /\ Taken[w] \in Int
  BY <1>1, <1>2, TakenAre, SemNumbers
<1> QED  BY <1>1, <1>3, SemNumbers DEF SemIInv, ClocksBehind

-----------------------------------------------------------------------------
(* Messages that lie in sequences, one for every place: A is a function    *)
(* from the places to the sequences, a message has a sender and a number.  *)

Among(A, m) == \E p \in DOMAIN A : \E k \in DOMAIN A[p] : A[p][k] = m

Once(A) ==
    \A p, p2 \in DOMAIN A : \A k \in DOMAIN A[p], k2 \in DOMAIN A[p2] :
        A[p][k] = A[p2][k2] => p = p2 /\ k = k2

Ascending(A) ==
    \A p \in DOMAIN A : \A j, k \in DOMAIN A[p] :
        j < k /\ A[p][j][1] = A[p][k][1] => A[p][j][2] < A[p][k][2]

(* The messages of a sender at place r have smaller numbers than at q.     *)
Earlier(A, r, q) ==
    \A j \in DOMAIN A[r], k \in DOMAIN A[q] : A[r][j][1] = A[q][k][1] => A[r][j][2] < A[q][k][2]

LEMMA Appended ==
    ASSUME NEW T, NEW s \in Seq(T), NEW e \in T
    PROVE  /\ Append(s, e) \in Seq(T) /\ DOMAIN Append(s, e) = DOMAIN s \cup {Len(s) + 1}
           /\ Append(s, e)[Len(s) + 1] = e /\ Len(s) + 1 \notin DOMAIN s
           /\ \A k \in DOMAIN s : Append(s, e)[k] = s[k] /\ k < Len(s) + 1
           /\ Len(Append(s, e)) = Len(s) + 1
  OBVIOUS

LEMMA Tailed ==
    ASSUME NEW T, NEW s \in Seq(T), s # <<>>
    PROVE  /\ Tail(s) \in Seq(T) /\ 1 \in DOMAIN s /\ Head(s) = s[1]
           /\ Len(Tail(s)) = Len(s) - 1 /\ Len(s) >= 1
           /\ \A k \in DOMAIN Tail(s) : /\ k \in Int /\ k + 1 \in DOMAIN s /\ 1 < k + 1
                                        /\ Tail(s)[k] = s[k + 1]
           /\ \A k \in DOMAIN s :
                 k = 1 \/ (k - 1 \in DOMAIN Tail(s) /\ Tail(s)[k - 1] = s[k])
  OBVIOUS

(* B is A with m behind the last message of q.  Of the messages in A, none *)
(* is m, and those of the same sender have smaller numbers.                *)
PutAt(Places, S, A, B, q, m) ==
    /\ A \in [Places -> Seq(S \X Nat)] /\ Once(A) /\ Ascending(A)
    /\ q \in Places /\ m \in S \X Nat
    /\ \A n \in S \X Nat : Among(A, n) => n # m /\ (n[1] = m[1] => n[2] < m[2])
    /\ DOMAIN B = Places
    /\ \A p \in Places : B[p] = IF p = q THEN Append(A[p], m) ELSE A[p]

(* B is A with the first message of q behind the last one of r.            *)
MovedTo(Places, S, A, B, q, r) ==
    /\ A \in [Places -> Seq(S \X Nat)] /\ Once(A) /\ Ascending(A) /\ Earlier(A, r, q)
    /\ q \in Places /\ r \in Places /\ q # r /\ A[q] # <<>>
    /\ DOMAIN B = Places
    /\ \A p \in Places : B[p] = IF p = q THEN Tail(A[p])
                                ELSE IF p = r THEN Append(A[p], Head(A[q])) ELSE A[p]

(* A new message with the largest number of its sender is put last.        *)
LEMMA PutLast ==
    ASSUME NEW Places, NEW S, NEW A, NEW B, NEW q, NEW m, PutAt(Places, S, A, B, q, m)
    PROVE  /\ Once(B) /\ Ascending(B)
           /\ \A n : Among(B, n) <=> Among(A, n) \/ n = m
           /\ \A r, p \in Places : r # q /\ Earlier(A, r, p) => Earlier(B, r, p)
<1>0. /\ A \in [Places -> Seq(S \X Nat)] /\ Once(A) /\ Ascending(A)
      /\ q \in Places /\ m \in S \X Nat /\ DOMAIN B = Places
      /\ \A n \in S \X Nat : Among(A, n) => n # m /\ (n[1] = m[1] => n[2] < m[2])
      /\ \A p \in Places : B[p] = IF p = q THEN Append(A[p], m) ELSE A[p]
  BY DEF PutAt
<1> USE <1>0
<1> DEFINE last == Len(A[q]) + 1
<1>1. /\ \A p \in Places : A[p] \in Seq(S \X Nat) /\ DOMAIN A[p] = 1 .. Len(A[p])
                           /\ \A k \in DOMAIN A[p] : A[p][k] \in S \X Nat
      /\ DOMAIN A = Places /\ Len(A[q]) \in Nat
  OBVIOUS
<1>2. /\ DOMAIN B[q] = DOMAIN A[q] \cup {last} /\ B[q][last] = m /\ last \notin DOMAIN A[q]
      /\ \A k \in DOMAIN A[q] : B[q][k] = A[q][k] /\ k < last
  <2>1. B[q] = Append(A[q], m) /\ A[q] \in Seq(S \X Nat)
    OBVIOUS
  <2> QED  BY <2>1, Appended
<1>3. \A p \in Places \ {q} : B[p] = A[p]
  OBVIOUS
<1>4. ASSUME NEW p \in Places, NEW k \in DOMAIN B[p]
      PROVE  \/ p = q /\ k = last /\ B[p][k] = m
             \/ k \in DOMAIN A[p] /\ B[p][k] = A[p][k] /\ B[p][k] # m
  BY <1>1, <1>2, <1>3 DEF Among
<1>5. ASSUME NEW p \in Places, NEW k \in DOMAIN A[p]
      PROVE  k \in DOMAIN B[p] /\ B[p][k] = A[p][k]
  BY <1>2, <1>3
<1> HIDE DEF last
<1>6. Once(B)
  <2> SUFFICES ASSUME NEW p \in Places, NEW p2 \in Places, NEW k \in DOMAIN B[p],
                      NEW k2 \in DOMAIN B[p2], B[p][k] = B[p2][k2]
               PROVE  p = p2 /\ k = k2
    BY DEF Once
  <2>1. CASE B[p][k] = m
    <3>1. p = q /\ k = last
      BY <1>4, <2>1
    <3>2. p2 = q /\ k2 = last
      BY <1>4, <2>1
    <3> QED  BY <3>1, <3>2
  <2>2. CASE B[p][k] # m
    BY <1>1, <1>4, <2>2 DEF Once
  <2> QED  BY <2>1, <2>2
<1>7. \A p \in Places : \A k \in DOMAIN A[p] : A[p][k][1] = m[1] => A[p][k][2] < m[2]
  BY <1>1 DEF Among
<1>8. Ascending(B)
  <2> SUFFICES ASSUME NEW p \in Places, NEW j \in DOMAIN B[p], NEW k \in DOMAIN B[p],
                      j < k, B[p][j][1] = B[p][k][1]
               PROVE  B[p][j][2] < B[p][k][2]
    BY DEF Ascending
  <2>1. CASE p = q /\ k = last
    <3>1. j \in DOMAIN A[p] /\ B[p][j] = A[p][j]
      <4>1. ~(j = last)
        BY <1>1, <1>2, <2>1 DEF last
      <4> QED  BY <1>4, <4>1
    <3> QED  BY <1>2, <1>7, <2>1, <3>1
  <2>2. CASE p = q /\ j = last
    <3>1. k \in DOMAIN A[p] \/ k = last
      BY <1>2, <2>2
    <3> QED  BY <1>1, <1>2, <2>2, <3>1 DEF last
  <2>3. CASE ~(p = q /\ k = last) /\ ~(p = q /\ j = last)
    BY <1>1, <1>4, <2>3 DEF Ascending
  <2> QED  BY <2>1, <2>2, <2>3
<1>9. ASSUME NEW n PROVE Among(B, n) <=> Among(A, n) \/ n = m
  BY <1>1, <1>2, <1>4, <1>5 DEF Among
<1>10. ASSUME NEW r \in Places, NEW p \in Places, r # q, Earlier(A, r, p)
       PROVE  Earlier(B, r, p)
  <2> SUFFICES ASSUME NEW j \in DOMAIN B[r], NEW k \in DOMAIN B[p], B[r][j][1] = B[p][k][1]
               PROVE  B[r][j][2] < B[p][k][2]
    BY DEF Earlier
  <2>1. j \in DOMAIN A[r] /\ B[r][j] = A[r][j]
    BY <1>3, <1>10
  <2>2. CASE p = q /\ k = last
    BY <1>2, <1>7, <2>1, <2>2
  <2>3. CASE ~(p = q /\ k = last)
    BY <1>4, <1>10, <2>1, <2>3 DEF Earlier
  <2> QED  BY <2>2, <2>3
<1> QED  BY <1>6, <1>8, <1>9, <1>10

(* No message at p is of the sender of the first one at q.                 *)
Strange(A, q, p) == \A k \in DOMAIN A[p] : A[p][k][1] # A[q][1][1]

(* The first message of place q is moved behind the last one of place r.   *)
LEMMA Moved ==
    ASSUME NEW Places, NEW S, NEW A, NEW B, NEW q, NEW r, MovedTo(Places, S, A, B, q, r)
    PROVE  /\ Once(B) /\ Ascending(B) /\ Earlier(B, r, q)
           /\ \A n : Among(B, n) <=> Among(A, n)
           /\ \A o, p \in Places : o \notin {q, r} /\ p # r /\ Earlier(A, o, p) => Earlier(B, o, p)
           /\ \A p \in Places : p \notin {q, r} /\ Earlier(A, r, p) /\ Strange(A, q, p) =>
                 Earlier(B, r, p)
<1>0. /\ A \in [Places -> Seq(S \X Nat)] /\ Once(A) /\ Ascending(A) /\ Earlier(A, r, q)
      /\ q \in Places /\ r \in Places /\ q # r /\ A[q] # <<>> /\ DOMAIN B = Places
      /\ \A p \in Places : B[p] = IF p = q THEN Tail(A[p])
                                  ELSE IF p = r THEN Append(A[p], Head(A[q])) ELSE A[p]
  BY DEF MovedTo
<1> USE <1>0
<1> DEFINE last == Len(A[r]) + 1  m == A[q][1]
<1>1. /\ \A p \in Places : A[p] \in Seq(S \X Nat) /\ DOMAIN A[p] = 1 .. Len(A[p])
                           /\ \A k \in DOMAIN A[p] : A[p][k] \in S \X Nat
      /\ DOMAIN A = Places /\ Len(A[q]) \in Nat /\ Len(A[r]) \in Nat
  OBVIOUS
<1>2. /\ DOMAIN B[r] = DOMAIN A[r] \cup {last} /\ B[r][last] = m /\ last \notin DOMAIN A[r]
      /\ \A k \in DOMAIN A[r] : B[r][k] = A[r][k] /\ k < last
  <2>1. B[r] = Append(A[r], Head(A[q])) /\ Head(A[q]) = m
    BY <1>1
  <2> QED  BY <1>1, <2>1
<1>3. \A p \in Places \ {q, r} : B[p] = A[p]
  OBVIOUS
<1>4. /\ 1 \in DOMAIN A[q]
      /\ \A k \in DOMAIN B[q] : k \in Int /\ k + 1 \in DOMAIN A[q] /\ B[q][k] = A[q][k + 1] /\ k + 1 # 1
      /\ \A k \in DOMAIN A[q] : k = 1 \/ (k - 1 \in DOMAIN B[q] /\ B[q][k - 1] = A[q][k])
  <2>1. B[q] = Tail(A[q]) /\ A[q] \in Seq(S \X Nat)
    OBVIOUS
  <2>2. \A k \in DOMAIN B[q] : k + 1 # 1
    <3>1. \A k \in DOMAIN Tail(A[q]) : k \in Int /\ 1 < k + 1
      BY <2>1, Tailed
    <3> QED  BY <2>1, <3>1
  <2> QED  BY <2>1, <2>2, Tailed
<1>a. \A p, p2 \in Places : \A k \in DOMAIN A[p], k2 \in DOMAIN A[p2] :
         A[p][k] = A[p2][k2] => p = p2 /\ k = k2
  BY <1>1 DEF Once
<1>b. \A p \in Places : \A j, k \in DOMAIN A[p] :
         j < k /\ A[p][j][1] = A[p][k][1] => A[p][j][2] < A[p][k][2]
  BY <1>1 DEF Ascending
<1> HIDE DEF last
<1>5. ASSUME NEW p \in Places, NEW k \in DOMAIN B[p], p # q
      PROVE  \/ p = r /\ k = last /\ B[p][k] = m
             \/ k \in DOMAIN A[p] /\ B[p][k] = A[p][k]
  BY <1>2, <1>3, <1>5
<1>6. Earlier(B, r, q)
  <2> SUFFICES ASSUME NEW j \in DOMAIN B[r], NEW k \in DOMAIN B[q], B[r][j][1] = B[q][k][1]
               PROVE  B[r][j][2] < B[q][k][2]
    BY DEF Earlier
  <2>1. k \in Int /\ k + 1 \in DOMAIN A[q] /\ B[q][k] = A[q][k + 1] /\ 1 < k + 1
    BY <1>1, <1>4
  <2>2. CASE j = last
    <3>1. B[r][j] = A[q][1] /\ 1 \in DOMAIN A[q]
      BY <1>2, <1>4, <2>2
    <3> QED  BY <1>b, <2>1, <3>1
  <2>3. CASE j # last
    BY <1>2, <2>1, <2>3 DEF Earlier
  <2> QED  BY <2>2, <2>3
<1>7. Ascending(B)
  <2> SUFFICES ASSUME NEW p \in Places, NEW j \in DOMAIN B[p], NEW k \in DOMAIN B[p],
                      j < k, B[p][j][1] = B[p][k][1]
               PROVE  B[p][j][2] < B[p][k][2]
    BY DEF Ascending
  <2>1. CASE p = q
    <3>1. /\ j \in Int /\ j + 1 \in DOMAIN A[q] /\ B[q][j] = A[q][j + 1]
          /\ k \in Int /\ k + 1 \in DOMAIN A[q] /\ B[q][k] = A[q][k + 1]
      BY <1>4, <2>1
    <3>2. j + 1 < k + 1
      BY <3>1
    <3> QED  BY <1>1, <2>1, <3>1, <3>2 DEF Ascending
  <2>2. CASE p = r /\ k = last
    <3>1. j \in DOMAIN A[r]
      BY <1>1, <1>2, <2>2 DEF last
    <3>2. B[r][j] = A[r][j] /\ B[r][k] = A[q][1]
      BY <1>2, <2>2, <3>1
    <3> QED  BY <1>4, <2>2, <3>1, <3>2 DEF Earlier
  <2>3. CASE p = r /\ k # last
    <3>1. k \in DOMAIN A[r] /\ B[r][k] = A[r][k] /\ k < last
      BY <1>2, <2>3
    <3>2. j \in DOMAIN A[r] /\ B[r][j] = A[r][j]
      <4>1. k \in Int /\ last \in Int /\ j \in DOMAIN A[r] \cup {last}
        <5>1. j \in DOMAIN B[r] /\ k \in DOMAIN A[r]
          BY <2>3, <3>1
        <5>2. Len(A[r]) \in Int /\ DOMAIN A[r] = 1 .. Len(A[r])
          BY <1>1
        <5> QED  BY <1>2, <5>1, <5>2 DEF last
      <4>2. j # last
        BY <2>3, <3>1, <4>1
      <4> QED  BY <1>2, <4>1, <4>2
    <3> QED  BY <1>1, <2>3, <3>1, <3>2 DEF Ascending
  <2>4. CASE p \notin {q, r}
    BY <1>1, <1>3, <2>4 DEF Ascending
  <2> QED  BY <2>1, <2>2, <2>3, <2>4
<1>8. ASSUME NEW n PROVE Among(B, n) <=> Among(A, n)
  <2>1. ASSUME NEW p \in Places, NEW k \in DOMAIN B[p] PROVE Among(A, B[p][k])
    <3>1. CASE p = q
      <4>1. k + 1 \in DOMAIN A[q] /\ B[p][k] = A[q][k + 1]
        BY <1>4, <3>1
      <4> QED  BY <1>1, <4>1 DEF Among
    <3>2. CASE p # q
      <4>1. CASE B[p][k] = m
        BY <1>1, <1>4, <4>1 DEF Among
      <4>2. CASE k \in DOMAIN A[p] /\ B[p][k] = A[p][k]
        BY <1>1, <4>2 DEF Among
      <4> QED  BY <1>5, <3>2, <4>1, <4>2
    <3> QED  BY <3>1, <3>2
  <2>2. ASSUME NEW p \in Places, NEW k \in DOMAIN A[p] PROVE Among(B, A[p][k])
    <3>1. CASE p = q /\ k = 1
      BY <1>2, <3>1 DEF Among
    <3>2. CASE p = q /\ k # 1
      BY <1>4, <3>2 DEF Among
    <3>3. CASE p # q
      BY <1>2, <1>3, <3>3 DEF Among
    <3> QED  BY <3>1, <3>2, <3>3
  <2> QED  BY <1>1, <2>1, <2>2 DEF Among
<1>9. Once(B)
  <2> SUFFICES ASSUME NEW p \in Places, NEW p2 \in Places, NEW k \in DOMAIN B[p],
                      NEW k2 \in DOMAIN B[p2], B[p][k] = B[p2][k2]
               PROVE  p = p2 /\ k = k2
    BY DEF Once
  <2>1. ASSUME NEW i \in DOMAIN B[q] PROVE B[q][i] # m
    BY <1>4, <1>a, <2>1
  <2>2. CASE p = q /\ p2 = q
    <3>1. k + 1 \in DOMAIN A[q] /\ k2 + 1 \in DOMAIN A[q] /\ A[q][k + 1] = A[q][k2 + 1]
          /\ k \in Int /\ k2 \in Int
      BY <1>4, <2>2
    <3>2. k + 1 = k2 + 1
      BY <1>a, <3>1
    <3> QED  BY <2>2, <3>1, <3>2
  <2>3. ASSUME NEW o \in Places, NEW i \in DOMAIN B[q], NEW l \in DOMAIN B[o], o # q
        PROVE  B[q][i] # B[o][l]
    <3>1. i + 1 \in DOMAIN A[q] /\ B[q][i] = A[q][i + 1]
      BY <1>4
    <3>2. CASE B[o][l] = m
      BY <2>1, <3>2
    <3>3. CASE l \in DOMAIN A[o] /\ B[o][l] = A[o][l]
      BY <1>a, <2>3, <3>1, <3>3
    <3> QED  BY <1>5, <2>3, <3>2, <3>3
  <2>4. CASE p # q /\ p2 # q
    <3>1. ASSUME NEW o \in Places, NEW i \in DOMAIN A[o], o # q PROVE A[o][i] # m
      BY <1>4, <1>a, <3>1
    <3>2. \/ p = r /\ k = last /\ B[p][k] = m
          \/ k \in DOMAIN A[p] /\ B[p][k] = A[p][k]
      BY <1>5, <2>4
    <3>3. \/ p2 = r /\ k2 = last /\ B[p2][k2] = m
          \/ k2 \in DOMAIN A[p2] /\ B[p2][k2] = A[p2][k2]
      BY <1>5, <2>4
    <3> QED  BY <1>a, <2>4, <3>1, <3>2, <3>3
  <2> QED  BY <2>2, <2>3, <2>4
<1>10. ASSUME NEW o \in Places, NEW p \in Places, o \notin {q, r}, p # r, Earlier(A, o, p)
       PROVE  Earlier(B, o, p)
  <2>1. B[o] = A[o]
    BY <1>3, <1>10
  <2>2. CASE p = q
    <3>1. ASSUME NEW k \in DOMAIN B[q] PROVE k + 1 \in DOMAIN A[q] /\ B[q][k] = A[q][k + 1]
      BY <1>4
    <3> QED  BY <1>10, <2>1, <2>2, <3>1 DEF Earlier
  <2>3. CASE p # q
    BY <1>3, <1>10, <2>1, <2>3 DEF Earlier
  <2> QED  BY <2>2, <2>3
<1>11. ASSUME NEW p \in Places, p \notin {q, r}, Earlier(A, r, p), Strange(A, q, p)
       PROVE  Earlier(B, r, p)
  <2> SUFFICES ASSUME NEW j \in DOMAIN B[r], NEW k \in DOMAIN B[p], B[r][j][1] = B[p][k][1]
               PROVE  B[r][j][2] < B[p][k][2]
    BY DEF Earlier
  <2>1. B[p] = A[p] /\ k \in DOMAIN A[p]
    BY <1>3, <1>11
  <2>2. j # last
    BY <1>2, <1>11, <2>1 DEF Strange
  <2>3. j \in DOMAIN A[r] /\ B[r][j] = A[r][j]
    BY <1>2, <2>2
  <2> QED  BY <1>11, <2>1, <2>3 DEF Earlier
<1> QED  BY <1>6, <1>7, <1>8, <1>9, <1>10, <1>11

(* B is A with the messages of q at the empty place l.                     *)
MovedAll(Places, S, A, B, q, l) ==
    /\ A \in [Places -> Seq(S \X Nat)] /\ Once(A) /\ Ascending(A)
    /\ q \in Places /\ l \in Places /\ q # l /\ A[l] = <<>>
    /\ DOMAIN B = Places
    /\ \A p \in Places : B[p] = IF p = q THEN <<>> ELSE IF p = l THEN A[q] ELSE A[p]

LEMMA AllMoved ==
    ASSUME NEW Places, NEW S, NEW A, NEW B, NEW q, NEW l, MovedAll(Places, S, A, B, q, l)
    PROVE  /\ Once(B) /\ Ascending(B)
           /\ \A n : Among(B, n) <=> Among(A, n)
           /\ \A o \in Places : o \notin {q, l} =>
                 /\ Earlier(B, o, q) /\ (Earlier(A, o, q) => Earlier(B, o, l))
                 /\ \A p \in Places : p \notin {q, l} /\ Earlier(A, o, p) => Earlier(B, o, p)
<1>0. /\ DOMAIN A = Places /\ Once(A) /\ Ascending(A)
      /\ q \in Places /\ l \in Places /\ q # l /\ DOMAIN A[l] = {} /\ DOMAIN B = Places
      /\ DOMAIN B[q] = {} /\ B[l] = A[q]
      /\ \A p \in Places : p \notin {q, l} => B[p] = A[p]
  BY DEF MovedAll
<1> DEFINE From(p) == IF p = l THEN q ELSE p
<1>1. ASSUME NEW p \in Places, NEW k \in DOMAIN B[p]
      PROVE  /\ From(p) \in Places /\ k \in DOMAIN A[From(p)] /\ B[p][k] = A[From(p)][k]
             /\ p # q
  BY <1>0
<1>2. Once(B)
  <2> SUFFICES ASSUME NEW p \in Places, NEW p2 \in Places, NEW k \in DOMAIN B[p],
                      NEW k2 \in DOMAIN B[p2], B[p][k] = B[p2][k2]
               PROVE  p = p2 /\ k = k2
    BY <1>0 DEF Once
  <2>1. From(p) = From(p2) /\ k = k2
    <3> HIDE DEF From
    <3> QED  BY <1>0, <1>1 DEF Once
  <2> QED  BY <1>1, <2>1
<1>3. Ascending(B)
  <2> HIDE DEF From
  <2> QED  BY <1>0, <1>1 DEF Ascending
<1>4. ASSUME NEW n, Among(B, n) PROVE Among(A, n)
  <2>1. PICK p \in Places : \E k \in DOMAIN B[p] : B[p][k] = n
    BY <1>0, <1>4 DEF Among
  <2> HIDE DEF From
  <2> QED  BY <1>0, <1>1, <2>1 DEF Among
<1>5. ASSUME NEW n, Among(A, n) PROVE Among(B, n)
  <2>1. PICK p \in Places : \E k \in DOMAIN A[p] : A[p][k] = n
    BY <1>0, <1>5 DEF Among
  <2>2. CASE p = q
    BY <1>0, <2>1, <2>2 DEF Among
  <2>3. CASE p # q
    <3>1. B[p] = A[p]
      BY <1>0, <2>1, <2>3
    <3> QED  BY <1>0, <2>1, <3>1 DEF Among
  <2> QED  BY <2>2, <2>3
<1>6. ASSUME NEW o \in Places, o \notin {q, l}
      PROVE  /\ Earlier(B, o, q) /\ (Earlier(A, o, q) => Earlier(B, o, l))
             /\ \A p \in Places : p \notin {q, l} /\ Earlier(A, o, p) => Earlier(B, o, p)
  BY <1>0, <1>6 DEF Earlier
<1> QED  BY <1>2, <1>3, <1>4, <1>5, <1>6

-----------------------------------------------------------------------------
(* MessageQueues.  The places of the messages, for given queues and taken  *)
(* messages, so that they can be spoken of before and after a step.        *)

PlacesIn(mq) == ({"queue", "lost"} \X (1 .. Len(mq))) \cup ({"taken"} \X MqReceivers)

AtIn(mq, tk, p) ==
    CASE p[1] = "queue" -> mq[p[2]].msgs
      [] p[1] = "lost"  -> mq[p[2]].lost
      [] p[1] = "taken" -> tk[p[2]]

WhereIn(mq, tk) == [p \in PlacesIn(mq) |-> AtIn(mq, tk, p)]

QueuePlace(q) == <<"queue", q>>
LostPlace(q) == <<"lost", q>>
TakenPlace(r) == <<"taken", r>>

(* The messages that are somewhere are those the senders have counted, and *)
(* what a receiver has taken comes before what any queue holds, or held    *)
(* when it was destroyed.                                                  *)
Order(W, send, n) ==
    /\ \A s \in MqSenders, t \in 0 .. (MqLoops - 1) :
          t < send[s].times <=> Among(W, <<s, t>>)
    /\ Once(W) /\ Ascending(W)
    /\ \A r \in MqReceivers, q \in 1 .. n :
          /\ Earlier(W, TakenPlace(r), QueuePlace(q))
          /\ Earlier(W, TakenPlace(r), LostPlace(q))

MqOrder == Order(WhereIn(mqs, taken), mqSend, Len(mqs))

(* Messages lie in the one queue their sender opened; a queue with lost    *)
(* messages is nobody's.                                                   *)
Home(q) ==
    /\ mqs[q].lost # <<>> => q # mqName /\ ~Held(q, {}) /\ mqs[q].msgs = <<>>
    /\ \A k \in DOMAIN mqs[q].msgs : mqSend[mqs[q].msgs[k][1]].mq = q
    /\ \A k \in DOMAIN mqs[q].lost : mqSend[mqs[q].lost[k][1]].mq = q

MqHomes == \A q \in 1 .. Len(mqs) : Home(q)

(* How far a receiver has counted the messages it has taken.               *)
Counted(r) ==
    LET me == mqRecv[r]  n == Len(taken[r])  m == IF me.pc \in {"num", "len"} THEN n - 1 ELSE n
    IN /\ me.pc # "exit" =>
             /\ me.num = (IF me.pc = "num" THEN n - 1 ELSE n) /\ me.i = m
             /\ me.len = m * MsgSize /\ shownTotals[r] = <<>>
       /\ me.pc = "open" => n = 0 /\ me.mq = 0
       /\ me.pc \in {"num", "len"} => n >= 1 /\ n <= MqLoops
       /\ me.pc \in {"recv", "num", "len", "display"} => me.mq \in 1 .. Len(mqs)

Lag(r) ==
    shownTotals[r] # <<>> =>
        LET num == shownTotals[r][1]  len == shownTotals[r][2]  n == Len(taken[r])
        IN \/ num = n /\ len \in {n * MsgSize, (n - 1) * MsgSize}
           \/ num = n - 1 /\ len = num * MsgSize

MqCounts ==
    /\ \A s \in MqSenders : /\ mqSend[s].pc = "send" => mqSend[s].mq \in 1 .. Len(mqs)
                            /\ mqSend[s].pc = "open" => mqSend[s].times = 0
    /\ \A r \in MqReceivers : Counted(r) /\ Lag(r)

MqIInv == MqTypeOK /\ MqOrder /\ MqHomes /\ MqCounts

QueueRecord == [places : MaxMsgNums, msgs : Seq(MqMessages), lost : Seq(MqMessages)]
SendRecord(n) == [pc : {"open", "send", "exit"}, mq : 0 .. n, times : 0 .. MqLoops]
RecvRecord(n) == [pc : {"open", "recv", "num", "len", "display", "exit"}, mq : 0 .. n,
                  i : 0 .. MqLoops, num : 0 .. MqLoops, len : Nat]

LEMMA MqNumbers ==
    /\ MqLoops \in Nat /\ MsgSize \in Nat /\ MsgSize > 0 /\ MaxMsgNums \subseteq Nat
    /\ MqMessages \subseteq MqSenders \X Nat
  BY MqAssumption DEF MqMessages

LEMMA MqTypes ==
    MqTypeOK <=>
        /\ mqs \in Seq(QueueRecord) /\ mqName \in 0 .. Len(mqs)
        /\ \A q \in 1 .. Len(mqs) : Len(mqs[q].msgs) <= mqs[q].places
        /\ mqSend \in [MqSenders -> SendRecord(Len(mqs))]
        /\ mqRecv \in [MqReceivers -> RecvRecord(Len(mqs))]
        /\ shownTotals \in [MqReceivers -> {<<>>} \cup (Nat \X Nat)]
        /\ taken \in [MqReceivers -> Seq(MqMessages)]
  BY DEF MqTypeOK, QueueRecord, SendRecord, RecvRecord

LEMMA MqTyped ==
    ASSUME MqIInv
    PROVE  /\ mqs \in Seq(QueueRecord) /\ Len(mqs) \in Nat /\ mqName \in 0 .. Len(mqs)
           /\ mqSend \in [MqSenders -> SendRecord(Len(mqs))]
           /\ mqRecv \in [MqReceivers -> RecvRecord(Len(mqs))]
           /\ shownTotals \in [MqReceivers -> {<<>>} \cup (Nat \X Nat)]
           /\ taken \in [MqReceivers -> Seq(MqMessages)]
           /\ \A q \in 1 .. Len(mqs) :
                 /\ mqs[q] \in QueueRecord /\ mqs[q].msgs \in Seq(MqMessages)
                 /\ mqs[q].lost \in Seq(MqMessages) /\ mqs[q].places \in Nat
                 /\ Len(mqs[q].msgs) <= mqs[q].places
<1>1. /\ mqs \in Seq(QueueRecord) /\ mqName \in 0 .. Len(mqs)
      /\ \A q \in 1 .. Len(mqs) : Len(mqs[q].msgs) <= mqs[q].places
      /\ mqSend \in [MqSenders -> SendRecord(Len(mqs))]
      /\ mqRecv \in [MqReceivers -> RecvRecord(Len(mqs))]
      /\ shownTotals \in [MqReceivers -> {<<>>} \cup (Nat \X Nat)]
      /\ taken \in [MqReceivers -> Seq(MqMessages)]
  BY MqTypes DEF MqIInv
<1>2. Len(mqs) \in Nat /\ \A q \in 1 .. Len(mqs) : mqs[q] \in QueueRecord
  BY <1>1
<1>3. \A q \in 1 .. Len(mqs) : /\ mqs[q].msgs \in Seq(MqMessages)
                               /\ mqs[q].lost \in Seq(MqMessages) /\ mqs[q].places \in Nat
  BY <1>2, MqNumbers DEF QueueRecord
<1> QED  BY <1>1, <1>2, <1>3

LEMMA PlacesDiffer ==
    ASSUME NEW a, NEW b
    PROVE  /\ QueuePlace(a) # LostPlace(b) /\ QueuePlace(a) # TakenPlace(b)
           /\ LostPlace(a) # TakenPlace(b)
           /\ QueuePlace(a) = QueuePlace(b) => a = b
           /\ LostPlace(a) = LostPlace(b) => a = b
           /\ TakenPlace(a) = TakenPlace(b) => a = b
  BY DEF QueuePlace, LostPlace, TakenPlace

LEMMA WhereIs ==
    ASSUME NEW mq \in Seq(QueueRecord), NEW tk \in [MqReceivers -> Seq(MqMessages)]
    PROVE  /\ DOMAIN WhereIn(mq, tk) = PlacesIn(mq)
           /\ WhereIn(mq, tk) \in [PlacesIn(mq) -> Seq(MqSenders \X Nat)]
           /\ \A q \in 1 .. Len(mq) :
                 /\ QueuePlace(q) \in PlacesIn(mq) /\ WhereIn(mq, tk)[QueuePlace(q)] = mq[q].msgs
                 /\ LostPlace(q) \in PlacesIn(mq) /\ WhereIn(mq, tk)[LostPlace(q)] = mq[q].lost
           /\ \A r \in MqReceivers :
                 TakenPlace(r) \in PlacesIn(mq) /\ WhereIn(mq, tk)[TakenPlace(r)] = tk[r]
           /\ \A p \in PlacesIn(mq) :
                 \/ \E q \in 1 .. Len(mq) : p = QueuePlace(q) \/ p = LostPlace(q)
                 \/ \E r \in MqReceivers : p = TakenPlace(r)
           /\ \A n : Among(WhereIn(mq, tk), n) => n \in MqMessages
<1> DEFINE W == WhereIn(mq, tk)
<1>1. \A q \in 1 .. Len(mq) :
         /\ QueuePlace(q) \in PlacesIn(mq) /\ W[QueuePlace(q)] = mq[q].msgs
         /\ LostPlace(q) \in PlacesIn(mq) /\ W[LostPlace(q)] = mq[q].lost
  BY DEF PlacesIn, WhereIn, AtIn, QueuePlace, LostPlace
<1>2. \A r \in MqReceivers : TakenPlace(r) \in PlacesIn(mq) /\ W[TakenPlace(r)] = tk[r]
  BY DEF PlacesIn, WhereIn, AtIn, TakenPlace
<1>3. \A p \in PlacesIn(mq) :
         \/ \E q \in 1 .. Len(mq) : p = QueuePlace(q) \/ p = LostPlace(q)
         \/ \E r \in MqReceivers : p = TakenPlace(r)
  BY DEF PlacesIn, QueuePlace, LostPlace, TakenPlace
<1>4. DOMAIN W = PlacesIn(mq) /\ W = [p \in PlacesIn(mq) |-> W[p]]
  BY DEF WhereIn
<1> HIDE DEF W
<1>5. ASSUME NEW p \in PlacesIn(mq) PROVE W[p] \in Seq(MqMessages)
  <2>1. ASSUME NEW q \in 1 .. Len(mq)
        PROVE  mq[q].msgs \in Seq(MqMessages) /\ mq[q].lost \in Seq(MqMessages)
    <3>1. mq[q] \in QueueRecord
      OBVIOUS
    <3> QED  BY <3>1 DEF QueueRecord
  <2> QED  BY <1>1, <1>2, <1>3, <2>1
<1>6. Seq(MqMessages) \subseteq Seq(MqSenders \X Nat)
  BY MqNumbers
<1>7. W \in [PlacesIn(mq) -> Seq(MqSenders \X Nat)]
  BY <1>4, <1>5, <1>6
<1>8. ASSUME NEW n, Among(W, n) PROVE n \in MqMessages
  <2>1. PICK p \in PlacesIn(mq) : \E k \in DOMAIN W[p] : W[p][k] = n
    BY <1>4, <1>8 DEF Among
  <2>2. W[p] \in Seq(MqMessages)
    BY <1>5
  <2> QED  BY <2>1, <2>2
<1> QED  BY <1>1, <1>2, <1>3, <1>4, <1>7, <1>8 DEF W

LEMMA MqInitIInv == MqInit => MqIInv
<1> SUFFICES ASSUME MqInit PROVE MqIInv
  OBVIOUS
<1> USE MqNumbers DEF MqInit
<1>1. Len(mqs) = 0 /\ mqs \in Seq(QueueRecord) /\ 0 \in 0 .. MqLoops
  OBVIOUS
<1>2. /\ taken \in [MqReceivers -> Seq(MqMessages)]
      /\ shownTotals \in [MqReceivers -> {<<>>} \cup (Nat \X Nat)]
  OBVIOUS
<1>3. MqTypeOK
  <2>1. mqSend \in [MqSenders -> SendRecord(Len(mqs))]
    <3>1. [pc |-> "open", mq |-> 0, times |-> 0] \in SendRecord(Len(mqs))
      <4>1. 0 \in 0 .. Len(mqs)
        BY <1>1
      <4> QED  BY <1>1, <4>1, Zenon DEF SendRecord
    <3> QED  BY <3>1
  <2>2. mqRecv \in [MqReceivers -> RecvRecord(Len(mqs))]
    BY <1>1 DEF RecvRecord
  <2> QED  BY <1>1, <1>2, <2>1, <2>2, MqTypes
<1> DEFINE W == WhereIn(mqs, taken)
<1>4. \A p \in DOMAIN W : DOMAIN W[p] = {}
  <2>1. \A r \in MqReceivers : DOMAIN taken[r] = {}
    OBVIOUS
  <2>2. /\ DOMAIN W = PlacesIn(mqs) /\ \A r \in MqReceivers : W[TakenPlace(r)] = taken[r]
        /\ \A p \in PlacesIn(mqs) :
              \/ \E q \in 1 .. Len(mqs) : p = QueuePlace(q) \/ p = LostPlace(q)
              \/ \E r \in MqReceivers : p = TakenPlace(r)
    BY <1>1, <1>2, WhereIs
  <2>3. 1 .. Len(mqs) = {}
    BY <1>1
  <2> HIDE DEF W, MqInit
  <2> QED  BY <2>1, <2>2, <2>3
<1> HIDE DEF W
<1>5. /\ \A n : ~Among(W, n)
      /\ Once(W) /\ Ascending(W)
  BY <1>4 DEF Among, Once, Ascending
<1>6. MqOrder
  <2>1. \A s \in MqSenders, t \in 0 .. (MqLoops - 1) : ~(t < mqSend[s].times)
    OBVIOUS
  <2> QED  BY <1>1, <1>5, <2>1 DEF MqOrder, Order, W
<1>7. MqCounts
  <2>1. ASSUME NEW r \in MqReceivers PROVE Counted(r) /\ Lag(r)
    BY DEF Counted, Lag
  <2> QED  BY <2>1 DEF MqCounts
<1>8. MqHomes
  BY <1>1 DEF MqHomes
<1> QED  BY <1>3, <1>6, <1>7, <1>8 DEF MqIInv

(* Nothing that a sender who has counted no message wrote lies anywhere.   *)
LEMMA NoneOf ==
    ASSUME MqIInv, NEW s \in MqSenders, mqSend[s].times = 0, NEW q \in 1 .. Len(mqs)
    PROVE  /\ \A k \in DOMAIN mqs[q].msgs : mqs[q].msgs[k][1] # s
           /\ \A k \in DOMAIN mqs[q].lost : mqs[q].lost[k][1] # s
<1> DEFINE W == WhereIn(mqs, taken)
<1>1. \A t \in 0 .. (MqLoops - 1) : ~Among(W, <<s, t>>)
  BY MqNumbers DEF MqIInv, MqOrder, Order
<1>2. \A n : Among(W, n) => n \in MqMessages
  BY MqTyped, WhereIs
<1>3. ASSUME NEW n, Among(W, n) PROVE n[1] # s
  <2>1. n \in MqMessages
    BY <1>2, <1>3
  <2>2. n = <<n[1], n[2]>> /\ n[2] \in 0 .. (MqLoops - 1)
    BY <2>1 DEF MqMessages
  <2> QED  BY <1>1, <1>3, <2>2
<1>4. /\ DOMAIN W = PlacesIn(mqs)
      /\ QueuePlace(q) \in PlacesIn(mqs) /\ W[QueuePlace(q)] = mqs[q].msgs
      /\ LostPlace(q) \in PlacesIn(mqs) /\ W[LostPlace(q)] = mqs[q].lost
  BY MqTyped, WhereIs
<1> HIDE DEF W
<1>5. /\ \A k \in DOMAIN mqs[q].msgs : Among(W, mqs[q].msgs[k])
      /\ \A k \in DOMAIN mqs[q].lost : Among(W, mqs[q].lost[k])
  BY <1>4 DEF Among
<1> QED  BY <1>3, <1>5

(* A queue that is made adds two empty places.                             *)
LEMMA OrderMore ==
    ASSUME NEW mq \in Seq(QueueRecord), NEW new \in QueueRecord, NEW send,
           NEW tk \in [MqReceivers -> Seq(MqMessages)], new.msgs = <<>>, new.lost = <<>>,
           Order(WhereIn(mq, tk), send, Len(mq))
    PROVE  Order(WhereIn(Append(mq, new), tk), send, Len(Append(mq, new)))
<1> DEFINE A == WhereIn(mq, tk)  mq2 == Append(mq, new)  B == WhereIn(mq2, tk)  n == Len(mq) + 1
<1>1. /\ mq2 \in Seq(QueueRecord) /\ Len(mq2) = n /\ mq2[n] = new
      /\ \A q \in 1 .. Len(mq) : mq2[q] = mq[q]
      /\ 1 .. n = (1 .. Len(mq)) \cup {n}
  OBVIOUS
<1>2. /\ DOMAIN A = PlacesIn(mq)
      /\ \A q \in 1 .. Len(mq) :
            /\ QueuePlace(q) \in PlacesIn(mq) /\ A[QueuePlace(q)] = mq[q].msgs
            /\ LostPlace(q) \in PlacesIn(mq) /\ A[LostPlace(q)] = mq[q].lost
      /\ \A r \in MqReceivers : TakenPlace(r) \in PlacesIn(mq) /\ A[TakenPlace(r)] = tk[r]
      /\ \A p \in PlacesIn(mq) :
            \/ \E q \in 1 .. Len(mq) : p = QueuePlace(q) \/ p = LostPlace(q)
            \/ \E r \in MqReceivers : p = TakenPlace(r)
  BY WhereIs
<1> HIDE DEF mq2
<1>3. /\ DOMAIN B = PlacesIn(mq2)
      /\ \A q \in 1 .. Len(mq2) :
            /\ QueuePlace(q) \in PlacesIn(mq2) /\ B[QueuePlace(q)] = mq2[q].msgs
            /\ LostPlace(q) \in PlacesIn(mq2) /\ B[LostPlace(q)] = mq2[q].lost
      /\ \A r \in MqReceivers : TakenPlace(r) \in PlacesIn(mq2) /\ B[TakenPlace(r)] = tk[r]
      /\ \A p \in PlacesIn(mq2) :
            \/ \E q \in 1 .. Len(mq2) : p = QueuePlace(q) \/ p = LostPlace(q)
            \/ \E r \in MqReceivers : p = TakenPlace(r)
  BY <1>1, WhereIs
<1> HIDE DEF A, B, n
<1>4. ASSUME NEW p \in PlacesIn(mq) PROVE p \in PlacesIn(mq2) /\ B[p] = A[p]
  <2>1. ASSUME NEW q \in 1 .. Len(mq), p = QueuePlace(q) \/ p = LostPlace(q)
        PROVE  p \in PlacesIn(mq2) /\ B[p] = A[p]
    <3>1. q \in 1 .. Len(mq2) /\ mq2[q] = mq[q]
      BY <1>1
    <3>2. /\ QueuePlace(q) \in PlacesIn(mq2) /\ B[QueuePlace(q)] = mq[q].msgs
          /\ LostPlace(q) \in PlacesIn(mq2) /\ B[LostPlace(q)] = mq[q].lost
      BY <1>3, <3>1, Zenon
    <3>3. A[QueuePlace(q)] = mq[q].msgs /\ A[LostPlace(q)] = mq[q].lost
      BY <1>2, Zenon
    <3> QED  BY <2>1, <3>2, <3>3, Zenon
  <2>2. ASSUME NEW r \in MqReceivers, p = TakenPlace(r)
        PROVE  p \in PlacesIn(mq2) /\ B[p] = A[p]
    BY <1>2, <1>3, <2>2, Zenon
  <2> QED  BY <1>2, <2>1, <2>2
<1>5. \A p \in PlacesIn(mq2) : p \in PlacesIn(mq) \/ B[p] = <<>>
  BY <1>1, <1>2, <1>3
<1>6. /\ \A p \in DOMAIN A : p \in DOMAIN B /\ B[p] = A[p]
      /\ \A p \in DOMAIN B : p \in DOMAIN A \/ DOMAIN B[p] = {}
  BY <1>2, <1>3, <1>4, <1>5
<1>7. \A m : Among(B, m) <=> Among(A, m)
  BY <1>6 DEF Among
<1>8. Once(B) /\ Ascending(B)
  BY <1>6 DEF Order, A, Once, Ascending
<1>9. ASSUME NEW r \in MqReceivers, NEW q \in 1 .. Len(mq2)
      PROVE  Earlier(B, TakenPlace(r), QueuePlace(q)) /\ Earlier(B, TakenPlace(r), LostPlace(q))
  <2>1. CASE q = n
    <3>1. B[QueuePlace(q)] = <<>> /\ B[LostPlace(q)] = <<>>
      BY <1>1, <1>3, <2>1
    <3> QED  BY <3>1 DEF Earlier
  <2>2. CASE q \in 1 .. Len(mq)
    <3>1. /\ B[QueuePlace(q)] = A[QueuePlace(q)] /\ B[LostPlace(q)] = A[LostPlace(q)]
          /\ B[TakenPlace(r)] = A[TakenPlace(r)]
      BY <1>2, <1>4, <2>2
    <3>2. Earlier(A, TakenPlace(r), QueuePlace(q)) /\ Earlier(A, TakenPlace(r), LostPlace(q))
      BY <2>2 DEF Order, A
    <3> QED  BY <3>1, <3>2 DEF Earlier
  <2> QED  BY <1>1, <2>1, <2>2
<1>10. \A s \in MqSenders, t \in 0 .. (MqLoops - 1) : t < send[s].times <=> Among(B, <<s, t>>)
  BY <1>7 DEF Order, A
<1> QED  BY <1>8, <1>9, <1>10 DEF Order, B, mq2

LEMMA MqUnchanged == ASSUME MqIInv, UNCHANGED mqVars PROVE MqIInv'
<1>1. UNCHANGED <<mqName, mqs, mqSend, mqRecv, shownTotals, taken>>
  BY DEF mqVars
<1>2. MqTypeOK'
  BY <1>1 DEF MqIInv, MqTypeOK
<1>3. MqOrder'
  BY <1>1 DEF MqIInv, MqOrder
<1>4. MqCounts'
  BY <1>1 DEF MqIInv, MqCounts, Counted, Lag
<1>5. MqHomes'
  BY <1>1 DEF MqIInv, MqHomes, Home, Held, Sending, Receiving
<1> QED  BY <1>2, <1>3, <1>4, <1>5 DEF MqIInv

LEMMA MqCreate == ASSUME MqIInv, CreateMsgQueue PROVE MqIInv'
<1> USE MqNumbers, MqTyped
<1>1. UNCHANGED <<mqSend, mqRecv, shownTotals, taken>>
  BY DEF CreateMsgQueue
<1>2. CASE UNCHANGED <<mqs, mqName>>
  BY <1>1, <1>2, MqUnchanged DEF mqVars
<1>3. CASE mqName = 0
  <2>1. PICK n \in MaxMsgNums :
           mqs' = Append(mqs, [places |-> n, msgs |-> <<>>, lost |-> <<>>])
    BY <1>3 DEF CreateMsgQueue
  <2> DEFINE new == [places |-> n, msgs |-> <<>>, lost |-> <<>>]
  <2>2. new \in QueueRecord /\ new.places = n /\ new.msgs = <<>> /\ new.lost = <<>>
    <3>1. <<>> \in Seq(MqMessages)
      OBVIOUS
    <3> QED  BY <3>1 DEF QueueRecord
  <2> HIDE DEF new
  <2>3. mqs' = Append(mqs, new)
    BY <2>1 DEF new
  <2>4. /\ mqs' \in Seq(QueueRecord) /\ Len(mqs') = Len(mqs) + 1 /\ mqs'[Len(mqs) + 1] = new
        /\ \A q \in 1 .. Len(mqs) : mqs'[q] = mqs[q]
        /\ 1 .. Len(mqs') = (1 .. Len(mqs)) \cup {Len(mqs) + 1}
    BY <2>2, <2>3
  <2>5. mqName' = Len(mqs) + 1
    BY <1>3, <2>4 DEF CreateMsgQueue
  <2>6. MqTypeOK'
    <3>1. mqSend' \in [MqSenders -> SendRecord(Len(mqs'))]
      BY <1>1, <2>4 DEF SendRecord
    <3>2. mqRecv' \in [MqReceivers -> RecvRecord(Len(mqs'))]
      BY <1>1, <2>4 DEF RecvRecord
    <3>3. mqName' \in 0 .. Len(mqs')
      BY <2>4, <2>5
    <3>4. \A q \in 1 .. Len(mqs') : Len(mqs'[q].msgs) <= mqs'[q].places
      <4>1. Len(new.msgs) <= new.places
        BY <2>2
      <4> QED  BY <2>4, <4>1
    <3> QED  BY <1>1, <2>4, <3>1, <3>2, <3>3, <3>4
             DEF MqTypeOK, QueueRecord, SendRecord, RecvRecord
  <2>7. MqOrder'
    <3>1. Order(WhereIn(mqs', taken), mqSend, Len(mqs'))
      BY <2>2, <2>3, OrderMore DEF MqIInv, MqOrder
    <3> QED  BY <1>1, <3>1 DEF MqOrder
  <2>8. MqHomes'
    <3> SUFFICES ASSUME NEW q \in 1 .. Len(mqs') PROVE Home(q)'
      BY DEF MqHomes
    <3>1. CASE q = Len(mqs) + 1
      BY <2>2, <2>4, <3>1 DEF Home
    <3>2. CASE q \in 1 .. Len(mqs)
      <4>1. Home(q) /\ q # mqName'
        BY <2>5, <3>2 DEF MqIInv, MqHomes
      <4> QED  BY <1>1, <2>4, <3>2, <4>1 DEF Home, Held, Sending, Receiving
    <3> QED  BY <2>4, <3>1, <3>2
  <2>9. MqCounts'
    BY <1>1, <2>4 DEF MqIInv, MqCounts, Counted, Lag
  <2> QED  BY <2>6, <2>7, <2>8, <2>9 DEF MqIInv
<1> QED  BY <1>2, <1>3 DEF CreateMsgQueue

(* A sender opens the queue that has the name.                             *)
LEMMA MqSendOpen == ASSUME MqIInv, NEW s \in MqSenders, SendOpen(s) PROVE MqIInv'
<1> USE MqNumbers, MqTyped
<1> DEFINE pc == IF mqName = 0 THEN "exit" ELSE "send"  old == mqSend[s]
           o1 == [old EXCEPT !.pc = pc]  new == [o1 EXCEPT !.mq = mqName]
<1>1. /\ old.pc = "open" /\ mqSend' = [mqSend EXCEPT ![s] = new]
      /\ UNCHANGED <<mqName, mqs, mqRecv, shownTotals, taken>>
  BY DEF SendOpen
<1>2. old \in SendRecord(Len(mqs)) /\ old.times = 0
  BY <1>1 DEF MqIInv, MqCounts
<1>3. /\ pc \in {"send", "exit"}
      /\ pc = "send" => mqName \in 1 .. Len(mqs)
  OBVIOUS
<1> HIDE DEF pc, old
<1>4. o1 \in SendRecord(Len(mqs)) /\ o1.times = 0 /\ o1.pc = pc
  BY <1>2, <1>3 DEF SendRecord
<1> HIDE DEF o1
<1>5. new \in SendRecord(Len(mqs)) /\ new.times = 0 /\ new.pc = pc /\ new.mq = mqName
  BY <1>4 DEF SendRecord
<1> HIDE DEF new
<1>6. /\ mqSend' \in [MqSenders -> SendRecord(Len(mqs))]
      /\ \A v \in MqSenders : mqSend'[v] = IF v = s THEN new ELSE mqSend[v]
  BY <1>1, <1>5
<1>7. MqTypeOK'
  BY <1>1, <1>6 DEF MqIInv, MqTypeOK, SendRecord
<1>8. MqOrder'
  <2>1. \A v \in MqSenders : mqSend'[v].times = mqSend[v].times
    BY <1>2, <1>5, <1>6 DEF old
  <2> QED  BY <1>1, <2>1 DEF MqIInv, MqOrder, Order
<1>9. MqCounts'
  BY <1>1, <1>3, <1>5, <1>6 DEF MqIInv, MqCounts, Counted, Lag
<1>10. MqHomes'
  <2> SUFFICES ASSUME NEW q \in 1 .. Len(mqs) PROVE Home(q)'
    BY <1>1 DEF MqHomes
  <2>1. Home(q)
    BY DEF MqIInv, MqHomes
  <2>2. /\ \A k \in DOMAIN mqs[q].msgs : mqs[q].msgs[k][1] # s
        /\ \A k \in DOMAIN mqs[q].lost : mqs[q].lost[k][1] # s
    BY <1>2, NoneOf DEF old
  <2>3. /\ \A k \in DOMAIN mqs[q].msgs : mqs[q].msgs[k][1] \in MqSenders
        /\ \A k \in DOMAIN mqs[q].lost : mqs[q].lost[k][1] \in MqSenders
    BY DEF MqMessages
  <2>4. q # mqName /\ Held(q, {})' => Held(q, {})
    BY <1>1, <1>5, <1>6 DEF Held, Sending, Receiving
  <2> QED  BY <1>1, <1>6, <2>1, <2>2, <2>3, <2>4 DEF Home
<1> QED  BY <1>7, <1>8, <1>9, <1>10 DEF MqIInv

(* A step of a receiver that receives nothing.                             *)
LEMMA MqRecvOnly ==
    ASSUME MqIInv, NEW r \in MqReceivers, NEW new \in RecvRecord(Len(mqs)),
           mqRecv' = [mqRecv EXCEPT ![r] = new], Counted(r)', Lag(r)',
           new.pc \in {"open", "exit"} \/ new.mq = mqName \/ Receiving(r, new.mq),
           UNCHANGED <<mqName, mqs, mqSend, shownTotals, taken>>
    PROVE  MqIInv'
<1> USE MqTyped
<1>1. \A v \in MqReceivers : mqRecv'[v] = IF v = r THEN new ELSE mqRecv[v]
  OBVIOUS
<1>2. MqTypeOK'
  <2>1. mqRecv' \in [MqReceivers -> RecvRecord(Len(mqs))]
    OBVIOUS
  <2> QED  BY <2>1 DEF MqIInv, MqTypeOK, RecvRecord
<1>3. MqOrder'
  BY DEF MqIInv, MqOrder
<1>4. MqCounts'
  <2>1. ASSUME NEW v \in MqReceivers, v # r PROVE (Counted(v) /\ Lag(v))'
    <3>1. mqRecv'[v] = mqRecv[v]
      BY <1>1, <2>1
    <3> QED  BY <3>1 DEF MqIInv, MqCounts, Counted, Lag
  <2> QED  BY <2>1 DEF MqIInv, MqCounts
<1>5. MqHomes'
  <2> SUFFICES ASSUME NEW q \in 1 .. Len(mqs) PROVE Home(q)'
    BY DEF MqHomes
  <2>1. Home(q)
    BY DEF MqIInv, MqHomes
  <2>2. q # mqName /\ Held(q, {})' => Held(q, {})
    <3>1. ASSUME NEW v \in MqReceivers, q # mqName, Receiving(v, q)' PROVE Receiving(v, q)
      BY <1>1, <3>1 DEF Receiving
    <3>2. ASSUME NEW v \in MqSenders, Sending(v, q)' PROVE Sending(v, q)
      BY <3>2 DEF Sending
    <3> QED  BY <3>1, <3>2 DEF Held
  <2> QED  BY <2>1, <2>2 DEF Home
<1> QED  BY <1>2, <1>3, <1>4, <1>5 DEF MqIInv

LEMMA MqRecvFacts ==
    ASSUME MqIInv, NEW r \in MqReceivers
    PROVE  /\ mqRecv[r] \in RecvRecord(Len(mqs)) /\ mqRecv[r].num \in 0 .. MqLoops
           /\ mqRecv[r].i \in 0 .. MqLoops /\ mqRecv[r].len \in Nat
           /\ mqRecv[r].mq \in 0 .. Len(mqs) /\ Len(mqs) \in Nat
           /\ Len(taken[r]) \in Nat /\ Counted(r) /\ Lag(r)
           /\ taken[r] \in Seq(MqMessages)
<1>1. mqRecv[r] \in RecvRecord(Len(mqs)) /\ taken[r] \in Seq(MqMessages) /\ Len(mqs) \in Nat
  BY MqTyped
<1>2. Counted(r) /\ Lag(r)
  BY DEF MqIInv, MqCounts
<1> QED  BY <1>1, <1>2 DEF RecvRecord

LEMMA MqRecvOpen == ASSUME MqIInv, NEW r \in MqReceivers, RecvOpen(r) PROVE MqIInv'
<1> USE MqNumbers, MqRecvFacts
<1> DEFINE old == mqRecv[r]  pc == IF mqName = 0 THEN "exit" ELSE "recv"
           o1 == [old EXCEPT !.pc = pc]  new == [o1 EXCEPT !.mq = mqName]
<1>1. /\ old.pc = "open" /\ mqRecv' = [mqRecv EXCEPT ![r] = new]
      /\ UNCHANGED <<mqName, mqs, mqSend, shownTotals, taken>>
  BY DEF RecvOpen
<1>2. /\ old \in RecvRecord(Len(mqs)) /\ mqName \in 0 .. Len(mqs)
      /\ pc \in {"open", "recv", "num", "len", "display", "exit"} /\ Len(mqs) \in Nat
      /\ Counted(r)
  BY MqTyped
<1>3. /\ pc = "recv" => mqName \in 1 .. Len(mqs)
      /\ pc \in {"recv", "exit"}
  BY <1>2
<1>4. /\ old.num = 0 /\ old.i = 0 /\ old.len = 0 /\ shownTotals[r] = <<>>
      /\ Len(taken[r]) = 0
  BY <1>1, <1>2 DEF Counted
<1> HIDE DEF pc, old
<1>5. o1 \in RecvRecord(Len(mqs)) /\ o1.pc = pc /\ o1.num = 0 /\ o1.i = 0 /\ o1.len = 0
  BY <1>2, <1>4 DEF RecvRecord
<1> HIDE DEF o1
<1>6. new \in RecvRecord(Len(mqs)) /\ new.pc = pc /\ new.num = 0 /\ new.i = 0 /\ new.len = 0
      /\ new.mq = mqName
  BY <1>2, <1>5 DEF RecvRecord
<1> HIDE DEF new
<1>7. mqRecv'[r] = new
  BY <1>1, MqTyped
<1>8. Counted(r)' /\ Lag(r)'
  BY <1>1, <1>3, <1>4, <1>6, <1>7 DEF Counted, Lag
<1> QED  BY <1>1, <1>6, <1>8, MqRecvOnly

LEMMA MqAddNum == ASSUME MqIInv, NEW r \in MqReceivers, AddNum(r) PROVE MqIInv'
<1> USE MqNumbers, MqRecvFacts
<1> DEFINE old == mqRecv[r]  n == Len(taken[r])
           o1 == [old EXCEPT !.num = old.num + 1]  new == [o1 EXCEPT !.pc = "len"]
<1>1. /\ old.pc = "num" /\ mqRecv' = [mqRecv EXCEPT ![r] = new]
      /\ UNCHANGED <<mqName, mqs, mqSend, shownTotals, taken>>
  BY DEF AddNum
<1>2. /\ old \in RecvRecord(Len(mqs)) /\ n \in Nat /\ Counted(r) /\ Len(mqs) \in Nat
      /\ old.num \in 0 .. MqLoops
  OBVIOUS
<1>3. /\ old.num = n - 1 /\ old.i = n - 1 /\ old.len = (n - 1) * MsgSize
      /\ shownTotals[r] = <<>> /\ n >= 1 /\ n <= MqLoops /\ old.mq \in 1 .. Len(mqs)
  BY <1>1, <1>2 DEF Counted
<1>a. Receiving(r, old.mq)
  BY <1>1 DEF Receiving
<1> HIDE DEF old, n
<1>4. old.num + 1 \in 0 .. MqLoops /\ old.num + 1 = n
  BY <1>2, <1>3
<1>5. o1 \in RecvRecord(Len(mqs)) /\ o1.num = n /\ o1.i = old.i /\ o1.len = old.len
      /\ o1.mq = old.mq
  BY <1>2, <1>4 DEF RecvRecord
<1> HIDE DEF o1
<1>6. new \in RecvRecord(Len(mqs)) /\ new.pc = "len" /\ new.num = n /\ new.i = old.i
      /\ new.len = old.len /\ new.mq = old.mq
  BY <1>5 DEF RecvRecord
<1> HIDE DEF new
<1>7. mqRecv'[r] = new /\ n = Len(taken[r])
  BY <1>1, MqTyped DEF n
<1>8. Counted(r)' /\ Lag(r)'
  BY <1>1, <1>3, <1>6, <1>7 DEF Counted, Lag
<1> QED  BY <1>1, <1>a, <1>6, <1>8, MqRecvOnly

LEMMA MqAddLen == ASSUME MqIInv, NEW r \in MqReceivers, AddLen(r) PROVE MqIInv'
<1> USE MqNumbers, MqRecvFacts
<1> DEFINE old == mqRecv[r]  n == Len(taken[r])
           o1 == [old EXCEPT !.len = old.len + MsgSize]
           o2 == [o1 EXCEPT !.i = old.i + 1]  new == [o2 EXCEPT !.pc = "recv"]
<1>1. /\ old.pc = "len" /\ mqRecv' = [mqRecv EXCEPT ![r] = new]
      /\ UNCHANGED <<mqName, mqs, mqSend, shownTotals, taken>>
  BY DEF AddLen
<1>2. /\ old \in RecvRecord(Len(mqs)) /\ n \in Nat /\ Counted(r) /\ Len(mqs) \in Nat
      /\ old.num \in 0 .. MqLoops /\ old.len \in Nat
  OBVIOUS
<1>3. /\ old.num = n /\ old.i = n - 1 /\ old.len = (n - 1) * MsgSize
      /\ shownTotals[r] = <<>> /\ n >= 1 /\ n <= MqLoops /\ old.mq \in 1 .. Len(mqs)
  BY <1>1, <1>2 DEF Counted
<1>a. Receiving(r, old.mq)
  BY <1>1 DEF Receiving
<1> HIDE DEF old, n
<1>4. /\ old.i + 1 \in 0 .. MqLoops /\ old.i + 1 = n /\ old.len + MsgSize \in Nat
      /\ old.len + MsgSize = n * MsgSize
  <2>1. (n - 1) * MsgSize + MsgSize = n * MsgSize
    BY <1>2
  <2> QED  BY <1>2, <1>3, <2>1
<1>5. o1 \in RecvRecord(Len(mqs)) /\ o1.num = old.num /\ o1.len = old.len + MsgSize
      /\ o1.mq = old.mq
  BY <1>2, <1>4 DEF RecvRecord
<1> HIDE DEF o1
<1>6. o2 \in RecvRecord(Len(mqs)) /\ o2.num = old.num /\ o2.len = o1.len
      /\ o2.mq = old.mq /\ o2.i = n
  BY <1>4, <1>5 DEF RecvRecord
<1> HIDE DEF o2
<1>7. new \in RecvRecord(Len(mqs)) /\ new.pc = "recv" /\ new.num = n /\ new.i = n
      /\ new.len = n * MsgSize /\ new.mq = old.mq
  BY <1>3, <1>4, <1>5, <1>6 DEF RecvRecord
<1> HIDE DEF new
<1>8. mqRecv'[r] = new /\ n = Len(taken[r])
  BY <1>1, MqTyped DEF n
<1>9. Counted(r)' /\ Lag(r)'
  BY <1>1, <1>3, <1>7, <1>8 DEF Counted, Lag
<1> QED  BY <1>1, <1>a, <1>7, <1>9, MqRecvOnly

LEMMA QueueReplaced ==
    ASSUME NEW mq \in Seq(QueueRecord), NEW q \in 1 .. Len(mq), NEW queue \in QueueRecord
    PROVE  /\ [mq EXCEPT ![q] = queue] \in Seq(QueueRecord)
           /\ Len([mq EXCEPT ![q] = queue]) = Len(mq)
           /\ \A o \in 1 .. Len(mq) :
                 [mq EXCEPT ![q] = queue][o] = IF o = q THEN queue ELSE mq[o]
           /\ PlacesIn([mq EXCEPT ![q] = queue]) = PlacesIn(mq)
<1>1. /\ [mq EXCEPT ![q] = queue] \in Seq(QueueRecord)
      /\ Len([mq EXCEPT ![q] = queue]) = Len(mq)
      /\ \A o \in 1 .. Len(mq) :
            [mq EXCEPT ![q] = queue][o] = IF o = q THEN queue ELSE mq[o]
  OBVIOUS
<1> QED  BY <1>1 DEF PlacesIn

(* A name or a descriptor goes away, and with the last one perhaps the     *)
(* queue: its messages are then the lost ones.                             *)
LEMMA MqClosing ==
    ASSUME MqIInv, UNCHANGED taken, mqName' \in {0, mqName},
           \A s \in MqSenders : mqSend'[s].times = mqSend[s].times
                                /\ mqSend'[s].mq = mqSend[s].mq,
           \A q \in 1 .. Len(mqs) : Held(q, {})' => Held(q, {}),
           \/ UNCHANGED mqs
           \/ \E q \in 1 .. Len(mqs) : /\ mqs[q].lost = <<>> /\ mqs' = Destroyed(q)
                                       /\ q # mqName' /\ ~Held(q, {})'
    PROVE  /\ MqOrder' /\ MqHomes' /\ mqs' \in Seq(QueueRecord) /\ Len(mqs') = Len(mqs)
           /\ \A o \in 1 .. Len(mqs) : Len(mqs'[o].msgs) <= mqs'[o].places
<1> USE MqTyped, MqNumbers
<1>0. \A o \in 1 .. Len(mqs) :
         /\ \A k \in DOMAIN mqs[o].msgs : mqs[o].msgs[k][1] \in MqSenders
         /\ \A k \in DOMAIN mqs[o].lost : mqs[o].lost[k][1] \in MqSenders
  BY DEF MqMessages
<1>1. CASE UNCHANGED mqs
  <2>1. MqOrder'
    BY <1>1 DEF MqIInv, MqOrder, Order
  <2>2. MqHomes'
    <3> SUFFICES ASSUME NEW o \in 1 .. Len(mqs) PROVE Home(o)'
      BY <1>1 DEF MqHomes
    <3>1. Home(o) /\ (o = mqName' => o = mqName)
      BY DEF MqIInv, MqHomes
    <3> QED  BY <1>0, <1>1, <3>1 DEF Home
  <2> QED  BY <1>1, <2>1, <2>2
<1>2. CASE \E q \in 1 .. Len(mqs) : /\ mqs[q].lost = <<>> /\ mqs' = Destroyed(q)
                                    /\ q # mqName' /\ ~Held(q, {})'
  <2>1. PICK q \in 1 .. Len(mqs) : /\ mqs[q].lost = <<>> /\ mqs' = Destroyed(q)
                                   /\ q # mqName' /\ ~Held(q, {})'
    BY <1>2
  <2> DEFINE old == mqs[q]  q1 == [old EXCEPT !.msgs = <<>>]
             queue == [q1 EXCEPT !.lost = old.msgs]
  <2>2. mqs' = [mqs EXCEPT ![q] = queue]
    BY <2>1 DEF Destroyed
  <2>3. /\ old \in QueueRecord /\ old.msgs \in Seq(MqMessages) /\ <<>> \in Seq(MqMessages)
        /\ old.lost = <<>> /\ Len(old.msgs) <= old.places /\ old.places \in Nat
    BY <2>1
  <2>a. old = mqs[q]
    OBVIOUS
  <2> HIDE DEF old
  <2>4. q1 \in QueueRecord /\ q1.msgs = <<>> /\ q1.places = old.places
    BY <2>3 DEF QueueRecord
  <2> HIDE DEF q1
  <2>5. queue \in QueueRecord /\ queue.msgs = <<>> /\ queue.places = old.places
        /\ queue.lost = old.msgs
    BY <2>3, <2>4 DEF QueueRecord
  <2> HIDE DEF queue
  <2>6. /\ mqs' \in Seq(QueueRecord) /\ Len(mqs') = Len(mqs)
        /\ \A o \in 1 .. Len(mqs) : mqs'[o] = IF o = q THEN queue ELSE mqs[o]
        /\ PlacesIn(mqs') = PlacesIn(mqs)
    <3>1. mqs \in Seq(QueueRecord) /\ q \in 1 .. Len(mqs) /\ queue \in QueueRecord
      BY <2>5
    <3>2. /\ [mqs EXCEPT ![q] = queue] \in Seq(QueueRecord)
          /\ Len([mqs EXCEPT ![q] = queue]) = Len(mqs)
          /\ \A o \in 1 .. Len(mqs) :
                [mqs EXCEPT ![q] = queue][o] = IF o = q THEN queue ELSE mqs[o]
          /\ PlacesIn([mqs EXCEPT ![q] = queue]) = PlacesIn(mqs)
      BY <3>1, QueueReplaced, Zenon
    <3> QED  BY <2>2, <3>2, Zenon
  <2>7. \A o \in 1 .. Len(mqs) : Len(mqs'[o].msgs) <= mqs'[o].places
    <3>1. Len(queue.msgs) <= queue.places
      BY <2>3, <2>5
    <3> QED  BY <2>6, <3>1
  <2>8. MqHomes'
    <3> SUFFICES ASSUME NEW o \in 1 .. Len(mqs) PROVE Home(o)'
      BY <2>6 DEF MqHomes
    <3>1. Home(o) /\ Home(q) /\ (o = mqName' => o = mqName)
      BY DEF MqIInv, MqHomes
    <3>2. CASE o = q
      <4>1. mqs'[o].msgs = <<>> /\ mqs'[o].lost = mqs[q].msgs
        BY <2>5, <2>6, <2>a, <3>2
      <4>2. \A k \in DOMAIN mqs[q].msgs : mqSend'[mqs[q].msgs[k][1]].mq = q
        BY <1>0, <3>1 DEF Home
      <4> QED  BY <2>1, <3>2, <4>1, <4>2 DEF Home
    <3>3. CASE o # q
      <4>1. mqs'[o] = mqs[o]
        BY <2>6, <3>3
      <4>2. mqs[o].lost # <<>> => o # mqName' /\ ~Held(o, {})' /\ mqs[o].msgs = <<>>
        BY <3>1 DEF Home
      <4>3. /\ \A k \in DOMAIN mqs[o].msgs : mqSend'[mqs[o].msgs[k][1]].mq = o
            /\ \A k \in DOMAIN mqs[o].lost : mqSend'[mqs[o].lost[k][1]].mq = o
        BY <1>0, <3>1 DEF Home
      <4> QED  BY <4>1, <4>2, <4>3 DEF Home
    <3> QED  BY <3>2, <3>3
  <2> DEFINE A == WhereIn(mqs, taken)  B == WhereIn(mqs', taken')
             Q == QueuePlace(q)  L == LostPlace(q)
  <2>9. /\ A \in [PlacesIn(mqs) -> Seq(MqSenders \X Nat)]
        /\ \A o \in 1 .. Len(mqs) :
              /\ QueuePlace(o) \in PlacesIn(mqs) /\ A[QueuePlace(o)] = mqs[o].msgs
              /\ LostPlace(o) \in PlacesIn(mqs) /\ A[LostPlace(o)] = mqs[o].lost
        /\ \A r \in MqReceivers : TakenPlace(r) \in PlacesIn(mqs) /\ A[TakenPlace(r)] = taken[r]
        /\ \A p \in PlacesIn(mqs) :
              \/ \E o \in 1 .. Len(mqs) : p = QueuePlace(o) \/ p = LostPlace(o)
              \/ \E r \in MqReceivers : p = TakenPlace(r)
    BY WhereIs
  <2>10. /\ DOMAIN B = PlacesIn(mqs)
         /\ \A o \in 1 .. Len(mqs) :
              B[QueuePlace(o)] = mqs'[o].msgs /\ B[LostPlace(o)] = mqs'[o].lost
         /\ \A r \in MqReceivers : B[TakenPlace(r)] = taken[r]
    <3>1. taken' \in [MqReceivers -> Seq(MqMessages)] /\ taken' = taken
      OBVIOUS
    <3> QED  BY <2>6, <3>1, WhereIs
  <2> HIDE DEF A, B
  <2>11. ASSUME NEW p \in PlacesIn(mqs)
         PROVE  B[p] = IF p = Q THEN <<>> ELSE IF p = L THEN A[Q] ELSE A[p]
    <3>1. ASSUME NEW o \in 1 .. Len(mqs), o # q, p = QueuePlace(o) \/ p = LostPlace(o)
          PROVE  p # Q /\ p # L /\ B[p] = A[p]
      <4>1. mqs'[o] = mqs[o] /\ QueuePlace(o) # QueuePlace(q) /\ LostPlace(o) # LostPlace(q)
        BY <2>6, <3>1, PlacesDiffer
      <4>2. /\ A[QueuePlace(o)] = mqs[o].msgs /\ A[LostPlace(o)] = mqs[o].lost
            /\ B[QueuePlace(o)] = mqs[o].msgs /\ B[LostPlace(o)] = mqs[o].lost
        BY <2>9, <2>10, <4>1, Zenon
      <4> QED  BY <3>1, <4>1, <4>2, PlacesDiffer, Zenon
    <3>2. CASE p = QueuePlace(q)
      BY <2>5, <2>6, <2>10, <3>2
    <3>3. CASE p = LostPlace(q)
      <4>1. B[p] = A[Q] /\ p # Q
        BY <2>5, <2>6, <2>9, <2>10, <2>a, <3>3, PlacesDiffer
      <4> QED  BY <3>3, <4>1
    <3>4. ASSUME NEW r \in MqReceivers, p = TakenPlace(r) PROVE p # Q /\ p # L /\ B[p] = A[p]
      BY <2>9, <2>10, <3>4, PlacesDiffer
    <3> QED  BY <2>9, <3>1, <3>2, <3>3, <3>4
  <2>12. Order(A, mqSend, Len(mqs))
    BY DEF MqIInv, MqOrder, A
  <2>13. MovedAll(PlacesIn(mqs), MqSenders, A, B, Q, L)
    <3>1. Q \in PlacesIn(mqs) /\ L \in PlacesIn(mqs) /\ A[L] = <<>>
      BY <2>1, <2>9
    <3>2. Q # L
      BY PlacesDiffer
    <3> QED  BY <2>9, <2>10, <2>11, <2>12, <3>1, <3>2 DEF MovedAll, Order
  <2> HIDE DEF Q, L
  <2>14. /\ Once(B) /\ Ascending(B)
         /\ \A m : Among(B, m) <=> Among(A, m)
         /\ \A o \in PlacesIn(mqs) : o \notin {Q, L} =>
               /\ Earlier(B, o, Q) /\ (Earlier(A, o, Q) => Earlier(B, o, L))
               /\ \A p \in PlacesIn(mqs) : p \notin {Q, L} /\ Earlier(A, o, p) => Earlier(B, o, p)
    BY <2>13, AllMoved
  <2>15. ASSUME NEW r \in MqReceivers, NEW o \in 1 .. Len(mqs)
         PROVE  Earlier(B, TakenPlace(r), QueuePlace(o)) /\ Earlier(B, TakenPlace(r), LostPlace(o))
    <3>1. TakenPlace(r) \in PlacesIn(mqs) /\ TakenPlace(r) \notin {Q, L}
      BY <2>9, PlacesDiffer DEF Q, L
    <3>2. Earlier(A, TakenPlace(r), QueuePlace(o)) /\ Earlier(A, TakenPlace(r), LostPlace(o))
      BY <2>12 DEF Order
    <3>3. CASE o = q
      BY <2>14, <3>1, <3>2, <3>3 DEF Q, L
    <3>4. CASE o # q
      <4>1. QueuePlace(o) \notin {Q, L} /\ LostPlace(o) \notin {Q, L}
        BY <3>4, PlacesDiffer DEF Q, L
      <4> QED  BY <2>9, <2>14, <3>1, <3>2, <4>1
    <3> QED  BY <3>3, <3>4
  <2>16. MqOrder'
    <3>1. Order(B, mqSend', Len(mqs))
      BY <2>12, <2>14, <2>15 DEF Order
    <3> QED  BY <2>6, <3>1 DEF MqOrder, B
  <2> QED  BY <2>6, <2>7, <2>8, <2>16
<1> QED  BY <1>1, <1>2

LEMMA MqUnlinkStep == ASSUME MqIInv, MsgQueueUnlink PROVE MqIInv'
<1> USE MqTyped
<1>1. /\ mqName # 0 /\ mqName' = 0 /\ UNCHANGED <<mqSend, mqRecv, shownTotals, taken>>
      /\ mqs' = IF Held(mqName, {}) THEN mqs ELSE Destroyed(mqName)
  BY DEF MsgQueueUnlink
<1>2. PICK q \in 1 .. Len(mqs) : q = mqName
  BY <1>1
<1>3. \A o : Held(o, {})' <=> Held(o, {})
  BY <1>1 DEF Held, Sending, Receiving
<1>4. mqs[q].lost = <<>>
  BY <1>2 DEF MqIInv, MqHomes, Home
<1>6. /\ MqOrder' /\ MqHomes' /\ mqs' \in Seq(QueueRecord) /\ Len(mqs') = Len(mqs)
      /\ \A o \in 1 .. Len(mqs) : Len(mqs'[o].msgs) <= mqs'[o].places
  <2>1. \/ UNCHANGED mqs
        \/ \E o \in 1 .. Len(mqs) : /\ mqs[o].lost = <<>> /\ mqs' = Destroyed(o)
                                    /\ o # mqName' /\ ~Held(o, {})'
    <3>1. CASE Held(q, {})
      BY <1>1, <1>2, <3>1
    <3>2. CASE ~Held(q, {})
      <4>1. mqs' = Destroyed(q) /\ q # mqName' /\ ~Held(q, {})'
        BY <1>1, <1>2, <1>3, <3>2
      <4> QED  BY <1>4, <4>1
    <3> QED  BY <3>1, <3>2
  <2>2. \A s \in MqSenders : mqSend'[s].times = mqSend[s].times /\ mqSend'[s].mq = mqSend[s].mq
    BY <1>1
  <2>3. mqName' \in {0, mqName} /\ UNCHANGED taken
    BY <1>1
  <2>4. \A o \in 1 .. Len(mqs) : Held(o, {})' => Held(o, {})
    BY <1>3
  <2> HIDE MqTyped
  <2> QED  BY <2>1, <2>2, <2>3, <2>4, MqClosing, Zenon
<1>7. MqTypeOK'
  <2>1. mqName' \in 0 .. Len(mqs')
    BY <1>1, <1>6
  <2>2. \A o \in 1 .. Len(mqs') : Len(mqs'[o].msgs) <= mqs'[o].places
    BY <1>6
  <2> QED  BY <1>1, <1>6, <2>1, <2>2 DEF MqIInv, MqTypeOK, QueueRecord, SendRecord, RecvRecord
<1>8. MqCounts'
  BY <1>1, <1>6 DEF MqIInv, MqCounts, Counted, Lag
<1> QED  BY <1>6, <1>7, <1>8 DEF MqIInv

LEMMA MqSendEnds == ASSUME MqIInv, NEW s \in MqSenders, SendEnds(s) PROVE MqIInv'
<1> USE MqTyped
<1> DEFINE old == mqSend[s]  new == [old EXCEPT !.pc = "exit"]
<1>1. /\ old.pc = "send" /\ mqSend' = [mqSend EXCEPT ![s] = new]
      /\ UNCHANGED <<mqName, mqRecv, shownTotals, taken>> /\ Closes(s, old.mq)
  BY DEF SendEnds
<1>2. PICK q \in 1 .. Len(mqs) : q = old.mq
  BY <1>1 DEF MqIInv, MqCounts
<1>3. old \in SendRecord(Len(mqs)) /\ Sending(s, q)
  BY <1>1, <1>2 DEF Sending
<1>a. old = mqSend[s]
  OBVIOUS
<1> HIDE DEF old
<1>4. new \in SendRecord(Len(mqs)) /\ new.pc = "exit" /\ new.mq = old.mq
      /\ new.times = old.times
  BY <1>3 DEF SendRecord
<1> HIDE DEF new
<1>5. /\ mqSend' \in [MqSenders -> SendRecord(Len(mqs))]
      /\ \A v \in MqSenders : mqSend'[v] = IF v = s THEN new ELSE mqSend[v]
  BY <1>1, <1>4
<1>6. ASSUME NEW o \in 1 .. Len(mqs), Held(o, {})' PROVE Held(o, {s})
  <2>1. \A v \in MqSenders : Sending(v, o)' => v # s /\ Sending(v, o)
    BY <1>4, <1>5 DEF Sending
  <2>2. \A v \in MqReceivers : v # s /\ (Receiving(v, o)' <=> Receiving(v, o))
    BY <1>1, MqAssumption DEF Receiving
  <2> QED  BY <1>6, <2>1, <2>2 DEF Held
<1>7. \A o : Held(o, {s}) => Held(o, {})
  BY DEF Held
<1>8. mqs[q].lost = <<>>
  <2>1. Held(q, {}) /\ Home(q)
    BY <1>3 DEF Held, MqIInv, MqHomes
  <2> QED  BY <2>1 DEF Home
<1>9. /\ MqOrder' /\ MqHomes' /\ mqs' \in Seq(QueueRecord) /\ Len(mqs') = Len(mqs)
      /\ \A o \in 1 .. Len(mqs) : Len(mqs'[o].msgs) <= mqs'[o].places
  <2>1. mqs' = IF q \in {0, mqName} \/ Held(q, {s}) THEN mqs ELSE Destroyed(q)
    BY <1>1, <1>2 DEF Closes
  <2>2. \/ UNCHANGED mqs
        \/ \E o \in 1 .. Len(mqs) : /\ mqs[o].lost = <<>> /\ mqs' = Destroyed(o)
                                    /\ o # mqName' /\ ~Held(o, {})'
    BY <1>1, <1>6, <1>8, <2>1
  <2>3. \A v \in MqSenders : mqSend'[v].times = mqSend[v].times /\ mqSend'[v].mq = mqSend[v].mq
    BY <1>4, <1>5, <1>a
  <2>4. \A o \in 1 .. Len(mqs) : Held(o, {})' => Held(o, {})
    BY <1>6, <1>7
  <2> QED  BY <1>1, <2>2, <2>3, <2>4, MqClosing
<1>10. MqTypeOK'
  BY <1>1, <1>5, <1>9 DEF MqIInv, MqTypeOK, QueueRecord, SendRecord
<1>11. MqCounts'
  BY <1>1, <1>4, <1>5, <1>9 DEF MqIInv, MqCounts, Counted, Lag
<1> QED  BY <1>9, <1>10, <1>11 DEF MqIInv

(* The end of a receiver: the totals lag by what it is just counting.      *)
LEMMA MqRecvEnds ==
    ASSUME MqIInv, NEW r \in MqReceivers, RecvLoopEnds(r) \/ RecvSigHandler(r) PROVE MqIInv'
<1> USE MqNumbers, MqRecvFacts
<1> DEFINE old == mqRecv[r]  n == Len(taken[r])  new == [old EXCEPT !.pc = "exit"]
           shown == <<old.num, old.len>>  q == old.mq
<1>1. /\ old.pc # "exit" /\ mqRecv' = [mqRecv EXCEPT ![r] = new]
      /\ shownTotals' = [shownTotals EXCEPT ![r] = shown]
      /\ UNCHANGED <<mqName, mqSend, taken>> /\ Closes(r, q)
  BY DEF RecvLoopEnds, RecvSigHandler, DisplayResult
<1>2. /\ old \in RecvRecord(Len(mqs)) /\ n \in Nat /\ Counted(r)
      /\ old.num \in 0 .. MqLoops /\ old.len \in Nat /\ q \in 0 .. Len(mqs)
  OBVIOUS
<1>3. \/ old.num = n /\ old.len \in {n * MsgSize, (n - 1) * MsgSize}
      \/ old.num = n - 1 /\ old.len = old.num * MsgSize
  BY <1>1, <1>2 DEF Counted
<1>4. new \in RecvRecord(Len(mqs)) /\ new.pc = "exit" /\ new.mq = old.mq
  BY <1>2 DEF RecvRecord
<1>5. shown \in Nat \X Nat /\ shown[1] = old.num /\ shown[2] = old.len
  BY <1>2
<1> HIDE DEF shown, new
<1>6. /\ shownTotals' \in [MqReceivers -> {<<>>} \cup (Nat \X Nat)]
      /\ shownTotals'[r] = shown
      /\ \A v \in MqReceivers : v # r => shownTotals'[v] = shownTotals[v]
      /\ mqRecv' \in [MqReceivers -> RecvRecord(Len(mqs))]
      /\ \A v \in MqReceivers : mqRecv'[v] = IF v = r THEN new ELSE mqRecv[v]
  BY <1>1, <1>4, <1>5, MqTyped
<1>7. q # 0 => Receiving(r, q)
  BY <1>1, <1>2 DEF Counted, Receiving
<1> HIDE DEF old
<1>8. ASSUME NEW o \in 1 .. Len(mqs), Held(o, {})' PROVE Held(o, {r})
  <2>1. \A v \in MqReceivers : Receiving(v, o)' => v # r /\ Receiving(v, o)
    BY <1>4, <1>6 DEF Receiving
  <2>2. \A v \in MqSenders : v # r /\ (Sending(v, o)' <=> Sending(v, o))
    BY <1>1, MqAssumption DEF Sending
  <2> QED  BY <1>8, <2>1, <2>2 DEF Held
<1>9. /\ MqOrder' /\ MqHomes' /\ mqs' \in Seq(QueueRecord) /\ Len(mqs') = Len(mqs)
      /\ \A o \in 1 .. Len(mqs) : Len(mqs'[o].msgs) <= mqs'[o].places
  <2>1. mqs' = IF q \in {0, mqName} \/ Held(q, {r}) THEN mqs ELSE Destroyed(q)
    BY <1>1 DEF Closes
  <2>2. \/ UNCHANGED mqs
        \/ \E o \in 1 .. Len(mqs) : /\ mqs[o].lost = <<>> /\ mqs' = Destroyed(o)
                                    /\ o # mqName' /\ ~Held(o, {})'
    <3>1. CASE q \in {0, mqName} \/ Held(q, {r})
      BY <2>1, <3>1
    <3>2. CASE ~(q \in {0, mqName} \/ Held(q, {r}))
      <4>1. PICK o \in 1 .. Len(mqs) : o = q
        BY <1>2, <3>2
      <4>2. Held(o, {}) /\ Home(o)
        BY <1>7, <3>2, <4>1 DEF Held, MqIInv, MqHomes
      <4>3. mqs[o].lost = <<>>
        BY <4>2 DEF Home
      <4>4. ~Held(o, {})'
        BY <1>8, <3>2, <4>1
      <4> QED  BY <1>1, <2>1, <3>2, <4>1, <4>3, <4>4
    <3> QED  BY <3>1, <3>2
  <2>3. \A v \in MqSenders : mqSend'[v].times = mqSend[v].times /\ mqSend'[v].mq = mqSend[v].mq
    BY <1>1
  <2>4. \A o \in 1 .. Len(mqs) : Held(o, {})' => Held(o, {})
    <3>1. \A o : Held(o, {r}) => Held(o, {})
      BY DEF Held
    <3> QED  BY <1>8, <3>1
  <2> QED  BY <1>1, <2>2, <2>3, <2>4, MqClosing
<1>10. Counted(r)' /\ Lag(r)'
  BY <1>1, <1>3, <1>4, <1>5, <1>6 DEF Counted, Lag
<1>11. MqTypeOK'
  BY <1>1, <1>6, <1>9 DEF MqIInv, MqTypeOK, QueueRecord, RecvRecord
<1>12. MqCounts'
  <2>1. ASSUME NEW v \in MqReceivers, v # r PROVE (Counted(v) /\ Lag(v))'
    <3>1. mqRecv'[v] = mqRecv[v] /\ shownTotals'[v] = shownTotals[v]
      BY <1>6, <2>1
    <3> QED  BY <1>1, <1>9, <3>1 DEF MqIInv, MqCounts, Counted, Lag
  <2> QED  BY <1>1, <1>9, <1>10, <2>1 DEF MqIInv, MqCounts
<1> QED  BY <1>9, <1>11, <1>12 DEF MqIInv

LEMMA MqSendLoop == ASSUME MqIInv, NEW s \in MqSenders, MsgQueueSendLoop(s) PROVE MqIInv'
<1> USE MqNumbers, MqTyped
<1> DEFINE q == mqSend[s].mq  n == mqSend[s].times
<1>1. /\ mqSend[s].pc = "send" /\ n < MqLoops /\ Len(mqs[q].msgs) < mqs[q].places
      /\ mqs' = [mqs EXCEPT ![q].msgs = Append(@, <<s, n>>)]
      /\ mqSend' = [mqSend EXCEPT ![s].times = @ + 1]
      /\ UNCHANGED <<mqName, mqRecv, shownTotals, taken>>
  BY DEF MsgQueueSendLoop
<1>2. q \in 1 .. Len(mqs) /\ n \in 0 .. MqLoops - 1 /\ mqSend[s] \in SendRecord(Len(mqs))
  <2>1. q \in 1 .. Len(mqs)
    BY <1>1 DEF MqIInv, MqCounts
  <2>2. n \in 0 .. MqLoops
    BY DEF SendRecord
  <2> QED  BY <1>1, <2>1, <2>2
<1> DEFINE m == <<s, n>>  old == mqs[q]
           queue == [old EXCEPT !.msgs = Append(old.msgs, m)]
           new == [mqSend[s] EXCEPT !.times = n + 1]
<1>3. mqs' = [mqs EXCEPT ![q] = queue] /\ mqSend' = [mqSend EXCEPT ![s] = new]
  BY <1>1, <1>2
<1>4. m \in MqMessages /\ m[1] = s /\ m[2] = n
  BY <1>2 DEF MqMessages
<1>5. old \in QueueRecord /\ old.msgs \in Seq(MqMessages) /\ old.places \in Nat /\ old = mqs[q]
  BY <1>2
<1> HIDE DEF m, old
<1>6. queue \in QueueRecord /\ queue.msgs = Append(old.msgs, m) /\ queue.places = old.places
      /\ Len(queue.msgs) = Len(old.msgs) + 1 /\ queue.lost = old.lost
  <2>1. Append(old.msgs, m) \in Seq(MqMessages) /\ Len(Append(old.msgs, m)) = Len(old.msgs) + 1
    BY <1>4, <1>5, Appended
  <2> QED  BY <1>5, <2>1 DEF QueueRecord
<1>7. new \in SendRecord(Len(mqs)) /\ new.times = n + 1 /\ new.pc = "send" /\ new.mq = q
  <2>1. n + 1 \in 0 .. MqLoops
    BY <1>2
  <2>2. new \in SendRecord(Len(mqs)) /\ new.times = n + 1
    BY <1>2, <2>1, Zenon DEF SendRecord
  <2>3. new.pc = mqSend[s].pc /\ new.mq = q
    BY <1>2 DEF SendRecord
  <2> QED  BY <1>1, <2>2, <2>3
<1> HIDE DEF queue, new
<1>8. /\ mqs' \in Seq(QueueRecord) /\ Len(mqs') = Len(mqs) /\ PlacesIn(mqs') = PlacesIn(mqs)
      /\ \A o \in 1 .. Len(mqs) : mqs'[o] = IF o = q THEN queue ELSE mqs[o]
  <2> HIDE DEF q
  <2>1. /\ [mqs EXCEPT ![q] = queue] \in Seq(QueueRecord)
        /\ Len([mqs EXCEPT ![q] = queue]) = Len(mqs)
        /\ \A o \in 1 .. Len(mqs) :
              [mqs EXCEPT ![q] = queue][o] = IF o = q THEN queue ELSE mqs[o]
        /\ PlacesIn([mqs EXCEPT ![q] = queue]) = PlacesIn(mqs)
    BY <1>2, <1>6, QueueReplaced, Zenon
  <2> QED  BY <1>3, <2>1, Zenon
<1>9. \A v \in MqSenders : mqSend'[v] = IF v = s THEN new ELSE mqSend[v]
  BY <1>3
<1>10. MqTypeOK'
  <2>1. mqSend' \in [MqSenders -> SendRecord(Len(mqs))]
    BY <1>3, <1>7
  <2>2. \A o \in 1 .. Len(mqs) : Len(mqs'[o].msgs) <= mqs'[o].places
    <3>1. Len(queue.msgs) <= queue.places
      BY <1>1, <1>5, <1>6
    <3> QED  BY <1>8, <3>1
  <2> QED  BY <1>1, <1>8, <2>1, <2>2 DEF MqTypeOK, QueueRecord, SendRecord, RecvRecord
<1>11. MqHomes'
  <2> SUFFICES ASSUME NEW o \in 1 .. Len(mqs) PROVE Home(o)'
    BY <1>8 DEF MqHomes
  <2>1. Home(o) /\ \A v \in MqSenders : mqSend'[v].mq = mqSend[v].mq
    BY <1>7, <1>9 DEF MqIInv, MqHomes
  <2>2. Held(o, {})' => Held(o, {})
    BY <1>1, <1>7, <1>9 DEF Held, Sending, Receiving
  <2>3. /\ \A k \in DOMAIN mqs[o].msgs : mqs[o].msgs[k][1] \in MqSenders
        /\ \A k \in DOMAIN mqs[o].lost : mqs[o].lost[k][1] \in MqSenders
    BY DEF MqMessages
  <2>4. /\ \A k \in DOMAIN mqs[o].msgs : mqSend'[mqs[o].msgs[k][1]].mq = o
        /\ \A k \in DOMAIN mqs[o].lost : mqSend'[mqs[o].lost[k][1]].mq = o
    BY <2>1, <2>3 DEF Home
  <2>5. CASE o # q
    <3>1. mqs'[o] = mqs[o]
      BY <1>8, <2>5
    <3> QED  BY <1>1, <2>1, <2>2, <2>4, <3>1 DEF Home
  <2>6. CASE o = q
    <3>1. Held(o, {})
      BY <1>1, <2>6 DEF Held, Sending
    <3>2. mqs[o].lost = <<>> /\ mqs'[o].lost = <<>>
      BY <1>5, <1>6, <1>8, <2>1, <2>6, <3>1 DEF Home
    <3>3. mqs'[o].msgs = Append(old.msgs, m)
      BY <1>6, <1>8, <2>6
    <3>4. ASSUME NEW k \in DOMAIN mqs'[o].msgs PROVE mqSend'[mqs'[o].msgs[k][1]].mq = o
      <4>1. /\ DOMAIN Append(old.msgs, m) = DOMAIN old.msgs \cup {Len(old.msgs) + 1}
            /\ Append(old.msgs, m)[Len(old.msgs) + 1] = m
            /\ \A j \in DOMAIN old.msgs : Append(old.msgs, m)[j] = old.msgs[j]
        <5> DEFINE z == Append(old.msgs, m)
        <5>1. old.msgs \in Seq(MqMessages) /\ m \in MqMessages
          BY <1>4, <1>5
        <5>2. /\ DOMAIN z = DOMAIN old.msgs \cup {Len(old.msgs) + 1}
              /\ z[Len(old.msgs) + 1] = m
              /\ \A j \in DOMAIN old.msgs : z[j] = old.msgs[j] /\ j < Len(old.msgs) + 1
          <6> HIDE MqTyped, MqNumbers
          <6> QED  BY <5>1, Appended
        <5> QED  BY <5>2
      <4>2. CASE k \in DOMAIN old.msgs
        BY <1>5, <2>4, <2>6, <3>3, <4>1, <4>2
      <4>3. CASE k = Len(old.msgs) + 1
        BY <1>4, <1>7, <1>9, <2>6, <3>3, <4>1, <4>3
      <4> QED  BY <3>3, <4>1, <4>2, <4>3
    <3>5. /\ mqs'[o].lost # <<>> => o # mqName' /\ ~Held(o, {})' /\ mqs'[o].msgs = <<>>
          /\ \A k \in DOMAIN mqs'[o].lost : mqSend'[mqs'[o].lost[k][1]].mq = o
      BY <2>4, <3>2
    <3> QED  BY <3>4, <3>5 DEF Home
  <2> QED  BY <2>5, <2>6
<1> DEFINE A == WhereIn(mqs, taken)  B == WhereIn(mqs', taken')  P == QueuePlace(q)
<1>12. /\ A \in [PlacesIn(mqs) -> Seq(MqSenders \X Nat)]
       /\ \A o \in 1 .. Len(mqs) :
             /\ QueuePlace(o) \in PlacesIn(mqs) /\ A[QueuePlace(o)] = mqs[o].msgs
             /\ LostPlace(o) \in PlacesIn(mqs) /\ A[LostPlace(o)] = mqs[o].lost
       /\ \A r \in MqReceivers : TakenPlace(r) \in PlacesIn(mqs) /\ A[TakenPlace(r)] = taken[r]
       /\ \A p \in PlacesIn(mqs) :
             \/ \E o \in 1 .. Len(mqs) : p = QueuePlace(o) \/ p = LostPlace(o)
             \/ \E r \in MqReceivers : p = TakenPlace(r)
       /\ \A o : Among(A, o) => o \in MqMessages
  BY WhereIs
<1>13. /\ DOMAIN B = PlacesIn(mqs)
       /\ \A o \in 1 .. Len(mqs) :
             B[QueuePlace(o)] = mqs'[o].msgs /\ B[LostPlace(o)] = mqs'[o].lost
       /\ \A r \in MqReceivers : B[TakenPlace(r)] = taken[r]
  <2>1. taken' \in [MqReceivers -> Seq(MqMessages)] /\ taken' = taken
    BY <1>1
  <2> QED  BY <1>8, <2>1, WhereIs
<1>14. Order(A, mqSend, Len(mqs))
  BY DEF MqIInv, MqOrder
<1> HIDE DEF A, B
<1>15. ASSUME NEW p \in PlacesIn(mqs) PROVE B[p] = IF p = P THEN Append(A[p], m) ELSE A[p]
  <2>1. ASSUME NEW o \in 1 .. Len(mqs), o # q, p = QueuePlace(o) \/ p = LostPlace(o)
        PROVE  p # P /\ B[p] = A[p]
    <3>1. mqs'[o] = mqs[o] /\ QueuePlace(o) # P /\ LostPlace(o) # P
      BY <1>8, <2>1, PlacesDiffer
    <3>2. /\ A[QueuePlace(o)] = mqs[o].msgs /\ A[LostPlace(o)] = mqs[o].lost
          /\ B[QueuePlace(o)] = mqs[o].msgs /\ B[LostPlace(o)] = mqs[o].lost
      BY <1>12, <1>13, <3>1, Zenon
    <3> QED  BY <2>1, <3>1, <3>2, Zenon
  <2>2. CASE p = QueuePlace(q)
    <3>0. mqs'[q] = queue /\ mqs[q] = old
      BY <1>2, <1>5, <1>8
    <3>1. B[p] = Append(old.msgs, m) /\ A[p] = old.msgs
      BY <1>2, <1>6, <1>12, <1>13, <2>2, <3>0, Zenon
    <3> QED  BY <2>2, <3>1
  <2>3. CASE p = LostPlace(q)
    <3>1. B[p] = old.lost /\ A[p] = old.lost /\ p # P
      BY <1>2, <1>5, <1>6, <1>8, <1>12, <1>13, <2>3, PlacesDiffer
    <3> QED  BY <3>1
  <2>4. ASSUME NEW r \in MqReceivers, p = TakenPlace(r) PROVE p # P /\ B[p] = A[p]
    BY <1>12, <1>13, <2>4, PlacesDiffer
  <2> QED  BY <1>12, <2>1, <2>2, <2>3, <2>4
<1>16. \A o \in MqSenders \X Nat : Among(A, o) => o # m /\ (o[1] = m[1] => o[2] < m[2])
  <2>1. \A t \in 0 .. (MqLoops - 1) : t < n <=> Among(A, <<s, t>>)
    BY <1>14 DEF Order
  <2>2. ~Among(A, m)
    BY <1>2, <2>1 DEF m
  <2> SUFFICES ASSUME NEW o \in MqSenders \X Nat, Among(A, o), o[1] = s PROVE o[2] < n
    BY <1>4, <2>2
  <2>3. o \in MqMessages
    BY <1>12
  <2>4. o = <<s, o[2]>> /\ o[2] \in 0 .. (MqLoops - 1)
    BY <2>3 DEF MqMessages
  <2> QED  BY <2>1, <2>4
<1>17. PutAt(PlacesIn(mqs), MqSenders, A, B, P, m)
  <2>1. P \in PlacesIn(mqs) /\ m \in MqSenders \X Nat
    BY <1>2, <1>4, <1>12
  <2>2. Once(A) /\ Ascending(A)
    BY <1>14 DEF Order
  <2> HIDE DEF P
  <2> QED  BY <1>12, <1>13, <1>15, <1>16, <2>1, <2>2 DEF PutAt
<1> HIDE DEF P
<1>18. /\ Once(B) /\ Ascending(B)
       /\ \A o : Among(B, o) <=> Among(A, o) \/ o = m
       /\ \A r, p \in PlacesIn(mqs) : r # P /\ Earlier(A, r, p) => Earlier(B, r, p)
  BY <1>17, PutLast
<1>19. MqOrder'
  <2>1. ASSUME NEW v \in MqSenders, NEW t \in 0 .. (MqLoops - 1)
        PROVE  t < mqSend'[v].times <=> Among(B, <<v, t>>)
    <3>1. t < mqSend[v].times <=> Among(A, <<v, t>>)
      BY <1>14 DEF Order
    <3>2. CASE v = s
      <4>1. mqSend'[v].times = n + 1
        BY <1>7, <1>9, <3>2
      <4>2. <<v, t>> = m <=> t = n
        BY <3>2 DEF m
      <4>3. Among(B, <<v, t>>) <=> t < n \/ t = n
        BY <1>18, <3>1, <3>2, <4>2
      <4> QED  BY <1>2, <4>1, <4>3
    <3>3. CASE v # s
      <4>1. mqSend'[v] = mqSend[v] /\ <<v, t>> # m
        BY <1>9, <3>3 DEF m
      <4> QED  BY <1>18, <3>1, <4>1
    <3> QED  BY <3>2, <3>3
  <2>2. ASSUME NEW r \in MqReceivers, NEW o \in 1 .. Len(mqs)
        PROVE  Earlier(B, TakenPlace(r), QueuePlace(o)) /\ Earlier(B, TakenPlace(r), LostPlace(o))
    <3>1. TakenPlace(r) # P
      BY PlacesDiffer DEF P
    <3>2. Earlier(A, TakenPlace(r), QueuePlace(o)) /\ Earlier(A, TakenPlace(r), LostPlace(o))
      BY <1>14 DEF Order
    <3> QED  BY <1>12, <1>18, <3>1, <3>2
  <2>3. Order(B, mqSend', Len(mqs))
    BY <1>18, <2>1, <2>2 DEF Order
  <2> QED  BY <1>8, <2>3 DEF MqOrder, B
<1>20. MqCounts'
  <2>1. \A r \in MqReceivers : (Counted(r) /\ Lag(r))'
    BY <1>1, <1>8 DEF MqIInv, MqCounts, Counted, Lag
  <2>2. ASSUME NEW v \in MqSenders
        PROVE  /\ mqSend'[v].pc = "send" => mqSend'[v].mq \in 1 .. Len(mqs)
               /\ mqSend'[v].pc = "open" => mqSend'[v].times = 0
    <3>1. CASE v = s
      BY <1>2, <1>7, <1>9, <3>1
    <3>2. CASE v # s
      BY <1>9, <3>2 DEF MqIInv, MqCounts
    <3> QED  BY <3>1, <3>2
  <2> QED  BY <1>8, <2>1, <2>2 DEF MqCounts
<1> QED  BY <1>10, <1>11, <1>19, <1>20 DEF MqIInv

LEMMA MqReceive == ASSUME MqIInv, NEW r \in MqReceivers, MsgReceive(r) PROVE MqIInv'
<1> USE MqNumbers, MqTyped
<1> DEFINE me == mqRecv[r]  q == me.mq  n == Len(taken[r])
           fits == mqs[q].places >= MsgSize
           pc == IF fits THEN "num" ELSE "display"
           new == [me EXCEPT !.pc = pc]
<1>1. /\ me.pc = "recv" /\ me.i < MqLoops /\ mqRecv' = [mqRecv EXCEPT ![r] = new]
      /\ fits => mqs[q].msgs # <<>>
      /\ mqs' = IF fits THEN [mqs EXCEPT ![q].msgs = Tail(@)] ELSE mqs
      /\ taken' = IF fits THEN [taken EXCEPT ![r] = Append(@, Head(mqs[q].msgs))] ELSE taken
      /\ UNCHANGED <<mqName, mqSend, shownTotals>>
  BY DEF MsgReceive
<1>2. /\ me \in RecvRecord(Len(mqs)) /\ n \in Nat /\ Counted(r) /\ me.num \in 0 .. MqLoops
      /\ taken[r] \in Seq(MqMessages)
  BY MqRecvFacts
<1>3. /\ me.num = n /\ me.i = n /\ me.len = n * MsgSize
      /\ shownTotals[r] = <<>> /\ q \in 1 .. Len(mqs) /\ Receiving(r, q)
  BY <1>1, <1>2 DEF Counted, Receiving
<1>4. new \in RecvRecord(Len(mqs)) /\ new.pc = pc /\ new.mq = q /\ new.num = n
      /\ new.i = n /\ new.len = n * MsgSize
  BY <1>2, <1>3 DEF RecvRecord
<1>5. mqRecv'[r] = new /\ \A v \in MqReceivers : v # r => mqRecv'[v] = mqRecv[v]
  BY <1>1
<1>6. CASE ~fits
  <2>1. UNCHANGED <<mqName, mqs, mqSend, shownTotals, taken>>
    BY <1>1, <1>6
  <2>2. new.pc = "display"
    BY <1>4, <1>6
  <2> HIDE DEF new
  <2>3. Counted(r)' /\ Lag(r)'
    BY <1>3, <1>4, <1>5, <2>1, <2>2 DEF Counted, Lag
  <2> QED  BY <1>1, <1>3, <1>4, <2>1, <2>3, MqRecvOnly
<1>7. CASE fits
  <2> DEFINE old == mqs[q]  m == Head(old.msgs)  queue == [old EXCEPT !.msgs = Tail(old.msgs)]
  <2>1. /\ old \in QueueRecord /\ old.msgs \in Seq(MqMessages) /\ old.msgs # <<>>
        /\ old.places \in Nat /\ Len(old.msgs) <= old.places /\ old = mqs[q]
    BY <1>1, <1>3, <1>7
  <2>2. /\ mqs' = [mqs EXCEPT ![q] = queue]
        /\ taken' = [taken EXCEPT ![r] = Append(taken[r], m)]
        /\ new.pc = "num"
    BY <1>1, <1>3, <1>4, <1>7
  <2> HIDE DEF old, new
  <2>3. /\ Tail(old.msgs) \in Seq(MqMessages) /\ Len(Tail(old.msgs)) < Len(old.msgs)
        /\ m \in MqMessages /\ Len(Tail(old.msgs)) \in Nat /\ Len(old.msgs) \in Nat
    <3> HIDE MqTyped, MqNumbers
    <3>1. /\ Tail(old.msgs) \in Seq(MqMessages) /\ 1 \in DOMAIN old.msgs /\ m = old.msgs[1]
          /\ Len(Tail(old.msgs)) = Len(old.msgs) - 1 /\ Len(old.msgs) >= 1
      BY <2>1, Tailed
    <3>2. Len(old.msgs) \in Nat /\ old.msgs[1] \in MqMessages
      BY <2>1, <3>1
    <3> QED  BY <3>1, <3>2
  <2>4. queue \in QueueRecord /\ queue.msgs = Tail(old.msgs) /\ queue.places = old.places
        /\ queue.lost = old.lost
    BY <2>1, <2>3 DEF QueueRecord
  <2> HIDE DEF queue, m
  <2>5. /\ mqs' \in Seq(QueueRecord) /\ Len(mqs') = Len(mqs) /\ PlacesIn(mqs') = PlacesIn(mqs)
        /\ \A o \in 1 .. Len(mqs) : mqs'[o] = IF o = q THEN queue ELSE mqs[o]
    <3> HIDE DEF q
    <3>1. /\ [mqs EXCEPT ![q] = queue] \in Seq(QueueRecord)
          /\ Len([mqs EXCEPT ![q] = queue]) = Len(mqs)
          /\ \A o \in 1 .. Len(mqs) :
                [mqs EXCEPT ![q] = queue][o] = IF o = q THEN queue ELSE mqs[o]
          /\ PlacesIn([mqs EXCEPT ![q] = queue]) = PlacesIn(mqs)
      BY <1>3, <2>4, QueueReplaced, Zenon
    <3> QED  BY <2>2, <3>1, Zenon
  <2>6. /\ taken' \in [MqReceivers -> Seq(MqMessages)]
        /\ taken'[r] = Append(taken[r], m) /\ Len(taken'[r]) = n + 1
        /\ \A v \in MqReceivers : v # r => taken'[v] = taken[v]
    <3>1. Append(taken[r], m) \in Seq(MqMessages) /\ Len(Append(taken[r], m)) = n + 1
      BY <1>2, <2>3, Appended
    <3> QED  BY <2>2, <3>1
  <2>7. MqTypeOK'
    <3>1. \A o \in 1 .. Len(mqs) : Len(mqs'[o].msgs) <= mqs'[o].places
      <4>1. Len(queue.msgs) <= queue.places
        BY <2>1, <2>3, <2>4
      <4> QED  BY <2>5, <4>1
    <3>2. mqRecv' \in [MqReceivers -> RecvRecord(Len(mqs))]
      BY <1>1, <1>4
    <3> QED  BY <1>1, <2>5, <2>6, <3>1, <3>2 DEF MqTypeOK, QueueRecord, SendRecord, RecvRecord
  <2>a. old.lost = <<>>
    <3>1. Held(q, {}) /\ Home(q)
      BY <1>3 DEF Held, MqIInv, MqHomes
    <3> QED  BY <2>1, <3>1 DEF Home
  <2>8. MqHomes'
    <3> SUFFICES ASSUME NEW o \in 1 .. Len(mqs) PROVE Home(o)'
      BY <2>5 DEF MqHomes
    <3>1. Home(o)
      BY DEF MqIInv, MqHomes
    <3>2. CASE o # q
      <4>1. mqs'[o] = mqs[o]
        BY <2>5, <3>2
      <4>2. Held(o, {})' => Held(o, {})
        <5>1. \A v \in MqReceivers : Receiving(v, o)' => Receiving(v, o)
          BY <1>3, <1>4, <1>5, <3>2 DEF Receiving
        <5>2. \A v \in MqSenders : Sending(v, o)' <=> Sending(v, o)
          BY <1>1 DEF Sending
        <5> QED  BY <5>1, <5>2 DEF Held
      <4> QED  BY <1>1, <3>1, <4>1, <4>2 DEF Home
    <3>3. CASE o = q
      <4>1. mqs'[o].msgs = Tail(old.msgs) /\ mqs'[o].lost = <<>> /\ mqs[o].msgs = old.msgs
        BY <2>1, <2>4, <2>5, <2>a, <3>3
      <4>2. ASSUME NEW k \in DOMAIN Tail(old.msgs) PROVE mqSend[Tail(old.msgs)[k][1]].mq = o
        <5>1. k + 1 \in DOMAIN old.msgs /\ Tail(old.msgs)[k] = old.msgs[k + 1]
          BY <2>1, Tailed
        <5> QED  BY <3>1, <4>1, <5>1 DEF Home
      <4>3. /\ mqs'[o].lost # <<>> => o # mqName' /\ ~Held(o, {})' /\ mqs'[o].msgs = <<>>
            /\ \A k \in DOMAIN mqs'[o].lost : mqSend'[mqs'[o].lost[k][1]].mq = o
        BY <4>1
      <4>4. \A k \in DOMAIN mqs'[o].msgs : mqSend'[mqs'[o].msgs[k][1]].mq = o
        BY <1>1, <4>1, <4>2
      <4> QED  BY <4>3, <4>4 DEF Home
    <3> QED  BY <3>2, <3>3
  <2> DEFINE A == WhereIn(mqs, taken)  B == WhereIn(mqs', taken')
             Q == QueuePlace(q)  T == TakenPlace(r)
  <2>9. /\ A \in [PlacesIn(mqs) -> Seq(MqSenders \X Nat)]
        /\ \A o \in 1 .. Len(mqs) :
              /\ QueuePlace(o) \in PlacesIn(mqs) /\ A[QueuePlace(o)] = mqs[o].msgs
              /\ LostPlace(o) \in PlacesIn(mqs) /\ A[LostPlace(o)] = mqs[o].lost
        /\ \A v \in MqReceivers : TakenPlace(v) \in PlacesIn(mqs) /\ A[TakenPlace(v)] = taken[v]
        /\ \A p \in PlacesIn(mqs) :
              \/ \E o \in 1 .. Len(mqs) : p = QueuePlace(o) \/ p = LostPlace(o)
              \/ \E v \in MqReceivers : p = TakenPlace(v)
    BY WhereIs
  <2>10. /\ DOMAIN B = PlacesIn(mqs)
         /\ \A o \in 1 .. Len(mqs) :
               B[QueuePlace(o)] = mqs'[o].msgs /\ B[LostPlace(o)] = mqs'[o].lost
         /\ \A v \in MqReceivers : B[TakenPlace(v)] = taken'[v]
    BY <2>5, <2>6, WhereIs
  <2>11. Order(A, mqSend, Len(mqs))
    BY DEF MqIInv, MqOrder
  <2> HIDE DEF A, B
  <2>12. A[Q] = old.msgs /\ A[T] = taken[r] /\ Q \in PlacesIn(mqs) /\ T \in PlacesIn(mqs) /\ Q # T
    BY <1>3, <2>1, <2>9, PlacesDiffer
  <2>13. ASSUME NEW p \in PlacesIn(mqs)
         PROVE  B[p] = IF p = Q THEN Tail(A[p])
                       ELSE IF p = T THEN Append(A[p], Head(A[Q])) ELSE A[p]
    <3>1. ASSUME NEW o \in 1 .. Len(mqs), o # q, p = QueuePlace(o) \/ p = LostPlace(o)
          PROVE  p # Q /\ p # T /\ B[p] = A[p]
      <4>1. mqs'[o] = mqs[o] /\ QueuePlace(o) # Q /\ LostPlace(o) # Q
        BY <2>5, <3>1, PlacesDiffer
      <4>2. /\ A[QueuePlace(o)] = mqs[o].msgs /\ A[LostPlace(o)] = mqs[o].lost
            /\ B[QueuePlace(o)] = mqs[o].msgs /\ B[LostPlace(o)] = mqs[o].lost
        BY <2>9, <2>10, <4>1, Zenon
      <4>3. QueuePlace(o) # T /\ LostPlace(o) # T
        BY PlacesDiffer
      <4> QED  BY <3>1, <4>1, <4>2, <4>3, Zenon
    <3>2. CASE p = QueuePlace(q)
      <4>1. B[p] = Tail(old.msgs)
        BY <1>3, <2>4, <2>5, <2>10, <3>2
      <4> QED  BY <2>12, <3>2, <4>1
    <3>3. CASE p = LostPlace(q)
      <4>0. mqs'[q] = queue /\ mqs[q] = old
        BY <1>3, <2>1, <2>5
      <4>1. B[p] = A[p] /\ p # Q /\ p # T
        BY <1>3, <2>4, <2>9, <2>10, <3>3, <4>0, PlacesDiffer, Zenon
      <4> QED  BY <4>1
    <3>4. ASSUME NEW v \in MqReceivers, v # r, p = TakenPlace(v)
          PROVE  p # Q /\ p # T /\ B[p] = A[p]
      BY <2>6, <2>9, <2>10, <3>4, PlacesDiffer
    <3>5. CASE p = TakenPlace(r)
      <4>1. B[p] = Append(A[p], Head(A[Q])) /\ p # Q
        BY <2>6, <2>10, <2>12, <3>5 DEF m
      <4> QED  BY <3>5, <4>1
    <3> QED  BY <2>9, <3>1, <3>2, <3>3, <3>4, <3>5
  <2>14. MovedTo(PlacesIn(mqs), MqSenders, A, B, Q, T)
    <3>1. Once(A) /\ Ascending(A) /\ Earlier(A, T, Q) /\ A[Q] # <<>>
      BY <1>3, <2>1, <2>11, <2>12 DEF Order
    <3> HIDE DEF Q, T
    <3> QED  BY <2>9, <2>10, <2>12, <2>13, <3>1 DEF MovedTo
  <2>b. /\ 1 \in DOMAIN old.msgs /\ A[Q][1][1] \in MqSenders /\ mqSend[A[Q][1][1]].mq = q
    <3>1. 1 \in DOMAIN old.msgs /\ old.msgs[1] \in MqMessages
      BY <2>1
    <3>2. Home(q)
      BY <1>3 DEF MqIInv, MqHomes
    <3> QED  BY <2>1, <2>12, <3>1, <3>2 DEF Home, MqMessages
  <2> HIDE DEF Q, T
  <2>15. /\ Once(B) /\ Ascending(B) /\ Earlier(B, T, Q)
         /\ \A o : Among(B, o) <=> Among(A, o)
         /\ \A o, p \in PlacesIn(mqs) :
               o \notin {Q, T} /\ p # T /\ Earlier(A, o, p) => Earlier(B, o, p)
         /\ \A p \in PlacesIn(mqs) :
               p \notin {Q, T} /\ Earlier(A, T, p) /\ Strange(A, Q, p) => Earlier(B, T, p)
    BY <2>14, Moved
  <2>16. ASSUME NEW v \in MqReceivers, NEW o \in 1 .. Len(mqs)
         PROVE  Earlier(B, TakenPlace(v), QueuePlace(o)) /\ Earlier(B, TakenPlace(v), LostPlace(o))
    <3>1. /\ Earlier(A, TakenPlace(v), QueuePlace(o)) /\ Earlier(A, TakenPlace(v), LostPlace(o))
          /\ QueuePlace(o) # T /\ LostPlace(o) # T /\ LostPlace(o) # Q
          /\ QueuePlace(o) \in PlacesIn(mqs) /\ LostPlace(o) \in PlacesIn(mqs)
          /\ TakenPlace(v) \in PlacesIn(mqs)
      BY <2>9, <2>11, PlacesDiffer DEF Order, Q, T
    <3>2. CASE v # r
      <4>1. TakenPlace(v) \notin {Q, T}
        BY <3>2, PlacesDiffer DEF Q, T
      <4> QED  BY <2>15, <3>1, <4>1
    <3>3. CASE v = r
      <4>1. TakenPlace(v) = T
        BY <3>3 DEF T
      <4>2. Home(o)
        BY DEF MqIInv, MqHomes
      <4>3. CASE o = q
        <5>1. QueuePlace(o) = Q
          BY <4>3 DEF Q
        <5>2. A[LostPlace(o)] = <<>>
          BY <2>1, <2>9, <2>a, <4>3
        <5>3. Strange(A, Q, LostPlace(o))
          BY <5>2 DEF Strange
        <5> QED  BY <2>15, <3>1, <4>1, <5>1, <5>3
      <4>4. CASE o # q
        <5>1. QueuePlace(o) # Q
          BY <4>4, PlacesDiffer DEF Q
        <5>2. Strange(A, Q, QueuePlace(o)) /\ Strange(A, Q, LostPlace(o))
          <6>1. /\ A[QueuePlace(o)] = mqs[o].msgs /\ A[LostPlace(o)] = mqs[o].lost
            BY <2>9
          <6> QED  BY <2>b, <4>2, <4>4, <6>1 DEF Home, Strange
        <5> QED  BY <2>15, <3>1, <4>1, <5>1, <5>2
      <4> QED  BY <4>3, <4>4
    <3> QED  BY <3>2, <3>3
  <2>17. MqOrder'
    <3>1. Order(B, mqSend, Len(mqs))
      BY <2>11, <2>15, <2>16 DEF Order
    <3> QED  BY <1>1, <2>5, <3>1 DEF MqOrder, B
  <2>18. MqCounts'
    <3>1. Counted(r)' /\ Lag(r)'
      <4>1. n <= MqLoops - 1
        BY <1>1, <1>3, <1>2
      <4>2. /\ mqRecv'[r].pc = "num" /\ mqRecv'[r].num = n /\ mqRecv'[r].i = n
            /\ mqRecv'[r].len = n * MsgSize /\ mqRecv'[r].mq \in 1 .. Len(mqs')
            /\ shownTotals'[r] = <<>>
        BY <1>1, <1>3, <1>4, <1>5, <2>2, <2>5
      <4>3. n \in Nat /\ Len(taken'[r]) = n + 1
        BY <1>2, <2>6
      <4>4. Lag(r)'
        BY <4>2 DEF Lag
      <4>5. Counted(r)'
        <5> HIDE DEF n
        <5> HIDE MqTyped
        <5> QED  BY <4>1, <4>2, <4>3 DEF Counted
      <4> QED  BY <4>4, <4>5
    <3>2. ASSUME NEW v \in MqReceivers, v # r PROVE (Counted(v) /\ Lag(v))'
      <4>1. mqRecv'[v] = mqRecv[v] /\ taken'[v] = taken[v] /\ shownTotals'[v] = shownTotals[v]
        BY <1>1, <1>5, <2>6, <3>2
      <4> QED  BY <2>5, <4>1 DEF MqIInv, MqCounts, Counted, Lag
    <3> QED  BY <1>1, <2>5, <3>1, <3>2 DEF MqIInv, MqCounts
  <2> QED  BY <2>7, <2>8, <2>17, <2>18 DEF MqIInv
<1> QED  BY <1>6, <1>7

LEMMA MqNextIInv == ASSUME MqIInv, [MqNext]_mqVars PROVE MqIInv'
  BY MqUnchanged, MqCreate, MqUnlinkStep, MqSendOpen, MqSendLoop, MqSendEnds, MqRecvOpen,
     MqReceive, MqAddNum, MqAddLen, MqRecvEnds DEF MqNext

LEMMA MqInvAccounted == MqIInv => TotalsLagByOne /\ EachOnceInOrder /\ LostWithQueue
<1> SUFFICES ASSUME MqIInv PROVE TotalsLagByOne /\ EachOnceInOrder /\ LostWithQueue
  OBVIOUS
<1> DEFINE W == WhereIn(mqs, taken)
<1>1. TotalsLagByOne
  BY DEF MqIInv, MqCounts, Lag, TotalsLagByOne
<1>2. PlacesIn(mqs) = MqPlaces /\ DOMAIN W = MqPlaces /\ \A p \in MqPlaces : W[p] = MqAt(p)
  BY DEF PlacesIn, MqPlaces, WhereIn, AtIn, MqAt
<1>3. Order(W, mqSend, Len(mqs))
  BY DEF MqIInv, MqOrder
<1>4. \A q \in 1 .. Len(mqs) : W[LostPlace(q)] = mqs[q].lost
  BY MqTyped, WhereIs
<1>5. \A r \in MqReceivers : W[TakenPlace(r)] = taken[r]
  BY MqTyped, WhereIs
<1> HIDE DEF W
<1>6. \A s \in MqSenders, t \in 0 .. (MqLoops - 1) :
         t < mqSend[s].times <=> \E p \in MqPlaces : \E k \in DOMAIN MqAt(p) : MqAt(p)[k] = <<s, t>>
  <2>1. \A n : Among(W, n) <=> \E p \in MqPlaces : \E k \in DOMAIN MqAt(p) : MqAt(p)[k] = n
    BY <1>2 DEF Among
  <2> QED  BY <1>3, <2>1 DEF Order
<1>7. \A p, p2 \in MqPlaces : \A k \in DOMAIN MqAt(p), k2 \in DOMAIN MqAt(p2) :
         MqAt(p)[k] = MqAt(p2)[k2] => p = p2 /\ k = k2
  BY <1>2, <1>3 DEF Order, Once
<1>8. \A p \in MqPlaces : \A j, k \in DOMAIN MqAt(p) :
         j < k /\ MqAt(p)[j][1] = MqAt(p)[k][1] => MqAt(p)[j][2] < MqAt(p)[k][2]
  BY <1>2, <1>3 DEF Order, Ascending
<1>9. LostWithQueue
  <2>1. \A q \in 1 .. Len(mqs), r \in MqReceivers : Earlier(W, TakenPlace(r), LostPlace(q))
    BY <1>3 DEF Order
  <2> QED  BY <1>4, <1>5, <2>1 DEF MqIInv, MqHomes, Home, LostWithQueue, Earlier
<1> QED  BY <1>1, <1>6, <1>7, <1>8, <1>9 DEF EachOnceInOrder

-----------------------------------------------------------------------------
(* LockedFile.  Only who has the lock writes, and what it has written      *)
(* itself is in its place as long as no write of its own was short.  What  *)
(* a copier has read since the file was opened and last written is its     *)
(* beginning, cut where the copy ends.                                     *)

LockerRecord ==
    [pc : {"open", "lock", "write", "fsync", "unlock", "closed", "exit"},
     i : 0 .. CNT, offset : 0 .. Length, short : BOOLEAN]
CopierRecord ==
    [pc : {"open", "create", "read", "write", "end copy", "exit"},
     offset : Nat, buffer : Seq(0 .. Length), short : BOOLEAN]

LockerHolds(l) ==
    LET me == lockers[l]
    IN /\ me.pc \in {"write", "fsync", "unlock"} => lock = l
       /\ me.pc \in {"open", "lock", "closed", "exit"} => me.i = 0 /\ me.offset = 0
       /\ me.pc = "write" => me.i < CNT
       /\ me.pc \in {"fsync", "unlock"} => me.i = CNT
       /\ me.offset <= me.i * RecordBytes /\ me.offset <= Len(file)
       /\ ~me.short => /\ me.offset = me.i * RecordBytes
                       /\ \A k \in 1 .. me.offset : file[k] = k

Copied(c) ==
    LET b == newFile.bytes  u == copiers[c].buffer
    IN /\ Len(b) + Len(u) = copiers[c].offset /\ copiers[c].offset <= Len(file)
       /\ \A k \in 1 .. Len(b) : b[k] = file[k]
       /\ \A k \in 1 .. Len(u) : u[k] = file[Len(b) + k]

CopierHolds(c) ==
    LET me == copiers[c]
    IN /\ untouched[c] = {} \/ untouched[c] = {file}
       /\ me.pc \in {"read", "write", "end copy"} => newFile.by = c
       /\ me.pc \in {"open", "create"} => me.offset = 0 /\ me.buffer = <<>>
       /\ me.pc \in {"read", "end copy"} => me.buffer = <<>>
       /\ me.pc \in {"read", "write", "end copy"} /\ untouched[c] # {} /\ ~me.short =>
             Copied(c) /\ (me.pc = "end copy" => me.offset = Len(file))

FileIInv ==
    /\ FileTypeOK
    /\ newFile.by = Nobody => newFile.bytes = <<>>
    /\ \A l \in Lockers : LockerHolds(l)
    /\ \A c \in Copiers : CopierHolds(c)

LEMMA FileNumbers ==
    /\ RecordBytes \in Nat /\ RecordBytes > 0 /\ CNT \in Nat /\ BufferLen \in Nat
    /\ BufferLen > 0 /\ Length \in Nat /\ Nobody \notin Lockers /\ Nobody \notin Copiers
<1>1. RecordBytes \in Nat /\ CNT \in Nat
  BY LockedFileAssumption
<1>2. CNT * RecordBytes \in Nat
  BY <1>1
<1> QED  BY <1>1, <1>2, LockedFileAssumption DEF Length

LEMMA LockerTypes ==
    ASSUME FileIInv
    PROVE  /\ lockers \in [Lockers -> LockerRecord] /\ copiers \in [Copiers -> CopierRecord]
           /\ file \in Seq(0 .. Length) /\ Len(file) <= Length + 1 /\ exists \in BOOLEAN
           /\ lock \in Lockers \cup {Nobody} /\ untouched \in [Copiers -> SUBSET Seq(0 .. Length)]
           /\ newFile \in [by : Copiers \cup {Nobody}, bytes : Seq(0 .. Length)]
           /\ \A l \in Lockers : LockerHolds(l)
           /\ \A c \in Copiers : CopierHolds(c)
BY DEF FileIInv, FileTypeOK, LockerRecord, CopierRecord

(* The records behind record i begin where it ends, and it is not longer   *)
(* than the text of all of them.                                           *)
LEMMA RecordEnds ==
    ASSUME NEW i \in Nat, i < CNT
    PROVE  /\ (i + 1) * RecordBytes = i * RecordBytes + RecordBytes
           /\ i * RecordBytes \in Nat /\ (i + 1) * RecordBytes <= Length
<1>1. RecordBytes \in Nat /\ CNT \in Nat
  BY FileNumbers
<1>2. PICK rest \in Nat : CNT = i + 1 + rest
  <2>1. CNT - (i + 1) \in Nat /\ CNT = i + 1 + (CNT - (i + 1))
    BY <1>1
  <2> QED  BY <2>1
<1>3. (i + 1 + rest) * RecordBytes = (i + 1) * RecordBytes + rest * RecordBytes
  BY <1>1
<1>4. rest * RecordBytes \in Nat /\ (i + 1) * RecordBytes \in Nat /\ i * RecordBytes \in Nat
  BY <1>1
<1>5. (i + 1) * RecordBytes = i * RecordBytes + RecordBytes
  BY <1>1
<1> QED  BY <1>2, <1>3, <1>4, <1>5 DEF Length

LEMMA Larger ==
    ASSUME NEW a \in Int, NEW b \in Int
    PROVE  Max({a, b}) = IF a >= b THEN a ELSE b
<1>1. \E x \in {a, b} : \A y \in {a, b} : x >= y
  OBVIOUS
<1>2. Max({a, b}) \in {a, b} /\ \A y \in {a, b} : Max({a, b}) >= y
  BY <1>1 DEF Max
<1> QED  BY <1>2

LEMMA Smaller ==
    ASSUME NEW a \in Int, NEW b \in Int
    PROVE  Min({a, b}) = IF a <= b THEN a ELSE b
<1>1. \E x \in {a, b} : \A y \in {a, b} : x <= y
  OBVIOUS
<1>2. Min({a, b}) \in {a, b} /\ \A y \in {a, b} : Min({a, b}) <= y
  BY <1>1 DEF Min
<1> QED  BY <1>2

LEMMA FileInitIInv == FileInit => FileIInv
<1> SUFFICES ASSUME FileInit PROVE FileIInv
  OBVIOUS
<1>1. Length \in Nat /\ CNT \in Nat /\ RecordBytes \in Nat
  BY FileNumbers
<1>2. file \in Seq(0 .. Length) /\ Len(file) <= Length + 1 /\ exists \in BOOLEAN
  <2>1. Older \in Seq(0 .. Length) /\ Len(Older) = Length + 1
    BY <1>1 DEF Older
  <2>2. Absent \in Seq(0 .. Length) /\ Len(Absent) = 0
    BY DEF Absent
  <2>3. file = Older \/ file = Absent
    BY DEF FileInit
  <2>4. exists \in BOOLEAN
    BY DEF FileInit
  <2>5. CASE file = Older
    BY <1>1, <2>1, <2>4, <2>5
  <2>6. CASE file = Absent
    <3>1. file \in Seq(0 .. Length) /\ Len(file) = 0
      BY <2>2, <2>6
    <3> QED  BY <1>1, <2>4, <3>1
  <2> QED  BY <2>3, <2>5, <2>6
<1>3. LockerIn("open") \in LockerRecord
  BY <1>1, FALSE \in BOOLEAN DEF LockerIn, LockerRecord
<1>4. CopierIn("open") \in CopierRecord
  BY FALSE \in BOOLEAN DEF CopierIn, CopierRecord
<1>5. lockers \in [Lockers -> LockerRecord] /\ copiers \in [Copiers -> CopierRecord]
  BY <1>3, <1>4 DEF FileInit
<1>6. newFile \in [by : Copiers \cup {Nobody}, bytes : Seq(0 .. Length)]
  BY DEF FileInit
<1>7. FileTypeOK
  BY <1>2, <1>5, <1>6 DEF FileInit, FileTypeOK, LockerRecord, CopierRecord
<1>8. ASSUME NEW l \in Lockers PROVE LockerHolds(l)
  <2>1. lockers[l] = [pc |-> "open", i |-> 0, offset |-> 0, short |-> FALSE]
    BY DEF FileInit, LockerIn
  <2>2. 0 * RecordBytes = 0 /\ Len(file) \in Nat
    BY <1>1, <1>2
  <2> QED  BY <2>1, <2>2 DEF LockerHolds
<1>9. ASSUME NEW c \in Copiers PROVE CopierHolds(c)
  <2>1. copiers[c] = [pc |-> "open", offset |-> 0, buffer |-> <<>>, short |-> FALSE]
    BY DEF FileInit, CopierIn
  <2>2. copiers[c].pc = "open" /\ copiers[c].offset = 0 /\ copiers[c].buffer = <<>>
    BY <2>1
  <2>3. untouched[c] = {}
    BY DEF FileInit
  <2> QED  BY <2>2, <2>3 DEF CopierHolds
<1> QED  BY <1>7, <1>8, <1>9 DEF FileIInv, FileInit

(* A step of a locker that writes nothing.                                 *)
LEMMA LockerOnly ==
    ASSUME FileIInv, NEW l \in Lockers, NEW new \in LockerRecord,
           lockers' = [lockers EXCEPT ![l] = new], exists' \in BOOLEAN,
           lock' \in Lockers \cup {Nobody}, lock' # lock => lock \in {Nobody, l},
           UNCHANGED <<file, copiers, newFile, untouched>>, LockerHolds(l)'
    PROVE  FileIInv'
<1>0. /\ lockers \in [Lockers -> LockerRecord] /\ lock \in Lockers \cup {Nobody}
      /\ Nobody \notin Lockers
  BY LockerTypes, FileNumbers
<1>1. lockers' \in [Lockers -> LockerRecord] /\ \A m \in Lockers \ {l} : lockers'[m] = lockers[m]
  BY <1>0
<1>2. FileTypeOK'
  BY <1>1 DEF FileIInv, FileTypeOK, LockerRecord
<1>3. ASSUME NEW m \in Lockers PROVE LockerHolds(m)'
  <2>1. CASE m = l
    BY <2>1
  <2>2. CASE m # l
    <3>1. LockerHolds(m) /\ lockers'[m] = lockers[m]
      BY <1>1, <2>2 DEF FileIInv
    <3>2. lock = m => lock' = m
      BY <1>0, <2>2
    <3> QED  BY <3>1, <3>2 DEF LockerHolds
  <2> QED  BY <2>1, <2>2
<1>4. ASSUME NEW c \in Copiers PROVE CopierHolds(c)'
  BY DEF FileIInv, CopierHolds, Copied
<1> QED  BY <1>2, <1>3, <1>4 DEF FileIInv

LEMMA LockerGone == ASSUME FileIInv, NEW l \in Lockers, NEW pc \in {"closed", "exit"},
                           lockers' = [lockers EXCEPT ![l] = LockerIn(pc)], UNCHANGED file
                    PROVE  LockerIn(pc) \in LockerRecord /\ LockerHolds(l)'
<1>0. lockers \in [Lockers -> LockerRecord] /\ file \in Seq(0 .. Length)
  BY LockerTypes
<1>1. LockerIn(pc) \in LockerRecord
  BY FileNumbers, FALSE \in BOOLEAN DEF LockerIn, LockerRecord
<1>2. lockers'[l] = [pc |-> pc, i |-> 0, offset |-> 0, short |-> FALSE]
  BY <1>0 DEF LockerIn
<1>3. 0 * RecordBytes = 0 /\ Len(file') \in Nat
  BY <1>0, FileNumbers
<1> QED  BY <1>1, <1>2, <1>3 DEF LockerHolds

LEMMA LockerGoes ==
    ASSUME FileIInv, NEW l \in Lockers, LockerExits(l), exists' \in BOOLEAN,
           UNCHANGED <<file, copiers, newFile, untouched>>
    PROVE  FileIInv'
<1>1. lockers' = [lockers EXCEPT ![l] = LockerIn("exit")]
      /\ lock' = IF lock = l THEN Nobody ELSE lock
  BY DEF LockerExits
<1>2. lock' \in Lockers \cup {Nobody} /\ (lock' # lock => lock \in {Nobody, l})
  BY <1>1, LockerTypes
<1> QED  BY <1>1, <1>2, LockerGone, LockerOnly

(* What a step to another place changes of a locker's record.              *)
LEMMA LockerAt ==
    ASSUME FileIInv, NEW l \in Lockers, NEW pc \in {"lock", "write", "unlock"},
           lockers' = [lockers EXCEPT ![l].pc = pc], UNCHANGED file
    PROVE  \E new \in LockerRecord :
              /\ lockers' = [lockers EXCEPT ![l] = new] /\ lockers'[l] = new
              /\ new.pc = pc /\ new.i = lockers[l].i
              /\ new.offset = lockers[l].offset /\ new.short = lockers[l].short
<1> DEFINE old == lockers[l]  new == [old EXCEPT !.pc = pc]
<1>0. lockers \in [Lockers -> LockerRecord]
  BY LockerTypes
<1>1. old \in LockerRecord
  BY <1>0
<1>2. lockers' = [lockers EXCEPT ![l] = new] /\ lockers'[l] = new
  BY <1>0
<1> HIDE DEF old
<1>3. /\ new \in LockerRecord /\ new.pc = pc /\ new.i = old.i /\ new.offset = old.offset
      /\ new.short = old.short
  BY <1>1 DEF LockerRecord
<1> HIDE DEF new
<1> QED  BY <1>2, <1>3 DEF old

LEMMA FileLockerOpens == ASSUME FileIInv, NEW l \in Lockers, LockerOpens(l) PROVE FileIInv'
<1>1. lockers[l].pc = "open" /\ UNCHANGED <<file, copiers, newFile, untouched>>
  BY DEF LockerOpens
<1>2. CASE LockerExits(l) /\ UNCHANGED exists
  BY <1>1, <1>2, LockerGoes, LockerTypes
<1>3. CASE exists' = TRUE /\ lockers' = [lockers EXCEPT ![l].pc = "lock"] /\ UNCHANGED lock
  <2>1. PICK new \in LockerRecord :
              /\ lockers' = [lockers EXCEPT ![l] = new] /\ lockers'[l] = new
              /\ new.pc = "lock" /\ new.i = lockers[l].i
              /\ new.offset = lockers[l].offset /\ new.short = lockers[l].short
    BY <1>1, <1>3, LockerAt
  <2>2. LockerHolds(l)'
    BY <1>1, <2>1, LockerTypes DEF LockerHolds
  <2> QED  BY <1>1, <1>3, <2>1, <2>2, LockerOnly, LockerTypes
<1> QED  BY <1>2, <1>3 DEF LockerOpens

LEMMA FileLockerLocks == ASSUME FileIInv, NEW l \in Lockers, LockerLocks(l) PROVE FileIInv'
<1>1. lockers[l].pc = "lock" /\ UNCHANGED <<file, exists, copiers, newFile, untouched>>
  BY DEF LockerLocks
<1>2. CASE LockerExits(l)
  BY <1>1, <1>2, LockerGoes, LockerTypes
<1>3. CASE lock = Nobody /\ lock' = l /\ lockers' = [lockers EXCEPT ![l].pc = "write"]
  <2>1. PICK new \in LockerRecord :
              /\ lockers' = [lockers EXCEPT ![l] = new] /\ lockers'[l] = new
              /\ new.pc = "write" /\ new.i = lockers[l].i
              /\ new.offset = lockers[l].offset /\ new.short = lockers[l].short
    BY <1>1, <1>3, LockerAt
  <2>2. LockerHolds(l)'
    <3>1. 0 < CNT
      BY LockedFileAssumption
    <3> QED  BY <1>1, <1>3, <2>1, <3>1, LockerTypes DEF LockerHolds
  <2> QED  BY <1>1, <1>3, <2>1, <2>2, LockerOnly, LockerTypes
<1> QED  BY <1>2, <1>3 DEF LockerLocks

LEMMA FileLockerSyncs == ASSUME FileIInv, NEW l \in Lockers, LockerSyncs(l) PROVE FileIInv'
<1>1. lockers[l].pc = "fsync" /\ UNCHANGED <<file, exists, copiers, newFile, untouched>>
  BY DEF LockerSyncs
<1>2. CASE LockerExits(l)
  BY <1>1, <1>2, LockerGoes, LockerTypes
<1>3. CASE lockers' = [lockers EXCEPT ![l].pc = "unlock"] /\ UNCHANGED lock
  <2>1. PICK new \in LockerRecord :
              /\ lockers' = [lockers EXCEPT ![l] = new] /\ lockers'[l] = new
              /\ new.pc = "unlock" /\ new.i = lockers[l].i
              /\ new.offset = lockers[l].offset /\ new.short = lockers[l].short
    BY <1>1, <1>3, LockerAt
  <2>2. LockerHolds(l)'
    BY <1>1, <1>3, <2>1, LockerTypes DEF LockerHolds
  <2> QED  BY <1>1, <1>3, <2>1, <2>2, LockerOnly, LockerTypes
<1> QED  BY <1>2, <1>3 DEF LockerSyncs

LEMMA FileLockerUnlocks == ASSUME FileIInv, NEW l \in Lockers, LockerUnlocks(l) PROVE FileIInv'
<1>1. lockers[l].pc = "unlock" /\ lock' = Nobody
      /\ UNCHANGED <<file, exists, copiers, newFile, untouched>>
  BY DEF LockerUnlocks
<1>2. PICK pc \in {"closed", "exit"} : lockers' = [lockers EXCEPT ![l] = LockerIn(pc)]
  BY DEF LockerUnlocks
<1>3. lock = l /\ exists \in BOOLEAN
  BY <1>1, LockerTypes DEF LockerHolds
<1>4. LockerIn(pc) \in LockerRecord /\ LockerHolds(l)'
  BY <1>1, <1>2, LockerGone
<1> QED  BY <1>1, <1>2, <1>3, <1>4, LockerOnly

LEMMA FileLockerWrites == ASSUME FileIInv, NEW l \in Lockers, LockerWrites(l) PROVE FileIInv'
<1> DEFINE me == lockers[l]
<1>0. /\ lockers \in [Lockers -> LockerRecord] /\ copiers \in [Copiers -> CopierRecord]
      /\ file \in Seq(0 .. Length) /\ Len(file) <= Length + 1
      /\ RecordBytes \in Nat /\ RecordBytes > 0 /\ CNT \in Nat /\ Length \in Nat
  BY LockerTypes, FileNumbers
<1>1. me.pc = "write" /\ UNCHANGED <<exists, copiers, newFile>>
  BY DEF LockerWrites
<1>2. CASE LockerExits(l) /\ UNCHANGED <<file, untouched>>
  BY <1>1, <1>2, LockerGoes, LockerTypes
<1>3. ASSUME NEW n \in 1 .. RecordBytes, file' = Overlaid(me.offset, n, me.i * RecordBytes),
             lockers' = [lockers EXCEPT ![l] =
                 [pc |-> IF me.i + 1 = CNT THEN "fsync" ELSE "write", i |-> me.i + 1,
                  offset |-> me.offset + n, short |-> me.short \/ n < RecordBytes]],
             untouched' = [c \in Copiers |-> {}], UNCHANGED lock
      PROVE  FileIInv'
  <2> DEFINE i == me.i  o == me.offset  from == i * RecordBytes
             m == IF Len(file) >= o + n THEN Len(file) ELSE o + n
             short == me.short \/ n < RecordBytes
             pc == IF i + 1 = CNT THEN "fsync" ELSE "write"
             new == [pc |-> pc, i |-> i + 1, offset |-> o + n, short |-> short]
  <2>1. me \in LockerRecord /\ LockerHolds(l)
    BY <1>0, LockerTypes
  <2>2. i \in 0 .. CNT /\ o \in 0 .. Length /\ i < CNT /\ o <= from /\ o <= Len(file) /\ lock = l
        /\ me.short \in BOOLEAN
    BY <1>1, <2>1 DEF LockerHolds, LockerRecord
  <2>3. (~me.short => o = from /\ \A k \in 1 .. o : file[k] = k)
    BY <2>1 DEF LockerHolds
  <2>4. /\ from \in Nat /\ (i + 1) * RecordBytes = from + RecordBytes
        /\ from + RecordBytes <= Length
    <3>1. i \in Nat /\ i < CNT
      BY <1>0, <2>2
    <3> HIDE DEF i
    <3>2. /\ (i + 1) * RecordBytes = i * RecordBytes + RecordBytes
          /\ i * RecordBytes \in Nat /\ (i + 1) * RecordBytes <= Length
      BY <3>1, RecordEnds
    <3> QED  BY <3>2
  <2>5. lockers' = [lockers EXCEPT ![l] = new] /\ file' = Overlaid(o, n, from)
    BY <1>3
  <2> HIDE DEF me, i, o, from
  <2>6. Len(file) \in Nat /\ m \in Nat /\ m <= Length + 1 /\ o + n <= m /\ Len(file) <= m
        /\ o + n <= Length /\ o + n \in Nat
    BY <1>0, <2>2, <2>4
  <2>7. file' = [k \in 1 .. m |-> IF k \in (o + 1) .. (o + n) THEN from + k - o ELSE file[k]]
    <3>1. Max({Len(file), o + n}) = m
      BY <2>6, Larger
    <3> QED  BY <2>5, <3>1 DEF Overlaid
  <2> HIDE DEF m
  <2>8. ASSUME NEW k \in 1 .. m PROVE file'[k] \in 0 .. Length
    <3>1. CASE k \in (o + 1) .. (o + n)
      <4>1. file'[k] = from + k - o
        BY <2>7, <3>1
      <4> QED  BY <1>0, <2>2, <2>4, <3>1, <4>1
    <3>2. CASE k \notin (o + 1) .. (o + n)
      <4>1. file'[k] = file[k]
        BY <2>7, <3>2
      <4>2. k \in 1 .. Len(file)
        BY <2>2, <2>6, <3>2 DEF m
      <4> QED  BY <1>0, <4>1, <4>2
    <3> QED  BY <3>1, <3>2
  <2>9. file' \in Seq(0 .. Length) /\ Len(file') = m
    BY <2>6, <2>7, <2>8
  <2>10. short \in BOOLEAN /\ (~short => ~me.short /\ n = RecordBytes)
    BY <1>0
  <2>11. i + 1 \in 0 .. CNT /\ o + n \in 0 .. Length
    BY <1>0, <2>2, <2>6
  <2> HIDE DEF short
  <2>12. new \in LockerRecord /\ new.pc = pc /\ new.i = i + 1 /\ new.offset = o + n
         /\ new.short = short
    <3>1. pc \in {"open", "lock", "write", "fsync", "unlock", "closed", "exit"}
      OBVIOUS
    <3> HIDE DEF pc
    <3> QED  BY <2>10, <2>11, <3>1 DEF LockerRecord
  <2>13. pc \in {"write", "fsync"} /\ (pc = "write" => i + 1 < CNT) /\ (pc = "fsync" => i + 1 = CNT)
    BY <1>0, <2>2
  <2> HIDE DEF new, pc
  <2>14. lockers' \in [Lockers -> LockerRecord] /\ lockers'[l] = new
         /\ \A v \in Lockers \ {l} : lockers'[v] = lockers[v]
    BY <1>0, <2>5, <2>12
  <2>15. FileTypeOK'
    BY <1>1, <1>3, <2>6, <2>9, <2>14 DEF FileIInv, FileTypeOK, LockerRecord
  <2>16. LockerHolds(l)'
    <3>1. o + n <= (i + 1) * RecordBytes
      BY <1>0, <2>2, <2>4
    <3>2. ASSUME ~short
          PROVE  o + n = (i + 1) * RecordBytes /\ \A k \in 1 .. (o + n) : file'[k] = k
      <4>1. o = from /\ n = RecordBytes /\ \A k \in 1 .. o : file[k] = k
        BY <2>3, <2>10, <3>2
      <4>2. ASSUME NEW k \in 1 .. (o + n) PROVE file'[k] = k
        <5>1. k \in 1 .. m
          BY <2>6
        <5>2. CASE k \in (o + 1) .. (o + n)
          BY <2>2, <2>4, <2>7, <4>1, <5>1, <5>2
        <5>3. CASE k \notin (o + 1) .. (o + n)
          <6>1. k \in 1 .. o
            BY <2>2, <5>3
          <6> QED  BY <2>7, <4>1, <5>1, <5>3, <6>1
        <5> QED  BY <5>2, <5>3
      <4> QED  BY <2>4, <4>1, <4>2
    <3> QED  BY <1>3, <2>2, <2>6, <2>9, <2>12, <2>13, <2>14, <3>1, <3>2 DEF LockerHolds
  <2>17. ASSUME NEW v \in Lockers, v # l PROVE LockerHolds(v)'
    <3>1. LockerHolds(v) /\ lockers'[v] = lockers[v] /\ lock # v /\ lockers[v] \in LockerRecord
      BY <1>0, <2>2, <2>14, <2>17, LockerTypes
    <3>2. lockers[v].pc \in {"open", "lock", "closed", "exit"}
          /\ lockers[v].i = 0 /\ lockers[v].offset = 0
      BY <3>1 DEF LockerHolds, LockerRecord
    <3>3. 0 * RecordBytes = 0
      BY <1>0
    <3> QED  BY <2>6, <2>9, <3>1, <3>2, <3>3 DEF LockerHolds
  <2>18. ASSUME NEW c \in Copiers PROVE CopierHolds(c)'
    <3>1. untouched'[c] = {}
      BY <1>3
    <3>2. CopierHolds(c)
      BY LockerTypes
    <3> QED  BY <1>1, <3>1, <3>2 DEF CopierHolds
  <2> QED  BY <1>1, <2>15, <2>16, <2>17, <2>18 DEF FileIInv
<1> QED  BY <1>2, <1>3 DEF LockerWrites

(* A step of a copier.  Nobody else is behind the creation of the copy.    *)
LEMMA CopierOnly ==
    ASSUME FileIInv, NEW c \in Copiers, NEW new \in CopierRecord,
           copiers' = [copiers EXCEPT ![c] = new],
           NEW kept \in SUBSET Seq(0 .. Length), untouched' = [untouched EXCEPT ![c] = kept],
           newFile' \in [by : Copiers \cup {Nobody}, bytes : Seq(0 .. Length)],
           newFile' # newFile => newFile.by \in {Nobody, c} /\ newFile'.by = c,
           UNCHANGED <<file, exists, lock, lockers>>, CopierHolds(c)'
    PROVE  FileIInv'
<1>0. /\ copiers \in [Copiers -> CopierRecord] /\ Nobody \notin Copiers
      /\ untouched \in [Copiers -> SUBSET Seq(0 .. Length)]
  BY LockerTypes, FileNumbers
<1>1. /\ copiers' \in [Copiers -> CopierRecord] /\ untouched' \in [Copiers -> SUBSET Seq(0 .. Length)]
      /\ \A d \in Copiers \ {c} : copiers'[d] = copiers[d] /\ untouched'[d] = untouched[d]
  BY <1>0
<1>2. FileTypeOK'
  BY <1>1 DEF FileIInv, FileTypeOK, CopierRecord
<1>3. newFile'.by = Nobody => newFile'.bytes = <<>>
  BY <1>0 DEF FileIInv
<1>4. ASSUME NEW d \in Copiers PROVE CopierHolds(d)'
  <2>1. CASE d = c
    BY <2>1
  <2>2. CASE d # c
    <3>1. CopierHolds(d) /\ copiers'[d] = copiers[d] /\ untouched'[d] = untouched[d]
      BY <1>1, <2>2 DEF FileIInv
    <3>2. copiers[d].pc \in {"read", "write", "end copy"} => newFile.by = d
      BY <3>1 DEF CopierHolds
    <3>3. copiers[d].pc \in {"read", "write", "end copy"} => newFile' = newFile
      BY <1>0, <2>2, <3>2
    <3>4. CASE newFile' = newFile
      <4>1. Copied(d) => Copied(d)'
        BY <3>1, <3>4 DEF Copied
      <4> QED  BY <3>1, <3>4, <4>1 DEF CopierHolds
    <3>5. CASE newFile' # newFile
      <4>1. copiers[d].pc \notin {"read", "write", "end copy"}
        BY <3>3, <3>5
      <4> QED  BY <3>1, <4>1 DEF CopierHolds
    <3> QED  BY <3>4, <3>5
  <2> QED  BY <2>1, <2>2
<1>5. ASSUME NEW l \in Lockers PROVE LockerHolds(l)'
  <2>1. LockerHolds(l)
    BY LockerTypes
  <2> QED  BY <2>1 DEF LockerHolds
<1> QED  BY <1>2, <1>3, <1>4, <1>5 DEF FileIInv

LEMMA CopierGoes ==
    ASSUME FileIInv, NEW c \in Copiers, CopierExits(c),
           UNCHANGED <<file, exists, lock, lockers, newFile>>
    PROVE  FileIInv'
<1>0. /\ copiers \in [Copiers -> CopierRecord]
      /\ untouched \in [Copiers -> SUBSET Seq(0 .. Length)]
      /\ newFile \in [by : Copiers \cup {Nobody}, bytes : Seq(0 .. Length)]
  BY LockerTypes
<1>1. /\ copiers' = [copiers EXCEPT ![c] = CopierIn("exit")]
      /\ untouched' = [untouched EXCEPT ![c] = {}]
  BY DEF CopierExits
<1>2. CopierIn("exit") \in CopierRecord
  BY FALSE \in BOOLEAN DEF CopierIn, CopierRecord
<1>3. CopierHolds(c)'
  <2>1. copiers'[c] = [pc |-> "exit", offset |-> 0, buffer |-> <<>>, short |-> FALSE]
    BY <1>0, <1>1 DEF CopierIn
  <2>2. copiers'[c].pc = "exit" /\ untouched'[c] = {}
    BY <1>0, <1>1, <2>1
  <2> QED  BY <2>2 DEF CopierHolds
<1> QED  BY <1>0, <1>1, <1>2, <1>3, CopierOnly

LEMMA CopierAtPlace ==
    ASSUME FileIInv, NEW c \in Copiers, NEW pc \in {"create", "read", "end copy"},
           CopierAt(c, pc)
    PROVE  \E new \in CopierRecord :
              /\ copiers' = [copiers EXCEPT ![c] = new] /\ copiers'[c] = new
              /\ new.pc = pc /\ new.offset = copiers[c].offset
              /\ new.buffer = copiers[c].buffer /\ new.short = copiers[c].short
<1> DEFINE old == copiers[c]  new == [old EXCEPT !.pc = pc]
<1>0. copiers \in [Copiers -> CopierRecord]
  BY LockerTypes
<1>1. old \in CopierRecord
  BY <1>0
<1>2. copiers' = [copiers EXCEPT ![c] = new] /\ copiers'[c] = new
  BY <1>0 DEF CopierAt
<1> HIDE DEF old
<1>3. /\ new \in CopierRecord /\ new.pc = pc /\ new.offset = old.offset
      /\ new.buffer = old.buffer /\ new.short = old.short
  BY <1>1 DEF CopierRecord
<1> HIDE DEF new
<1> QED  BY <1>2, <1>3 DEF old

LEMMA FileCopierOpens == ASSUME FileIInv, NEW c \in Copiers, CopierOpens(c) PROVE FileIInv'
<1>0. /\ untouched \in [Copiers -> SUBSET Seq(0 .. Length)] /\ file \in Seq(0 .. Length)
      /\ newFile \in [by : Copiers \cup {Nobody}, bytes : Seq(0 .. Length)] /\ CopierHolds(c)
  BY LockerTypes
<1>1. copiers[c].pc = "open" /\ UNCHANGED <<file, exists, lock, lockers, newFile>>
  BY DEF CopierOpens
<1>2. CASE CopierExits(c)
  BY <1>1, <1>2, CopierGoes
<1>3. CASE CopierAt(c, "create") /\ untouched' = [untouched EXCEPT ![c] = {file}]
  <2>1. PICK new \in CopierRecord :
              /\ copiers' = [copiers EXCEPT ![c] = new] /\ copiers'[c] = new
              /\ new.pc = "create" /\ new.offset = copiers[c].offset
              /\ new.buffer = copiers[c].buffer /\ new.short = copiers[c].short
    BY <1>3, CopierAtPlace
  <2>2. CopierHolds(c)'
    <3>1. untouched'[c] = {file'}
      BY <1>0, <1>1, <1>3
    <3>2. new.offset = 0 /\ new.buffer = <<>>
      BY <1>0, <1>1, <2>1 DEF CopierHolds
    <3> QED  BY <2>1, <3>1, <3>2 DEF CopierHolds
  <2>3. {file} \in SUBSET Seq(0 .. Length) /\ newFile' = newFile
    BY <1>0, <1>1
  <2> QED  BY <1>0, <1>1, <1>3, <2>1, <2>2, <2>3, CopierOnly
<1> QED  BY <1>2, <1>3 DEF CopierOpens

LEMMA FileCopierCreates == ASSUME FileIInv, NEW c \in Copiers, CopierCreates(c) PROVE FileIInv'
<1>0. /\ untouched \in [Copiers -> SUBSET Seq(0 .. Length)] /\ file \in Seq(0 .. Length)
      /\ newFile \in [by : Copiers \cup {Nobody}, bytes : Seq(0 .. Length)] /\ CopierHolds(c)
      /\ (newFile.by = Nobody => newFile.bytes = <<>>)
  BY LockerTypes DEF FileIInv
<1>1. copiers[c].pc = "create" /\ UNCHANGED <<file, exists, lock, lockers>>
  BY DEF CopierCreates
<1>2. CASE CopierExits(c) /\ UNCHANGED newFile
  BY <1>1, <1>2, CopierGoes
<1>3. CASE newFile.by = Nobody /\ newFile' = [newFile EXCEPT !.by = c]
           /\ CopierAt(c, "read") /\ UNCHANGED untouched
  <2>1. PICK new \in CopierRecord :
              /\ copiers' = [copiers EXCEPT ![c] = new] /\ copiers'[c] = new
              /\ new.pc = "read" /\ new.offset = copiers[c].offset
              /\ new.buffer = copiers[c].buffer /\ new.short = copiers[c].short
    BY <1>3, CopierAtPlace
  <2>2. /\ newFile' \in [by : Copiers \cup {Nobody}, bytes : Seq(0 .. Length)]
        /\ newFile'.by = c /\ newFile'.bytes = <<>>
    BY <1>0, <1>3
  <2>3. CopierHolds(c)'
    <3>1. new.offset = 0 /\ new.buffer = <<>>
      BY <1>0, <1>1, <2>1 DEF CopierHolds
    <3>2. Len(file') \in Nat
      BY <1>0, <1>1
    <3>3. Copied(c)'
      BY <2>1, <2>2, <3>1, <3>2 DEF Copied
    <3> QED  BY <1>0, <1>1, <1>3, <2>1, <2>2, <3>1, <3>3 DEF CopierHolds
  <2>4. untouched[c] \in SUBSET Seq(0 .. Length)
        /\ untouched' = [untouched EXCEPT ![c] = untouched[c]]
    BY <1>0, <1>3
  <2> HIDE DEF CopierHolds
  <2> QED  BY <1>1, <1>3, <2>1, <2>2, <2>3, <2>4, CopierOnly
<1> QED  BY <1>2, <1>3 DEF CopierCreates

LEMMA Cut ==
    ASSUME NEW S, NEW str \in Seq(S), NEW m \in Nat, NEW n \in Nat, n <= Len(str)
    PROVE  /\ SubSeq(str, m + 1, n) \in Seq(S)
           /\ n > m => Len(SubSeq(str, m + 1, n)) = n - m
           /\ n <= m => Len(SubSeq(str, m + 1, n)) = 0
           /\ \A k \in 1 .. (n - m) : SubSeq(str, m + 1, n)[k] = str[m + k]
OBVIOUS

LEMMA Beginning ==
    ASSUME NEW S, NEW str \in Seq(S), NEW n \in 1 .. Len(str)
    PROVE  /\ SubSeq(str, 1, n) \in Seq(S) /\ Len(SubSeq(str, 1, n)) = n
           /\ \A k \in 1 .. n : SubSeq(str, 1, n)[k] = str[k]
OBVIOUS

LEMMA Joined ==
    ASSUME NEW S, NEW b \in Seq(S), NEW u \in Seq(S)
    PROVE  /\ b \o u \in Seq(S) /\ Len(b \o u) = Len(b) + Len(u)
           /\ \A k \in 1 .. Len(b) : (b \o u)[k] = b[k]
           /\ \A k \in 1 .. Len(u) : (b \o u)[Len(b) + k] = u[k]
OBVIOUS

LEMMA SameSeq ==
    ASSUME NEW S, NEW b \in Seq(S), NEW u \in Seq(S), Len(b) = Len(u),
           \A k \in 1 .. Len(u) : b[k] = u[k]
    PROVE  b = u
<1>1. b = [k \in 1 .. Len(b) |-> b[k]] /\ u = [k \in 1 .. Len(u) |-> u[k]]
  OBVIOUS
<1> QED  BY <1>1, Zenon

LEMMA FileCopierReads == ASSUME FileIInv, NEW c \in Copiers, CopierReads(c) PROVE FileIInv'
<1> DEFINE me == copiers[c]
<1>0. /\ untouched \in [Copiers -> SUBSET Seq(0 .. Length)] /\ file \in Seq(0 .. Length)
      /\ newFile \in [by : Copiers \cup {Nobody}, bytes : Seq(0 .. Length)]
      /\ copiers \in [Copiers -> CopierRecord] /\ CopierHolds(c)
  BY LockerTypes
<1>1. me.pc = "read" /\ UNCHANGED <<file, exists, lock, lockers, newFile>>
  BY DEF CopierReads
<1>2. CASE CopierExits(c)
  BY <1>1, <1>2, CopierGoes
<1> DEFINE o == me.offset  top == Min({o + BufferLen, Len(file)})
           block == SubSeq(file, o + 1, top)
<1>3. me \in CopierRecord /\ o \in Nat /\ newFile.by = c /\ me.buffer = <<>>
  BY <1>0, <1>1 DEF CopierRecord, CopierHolds
<1>4. top \in Nat /\ top <= Len(file) /\ (top <= o => Len(file) <= o)
  <2>1. o + BufferLen \in Nat /\ o + BufferLen > o /\ Len(file) \in Nat
    BY <1>0, <1>3, FileNumbers
  <2>2. top = IF o + BufferLen <= Len(file) THEN o + BufferLen ELSE Len(file)
    BY <2>1, Smaller
  <2> HIDE DEF top, o
  <2> QED  BY <1>3, <2>1, <2>2
<1> HIDE DEF top, o
<1>5. /\ block \in Seq(0 .. Length)
      /\ top > o => Len(block) = top - o
      /\ top <= o => Len(block) = 0
      /\ \A k \in 1 .. (top - o) : block[k] = file[o + k]
  <2>1. file \in Seq(0 .. Length) /\ o \in Nat /\ top \in Nat /\ top <= Len(file)
    BY <1>0, <1>3, <1>4
  <2> QED  BY <2>1, Cut, Zenon
<1> HIDE DEF block
<1>6. newFile.bytes \in Seq(0 .. Length)
      /\ (untouched[c] # {} /\ ~me.short =>
            /\ Len(newFile.bytes) = o /\ o <= Len(file)
            /\ \A k \in 1 .. Len(newFile.bytes) : newFile.bytes[k] = file[k])
  BY <1>0, <1>1, <1>3 DEF CopierHolds, Copied, o
<1>7. untouched[c] \in SUBSET Seq(0 .. Length)
  BY <1>0
<1>8. CASE block # <<>> /\ UNCHANGED untouched
           /\ copiers' = [copiers EXCEPT ![c] =
                [me EXCEPT !.pc = "write", !.offset = @ + Len(block), !.buffer = block]]
  <2> DEFINE new == [me EXCEPT !.pc = "write", !.offset = o + Len(block), !.buffer = block]
  <2>1. copiers' = [copiers EXCEPT ![c] = new] /\ copiers'[c] = new
    BY <1>0, <1>8 DEF o
  <2>2. top > o /\ Len(block) = top - o /\ o + Len(block) = top
    BY <1>3, <1>4, <1>5, <1>8
  <2> HIDE DEF me
  <2>3. /\ new \in CopierRecord /\ new.pc = "write" /\ new.offset = top
        /\ new.buffer = block /\ new.short = me.short
    BY <1>3, <1>4, <1>5, <2>2 DEF CopierRecord
  <2> HIDE DEF new
  <2>4. CopierHolds(c)'
    <3>1. untouched[c] # {} /\ ~me.short => Copied(c)'
      <4> SUFFICES ASSUME untouched[c] # {}, ~me.short PROVE Copied(c)'
        OBVIOUS
      <4>1. \A k \in 1 .. Len(block) : block[k] = file[Len(newFile.bytes) + k]
        BY <1>5, <1>6, <2>2
      <4> QED  BY <1>1, <1>3, <1>4, <1>6, <2>1, <2>2, <2>3, <4>1 DEF Copied
    <3>2. untouched'[c] = untouched[c] /\ (untouched[c] = {} \/ untouched[c] = {file})
      BY <1>0, <1>8 DEF CopierHolds
    <3> QED  BY <1>1, <1>3, <2>1, <2>3, <3>1, <3>2 DEF CopierHolds
  <2>5. untouched' = [untouched EXCEPT ![c] = untouched[c]] /\ newFile' = newFile
    BY <1>0, <1>1, <1>8
  <2> QED  BY <1>0, <1>1, <1>7, <2>1, <2>3, <2>4, <2>5, CopierOnly
<1>9. CASE block = <<>> /\ CopierAt(c, "end copy") /\ UNCHANGED untouched
  <2>1. PICK new \in CopierRecord :
              /\ copiers' = [copiers EXCEPT ![c] = new] /\ copiers'[c] = new
              /\ new.pc = "end copy" /\ new.offset = copiers[c].offset
              /\ new.buffer = copiers[c].buffer /\ new.short = copiers[c].short
    BY <1>9, CopierAtPlace
  <2>2. top <= o /\ Len(file) <= o
    <3>1. Len(block) = 0
      BY <1>9
    <3> QED  BY <1>3, <1>4, <1>5, <3>1
  <2>3. CopierHolds(c)'
    <3>1. untouched[c] # {} /\ ~me.short => Copied(c)' /\ o = Len(file')
      <4> SUFFICES ASSUME untouched[c] # {}, ~me.short PROVE Copied(c)' /\ o = Len(file')
        OBVIOUS
      <4>1. Copied(c)
        BY <1>0, <1>1 DEF CopierHolds
      <4>2. UNCHANGED <<file, newFile>> /\ copiers'[c].buffer = <<>> /\ copiers'[c].offset = o
        BY <1>1, <1>3, <2>1 DEF o
      <4>3. Len(newFile.bytes) = o /\ o <= Len(file) /\ Len(file) \in Nat
            /\ \A k \in 1 .. Len(newFile.bytes) : newFile.bytes[k] = file[k]
        BY <1>0, <1>6
      <4>4. o = Len(file)
        BY <1>3, <2>2, <4>3
      <4> QED  BY <1>3, <4>2, <4>3, <4>4 DEF Copied
    <3>2. untouched'[c] = untouched[c] /\ (untouched[c] = {} \/ untouched[c] = {file})
      BY <1>0, <1>9 DEF CopierHolds
    <3> QED  BY <1>1, <1>3, <2>1, <3>1, <3>2 DEF CopierHolds, o
  <2>4. untouched' = [untouched EXCEPT ![c] = untouched[c]] /\ newFile' = newFile
    BY <1>0, <1>1, <1>9
  <2> QED  BY <1>0, <1>1, <1>7, <2>1, <2>3, <2>4, CopierOnly
<1> QED  BY <1>2, <1>8, <1>9 DEF CopierReads, top, block, o

LEMMA FileCopierWrites == ASSUME FileIInv, NEW c \in Copiers, CopierWrites(c) PROVE FileIInv'
<1> DEFINE me == copiers[c]  u == me.buffer  b == newFile.bytes
<1>0. /\ untouched \in [Copiers -> SUBSET Seq(0 .. Length)] /\ file \in Seq(0 .. Length)
      /\ newFile \in [by : Copiers \cup {Nobody}, bytes : Seq(0 .. Length)]
      /\ copiers \in [Copiers -> CopierRecord] /\ CopierHolds(c)
  BY LockerTypes
<1>1. me.pc = "write" /\ UNCHANGED <<file, exists, lock, lockers>>
  BY DEF CopierWrites
<1>2. CASE CopierExits(c) /\ UNCHANGED newFile
  BY <1>1, <1>2, CopierGoes
<1>3. me \in CopierRecord /\ u \in Seq(0 .. Length) /\ newFile.by = c /\ b \in Seq(0 .. Length)
      /\ me.short \in BOOLEAN /\ me.offset \in Nat
  BY <1>0, <1>1 DEF CopierRecord, CopierHolds
<1>4. ASSUME NEW n \in 1 .. Len(u),
             newFile' = [newFile EXCEPT !.bytes = @ \o SubSeq(u, 1, n)],
             copiers' = [copiers EXCEPT ![c].pc = "read", ![c].short = @ \/ n < Len(u),
                                        ![c].buffer = <<>>],
             UNCHANGED untouched
      PROVE  FileIInv'
  <2> DEFINE part == SubSeq(u, 1, n)  short == me.short \/ n < Len(u)
             one == [me EXCEPT !.pc = "read"]  two == [one EXCEPT !.short = short]
             new == [two EXCEPT !.buffer = <<>>]
  <2>1. /\ part \in Seq(0 .. Length) /\ Len(part) = n
        /\ \A k \in 1 .. n : part[k] = u[k]
    BY <1>3, Beginning, Zenon
  <2>2. short \in BOOLEAN /\ (~short => ~me.short /\ n = Len(u))
    BY <1>3
  <2>3. copiers' = [copiers EXCEPT ![c] = new] /\ copiers'[c] = new
    BY <1>0, <1>4
  <2>4. newFile' = [newFile EXCEPT !.bytes = b \o part]
    BY <1>4
  <2> HIDE DEF part, short, me, u, b
  <2>5. one \in CopierRecord /\ one.pc = "read" /\ one.offset = me.offset
    BY <1>3 DEF CopierRecord
  <2> HIDE DEF one
  <2>6. two \in CopierRecord /\ two.pc = "read" /\ two.offset = me.offset /\ two.short = short
    BY <2>2, <2>5 DEF CopierRecord
  <2> HIDE DEF two
  <2>7. /\ new \in CopierRecord /\ new.pc = "read" /\ new.offset = me.offset /\ new.short = short
        /\ new.buffer = <<>>
    <3>1. <<>> \in Seq(0 .. Length)
      OBVIOUS
    <3> QED  BY <2>6, <3>1 DEF CopierRecord
  <2> HIDE DEF new
  <2>8. /\ b \o part \in Seq(0 .. Length) /\ Len(b \o part) = Len(b) + n
        /\ \A k \in 1 .. Len(b) : (b \o part)[k] = b[k]
        /\ \A k \in 1 .. n : (b \o part)[Len(b) + k] = part[k]
    <3>1. /\ b \o part \in Seq(0 .. Length) /\ Len(b \o part) = Len(b) + Len(part)
          /\ \A k \in 1 .. Len(b) : (b \o part)[k] = b[k]
          /\ \A k \in 1 .. Len(part) : (b \o part)[Len(b) + k] = part[k]
      <4>1. b \in Seq(0 .. Length) /\ part \in Seq(0 .. Length)
        BY <1>3, <2>1
      <4> QED  BY <4>1, Joined
    <3> QED  BY <2>1, <3>1
  <2>9. /\ newFile' \in [by : Copiers \cup {Nobody}, bytes : Seq(0 .. Length)]
        /\ newFile'.by = c /\ newFile'.bytes = b \o part
    BY <1>0, <1>3, <2>4, <2>8 DEF b
  <2>10. untouched[c] # {} /\ ~short => Copied(c)'
    <3> SUFFICES ASSUME untouched[c] # {}, ~short PROVE Copied(c)'
      OBVIOUS
    <3>1. ~me.short /\ n = Len(u) /\ Len(b) \in Nat /\ n \in Nat
      BY <1>3, <2>2
    <3>2. Copied(c)
      BY <1>0, <1>1, <3>1 DEF CopierHolds, me
    <3>3. /\ Len(b) + n = me.offset /\ me.offset <= Len(file)
          /\ \A k \in 1 .. Len(b) : b[k] = file[k]
          /\ \A k \in 1 .. n : u[k] = file[Len(b) + k]
      BY <3>1, <3>2 DEF Copied, me, u, b
    <3>4. ASSUME NEW k \in 1 .. (Len(b) + n) PROVE (b \o part)[k] = file[k]
      <4>1. CASE k <= Len(b)
        BY <2>8, <3>1, <3>3, <4>1
      <4>2. CASE k > Len(b)
        <5>1. PICK j \in 1 .. n : k = Len(b) + j
          <6>1. k - Len(b) \in 1 .. n /\ k = Len(b) + (k - Len(b))
            BY <3>1, <4>2
          <6> QED  BY <6>1
        <5>2. (b \o part)[k] = part[j] /\ part[j] = u[j] /\ u[j] = file[k]
          BY <2>1, <2>8, <3>3, <5>1
        <5> QED  BY <5>2
      <4>3. k <= Len(b) \/ k > Len(b)
        BY <3>1
      <4> QED  BY <4>1, <4>2, <4>3, Zenon
    <3>5. /\ copiers'[c].buffer = <<>> /\ copiers'[c].offset = me.offset
          /\ file' = file /\ newFile'.bytes = b \o part
      BY <1>1, <2>3, <2>7, <2>9
    <3> QED  BY <2>8, <3>1, <3>3, <3>4, <3>5 DEF Copied
  <2>11. CopierHolds(c)'
    <3>1. untouched'[c] = untouched[c] /\ (untouched[c] = {} \/ untouched[c] = {file})
      BY <1>0, <1>4 DEF CopierHolds
    <3> QED  BY <1>1, <2>3, <2>7, <2>9, <2>10, <3>1 DEF CopierHolds
  <2>12. untouched[c] \in SUBSET Seq(0 .. Length)
         /\ untouched' = [untouched EXCEPT ![c] = untouched[c]]
    BY <1>0, <1>4
  <2> QED  BY <1>1, <1>3, <2>3, <2>7, <2>9, <2>11, <2>12, CopierOnly
<1> QED  BY <1>2, <1>4 DEF CopierWrites

LEMMA FileNextIInv == ASSUME FileIInv, [FileNext]_fileVars PROVE FileIInv'
<1>1. CASE UNCHANGED fileVars
  <2>1. UNCHANGED <<file, exists, lock, lockers, copiers, newFile, untouched>>
    BY <1>1 DEF fileVars
  <2>2. FileTypeOK'
    BY <2>1 DEF FileIInv, FileTypeOK
  <2>3. \A l \in Lockers : LockerHolds(l)'
    BY <2>1 DEF FileIInv, LockerHolds
  <2>4. \A c \in Copiers : CopierHolds(c)'
    BY <2>1 DEF FileIInv, CopierHolds, Copied
  <2> QED  BY <2>1, <2>2, <2>3, <2>4 DEF FileIInv
<1>2. ASSUME NEW l \in Lockers, SyncTest(l) PROVE FileIInv'
  BY <1>2, FileLockerOpens, FileLockerLocks, FileLockerWrites, FileLockerSyncs, FileLockerUnlocks
  DEF SyncTest
<1>3. ASSUME NEW c \in Copiers, FileCopy(c) PROVE FileIInv'
  BY <1>3, FileCopierOpens, FileCopierCreates, FileCopierReads, FileCopierWrites DEF FileCopy
<1> QED  BY <1>1, <1>2, <1>3 DEF FileNext

LEMMA FileInvWhole == FileIInv => LockedIsWhole /\ CopyIsWhole
<1> SUFFICES ASSUME FileIInv PROVE LockedIsWhole /\ CopyIsWhole
  OBVIOUS
<1>0. /\ file \in Seq(0 .. Length) /\ Length \in Nat /\ lockers \in [Lockers -> LockerRecord]
      /\ newFile \in [by : Copiers \cup {Nobody}, bytes : Seq(0 .. Length)]
  BY LockerTypes, FileNumbers
<1>1. ASSUME NEW l \in Lockers, lockers[l].pc \in {"fsync", "unlock"}, ~lockers[l].short
      PROVE  SubSeq(file, 1, Length) = [k \in 1 .. Length |-> k]
  <2>1. lockers[l].i = CNT /\ lockers[l].offset = Length /\ Length <= Len(file)
        /\ \A k \in 1 .. Length : file[k] = k
    BY <1>1, LockerTypes DEF LockerHolds, Length
  <2>2. SubSeq(file, 1, Length) = [k \in 1 .. Length |-> file[k]]
    BY <1>0, <2>1
  <2> QED  BY <2>1, <2>2
<1>2. \A l \in Lockers : lockers[l].pc \in {"write", "fsync", "unlock"} => lock = l
  BY LockerTypes DEF LockerHolds
<1>3. ASSUME NEW c \in Copiers, copiers[c].pc = "end copy", untouched[c] # {}, ~copiers[c].short
      PROVE  newFile.bytes \in untouched[c]
  <2>1. CopierHolds(c)
    BY LockerTypes
  <2>2. untouched[c] = {file} /\ copiers[c].buffer = <<>> /\ Copied(c)
        /\ copiers[c].offset = Len(file)
    BY <1>3, <2>1 DEF CopierHolds
  <2>3. newFile.bytes \in Seq(0 .. Length) /\ Len(newFile.bytes) \in Nat
    BY <1>0
  <2>4. Len(newFile.bytes) = Len(file) /\ \A k \in 1 .. Len(file) : newFile.bytes[k] = file[k]
    BY <2>2, <2>3 DEF Copied
  <2>5. newFile.bytes = file
    BY <1>0, <2>3, <2>4, SameSeq, Zenon
  <2> QED  BY <2>2, <2>5
<1> QED  BY <1>1, <1>2, <1>3 DEF LockedIsWhole, CopyIsWhole

-----------------------------------------------------------------------------
(* FatherPrograms.  What the proofs need to know of the seventeen loops.   *)

LoopIs(f, of) ==
    /\ of.failed \in {"exit", "on", "thread"}
    /\ of.failed = "thread" => of.checks
    /\ of.resume \in {"calls", "pokes"} => of.exec /\ of.traceme
    /\ of.resume \in {"kills", "detaches"} => ~of.exec /\ of.failed = "exit"
    /\ of.resume = "looks" => f = "Attach"

LEMMA WaitLoops ==
    \A f \in {"WaitTest_1", "WaitTest_Sleep", "WaitTest_WIfExited", "WaitTest_Waitpid",
              "CacheChild", "NoCacheChild", "WaitThreadExit"} : LoopIs(f, LoopOf(f))
<1>1. /\ LoopOf("WaitTest_1") = WaitTest_1 /\ LoopOf("WaitTest_Sleep") = WaitTest_Sleep
      /\ LoopOf("WaitTest_WIfExited") = WaitTest_WIfExited_And_WExitStatus
      /\ LoopOf("WaitTest_Waitpid") = WaitTest_Waitpid
      /\ LoopOf("CacheChild") = FatherForkAndWait_CacheChild
      /\ LoopOf("NoCacheChild") = FatherForkAndWait_NoCacheChild
      /\ LoopOf("WaitThreadExit") = WaitThreadExit_waitpid
  BY DEF LoopOf
<1>2. /\ LoopIs("WaitTest_1", WaitTest_1) /\ LoopIs("WaitTest_Sleep", WaitTest_Sleep)
      /\ LoopIs("CacheChild", FatherForkAndWait_CacheChild)
      /\ LoopIs("NoCacheChild", FatherForkAndWait_NoCacheChild)
      /\ LoopIs("WaitTest_Waitpid", WaitTest_Waitpid)
  BY DEF LoopIs, WaitTest_1, WaitTest_Sleep, FatherForkAndWait_CacheChild,
         FatherForkAndWait_NoCacheChild, WaitTest_Waitpid
<1>3. /\ LoopIs("WaitTest_WIfExited", WaitTest_WIfExited_And_WExitStatus)
      /\ LoopIs("WaitThreadExit", WaitThreadExit_waitpid)
  BY DEF LoopIs, WaitTest_1, WaitTest_WIfExited_And_WExitStatus, WaitThreadExit_waitpid
<1> QED  BY <1>1, <1>2, <1>3

LEMMA PtraceLoops ==
    \A f \in {"PtraceTest_1", "PeekUser", "PokeData", "SingleStep"} : LoopIs(f, LoopOf(f))
<1>1. /\ LoopOf("PtraceTest_1") = PtraceTest_1 /\ LoopOf("PeekUser") = PtraceTest_PeekUser
      /\ LoopOf("PokeData") = PtraceTest_PokeData
      /\ LoopOf("SingleStep") = PtraceTest_SingleStep
  BY DEF LoopOf
<1>2. LoopIs("PtraceTest_1", PtraceTest_1) /\ LoopIs("PeekUser", PtraceTest_PeekUser)
  BY DEF LoopIs, PtraceTest_1, WaitTest_1, PtraceTest_PeekUser
<1>3. LoopIs("PokeData", PtraceTest_PokeData) /\ LoopIs("SingleStep", PtraceTest_SingleStep)
  BY DEF LoopIs, PtraceTest_1, WaitTest_1, PtraceTest_PeekUser, PtraceTest_PokeData,
         PtraceTest_SingleStep
<1> QED  BY <1>1, <1>2, <1>3

LEMMA MipsLoops ==
    \A f \in {"TraceTillExit", "MipsGetRegs", "KillChild", "AttachAndDetach", "MipsWaitpid",
              "Attach"} : LoopIs(f, LoopOf(f))
<1>1. /\ LoopOf("TraceTillExit") = MipsPtraceTest_TraceTillExit
      /\ LoopOf("MipsGetRegs") = MipsPtraceTest_GetRegs
      /\ LoopOf("KillChild") = MipsPtraceTest_KillChild
      /\ LoopOf("AttachAndDetach") = MipsPtraceTest_AttachAndDetach
      /\ LoopOf("MipsWaitpid") = MipsWaitpidTest_WIFEXITED
      /\ LoopOf("Attach") = PtraceAttachTest_Attach
  BY DEF LoopOf
<1>2. /\ LoopIs("TraceTillExit", MipsPtraceTest_TraceTillExit) /\ LoopIs("MipsGetRegs", MipsPtraceTest_GetRegs)
      /\ LoopIs("KillChild", MipsPtraceTest_KillChild) /\ LoopIs("AttachAndDetach", MipsPtraceTest_AttachAndDetach)
  BY DEF LoopIs, MipsPtraceTest_TraceTillExit, MipsPtraceTest_GetRegs,
         MipsPtraceTest_KillChild, MipsPtraceTest_AttachAndDetach
<1>3. LoopIs("MipsWaitpid", MipsWaitpidTest_WIFEXITED) /\ LoopIs("Attach", PtraceAttachTest_Attach)
  BY DEF LoopIs, MipsPtraceTest_TraceTillExit, MipsPtraceTest_GetRegs,
         MipsWaitpidTest_WIFEXITED, PtraceAttachTest_Attach
<1> QED  BY <1>1, <1>2, <1>3

LEMMA LoopFacts == ASSUME father \in Fathers PROVE LoopIs(father, loop)
BY WaitLoops, PtraceLoops, MipsLoops DEF Fathers, loop

-----------------------------------------------------------------------------
(* The bytes of a text: reverse() finds the first 0 of its own result      *)
(* where it found that of the text.                                        *)

Zeros(str) == {k \in 1 .. Len(str) : str[k] = 0} \cup {Len(str) + 1}
Strlen(str) == Min(Zeros(str)) - 1

LEMMA StrlenIs ==
    ASSUME NEW S, NEW str \in Seq(S)
    PROVE  /\ Strlen(str) \in 0 .. Len(str)
           /\ \A k \in 1 .. Strlen(str) : str[k] # 0
           /\ Strlen(str) < Len(str) => str[Strlen(str) + 1] = 0
<1>1. Zeros(str) \in SUBSET Nat /\ Zeros(str) # {}
  BY DEF Zeros
<1>2. Min(Zeros(str)) \in Zeros(str) /\ \A y \in Zeros(str) : Min(Zeros(str)) <= y
  BY <1>1, LeastIs
<1> DEFINE z == Min(Zeros(str))
<1>3. z \in 1 .. (Len(str) + 1) /\ (z <= Len(str) => str[z] = 0)
      /\ \A k \in 1 .. Len(str) : str[k] = 0 => z <= k
  BY <1>2 DEF Zeros
<1>4. Strlen(str) = z - 1
  BY DEF Strlen
<1> HIDE DEF z
<1> QED  BY <1>3, <1>4

LEMMA StrlenFound ==
    ASSUME NEW S, NEW str \in Seq(S), NEW n \in 0 .. Len(str),
           \A k \in 1 .. n : str[k] # 0, n < Len(str) => str[n + 1] = 0
    PROVE  Strlen(str) = n
<1> DEFINE m == Strlen(str)
<1>1. /\ m \in 0 .. Len(str) /\ \A k \in 1 .. m : str[k] # 0
      /\ m < Len(str) => str[m + 1] = 0
  BY StrlenIs
<1> HIDE DEF m
<1>2. ~(m < n) /\ ~(n < m)
  BY <1>1
<1> QED  BY <1>1, <1>2 DEF m

LEMMA ReverseIs ==
    ASSUME NEW S, NEW str \in Seq(S)
    PROVE  /\ reverse(str) \in Seq(S) /\ Len(reverse(str)) = Len(str)
           /\ \A k \in 1 .. Len(str) :
                 reverse(str)[k] = IF k < Strlen(str) THEN str[Strlen(str) - k] ELSE str[k]
<1> DEFINE n == Strlen(str)  r == [k \in 1 .. Len(str) |-> IF k < n THEN str[n - k] ELSE str[k]]
<1>1. reverse(str) = r
  BY DEF reverse, Strlen, Zeros
<1>2. n \in 0 .. Len(str)
  BY StrlenIs
<1> HIDE DEF n
<1>3. \A k \in 1 .. Len(str) : (IF k < n THEN str[n - k] ELSE str[k]) \in S
  BY <1>2
<1>4. r \in Seq(S) /\ Len(r) = Len(str)
  BY <1>3
<1> QED  BY <1>1, <1>4 DEF n

LEMMA ReverseTwice ==
    ASSUME NEW S, NEW str \in Seq(S)
    PROVE  reverse(reverse(str)) = str
<1> DEFINE n == Strlen(str)  r == reverse(str)
<1>1. /\ r \in Seq(S) /\ Len(r) = Len(str)
      /\ \A k \in 1 .. Len(str) : r[k] = IF k < n THEN str[n - k] ELSE str[k]
  BY ReverseIs
<1>2. /\ n \in 0 .. Len(str) /\ \A k \in 1 .. n : str[k] # 0
      /\ n < Len(str) => str[n + 1] = 0
  BY StrlenIs
<1> HIDE DEF n, r
<1>3. ASSUME NEW k \in 1 .. n PROVE r[k] # 0
  <2>1. CASE k < n
    <3>1. n - k \in 1 .. n /\ r[k] = str[n - k]
      BY <1>1, <1>2, <2>1
    <3> QED  BY <1>2, <3>1
  <2>2. CASE ~(k < n)
    BY <1>1, <1>2, <2>2
  <2> QED  BY <2>1, <2>2
<1>4. n < Len(r) => r[n + 1] = 0
  BY <1>1, <1>2
<1>5. Strlen(r) = n
  BY <1>1, <1>2, <1>3, <1>4, StrlenFound
<1>6. /\ reverse(r) \in Seq(S) /\ Len(reverse(r)) = Len(r)
      /\ \A k \in 1 .. Len(r) : reverse(r)[k] = IF k < n THEN r[n - k] ELSE r[k]
  BY <1>1, <1>5, ReverseIs
<1>7. ASSUME NEW k \in 1 .. Len(str) PROVE reverse(r)[k] = str[k]
  <2>1. CASE k < n
    <3>1. n - k \in 1 .. Len(str) /\ n - k < n /\ n - (n - k) = k
      BY <1>2, <2>1
    <3>2. reverse(r)[k] = r[n - k] /\ r[n - k] = str[n - (n - k)]
      BY <1>1, <1>6, <2>1, <3>1
    <3> QED  BY <3>1, <3>2
  <2>2. CASE ~(k < n)
    BY <1>1, <1>6, <2>2
  <2> QED  BY <2>1, <2>2
<1>8. reverse(r) = str
  BY <1>1, <1>6, <1>7, SameSeq
<1> QED  BY <1>8 DEF r

(* Putdata() writes the text and less than another word.                   *)
LEMMA WordsAround ==
    ASSUME NEW len \in Nat
    PROVE  LET words == ((len + LongSize - 1) \div LongSize) * LongSize
           IN words \in Nat /\ len <= words /\ words < len + LongSize
<1>1. LongSize \in Nat /\ LongSize > 0
  BY ChildAssumption
<1> DEFINE a == len + LongSize - 1  q == a \div LongSize  r == a % LongSize
<1>2. a \in Nat
  BY <1>1
<1> HIDE DEF a
<1>3. q \in Int /\ r \in 0 .. (LongSize - 1) /\ a = LongSize * q + r
  BY <1>1, <1>2
<1> HIDE DEF q, r
<1>4. q * LongSize = LongSize * q /\ LongSize * q \in Int
  BY <1>1, <1>3
<1>5. q * LongSize = len + LongSize - 1 - r
  BY <1>1, <1>3, <1>4 DEF a
<1>6. q * LongSize \in Nat /\ len <= q * LongSize /\ q * LongSize < len + LongSize
  <2> DEFINE w == q * LongSize
  <2>1. w = len + LongSize - 1 - r
    BY <1>5
  <2> HIDE DEF w
  <2>2. w \in Nat /\ len <= w /\ w < len + LongSize
    BY <1>1, <1>3, <2>1
  <2> QED  BY <2>2 DEF w
<1> QED  BY <1>6 DEF q, a

LEMMA PutdataIs ==
    ASSUME NEW str \in Seq(0 .. 2), NEW junk \in {0, 1}
    PROVE  /\ SubSeq(Putdata(str, junk), 1, Len(str)) = str
           /\ Len(Putdata(str, junk)) < Len(str) + LongSize
<1> DEFINE len == Len(str)
           words == ((len + LongSize - 1) \div LongSize) * LongSize
           put == [k \in 1 .. words |-> IF k <= len THEN str[k]
                                        ELSE IF len > LongSize THEN str[k - LongSize] ELSE junk]
<1>1. len \in Nat /\ LongSize \in Nat /\ LongSize > 0
  BY ChildAssumption
<1>2. words \in Nat /\ len <= words /\ words < len + LongSize
  BY <1>1, WordsAround
<1>3. Putdata(str, junk) = put
  BY DEF Putdata
<1> HIDE DEF words
<1>4. ASSUME NEW k \in 1 .. words PROVE put[k] \in 0 .. 2 /\ (k <= len => put[k] = str[k])
  <2>1. CASE k <= len
    BY <1>1, <1>2, <2>1
  <2>2. CASE k > len /\ len > LongSize
    <3>1. k - LongSize \in 1 .. len
      BY <1>1, <1>2, <2>2
    <3>2. put[k] = str[k - LongSize]
      BY <1>1, <2>2
    <3> QED  BY <1>1, <2>2, <3>1, <3>2
  <2>3. CASE k > len /\ ~(len > LongSize)
    <3>1. put[k] = junk
      BY <1>1, <2>3
    <3> QED  BY <1>1, <2>3, <3>1
  <2> QED  BY <1>1, <2>1, <2>2, <2>3
<1>5. put \in Seq(0 .. 2) /\ Len(put) = words
  BY <1>2, <1>4
<1> HIDE DEF put
<1>6. SubSeq(put, 1, len) \in Seq(0 .. 2) /\ Len(SubSeq(put, 1, len)) = len
      /\ \A k \in 1 .. len : SubSeq(put, 1, len)[k] = str[k]
  BY <1>1, <1>2, <1>4, <1>5
<1>7. SubSeq(put, 1, len) = str
  BY <1>6, SameSeq
<1> QED  BY <1>2, <1>3, <1>5, <1>7

LEMMA PokeIsBack ==
    ASSUME NEW str \in Seq(0 .. 2), NEW junk \in {0, 1}
    PROVE  LET put == Putdata(reverse(str), junk)  after == SubSeq(put, 1, Len(str))
           IN /\ reverse(after) = str /\ Len(put) < Len(str) + LongSize
              /\ str # <<>> => after[Len(after)] = str[Len(str)]
<1> DEFINE r == reverse(str)  n == Strlen(str)
<1>1. /\ r \in Seq(0 .. 2) /\ Len(r) = Len(str) /\ n \in 0 .. Len(str)
      /\ \A k \in 1 .. Len(str) : r[k] = IF k < n THEN str[n - k] ELSE str[k]
  BY ReverseIs, StrlenIs
<1>2. reverse(r) = str
  BY ReverseTwice
<1> HIDE DEF r, n
<1>3. SubSeq(Putdata(r, junk), 1, Len(str)) = r /\ Len(Putdata(r, junk)) < Len(str) + LongSize
  BY <1>1, PutdataIs
<1>4. str # <<>> => r[Len(r)] = str[Len(str)]
  BY <1>1
<1> QED  BY <1>2, <1>3, <1>4 DEF r

-----------------------------------------------------------------------------
(* A report is that of the end of the child, or of a stop it is still in;  *)
(* the loops over system calls know whether the child is inside of one as  *)
(* long as nobody else sends a signal; the stop of PTRACE_ATTACH is        *)
(* pending or has stopped the child.                                       *)

Matches(report) ==
    \/ report = "exited" /\ childEnd = "exited"
    \/ report = "signaled" /\ childEnd \in {"signaled", "killed"}

Unforked == (forkFailed /\ loop.failed = "on") \/ loop.failed = "thread"

Reports ==
    /\ event \in {"exited", "signaled"} => childState = "zombie" /\ Matches(event)
    /\ childState \in {"none", "start"} => event = "none"
    /\ childState = "gone" => event = "none" /\ Matches(status)
    /\ fpc = "fork" => childState = "none" /\ got = "none" /\ ~forkFailed
    /\ fpc = "top" /\ Attaches => got = "none"
    /\ fpc # "done" => said = "nothing"
    /\ forkFailed => childState = "none"
    /\ childState = "none" /\ fpc \notin {"fork", "done"} => Unforked
    /\ loop.failed = "thread" => ~forkFailed
    /\ fpc = "handle" =>
          /\ got = "child" /\ status \in {"exited", "signaled"} => childState = "gone"
          /\ got = "error" => childState \in {"none", "gone"}
          /\ got = "zero" => father = "Attach"
          /\ got = "none" => Attaches
    /\ fpc = "done" /\ said \in {"exited", "signaled"} =>
          Matches(said) \/ (forkFailed /\ loop.failed = "on") \/ father = "Attach"

Turns ==
    /\ signals = 0 => ~signal
    /\ misread => signals > 0
    /\ traced => childEnd # "signaled"
    /\ loop.resume \in {"calls", "pokes"} =>
          /\ ~stopPending /\ mode # "step"
          /\ signals = 0 /\ childState \in {"none", "start"} =>
                insyscall = 0 /\ at = "exec" /\ origEax = "other"
          /\ signals = 0 /\ childState = "running" =>
                /\ at \in {"exec", "entry", "exit"}
                /\ insyscall = IF at = "entry" /\ origEax = "write" THEN 1 ELSE 0
          /\ signals = 0 /\ childState = "stopped" =>
                /\ at \in {"exec", "entry", "exit"} /\ (at = "exec" => origEax = "other")
                /\ insyscall = IF at = "exit" /\ origEax = "write" THEN 1 ELSE 0

LetGo ==
    /\ loop.resume \in {"kills", "detaches"} =>
          /\ mode = "cont" /\ fpc # "wait"
          /\ childState = "stopped" /\ signals = 0 => ~stopPending
    /\ loop.resume = "kills" /\ fpc = "handle" =>
          stopPending \/ childState = "stopped" \/ childEnd # "no"
    /\ DetachedRuns

FatherIInv == FatherTypeOK /\ Reports /\ Turns /\ PokedBack /\ LetGo

LEMMA FatherNumbers ==
    MaxStops \in Nat /\ MaxSignals \in Nat /\ LongSize \in Nat /\ MaxText \in Nat
BY ChildAssumption

LEMMA LoopStays == ASSUME father' = father PROVE loop' = loop /\ (Attaches' <=> Attaches)
BY DEF loop, Attaches

Flags == /\ forkFailed \in BOOLEAN /\ traced \in BOOLEAN /\ stopPending \in BOOLEAN
         /\ signal \in BOOLEAN /\ misread \in BOOLEAN

Places ==
    /\ father \in Fathers /\ fpc \in {"fork", "top", "wait", "handle", "asleep", "done"}
    /\ status \in {"exited", "signaled", "stopped"}
    /\ got \in {"none", "child", "error", "zero"} /\ insyscall \in 0..1
    /\ said \in {"nothing", "exited", "signaled", "stopped", "error", "killed", "detached"}
    /\ childState \in {"none", "start", "running", "stopped", "zombie", "gone"}
    /\ childEnd \in {"no", "exited", "signaled", "killed"}
    /\ event \in {"none", "stopped", "exited", "signaled"}
    /\ mode \in {"cont", "syscall", "step"} /\ origEax \in {"write", "other"}
    /\ at \in {"exec", "entry", "exit", "step", "signal"}
    /\ text \in Seq(0..2) /\ stops \in 0..MaxStops /\ signals \in 0..MaxSignals
    /\ event = "stopped" => childState = "stopped"
    /\ childEnd # "no" <=> childState \in {"zombie", "gone"}

LEMMA FatherTypes == FatherTypeOK <=> Flags /\ Places
BY DEF FatherTypeOK, Flags, Places

LEMMA FatherInitIInv == FatherInit => FatherIInv
<1> SUFFICES ASSUME FatherInit PROVE FatherIInv
  OBVIOUS
<1>1. FatherTypeOK
  <2>1. Flags
    BY Zenon DEF FatherInit, ChildInit, Flags
  <2>2. Places
    BY FatherNumbers DEF FatherInit, ChildInit, Places
  <2> QED  BY <2>1, <2>2 DEF FatherTypeOK, Flags, Places
<1>2. LoopIs(father, loop)
  BY LoopFacts DEF FatherInit
<1>3. Reports
  BY <1>2 DEF FatherInit, ChildInit, Reports, Matches, Unforked, Attaches
<1>4. Turns /\ PokedBack /\ LetGo
  BY <1>2 DEF FatherInit, ChildInit, Turns, PokedBack, LetGo, DetachedRuns
<1> QED  BY <1>1, <1>3, <1>4 DEF FatherIInv

(* PokedBack speaks of the texts that were written only.                   *)
LEMMA PokesStay == ASSUME PokedBack, poked' = poked PROVE PokedBack'
BY DEF PokedBack

LEMMA FatherFork == ASSUME FatherIInv, Fork PROVE FatherIInv'
<1>0. /\ FatherTypeOK /\ Reports /\ Turns /\ LetGo /\ LoopIs(father, loop)
      /\ father' = father /\ loop' = loop /\ (Attaches' <=> Attaches) /\ Flags /\ Places
  BY LoopFacts, LoopStays, FatherTypes DEF FatherIInv, FatherTypeOK, Fork
<1>1. /\ fpc = "fork" /\ fpc' \in {"asleep", "top", "wait", "done"}
      /\ UNCHANGED <<status, got, insyscall, said, misread, poked, traced, mode, stopPending,
                     signal, at, origEax, text, event, childEnd, stops, signals>>
  BY DEF Fork
<1>2. \/ /\ loop.failed # "thread" /\ childState' = "start" /\ forkFailed' = forkFailed
         /\ fpc' # "done" /\ (fpc' = "wait" => loop.resume \notin {"kills", "detaches"})
      \/ loop.failed = "thread" /\ fpc' = "wait" /\ UNCHANGED <<childState, forkFailed>>
      \/ /\ loop.failed # "thread" /\ forkFailed' = TRUE /\ UNCHANGED childState
         /\ fpc' = IF loop.failed = "exit" THEN "done" ELSE "wait"
  BY DEF Fork, Attaches
<1>3. FatherTypeOK'
  <2>1. forkFailed' \in BOOLEAN
    BY <1>0, <1>2, Zenon DEF Flags
  <2>2. Flags'
    BY <1>0, <1>1, <2>1, Zenon DEF Flags
  <2>3. Places'
    BY <1>0, <1>1, <1>2 DEF Places, Reports
  <2> QED  BY <2>2, <2>3 DEF FatherTypeOK, Flags, Places
<1>4. Reports'
  <2>1. childState = "none" /\ got = "none" /\ said = "nothing" /\ event = "none" /\ ~forkFailed
    BY <1>0, <1>1 DEF Reports
  <2> QED  BY <1>0, <1>1, <1>2, <2>1 DEF Reports, Matches, Unforked, LoopIs
<1>5. Turns'
  BY <1>0, <1>1, <1>2 DEF Turns, Reports
<1>6. PokedBack'
  BY <1>1, PokesStay DEF FatherIInv
<1>7. LetGo'
  BY <1>0, <1>1, <1>2 DEF LetGo, DetachedRuns, Reports, LoopIs
<1> QED  BY <1>3, <1>4, <1>5, <1>6, <1>7 DEF FatherIInv

LEMMA FatherContinueFirst == ASSUME FatherIInv, ContinueFirst PROVE FatherIInv'
<1>0. /\ FatherTypeOK /\ Reports /\ Turns /\ LetGo /\ LoopIs(father, loop)
      /\ father' = father /\ loop' = loop /\ (Attaches' <=> Attaches)
  BY LoopFacts, LoopStays DEF FatherIInv, FatherTypeOK, ContinueFirst
<1>1. FatherTypeOK'
  <2>0. Flags /\ Places
    BY <1>0, FatherTypes
  <2>1. Flags'
    BY <2>0, Zenon DEF Flags, ContinueFirst, Resume, childVars
  <2>2. Places'
    BY <1>0, <2>0, FatherNumbers DEF Places, ContinueFirst, Resume, childVars
  <2> QED  BY <2>1, <2>2 DEF FatherTypeOK, Flags, Places
<1>2. Reports'
  BY <1>0 DEF Reports, Matches, Unforked, FatherTypeOK, LoopIs, ContinueFirst, Resume, childVars
<1>3. Turns'
  BY <1>0, FatherNumbers DEF Turns, FatherTypeOK, Reports, LoopIs, ContinueFirst, Resume, childVars
<1>4. PokedBack'
  BY PokesStay DEF FatherIInv, ContinueFirst
<1>5. LetGo'
  BY <1>0, FatherNumbers DEF LetGo, DetachedRuns, FatherTypeOK, Reports, Turns, LoopIs, ContinueFirst, Resume, childVars
<1> QED  BY <1>1, <1>2, <1>3, <1>4, <1>5 DEF FatherIInv

LEMMA FatherAttachChild == ASSUME FatherIInv, AttachChild PROVE FatherIInv'
<1>0. /\ FatherTypeOK /\ Reports /\ Turns /\ LetGo /\ LoopIs(father, loop)
      /\ father' = father /\ loop' = loop /\ (Attaches' <=> Attaches)
  BY LoopFacts, LoopStays DEF FatherIInv, FatherTypeOK, AttachChild
<1>1. FatherTypeOK'
  <2>0. Flags /\ Places
    BY <1>0, FatherTypes
  <2>1. Flags'
    BY <2>0, Zenon DEF Flags, AttachChild, Attaches
  <2>2. Places'
    BY <1>0, <2>0, FatherNumbers DEF Places, AttachChild, Attaches
  <2> QED  BY <2>1, <2>2 DEF FatherTypeOK, Flags, Places
<1>2. Reports'
  BY <1>0 DEF Reports, Matches, Unforked, FatherTypeOK, LoopIs, AttachChild, Attaches
<1>3. Turns'
  BY <1>0, FatherNumbers DEF Turns, FatherTypeOK, Reports, LoopIs, AttachChild, Attaches
<1>4. PokedBack'
  BY PokesStay DEF FatherIInv, AttachChild
<1>5. LetGo'
  BY <1>0, FatherNumbers DEF LetGo, DetachedRuns, FatherTypeOK, Reports, Turns, LoopIs, AttachChild, Attaches
<1> QED  BY <1>1, <1>2, <1>3, <1>4, <1>5 DEF FatherIInv

LEMMA FatherWait == ASSUME FatherIInv, Wait PROVE FatherIInv'
<1>0. /\ FatherTypeOK /\ Reports /\ Turns /\ LetGo /\ LoopIs(father, loop)
      /\ father' = father /\ loop' = loop /\ (Attaches' <=> Attaches)
  BY LoopFacts, LoopStays DEF FatherIInv, FatherTypeOK, Wait
<1>1. FatherTypeOK'
  <2>0. Flags /\ Places
    BY <1>0, FatherTypes
  <2>1. Flags'
    BY <2>0, Zenon DEF Flags, Wait, WaitChild, NoChild, childVars
  <2>2. Places'
    BY <1>0, <2>0, FatherNumbers DEF Places, Wait, WaitChild, NoChild, childVars
  <2> QED  BY <2>1, <2>2 DEF FatherTypeOK, Flags, Places
<1>2. Reports'
  BY <1>0 DEF Reports, Matches, Unforked, FatherTypeOK, LoopIs, Wait, WaitChild, NoChild, childVars
<1>3. Turns'
  BY <1>0, FatherNumbers DEF Turns, FatherTypeOK, Reports, LoopIs, Wait, WaitChild, NoChild, childVars
<1>4. PokedBack'
  BY PokesStay DEF FatherIInv, Wait
<1>5. LetGo'
  BY <1>0, FatherNumbers DEF LetGo, DetachedRuns, FatherTypeOK, Reports, Turns, LoopIs, Wait, WaitChild, NoChild, childVars
<1> QED  BY <1>1, <1>2, <1>3, <1>4, <1>5 DEF FatherIInv

LEMMA FatherLoopEnds == ASSUME FatherIInv, LoopEnds PROVE FatherIInv'
<1>0. /\ FatherTypeOK /\ Reports /\ Turns /\ LetGo /\ LoopIs(father, loop)
      /\ father' = father /\ loop' = loop /\ (Attaches' <=> Attaches)
  BY LoopFacts, LoopStays DEF FatherIInv, FatherTypeOK, LoopEnds
<1>1. FatherTypeOK'
  <2>0. Flags /\ Places
    BY <1>0, FatherTypes
  <2>1. Flags'
    BY <2>0, Zenon DEF Flags, LoopEnds, Resume, Mine, childVars
  <2>2. Places'
    BY <1>0, <2>0, FatherNumbers DEF Places, LoopEnds, Resume, Mine, childVars
  <2> QED  BY <2>1, <2>2 DEF FatherTypeOK, Flags, Places
<1>2. Reports'
  <2>1. /\ fpc = "handle" /\ fpc' = "done" /\ Mine /\ ~Attaches
        /\ said' \in {"error", status} /\ UNCHANGED <<forkFailed, status, got, childEnd>>
    BY DEF LoopEnds, Resume, Attaches, childVars
  <2>2. \/ UNCHANGED <<childState, event>>
        \/ childState = "stopped" /\ childState' = "running" /\ event' = "none"
    BY DEF LoopEnds, Resume, childVars
  <2>3. said' \in {"exited", "signaled"} =>
            Matches(said') \/ (forkFailed /\ loop.failed = "on") \/ father = "Attach"
    <3> SUFFICES ASSUME said' \in {"exited", "signaled"}, father # "Attach",
                        ~(forkFailed /\ loop.failed = "on")
                 PROVE  Matches(said')
      OBVIOUS
    <3>1. said' = status
      BY <2>1
    <3>2. got \in {"child", "error"}
      BY <1>0, <2>1 DEF Reports, FatherTypeOK
    <3>3. childState # "none"
      <4> SUFFICES ASSUME childState = "none" PROVE FALSE
        OBVIOUS
      <4>1. loop.failed = "thread" /\ ~forkFailed /\ got = "error" /\ loop.checks
        BY <1>0, <2>1, <3>1, <3>2 DEF Reports, Unforked, LoopIs
      <4> QED  BY <2>1, <4>1 DEF Mine
    <3>4. childState = "gone"
      BY <1>0, <2>1, <3>1, <3>2, <3>3 DEF Reports
    <3> QED  BY <1>0, <3>1, <3>4 DEF Reports
  <2> QED  BY <1>0, <2>1, <2>2, <2>3 DEF Reports, Matches, Unforked, FatherTypeOK
<1>3. Turns'
  BY <1>0, FatherNumbers DEF Turns, FatherTypeOK, Reports, LoopIs, LoopEnds, Resume, Mine, childVars
<1>4. PokedBack'
  BY PokesStay DEF FatherIInv, LoopEnds
<1>5. LetGo'
  BY <1>0, FatherNumbers DEF LetGo, DetachedRuns, FatherTypeOK, Reports, Turns, LoopIs, LoopEnds, Resume, Mine, childVars
<1> QED  BY <1>1, <1>2, <1>3, <1>4, <1>5 DEF FatherIInv

LEMMA FatherLoopTurns == ASSUME FatherIInv, LoopTurns PROVE FatherIInv'
<1>0. /\ FatherTypeOK /\ Reports /\ Turns /\ LetGo /\ LoopIs(father, loop)
      /\ father' = father /\ loop' = loop /\ (Attaches' <=> Attaches)
  BY LoopFacts, LoopStays DEF FatherIInv, FatherTypeOK, LoopTurns
<1>1. FatherTypeOK'
  <2>0. Flags /\ Places
    BY <1>0, FatherTypes
  <2>1. Flags'
    BY <2>0, Zenon DEF Flags, LoopTurns, childVars
  <2>2. Places'
    BY <1>0, <2>0, FatherNumbers DEF Places, LoopTurns, childVars
  <2> QED  BY <2>1, <2>2 DEF FatherTypeOK, Flags, Places
<1>2. Reports'
  BY <1>0 DEF Reports, Matches, Unforked, Attaches, FatherTypeOK, LoopIs, LoopTurns, childVars
<1>3. Turns'
  BY <1>0, FatherNumbers DEF Turns, FatherTypeOK, Reports, LoopIs, LoopTurns, childVars
<1>4. PokedBack'
  BY PokesStay DEF FatherIInv, LoopTurns
<1>5. LetGo'
  BY <1>0, FatherNumbers DEF LetGo, DetachedRuns, FatherTypeOK, Reports, Turns, LoopIs, LoopTurns, childVars
<1> QED  BY <1>1, <1>2, <1>3, <1>4, <1>5 DEF FatherIInv

LEMMA FatherTraceSteps == ASSUME FatherIInv, TraceSteps PROVE FatherIInv'
<1>0. /\ FatherTypeOK /\ Reports /\ Turns /\ LetGo /\ LoopIs(father, loop)
      /\ father' = father /\ loop' = loop /\ (Attaches' <=> Attaches)
  BY LoopFacts, LoopStays DEF FatherIInv, FatherTypeOK, TraceSteps
<1>1. FatherTypeOK'
  <2>0. Flags /\ Places
    BY <1>0, FatherTypes
  <2>1. Flags'
    BY <2>0, Zenon DEF Flags, TraceSteps, Resume, childVars
  <2>2. Places'
    BY <1>0, <2>0, FatherNumbers DEF Places, TraceSteps, Resume, childVars
  <2> QED  BY <2>1, <2>2 DEF FatherTypeOK, Flags, Places
<1>2. Reports'
  BY <1>0 DEF Reports, Matches, Unforked, FatherTypeOK, LoopIs, TraceSteps, Resume, childVars
<1>3. Turns'
  BY <1>0, FatherNumbers DEF Turns, FatherTypeOK, Reports, LoopIs, TraceSteps, Resume, childVars
<1>4. PokedBack'
  BY PokesStay DEF FatherIInv, TraceSteps
<1>5. LetGo'
  BY <1>0, FatherNumbers DEF LetGo, DetachedRuns, FatherTypeOK, Reports, Turns, LoopIs, TraceSteps, Resume, childVars
<1> QED  BY <1>1, <1>2, <1>3, <1>4, <1>5 DEF FatherIInv

LEMMA FatherKillChild == ASSUME FatherIInv, KillChild PROVE FatherIInv'
<1>0. /\ FatherTypeOK /\ Reports /\ Turns /\ LetGo /\ LoopIs(father, loop)
      /\ father' = father /\ loop' = loop /\ (Attaches' <=> Attaches)
  BY LoopFacts, LoopStays DEF FatherIInv, FatherTypeOK, KillChild
<1>1. FatherTypeOK'
  <2>0. Flags /\ Places
    BY <1>0, FatherTypes
  <2>1. Flags'
    BY <2>0, Zenon DEF Flags, KillChild, Ends
  <2>2. Places'
    BY <1>0, <2>0, FatherNumbers DEF Places, KillChild, Ends
  <2> QED  BY <2>1, <2>2 DEF FatherTypeOK, Flags, Places
<1>2. Reports'
  BY <1>0 DEF Reports, Matches, Unforked, FatherTypeOK, LoopIs, KillChild, Ends
<1>3. Turns'
  BY <1>0, FatherNumbers DEF Turns, FatherTypeOK, Reports, LoopIs, KillChild, Ends
<1>4. PokedBack'
  BY PokesStay DEF FatherIInv, KillChild
<1>5. LetGo'
  BY <1>0, FatherNumbers DEF LetGo, DetachedRuns, FatherTypeOK, Reports, Turns, LoopIs, KillChild, Ends
<1> QED  BY <1>1, <1>2, <1>3, <1>4, <1>5 DEF FatherIInv

LEMMA FatherDetachChild == ASSUME FatherIInv, DetachChild PROVE FatherIInv'
<1>0. /\ FatherTypeOK /\ Reports /\ Turns /\ LetGo /\ LoopIs(father, loop)
      /\ father' = father /\ loop' = loop /\ (Attaches' <=> Attaches)
  BY LoopFacts, LoopStays DEF FatherIInv, FatherTypeOK, DetachChild
<1>1. FatherTypeOK'
  <2>0. Flags /\ Places
    BY <1>0, FatherTypes
  <2>1. Flags'
    BY <2>0, Zenon DEF Flags, DetachChild
  <2>2. Places'
    BY <1>0, <2>0, FatherNumbers DEF Places, DetachChild
  <2> QED  BY <2>1, <2>2 DEF FatherTypeOK, Flags, Places
<1>2. Reports'
  BY <1>0 DEF Reports, Matches, Unforked, FatherTypeOK, LoopIs, DetachChild
<1>3. Turns'
  BY <1>0, FatherNumbers DEF Turns, FatherTypeOK, Reports, LoopIs, DetachChild
<1>4. PokedBack'
  BY PokesStay DEF FatherIInv, DetachChild
<1>5. LetGo'
  BY <1>0, FatherNumbers DEF LetGo, DetachedRuns, FatherTypeOK, Reports, Turns, LoopIs, DetachChild
<1> QED  BY <1>1, <1>2, <1>3, <1>4, <1>5 DEF FatherIInv

LEMMA FatherAttachEnds == ASSUME FatherIInv, AttachEnds PROVE FatherIInv'
<1>0. /\ FatherTypeOK /\ Reports /\ Turns /\ LetGo /\ LoopIs(father, loop)
      /\ father' = father /\ loop' = loop /\ (Attaches' <=> Attaches)
  BY LoopFacts, LoopStays DEF FatherIInv, FatherTypeOK, AttachEnds
<1>1. FatherTypeOK'
  <2>0. Flags /\ Places
    BY <1>0, FatherTypes
  <2>1. Flags'
    BY <2>0, Zenon DEF Flags, AttachEnds, childVars
  <2>2. Places'
    BY <1>0, <2>0, FatherNumbers DEF Places, AttachEnds, childVars
  <2> QED  BY <2>1, <2>2 DEF FatherTypeOK, Flags, Places
<1>2. Reports'
  BY <1>0 DEF Reports, Matches, Unforked, FatherTypeOK, LoopIs, AttachEnds, childVars
<1>3. Turns'
  BY <1>0, FatherNumbers DEF Turns, FatherTypeOK, Reports, LoopIs, AttachEnds, childVars
<1>4. PokedBack'
  BY PokesStay DEF FatherIInv, AttachEnds
<1>5. LetGo'
  BY <1>0, FatherNumbers DEF LetGo, DetachedRuns, FatherTypeOK, Reports, Turns, LoopIs, AttachEnds, childVars
<1> QED  BY <1>1, <1>2, <1>3, <1>4, <1>5 DEF FatherIInv

(* The loops over system calls.  What they take an entry or an exit for    *)
(* is what the child is at, without signals.                               *)
LEMMA FatherTraceCalls == ASSUME FatherIInv, TraceCalls PROVE FatherIInv'
<1>0. /\ FatherTypeOK /\ Reports /\ Turns /\ LetGo /\ LoopIs(father, loop) /\ Flags /\ Places
      /\ father' = father /\ loop' = loop /\ (Attaches' <=> Attaches)
  BY LoopFacts, LoopStays, FatherTypes DEF FatherIInv, FatherTypeOK, TraceCalls
<1>1. /\ fpc = "handle" /\ fpc' = "wait" /\ loop.resume \in {"calls", "pokes"}
      /\ insyscall' = (IF Eax = "write" THEN 1 - insyscall ELSE insyscall)
      /\ Resume("syscall") /\ UNCHANGED <<forkFailed, status, got, said>>
      /\ misread' = (misread \/ (Eax = "write" /\ at # IF insyscall = 0 THEN "entry" ELSE "exit"))
  BY DEF TraceCalls
<1>2. \/ childState # "stopped" /\ Eax = "other" /\ UNCHANGED childVars
      \/ /\ childState = "stopped" /\ Eax = origEax /\ childState' = "running"
         /\ mode' = "syscall" /\ event' = "none" /\ signal' = FALSE
         /\ UNCHANGED <<traced, stopPending, at, origEax, text, childEnd, stops, signals>>
  BY <1>1 DEF Resume, Eax
<1>3. FatherTypeOK'
  <2>1. misread' \in BOOLEAN
    BY <1>1
  <2>2. Flags'
    BY <1>0, <1>1, <1>2, <2>1, Zenon DEF Flags, childVars
  <2>3. Places'
    BY <1>0, <1>1, <1>2 DEF Places, childVars
  <2> QED  BY <2>2, <2>3 DEF FatherTypeOK, Flags, Places
<1>4. Reports'
  BY <1>0, <1>1, <1>2 DEF Reports, Matches, Unforked, FatherTypeOK, Attaches, childVars
<1>5. Turns'
  <2>0. signals = 0 /\ Eax = "write" => at = IF insyscall = 0 THEN "entry" ELSE "exit"
    BY <1>0, <1>1, <1>2 DEF Turns, Places
  <2>1. signals = 0 => (misread' <=> misread)
    BY <1>1, <2>0, Zenon
  <2>2. signals' = signals /\ signals \in Nat
    BY <1>0, <1>2, FatherNumbers DEF Places, childVars
  <2> QED  BY <1>0, <1>1, <1>2, <2>1, <2>2 DEF Turns, Places, childVars
<1>6. PokedBack'
  <2>1. CASE poked' = poked
    BY <2>1, PokesStay DEF FatherIInv
  <2>2. ASSUME NEW junk \in {0, 1}, poked' = <<text, Putdata(reverse(text), junk)>>
        PROVE  PokedBack'
    <3>1. text \in Seq(0 .. 2)
      BY <1>0 DEF Places
    <3> DEFINE put == Putdata(reverse(text), junk)  after == SubSeq(put, 1, Len(text))
    <3>2. /\ reverse(after) = text /\ Len(put) < Len(text) + LongSize
          /\ text # <<>> => after[Len(after)] = text[Len(text)]
      BY <3>1, PokeIsBack
    <3> HIDE DEF put
    <3>3. poked'[1] = text /\ poked'[2] = put
      BY <2>2 DEF put
    <3> QED  BY <3>2, <3>3 DEF PokedBack
  <2> QED  BY <2>1, <2>2 DEF TraceCalls
<1>7. LetGo'
  BY <1>0, <1>1 DEF LetGo, DetachedRuns
<1> QED  BY <1>3, <1>4, <1>5, <1>6, <1>7 DEF FatherIInv

LEMMA StepChildStarts ==
    ASSUME FatherIInv, fpc # "done", ChildStarts(loop.traceme, loop.exec, loop.resume = "sleeps"),
           UNCHANGED <<father, fpc, forkFailed, status, got, insyscall, said, misread, poked>>
    PROVE  FatherIInv'
<1>0. /\ FatherTypeOK /\ Reports /\ Turns /\ LetGo /\ LoopIs(father, loop) /\ Flags /\ Places
      /\ loop' = loop /\ (Attaches' <=> Attaches)
  BY LoopFacts, LoopStays, FatherTypes DEF FatherIInv, FatherTypeOK
<1>1. FatherTypeOK'
  <2>1. Flags'
    BY <1>0, Zenon DEF Flags, ChildStarts, StopsAt, Ends
  <2>2. Places'
    BY <1>0, FatherNumbers DEF Places, ChildStarts, StopsAt, Ends
  <2> QED  BY <2>1, <2>2 DEF FatherTypeOK, Flags, Places
<1>2. Reports'
  BY <1>0 DEF Reports, Matches, Unforked, Places, LoopIs, ChildStarts, StopsAt, Ends
<1>3. Turns'
  BY <1>0, FatherNumbers DEF Turns, Places, Reports, LoopIs, ChildStarts, StopsAt, Ends
<1>4. PokedBack'
  BY PokesStay DEF FatherIInv
<1>5. LetGo'
  BY <1>0, FatherNumbers DEF LetGo, DetachedRuns, Places, Reports, Turns, LoopIs, ChildStarts, StopsAt, Ends
<1> QED  BY <1>1, <1>2, <1>3, <1>4, <1>5 DEF FatherIInv

LEMMA TextsAre == Texts \subseteq Seq(0 .. 2)
<1> SUFFICES ASSUME NEW str \in Texts PROVE str \in Seq(0 .. 2)
  OBVIOUS
<1>1. PICK n \in 0 .. MaxText : str \in [1 .. n -> 0 .. 2]
  BY DEF Texts
<1>2. n \in Nat
  BY <1>1, FatherNumbers
<1> QED  BY <1>1, <1>2

LEMMA StepChildCalls ==
    ASSUME FatherIInv, fpc # "done", ChildCalls,
           UNCHANGED <<father, fpc, forkFailed, status, got, insyscall, said, misread, poked>>
    PROVE  FatherIInv'
<1>0. /\ FatherTypeOK /\ Reports /\ Turns /\ LetGo /\ LoopIs(father, loop) /\ Flags /\ Places
      /\ loop' = loop /\ (Attaches' <=> Attaches)
  BY LoopFacts, LoopStays, FatherTypes DEF FatherIInv, FatherTypeOK
<1>1. FatherTypeOK'
  <2>1. Flags'
    BY <1>0, Zenon DEF Flags, ChildCalls, StopsAt
  <2>2. Places'
    <3>1. text' \in Seq(0 .. 2)
      <4>1. text' \in Texts \cup {text}
        BY DEF ChildCalls
      <4>2. text \in Seq(0 .. 2)
        BY <1>0 DEF Places
      <4> QED  BY <4>1, <4>2, TextsAre
    <3>2. stops' \in 0 .. MaxStops
      BY <1>0, FatherNumbers DEF Places, ChildCalls
    <3>3. /\ childState' = "stopped" /\ event' = "stopped" /\ childEnd' = childEnd
          /\ at' \in {"entry", "exit", "step"} /\ origEax' \in {"write", "other"}
          /\ childState = "running" /\ UNCHANGED <<mode, signals>>
      BY <1>0 DEF Places, ChildCalls, StopsAt
    <3> QED  BY <1>0, <3>1, <3>2, <3>3 DEF Places
  <2> QED  BY <2>1, <2>2 DEF FatherTypeOK, Flags, Places
<1>2. Reports'
  BY <1>0 DEF Reports, Matches, Unforked, Places, LoopIs, ChildCalls, StopsAt
<1>3. Turns'
  BY <1>0, FatherNumbers DEF Turns, Places, Reports, LoopIs, ChildCalls, StopsAt
<1>4. PokedBack'
  BY PokesStay DEF FatherIInv
<1>5. LetGo'
  BY <1>0, FatherNumbers DEF LetGo, DetachedRuns, Places, Reports, Turns, LoopIs, ChildCalls, StopsAt
<1> QED  BY <1>1, <1>2, <1>3, <1>4, <1>5 DEF FatherIInv

LEMMA StepChildTakesSignal ==
    ASSUME FatherIInv, fpc # "done", ChildTakesSignal,
           UNCHANGED <<father, fpc, forkFailed, status, got, insyscall, said, misread, poked>>
    PROVE  FatherIInv'
<1>0. /\ FatherTypeOK /\ Reports /\ Turns /\ LetGo /\ LoopIs(father, loop) /\ Flags /\ Places
      /\ loop' = loop /\ (Attaches' <=> Attaches)
  BY LoopFacts, LoopStays, FatherTypes DEF FatherIInv, FatherTypeOK
<1>1. FatherTypeOK'
  <2>1. Flags'
    BY <1>0, Zenon DEF Flags, ChildTakesSignal, StopsAt, Ends
  <2>2. Places'
    BY <1>0, FatherNumbers DEF Places, ChildTakesSignal, StopsAt, Ends
  <2> QED  BY <2>1, <2>2 DEF FatherTypeOK, Flags, Places
<1>2. Reports'
  BY <1>0 DEF Reports, Matches, Unforked, Places, LoopIs, ChildTakesSignal, StopsAt, Ends
<1>3. Turns'
  BY <1>0, FatherNumbers DEF Turns, Places, Reports, LoopIs, ChildTakesSignal, StopsAt, Ends
<1>4. PokedBack'
  BY PokesStay DEF FatherIInv
<1>5. LetGo'
  BY <1>0, FatherNumbers DEF LetGo, DetachedRuns, Places, Reports, Turns, LoopIs, ChildTakesSignal, StopsAt, Ends
<1> QED  BY <1>1, <1>2, <1>3, <1>4, <1>5 DEF FatherIInv

LEMMA StepChildTakesStop ==
    ASSUME FatherIInv, fpc # "done", ChildTakesStop,
           UNCHANGED <<father, fpc, forkFailed, status, got, insyscall, said, misread, poked>>
    PROVE  FatherIInv'
<1>0. /\ FatherTypeOK /\ Reports /\ Turns /\ LetGo /\ LoopIs(father, loop) /\ Flags /\ Places
      /\ loop' = loop /\ (Attaches' <=> Attaches)
  BY LoopFacts, LoopStays, FatherTypes DEF FatherIInv, FatherTypeOK
<1>1. FatherTypeOK'
  <2>1. Flags'
    BY <1>0, Zenon DEF Flags, ChildTakesStop, StopsAt
  <2>2. Places'
    BY <1>0, FatherNumbers DEF Places, ChildTakesStop, StopsAt
  <2> QED  BY <2>1, <2>2 DEF FatherTypeOK, Flags, Places
<1>2. Reports'
  BY <1>0 DEF Reports, Matches, Unforked, Places, LoopIs, ChildTakesStop, StopsAt
<1>3. Turns'
  BY <1>0, FatherNumbers DEF Turns, Places, Reports, LoopIs, ChildTakesStop, StopsAt
<1>4. PokedBack'
  BY PokesStay DEF FatherIInv
<1>5. LetGo'
  BY <1>0, FatherNumbers DEF LetGo, DetachedRuns, Places, Reports, Turns, LoopIs, ChildTakesStop, StopsAt
<1> QED  BY <1>1, <1>2, <1>3, <1>4, <1>5 DEF FatherIInv

LEMMA StepChildExits ==
    ASSUME FatherIInv, fpc # "done", ChildExits,
           UNCHANGED <<father, fpc, forkFailed, status, got, insyscall, said, misread, poked>>
    PROVE  FatherIInv'
<1>0. /\ FatherTypeOK /\ Reports /\ Turns /\ LetGo /\ LoopIs(father, loop) /\ Flags /\ Places
      /\ loop' = loop /\ (Attaches' <=> Attaches)
  BY LoopFacts, LoopStays, FatherTypes DEF FatherIInv, FatherTypeOK
<1>1. FatherTypeOK'
  <2>1. Flags'
    BY <1>0, Zenon DEF Flags, ChildExits, Ends
  <2>2. Places'
    BY <1>0, FatherNumbers DEF Places, ChildExits, Ends
  <2> QED  BY <2>1, <2>2 DEF FatherTypeOK, Flags, Places
<1>2. Reports'
  BY <1>0 DEF Reports, Matches, Unforked, Places, LoopIs, ChildExits, Ends
<1>3. Turns'
  BY <1>0, FatherNumbers DEF Turns, Places, Reports, LoopIs, ChildExits, Ends
<1>4. PokedBack'
  BY PokesStay DEF FatherIInv
<1>5. LetGo'
  BY <1>0, FatherNumbers DEF LetGo, DetachedRuns, Places, Reports, Turns, LoopIs, ChildExits, Ends
<1> QED  BY <1>1, <1>2, <1>3, <1>4, <1>5 DEF FatherIInv

LEMMA StepChildSignaled ==
    ASSUME FatherIInv, fpc # "done", ChildSignaled,
           UNCHANGED <<father, fpc, forkFailed, status, got, insyscall, said, misread, poked>>
    PROVE  FatherIInv'
<1>0. /\ FatherTypeOK /\ Reports /\ Turns /\ LetGo /\ LoopIs(father, loop) /\ Flags /\ Places
      /\ loop' = loop /\ (Attaches' <=> Attaches)
  BY LoopFacts, LoopStays, FatherTypes DEF FatherIInv, FatherTypeOK
<1>1. FatherTypeOK'
  <2>1. Flags'
    BY <1>0, Zenon DEF Flags, ChildSignaled, Ends
  <2>2. Places'
    BY <1>0, FatherNumbers DEF Places, ChildSignaled, Ends
  <2> QED  BY <2>1, <2>2 DEF FatherTypeOK, Flags, Places
<1>2. Reports'
  BY <1>0 DEF Reports, Matches, Unforked, Places, LoopIs, ChildSignaled, Ends
<1>3. Turns'
  BY <1>0, FatherNumbers DEF Turns, Places, Reports, LoopIs, ChildSignaled, Ends
<1>4. PokedBack'
  BY PokesStay DEF FatherIInv
<1>5. LetGo'
  BY <1>0, FatherNumbers DEF LetGo, DetachedRuns, Places, Reports, Turns, LoopIs, ChildSignaled, Ends
<1> QED  BY <1>1, <1>2, <1>3, <1>4, <1>5 DEF FatherIInv

LEMMA FatherNextIInv == ASSUME FatherIInv, [FatherNext]_fatherVars PROVE FatherIInv'
<1>1. CASE FatherStep
  BY <1>1, FatherFork, FatherContinueFirst, FatherAttachChild, FatherWait, FatherLoopEnds,
     FatherLoopTurns, FatherTraceCalls, FatherTraceSteps, FatherKillChild, FatherDetachChild,
     FatherAttachEnds DEF FatherStep
<1>2. CASE ChildStep
  <2>1. fpc # "done"
        /\ UNCHANGED <<father, fpc, forkFailed, status, got, insyscall, said, misread, poked>>
    BY <1>2 DEF ChildStep
  <2>2. \/ ChildStarts(loop.traceme, loop.exec, loop.resume = "sleeps")
        \/ ChildCalls \/ ChildTakesSignal \/ ChildTakesStop \/ ChildExits \/ ChildSignaled
    BY <1>2 DEF ChildStep
  <2> QED
    BY <2>1, <2>2, StepChildStarts, StepChildCalls, StepChildTakesSignal, StepChildTakesStop,
       StepChildExits, StepChildSignaled
<1>3. CASE UNCHANGED fatherVars
  <2>1. /\ UNCHANGED <<father, fpc, forkFailed, status, got, insyscall, said, misread, poked>>
        /\ UNCHANGED <<childState, traced, mode, stopPending, signal, at, origEax, text,
                       event, childEnd, stops, signals>>
    BY <1>3 DEF fatherVars, childVars
  <2>2. loop' = loop /\ (Attaches' <=> Attaches)
    BY <2>1, LoopStays
  <2>3. FatherTypeOK'
    BY <2>1 DEF FatherIInv, FatherTypeOK
  <2>4. Reports' /\ Turns'
    BY <2>1, <2>2 DEF FatherIInv, Reports, Matches, Unforked, Turns
  <2>5. PokedBack' /\ LetGo'
    BY <2>1, <2>2, PokesStay DEF FatherIInv, LetGo, DetachedRuns
  <2> QED  BY <2>3, <2>4, <2>5 DEF FatherIInv
<1> QED  BY <1>1, <1>2, <1>3 DEF FatherNext

LEMMA FatherInvKnown == FatherIInv => ChildrenAreKnown
<1> SUFFICES ASSUME FatherIInv PROVE ChildrenAreKnown
  OBVIOUS
<1>1. ReportsAreTrue
  BY DEF FatherIInv, Reports, Matches, Turns, ReportsAreTrue
<1> QED  BY <1>1 DEF FatherIInv, LetGo, ChildrenAreKnown

-----------------------------------------------------------------------------
(* All programs.  A step of one leaves the variables of the others alone.  *)

ProcessIInv ==
    FatherIInv /\ MqIInv /\ SarIInv /\ AttrIInv /\ ShmIInv /\ SemIInv /\ FileIInv

LEMMA ProcessInit == Init => ProcessIInv
BY FatherInitIInv, MqInitIInv, SarInitIInv, AttrInitIInv, ShmInitIInv, SemInitIInv, FileInitIInv
DEF Init, ProcessIInv

LEMMA ProcessSteps ==
    ASSUME [Next]_vars
    PROVE  /\ [FatherNext]_fatherVars /\ [MqNext]_mqVars /\ [SarNext]_sarVars
           /\ [AttrNext]_attrVars /\ [ShmNext]_shmVars /\ [SemNext]_semVars
           /\ [FileNext]_fileVars
BY DEF Next, Following, Queueing, SharingBuffer, Changing, SharingMemory, Posting, Filing, vars

LEMMA ProcessHolds == Spec => []ProcessIInv
<1>1. Init => ProcessIInv
  BY ProcessInit
<1>2. ProcessIInv /\ [Next]_vars => ProcessIInv'
  <2> SUFFICES ASSUME ProcessIInv, [Next]_vars PROVE ProcessIInv'
    OBVIOUS
  <2> QED
    BY ProcessSteps, FatherNextIInv, MqNextIInv, SarNextIInv, AttrNextIInv, ShmNextIInv,
       SemNextIInv, FileNextIInv DEF ProcessIInv
<1> QED  BY <1>1, <1>2, PTL DEF Spec

(* The variables of every program have their types, whatever the numbers   *)
(* of processes, messages, memories and signals.                           *)
THEOREM ProcessType == Spec => []TypeOK
<1>1. ProcessIInv => TypeOK
  BY DEF ProcessIInv, FatherIInv, MqIInv, SarIInv, AttrIInv, ShmIInv, SemIInv, FileIInv, TypeOK
<1> QED  BY <1>1, ProcessHolds, PTL

(* A father is right about the end of its child, a tracing one about where *)
(* its child is, a text that was turned is turned back, a detached child   *)
(* runs (waitTest.cpp:106, ptraceTest.cpp:233, mipsPtraceTest.cpp:308).    *)
THEOREM ChildrenKnown == Spec => []ChildrenAreKnown
<1>1. ProcessIInv => ChildrenAreKnown
  BY FatherInvKnown DEF ProcessIInv
<1> QED  BY <1>1, ProcessHolds, PTL

(* Messages of a queue are received once and in order, whoever receives    *)
(* and whatever the name means, and lost only as the tail of a queue that  *)
(* was unlinked and that nobody has open; an interrupted receiver's totals *)
(* lag by one; a buffer that is not ready is sent only when sending        *)
(* threads overlap (msgQueueUnlink.cpp:41, msgQueueRecv.cpp:82,            *)
(* msgQueueTest.cpp:264, msgQueueSAROneProcess.cpp:137).                   *)
THEOREM MessagesAreAccounted == Spec => []MessagesAccounted
<1>1. ProcessIInv => MessagesAccounted
  BY MqInvAccounted, SarInvJunk DEF ProcessIInv, MessagesAccounted
<1> QED  BY <1>1, ProcessHolds, PTL

(* A writer's memory is found whole unless another writer cuts it or takes *)
(* its name; the waiters of a semaphore split its posts, but for those in  *)
(* the hands of one that is interrupted; a locked file is whole and so is  *)
(* its copy (shareMemoryTest.cpp:139, nameSemaphoreWaitAndPost.cpp:65,     *)
(* syncTest.cpp:45, fileCopy.cpp:46).                                      *)
THEOREM SharedObjectsHold == Spec => []SharedHold
<1>1. ProcessIInv => SharedHold
  BY ShmInvFound, SemInvClock, FileInvWhole DEF ProcessIInv, SharedHold
<1> QED  BY <1>1, ProcessHolds, PTL
=============================================================================
