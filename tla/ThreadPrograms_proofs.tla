----------------------- MODULE ThreadPrograms_proofs -----------------------
(***************************************************************************)
(* Proofs about the programs of ThreadPrograms and StatisticsDouble, for   *)
(* any number of threads, any size of file, queue and loop, and any        *)
(* durations that satisfy StatisticsAssumption.                            *)
(***************************************************************************)
EXTENDS ThreadPrograms, StatisticsDouble, FiniteSetTheorems, TLAPS

-----------------------------------------------------------------------------
(* A step of a thread changes the set of threads at one place by itself.   *)

LEMMA Joins ==
    ASSUME NEW T, IsFiniteSet(T), NEW S \in SUBSET T, NEW t \in T, t \notin S
    PROVE  Cardinality(S \cup {t}) = Cardinality(S) + 1
  BY FS_Subset, FS_AddElement

LEMMA Leaves ==
    ASSUME NEW T, IsFiniteSet(T), NEW S \in SUBSET T, NEW t \in S
    PROVE  Cardinality(S \ {t}) = Cardinality(S) - 1
  BY FS_Subset, FS_RemoveElement

LEMMA SizeOfPart ==
    ASSUME NEW T, IsFiniteSet(T), NEW S \in SUBSET T
    PROVE  Cardinality(S) \in Nat /\ Cardinality(T) \in Nat
           /\ Cardinality(S) <= Cardinality(T)
  BY FS_Subset, FS_CardinalityType

-----------------------------------------------------------------------------
(* Logger.                                                                 *)

(* A thread that is about to print is inside its loop.                     *)
LogInLoop == \A t \in LogThreads : lpc[t] # "check" => lidx[t] < LogLoops

LogIInv == LogTypeOK /\ LogInLoop /\ LogBounded

LEMMA LogInitIInv == LogInit => LogIInv
<1> SUFFICES ASSUME LogInit PROVE LogIInv
  OBVIOUS
<1>1. LogTypeOK
  <2>1. 0 \in 0..LogLoops
    BY LoggerAssumption
  <2> QED  BY <2>1 DEF LogInit, LogTypeOK
<1>2. Printing = {}
  BY DEF LogInit, Printing
<1>3. Cardinality(Printing) = 0
  BY <1>2, FS_EmptySet
<1>4. Cardinality(LogThreads) \in Nat
  BY LoggerAssumption, FS_CardinalityType
<1>5. LogRecord * Cardinality(LogThreads) \in Nat /\ LogRecord * 0 = 0
  BY <1>4, LoggerAssumption
<1>6. LogBounded
  BY <1>3, <1>5, LoggerAssumption DEF LogInit, LogBounded
<1>7. LogInLoop
  BY DEF LogInit, LogInLoop
<1> QED  BY <1>1, <1>6, <1>7 DEF LogIInv

LEMMA LogNextIInv == ASSUME LogIInv, [LogNext]_logVars PROVE LogIInv'
<1> DEFINE c == Cardinality(Printing)
           n == Cardinality(LogThreads)
<1> USE LoggerAssumption DEF LogIInv
<1>1. /\ Printing \in SUBSET LogThreads /\ Printing' \in SUBSET LogThreads
      /\ c \in Nat /\ n \in Nat /\ c <= n /\ c' \in Nat /\ c' <= n
  <2>1. Printing \in SUBSET LogThreads /\ Printing' \in SUBSET LogThreads
    BY DEF Printing
  <2> QED  BY <2>1, SizeOfPart
<1>2. /\ LogRecord * c \in Nat /\ LogRecord * n \in Nat
      /\ LogRecord * c <= LogRecord * n
      /\ LogRecord * (c + 1) = LogRecord * c + LogRecord
      /\ LogRecord * (c - 1) = LogRecord * c - LogRecord
      /\ LogRecord * c' <= LogRecord * n /\ LogRecord * c' \in Nat
  BY <1>1
<1>3. ASSUME NEW t \in LogThreads, IsNeedRoll(t) PROVE LogIInv'
  <2>1. LogTypeOK' /\ LogInLoop'
    BY <1>3 DEF IsNeedRoll, LogTypeOK, LogInLoop
  <2>2. CASE filePos >= MaxFileSize
    <3>1. Printing' = Printing
      BY <1>3, <2>2 DEF IsNeedRoll, Printing, LogTypeOK
    <3> QED  BY <1>3, <2>1, <3>1 DEF IsNeedRoll, LogBounded
  <2>3. CASE ~(filePos >= MaxFileSize)
    <3>1. filePos' < MaxFileSize
      BY <1>3, <2>3 DEF IsNeedRoll, LogTypeOK
    <3>2. filePos' \in Nat
      BY <2>1 DEF LogTypeOK
    <3> HIDE DEF c, n
    <3>3. filePos' + LogRecord * c' < MaxFileSize + LogRecord * n
      BY <1>2, <3>1, <3>2
    <3> QED  BY <2>1, <3>3 DEF LogBounded, c, n
  <2> QED  BY <2>2, <2>3
<1>4. ASSUME NEW t \in LogThreads, Rewind(t) PROVE LogIInv'
  <2>1. LogTypeOK' /\ LogInLoop' /\ filePos' = 0
    BY <1>4 DEF Rewind, LogTypeOK, LogInLoop
  <2> HIDE DEF c, n
  <2>2. filePos' + LogRecord * c' < MaxFileSize + LogRecord * n
    BY <1>2, <2>1
  <2> QED  BY <2>1, <2>2 DEF LogBounded, c, n
<1>5. ASSUME NEW t \in LogThreads, PrintRecord(t) PROVE LogIInv'
  <2>1. /\ LogTypeOK' /\ LogInLoop'
        /\ filePos \in Nat /\ filePos' = filePos + LogRecord
    BY <1>5 DEF PrintRecord, LogTypeOK, LogInLoop
  <2>2. t \in Printing /\ Printing' = Printing \ {t}
    BY <1>5 DEF PrintRecord, Printing, LogTypeOK
  <2>3. c' = c - 1
    BY <1>1, <2>2, Leaves
  <2>4. filePos + LogRecord * c < MaxFileSize + LogRecord * n
    BY DEF LogBounded
  <2> HIDE DEF c, n
  <2>5. filePos' + LogRecord * c' < MaxFileSize + LogRecord * n
    BY <1>2, <2>1, <2>3, <2>4
  <2> QED  BY <2>1, <2>5 DEF LogBounded, c, n
<1>6. CASE LogMainReturns \/ UNCHANGED logVars
  BY <1>6 DEF LogMainReturns, logVars, LogTypeOK, LogInLoop, LogBounded,
      Printing
<1> QED  BY <1>3, <1>4, <1>5, <1>6 DEF LogNext

LEMMA LogSpecInv == LogSpec => []LogIInv
  BY LogInitIInv, LogNextIInv, PTL DEF LogSpec

LEMMA LogSpecBounded == LogSpec => []LogBounded
<1>1. LogIInv => LogBounded
  BY DEF LogIInv
<1> QED  BY <1>1, LogSpecInv, PTL

-----------------------------------------------------------------------------
(* CasCounter.                                                             *)

(* A value that was read can be written back without passing countSync.    *)
ReadBehind ==
    \A t \in CasThreads :
        cpc[t] = "write" => cread[t] + Cardinality(Between) <= countSync

CasInLoop == \A t \in CasThreads : cpc[t] \in {"read", "write"} => cidx[t] < LOOP_NUM

CasIInv == CasTypeOK /\ CasInLoop /\ ReadBehind /\ NoSyncNeverAhead

LEMMA CasInitIInv == CasInit => CasIInv
<1> SUFFICES ASSUME CasInit PROVE CasIInv
  OBVIOUS
<1>1. CasTypeOK
  <2>1. 0 \in 0..LOOP_NUM
    BY CasAssumption
  <2> QED  BY <2>1 DEF CasInit, CasTypeOK
<1>2. Cardinality(Between) = 0
  <2>1. Between = {}
    BY DEF CasInit, Between
  <2> QED  BY <2>1, FS_EmptySet
<1>3. NoSyncNeverAhead
  BY <1>2 DEF CasInit, NoSyncNeverAhead
<1>4. CasInLoop /\ ReadBehind
  BY DEF CasInit, CasInLoop, ReadBehind
<1> QED  BY <1>1, <1>3, <1>4 DEF CasIInv

LEMMA CasNextIInv == ASSUME CasIInv, [CasNext]_casVars PROVE CasIInv'
<1> DEFINE c == Cardinality(Between)
<1> USE DEF CasIInv
<1>1. Between \in SUBSET CasThreads /\ Between' \in SUBSET CasThreads
  BY DEF Between
<1>2. IsFiniteSet(CasThreads)
  BY CasAssumption
<1>3. c \in Nat
  BY <1>1, <1>2, SizeOfPart
<1>4. ASSUME NEW t \in CasThreads, CreateFunc(t) PROVE CasIInv'
  <2>1. Between' = Between
    BY <1>4 DEF CreateFunc, Between, CasTypeOK
  <2>2. CasTypeOK' /\ CasInLoop'
    BY <1>4 DEF CreateFunc, CasTypeOK, CasInLoop
  <2>3. ReadBehind' /\ NoSyncNeverAhead'
    BY <1>4, <2>1 DEF CreateFunc, CasTypeOK, ReadBehind, NoSyncNeverAhead
  <2> QED  BY <2>2, <2>3
<1>5. ASSUME NEW t \in CasThreads, AddSync(t) PROVE CasIInv'
  <2>1. t \notin Between /\ Between' = Between \cup {t}
    BY <1>5 DEF AddSync, Between, CasTypeOK
  <2>2. Cardinality(Between)' = c + 1
    BY <1>1, <1>2, <2>1, Joins
  <2>3. CasTypeOK' /\ CasInLoop'
    BY <1>5 DEF AddSync, CasTypeOK, CasInLoop
  <2>4. countSync' = countSync + 1 /\ UNCHANGED <<countNoSync, cread>>
    BY <1>5 DEF AddSync
  <2>5. NoSyncNeverAhead'
    BY <1>3, <2>2, <2>4 DEF NoSyncNeverAhead, CasTypeOK
  <2>6. ASSUME NEW u \in CasThreads, cpc'[u] = "write"
        PROVE  cread'[u] + Cardinality(Between)' <= countSync'
    <3>1. cpc[u] = "write"
      BY <1>5, <2>6 DEF AddSync, CasTypeOK
    <3>2. cread[u] + c <= countSync /\ cread[u] \in Nat
      BY <3>1 DEF ReadBehind, CasTypeOK
    <3> QED  BY <1>3, <2>2, <2>4, <3>2 DEF CasTypeOK
  <2> QED  BY <2>3, <2>5, <2>6 DEF ReadBehind
<1>6. ASSUME NEW t \in CasThreads, ReadNoSync(t) PROVE CasIInv'
  <2>1. Between' = Between
    BY <1>6 DEF ReadNoSync, Between, CasTypeOK
  <2>2. CasTypeOK' /\ CasInLoop'
    BY <1>6 DEF ReadNoSync, CasTypeOK, CasInLoop
  <2>3. NoSyncNeverAhead'
    BY <1>6, <2>1 DEF ReadNoSync, NoSyncNeverAhead
  <2>4. ReadBehind'
    BY <1>6, <2>1 DEF ReadNoSync, ReadBehind, NoSyncNeverAhead, CasTypeOK
  <2> QED  BY <2>2, <2>3, <2>4
<1>7. ASSUME NEW t \in CasThreads, WriteNoSync(t) PROVE CasIInv'
  <2>1. t \in Between /\ Between' = Between \ {t}
    BY <1>7 DEF WriteNoSync, Between, CasTypeOK
  <2>2. Cardinality(Between)' = c - 1
    BY <1>1, <1>2, <2>1, Leaves
  <2>3. CasTypeOK' /\ CasInLoop'
    <3>1. cread[t] + 1 \in Nat /\ cidx[t] + 1 \in 0..LOOP_NUM
      BY <1>7, CasAssumption DEF WriteNoSync, CasTypeOK, CasInLoop
    <3>2. CasTypeOK'
      BY <1>7, <3>1 DEF WriteNoSync, CasTypeOK
    <3>3. CasInLoop'
      BY <1>7 DEF WriteNoSync, CasTypeOK, CasInLoop
    <3> QED  BY <3>2, <3>3
  <2>4. countNoSync' = cread[t] + 1 /\ UNCHANGED <<countSync, cread>>
    BY <1>7 DEF WriteNoSync
  <2>5. cread[t] + c <= countSync /\ cread[t] \in Nat /\ countSync \in Nat
    BY <1>7 DEF WriteNoSync, ReadBehind, CasTypeOK
  <2>6. NoSyncNeverAhead'
    BY <1>3, <2>2, <2>4, <2>5 DEF NoSyncNeverAhead
  <2>7. ASSUME NEW u \in CasThreads, cpc'[u] = "write"
        PROVE  cread'[u] + Cardinality(Between)' <= countSync'
    <3>1. cpc[u] = "write"
      BY <1>7, <2>7 DEF WriteNoSync, CasTypeOK
    <3>2. cread[u] + c <= countSync /\ cread[u] \in Nat
      BY <3>1 DEF ReadBehind, CasTypeOK
    <3> QED  BY <1>3, <2>2, <2>4, <2>5, <3>2
  <2> QED  BY <2>3, <2>6, <2>7 DEF ReadBehind
<1>8. CASE CasSleep \/ ShowSync \/ ShowNoSync \/ UNCHANGED casVars
  <2>1. UNCHANGED <<countSync, countNoSync, cpc, cidx, cread>>
    BY <1>8 DEF CasSleep, ShowSync, ShowNoSync, casVars
  <2>2. CasTypeOK'
    BY <1>8 DEF CasSleep, ShowSync, ShowNoSync, casVars, CasTypeOK
  <2> QED  BY <2>1, <2>2 DEF CasInLoop, ReadBehind, NoSyncNeverAhead, Between
<1> QED  BY <1>4, <1>5, <1>6, <1>7, <1>8 DEF CasNext, ThreadFunc

LEMMA CasSpecInv == CasSpec => []CasIInv
  BY CasInitIInv, CasNextIInv, PTL DEF CasSpec

LEMMA CasSpecNeverAhead == CasSpec => []NoSyncNeverAhead
<1>1. CasIInv => NoSyncNeverAhead
  BY DEF CasIInv
<1> QED  BY <1>1, CasSpecInv, PTL

(* The additions to countSync that were made, one pair for each: a sum     *)
(* over the threads, written as the size of a set.                         *)
Additions ==
    {a \in CasThreads \X (1 .. LOOP_NUM) :
        \/ a[2] <= cidx[a[1]]
        \/ a[1] \in Between /\ a[2] = cidx[a[1]] + 1}

(* Whoever has been through its loop once has left a 1 behind for ever, so *)
(* that its later additions start from 1 at least.                         *)
FirstRoundStays ==
    \A t \in CasThreads :
        cidx[t] >= 1 => /\ countNoSync >= 1
                        /\ cpc[t] = "write" => cread[t] >= 1

(* Without another thread nothing is lost.                                 *)
AloneLosesNone ==
    \A t \in CasThreads :
        (\A u \in CasThreads : u # t => cpc[u] = "new") =>
            /\ countNoSync = cidx[t]
            /\ cpc[t] = "write" => cread[t] = cidx[t]

(* The last write of all is made in a last round, from 1 at least.         *)
LastWriteCounts ==
    LOOP_NUM >= 2 /\ AllDone /\ Created # {} => countNoSync >= 2

CasLoss ==
    /\ countSync = Cardinality(Additions)
    /\ \A t \in CasThreads : cpc[t] = "new" => cidx[t] = 0
    /\ FirstRoundStays /\ AloneLosesNone /\ LastWriteCounts

LEMMA CasInitLoss == CasInit => CasLoss
<1> SUFFICES ASSUME CasInit PROVE CasLoss
  OBVIOUS
<1>1. Additions = {}
  BY DEF CasInit, Additions, Between
<1>2. Cardinality(Additions) = 0
  BY <1>1, FS_EmptySet
<1>3. Created = {}
  BY DEF CasInit, Created
<1> QED
  BY <1>2, <1>3
  DEF CasInit, CasLoss, FirstRoundStays, AloneLosesNone, LastWriteCounts

LEMMA AdditionsFinite ==
    ASSUME CasTypeOK
    PROVE  /\ IsFiniteSet(CasThreads \X (1 .. LOOP_NUM))
           /\ Additions \in SUBSET (CasThreads \X (1 .. LOOP_NUM))
<1>1. IsFiniteSet(1 .. LOOP_NUM)
  BY CasAssumption, FS_Interval
<1>2. IsFiniteSet(CasThreads \X (1 .. LOOP_NUM))
  BY <1>1, CasAssumption, FS_Product
<1> QED  BY <1>2 DEF Additions

LEMMA CasNextLoss ==
    ASSUME CasIInv, CasLoss, [CasNext]_casVars PROVE CasLoss'
<1> USE CasAssumption DEF CasIInv, CasLoss
<1>1. ASSUME NEW t \in CasThreads, CreateFunc(t) PROVE CasLoss'
  <2> USE <1>1 DEF CreateFunc, CasTypeOK
  <2>1. Additions' = Additions
    BY DEF Additions, Between
  <2>2. FirstRoundStays' /\ AloneLosesNone'
    BY DEF FirstRoundStays, AloneLosesNone
  <2>3. LastWriteCounts'
    <3>1. cidx'[t] = 0 /\ cpc'[t] = "add"
      OBVIOUS
    <3>2. LOOP_NUM >= 2 => ~AllDone'
      BY <3>1 DEF AllDone
    <3> QED  BY <3>2 DEF LastWriteCounts
  <2> QED  BY <2>1, <2>2, <2>3
<1>2. ASSUME NEW t \in CasThreads, AddSync(t) PROVE CasLoss'
  <2> DEFINE a == <<t, cidx[t] + 1>>
  <2>1. a \in (CasThreads \X (1 .. LOOP_NUM)) /\ a \notin Additions
    BY <1>2 DEF AddSync, CasTypeOK, Additions, Between
  <2>2. Additions' = Additions \cup {a}
    BY <1>2, <2>1 DEF AddSync, CasTypeOK, Additions, Between
  <2>3. Cardinality(Additions)' = Cardinality(Additions) + 1
    BY <2>1, <2>2, AdditionsFinite, Joins
  <2> USE <1>2 DEF AddSync, CasTypeOK
  <2>4. FirstRoundStays' /\ AloneLosesNone'
    BY DEF FirstRoundStays, AloneLosesNone
  <2>5. LastWriteCounts'
    BY DEF LastWriteCounts, AllDone
  <2> QED  BY <2>3, <2>4, <2>5
<1>3. ASSUME NEW t \in CasThreads, ReadNoSync(t) PROVE CasLoss'
  <2> USE <1>3 DEF ReadNoSync, CasTypeOK
  <2>1. Additions' = Additions
    BY DEF Additions, Between
  <2>2. FirstRoundStays' /\ AloneLosesNone'
    BY DEF FirstRoundStays, AloneLosesNone
  <2>3. LastWriteCounts'
    BY DEF LastWriteCounts, AllDone
  <2> QED  BY <2>1, <2>2, <2>3
<1>4. ASSUME NEW t \in CasThreads, WriteNoSync(t) PROVE CasLoss'
  <2>1. cidx[t] < LOOP_NUM /\ cidx[t] \in Nat /\ cread[t] \in Nat
    BY <1>4 DEF WriteNoSync, CasInLoop, CasTypeOK
  <2>2. Additions' = Additions
    BY <1>4 DEF WriteNoSync, CasTypeOK, Additions, Between
  <2>3. /\ countNoSync' = cread[t] + 1 /\ cpc[t] = "write" /\ cpc'[t] = "add"
        /\ cidx' = [cidx EXCEPT ![t] = @ + 1] /\ cread' = cread
    BY <1>4 DEF WriteNoSync, CasTypeOK
  <2>4. FirstRoundStays'
    BY <1>4, <2>1 DEF WriteNoSync, CasTypeOK, FirstRoundStays
  <2>5. AloneLosesNone'
    BY <1>4, <2>1 DEF WriteNoSync, CasTypeOK, AloneLosesNone
  <2>6. LastWriteCounts'
    <3>1. AllDone' => cidx'[t] = LOOP_NUM
      BY <2>3 DEF AllDone
    <3>2. cidx'[t] = cidx[t] + 1
      BY <2>3 DEF CasTypeOK
    <3>3. AllDone' /\ LOOP_NUM >= 2 => cread[t] >= 1
      BY <2>1, <2>3, <3>1, <3>2 DEF FirstRoundStays
    <3> QED  BY <2>1, <2>3, <3>3 DEF LastWriteCounts
  <2>7. \A u \in CasThreads : cpc'[u] = "new" => cidx'[u] = 0
    BY <1>4 DEF WriteNoSync, CasTypeOK
  <2> QED  BY <1>4, <2>2, <2>4, <2>5, <2>6, <2>7 DEF WriteNoSync
<1>5. CASE CasSleep \/ ShowSync \/ ShowNoSync \/ UNCHANGED casVars
  <2>1. UNCHANGED <<countSync, countNoSync, cpc, cidx, cread>>
    BY <1>5 DEF CasSleep, ShowSync, ShowNoSync, casVars
  <2> QED
    BY <2>1
    DEF FirstRoundStays, AloneLosesNone, LastWriteCounts, AllDone, Created,
        Additions, Between
<1> QED  BY <1>1, <1>2, <1>3, <1>4, <1>5 DEF CasNext, ThreadFunc

LEMMA CasLossBounded == CasIInv /\ CasLoss => DoneCounts
<1> SUFFICES ASSUME CasIInv, CasLoss, AllDone, Created # {}, LOOP_NUM >= 2
             PROVE  /\ countSync = LOOP_NUM * Cardinality(Created)
                    /\ countNoSync >= IF Cardinality(Created) = 1
                                      THEN LOOP_NUM ELSE 2
  BY DEF DoneCounts
<1> USE CasAssumption DEF CasIInv, CasLoss
<1>1. Created \in SUBSET CasThreads /\ IsFiniteSet(Created)
      /\ Cardinality(Created) \in Nat
  BY FS_Subset, FS_CardinalityType DEF Created
<1>2. countSync = LOOP_NUM * Cardinality(Created)
  <2>1. Additions = Created \X (1 .. LOOP_NUM)
    BY DEF Additions, Between, Created, AllDone, CasTypeOK
  <2>2. IsFiniteSet(1 .. LOOP_NUM) /\ Cardinality(1 .. LOOP_NUM) = LOOP_NUM
    BY FS_Interval
  <2>3. Cardinality(Created \X (1 .. LOOP_NUM)) = Cardinality(Created) * LOOP_NUM
    BY <1>1, <2>2, FS_Product
  <2> QED  BY <1>1, <2>1, <2>3
<1>3. CASE Cardinality(Created) = 1
  <2>1. PICK t : Created = {t}
    BY <1>1, <1>3, FS_Singleton
  <2>2. t \in CasThreads /\ \A u \in CasThreads : u # t => cpc[u] = "new"
    BY <2>1 DEF Created
  <2>3. cidx[t] = LOOP_NUM
    BY <2>1 DEF Created, AllDone
  <2> QED  BY <1>2, <1>3, <2>2, <2>3 DEF AloneLosesNone
<1>4. CASE Cardinality(Created) # 1
  BY <1>2, <1>4 DEF LastWriteCounts
<1> QED  BY <1>3, <1>4

LEMMA CasSpecDone == CasSpec => []DoneCounts
<1>1. CasIInv /\ CasLoss /\ [CasNext]_casVars => CasLoss'
  BY CasNextLoss
<1> QED
  BY <1>1, CasInitLoss, CasSpecInv, CasLossBounded, PTL DEF CasSpec

-----------------------------------------------------------------------------
(* MutexCount.                                                             *)

(* A thread that counts has the mutex, unless Lock() has failed for it.    *)
HasMutex ==
    \A t \in MutexThreads :
        InSection(t) /\ <<t, "lock">> \notin hadError => owner = t

(* While the mutex has not failed no thread is without it, and what a      *)
(* thread has read is still the counter of its group.                      *)
FreshWhileNoError ==
    lockErrors = 0 =>
        \A t \in MutexThreads :
            /\ <<t, "lock">> \notin hadError
            /\ tpc[t] \notin {"lock error", "lock error read"}
            /\ tpc[t] = "write" => tread[t] = cntNum[GroupOf(t)]

(* An error count is cleared after it has been added to the total, and a   *)
(* thread that counts it up has read a natural number.                     *)
ErrorsPositive ==
    /\ \A e \in shows : allError[e] > 0
    /\ \A t \in MutexThreads :
          tpc[t] \in {"lock error read", "unlock error read"} => tread[t] >= 0

(* A thread that is inside a round has not made all of them.               *)
InRounds ==
    \A t \in MutexThreads :
        InSection(t) \/ tpc[t] \in {"lock error", "lock error read"} =>
            rounds[t] < MaxRounds

MutexIInv ==
    /\ MutexTypeOK /\ InRounds /\ HasMutex /\ FreshWhileNoError /\ ErrorsPositive
    /\ CountsExact /\ ErrorNotForgotten

LEMMA GroupOfType ==
    ASSUME NEW t \in MutexThreads PROVE GroupOf(t) \in Groups
  BY DEF GroupOf, MutexThreads

LEMMA MutexInitIInv == MutexInit => MutexIInv
<1> SUFFICES ASSUME MutexInit PROVE MutexIInv
  OBVIOUS
<1>1. MutexTypeOK
  BY MutexAssumption DEF MutexInit, MutexTypeOK
<1>2. HasMutex /\ FreshWhileNoError /\ ErrorsPositive
  BY DEF MutexInit, HasMutex, InSection, FreshWhileNoError, ErrorsPositive
<1>4. InRounds
  BY DEF MutexInit, InRounds, InSection
<1>3. CountsExact /\ ErrorNotForgotten
  BY DEF MutexInit, CountsExact, ErrorNotForgotten
<1> QED  BY <1>1, <1>2, <1>3, <1>4 DEF MutexIInv

LEMMA MutexNextIInv == ASSUME MutexIInv, [MutexNext]_mutexVars PROVE MutexIInv'
<1> USE DEF MutexIInv
<1>1. ASSUME NEW t \in MutexThreads, Lock(t) PROVE MutexIInv'
  <2> USE <1>1 DEF Lock, Goto, display, history
  <2>1. MutexTypeOK' /\ InRounds'
    BY DEF MutexTypeOK, InRounds, InSection
  <2>2. HasMutex'
    <3> SUFFICES ASSUME NEW u \in MutexThreads, u # t, InSection(u)',
                        <<u, "lock">> \notin hadError
                 PROVE  FALSE
      BY DEF HasMutex
    <3>1. InSection(u)
      BY DEF InSection, MutexTypeOK
    <3>2. owner = u
      BY <3>1 DEF HasMutex
    <3> QED  BY <3>2, MutexAssumption
  <2>3. FreshWhileNoError' /\ ErrorsPositive'
    BY DEF MutexTypeOK, FreshWhileNoError, ErrorsPositive
  <2> QED  BY <2>1, <2>2, <2>3 DEF CountsExact, ErrorNotForgotten
<1>2. ASSUME NEW t \in MutexThreads, LockFail(t) PROVE MutexIInv'
  <2>1. lockErrors' \in 0..MaxLockErrors /\ lockErrors' # 0
    <3>1. /\ lockErrors \in 0..MaxLockErrors /\ lockErrors < MaxLockErrors
          /\ lockErrors' = lockErrors + 1
      BY <1>2 DEF LockFail, MutexTypeOK
    <3> QED  BY <3>1, MutexAssumption
  <2> USE <1>2 DEF LockFail, Goto, display
  <2>2. MutexTypeOK'
    BY <2>1 DEF MutexTypeOK
  <2>3. HasMutex' /\ ErrorsPositive' /\ InRounds'
    BY DEF MutexTypeOK, HasMutex, InSection, ErrorsPositive, InRounds
  <2> QED
    BY <2>1, <2>2, <2>3 DEF FreshWhileNoError, CountsExact, ErrorNotForgotten
<1>3. ASSUME NEW t \in MutexThreads, NEW k \in {"lock", "unlock"}, ReadError(t, k)
      PROVE  MutexIInv'
  <2>1. perError[<<t, k>>] \in Nat
    <3>1. <<t, k>> \in ErrorStat
      BY DEF ErrorStat
    <3> QED  BY <3>1 DEF MutexTypeOK
  <2>2. tread' \in [MutexThreads -> Int] /\ tread'[t] >= 0
    <3>1. perError[<<t, k>>] \in Int /\ perError[<<t, k>>] >= 0
      BY <2>1
    <3>2. tread' = [tread EXCEPT ![t] = perError[<<t, k>>]]
      BY <1>3 DEF ReadError
    <3>3. tread \in [MutexThreads -> Int]
      BY DEF MutexTypeOK
    <3> QED  BY <3>1, <3>2, <3>3
  <2> USE <1>3 DEF ReadError, Error, ErrorRead, Goto, display, history
  <2>3. MutexTypeOK'
    BY <2>2 DEF MutexTypeOK
  <2>4. HasMutex' /\ FreshWhileNoError' /\ InRounds'
    BY DEF MutexTypeOK, HasMutex, InSection, FreshWhileNoError, InRounds
  <2>5. ErrorsPositive'
    BY <2>2 DEF MutexTypeOK, ErrorsPositive
  <2> QED  BY <2>3, <2>4, <2>5 DEF CountsExact, ErrorNotForgotten
<1>4. ASSUME NEW t \in MutexThreads, NEW k \in {"lock", "unlock"}, WriteError(t, k)
      PROVE  MutexIInv'
  <2>1. <<t, k>> \in ErrorStat /\ tread[t] + 1 \in Nat /\ tread[t] + 1 > 0
    <3>1. <<t, k>> \in ErrorStat
      BY DEF ErrorStat
    <3>2. tpc[t] \in {"lock error read", "unlock error read"}
      BY <1>4 DEF WriteError, ErrorRead
    <3>3. tread[t] \in Int /\ tread[t] >= 0
      BY <3>2 DEF MutexTypeOK, ErrorsPositive
    <3> QED  BY <3>1, <3>3
  <2> USE <1>4 DEF WriteError, Error, ErrorRead, Goto, display
  <2>2. MutexTypeOK'
    BY <2>1 DEF MutexTypeOK
  <2>3. HasMutex' /\ FreshWhileNoError' /\ InRounds'
    BY DEF MutexTypeOK, HasMutex, InSection, FreshWhileNoError, InRounds
  <2>4. ErrorsPositive'
    BY DEF MutexTypeOK, ErrorsPositive
  <2>5. ErrorNotForgotten'
    BY <2>1 DEF MutexTypeOK, ErrorNotForgotten
  <2> QED  BY <2>2, <2>3, <2>4, <2>5 DEF CountsExact
<1>5. ASSUME NEW t \in MutexThreads, ReadCnt(t) PROVE MutexIInv'
  <2> USE <1>5 DEF ReadCnt, Goto, display, history
  <2>1. MutexTypeOK'
    BY GroupOfType DEF MutexTypeOK
  <2>2. HasMutex' /\ FreshWhileNoError' /\ ErrorsPositive' /\ InRounds'
    BY DEF MutexTypeOK, HasMutex, InSection, FreshWhileNoError,
           ErrorsPositive, InRounds
  <2> QED  BY <2>1, <2>2 DEF CountsExact, ErrorNotForgotten
<1>6. ASSUME NEW t \in MutexThreads, WriteCnt(t) PROVE MutexIInv'
  <2>1. GroupOf(t) \in Groups /\ Step(t) \in Int
    BY GroupOfType DEF Step
  <2>7. cntNum' \in [Groups -> Int] /\ netCount' \in [Groups -> Int]
    <3>1. tread[t] \in Int /\ netCount[GroupOf(t)] \in Int
      BY <2>1 DEF MutexTypeOK
    <3>2. tread[t] + Step(t) \in Int /\ netCount[GroupOf(t)] + Step(t) \in Int
      BY <2>1, <3>1
    <3> QED  BY <1>6, <3>2 DEF WriteCnt, MutexTypeOK
  <2> USE <1>6 DEF WriteCnt, Goto, display
  <2>2. MutexTypeOK'
    BY <2>7 DEF MutexTypeOK
  <2>3. HasMutex' /\ ErrorsPositive' /\ InRounds'
    BY DEF MutexTypeOK, HasMutex, InSection, ErrorsPositive, InRounds
  <2>4. FreshWhileNoError'
    <3> SUFFICES ASSUME lockErrors' = 0, NEW u \in MutexThreads
                 PROVE  /\ <<u, "lock">> \notin hadError'
                        /\ tpc'[u] \notin {"lock error", "lock error read"}
                        /\ tpc'[u] = "write" => tread'[u] = cntNum'[GroupOf(u)]
      BY DEF FreshWhileNoError
    <3>1. /\ <<u, "lock">> \notin hadError' /\ <<t, "lock">> \notin hadError
          /\ tpc'[u] \notin {"lock error", "lock error read"}
      BY DEF FreshWhileNoError, MutexTypeOK
    <3>2. owner = t /\ tpc'[t] # "write"
      BY <3>1 DEF HasMutex, InSection, MutexTypeOK
    <3>3. ASSUME tpc'[u] = "write" PROVE FALSE
      <4>1. u # t /\ tpc[u] = "write"
        BY <3>2, <3>3 DEF MutexTypeOK
      <4>2. owner = u
        BY <3>1, <4>1 DEF HasMutex, InSection
      <4> QED  BY <3>2, <4>1, <4>2
    <3> QED  BY <3>1, <3>3
  <2>5. CountsExact'
    BY <2>1 DEF CountsExact, FreshWhileNoError, MutexTypeOK
  <2> QED  BY <2>2, <2>3, <2>4, <2>5 DEF ErrorNotForgotten
<1>7. ASSUME NEW t \in MutexThreads, Unlock(t) PROVE MutexIInv'
  <2>1. rounds[t] + 1 \in 0..MaxRounds
    <3>1. rounds[t] \in 0..MaxRounds /\ rounds[t] < MaxRounds
      BY <1>7 DEF Unlock, MutexTypeOK, InRounds, InSection
    <3> QED  BY <3>1, MutexAssumption
  <2> USE <1>7 DEF Unlock, Goto, display, history
  <2>2. rounds' \in [MutexThreads -> 0..MaxRounds]
    BY <2>1 DEF MutexTypeOK
  <2>3. MutexTypeOK' /\ InRounds'
    <3>1. CASE owner = t
      BY <2>2, <3>1 DEF MutexTypeOK, InRounds, InSection
    <3>2. CASE owner # t
      BY <2>2, <3>2 DEF MutexTypeOK, InRounds, InSection
    <3> QED  BY <3>1, <3>2
  <2>4. HasMutex' /\ FreshWhileNoError' /\ ErrorsPositive'
    BY DEF MutexTypeOK, HasMutex, InSection, FreshWhileNoError, ErrorsPositive
  <2> QED  BY <2>3, <2>4 DEF CountsExact, ErrorNotForgotten
<1>8. ASSUME NEW e \in ErrorStat, AddErrors(e) PROVE MutexIInv'
  <2>1. allError[e] + perError[e] \in Nat /\ allError[e] + perError[e] > 0
    <3>1. allError[e] \in Nat /\ perError[e] \in Nat /\ perError[e] > 0
      BY <1>8 DEF AddErrors, MutexTypeOK
    <3> QED  BY <3>1
  <2> USE <1>8 DEF AddErrors, history
  <2>2. MutexTypeOK'
    BY <2>1 DEF MutexTypeOK
  <2>3. ErrorsPositive' /\ ErrorNotForgotten'
    BY <2>1 DEF MutexTypeOK, ErrorsPositive, ErrorNotForgotten
  <2> QED
    BY <2>2, <2>3
    DEF HasMutex, InSection, InRounds, FreshWhileNoError, CountsExact
<1>9. ASSUME NEW e \in ErrorStat, ClearErrors(e) PROVE MutexIInv'
  <2> USE <1>9 DEF ClearErrors, history
  <2>1. MutexTypeOK' /\ ErrorsPositive' /\ ErrorNotForgotten'
    BY DEF MutexTypeOK, ErrorsPositive, ErrorNotForgotten
  <2> QED
    BY <2>1 DEF HasMutex, InSection, InRounds, FreshWhileNoError, CountsExact
<1>10. CASE UNCHANGED mutexVars
  BY <1>10 DEF mutexVars, display, history, MutexTypeOK, HasMutex, InSection,
      InRounds, FreshWhileNoError, ErrorsPositive, CountsExact,
      ErrorNotForgotten
<1> QED
  BY <1>1, <1>2, <1>3, <1>4, <1>5, <1>6, <1>7, <1>8, <1>9, <1>10
  DEF MutexNext, ThreadCnt

LEMMA HasMutexExcludes == MutexIInv => MutexProtects /\ ErrorNotForgotten
<1> SUFFICES ASSUME MutexIInv PROVE OnlyErrorsBreakExclusion
  BY DEF MutexIInv, MutexProtects
<1> QED  BY DEF MutexIInv, HasMutex, OnlyErrorsBreakExclusion

LEMMA MutexSpecInv == MutexSpec => []MutexIInv
  BY MutexInitIInv, MutexNextIInv, PTL DEF MutexSpec

LEMMA MutexSpecProtects == MutexSpec => [](MutexProtects /\ ErrorNotForgotten)
  BY MutexSpecInv, HasMutexExcludes, PTL

-----------------------------------------------------------------------------
(* MsgQueueSched.                                                          *)

(* The queue holds MAX_MSG_NUM messages at most.                           *)
QueueFits == received <= sent /\ sent <= received + MAX_MSG_NUM

(* gBeginTime was taken after the last message that was sent or after the  *)
(* one before it.                                                          *)
LastStamps ==
    /\ beginSec = sent \/ (sendPc = "stamp sec" /\ beginSec + 1 = sent)
    /\ beginUsec = sent \/ (sendPc # "send" /\ beginUsec + 1 = sent)

(* The seconds that were read are those of a stamp taken since the message *)
(* before the one received last.                                           *)
SecRead == recvPc = "read usec" => received - 1 <= readSec /\ readSec <= sent

QueueIInv == QueueTypeOK /\ QueueFits /\ LastStamps /\ SecRead

LEMMA QueueInitIInv == QueueInit => QueueIInv
  BY MsgQueueAssumption
  DEF QueueInit, QueueIInv, QueueTypeOK, QueueFits, LastStamps, SecRead

LEMMA QueueNumbers ==
    ASSUME QueueTypeOK
    PROVE  /\ sent \in Int /\ received \in Int /\ MAX_MSG_NUM \in Int
           /\ beginSec \in Int /\ beginUsec \in Int /\ MAX_MSG_NUM > 0
           /\ readSec \in Int
           /\ sent \in Nat /\ sent + 1 \in Nat /\ received + 1 \in Int
<1>1. /\ sent \in Nat /\ received \in Int
      /\ beginSec \in Nat /\ beginUsec \in Nat /\ readSec \in Nat
  BY DEF QueueTypeOK
<1>2. MAX_MSG_NUM \in Nat \ {0}
  BY MsgQueueAssumption
<1> HIDE DEF QueueTypeOK
<1> QED  BY <1>1, <1>2

LEMMA StampsSince ==
    ASSUME QueueTypeOK, QueueFits, LastStamps
    PROVE  /\ received - 1 <= beginSec /\ beginSec <= sent
           /\ received - 1 <= beginUsec /\ beginUsec <= sent /\ sent <= beginUsec + 1
<1>1. /\ sent \in Int /\ received \in Int
      /\ beginSec \in Int /\ beginUsec \in Int
  BY QueueNumbers
<1>2. received <= sent
  BY DEF QueueFits
<1>3. /\ beginSec = sent \/ beginSec + 1 = sent
      /\ beginUsec = sent \/ beginUsec + 1 = sent
  BY DEF LastStamps
<1> QED  BY <1>1, <1>2, <1>3

LEMMA QueueNextIInv == ASSUME QueueIInv, [QueueNext]_queueVars PROVE QueueIInv'
<1>0. QueueTypeOK /\ QueueFits /\ LastStamps /\ SecRead
  BY DEF QueueIInv
<1>1. CASE Send
  <2>1. QueueTypeOK'
    BY <1>0, <1>1, QueueNumbers DEF Send, QueueTypeOK
  <2>2. /\ sent' = sent + 1 /\ sendPc' = "stamp sec" /\ Queued < MAX_MSG_NUM
        /\ sendPc = "send"
        /\ UNCHANGED <<received, recvPc, beginSec, beginUsec, readSec>>
    BY <1>1 DEF Send
  <2>3. QueueFits'
    <3>1. sent \in Int /\ received \in Int /\ MAX_MSG_NUM \in Int
      BY <1>0, QueueNumbers
    <3>2. received <= sent /\ sent - received < MAX_MSG_NUM
      BY <1>0, <2>2 DEF Queued, QueueFits
    <3>3. received <= sent + 1 /\ sent + 1 <= received + MAX_MSG_NUM
      BY <3>1, <3>2
    <3> QED  BY <2>2, <3>3 DEF QueueFits
  <2>4. LastStamps' /\ SecRead'
    <3>1. sent \in Int /\ received \in Int /\ readSec \in Int
          /\ beginSec = sent /\ beginUsec = sent
      BY <1>0, <2>2, QueueNumbers DEF LastStamps
    <3>2. LastStamps'
      BY <2>2, <3>1 DEF LastStamps
    <3>3. ASSUME recvPc' = "read usec"
          PROVE  received' - 1 <= readSec' /\ readSec' <= sent'
      <4>1. received - 1 <= readSec /\ readSec <= sent
        BY <1>0, <2>2, <3>3 DEF SecRead
      <4>2. readSec <= sent + 1
        BY <3>1, <4>1
      <4> QED  BY <2>2, <4>1, <4>2
    <3> QED  BY <3>2, <3>3 DEF SecRead
  <2> QED  BY <2>1, <2>3, <2>4 DEF QueueIInv
<1>2. CASE SendFail \/ StampSec \/ StampUsec
  <2>1. /\ UNCHANGED <<sent, received, recvPc, readSec, readUsec>>
        /\ \/ sendPc = "send" /\ sendPc' = "stamp sec"
              /\ UNCHANGED <<beginSec, beginUsec>>
           \/ sendPc = "stamp sec" /\ sendPc' = "stamp usec"
              /\ beginSec' = sent /\ beginUsec' = beginUsec
           \/ sendPc = "stamp usec" /\ sendPc' = "send"
              /\ beginUsec' = sent /\ beginSec' = beginSec
    BY <1>2 DEF SendFail, StampSec, StampUsec
  <2>2. QueueTypeOK'
    BY <1>0, <2>1 DEF QueueTypeOK
  <2>3. QueueFits' /\ SecRead'
    BY <1>0, <2>1 DEF QueueFits, SecRead
  <2>4. LastStamps'
    BY <1>0, <2>1 DEF LastStamps
  <2> QED  BY <2>2, <2>3, <2>4 DEF QueueIInv
<1>3. CASE Receive \/ ReceiveFail \/ ReadUsec
  <2>1. QueueTypeOK'
    BY <1>0, <1>3, QueueNumbers
    DEF Receive, ReceiveFail, ReadUsec, QueueTypeOK
  <2>2. /\ received' = received \/ (received' = received + 1 /\ Queued > 0)
        /\ recvPc' # "read usec"
        /\ UNCHANGED <<sent, sendPc, beginSec, beginUsec>>
    BY <1>3 DEF Receive, ReceiveFail, ReadUsec
  <2>3. QueueFits'
    <3>1. sent \in Int /\ received \in Int /\ MAX_MSG_NUM \in Int
      BY <1>0, QueueNumbers
    <3>2. received <= sent /\ sent <= received + MAX_MSG_NUM
      BY <1>0 DEF QueueFits
    <3>3. ASSUME sent - received > 0
          PROVE  received + 1 <= sent /\ sent <= received + 1 + MAX_MSG_NUM
      BY <3>1, <3>2, <3>3
    <3> QED  BY <2>2, <3>2, <3>3 DEF QueueFits, Queued
  <2>4. LastStamps' /\ SecRead'
    BY <1>0, <2>2 DEF LastStamps, SecRead
  <2> QED  BY <2>1, <2>3, <2>4 DEF QueueIInv
<1>4. CASE ReadSec
  <2>1. /\ readSec' = beginSec
        /\ UNCHANGED <<sent, received, sendPc, beginSec, beginUsec>>
    BY <1>4 DEF ReadSec
  <2>2. QueueTypeOK'
    BY <1>0, <1>4 DEF ReadSec, QueueTypeOK
  <2>3. QueueFits' /\ LastStamps'
    BY <1>0, <2>1 DEF QueueFits, LastStamps
  <2>4. received - 1 <= beginSec /\ beginSec <= sent
    BY <1>0, StampsSince
  <2>5. SecRead'
    BY <2>1, <2>4 DEF SecRead
  <2> QED  BY <2>2, <2>3, <2>5 DEF QueueIInv
<1>5. CASE UNCHANGED queueVars
  BY <1>0, <1>5
  DEF queueVars, QueueIInv, QueueTypeOK, QueueFits, LastStamps, SecRead
<1> QED
  BY <1>1, <1>2, <1>3, <1>4, <1>5
  DEF QueueNext, ThreadSendMsg, ThreadRecvMsg

LEMMA ReadsAreNear ==
    ASSUME QueueIInv
    PROVE  /\ ReadSec => Near(readSec')
           /\ ReadUsec => Near(readUsec') /\ TornBy(1, MAX_MSG_NUM + 1)
<1>1. QueueTypeOK /\ QueueFits /\ LastStamps /\ SecRead
  BY DEF QueueIInv
<1>2. /\ sent \in Int /\ received \in Int /\ MAX_MSG_NUM \in Int
      /\ beginSec \in Int /\ beginUsec \in Int /\ readSec \in Int
  BY <1>1, QueueNumbers
<1>3. /\ received - 1 <= beginSec /\ beginSec <= sent
      /\ received - 1 <= beginUsec /\ beginUsec <= sent /\ sent <= beginUsec + 1
  BY <1>1, StampsSince
<1>4. sent <= received + MAX_MSG_NUM
  BY <1>1 DEF QueueFits
<1>5. ASSUME NEW stamp \in Int, received - 1 <= stamp, stamp <= sent
      PROVE  Near(stamp)
  <2>1. stamp <= received + MAX_MSG_NUM
    BY <1>2, <1>4, <1>5
  <2>2. stamp = 0 => received <= 1
    BY <1>2, <1>5
  <2> QED  BY <1>2, <1>5, <2>1, <2>2 DEF Near
<1>6. ASSUME ReadSec PROVE Near(readSec')
  <2>1. Near(beginSec)
    BY <1>2, <1>3, <1>5
  <2> QED  BY <1>6, <2>1 DEF ReadSec
<1>7. ASSUME ReadUsec PROVE Near(readUsec') /\ TornBy(1, MAX_MSG_NUM + 1)
  <2>1. readUsec' = beginUsec /\ recvPc = "read usec"
    BY <1>7 DEF ReadUsec
  <2>2. Near(beginUsec)
    BY <1>2, <1>3, <1>5
  <2>3. received - 1 <= readSec /\ readSec <= sent
    BY <1>1, <2>1 DEF SecRead
  <2>4. readSec - 1 <= beginUsec /\ beginUsec <= readSec + (MAX_MSG_NUM + 1)
    BY <1>2, <1>3, <1>4, <2>3
  <2>5. beginUsec \in (readSec - 1)..(readSec + (MAX_MSG_NUM + 1))
    BY <1>2, <2>4
  <2>6. TornBy(1, MAX_MSG_NUM + 1)
    BY <2>1, <2>5 DEF TornBy
  <2> QED  BY <2>1, <2>2, <2>6
<1> QED  BY <1>6, <1>7

LEMMA QueueSpecInv == QueueSpec => []QueueIInv
  BY QueueInitIInv, QueueNextIInv, PTL DEF QueueSpec

LEMMA QueueSpecNear == QueueSpec => StampNear
  BY QueueSpecInv, ReadsAreNear, PTL DEF QueueSpec, StampNear

-----------------------------------------------------------------------------
(* Every behaviour of ThreadPrograms is one of each program: that of the   *)
(* program which was built, and an idle one of the others.                 *)

LEMMA RunsLogger == Spec => LogSpec
<1>1. Init => LogInit
  BY DEF Init
<1>2. [Next]_vars => [LogNext]_logVars
  BY DEF Next, Logging, Adding, Counting, Timing, vars
<1> QED  BY <1>1, <1>2, PTL DEF Spec, LogSpec

LEMMA RunsCas == Spec => CasSpec
<1>1. Init => CasInit
  BY DEF Init
<1>2. [Next]_vars => [CasNext]_casVars
  BY DEF Next, Logging, Adding, Counting, Timing, vars
<1> QED  BY <1>1, <1>2, PTL DEF Spec, CasSpec

LEMMA RunsMutexTest == Spec => MutexSpec
<1>1. Init => MutexInit
  BY DEF Init
<1>2. [Next]_vars => [MutexNext]_mutexVars
  BY DEF Next, Logging, Adding, Counting, Timing, vars
<1> QED  BY <1>1, <1>2, PTL DEF Spec, MutexSpec

LEMMA RunsMsgQueueSched == Spec => QueueSpec
<1>1. Init => QueueInit
  BY DEF Init
<1>2. [Next]_vars => [QueueNext]_queueVars
  BY DEF Next, Logging, Adding, Counting, Timing, vars
<1> QED  BY <1>1, <1>2, PTL DEF Spec, QueueSpec

(* The variables of every program keep their types.                        *)
THEOREM ThreadsType == Spec => []TypeOK
<1>1. LogIInv /\ CasIInv /\ MutexIInv /\ QueueIInv => TypeOK
  BY DEF TypeOK, LogIInv, CasIInv, MutexIInv, QueueIInv
<1> QED
  BY <1>1, RunsLogger, RunsCas, RunsMutexTest, RunsMsgQueueSched,
     LogSpecInv, CasSpecInv, MutexSpecInv, QueueSpecInv, PTL

(* Every roll included, the log file stays below maxFileSize and one       *)
(* record per thread.                                                      *)
THEOREM LogFileBounded == Spec => []LogBounded
  BY RunsLogger, LogSpecBounded, PTL

(* The counter without synchronisation never passes the one with it,       *)
(* whatever the threads read, lose and overwrite.                          *)
THEOREM CasNeverAhead == Spec => []NoSyncNeverAhead
  BY RunsCas, CasSpecNeverAhead, PTL

(* When all threads are done the synchronised counter is exact, and the    *)
(* other has lost all but two additions at most, and none of a sole        *)
(* thread's (casBaseOnGcc.cpp: 24-28).                                     *)
THEOREM LossIsBounded == Spec => []DoneCounts
  BY RunsCas, CasSpecDone, PTL

(* Only a thread whose Lock() has failed counts at the same time as        *)
(* another, and without failures the counters come out exactly.            *)
THEOREM MutexProtectsAll == Spec => []MutexProtects
  BY RunsMutexTest, MutexSpecProtects, PTL

(* A thread that had an error of the mutex is never shown without one.     *)
THEOREM ErrorsKept == Spec => []ErrorNotForgotten
  BY RunsMutexTest, MutexSpecProtects, PTL

(* The time a received message is measured against was taken at most one   *)
(* message before it or a full queue after it, torn or not.                *)
THEOREM StampsNear == Spec => StampNear
  BY RunsMsgQueueSched, QueueSpecNear, PTL

(* The log file and the unsynchronised counter stay within their bounds.   *)
THEOREM BoundsKept == Spec => []WithinBounds
  BY LogFileBounded, CasNeverAhead, PTL DEF WithinBounds

(* The mutex protects what it is there for and its errors stay visible.    *)
THEOREM MutexHoldsAll == Spec => []MutexHolds
  BY MutexProtectsAll, ErrorsKept, PTL DEF MutexHolds

-----------------------------------------------------------------------------
(* StatisticsDouble, a program of the same kind whose clock and fairness   *)
(* have a run of their own.  Who holds which counter is a matter of age:   *)
(* an address as old as the swap is given back before the sleep is over.   *)

PointerIsCurrent == gpDataPer = gDataPerIdx

(* The one moment when the counting thread may hold the counter that was   *)
(* swapped out: it took the address before the swap, so it is at least as  *)
(* old as the swap, and the statistics thread still sleeps.                *)
HeldIsCurrent ==
    wpc # "take" => \/ pCountPer = gDataPerIdx
                    \/ rpc = "add" /\ rAge <= wAge

(* What the counting thread has read is still in the counter.              *)
ReadIsFresh == wpc = "store" => loaded = gDataPer[pCountPer]

ClearedBeforeSwap == rpc = "swap" => gDataPer[GetBakDataPer] = 0

ShownSoFar ==
    IF rpc = "show" THEN gData = shown + gDataPer[GetBakDataPer]
                    ELSE gData = shown

StatIInv ==
    /\ StatTypeOK
    /\ PointerIsCurrent
    /\ HeldIsCurrent
    /\ ReadIsFresh
    /\ ClearedBeforeSwap
    /\ ShownSoFar
    /\ NothingLost

-----------------------------------------------------------------------------
(* The initial state satisfies the invariant.                              *)
LEMMA StatInitIInv == StatInit => StatIInv
  BY StatisticsAssumption
  DEF StatInit, StatIInv, StatTypeOK, PointerIsCurrent, HeldIsCurrent, ReadIsFresh,
      ClearedBeforeSwap, ShownSoFar, NothingLost, Pending, GetBakDataPer, Other

(* Once the sleep of CONFLICT_TIME_S is over the counting thread holds the *)
(* current counter: an address as old as the swap would be too old.        *)
LEMMA NoConflictAfterSleep ==
    ASSUME StatIInv, wpc # "take", rpc = "add", rAge >= Conflict
    PROVE  pCountPer = gDataPerIdx
  BY StatisticsAssumption DEF StatIInv, StatTypeOK, HeldIsCurrent

(* The two counters are different ones.                                    *)
LEMMA TwoCounters ==
    ASSUME StatTypeOK
    PROVE  /\ GetBakDataPer \in 0..1 /\ GetBakDataPer # gDataPerIdx
           /\ \A i \in 0..1 : Other(i) \in 0..1 /\ Other(i) # i /\ Other(Other(i)) = i
           /\ \A i \in 0..1 : i = gDataPerIdx \/ i = GetBakDataPer
  BY DEF StatTypeOK, GetBakDataPer, Other

(* The three steps of the counting thread keep the invariant.              *)
LEMMA CountIInv == ASSUME StatIInv, Count PROVE StatIInv'
<1> USE DEF StatIInv
<1>1. CASE TakeAddress
  <2>1. /\ wpc' = "load" /\ pCountPer' = gpDataPer /\ wAge' = 0
        /\ UNCHANGED <<gDataPer, loaded, statReader, total>>
    BY <1>1 DEF TakeAddress
  <2>2. StatTypeOK'
    BY <2>1, StatisticsAssumption DEF statReader, StatTypeOK
  <2>3. PointerIsCurrent' /\ HeldIsCurrent' /\ ReadIsFresh'
    BY <2>1 DEF statReader, PointerIsCurrent, HeldIsCurrent, ReadIsFresh
  <2>4. ClearedBeforeSwap' /\ ShownSoFar' /\ NothingLost'
    BY <2>1 DEF statReader, ClearedBeforeSwap, ShownSoFar, NothingLost, Pending,
        GetBakDataPer
  <2> QED  BY <2>2, <2>3, <2>4
<1>2. CASE LoadCount
  <2>1. /\ wpc = "load" /\ wpc' = "store" /\ loaded' = gDataPer[pCountPer]
        /\ UNCHANGED <<gDataPer, pCountPer, wAge, statReader, total>>
    BY <1>2 DEF LoadCount
  <2>2. StatTypeOK'
    BY <2>1 DEF statReader, StatTypeOK
  <2>3. PointerIsCurrent' /\ HeldIsCurrent' /\ ReadIsFresh'
    BY <2>1 DEF statReader, PointerIsCurrent, HeldIsCurrent, ReadIsFresh
  <2>4. ClearedBeforeSwap' /\ ShownSoFar' /\ NothingLost'
    BY <2>1 DEF statReader, ClearedBeforeSwap, ShownSoFar, NothingLost, Pending,
        GetBakDataPer
  <2> QED  BY <2>2, <2>3, <2>4
<1>3. CASE StoreCount
  <2>1. /\ gDataPer' = [gDataPer EXCEPT ![pCountPer] = gDataPer[pCountPer] + 1]
        /\ pCountPer \in 0..1 /\ gDataPerIdx \in 0..1
        /\ gDataPer \in [0..1 -> Nat] /\ wpc = "store" /\ wpc' = "take"
        /\ UNCHANGED <<pCountPer, loaded, wAge, statReader>> /\ total' = total + 1
    BY <1>3 DEF StoreCount, ReadIsFresh, StatTypeOK
  <2>2. StatTypeOK' /\ PointerIsCurrent' /\ HeldIsCurrent' /\ ReadIsFresh'
    BY <2>1 DEF statReader, StatTypeOK, PointerIsCurrent, HeldIsCurrent, ReadIsFresh
  <2>3. pCountPer = gDataPerIdx \/ rpc = "add"
    BY <2>1 DEF HeldIsCurrent
  <2>4. ClearedBeforeSwap' /\ ShownSoFar'
    BY <2>1, <2>3, TwoCounters DEF statReader, ClearedBeforeSwap, ShownSoFar,
        GetBakDataPer
  <2>5. NothingLost'
    BY <2>1, <2>3, TwoCounters DEF statReader, NothingLost, Pending, StatTypeOK,
        GetBakDataPer
  <2> QED  BY <2>2, <2>4, <2>5
<1> QED  BY <1>1, <1>2, <1>3 DEF Count

(* The four steps of the statistics thread keep the invariant.             *)
LEMMA ShowDataIInv == ASSUME StatIInv, ShowData PROVE StatIInv'
<1> USE DEF StatIInv
<1>1. CASE ClearBak
  <2>1. /\ gDataPer' = [gDataPer EXCEPT ![GetBakDataPer] = 0]
        /\ gDataPer \in [0..1 -> Nat] /\ rpc = "clear" /\ rpc' = "swap"
        /\ UNCHANGED <<statWriter, gDataPerIdx, gpDataPer, gData, rAge, shown, total>>
    BY <1>1 DEF ClearBak, StatTypeOK
  <2>2. wpc # "take" => pCountPer = gDataPerIdx
    BY <2>1 DEF HeldIsCurrent
  <2>3. StatTypeOK' /\ PointerIsCurrent' /\ HeldIsCurrent'
    BY <2>1, <2>2, TwoCounters
    DEF statWriter, StatTypeOK, PointerIsCurrent, HeldIsCurrent
  <2>4. ReadIsFresh'
    BY <2>1, <2>2, TwoCounters DEF statWriter, ReadIsFresh
  <2>5. ClearedBeforeSwap' /\ ShownSoFar'
    BY <2>1, TwoCounters DEF ClearedBeforeSwap, ShownSoFar, GetBakDataPer
  <2>6. NothingLost'
    BY <2>1, TwoCounters DEF NothingLost, Pending, GetBakDataPer, StatTypeOK
  <2> QED  BY <2>3, <2>4, <2>5, <2>6
<1>2. CASE UpdateDataPer
  <2>1. /\ gDataPerIdx' = GetBakDataPer /\ gpDataPer' = gDataPerIdx'
        /\ rpc = "swap" /\ rpc' = "add" /\ rAge' = 0
        /\ UNCHANGED <<gDataPer, statWriter, gData, shown, total>>
    BY <1>2 DEF UpdateDataPer, GetBakDataPer
  <2>2. GetBakDataPer' = gDataPerIdx
    BY <2>1, TwoCounters DEF GetBakDataPer, StatTypeOK
  <2>3. StatTypeOK' /\ PointerIsCurrent'
    BY <2>1, TwoCounters, StatisticsAssumption DEF statWriter, StatTypeOK, PointerIsCurrent
  <2>4. HeldIsCurrent'
    BY <2>1 DEF statWriter, HeldIsCurrent, StatTypeOK
  <2>5. ReadIsFresh' /\ ClearedBeforeSwap' /\ ShownSoFar'
    BY <2>1 DEF statWriter, ReadIsFresh, ClearedBeforeSwap, ShownSoFar
  <2>6. NothingLost'
    BY <2>1, <2>2, TwoCounters
    DEF NothingLost, Pending, ClearedBeforeSwap, StatTypeOK
  <2> QED  BY <2>3, <2>4, <2>5, <2>6
<1>3. CASE AddBak
  <2>1. /\ gData' = gData + gDataPer[GetBakDataPer]
        /\ rpc = "add" /\ rpc' = "show" /\ rAge >= Conflict
        /\ UNCHANGED <<gDataPer, statWriter, gDataPerIdx, gpDataPer, rAge, shown, total>>
    BY <1>3 DEF AddBak
  <2>2. GetBakDataPer' = GetBakDataPer
    BY <2>1 DEF GetBakDataPer
  <2>3. wpc # "take" => pCountPer = gDataPerIdx
    BY <2>1, NoConflictAfterSleep
  <2>4. StatTypeOK' /\ PointerIsCurrent' /\ HeldIsCurrent'
    BY <2>1, <2>3, TwoCounters
    DEF statWriter, StatTypeOK, PointerIsCurrent, HeldIsCurrent
  <2>5. ReadIsFresh' /\ ClearedBeforeSwap' /\ ShownSoFar'
    BY <2>1, <2>2 DEF statWriter, ReadIsFresh, ClearedBeforeSwap, ShownSoFar
  <2>6. NothingLost'
    BY <2>1, <2>2, TwoCounters DEF NothingLost, Pending, StatTypeOK
  <2> QED  BY <2>4, <2>5, <2>6
<1>4. CASE ShowBak
  <2>1. /\ shown' = shown + gDataPer[GetBakDataPer]
        /\ rpc = "show" /\ rpc' = "clear"
        /\ UNCHANGED <<gDataPer, statWriter, gDataPerIdx, gpDataPer, gData, rAge, total>>
    BY <1>4 DEF ShowBak
  <2>2. GetBakDataPer' = GetBakDataPer
    BY <2>1 DEF GetBakDataPer
  <2>3. StatTypeOK' /\ PointerIsCurrent' /\ HeldIsCurrent'
    BY <2>1, TwoCounters DEF statWriter, StatTypeOK, PointerIsCurrent, HeldIsCurrent
  <2>4. ReadIsFresh' /\ ClearedBeforeSwap' /\ ShownSoFar'
    BY <2>1 DEF statWriter, ReadIsFresh, ClearedBeforeSwap, ShownSoFar
  <2>5. NothingLost'
    BY <2>1, <2>2 DEF NothingLost, Pending
  <2> QED  BY <2>3, <2>4, <2>5
<1> QED  BY <1>1, <1>2, <1>3, <1>4 DEF ShowData

(* The passage of time keeps the invariant: both ages grow together until  *)
(* the age of the address has reached Hold + Delay.                        *)
LEMMA TickIInv == ASSUME StatIInv, Tick PROVE StatIInv'
<1> USE DEF StatIInv
<1>1. StatTypeOK'
  BY StatisticsAssumption DEF Tick, StatTypeOK
<1>2. HeldIsCurrent'
  BY StatisticsAssumption DEF Tick, StatTypeOK, HeldIsCurrent
<1>3. PointerIsCurrent' /\ ReadIsFresh' /\ ClearedBeforeSwap' /\ ShownSoFar'
  BY DEF Tick, PointerIsCurrent, ReadIsFresh, ClearedBeforeSwap, ShownSoFar,
      GetBakDataPer
<1>4. NothingLost'
  BY DEF Tick, NothingLost, Pending, GetBakDataPer
<1> QED  BY <1>1, <1>2, <1>3, <1>4

(* Every step keeps the invariant.                                         *)
LEMMA StatNextIInv == ASSUME StatIInv, [StatNext]_statVars PROVE StatIInv'
<1>1. CASE StatNext
  BY <1>1, CountIInv, ShowDataIInv, TickIInv DEF StatNext
<1>2. CASE UNCHANGED statVars
  BY <1>2 DEF statVars, statWriter, statReader, StatIInv, StatTypeOK, PointerIsCurrent,
      HeldIsCurrent, ReadIsFresh, ClearedBeforeSwap, ShownSoFar, NothingLost,
      Pending, GetBakDataPer
<1> QED  BY <1>1, <1>2

(* The invariant holds in every state of the program.                      *)
LEMMA StatSpecInv == StatSpec => []StatIInv
  BY StatInitIInv, StatNextIInv, PTL DEF StatSpec

(* The state of the two threads is well typed.                             *)
THEOREM StatisticsType == StatSpec => []StatTypeOK
<1>1. StatIInv => StatTypeOK
  BY DEF StatIInv
<1> QED  BY <1>1, StatSpecInv, PTL

(* Whatever the durations, as long as an increment is complete in less     *)
(* than the sleep of the statistics thread, no increment is lost or added  *)
(* twice although no lock protects the counters.                           *)
THEOREM StatisticsConserved == StatSpec => []NothingLost
<1>1. StatIInv => NothingLost
  BY DEF StatIInv
<1> QED  BY <1>1, StatSpecInv, PTL

(* The two reads of lines 116 and 119 see the same value.                  *)
THEOREM StatisticsShown == StatSpec => []ShownIsAdded
<1>1. StatIInv => ShownIsAdded
  BY DEF StatIInv, ShownSoFar, ShownIsAdded
<1> QED  BY <1>1, StatSpecInv, PTL

(* No increment is lost, and the counts printed make up the total.         *)
THEOREM StatisticsExact == StatSpec => []LostNoneShownAll
  BY StatisticsConserved, StatisticsShown, PTL DEF LostNoneShownAll
=============================================================================
