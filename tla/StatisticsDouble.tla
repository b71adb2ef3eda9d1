-------------------------- MODULE StatisticsDouble --------------------------
(***************************************************************************)
(* src/src/statistics/statisticsTest.cpp: two threads share two counters,  *)
(* gDataPer[0] and gDataPer[1], without a lock.  The counting thread takes *)
(* the address of the current one, sleeps 100 ms and increments through    *)
(* the address it took; the statistics thread clears the other one, swaps  *)
(* the two, sleeps CONFLICT_TIME_S and adds the one it swapped out to the  *)
(* total.  Nothing but time keeps the counting thread off the counter that *)
(* is being added or cleared.                                              *)
(*                                                                         *)
(* Time is discrete.  An increment through an address is complete at most  *)
(* Hold + Delay ticks after the address was read: Hold is the usleep() of  *)
(* line 92, Delay bounds how late the scheduler is.  The statistics thread *)
(* may be late without bound.  The 64-bit counters do not wrap.            *)
(***************************************************************************)
EXTENDS Naturals

CONSTANTS
    Hold,      \* ticks the counting thread keeps an address: usleep(1000 * 100)
    Delay,     \* ticks the scheduler may add to that
    Conflict,  \* ticks of sleep(CONFLICT_TIME_S)
    MaxCount   \* bound: increments in a behaviour

ASSUME StatisticsAssumption ==
    /\ Hold \in Nat /\ Delay \in Nat /\ Conflict \in Nat /\ MaxCount \in Nat
    /\ Hold + Delay < Conflict

VARIABLES
    gDataPer,    \* the two counters
    gDataPerIdx, \* index of the current one; only the statistics thread uses it
    gpDataPer,   \* index of the counter gpDataPer points to
    gData,       \* gData.count, the total
    wpc, pCountPer, loaded, wAge, \* counting thread: where it is, the counter
                 \* it points to, the value it has read, ticks since it took it
    rpc, rAge,   \* statistics thread: where it is, ticks since it swapped
    shown,       \* sum of the counts it has printed
    total        \* increments that are complete (history)

statWriter == <<wpc, pCountPer, loaded, wAge>>
statReader == <<gDataPerIdx, gpDataPer, gData, rpc, rAge, shown>>
statVars == <<gDataPer, statWriter, statReader, total>>

Other(i) == 1 - i                          \* gIdxArray
GetBakDataPer == Other(gDataPerIdx)

StatInit ==
    /\ gDataPer = [i \in 0..1 |-> 0]
    /\ gDataPerIdx = 0 /\ gpDataPer = 0
    /\ gData = 0
    /\ wpc = "take" /\ pCountPer = 0 /\ loaded = 0 /\ wAge = 0
    /\ rpc = "clear" /\ rAge = 0
    /\ shown = 0 /\ total = 0

-----------------------------------------------------------------------------
(* The counting thread.                                                    *)

TakeAddress ==
    /\ wpc = "take"
    /\ total < MaxCount
    /\ wpc' = "load" /\ pCountPer' = gpDataPer /\ wAge' = 0
    /\ UNCHANGED <<gDataPer, loaded, statReader, total>>

(* (pCountPer)++ on a volatile counter is a read and a write.              *)
LoadCount ==
    /\ wpc = "load"
    /\ wAge >= Hold
    /\ wpc' = "store" /\ loaded' = gDataPer[pCountPer]
    /\ UNCHANGED <<gDataPer, pCountPer, wAge, statReader, total>>

StoreCount ==
    /\ wpc = "store"
    /\ gDataPer' = [gDataPer EXCEPT ![pCountPer] = loaded + 1]
    /\ total' = total + 1
    /\ wpc' = "take"
    /\ UNCHANGED <<pCountPer, loaded, wAge, statReader>>

Count == TakeAddress \/ LoadCount \/ StoreCount

-----------------------------------------------------------------------------
(* The statistics thread.                                                  *)

ClearBakSwappedIn ==  \* mutant: the counter that was just swapped in
    /\ rpc = "clear"
    /\ gDataPer' = [gDataPer EXCEPT ![gDataPerIdx] = 0]
    /\ rpc' = "swap"
    /\ UNCHANGED <<statWriter, gDataPerIdx, gpDataPer, gData, rAge, shown, total>>

ClearBak ==
    /\ rpc = "clear"
    /\ gDataPer' = [gDataPer EXCEPT ![GetBakDataPer] = 0]
    /\ rpc' = "swap"
    /\ UNCHANGED <<statWriter, gDataPerIdx, gpDataPer, gData, rAge, shown, total>>

UpdateDataPerHalf == \* mutant: gpDataPer is not moved with the index
    /\ rpc = "swap"
    /\ gDataPerIdx' = Other(gDataPerIdx)
    /\ UNCHANGED gpDataPer
    /\ rpc' = "add" /\ rAge' = 0
    /\ UNCHANGED <<gDataPer, statWriter, gData, shown, total>>

UpdateDataPerOff == \* mutant: the index is counted up, gIdxArray is not used
    /\ rpc = "swap"
    /\ gDataPerIdx' = gDataPerIdx + 1
    /\ gpDataPer' = gDataPerIdx'
    /\ rpc' = "add" /\ rAge' = 0
    /\ UNCHANGED <<gDataPer, statWriter, gData, shown, total>>

UpdateDataPer ==
    /\ rpc = "swap"
    /\ gDataPerIdx' = Other(gDataPerIdx)
    /\ gpDataPer' = gDataPerIdx'
    /\ rpc' = "add" /\ rAge' = 0
    /\ UNCHANGED <<gDataPer, statWriter, gData, shown, total>>

AddBak ==
    /\ rpc = "add"
    /\ rAge >= Conflict
    /\ gData' = gData + gDataPer[GetBakDataPer]
    /\ rpc' = "show"
    /\ UNCHANGED <<gDataPer, statWriter, gDataPerIdx, gpDataPer, rAge, shown, total>>

(* printf() reads the counter a second time; then sleep(sleepTimeS), which *)
(* may take any time here, and the next round.                             *)
ShowBak ==
    /\ rpc = "show"
    /\ shown' = shown + gDataPer[GetBakDataPer]
    /\ rpc' = "clear"
    /\ UNCHANGED <<gDataPer, statWriter, gDataPerIdx, gpDataPer, gData, rAge, total>>

ShowData == ClearBak \/ UpdateDataPer \/ AddBak \/ ShowBak

-----------------------------------------------------------------------------
(* A tick.  The clock of the statistics thread stops at Conflict, where it *)
(* has served its purpose.                                                 *)
Tick ==
    /\ wpc # "take" => wAge < Hold + Delay
    /\ wAge' = IF wpc # "take" THEN wAge + 1 ELSE wAge
    /\ rAge' = IF rAge < Conflict THEN rAge + 1 ELSE rAge
    /\ UNCHANGED <<gDataPer, wpc, pCountPer, loaded, gDataPerIdx, gpDataPer,
                   gData, rpc, shown, total>>

StatNext == Count \/ ShowData \/ Tick

StatSpec == StatInit /\ [][StatNext]_statVars

(* Both threads run and time goes on.                                      *)
StatFairSpec ==
    StatSpec /\ WF_statVars(Count) /\ WF_statVars(ShowData) /\ WF_statVars(Tick)

-----------------------------------------------------------------------------
StatTypeOK ==
    /\ gDataPer \in [0..1 -> Nat] /\ gData \in Nat
    /\ gDataPerIdx \in 0..1 /\ gpDataPer \in 0..1 /\ pCountPer \in 0..1
    /\ wpc \in {"take", "load", "store"}
    /\ rpc \in {"clear", "swap", "add", "show"}
    /\ loaded \in Nat /\ shown \in Nat /\ total \in Nat
    /\ wAge \in 0..(Hold + Delay) /\ rAge \in 0..Conflict

(* What is in a counter that has not been added to the total yet.          *)
Pending ==
    gDataPer[gDataPerIdx] + IF rpc = "add" THEN gDataPer[GetBakDataPer] ELSE 0

(* No increment is lost and none is counted twice, whenever the two        *)
(* threads meet: the total and what is still in the counters make up the   *)
(* increments that are complete, with no lock around any of them.          *)
NothingLost == gData + Pending = total

(* The printed count and the added count are two reads of the counter with *)
(* the other thread running in between (lines 116 and 119): after every    *)
(* round the printed counts make up the total.                             *)
ShownIsAdded == rpc # "show" => shown = gData

(* Every increment reaches the total in the end.                           *)
CountReachesTotal ==
    \A k \in 1..MaxCount : (total = k) ~> (gData >= k)

(* Without a lock no increment is lost, and what is printed is what is     *)
(* added up.                                                               *)
LostNoneShownAll == NothingLost /\ ShownIsAdded
=============================================================================
