----------------------------- MODULE MutexCount -----------------------------
(***************************************************************************)
(* src/src/sync/mutexTest.cpp: threads of three groups add to or subtract  *)
(* from the counter of their group under one mutex, gPrioMutex.  Lock()    *)
(* and Unlock() count the errors of the mutex per thread and return        *)
(* nothing: a thread whose pthread_mutex_lock() failed goes on without the *)
(* mutex, and its pthread_mutex_unlock() fails as well.  main() shows the  *)
(* errors of every thread and adds them to a total, without a lock.        *)
(*                                                                         *)
(* Which thread gets the mutex, priorities included, is left open.         *)
(***************************************************************************)
EXTENDS Integers

CONSTANTS
    Groups,          \* the groups of threads, A, B and C
    Adders,          \* the threads that add; the others subtract
    NoThread,        \* owner of a free mutex
    MaxRounds,       \* bound: rounds of each thread
    MaxLockErrors    \* bound: failures of pthread_mutex_lock()

MutexThreads == UNION Groups

ASSUME MutexAssumption ==
    /\ \A g, h \in Groups : g # h => g \cap h = {}
    /\ Adders \subseteq MutexThreads
    /\ NoThread \notin MutexThreads
    /\ MaxRounds \in Nat /\ MaxLockErrors \in Nat

ErrorStat == MutexThreads \X {"lock", "unlock"}

VARIABLES
    owner,      \* owner of gPrioMutex
    cntNum,     \* gCntNumA, gCntNumB, gCntNumC
    tpc, rounds,\* where each thread is, rounds it has made
    tread,      \* the counter, or error count, each thread has read
    perError,   \* gErrorStat[].perLockError and perUnlockError
    allError,   \* gErrorStat[].allLockError and allUnlockError
    shows,      \* the error count the display loop of main() is at, if any
    netCount,   \* additions less subtractions of each group (history)
    lockErrors, \* failures of pthread_mutex_lock() (history)
    hadError    \* error counts that were ever counted up (history)

display == <<allError, shows>>
history == <<netCount, lockErrors, hadError>>
mutexVars == <<owner, cntNum, tpc, rounds, tread, perError, display, history>>

MutexInit ==
    /\ owner = NoThread
    /\ cntNum = [g \in Groups |-> 0]
    /\ tpc = [t \in MutexThreads |-> "lock"]
    /\ rounds = [t \in MutexThreads |-> 0]
    /\ tread = [t \in MutexThreads |-> 0]
    /\ perError = [e \in ErrorStat |-> 0]
    /\ allError = [e \in ErrorStat |-> 0]
    /\ shows = {}
    /\ netCount = [g \in Groups |-> 0]
    /\ lockErrors = 0
    /\ hadError = {}

GroupOf(t) == CHOOSE g \in Groups : t \in g
Goto(t, l) == tpc' = [tpc EXCEPT ![t] = l]
Error(k) == IF k = "lock" THEN "lock error" ELSE "unlock error"
ErrorRead(k) == IF k = "lock" THEN "lock error read" ELSE "unlock error read"
Step(t) == IF t \in Adders THEN 1 ELSE -1

-----------------------------------------------------------------------------
(* The counting threads.                                                   *)

Lock(t) ==
    /\ tpc[t] = "lock" /\ rounds[t] < MaxRounds
    /\ owner = NoThread
    /\ owner' = t
    /\ Goto(t, "read")
    /\ UNCHANGED <<cntNum, rounds, tread, perError, display, history>>

LockFail(t) ==
    /\ tpc[t] = "lock" /\ rounds[t] < MaxRounds
    /\ lockErrors < MaxLockErrors
    /\ lockErrors' = lockErrors + 1
    /\ Goto(t, "lock error")
    /\ UNCHANGED <<owner, cntNum, rounds, tread, perError, display, netCount, hadError>>

(* perLockError++ and perUnlockError++: a read and a write.                *)
ReadError(t, k) ==
    /\ tpc[t] = Error(k)
    /\ tread' = [tread EXCEPT ![t] = perError[<<t, k>>]]
    /\ Goto(t, ErrorRead(k))
    /\ UNCHANGED <<owner, cntNum, rounds, perError, display, history>>

WriteError(t, k) ==
    /\ tpc[t] = ErrorRead(k)
    /\ perError' = [perError EXCEPT ![<<t, k>>] = tread[t] + 1]
    /\ hadError' = hadError \cup {<<t, k>>}
    /\ Goto(t, IF k = "lock" THEN "read" ELSE "lock")
    /\ UNCHANGED <<owner, cntNum, rounds, tread, display, netCount, lockErrors>>

ReadCnt(t) ==
    /\ tpc[t] = "read"
    /\ tread' = [tread EXCEPT ![t] = cntNum[GroupOf(t)]]
    /\ Goto(t, "write")
    /\ UNCHANGED <<owner, cntNum, rounds, perError, display, history>>

WriteCnt(t) ==
    /\ tpc[t] = "write"
    /\ cntNum' = [cntNum EXCEPT ![GroupOf(t)] = tread[t] + Step(t)]
    /\ netCount' = [netCount EXCEPT ![GroupOf(t)] = @ + Step(t)]
    /\ Goto(t, "unlock")
    /\ UNCHANGED <<owner, rounds, tread, perError, display, lockErrors, hadError>>

UnlockAny(t) == \* mutant: the mutex does not check its owner
    /\ tpc[t] = "unlock"
    /\ rounds' = [rounds EXCEPT ![t] = @ + 1]
    /\ owner' = NoThread /\ Goto(t, "lock")
    /\ UNCHANGED <<cntNum, tread, perError, display, history>>

(* A recursive mutex is released by its owner only (EPERM).                *)
Unlock(t) ==
    /\ tpc[t] = "unlock"
    /\ rounds' = [rounds EXCEPT ![t] = @ + 1]
    /\ IF owner = t THEN owner' = NoThread /\ Goto(t, "lock")
                    ELSE Goto(t, "unlock error") /\ UNCHANGED owner
    /\ UNCHANGED <<cntNum, tread, perError, display, history>>

ThreadCnt(t) ==
    \/ Lock(t) \/ LockFail(t) \/ ReadCnt(t) \/ WriteCnt(t) \/ Unlock(t)
    \/ \E k \in {"lock", "unlock"} : ReadError(t, k) \/ WriteError(t, k)

-----------------------------------------------------------------------------
(* The display loop of main(); the order of the threads is left open.      *)

AddErrors(e) ==
    /\ shows = {} /\ perError[e] > 0
    /\ allError' = [allError EXCEPT ![e] = @ + perError[e]]
    /\ shows' = {e}
    /\ UNCHANGED <<owner, cntNum, tpc, rounds, tread, perError, history>>

ClearErrors(e) ==
    /\ shows = {e}
    /\ perError' = [perError EXCEPT ![e] = 0]
    /\ shows' = {}
    /\ UNCHANGED <<owner, cntNum, tpc, rounds, tread, allError, history>>

MutexNext ==
    \/ \E t \in MutexThreads : ThreadCnt(t)
    \/ \E e \in ErrorStat : AddErrors(e) \/ ClearErrors(e)

MutexSpec == MutexInit /\ [][MutexNext]_mutexVars

-----------------------------------------------------------------------------
MutexTypeOK ==
    /\ owner \in MutexThreads \cup {NoThread}
    /\ cntNum \in [Groups -> Int] /\ netCount \in [Groups -> Int]
    /\ tpc \in [MutexThreads -> {"lock", "lock error", "lock error read", "read",
                  "write", "unlock", "unlock error", "unlock error read"}]
    /\ rounds \in [MutexThreads -> 0..MaxRounds]
    /\ tread \in [MutexThreads -> Int]
    /\ perError \in [ErrorStat -> Nat] /\ allError \in [ErrorStat -> Nat]
    /\ shows \in SUBSET ErrorStat
    /\ lockErrors \in 0..MaxLockErrors /\ hadError \in SUBSET ErrorStat

InSection(t) == tpc[t] \in {"read", "write", "unlock"}

(* Of two threads that count at the same time one has had an error of      *)
(* Lock(): a thread that goes on without the mutex is itself a danger, but *)
(* it never takes the mutex away from one that has it.                     *)
OnlyErrorsBreakExclusion ==
    \A t, u \in MutexThreads :
        InSection(t) /\ InSection(u) /\ t # u =>
            \E v \in {t, u} : <<v, "lock">> \in hadError

(* As long as the mutex has not failed, additions and subtractions of the  *)
(* groups come out exactly.                                                *)
CountsExact == lockErrors = 0 => cntNum = netCount

(* What gPrioMutex is there for.                                           *)
MutexProtects == OnlyErrorsBreakExclusion /\ CountsExact

(* The display loop clears the counts while threads count them up: errors  *)
(* can be lost or counted twice, but a thread that had an error never      *)
(* looks as if it had none.                                                *)
ErrorNotForgotten ==
    \A e \in hadError : perError[e] > 0 \/ allError[e] > 0
=============================================================================
