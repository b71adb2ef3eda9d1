--------------------------- MODULE ThreadPrograms ---------------------------
(***************************************************************************)
(* The small programs whose threads share memory.  config.h enables one    *)
(* program and main() of main.cpp calls it; the logger and the CAS program *)
(* are missing from both at this commit and need their macro and their     *)
(* call.  The programs share nothing, so that the variables of the others  *)
(* keep their initial values; a queue left over from an earlier run        *)
(* matters to its own program only.                                        *)
(***************************************************************************)
EXTENDS Logger, CasCounter, MutexCount, MsgQueueSched

VARIABLE program   \* the macro that is 1

Init ==
    /\ program \in {"LOGGERTEST_CPP", "CASBASEONGCC_CPP", "MUTEXTEST_CPP",
                    "MSGQUEUE_SCHED_TIME_CPP"}
    /\ LogInit /\ CasInit /\ MutexInit /\ QueueInit
    /\ program = "MSGQUEUE_SCHED_TIME_CPP" \/ received = 0

Logging ==
    /\ program = "LOGGERTEST_CPP" /\ LogNext
    /\ UNCHANGED <<program, casVars, mutexVars, queueVars>>

Adding ==
    /\ program = "CASBASEONGCC_CPP" /\ CasNext
    /\ UNCHANGED <<program, logVars, mutexVars, queueVars>>

Counting ==
    /\ program = "MUTEXTEST_CPP" /\ MutexNext
    /\ UNCHANGED <<program, logVars, casVars, queueVars>>

Timing ==
    /\ program = "MSGQUEUE_SCHED_TIME_CPP" /\ QueueNext
    /\ UNCHANGED <<program, logVars, casVars, mutexVars>>

Next == Logging \/ Adding \/ Counting \/ Timing

vars == <<program, logVars, casVars, mutexVars, queueVars>>

Spec == Init /\ [][Next]_vars

(* The variables of each program have their types.                         *)
TypeOK == LogTypeOK /\ CasTypeOK /\ MutexTypeOK /\ QueueTypeOK

(* The size of the log file and the counter without synchronisation stay   *)
(* within what their threads can be between two of their steps             *)
(* (logger.cpp, cas.cpp).                                                  *)
WithinBounds == LogBounded /\ NoSyncNeverAhead

(* What gPrioMutex is there for, and what its errors show.                 *)
MutexHolds == MutexProtects /\ ErrorNotForgotten
=============================================================================
