------------------------------- MODULE Logger -------------------------------
(***************************************************************************)
(* src/src/logger: several threads print records to one log file.  LOG_DBG *)
(* first calls isNeedRoll(), which goes back to the start of the file when *)
(* the file has reached its size, and then fprintf().  ftell(), rewind()   *)
(* and fprintf() are each atomic (stdio locks the file), their sequence is *)
(* not.  All records of the test have the same length.  The file is a      *)
(* regular one that could be opened, so that ftell() does not fail.        *)
(***************************************************************************)
EXTENDS Naturals, FiniteSets

CONSTANTS
    LogThreads,   \* the printing threads
    LogRecord,    \* length of a record in bytes
    MaxFileSize,  \* maxFileSize
    LogLoops      \* records per thread

ASSUME LoggerAssumption ==
    /\ IsFiniteSet(LogThreads)
    /\ LogRecord \in Nat \ {0}
    /\ MaxFileSize \in Nat \ {0}     \* InitLog() refuses 0
    /\ LogLoops \in Nat

VARIABLES
    filePos,   \* position in the file
    logFile,   \* the record that starts at each position, by print number
    lpc,       \* where each thread is
    lidx,      \* records each thread has printed
    logEnded,  \* main() has returned
    printed    \* records printed by all threads (history)

logVars == <<filePos, logFile, lpc, lidx, logEnded, printed>>

LogInit ==
    /\ filePos = 0 /\ logFile = <<>>
    /\ lpc = [t \in LogThreads |-> "check"]
    /\ lidx = [t \in LogThreads |-> 0]
    /\ logEnded = FALSE
    /\ printed = 0

(* isNeedRoll(): ftell() and the comparison.                               *)
IsNeedRollOnce(t) == \* mutant: only the first record of a thread is checked
    /\ lpc[t] = "check" /\ lidx[t] < LogLoops /\ ~logEnded
    /\ lpc' = [lpc EXCEPT ![t] =
         IF filePos >= MaxFileSize /\ lidx[t] = 0 THEN "rewind" ELSE "print"]
    /\ UNCHANGED <<filePos, logFile, lidx, logEnded, printed>>

IsNeedRoll(t) ==
    /\ lpc[t] = "check" /\ lidx[t] < LogLoops /\ ~logEnded
    /\ lpc' = [lpc EXCEPT ![t] =
         IF filePos >= MaxFileSize THEN "rewind" ELSE "print"]
    /\ UNCHANGED <<filePos, logFile, lidx, logEnded, printed>>

Rewind(t) ==
    /\ lpc[t] = "rewind" /\ ~logEnded
    /\ filePos' = 0
    /\ lpc' = [lpc EXCEPT ![t] = "print"]
    /\ UNCHANGED <<logFile, lidx, logEnded, printed>>

PrintRecord(t) ==
    /\ lpc[t] = "print" /\ ~logEnded
    /\ printed' = printed + 1
    /\ logFile' = [p \in DOMAIN logFile \cup {filePos} |->
                     IF p = filePos THEN printed' ELSE logFile[p]]
    /\ filePos' = filePos + LogRecord
    /\ lidx' = [lidx EXCEPT ![t] = @ + 1]
    /\ lpc' = [lpc EXCEPT ![t] = "check"]
    /\ UNCHANGED logEnded

(* main() returns after sleep(2), whatever the threads are doing.          *)
LogMainReturns ==
    /\ ~logEnded
    /\ logEnded' = TRUE
    /\ UNCHANGED <<filePos, logFile, lpc, lidx, printed>>

LogNext ==
    \/ \E t \in LogThreads : IsNeedRoll(t) \/ Rewind(t) \/ PrintRecord(t)
    \/ LogMainReturns

LogSpec == LogInit /\ [][LogNext]_logVars

-----------------------------------------------------------------------------
LogTypeOK ==
    /\ filePos \in Nat /\ printed \in Nat
    /\ lpc \in [LogThreads -> {"check", "rewind", "print"}]
    /\ lidx \in [LogThreads -> 0..LogLoops]
    /\ logEnded \in BOOLEAN

Printing == {t \in LogThreads : lpc[t] = "print"}

(* Threads that have found room in the file may all print before one of    *)
(* them looks again: the file grows beyond maxFileSize by less than one    *)
(* record per thread and the record that reached the size, never more,     *)
(* whatever the number of rolls.                                           *)
LogBounded ==
    filePos + LogRecord * Cardinality(Printing)
        < MaxFileSize + LogRecord * Cardinality(LogThreads)

(* Records the file holds when it is full.                                 *)
Capacity == ((MaxFileSize - 1) \div LogRecord) + 1

(* loggerTest.cpp:9 concludes that there is no problem when all threads    *)
(* print at the same time.  Then a record that was printed stays in the    *)
(* file until the file has gone round, as with one thread: the last        *)
(* records, as many as the file has room for, are in it.                   *)
RecentRecordsKept ==
    \A n \in 1..printed :
        n > printed - Capacity => \E p \in DOMAIN logFile : logFile[p] = n
=============================================================================
