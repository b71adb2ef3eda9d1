---------------------------- MODULE ChildProcess ----------------------------
(***************************************************************************)
(* The child of the programs of src/src/process and src/src/ptrace, and    *)
(* what the kernel does with it: it may ask to be traced, replaces itself  *)
(* by another program, makes system calls, gets signals and ends.  A       *)
(* traced child stops at its system calls or instructions, as it was       *)
(* resumed, and at every signal; a stop or the end is reported once to a   *)
(* wait().  One child per program; the outside sends the signals.          *)
(***************************************************************************)
EXTENDS Naturals, Sequences, FiniteSetsExt

CONSTANTS
    LongSize,     \* long_size: bytes that PTRACE_PEEKDATA gets at once
    MaxText,      \* bound: bytes of a write() of the child
    MaxStops,     \* bound: stops at system calls or instructions
    MaxSignals    \* bound: signals from outside

ASSUME ChildAssumption ==
    /\ LongSize \in Nat \ {0} /\ MaxText \in Nat /\ MaxStops \in Nat /\ MaxSignals \in Nat

Texts == UNION {[1..n -> 0..2] : n \in 0..MaxText}

VARIABLES
    childState,   \* "none", "start", "running", "stopped", "zombie", "gone"
    traced, mode, \* traced; how it was resumed: "cont", "syscall", "step"
    stopPending,  \* the SIGSTOP of PTRACE_ATTACH has not stopped it yet
    signal,       \* a signal is to be taken, or was taken by the tracer
    at,           \* where it stopped: "exec", "entry", "exit", "step", "signal"
    origEax,      \* its last system call, "write" or "other"
    text,         \* the bytes at the address its write() was given
    event,        \* not yet reported: "none", "stopped", "exited", "signaled"
    childEnd,     \* how it ended: "no", "exited", "signaled", "killed"
    stops, signals

childVars == <<childState, traced, mode, stopPending, signal, at, origEax, text,
               event, childEnd, stops, signals>>

ChildInit ==
    /\ childState = "none" /\ traced = FALSE /\ mode = "cont"
    /\ stopPending = FALSE /\ signal = FALSE /\ at = "exec" /\ origEax = "other"
    /\ text = <<>> /\ event = "none" /\ childEnd = "no" /\ stops = 0 /\ signals = 0

StopsAt(place) ==
    /\ childState' = "stopped" /\ at' = place /\ event' = "stopped"
    /\ UNCHANGED childEnd

Ends(how) ==
    /\ childState' = "zombie" /\ childEnd' = how /\ UNCHANGED at
    /\ event' = IF how = "exited" THEN "exited" ELSE "signaled"

(* PTRACE_TRACEME of a child that is not traced yet, then execl(): a       *)
(* traced child stops behind it; one that cannot execute the program       *)
(* returns from main() (endless: it sleeps for ever, as its father does).  *)
ChildStarts(traceme, exec, endless) ==
    /\ childState = "start"
    /\ traced' = (traced \/ traceme)
    /\ \/ /\ exec
          /\ IF traced' THEN StopsAt("exec")
                        ELSE childState' = "running" /\ UNCHANGED <<at, event, childEnd>>
       \/ ~exec /\ childState' = "running" /\ UNCHANGED <<at, event, childEnd>>
       \/ exec /\ ~endless /\ Ends("exited")
    /\ UNCHANGED <<mode, stopPending, signal, origEax, text, stops, signals>>

(* The next stop of a child resumed by PTRACE_SYSCALL: at the entry of a   *)
(* system call, then at its exit; by PTRACE_SINGLESTEP: behind it or       *)
(* behind an instruction.                                                  *)
ChildCalls ==
    /\ childState = "running" /\ traced /\ mode # "cont" /\ stops < MaxStops
    /\ stops' = stops + 1
    /\ IF mode = "syscall"
       THEN IF at = "entry" THEN StopsAt("exit") /\ UNCHANGED <<origEax, text>>
            ELSE /\ StopsAt("entry") /\ origEax' \in {"write", "other"}
                 /\ text' \in IF origEax' = "write" THEN Texts ELSE {text}
       ELSE StopsAt("step") /\ origEax' \in {origEax, "other"} /\ UNCHANGED text
    /\ UNCHANGED <<traced, mode, stopPending, signal, signals>>

(* A signal is taken between two system calls: it stops a traced child,    *)
(* with the number of the last call still in its place or not, and ends    *)
(* the others.                                                             *)
ChildTakesSignal ==
    /\ childState = "running" /\ signal /\ (traced => at # "entry")
    /\ IF traced THEN StopsAt("signal") ELSE Ends("signaled")
    /\ origEax' \in {origEax, "other"}
    /\ UNCHANGED <<traced, mode, stopPending, signal, text, stops, signals>>

(* PTRACE_ATTACH's SIGSTOP.                                                *)
ChildTakesStop ==
    /\ childState = "running" /\ stopPending /\ traced
    /\ stopPending' = FALSE /\ StopsAt("signal")
    /\ UNCHANGED <<traced, mode, signal, origEax, text, stops, signals>>

ChildExits ==
    /\ childState = "running" /\ Ends("exited")
    /\ UNCHANGED <<traced, mode, stopPending, signal, origEax, text, stops, signals>>

(* A signal, its own fault or somebody's kill(), or SIGKILL.               *)
ChildSignaled ==
    /\ childState \in {"running", "stopped"} /\ signals < MaxSignals
    /\ signals' = signals + 1
    /\ \/ childState = "running" /\ ~signal /\ signal' = TRUE
          /\ UNCHANGED <<childState, at, event, childEnd>>
       \/ Ends("killed") /\ UNCHANGED signal
    /\ UNCHANGED <<traced, mode, stopPending, origEax, text, stops>>

-----------------------------------------------------------------------------
(* ptrace(PTRACE_CONT | SYSCALL | SINGLESTEP, child, NULL, NULL): the last *)
(* argument is the signal the child gets, none.  It fails (ESRCH) when the *)
(* child is not stopped; a stop that was not waited for is forgotten.      *)
Resume(how) ==
    IF childState # "stopped" THEN UNCHANGED childVars
    ELSE /\ childState' = "running" /\ mode' = how /\ event' = "none"
         /\ signal' = FALSE
         /\ UNCHANGED <<traced, stopPending, at, origEax, text, childEnd, stops, signals>>

(* wait(): what it returns, the child or an error, and the status, which   *)
(* an error leaves as it was.  It blocks while there is nothing to report. *)
WaitChild(status) ==
    /\ event # "none" /\ status' = event /\ event' = "none"
    /\ childState' = IF childState = "zombie" THEN "gone" ELSE childState
    /\ UNCHANGED <<traced, mode, stopPending, signal, at, origEax, text, childEnd,
                   stops, signals>>

NoChild == childState \in {"none", "gone"}

-----------------------------------------------------------------------------
(* getdata(), reverse() and putdata() of ptraceTest.cpp.                   *)

(* The bytes but the last one (the end of the line), up to the first 0.    *)
reverse(str) ==
    LET strlen == Min({k \in 1..Len(str) : str[k] = 0} \cup {Len(str) + 1}) - 1
    IN [k \in 1..Len(str) |-> IF k < strlen THEN str[strlen - k] ELSE str[k]]

(* Whole words are written: the bytes of the last one that are behind the  *)
(* text are those of the word before, or undefined.                        *)
Putdata(str, junk) ==
    LET len == Len(str)
        words == ((len + LongSize - 1) \div LongSize) * LongSize
    IN [k \in 1..words |-> IF k <= len THEN str[k]
                           ELSE IF len > LongSize THEN str[k - LongSize] ELSE junk]
=============================================================================
