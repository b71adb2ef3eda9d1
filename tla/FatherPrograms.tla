--------------------------- MODULE FatherPrograms ---------------------------
(***************************************************************************)
(* The fathers of src/src/process (waitTest, fatherForkAndWait,            *)
(* waitThreadExit) and src/src/ptrace (ptraceTest, mipsPtraceTest,         *)
(* mipsWaitpidTest, ptraceAttachTest): each forks a child and follows it   *)
(* with wait() and ptrace().  father is the function that main() calls.    *)
(* A father that ends leaves the child alone, which is not followed.       *)
(*                                                                         *)
(* The loops differ in a few points only:                                  *)
(*   traceme, exec  what the child does first                              *)
(*   failed         fork() failed: "exit", or "on" when nothing notices    *)
(*   checks         whether waitpid() returned the child is looked at      *)
(*   ends           the reports that end the loop                          *)
(*   resume         what else the father does with a report                *)
(***************************************************************************)
EXTENDS ChildProcess

(* waitTest.cpp: one wait(), whatever it says; waitpid() until the child   *)
(* exits or is killed; waitpid(WNOHANG) every second until it says so.     *)
WaitTest_1 == [traceme |-> FALSE, exec |-> TRUE, failed |-> "exit", checks |-> FALSE,
               ends |-> {"exited", "signaled", "stopped"}, resume |-> "none"]
WaitTest_Sleep == [WaitTest_1 EXCEPT !.exec = FALSE]
WaitExitedOnly == [WaitTest_1 EXCEPT !.exec = FALSE, !.checks = TRUE, \* mutant
                                     !.ends = {"exited"}]

WaitTest_WIfExited_And_WExitStatus ==
    [WaitTest_1 EXCEPT !.exec = FALSE, !.checks = TRUE, !.ends = {"exited", "signaled"}]

WaitTest_Waitpid == [WaitTest_1 EXCEPT !.exec = FALSE, !.failed = "on"]

(* fatherForkAndWait.cpp: the first report is recorded and ends the loop;  *)
(* the other father never waits.                                           *)
FatherForkAndWait_CacheChild == [WaitTest_1 EXCEPT !.checks = TRUE]
FatherForkAndWait_NoCacheChild == [WaitTest_1 EXCEPT !.resume = "sleeps"]

(* waitThreadExit.cpp waits for a thread of its own, which is no child.    *)
WaitThreadExit_waitpid == [WaitTest_WIfExited_And_WExitStatus EXCEPT !.failed = "thread"]

(* ptraceTest.cpp.                                                         *)
PtraceTest_1 == [WaitTest_1 EXCEPT !.traceme = TRUE, !.failed = "on", !.resume = "cont"]
PtraceTest_PeekUser == [PtraceTest_1 EXCEPT !.ends = {"exited"}, !.resume = "calls"]
PtraceTest_GetRegs == PtraceTest_PeekUser
PtraceTest_PokeData == [PtraceTest_PeekUser EXCEPT !.resume = "pokes"]
PtraceTest_SingleStep == [PtraceTest_PeekUser EXCEPT !.resume = "steps"]

(* mipsPtraceTest.cpp; nothing resumes a child of GetRegs that stopped.    *)
MipsPtraceTest_TraceTillExit ==
    [traceme |-> TRUE, exec |-> TRUE, failed |-> "exit", checks |-> TRUE,
     ends |-> {"exited", "stopped"}, resume |-> "tops"]
MipsPtraceTest_GetRegs ==
    [MipsPtraceTest_TraceTillExit EXCEPT !.ends = {"exited", "signaled"}, !.resume = "none"]
MipsPtraceTest_KillChild ==
    [MipsPtraceTest_TraceTillExit EXCEPT !.traceme = FALSE, !.exec = FALSE, !.resume = "kills"]
MipsPtraceTest_AttachAndDetach == [MipsPtraceTest_KillChild EXCEPT !.resume = "detaches"]

(* mipsWaitpidTest.cpp, ptraceAttachTest.cpp: "childPid < -1" never holds. *)
MipsWaitpidTest_WIFEXITED ==
    [MipsPtraceTest_GetRegs EXCEPT !.exec = FALSE, !.failed = "on"]
PtraceAttachTest_Attach ==
    [MipsWaitpidTest_WIFEXITED EXCEPT !.checks = FALSE, !.ends = {"exited"}, !.resume = "looks"]

Fathers == {"WaitTest_1", "WaitTest_Sleep", "WaitTest_WIfExited", "WaitTest_Waitpid",
            "CacheChild", "NoCacheChild", "WaitThreadExit", "PtraceTest_1", "PeekUser",
            "PokeData", "SingleStep", "TraceTillExit", "MipsGetRegs", "KillChild",
            "AttachAndDetach", "MipsWaitpid", "Attach"}

LoopOf(f) ==
    CASE f = "WaitTest_1"         -> WaitTest_1
      [] f = "WaitTest_Sleep"     -> WaitTest_Sleep
      [] f = "WaitTest_WIfExited" -> WaitTest_WIfExited_And_WExitStatus
      [] f = "WaitTest_Waitpid"   -> WaitTest_Waitpid
      [] f = "CacheChild"         -> FatherForkAndWait_CacheChild
      [] f = "NoCacheChild"       -> FatherForkAndWait_NoCacheChild
      [] f = "WaitThreadExit"     -> WaitThreadExit_waitpid
      [] f = "PtraceTest_1"       -> PtraceTest_1
      [] f = "PeekUser"           -> PtraceTest_PeekUser
      [] f = "PokeData"           -> PtraceTest_PokeData
      [] f = "SingleStep"         -> PtraceTest_SingleStep
      [] f = "TraceTillExit"      -> MipsPtraceTest_TraceTillExit
      [] f = "MipsGetRegs"        -> MipsPtraceTest_GetRegs
      [] f = "KillChild"          -> MipsPtraceTest_KillChild
      [] f = "AttachAndDetach"    -> MipsPtraceTest_AttachAndDetach
      [] f = "MipsWaitpid"        -> MipsWaitpidTest_WIFEXITED
      [] f = "Attach"             -> PtraceAttachTest_Attach

VARIABLES
    father, fpc,      \* "fork", "top", "wait", "handle", "done"
    forkFailed,
    status, got,      \* status, and what waitpid() returned
    insyscall,        \* insyscall, toggle
    said,             \* what the father last said of the child
    misread, poked    \* an entry taken for an exit or the other way round; a
                      \* written text before and after its reversal (history)

fatherVars == <<father, fpc, forkFailed, status, got, insyscall, said, misread,
                poked, childVars>>

loop == LoopOf(father)

FatherInit ==
    /\ father \in Fathers /\ fpc = "fork" /\ forkFailed = FALSE
    /\ status \in {"exited", "signaled", "stopped"}  \* not initialised
    /\ got = "none" /\ insyscall = 0 /\ said = "nothing"
    /\ misread = FALSE /\ poked = <<>> /\ ChildInit

-----------------------------------------------------------------------------
Attaches == loop.resume \in {"kills", "detaches", "looks"}

Fork ==
    /\ fpc = "fork"
    /\ \/ /\ loop.failed # "thread" /\ childState' = "start" /\ UNCHANGED forkFailed
          /\ fpc' = IF loop.resume = "sleeps" THEN "asleep"
                    ELSE IF Attaches \/ loop.resume = "tops" THEN "top" ELSE "wait"
       \/ /\ loop.failed = "thread" /\ fpc' = "wait" /\ UNCHANGED <<childState, forkFailed>>
       \/ /\ loop.failed # "thread" /\ forkFailed' = TRUE /\ UNCHANGED childState
          /\ fpc' = IF loop.failed = "exit" THEN "done" ELSE "wait"
    /\ UNCHANGED <<father, status, got, insyscall, said, misread, poked,
                   traced, mode, stopPending, signal, at, origEax, text, event,
                   childEnd, stops, signals>>

(* PTRACE_CONT in front of every waitpid() of TraceTillExit: sleep(1) is   *)
(* all that gives the child the time to stop behind its execl().           *)
ContinueFirst ==
    /\ fpc = "top" /\ loop.resume = "tops"
    /\ Resume("cont")
    /\ IF childState = "stopped" THEN fpc' = "wait" /\ UNCHANGED said
                                 ELSE fpc' = "done" /\ said' = "error"
    /\ UNCHANGED <<father, forkFailed, status, got, insyscall, misread, poked>>

(* PTRACE_ATTACH returns before the child stops; a child that asked to be  *)
(* traced cannot be attached to, which Attach does not look at.            *)
AttachChild ==
    /\ fpc = "top" /\ Attaches
    /\ LET attached == childState \in {"start", "running"} /\ ~traced
       IN /\ traced' = (traced \/ attached)
          /\ stopPending' = attached
          /\ fpc' = IF loop.resume = "looks" THEN "wait"
                    ELSE IF attached THEN "handle" ELSE "done"
          /\ said' = IF fpc' = "done" THEN "error" ELSE said
    /\ UNCHANGED <<father, forkFailed, status, got, insyscall, misread, poked,
                   childState, mode, signal, at, origEax, text, event, childEnd,
                   stops, signals>>

Wait ==
    /\ fpc = "wait" /\ fpc' = "handle"
    /\ \/ WaitChild(status) /\ got' = "child"
       \/ NoChild /\ got' = "error" /\ UNCHANGED <<status, childVars>>
       \/ /\ father = "Attach" /\ event = "none" /\ ~NoChild   \* WNOHANG
          /\ got' = "zero" /\ UNCHANGED <<status, childVars>>
    /\ UNCHANGED <<father, forkFailed, insyscall, said, misread, poked>>

(* waitpid() returned childPid, -1 of a failed fork() included.            *)
Mine == loop.checks => got = "child" \/ (got = "error" /\ forkFailed)

(* What ends a loop, whatever the father still does.                       *)
LoopEnds ==
    /\ fpc = "handle" /\ loop.resume \in {"none", "cont", "calls", "pokes", "steps", "tops"}
    /\ Mine /\ status \in loop.ends
    /\ IF loop.resume = "cont" \/ (loop.resume = "tops" /\ status = "stopped")
       THEN Resume("cont") ELSE UNCHANGED childVars
    /\ said' = IF loop.resume = "tops" /\ status = "stopped" /\ childState # "stopped"
               THEN "error" ELSE status
    /\ fpc' = "done"
    /\ UNCHANGED <<father, forkFailed, status, got, insyscall, misread, poked>>

(* The loops that do nothing else, and TraceTillExit on its way to another *)
(* PTRACE_CONT.                                                            *)
LoopTurns ==
    /\ fpc = "handle" /\ loop.resume \in {"none", "tops"}
    /\ ~(Mine /\ status \in loop.ends)
    /\ fpc' = IF loop.resume = "tops" THEN "top" ELSE "wait"
    /\ UNCHANGED <<father, forkFailed, status, got, insyscall, said, misread, poked,
                   childVars>>

Eax == IF childState = "stopped" THEN origEax ELSE "other"

(* The child is resumed to its next system call; while the last one is a   *)
(* write() the turns alternate between its entry and its exit.             *)
TraceCalls ==
    /\ fpc = "handle" /\ loop.resume \in {"calls", "pokes"} /\ status \notin loop.ends
    /\ insyscall' = IF Eax = "write" THEN 1 - insyscall ELSE insyscall
    /\ misread' = (misread \/ (Eax = "write" /\ at # IF insyscall = 0 THEN "entry" ELSE "exit"))
    /\ \E junk \in {0, 1} :
          poked' = IF loop.resume = "pokes" /\ Eax = "write" /\ insyscall = 0 /\ at = "entry"
                   THEN <<text, Putdata(reverse(text), junk)>> ELSE poked
    /\ Resume("syscall") /\ fpc' = "wait"
    /\ UNCHANGED <<father, forkFailed, status, got, said>>

TraceSteps ==
    /\ fpc = "handle" /\ loop.resume = "steps" /\ status \notin loop.ends
    /\ Resume(IF Eax = "write" THEN "step" ELSE "syscall") /\ fpc' = "wait"
    /\ UNCHANGED <<father, forkFailed, status, got, insyscall, said, misread, poked>>

(* PTRACE_KILL succeeds and does nothing while the child is not stopped.   *)
KillChild ==
    /\ fpc = "handle" /\ loop.resume = "kills"
    /\ IF childState = "stopped" THEN Ends("killed")
                                 ELSE UNCHANGED <<childState, childEnd, at, event>>
    /\ said' = "killed" /\ fpc' = "done"
    /\ UNCHANGED <<father, forkFailed, status, got, insyscall, misread, poked, traced,
                   mode, stopPending, signal, origEax, text, stops, signals>>

DetachUnchecked ==  \* mutant: the result of PTRACE_DETACH is not looked at
    /\ fpc = "handle"
    /\ loop.resume = "detaches" \/ (loop.resume = "looks" /\ status # "exited")
    /\ IF childState = "stopped"
       THEN childState' = "running" /\ traced' = FALSE /\ signal' = FALSE /\ event' = "none"
       ELSE UNCHANGED <<childState, traced, signal, event>>
    /\ IF loop.resume = "looks" THEN fpc' = "wait" /\ UNCHANGED said
                                ELSE fpc' = "done" /\ said' = "detached"
    /\ UNCHANGED <<father, forkFailed, status, got, insyscall, misread, poked, mode,
                   stopPending, at, origEax, text, childEnd, stops, signals>>

(* PTRACE_DETACH needs a stopped child; Attach goes on to look at it.      *)
DetachChild ==
    /\ fpc = "handle"
    /\ loop.resume = "detaches" \/ (loop.resume = "looks" /\ status # "exited")
    /\ IF childState = "stopped"
       THEN childState' = "running" /\ traced' = FALSE /\ signal' = FALSE /\ event' = "none"
       ELSE UNCHANGED <<childState, traced, signal, event>>
    /\ IF loop.resume = "looks"
       THEN fpc' = "wait" /\ UNCHANGED said
       ELSE /\ fpc' = "done"
            /\ said' = IF childState = "stopped" THEN "detached" ELSE "error"
    /\ UNCHANGED <<father, forkFailed, status, got, insyscall, misread, poked, mode,
                   stopPending, at, origEax, text, childEnd, stops, signals>>

AttachEnds ==
    /\ fpc = "handle" /\ loop.resume = "looks" /\ status = "exited"
    /\ fpc' = "done" /\ said' = status
    /\ UNCHANGED <<father, forkFailed, status, got, insyscall, misread, poked, childVars>>

FatherStep ==
    \/ Fork \/ ContinueFirst \/ AttachChild \/ Wait \/ LoopEnds \/ LoopTurns
    \/ TraceCalls \/ TraceSteps \/ KillChild \/ DetachChild \/ AttachEnds

Endless == father \in {"KillChild", "AttachAndDetach"}

ChildStep ==
    /\ fpc # "done"
    /\ \/ ChildStarts(loop.traceme, loop.exec, loop.resume = "sleeps")
       \/ ChildCalls \/ ChildTakesSignal \/ ChildTakesStop
       \/ ~Endless /\ ChildExits
       \/ ChildSignaled
    /\ UNCHANGED <<father, fpc, forkFailed, status, got, insyscall, said, misread, poked>>

FatherNext == FatherStep \/ ChildStep

-----------------------------------------------------------------------------
FatherTypeOK ==
    /\ father \in Fathers /\ forkFailed \in BOOLEAN
    /\ fpc \in {"fork", "top", "wait", "handle", "asleep", "done"}
    /\ status \in {"exited", "signaled", "stopped"}
    /\ got \in {"none", "child", "error", "zero"} /\ insyscall \in 0..1
    /\ said \in {"nothing", "exited", "signaled", "stopped", "error", "killed", "detached"}
    /\ childState \in {"none", "start", "running", "stopped", "zombie", "gone"}
    /\ childEnd \in {"no", "exited", "signaled", "killed"}
    /\ event \in {"none", "stopped", "exited", "signaled"}
    /\ traced \in BOOLEAN /\ stopPending \in BOOLEAN /\ signal \in BOOLEAN
    /\ mode \in {"cont", "syscall", "step"} /\ origEax \in {"write", "other"}
    /\ at \in {"exec", "entry", "exit", "step", "signal"}
    /\ text \in Seq(0..2) /\ stops \in 0..MaxStops /\ signals \in 0..MaxSignals
    /\ misread \in BOOLEAN
    /\ event = "stopped" => childState = "stopped"
    /\ childEnd # "no" <=> childState \in {"zombie", "gone"}

(* What was written over a text is the text again when it is reversed once *)
(* more; its last byte stays, less than a word is written behind it.       *)
PokedBack ==
    poked # <<>> =>
        LET before == poked[1]  after == SubSeq(poked[2], 1, Len(before))
        IN /\ reverse(after) = before /\ Len(poked[2]) < Len(before) + LongSize
           /\ before # <<>> => after[Len(after)] = before[Len(before)]

(* A father says of its child what happened to it, and a stop of TraceCalls *)
(* is taken for what it is, unless                                         *)
(*   - fork() failed and nothing looked, so that the status is one that    *)
(*     nothing wrote, or Attach looked at it before the child had one;     *)
(*   - a signal stopped the child behind a write(), whose number is still  *)
(*     in its place: from then on entries and exits may be swapped.        *)
(* And a traced child is never ended by a signal other than SIGKILL: every *)
(* PTRACE_CONT and PTRACE_SYSCALL takes the signal away from it.           *)
ReportsAreTrue ==
    /\ fpc = "done" /\ said \in {"exited", "signaled"} =>
        \/ said = "exited" /\ childEnd = "exited"
        \/ said = "signaled" /\ childEnd \in {"signaled", "killed"}
        \/ forkFailed /\ loop.failed = "on"
        \/ father = "Attach"
    /\ misread => signals > 0
    /\ traced => childEnd # "signaled"
    /\ PokedBack

(* A child that was said to be detached goes on, and one said to be killed *)
(* is dead: unless the SIGSTOP of PTRACE_ATTACH is still on its way, which *)
(* without another signal happens to the killed one only.                  *)
DetachedRuns ==
    /\ fpc = "done" /\ said = "detached" /\ signals = 0 =>
        childState = "running" /\ ~stopPending /\ ~traced
    /\ fpc = "done" /\ said = "killed" => childEnd # "no" \/ stopPending \/ signals > 0

(* A father that waits for its child sees it end and ends itself; those    *)
(* whose loop knows no other end than exit() do if the child exits.        *)
EndsWithChild ==
    /\ childState = "zombie" /\ fpc # "asleep"
    /\ childEnd = "exited" \/ loop.resume \notin {"calls", "pokes", "steps", "looks"}
    ~> fpc = "done"
=============================================================================
