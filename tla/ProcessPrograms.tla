-------------------------- MODULE ProcessPrograms ---------------------------
(***************************************************************************)
(* The programs whose processes share something: a child and its reports   *)
(* (src/src/process, src/src/ptrace), a message queue (src/src/msgQueue),  *)
(* a memory with a name (src/src/shareMemory), a semaphore                 *)
(* (src/src/semaphore), a file (src/src/file).  One group runs, the        *)
(* variables of the others keep their initial values.                      *)
(*                                                                         *)
(* Fairness: the father, the receiver of msgQueueAttr and a process that   *)
(* waits for the lock of a file are scheduled at some time; children,      *)
(* signals and other processes owe nothing.                                *)
(***************************************************************************)
EXTENDS FatherPrograms, MessageQueues, MessageThreads, SharedObjects,
        LockedFile

VARIABLE program   \* the macros that are 1

vars == <<program, fatherVars, mqVars, sarVars, attrVars, shmVars, semVars, fileVars>>

Init ==
    /\ program \in {"father", "msgQueue", "msgQueueSAROneProcess", "msgQueueAttr",
                    "shareMemory", "semaphore", "file"}
    /\ FatherInit /\ MqInit /\ SarInit /\ AttrInit /\ ShmInit /\ SemInit /\ FileInit
    /\ program # "father" => father = "WaitTest_1" /\ status = "exited"
    /\ program # "msgQueueSAROneProcess" =>
        gSendBuf = (CHOOSE t \in SarSenders : TRUE) /\ sarQueue = <<>>
    /\ program # "msgQueueAttr" => attrQueue = 0
    /\ program # "semaphore" => semNamed
    /\ program # "file" => ~exists

Following(Step) ==
    /\ program = "father" /\ Step
    /\ UNCHANGED <<program, mqVars, sarVars, attrVars, shmVars, semVars, fileVars>>
Queueing(Step) ==
    /\ program = "msgQueue" /\ Step
    /\ UNCHANGED <<program, fatherVars, sarVars, attrVars, shmVars, semVars, fileVars>>
SharingBuffer(Step) ==
    /\ program = "msgQueueSAROneProcess" /\ Step
    /\ UNCHANGED <<program, fatherVars, mqVars, attrVars, shmVars, semVars, fileVars>>
Changing(Step) ==
    /\ program = "msgQueueAttr" /\ Step
    /\ UNCHANGED <<program, fatherVars, mqVars, sarVars, shmVars, semVars, fileVars>>
SharingMemory(Step) ==
    /\ program = "shareMemory" /\ Step
    /\ UNCHANGED <<program, fatherVars, mqVars, sarVars, attrVars, semVars, fileVars>>
Posting(Step) ==
    /\ program = "semaphore" /\ Step
    /\ UNCHANGED <<program, fatherVars, mqVars, sarVars, attrVars, shmVars, fileVars>>
Filing(Step) ==
    /\ program = "file" /\ Step
    /\ UNCHANGED <<program, fatherVars, mqVars, sarVars, attrVars, shmVars, semVars>>

Next ==
    \/ Following(FatherNext) \/ Queueing(MqNext) \/ SharingBuffer(SarNext)
    \/ Changing(AttrNext) \/ SharingMemory(ShmNext) \/ Posting(SemNext)
    \/ Filing(FileNext)

Fairness ==
    WF_vars(\/ Following(FatherStep) \/ Changing(AttrReceive)
            \/ Filing(\E l \in Lockers : SyncTest(l)))

Spec == Init /\ [][Next]_vars /\ Fairness

-----------------------------------------------------------------------------
(* The variables of every program have their types.                        *)
TypeOK ==
    /\ FatherTypeOK /\ MqTypeOK /\ SarTypeOK /\ AttrTypeOK
    /\ ShmTypeOK /\ SemTypeOK /\ FileTypeOK

(* What a father says of its child is so: the report it ended on, the text *)
(* it put back, the child it let go (waitTest.cpp:106, ptraceTest.cpp:233, *)
(* mipsPtraceTest.cpp:308).                                                *)
ChildrenAreKnown == ReportsAreTrue /\ DetachedRuns

(* Messages of a queue are received once and in order, and lost only with  *)
(* the whole queue; the totals of an interrupted receiver lag by one       *)
(* message at most; and a buffer that is not ready is sent only when       *)
(* sending threads overlap (msgQueueUnlink.cpp:41, msgQueueRecv.cpp:82,    *)
(* msgQueueTest.cpp:264, msgQueueSAROneProcess.cpp:137).                   *)
MessagesAccounted ==
    TotalsLagByOne /\ EachOnceInOrder /\ LostWithQueue /\ JunkNeedsOverlap

(* A shared memory is found, whole, while its writer waits, unless another *)
(* writer cuts it or takes its name; waiters of a semaphore split its      *)
(* posts, but for those in the hands of one that is interrupted; a file is *)
(* whole under its lock and copied whole if nobody writes into it          *)
(* (shareMemoryTest.cpp:139, nameSemaphoreWaitAndPost.cpp:65,              *)
(* syncTest.cpp:45, fileCopy.cpp:46).                                      *)
SharedHold ==
    /\ WriterIsFound /\ ClockFollowsPosts
    /\ LockedIsWhole /\ CopyIsWhole

(* A father ends once its child has, a queued message is received and a    *)
(* process that waits for the lock of a file gets it or gives up.          *)
WaitsEnd == EndsWithChild /\ AttrDelivers /\ LockIsPassedOn
=============================================================================
