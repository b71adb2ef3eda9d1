----------------------------- MODULE LockedFile -----------------------------
(***************************************************************************)
(* A file that several processes use: src/src/file/syncTest.cpp writes CNT *)
(* records into it under a lock and does not truncate it, fileCopy.cpp     *)
(* copies it without asking for the lock into a file that must not exist.  *)
(*                                                                         *)
(* A byte that syncTest.cpp writes is its position in the text of all      *)
(* records; 0 is a byte of an older file.  write() may write less than it  *)
(* was asked for, which neither program looks at.                          *)
(***************************************************************************)
EXTENDS Naturals, Sequences, FiniteSetsExt

CONSTANTS
    Lockers,      \* processes that run syncTest
    Copiers,      \* processes that run fileCopy with the same two names
    RecordBytes,  \* bytes of a record, 19
    CNT,          \* records
    BufferLen     \* sizeof(buffer) - 1 of fileCopy

Nobody == "nobody"

ASSUME LockedFileAssumption ==
    /\ RecordBytes \in Nat \ {0} /\ CNT \in Nat \ {0} /\ BufferLen \in Nat \ {0}
    /\ Nobody \notin Lockers \cup Copiers

Length == CNT * RecordBytes
Absent == <<>>
Older == [k \in 1..(Length + 1) |-> 0]

VARIABLES
    file,        \* the bytes of the file
    exists,
    lock,        \* who has the lock
    lockers,     \* locker -> pc, the record it is at, its offset, whether a
                 \* write() was short (history)
    copiers,     \* copier -> pc, offset, buffer, whether a write() was short
    newFile,     \* the copy: who created it, its bytes
    untouched    \* copier -> the file when it was opened, if nothing was
                 \* written since (history)

fileVars == <<file, exists, lock, lockers, copiers, newFile, untouched>>

(* The variables of a process before it runs and after it has ended.       *)
LockerIn(pc) == [pc |-> pc, i |-> 0, offset |-> 0, short |-> FALSE]
CopierIn(pc) == [pc |-> pc, offset |-> 0, buffer |-> <<>>, short |-> FALSE]

FileInit ==
    /\ \/ exists = FALSE /\ file = Absent
       \/ exists = TRUE /\ file = Older
    /\ lock = Nobody
    /\ lockers = [l \in Lockers |-> LockerIn("open")]
    /\ copiers = [c \in Copiers |-> CopierIn("open")]
    /\ newFile = [by |-> Nobody, bytes |-> <<>>]
    /\ untouched = [c \in Copiers |-> {}]

-----------------------------------------------------------------------------
(* A process that exits loses its lock.                                    *)
LockerExits(l) ==
    /\ lockers' = [lockers EXCEPT ![l] = LockerIn("exit")]
    /\ lock' = IF lock = l THEN Nobody ELSE lock

LockerOpens(l) ==
    /\ lockers[l].pc = "open"
    /\ \/ /\ exists' = TRUE /\ lockers' = [lockers EXCEPT ![l].pc = "lock"]
          /\ UNCHANGED lock
       \/ LockerExits(l) /\ UNCHANGED exists
    /\ UNCHANGED <<file, copiers, newFile, untouched>>

(* flock(LOCK_EX) waits for the lock, or fails.                            *)
LockerLocks(l) ==
    /\ lockers[l].pc = "lock"
    /\ \/ lock = Nobody /\ lock' = l /\ lockers' = [lockers EXCEPT ![l].pc = "write"]
       \/ LockerExits(l)
    /\ UNCHANGED <<file, exists, copiers, newFile, untouched>>

Overlaid(offset, n, from) ==
    [k \in 1..Max({Len(file), offset + n}) |->
        IF k \in (offset + 1)..(offset + n) THEN from + k - offset ELSE file[k]]

LockerWrites(l) ==
    /\ lockers[l].pc = "write"
    /\ LET me == lockers[l] IN
          \/ \E n \in 1..RecordBytes :
                /\ file' = Overlaid(me.offset, n, me.i * RecordBytes)
                /\ lockers' = [lockers EXCEPT ![l] =
                     [pc |-> IF me.i + 1 = CNT THEN "fsync" ELSE "write", i |-> me.i + 1,
                      offset |-> me.offset + n, short |-> me.short \/ n < RecordBytes]]
                /\ untouched' = [c \in Copiers |-> {}]
                /\ UNCHANGED lock
          \/ LockerExits(l) /\ UNCHANGED <<file, untouched>>
    /\ UNCHANGED <<exists, copiers, newFile>>

LockerSyncs(l) ==
    /\ lockers[l].pc = "fsync"
    /\ \/ lockers' = [lockers EXCEPT ![l].pc = "unlock"] /\ UNCHANGED lock
       \/ LockerExits(l)
    /\ UNCHANGED <<file, exists, copiers, newFile, untouched>>

LockerUnlocks(l) ==
    /\ lockers[l].pc = "unlock"
    /\ \E pc \in {"closed", "exit"} : lockers' = [lockers EXCEPT ![l] = LockerIn(pc)]
    /\ lock' = Nobody
    /\ UNCHANGED <<file, exists, copiers, newFile, untouched>>

SyncTest(l) ==
    LockerOpens(l) \/ LockerLocks(l) \/ LockerWrites(l) \/ LockerSyncs(l) \/ LockerUnlocks(l)

-----------------------------------------------------------------------------
CopierAt(c, pc) == copiers' = [copiers EXCEPT ![c].pc = pc]
CopierExits(c) ==
    /\ copiers' = [copiers EXCEPT ![c] = CopierIn("exit")]
    /\ untouched' = [untouched EXCEPT ![c] = {}]

CopierOpens(c) ==
    /\ copiers[c].pc = "open"
    /\ \/ exists /\ CopierAt(c, "create") /\ untouched' = [untouched EXCEPT ![c] = {file}]
       \/ CopierExits(c)
    /\ UNCHANGED <<file, exists, lock, lockers, newFile>>

(* O_EXCL: whoever finds the new file there exits.                         *)
CopierCreates(c) ==
    /\ copiers[c].pc = "create"
    /\ \/ /\ newFile.by = Nobody /\ newFile' = [newFile EXCEPT !.by = c]
          /\ CopierAt(c, "read") /\ UNCHANGED untouched
       \/ CopierExits(c) /\ UNCHANGED newFile
    /\ UNCHANGED <<file, exists, lock, lockers>>

CopierReads(c) ==
    /\ copiers[c].pc = "read"
    /\ LET me == copiers[c]
           block == SubSeq(file, me.offset + 1, Min({me.offset + BufferLen, Len(file)}))
       IN \/ block # <<>> /\ copiers' = [copiers EXCEPT ![c] =
                [me EXCEPT !.pc = "write", !.offset = @ + Len(block), !.buffer = block]]
             /\ UNCHANGED untouched
          \/ block = <<>> /\ CopierAt(c, "end copy") /\ UNCHANGED untouched
          \/ CopierExits(c)
    /\ UNCHANGED <<file, exists, lock, lockers, newFile>>

CopierWrites(c) ==
    /\ copiers[c].pc = "write"
    /\ \/ \E n \in 1..Len(copiers[c].buffer) :
             /\ newFile' = [newFile EXCEPT !.bytes = @ \o SubSeq(copiers[c].buffer, 1, n)]
             /\ copiers' = [copiers EXCEPT ![c].pc = "read",
                                           ![c].short = @ \/ n < Len(copiers[c].buffer),
                                           ![c].buffer = <<>>]
             /\ UNCHANGED untouched
       \/ CopierExits(c) /\ UNCHANGED newFile
    /\ UNCHANGED <<file, exists, lock, lockers>>

FileCopy(c) == CopierOpens(c) \/ CopierCreates(c) \/ CopierReads(c) \/ CopierWrites(c)

FileNext == (\E l \in Lockers : SyncTest(l)) \/ (\E c \in Copiers : FileCopy(c))

-----------------------------------------------------------------------------
FileTypeOK ==
    /\ exists \in BOOLEAN /\ file \in Seq(0..Length) /\ Len(file) <= Length + 1
    /\ lock \in Lockers \cup {Nobody}
    /\ lockers \in [Lockers ->
          [pc : {"open", "lock", "write", "fsync", "unlock", "closed", "exit"},
           i : 0..CNT, offset : 0..Length, short : BOOLEAN]]
    /\ copiers \in [Copiers ->
          [pc : {"open", "create", "read", "write", "end copy", "exit"},
           offset : Nat, buffer : Seq(0..Length), short : BOOLEAN]]
    /\ newFile \in [by : Copiers \cup {Nobody}, bytes : Seq(0..Length)]
    /\ untouched \in [Copiers -> SUBSET Seq(0..Length)]

(* Behind its writes and before it gives the lock back a process finds     *)
(* all its records in the file, in order, whatever other processes wrote   *)
(* before or were cut off in, unless one of its own writes was short.      *)
LockedIsWhole ==
    \A l \in Lockers :
        /\ lockers[l].pc \in {"write", "fsync", "unlock"} => lock = l
        /\ lockers[l].pc \in {"fsync", "unlock"} /\ ~lockers[l].short =>
            SubSeq(file, 1, Length) = [k \in 1..Length |-> k]

(* A copy that was said to be at its end is the file, if nobody wrote into *)
(* the file meanwhile and no write of the copy was short.                  *)
CopyIsWhole ==
    \A c \in Copiers :
        copiers[c].pc = "end copy" /\ untouched[c] # {} /\ ~copiers[c].short =>
            newFile.bytes \in untouched[c]

(* Processes that wait for the lock get it or give up, all of them.        *)
LockIsPassedOn ==
    (\E l \in Lockers : lockers[l].pc = "lock")
        ~> \A l \in Lockers : lockers[l].pc # "lock"
=============================================================================
