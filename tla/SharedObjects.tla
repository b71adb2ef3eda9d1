---------------------------- MODULE SharedObjects ---------------------------
(***************************************************************************)
(* Objects with a name that outlive the processes that share them.         *)
(*                                                                         *)
(* src/src/shareMemory/shareMemoryTest.cpp: a writer creates a memory,     *)
(* gives it the size it was called with, copies a text into it, sleeps and *)
(* removes the name; a reader opens it, maps it and prints what is there.  *)
(* A memory of size 0 can be mapped but not touched (SIGBUS); in any other *)
(* its first page can be, and the text is shorter than a page.             *)
(*                                                                         *)
(* src/src/semaphore: nameSemaphoreWaitAndPost.cpp and semaphoreTest.cpp   *)
(* wait for a named semaphore, one program of the first posts it; nobody   *)
(* ever removes it.  A waiter takes the posts for a clock.                 *)
(* semaphoreTakeAndGive.cpp does it with two threads and no name.          *)
(***************************************************************************)
EXTENDS Naturals, Sequences, Totals

CONSTANTS
    ShmWriters, ShmReaders,
    TextLen,            \* bytes of the text
    ShmSizes,           \* [Memory Size]; TextLen stands for all larger ones
    MaxMemories,        \* bound: memories created
    Waiters,            \* waiting processes, one run each
    TicksPerS,          \* 2000 posts make a second
    SemValueMax,        \* SEM_VALUE_MAX
    MaxPosts            \* bound: posts

ASSUME SharedAssumption ==
    /\ TextLen \in Nat \ {0} /\ ShmSizes \subseteq 0..TextLen /\ MaxMemories \in Nat
    /\ TicksPerS \in Nat \ {0} /\ SemValueMax \in Nat \ {0} /\ MaxPosts \in Nat

VARIABLES
    shmName, shms,      \* the memory that has the name, 0: none; memory ->
                        \* size, which bytes of the text are in it
    shmW, shmR,         \* writer -> pc, memory, bytes copied; reader -> pc, memory
    removed, cut,       \* writers whose name another one took away, and whose
                        \* text another one cut (history)
    saw,                \* reader -> how much text it found
    semNamed, semMade, semValue,   \* named or not; it exists; its value
    posterPc, waiters,  \* "open", "post", "exit"; waiter -> pc, usTime, sumTime:
                        \* "lost" when it was interrupted with a post in hand
    posts, before       \* posts that counted; waiter -> posts and value when
                        \* it opened the semaphore (history)

shmVars == <<shmName, shms, shmW, shmR, removed, cut, saw>>
semVars == <<semNamed, semMade, semValue, posterPc, waiters, posts, before>>

ShmInit ==
    /\ shmName = 0 /\ shms = <<>>
    /\ shmW = [w \in ShmWriters |-> [pc |-> "open", shm |-> 0, copied |-> 0]]
    /\ shmR = [r \in ShmReaders |-> [pc |-> "open", shm |-> 0]]
    /\ removed = {} /\ cut = {} /\ saw = [r \in ShmReaders |-> 0]

SemInit ==
    /\ semNamed \in BOOLEAN /\ semMade = ~semNamed /\ semValue = 0
    /\ posterPc = (IF semNamed THEN "open" ELSE "post")
    /\ waiters = [w \in Waiters |-> [pc |-> IF semNamed THEN "open" ELSE "wait",
                                     usTime |-> 0, sumTime |-> 0]]
    /\ posts = 0 /\ before = [w \in Waiters |-> [posts |-> 0, value |-> 0]]

-----------------------------------------------------------------------------
(* ShmOpen(): shm_open(O_CREAT) and, a step later, ftruncate().            *)
WriterOpen(w) ==
    /\ shmW[w].pc = "open"
    /\ IF shmName = 0 THEN /\ Len(shms) < MaxMemories
                           /\ shms' = Append(shms, [size |-> 0, bytes |-> {}])
                           /\ shmName' = Len(shms')
                      ELSE UNCHANGED <<shms, shmName>>
    /\ shmW' = [shmW EXCEPT ![w] = [pc |-> "size", shm |-> shmName', copied |-> 0]]
    /\ UNCHANGED <<shmR, removed, cut, saw>>

(* Those who have copied into the memory of w, or have begun to.           *)
Copying(w) == {v \in ShmWriters : shmW[v].pc \in {"copy", "sleep"} /\ shmW[v].shm = shmW[w].shm}

(* ftruncate(): as much as the size of this call leaves room for stays,    *)
(* unless the memory grows.  ShareMemoryTest_Open() ends here,             *)
(* ShareMemoryTest_Write() goes on - to mmap(), which fails for size 0,    *)
(* and the copy, which ends the program then.                              *)
WriterTruncate(w) ==
    /\ shmW[w].pc = "size"
    /\ \E size \in ShmSizes :
          /\ shms' = [shms EXCEPT ![shmW[w].shm] =
                [size  |-> size,
                 bytes |-> IF size > @.size THEN @.bytes ELSE @.bytes \cap (1..size)]]
          /\ cut' = IF size < TextLen THEN cut \cup Copying(w) ELSE cut
          /\ \E pc \in {IF size = 0 THEN "crashed" ELSE "copy", "end"} :
                shmW' = [shmW EXCEPT ![w].pc = pc]
    /\ UNCHANGED <<shmName, shmR, removed, saw>>

(* strcpy(), byte after byte, whatever happens to the memory meanwhile.    *)
WriterCopy(w) ==
    /\ shmW[w].pc = "copy"
    /\ LET shm == shmW[w].shm  copied == shmW[w].copied + 1
       IN IF shms[shm].size = 0
          THEN shmW' = [shmW EXCEPT ![w].pc = "crashed"] /\ UNCHANGED shms
          ELSE /\ shmW' = [shmW EXCEPT ![w].copied = copied,
                                       ![w].pc = IF copied = TextLen THEN "sleep" ELSE "copy"]
               /\ shms' = [shms EXCEPT ![shm].bytes = @ \cup {copied}]
    /\ UNCHANGED <<shmName, shmR, removed, cut, saw>>

(* After sleep(10) the name is removed, whoever's memory it means by then. *)
WriterUnlink(w) ==
    /\ shmW[w].pc = "sleep" /\ shmW' = [shmW EXCEPT ![w].pc = "end"]
    /\ removed' = removed \cup {v \in ShmWriters \ {w} : shmName # 0 /\ shmW[v].shm = shmName}
    /\ shmName' = 0
    /\ UNCHANGED <<shms, shmR, cut, saw>>

ReaderCreates(r) ==  \* mutant: ShmOpen() of a reader passes O_CREAT on
    /\ shmR[r].pc = "open" /\ shmName = 0 /\ Len(shms) < MaxMemories
    /\ shms' = Append(shms, [size |-> TextLen, bytes |-> {}]) /\ shmName' = Len(shms')
    /\ shmR' = [shmR EXCEPT ![r] = [pc |-> "print", shm |-> shmName']]
    /\ UNCHANGED <<shmW, removed, cut, saw>>

ReaderOpen(r) ==
    /\ shmR[r].pc = "open"
    /\ shmR' = [shmR EXCEPT ![r] = [pc |-> IF shmName = 0 THEN "exit" ELSE "print",
                                    shm |-> shmName]]
    /\ UNCHANGED <<shmName, shms, shmW, removed, cut, saw>>

(* The text up to the first byte that is not there.                        *)
TextIn(bytes) == CHOOSE n \in 0..TextLen : 1..n \subseteq bytes /\ n + 1 \notin bytes

(* printf() of the mapped memory, by a reader that maps a byte or more.    *)
ReaderPrint(r) ==
    /\ shmR[r].pc = "print"
    /\ LET shm == shms[shmR[r].shm]
       IN /\ shmR' = [shmR EXCEPT ![r].pc = IF shm.size = 0 THEN "crashed" ELSE "printed"]
          /\ saw' = [saw EXCEPT ![r] = TextIn(shm.bytes)]
    /\ UNCHANGED <<shmName, shms, shmW, removed, cut>>

ShmNext ==
    \/ \E w \in ShmWriters : WriterOpen(w) \/ WriterTruncate(w) \/ WriterCopy(w) \/ WriterUnlink(w)
    \/ \E r \in ShmReaders : ReaderOpen(r) \/ ReaderPrint(r)

-----------------------------------------------------------------------------
(* sem_open(O_CREAT, 0) of a waiter leaves the value of one that exists;   *)
(* sem_open(O_EXCL) of the poster opens one that exists, and only that.    *)
WaiterOpen(w) ==
    /\ waiters[w].pc = "open"
    /\ semMade' = TRUE
    /\ waiters' = [waiters EXCEPT ![w].pc = "wait"]
    /\ before' = [before EXCEPT ![w] = [posts |-> posts, value |-> semValue]]
    /\ UNCHANGED <<semNamed, semValue, posterPc, posts>>

PosterOpen ==
    /\ posterPc = "open" /\ posterPc' = IF semMade THEN "post" ELSE "exit"
    /\ UNCHANGED <<semNamed, semMade, semValue, waiters, posts, before>>

(* sem_post() fails at SEM_VALUE_MAX, which is printed and passed over.    *)
SemPost ==
    /\ posterPc = "post" /\ posts < MaxPosts
    /\ semValue < SemValueMax
    /\ semValue' = semValue + 1 /\ posts' = posts + 1
    /\ UNCHANGED <<semNamed, semMade, posterPc, waiters, before>>

TickKept(old) ==  \* mutant: usTime is not set to 0
    IF old.usTime + 1 >= TicksPerS
    THEN [old EXCEPT !.pc = "wait", !.usTime = @ + 1, !.sumTime = @ + 1]
    ELSE [old EXCEPT !.pc = "wait", !.usTime = @ + 1]

Tick(old) ==
    IF old.usTime + 1 >= TicksPerS
    THEN [old EXCEPT !.pc = "wait", !.usTime = 0, !.sumTime = @ + 1]
    ELSE [old EXCEPT !.pc = "wait", !.usTime = @ + 1]

SemWait(w) ==
    /\ waiters[w].pc = "wait" /\ semValue > 0
    /\ semValue' = semValue - 1
    /\ waiters' = [waiters EXCEPT ![w].pc = "tick"]
    /\ UNCHANGED <<semNamed, semMade, posterPc, posts, before>>

(* Its counters are its own.                                               *)
WaiterTick(w) ==
    /\ waiters[w].pc = "tick"
    /\ waiters' = [waiters EXCEPT ![w] = Tick(@)]
    /\ UNCHANGED <<semNamed, semMade, semValue, posterPc, posts, before>>

(* Any of them is interrupted, and the poster started again: the semaphore *)
(* keeps its value.                                                        *)
SemKill ==
    /\ semNamed
    /\ \/ posterPc \in {"post", "exit"} /\ posterPc' = "open" /\ UNCHANGED waiters
       \/ \E w \in Waiters :
            /\ \/ waiters[w].pc = "wait" /\ waiters' = [waiters EXCEPT ![w].pc = "exit"]
               \/ waiters[w].pc = "tick" /\ waiters' = [waiters EXCEPT ![w].pc = "lost"]
            /\ UNCHANGED posterPc
    /\ UNCHANGED <<semNamed, semMade, semValue, posts, before>>

SemNext ==
    \/ PosterOpen \/ SemPost \/ SemKill
    \/ \E w \in Waiters : WaiterOpen(w) \/ SemWait(w) \/ WaiterTick(w)

-----------------------------------------------------------------------------
ShmTypeOK ==
    /\ shmName \in 0..Len(shms) /\ removed \subseteq ShmWriters /\ cut \subseteq ShmWriters
    /\ shms \in Seq([size : 0..TextLen, bytes : SUBSET (1..TextLen)])
    /\ shmW \in [ShmWriters -> [pc : {"open", "size", "copy", "sleep", "end", "crashed"},
                               shm : 0..Len(shms), copied : 0..TextLen]]
    /\ shmR \in [ShmReaders -> [pc : {"open", "print", "printed", "crashed", "exit"},
                               shm : 0..Len(shms)]]
    /\ saw \in [ShmReaders -> 0..TextLen]

SemTypeOK ==
    /\ semNamed \in BOOLEAN /\ semMade \in BOOLEAN
    /\ semValue \in 0..SemValueMax /\ posts \in 0..MaxPosts
    /\ posterPc \in {"open", "post", "exit"}
    /\ waiters \in [Waiters -> [pc : {"open", "wait", "tick", "exit", "lost"},
                               usTime : 0..(TicksPerS - 1), sumTime : Nat]]
    /\ before \in [Waiters -> [posts : 0..MaxPosts, value : 0..SemValueMax]]

(* While a writer sleeps for its readers its memory has the name and the   *)
(* whole text, so that a reader that opens it now prints it all - unless   *)
(* another one of the same name took the name away (line 79), or cut the   *)
(* text by an ftruncate() to fewer bytes since the copy began (line 139).  *)
(* What a reader maps is a memory some writer opened, and it crashes only  *)
(* over one that has none of the text: before the first ftruncate(), or    *)
(* after one to 0.                                                         *)
WriterIsFound ==
    /\ \A w \in ShmWriters : shmW[w].pc = "sleep" =>
          /\ w \notin cut => shms[shmW[w].shm].size > 0 /\ shms[shmW[w].shm].bytes = 1..TextLen
          /\ w \notin removed => shmName = shmW[w].shm
    /\ \A r \in ShmReaders : shmR[r].shm # 0 => \E w \in ShmWriters : shmW[w].shm = shmR[r].shm
    /\ \A r \in ShmReaders : shmR[r].pc = "crashed" => saw[r] = 0

(* The posts a waiter has counted, as its clock shows them, and those it   *)
(* has taken.                                                              *)
Ticks == [w \in Waiters |-> waiters[w].sumTime * TicksPerS + waiters[w].usTime]
Taken == [w \in Waiters |-> Ticks[w] + (IF waiters[w].pc \in {"tick", "lost"} THEN 1 ELSE 0)]

(* The clock of a waiter goes by the posts it took: they and the value     *)
(* make up all posts, whoever took them - among them one in the hands of   *)
(* each waiter between sem_wait() and its clock (lines 65 and 66), which   *)
(* is lost when the waiter is interrupted there.  No clock is ahead of the *)
(* posts since its waiter started by more than the value it found, and all *)
(* fall behind when others wait for the same name.                         *)
ClockFollowsPosts ==
    /\ semValue + Total(Taken) = posts
    /\ \A w \in Waiters : waiters[w].pc # "open" =>
          Taken[w] <= (posts - before[w].posts) + before[w].value
=============================================================================
