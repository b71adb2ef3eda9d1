# Verification of linux-interface-test

TLA+ models, TLC configurations and TLAPS proofs for the programs of
`linux-interface-test`.

1. [The system](#1-the-system)
2. [Components](#2-components): state, operations, interaction, correctness
3. [Modules](#3-modules) and how they correspond to the code
4. [Runs](#4-runs), their bounds and what they show
5. [Fairness](#5-fairness)
6. [Proofs](#6-proofs)
7. [What disagrees with the code's own words](#7-findings)
8. [Not modelled](#8-not-modelled) and the plan

Paths below are relative to the inner `src/` directory of the repository.

## 1. The system

The repository is a collection of about a hundred programs, each of which
exercises one part of the Linux programming interface: sockets, threads,
processes, message queues, timers, tracing and so on. They are linked into one
executable. `config.h` has a macro per program; exactly one of them is
enabled, and `main()` in `main.cpp` calls that program's entry function. At
this commit it is `TCP_ECHO_SERVER_MULTI_PROCESS`, and the entry is
`TcpEchoServerMultiThread_Server`: **the threaded TCP echo server is the
program that runs**, and it is the core of this project.

There is no state shared between programs: a model of the whole is the choice
of one program and then that program. (Two instances of the executable, built
with different entries, do meet in the system: a client and a server, a sender
and a receiver of a FIFO or of a message queue.)

Not every program can be reached from `main()` as it stands:

| state at this commit | programs |
|---|---|
| no macro in `config.h`, or no call in `main()` | cas, logger, statistics, backtraceWhenReciSIGSEGV, realizeBacktraceByself, killOthers, memoryIncreaseSpeed, msgQueueUnlink, forkMem, waitThreadExit, ptraceAttach, ptraceTest, semaphoreTest, sizeofToAsm, arpSendAndRecv, tickTest, tmpTest, ttyio |
| a macro but no call | backtraceTest, curses, icmpTest, tcpEchoServerSelect, udpMuliSendOneRecv, udpSendTest, pthreadKey, socket/selectTest, spinlock |
| the call names another function | regTime, timerTest |
| a statement that does not compile | udpPackageTcp, tcpEchoServerSelect (135), spinlock, msgQueueTest (165), semaphoreTest (32), ping (379), icmpTest, rawSocketUdpSendTest, fileTest |
| ends before its main loop | udpOrderSendRecv (`InitInetSocket` exits unconditionally, 563) |

A program that only lacks its macro or call is modelled as it would run with
them. One that does not compile is modelled, where the intention is plain, with
the statement repaired in the smallest way; the repairs are:

| statement | taken for |
|---|---|
| `ping.cpp`, `icmpTest.cpp`: `ShowResult()`, arguments of `SendIcmpPacket()` | not called; the arguments it declares |
| `tcpEchoServerSelect.cpp:135`: a bracket too many | without it |
| `udpPackageTcp.cpp`: `struct tcphdr` without a semicolon, functions declared as `UdpTest_...` and called as `UdpPackageTcp_...` | with it; one name |
| `rawSocketUdpSendTest.cpp`: `PrepareSendBuf()`, `isDoUdpCheckSum` | a call whose failure ends the program; a local variable nothing reads |
| `msgQueueTest.cpp:165`: missing arguments | the queue and whether it blocks |
| `semaphoreTest.cpp:32` | `sem_open()` |
| `udpOrderSendRecv.cpp:563`: an `exit()` after a debugging print | the variable `leftover`, which never changes, says whether it is compiled in; both are checked |

## 2. Components

The components that have a state worth the name, with what makes each correct.
`PROJECT.json` lists all components, these and the others, with their sources.

### TCP echo server, one thread per connection (`tcp/tcpEchoServerMultiProcess.cpp`)

- *State*: the descriptor table; the local variable `clientFd` of the main
  thread, whose **address** every thread gets; per thread its program counter
  and `sockFd`.
- *Operations*: `InitInetSocket`, `listen`, `accept`, `pthread_create`; per
  thread reading the argument, `recv`, `send("666")`, `close`; every error of
  the main thread and of `recv` ends the process with `exit(-1)`.
- *Interaction*: threads and main share `clientFd` and the descriptor table;
  clients act through the sockets.
- *Hard*: a thread reads `clientFd` when it is scheduled, maybe after the next
  `accept`; two threads may then have one descriptor, close it twice, and the
  number may in between belong to a newer connection; the connection nobody
  read stays open; the -1 of a failed `accept()` is stored where the threads
  read before it is looked at (143, 144).
- *Correct when*: the damage is bounded. No thread ever works on a connection
  older than its own; EBADF needs two threads with one descriptor, or a thread
  that reads the -1 of a failed `accept()` just before the process exits; the
  latest connection is served if no other follows.

### TCP echo server, one process per connection (same file)

- *State*: per process a descriptor table; children running, stopped, zombie;
  pending `SIGCHLD` of the parent.
- *Operations*: accept, fork, close in parent and child, `ServerRecv`,
  exit; `sigHandler_SIGCHLD` calls one `wait()`.
- *Hard*: several children end while one signal is pending, signals merge; a
  blocking `wait()` inside a handler that interrupts the accept loop; `fork()`
  = -1 is treated as the parent's branch; a stopped child also raises
  `SIGCHLD`.
- *Correct when*: each connection is handled for itself, as in `EchoService`;
  the handler never blocks; every connection is accepted and in the end closed.

### TCP chat server (`tcp/tcpChatMultiProcess.cpp`)

- *State*: a shared anonymous mapping with descriptor **numbers**; a
  descriptor table per process; a chain of processes, the last of which
  accepts.
- *Operations*: accept, fork (the child goes on accepting), receive, broadcast
  to all numbers in the array.
- *Hard*: the numbers are shared, the descriptors are not: a process inherits
  those of earlier clients and never gets those of later ones.
- *Correct when*: a number never means the wrong client; the broadcast reaches
  a well-defined set; somebody goes on accepting.

### File transmitter (`tcp/tcpFileTransmitter.cpp`)

- *State*: the byte stream, the receiver's `len`, `rc`, `recvBuf`, the file and
  its offset.
- *Operations*: the sender writes name length, name, then size and bytes of
  each block and a size of 0 (or -1); the receiver takes these apart with
  `MSG_WAITALL` and writes.
- *Hard*: the stream may end anywhere; the receiver writes `len` bytes however
  many arrived; results of the first two `recv()` and of `open()`/`write()`
  are not used; the file may exist and is not truncated; no `recv()` has a
  timeout and no keepalive is set, so a sender that is stopped or vanishes
  without a word keeps the receiver for ever.
- *Correct when*: the two sides agree where in the stream they are; what is in
  the file is a prefix of the source; only a complete transfer ends as one; the
  receiver ends once the end of the connection is sure to reach it.

### Statistics over two counters (`statistics/statisticsTest.cpp`)

- *State*: two counters, index and pointer of the current one, a total.
- *Operations*: a thread increments through the pointer it has read earlier;
  another clears, swaps, sleeps, adds and prints, without any lock.
- *Correct when*: nothing is lost, given that an increment is shorter than the
  sleep between swap and addition.

### Logger (`logger/`)

- *State*: the position in the log file and what it holds.
- *Operations*: `isNeedRoll()` (ftell, compare, rewind) and `fprintf()`, each
  atomic, the pair not.
- *Correct when*: the file stays bounded; recent records are not destroyed.

### CAS, mutex and message queue timing (`cas/`, `sync/mutexTest.cpp`, `msgQueue/msgQueueSchedTime.cpp`)

- *State*: two counters and a register per thread; a recursive mutex, group
  counters and error counts; a bounded queue and `gBeginTime`, two words.
- *Hard*: lost updates; a `Lock()` whose failure is counted but not returned;
  error counts that are cleared while they are counted up; a time stamp
  overwritten and torn while the receiver reads it, or read before there is one;
  `mq_send()` and `mq_receive()` that fail and are measured all the same.
- *Correct when*: losses have the bounds they can have; the mutex excludes
  unless it failed; an error never goes unnoticed; each word of the stamp is
  near the message it is taken for, and the two are near each other.

### FIFO and datagram senders (`pipe/fifoTest.cpp`, `udp/udpMuliSendOneRecv.cpp`)

- *State*: who owns the FIFO's name, who has it open, messages in it; the
  shared descriptor `gSockFd` and what its number stands for.
- *Hard*: SIGINT at any point of open/read/write, the handler closes and
  unlinks and returns; a process unlinks another's FIFO; several threads close
  one descriptor number whose second life may be the receiver's socket.
- *Correct when*: no ended receiver leaves its name; a receiver ends after
  SIGINT; no sender closes the receiver's socket; one failure stops all.

### Ordered and numbered datagrams (`udp/udpOrderSendRecv.cpp`, `udp/udpPackageTcp.cpp`, `udp/udpSend.cpp`)

- *State*: per transmitter an index and a number; at the receiver the expected
  number and the counts per index, two alternating counters and a total, the
  file of errors; in the other program a number of **one byte**.
- *Hard*: the network loses, repeats and swaps; a datagram may be shorter than
  its header, which is then read from the previous one: a single byte mixes two
  indexes; counts are added one by one without a lock; SIGINT runs in either
  thread and closes the file of errors.
- *Correct when*: for an index whose packets had whole headers "no error" means
  that what came was in order, up to what the width of the number hides; totals
  and counters make up what came, but for the packet and the error that are just
  being counted; the file is not used after it was closed, unless the signal
  found the counting thread.

### Ping (`icmp/ping.cpp`, `icmp/icmpTest.cpp`), packet dump and raw sender, ARP (`socketRaw/`)

- *State*: `gResFlag` between two threads; `gPackParseResult`, one for all
  packets; identification and checksum of a header; queue of an ARP socket.
- *Hard*: a raw socket gets every packet of the host; the length that came is
  not given to the parser, which takes every IP header for one without options:
  what a packet does not contain is left from an earlier one; carries of a
  checksum; replies to an earlier turn of a loop; a flag tested in one step and
  "overtime" printed in a later one.
- *Correct when*: no request is given up whose answer was shown before the last
  look at the flag; the verdict on a header is the one of RFC 1071 on the twenty
  bytes it was made of, and the line of a whole frame without options is about
  that frame; every checksum verifies; an entry was claimed by a host for the
  address asked for; ping ends, and the lookup too unless packets come for ever.

### TCP select server, record server (`tcp/tcpEchoServerSelect.cpp`, `tcp/tcpTest.cpp`)

- *State*: `saveClientFdSet`, the sets of `select()`; for records: the stream,
  the port all clients bind.
- *Hard*: zeros in `saveClientFdSet` are the standard input; the listening
  socket's bit is still set when clients are scanned; reads of another length
  than the records; a server that never closes.
  A connection that finds all `FD_SETSIZE` descriptors open overruns both arrays.
- *Correct when*: nobody accepted is left out of `select()`; besides a failed
  `accept()` (112-117) the server ends for two known reasons only, and overruns
  its arrays for no other; all reads but the last are whole and "disconnect" is
  the truth.

### Fathers, children and tracers (`process/`, `ptrace/`)

- *State*: the child (running, stopped, zombie), the report a `wait()` finds,
  the father's place and `insyscall`.
- *Hard*: stops that are no system call, a `fork()` whose failure is not noticed
  (`childPid < -1`), attach and detach without a wait between them, a child that
  ends while the father believes it stopped.
- *Correct when*: what is said of the child is true, a child let go runs, and a
  father whose child ends does so too.

### Message queues (`msgQueue/`)

- *State*: the name and the queue it means, what is in it, receivers' totals;
  `gSendBuf` shared by threads; `O_NONBLOCK` changed under a receiver.
- *Hard*: a queue outlives the run that made it, with its messages, and loses
  them with its name and its last user.
- *Correct when*: each message is received once and in order, or is lost with a
  queue nobody can reach any more; totals printed by a handler lag by one
  message; a buffer that is not ready is sent only when threads overlap.

### Shared memory, semaphores, a locked file (`shareMemory/`, `semaphore/`, `file/`)

- *State*: objects that outlive their processes: a memory with name and size, a
  semaphore's value, a file with a lock.
- *Hard*: every writer of a memory passes its own size to `ftruncate()`, which
  cuts what another has written; a waiter may be interrupted between
  `sem_wait()` and its clock.
- *Correct when*: a memory has its name and text while its writer waits, unless
  another one took the name or cut the text; posts are split, not made; the file
  is whole under its lock, and copied whole if nobody writes it.

### Left out

Programs that make a few library calls and print the result (environment,
options, host names, backtraces, stdio, curses, ...) have no state of their own
and stay unmodelled; signals, thread cancelling and timers are planned. See
section 8.

## 3. Modules

```
TcpClients                 clients and TCP as the servers see them
 |- EchoThreadServer       the enabled program        <- EchoThreadServer_proofs
 |- EchoService            what an echo server promises (abstract)
 |- EchoProcessServer      implements EchoService     <- EchoProcessServer_proofs
 |- ChatServer             a chain of processes      <- ChatServer_proofs
FileTransfer               what the transmitter promises (abstract)
FileTransmitter            implements FileTransfer    <- FileTransmitter_proofs
StatisticsDouble                                      <- ThreadPrograms_proofs
Logger  CasCounter  MutexCount  MsgQueueSched
 |- ThreadPrograms         one of the four is enabled <- ThreadPrograms_proofs
FifoChannel  UdpSenders
 |- MessagePrograms        one of the two is enabled  <- MessagePrograms_proofs
TcpClients
 |- SelectServer
InternetChecksum           checksums, and the reference they are checked against
 |- PingExchange  RawPackets
OrderedDatagrams  NumberedDatagrams  ArpExchange  TcpRecords
 |- NetworkPrograms        one of the eight programs of these modules is enabled
                                                      <- NetworkPrograms_proofs
Totals                     sums as sizes of sets, for the modules that keep totals
ChildProcess               a child and its kernel
 |- FatherPrograms         17 functions that follow one
MessageQueues  MessageThreads  SharedObjects  LockedFile
 |- ProcessPrograms        one group of programs runs  <- ProcessPrograms_proofs
```

A definition with the comment *mutant* is a plausible bug; each
stands before the action it would replace and is used only to show that a
property notices it. `PROJECT.json` maps every other definition to its lines.

**TcpClients.** Connections are numbered in the order of `accept()`. Per
connection: messages sent and not yet received, and what the server's socket
knows of its peer (`open`, `closed` = FIN, `reset`). A receive takes one or
more queued messages (`Take`), or finds the end (`AtEnd`) or an error
(`AtFail`) once the queue is empty. Message text is not modelled.

**EchoThreadServer.** One action per system call of main and of a worker.
`clientFd` is the code's variable, `owner[f]` the descriptor table. `Accept`
may return any free descriptor: the kernel chooses the lowest that is free when
the call *begins*, and threads may close lower ones while it waits. `recv()`
resolves the descriptor once (`EnterRecv`) and then works on that connection
even if the descriptor is closed; `send()` and `close()` resolve it again. A
failing `accept()`, for whatever reason, is two steps: `AcceptFail` stores the
-1 in `clientFd`, where a thread may read it, and `AcceptExit` finds it. A
worker that gets 0 from `recv` does not close. `pthread_create`'s result is
ignored (`CreateThreadFail`). `exit()` from any thread stops everything.

**EchoProcessServer.** `held[p]` is the descriptor table of process `p`.
`Deliver` runs the handler, in which the parent's loop does not move;
`pending` is one bit, so signals merge. `ForkFail` falls into the parent's
branch and sheds the connection. `Phase` is the refinement mapping to
`EchoService`: a connection is `closed` when no process has it.

**ChatServer.** Process `p` serves client `p`, `slot` is the shared array,
`fdt[p]` the table of process `p`; `Fork` copies it. `Send` resolves a number in
the sender's own table: EBADF if it is not there, and the process exits.

**FileTransmitter.** A size is one unit of the stream, a byte of the file is
its position. `SenderDies` and `ConnectionBreaks` cut the stream anywhere,
also within a name or block. The receiver gets to know of it
or not: without a timeout it then waits for ever. `Create` may fail without
consequence, or open another file when the name was cut. `Write` writes `len` bytes, part of them
left from earlier blocks, possibly only some. `good` and `verdict` are the
refinement mapping to `FileTransfer`.

**StatisticsDouble.** Discrete time. The counting thread completes an
increment at most `Hold + Delay` ticks after it has read the pointer; the
statistics thread sleeps `Conflict` ticks. `++` is a load and a store; each
step of the statistics thread is its own action.

**Logger, CasCounter, MutexCount, MsgQueueSched.** Every shared access that
the code does not make atomic is a step of its own. `MutexCount` lets
`pthread_mutex_lock` fail at any time, as `Lock()` expects, and then goes on,
as `Lock()` does. `gBeginTime` is written and read in two words, and is 0 until
it is first written; `SendFail` and `ReceiveFail` are followed by the stamp and
its use like the calls that succeed.

**FifoChannel.** Any number of receivers and senders over one name. A FIFO is
called after its creator. `open()` waits for the other side (`met`); SIGINT
ends it if it still waits (no `SA_RESTART`), and otherwise finds `gFifoFd`
still 0. `perrorExit` is its levels: unlink, close, exit.

**UdpSenders.** Descriptor numbers 3 and 4 and what they stand for; closing a
socket that `recvfrom()` waits on frees the number, not the socket.

**OrderedDatagrams.** `tx` and `rx` are the locals of transmitters and
receiver, `wire` the datagrams under way: a set from which one can be taken in
any order, not at all, or (`twice`) repeatedly. `Header` is what the receiver
then finds in `recvBuf`: of a number or an index of which only some bytes came
the others are the old ones (`Mixed`). The receiver counts a packet and an error
in steps of their own, `CountPacket`, `CheckSno`, `CountError`, `Expect`; the
counting thread swaps the two counters (`UpdateRxDataPer`) and, after its sleep,
adds packets and errors one after the other, so that SIGINT comes between any
two. `charged` remembers what was checked under an index. `handler` says which
thread SIGINT found; `misuse` records a write to the closed file.

**NumberedDatagrams.** Despite the name of its source this is no protocol:
nothing is acknowledged or sent again. The receiver compares each number with
the last one, modulo `SnoMod` (256). The texts of `udpSend.cpp` reach the same
port, and their first letter is read as a number.

**InternetChecksum.** The two checksum functions of the code over words
`0..Word-1`, with their carries as the code folds them, and the one's complement
sum of RFC 1071 as reference (`Verifies`).

**PingExchange, RawPackets, ArpExchange.** A socket's queue holds what hosts
send, asked for or not. Ping's test of the flag (`Poll`) and its "overtime"
(`SayOvertime`) are two steps. In `RawPackets` a frame of the `Traffic` (cut
short, with options, a fragment, not UDP) overwrites as many words of `recvBuf`
as it has (`Copied`), which starts with any `Garbage`; the parse functions write
their part of the one `gPackParseResult`, or return early and leave it. `whole`
is the frame last received if nothing about it is unusual, `lastGood` the
addresses of the last right header. In `ArpExchange` a socket holds
`ArpQueueLen` packets, and packets arrive for ever; each failure of a turn, a
failing `recvfrom()` too, leads to `NextTurn`.

**SelectServer.** `saveClientFdSet` and `sockFdSet` are the code's variables,
`connOf` the descriptor table with descriptors 0 to 2 in it. Select, accept, the
scan of one descriptor, and a read are steps; `together` and `typed` remember
which of the two reasons for a failed `select()` has occurred. `AcceptEnds` is
the exit after a failed `accept()`, or the store beyond the end of the arrays,
with which the model ends.

**TcpRecords.** Both servers of `tcpTest.cpp` and any number of runs of its
client. `recv(MSG_WAITALL)` returns `recvLen` bytes or what a stream that is
over has left. `portClient` is the one port all runs bind.

**ChildProcess, FatherPrograms.** `ChildProcess` is external: what the kernel
does with a child, as the fathers use it. `FatherPrograms` writes the loops
once; `LoopOf` says for each of the 17 functions in what its loop differs (what
the child does first, what follows a failed `fork()`, whether the result of
`waitpid()` is looked at, which reports end the loop, what else is done).

**MessageQueues, MessageThreads.** A queue lives on without its name (`mqName`,
`mqs`) as long as somebody has it open (`Held`); the last close, or the unlink
if there is no other, destroys it with its messages (`Destroyed`), which `lost`
remembers. The receiver's totals are updated in two steps, between which SIGINT
may come. `gSendBuf` is the thread whose buffer it points to; the queue of
`msgQueueSAROneProcess`, which nobody unlinks, may hold a message of an earlier
run.

**SharedObjects, LockedFile.** Every call on a shared object is a step: creating
a memory, giving it a size and copying each byte into it. A memory is its size
and the bytes of the text in it; `WriterTruncate` takes any size, so that one
writer cuts the text of another. `SemWait` and the tick of the waiter's clock
are two steps. A byte of the file is its position in the text, 0 a byte of an older file; `write()` may be short.

**ThreadPrograms, MessagePrograms, NetworkPrograms, ProcessPrograms.** `program`
is the macro of `config.h`; the variables of the programs that do not run keep
their initial values.

## 4. Runs

Each run takes two minutes at most. Each explores all reachable states at
its bounds.

| run | bounds | distinct states | what it shows |
|---|---|---|---|
| `echo_threads` | 3 connections, 1 message each, 2 descriptors | 469 819 | safety and liveness of the threaded server under the race |
| `echo_processes` | 2 connections, 1 message, 1 stop of a child | 35 829 | descriptors, merged signals, refinement, liveness |
| `chat_server` | 3 connections, 1 message, 3 descriptors from 4 | 179 820 | reach of a broadcast, one acceptor |
| `chat_broadcast` | 2 connections | until found | *violated*: see section 7 |
| `statistics` | Hold 1, Delay 2, Conflict 4, 6 increments | 9 696 | nothing is lost without a lock |
| `file_transmitter` | 4 bytes, blocks of at most 2, name of 2, old file of 0 or 5 | 91 660 | framing, contents, refinement |
| `thread_programs` | 3 threads per program | 681 770 | bounds of logger, counters, mutex, queue |
| `logger_roll` | 2 threads, 3 records in the file | until found | *violated*: see section 7 |
| `message_programs` | 2 receivers, 2 senders, 2 SIGINTs; 3 sending threads | 95 148 | FIFO ownership, shared socket, stopping |
| `network` | see below | 636 447 | what numbers, checksums, flags and `select()` can be relied on for |
| `dump_filter` | the bounds of `network` | until found | *violated*: see section 7 |
| `processes` | see below | 341 918 | children and their reports, objects that outlive processes |

`CHECK_DEADLOCK FALSE` is set where a program really stops (it exits, or every
party is done); only `statistics` never stops.

A property of a run is a conjunction of named parts where several guard the same
thing; the parts are named below in brackets.

**echo_threads.** Three connections are the smallest number where one thread
skips a connection while another thread closes the reused descriptor; two
descriptors make reuse and EMFILE happen in the same run.

- `RaceOnlyToLater` [`NeverAnOlderConnection`, `AnsweredByNoLaterThread`,
  `BadDescriptorOnlyByRace`]: the race only ever moves a thread to a *later*
  connection, and the server dies of EBADF only if two threads hold one
  descriptor and one has closed it, or if a thread has read the -1 of an
  `accept()` that failed, after which main ends the process anyhow.
- `OrphansStay`: a connection that nobody's variable names is lost until exit.
- `LatestIsServed`: if connection `c` stays the last one and its thread was
  created, a message on it is taken, or answered to, or the process ends.

**echo_processes.** Two children suffice for a merged signal. One stop of a
child is enough for the handler to wait in vain, which is why the handler and
the liveness properties say *unless a child was stopped*: `kill -STOP` on a
child blocks the accept loop.

- `OwnConnectionOwnZombie` [`OwnConnectionOnly`, `HandlerFindsZombie`]: no
  process has another client's descriptor; each handler run finds a child that
  ended.
- `ImplementsService`: every step is a step of `EchoService`.
- `EveryoneInAndOut` [`AcceptsEveryone`, `ReleasesEveryone`]: liveness.

**chat_server.** With three clients there is a process with both an earlier
and a later client. `ArrayMeansClients` [`SlotMeansSameClient`,
`ReachesEarlierClients`, `HeldByLaterOnes`]: a number is never another client's,
and a broadcast that is over reached exactly clients 1..p. `OneAcceptor`.

**statistics.** Conflict is one tick more than the longest increment, the
tightest admissible value; six increments cross several swaps.
`LostNoneShownAll` [`NothingLost`, `ShownIsAdded`]: total and pending make up
all increments, the two reads of a round agree. `CountReachesTotal`.

**file_transmitter.** Four bytes in blocks of one or two give short and full
blocks, at least two of them; the old file is absent or longer than the new
one. `FileStartsAsSent` [`Framing`, `PrefixWritten`, `DamagedEndOnly`,
`OtherFileUntouched`]: bytes never received are written only as the end of the
last block of a cut connection. `ReceiverEnds`: the receiver ends if the end of
the connection is sure to reach it, wherever in the stream that is; a sender
that is stopped, or a break nobody hears of, keeps it waiting.
`ImplementsTransfer`.

**thread_programs.** Three threads, the fewest where two stale writers
interfere with a third. Two rounds, two lock errors, a queue of two and six
messages let every counter wrap around its object at least once.

- `WithinBounds` [`LogBounded`, `NoSyncNeverAhead`]: the file exceeds its size
  by less than a record per thread; the unsynchronised counter never passes the
  other.
- `DoneCounts`: at the end it can have lost all but **two** additions.
- `MutexHolds` [`MutexProtects`, `ErrorNotForgotten`]: exclusion fails only
  through a failed `Lock()`; without one the counts are exact; a thread that had
  an error always shows one.
- `StampNear`: each word of the stamp a message is measured against was taken
  between one message earlier and a full queue later, whatever calls fail; it is
  0 at most until the first message of this run has been received. The two words
  may be of different stamps, at most one back and a full queue and one ahead:
  the time shown is then off by the whole seconds between them.

**message_programs.** Two receivers compete for the name, two senders for the
FIFO; the second SIGINT can meet a process that is already ending. Three
sending threads allow a second close of the number after it was given away.

- `NamesAndSocketsKept` [`FifoNameOwned`, `RecvSocketSafe`]: no receiver that
  has ended leaves a name behind; without SIGINT and without a sender that came
  too early, a receiver keeps its name; a receiver that had its socket before
  the first failure keeps it.
- `EverybodyStops` [`EndsAfterSigint`, `AllSendersStop`]: liveness.

**network.** Two transmitters with an index each, over a table that holds one
of the two indexes (`MAX_SEND_THREAD_NUM = 1`), two datagrams in all, whole or
of one byte, one of them repeated; five numbered datagrams over a number of
three values, so that a whole turn can be lost; three pings with one foreign
packet; words of four bits, so that two or three of them reach the carry of a
carry; frames between two hosts with right and wrong headers, with and without
options, whole or cut in the middle of the IP header, over a buffer that starts
with anything; three turns of ARP before a socket that holds two packets; three
clients of the select server with reused descriptors, of which the third finds
all six open; two runs of records of two bytes against reads of 0, 1 and 3.

- `NumbersTellLoss` [`CleanMeansInOrder`, `CountFitsNumber`]: an index under
  which only packets with whole headers were checked has no error if and only if
  they came in order (a single byte may charge its error to another index); with
  the one-byte number, "no error" means agreement up to whole turns only.
- `TotalsAgree`: totals and counters make up what came, at every step at which
  SIGINT can come, but for the packet and the error that are being counted; the
  handler may find packets added and their errors not yet.
- `LinesTellTruth`: a line says `ipSum[1]` if and only if the twenty bytes parsed
  as a header sum up right, its addresses are those of the last such bytes, and
  the line of a frame that is whole and ordinary is about that frame only. Other
  frames may be shown with fields of earlier ones.
- `ChecksumsVerify` [`RequestsVerify`, `BuiltVerifies`]: every checksum made is
  one the reference accepts, over all numbers and their wrap.
- `ServersHold` [`EndsByTwoThings`, `AcceptedIsWatched`, `RecordsWhole`,
  `LastOneSends`]: besides a failed `accept()` the select server ends after a
  typed line or a client ready together with a new connection, and its arrays
  are overrun only with all `FD_SETSIZE` descriptors open; nobody accepted is
  left out; records are read whole and one client sends at a time.
- `ArpAnswered`: success, entry and a host's claim go together.
- `HandsOffAreOrdered` [`MisuseNeedsCountThread`, `OvertimeIsSilence`]: the file
  of errors is written after its end only if the signal found the counting
  thread; a request is given up only if its answer had not been shown when the
  flag was looked at. The answer may still come before "overtime" is printed.
- `LookupsEnd`: ping ends, and so does the ARP lookup, unless packets reach its
  socket for ever: a packet that is no answer costs no turn of line 224.

**processes.** Four stops and two signals take a tracer through entry and exit
of two calls with a signal between them; texts of 0 to 3 bytes over a word of
two; two queues under one name, a second receiver; two writers, which give a
memory no byte, one byte or room for the text of three, and two readers; more
posts than the semaphore's value may hold; two processes that lock, one that copies with a buffer that ends inside a record.

- `ChildrenAreKnown` [`ReportsAreTrue`, `DetachedRuns`]: with the exceptions the
  code really has, which the property names one by one.
- `MessagesAccounted` [`TotalsLagByOne`, `EachOnceInOrder`, `LostWithQueue`,
  `JunkNeedsOverlap`]: a message is lost only with a queue that has neither name
  nor user, and no receiver got a later one of that sender; this run's threads
  send a buffer that is not ready only if they overlap.
- `SharedHold` [`WriterIsFound`, `ClockFollowsPosts`, `LockedIsWhole`,
  `CopyIsWhole`]: a sleeping writer's memory has its text unless another one cut
  it, and its name unless another one took it; a post that no clock shows is in a
  waiter's hand, for ever if the waiter was interrupted there.
- `WaitsEnd` [`EndsWithChild`, `AttrDelivers`, `LockIsPassedOn`]: liveness.

Unbounded things in the code and their bounds here: connections (`MaxConn`),
messages (`MaxMsg`, `MaxSent`), stops (`MaxStop`), signals (`MaxSigints`),
increments (`MaxCount`), rounds and lock failures (`MaxRounds`,
`MaxLockErrors`), contents of a FIFO and a socket (`FifoCapacity`,
`UdpQueueLen`), datagrams and repetitions (`MaxNumbered`, `MaxTwice`), turns of
a polling loop (`MaxPolls`), packets nobody asked for (`MaxForeign`),
packets an ARP socket holds (`ArpQueueLen`), open connections of the record
server (`MaxOpenFds`), stops
and signals of a child (`MaxStops`, `MaxSignals`), length of its text
(`MaxText`), queues and memories of one name (`MaxQueues`, `MaxMemories`), posts
(`MaxPosts`). Chosen from more: lengths of datagrams (`SendSizes`), where a frame
is cut and what its options are (`Cuts`, `OptionWords`), sizes of a memory
(`ShmSizes`). Widths that the code fixes and the model shrinks: `SnoMod` (256),
`Word` (65 536), `FD_SETSIZE` (1024), `LongSize`, `TextLen`, `SemValueMax`, and
the loop counts `PACKET_NUM`, `PING_NUM`, `RAW_NUM`, `Records`, `CNT`. The safety properties in section 6 are proved without giving
any of them a value.

## 5. Fairness

Only the scheduler is assumed to be fair: a thread or process of the program
that can take a step takes one in the end (`WF` of each thread's own steps).
Nothing is assumed of clients, of the network, of failures or of signals: they
may stop at any time, and no failure has to occur.

- `EchoThreadServer`: main without `AcceptFail` (a failure must not be forced),
  and each worker.
- `EchoProcessServer`: the parent's loop without `AcceptFail` (a failure must
  not be forced), the handler, each child. A stopped child has no obligation.
- `StatisticsDouble`: both threads, and time passes.
- `FileTransmitter`: the receiver; what is sent arrives unless the connection
  breaks, which TCP promises. The sender may stop, and a break need not be told.
- `MessagePrograms`: each process of the FIFO program, the creation of senders
  and each sending thread. SIGINT is not forced.
- `NetworkPrograms`: the sending thread of ping, its "overtime" included, and the
  program that looks up an address. Network, hosts and signals owe nothing.
- `ProcessPrograms`: the father, the receiver of `msgQueueAttr`, the processes
  that want the lock. Children, signals and other programs owe nothing. One
  fairness condition covers all: only one group runs, and that *some* process
  that can go on does so is enough for the lock to be passed on.

`ChatServer` and `ThreadPrograms` have safety properties only and state no
fairness.

## 6. Proofs

The theorems hold for **every** value of the constants that satisfies the
named assumptions next to their declarations (naturals, non-empty sizes,
disjoint groups). Each is proved from an inductive invariant: the initial
states satisfy it, every step keeps it, it implies the property. Every type
invariant, every safety invariant, every action property and both refinements
that the passing runs check are proved; the paragraph "Only model-checked"
names the rest.

| module | theorems | about |
|---|---|---|
| `EchoThreadServer_proofs` | `ThreadServerType`, `RaceToLaterOnly`, `OrphansNeverClosed` | the enabled program |
| `EchoProcessServer_proofs` | `ProcessServerType`, `ProcessServerHolds`, `ProcessServerImplements` | implements `EchoService` |
| `ChatServer_proofs` | `ChatType`, `ArrayHolds`, `AcceptorIsOne` | any number of clients |
| `FileTransmitter_proofs` | `FileTransmitterType`, `FileStarts`, `TransmitterImplements` | implements `FileTransfer` |
| `ThreadPrograms_proofs` | `ThreadsType`, `BoundsKept`, `LossIsBounded`, `MutexHoldsAll`, `StampsNear`; `StatisticsType`, `StatisticsExact` | logger, counters, mutex, queue, statistics |
| `MessagePrograms_proofs` | `TypeCorrect`, `ReceiversKeepTheirs` | FIFO, shared socket |
| `NetworkPrograms_proofs` | `NetworkType`, `LossIsTold`, `TotalsHold`, `DumpTellsTruth`, `ChecksumsHold`, `ServersKeepOrder`, `ArpIsAnswered`, `HandsOffHold` | the eight network programs |
| `ProcessPrograms_proofs` | `ProcessType`, `ChildrenKnown`, `MessagesAreAccounted`, `SharedObjectsHold` | children, queues, memories, files |

**EchoThreadServer_proofs.** The properties (in parts `NoOlderConnection`,
`NoLaterAnswer`, `BadDescriptorNeedsRace`) are not inductive: that a thread does
not resolve to an older connection needs that a descriptor in `clientFd` refers
to the latest connection (`Numbering`), that what a thread has read is a descriptor, or
the -1 with which it does not get past `recv()` (`ThreadData`), and that a closed descriptor was closed by a thread
that had it (`ClosedByThread`). Then `Accept` is the interesting step: it can
give a number a new meaning, but only a newer one.

**EchoProcessServer_proofs.** `ParentLoop` says which connection the parent has
at which line, `Children` what a child has and has done at each point.
`Signals` is the argument about merging: a pending signal and one being handled
stand for two *different* children that ended, so that the one `wait()` of the
handler never takes the child the pending signal needs. The refinement maps
each step to a step of `EchoService` for one connection or to a stutter.

**ChatServer_proofs.** `Chain`: one process is the end of the chain, those
before it have forked, those after it do not exist. `Tables`: number `f` means
client `f - FirstFd + 1` or nothing in every table, and a living process has
exactly the clients up to its own. `Slots` and `Reached` then say what a
broadcast finds. `AcceptFail` and `ForkFail` stop the end of the chain for good.

**FileTransmitter_proofs.** The argument is a grammar. A *place* in the stream
is how many bytes of a block are left and how many bytes of the file are before
it; `Reads(p, unit, q)` says which unit leads from a place to which; `Stream(s,
p, q)` that a sequence of units does. Streams can be joined (`Joined`), cut
(`Divided`) and read within a block (`InBlock`), which are inductions over a
length, done with a least counterexample (`UpToBound`). The invariant says that
what is in the connection always leads from the receiver's place to the
sender's, and what each program knows at its place (`ReceiverAt`, `SenderAt`,
`WrittenAt`). Losing the end of the stream moves only the sender's place, so
that a cut anywhere is one lemma; after a short read nothing more comes
(`Drained`), which is why the damage is the end of one block. Framing, contents
and the refinement are read off. The proof needed one fact the model's
properties do not state: the offset is never behind the end of the file
(`pos <= Len(file)`), without which `write()` would leave a hole.

**ThreadPrograms_proofs.** `BoundsKept` rests on counting the threads that have
found room in the log, and on `ReadBehind`: what was read of the plain counter
can be written back without passing the other. `LossIsBounded`: a thread that
has been through its loop once has left a 1 behind for ever, and its later
additions start from there (`FirstRoundStays`), so that the last write of all
stores at least 2 (`LastWriteCounts`); a sole thread loses nothing
(`AloneLosesNone`).
`MutexHoldsAll`: `HasMutex`, `FreshWhileNoError`, and `ErrorsPositive`: a count
is cleared only after it was added. `StampsNear`: `QueueFits`, `LastStamps`, and
`SecRead` for the word that was read first; an action property. Each program is proved by itself, and `RunsLogger`, `RunsCas`,
... carry the result to the composition. `StatisticsExact` (`StatisticsConserved`,
`StatisticsShown`) holds under `Hold + Delay < Conflict`; its heart is
`HeldIsCurrent`: a counting thread that still has the counter that was swapped
out has had it since before the swap, it must be done by `Hold + Delay`, and the
addition waits for `Conflict`.

**MessagePrograms_proofs.** `NameOwned` (`NameIsServed`: the one who has the
name is still on the way to its `unlink()`) and `ReceiverKeepsSocket`
(`ReceiverApart`: a receiver in time has the other number).

**NetworkPrograms_proofs.** One inductive invariant per program, joined in
`NetworkIInv`, since a step of one program leaves the others alone.

- *Numbered datagrams*: `InStep`, without an error so far the receiver's count
  and the last number agree modulo `SnoMod`; division with remainder is proved
  first.
- *Ordered datagrams*: the totals over all indexes are sizes of sets of units
  (module `Totals`), so that one more datagram is one element more (`OneMore`);
  `InOrderSoFar`: an index that got whole headers in order expects the number of
  its next packet (`OrderedAt`); `ClosedByHandler` is what a write to a closed file needs.
- *Checksums*: `Ones(s, r)` says that `r` is the word a sum `s` is worth in one's
  complement arithmetic. It is unique (`OnesUnique`), survives a carry that is
  folded back (`OnesCarried`, `OnesFolded`), and both functions of the code and
  the RFC's sum compute it (`Sums`); a header whose checksum is the complement
  verifies (`FilledVerifies`), and the code
  finds a header right just when the reference does (`RightIsVerified`). The functions are loops given as recursive functions, whose
  meaning is proved by a least counterexample (`FromZeroUp`, `SummedLoop`).
- *Dump*: `DumpRemembers`, the addresses in `gPackParseResult` are those of the
  last right header, whatever was parsed since.
- *Select server*: `DescriptorsOpen`, `ConnectionsKept`, `SetScanned`. *Record
  server*: `ConnectedInOrder`, `ServedFirst`; *ARP*: `EntryClaimed`; *ping*:
  `AnswersRaiseFlag`.

**ProcessPrograms_proofs.** Again one invariant per program, joined in `ProcessIInv`.

- *Queues*: all messages that were sent are at a place (a queue, lost with one, or
  taken by a receiver), each at one (`Once`), in the order of sending (`Ascending`), and
  what a receiver took is before what its queue still holds (`Earlier`). Three lemmas about sequences, `PutLast`, `Moved` and `AllMoved`, carry every
  send, receive and last close; `Home` says that a queue which was destroyed
  has neither name nor user nor messages.
- *Threads with one buffer*: `OwnBuffer`, while nobody allocates under another
  thread's hands the buffer is the thread's own and as far as the thread is.
- *Memories*: `WritersAhead`, a writer at work has the memory of the name unless
  the name was taken from it, and what it has copied is there unless it was cut;
  `MemoriesHaveWriters`, `UnsizedAreEmpty`; *semaphore*:
  `ClocksBehind`, a clock and what it can still take from the semaphore are not
  ahead of the posts; *file*: `LockerHolds`, `CopierHolds`, and what a copier has
  is the beginning of the file as long as nobody wrote.
- *Fathers*: the 17 loops are 17 records, checked one by one in `LoopFacts`;
  `Reports` says what the last report of `waitpid()` means, `Turns` how many
  there were, `LetGo` and `PokedBack` what a tracer leaves. That a reversed text
  poked back is the text again is `ReverseTwice`.

**What the proofs found.** An attempt that failed showed that the model was too
generous or too narrow in these places, all corrected from the source: the
sequence number of an ICMP echo is a word while the index in the code is an
`int`, so that `SetIcmpHead` cuts it; several type invariants did not bound what their program
bounds; the lock of a file needs its `Nobody` to be no process (an assumption
of `LockedFile`).

**Only model-checked.** The liveness properties: `LatestIsServed`,
`EveryoneInAndOut`, `CountReachesTotal`, `ReceiverEnds`, `EverybodyStops`,
`LookupsEnd`, `WaitsEnd`. The proof system cannot reason about fairness. The
abstract specifications state no fairness, so the two refinements are proved
entirely; that every client comes in and out stays with TLC.

## 7. Findings

- **`tcpChatMultiProcess.cpp:252`**, "broadcast message to every client". The
  process of client `p` finds the number of a later client in the shared array,
  has no such descriptor, fails with EBADF and exits, although everybody is
  connected. Run `chat_broadcast`. `ReachesEarlierClients` says what does hold.
- **`loggerTest.cpp:9`**, which concludes that all threads may print at the
  same time because `fprintf` is thread-safe. `LOG_DBG` is a check and a
  print: two threads that find the file full both rewind it, and the second
  overwrites the record the first has just printed. Run `logger_roll`; with
  one thread the property holds. `LogBounded` says what does hold.

- **`rawSocketDump.cpp:398`**: `FilterPacket()` compares a packet's destination
  port with `pFilter->srcPort`. `InitDefaultFilter()` asks for port 50302
  (`pFilter->dstPort = 50302`, line 382), which nothing reads; packets to the
  other port are shown. Run `dump_filter`.

The models also keep behaviours that no text of the repository contradicts,
but that its users should know: lost connections and the exit by EBADF in the
enabled server, the accept loop blocked by a stopped child, a failed `fork()`
that drops a client, a receiver of files that pads a cut block with old bytes,
a mutex wrapper that goes on without the mutex, a sender that unlinks a FIFO
it did not make, a packet with a wrong checksum shown with an earlier packet's
addresses, a frame cut short shown with an earlier frame's ports, "overtime"
printed after the answer, a memory cut by another writer's size, a select server that dies of a typed line, a tracer that takes
entries for exits after one signal, a receiver whose buffer has the size of the
wrong attribute (`msgQueueRecv.cpp:70`) and receives nothing unless the queue
has at least as many places as a message has bytes, a semaphore nobody removes.

## 8. Not modelled

| left out | why |
|---|---|
| text of messages, printed output, curses UI, clock values | no property depends on them |
| read of the full 512 bytes in `fifoTest.cpp` (105), number each UDP sender prints (64) | sizes and texts are abstracted |
| what a program does with memory behind the end of its arrays (`tcpEchoServerSelect.cpp`, descriptors from 1024) | undefined; the model stops there |
| file names longer than `recvBuf` | the transmitter is modelled for names that fit |
| more than 100 chat clients | the array's size; the bound of the model is far below |
| programs that call one library function and print | no state |
| backtraces | addresses of the machine's stack |
| real durations, except where a sleep keeps two threads apart (`StatisticsDouble`) | everything else is asynchronous, which allows every order |
| registers, disassembly and stack of a traced child | printed, never used |
| UDP checksum of `rawSocketUdpSendTest.cpp`, `ServerRecv`/`ThreadRecv` of the select server, `MsgQueueTest_RecvMsg` | never called |
| `spinlock.cpp`, `tcpSelect.cpp`, `fileTest.cpp` | do not compile or define nothing |
| signals and exit handlers, cancelling, thread data, timers | planned |

Plan, in this order:

1. *Signals, cancelling, timers*: pending and blocked signals, handlers that
   share a counter, the order of exit functions, cleanup at a cancellation
   point. None of them interacts with another program.
2. *Theorems next to the violated runs*: `BroadcastReachesEveryone`,
   `RecentRecordsKept` and `ShownIsAskedFor` fail; under which additional
   conditions on clients, threads and packets they hold is stated by
   `ReachesEarlierClients`, `LogBounded` and `LinesTellTruth` only in part.

New programs of one kind join the composite module of that kind as further
values of `program`.
