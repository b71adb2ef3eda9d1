-------------------------- MODULE EchoThreadServer --------------------------
(***************************************************************************)
(* TcpEchoServerMultiThread_Server, the program config.h enables: the main *)
(* thread accepts connections and starts one thread per connection, which  *)
(* answers the first message it receives with "666" and closes.            *)
(*                                                                         *)
(* Every thread is handed the address of the SAME local variable clientFd  *)
(* and reads it when it first runs, while the main thread may already have *)
(* stored the next connection there.  The model keeps that race: worker w  *)
(* is the thread started for the w-th accepted connection, and it serves   *)
(* whatever descriptor clientFd holds when it gets to read it.             *)
(***************************************************************************)
EXTENDS TcpClients, Integers

CONSTANT FdLimit   \* descriptors the process can have for connections

ASSUME FdAssumption == FdLimit \in Nat \ {0}

Fds     == 1 .. FdLimit
Workers == Conns

VARIABLES status,   \* "run", or why the process exited
          mpc,      \* main thread: "init", "accept", "create", "fail"
          clientFd, \* the shared local variable; 0 before the first accept,
                    \* -1 after a failed one
          nacc,     \* connections accepted so far
          owner,    \* owner[f]: connection descriptor f refers to, 0 if closed
          wpc,      \* program counter of each worker
          wfd,      \* sockFd of each worker, 0 before it is read
          won,      \* connection the worker's recv() works on, 0 before
          repliers  \* repliers[c]: workers that sent an answer on c (history)

serverVars == <<status, mpc, clientFd, nacc, owner, wpc, wfd, won, repliers>>
vars == <<clientVars, serverVars>>

Exits == {"initfail", "acceptfail", "ebadf", "neterr", "sigpipe"}

TypeOK ==
    /\ ClientTypeOK
    /\ status \in {"run"} \cup Exits
    /\ mpc \in {"init", "accept", "create", "fail"}
    /\ clientFd \in {-1, 0} \cup Fds
    /\ nacc \in 0 .. MaxConn
    /\ owner \in [Fds -> {0} \cup Conns]
    /\ wpc \in [Workers -> {"none", "start", "recv", "blocked", "reply",
                            "close", "closed", "done"}]
    /\ wfd \in [Workers -> {-1, 0} \cup Fds]
    /\ won \in [Workers -> {0} \cup Conns]
    /\ repliers \in [Conns -> SUBSET Workers]

Init ==
    /\ ClientInit
    /\ status = "run"
    /\ mpc = "init"
    /\ clientFd = 0
    /\ nacc = 0
    /\ owner = [f \in Fds |-> 0]
    /\ wpc = [w \in Workers |-> "none"]
    /\ wfd = [w \in Workers |-> 0]
    /\ won = [w \in Workers |-> 0]
    /\ repliers = [c \in Conns |-> {}]

---------------------------------------------------------------------------
(* Main thread *)

\* exit(): the whole process is gone, whatever its threads were doing.
ProcessExit(why) ==
    /\ status' = why
    /\ UNCHANGED <<clientVars, mpc, clientFd, nacc, owner, wpc, wfd, won,
                   repliers>>

\* InitInetSocket() and listen(): socket, bind or listen may fail.
Setup ==
    /\ mpc = "init"
    /\ mpc' = "accept"
    /\ UNCHANGED <<clientVars, status, clientFd, nacc, owner, wpc, wfd, won,
                   repliers>>

SetupFail ==
    /\ mpc = "init"
    /\ ProcessExit("initfail")

\* Mutant: accept() does not wait for a connection.
AcceptNoWait ==
    /\ mpc = "accept"
    /\ \E f \in Fds :
          /\ owner[f] = 0
          /\ owner' = [owner EXCEPT ![f] = nacc + 1]
          /\ clientFd' = f
    /\ nacc' = nacc + 1
    /\ mpc' = "create"
    /\ UNCHANGED <<clientVars, status, wpc, wfd, won, repliers>>

\* Mutant: only the first descriptor reaches the variable the threads read.
AcceptKeepsFirst ==
    /\ mpc = "accept"
    /\ nacc < nconn
    /\ \E f \in Fds :
          /\ owner[f] = 0
          /\ owner' = [owner EXCEPT ![f] = nacc + 1]
          /\ clientFd' = IF clientFd = 0 THEN f ELSE clientFd
    /\ nacc' = nacc + 1
    /\ mpc' = "create"
    /\ UNCHANGED <<clientVars, status, wpc, wfd, won, repliers>>

\* accept() returns a descriptor, which is stored in clientFd.  The kernel
\* picks the lowest one that is free when accept() is CALLED; threads may
\* close lower ones while it waits, so any free one can be returned.
Accept ==
    /\ mpc = "accept"
    /\ nacc < nconn
    /\ \E f \in Fds :
          /\ owner[f] = 0
          /\ owner' = [owner EXCEPT ![f] = nacc + 1]
          /\ clientFd' = f
    /\ nacc' = nacc + 1
    /\ mpc' = "create"
    /\ UNCHANGED <<clientVars, status, wpc, wfd, won, repliers>>

\* Mutant: the test for -1 is forgotten.
AcceptFailUnchecked ==
    /\ mpc = "accept"
    /\ clientFd' = -1
    /\ mpc' = "create"
    /\ UNCHANGED <<clientVars, status, nacc, owner, wpc, wfd, won, repliers>>

\* accept() fails (EMFILE when all descriptors are taken, ECONNABORTED,
\* ENFILE, ENOBUFS at any time) and its -1 is stored where the threads read.
AcceptFail ==
    /\ mpc = "accept"
    /\ clientFd' = -1
    /\ mpc' = "fail"
    /\ UNCHANGED <<clientVars, status, nacc, owner, wpc, wfd, won, repliers>>

\* Only then is the -1 found, and the process exits with all its threads.
AcceptExit ==
    /\ mpc = "fail"
    /\ ProcessExit("acceptfail")

\* pthread_create(.., &clientFd); its result is not looked at, so a failure
\* leaves the connection without a thread.
CreateThread ==
    /\ mpc = "create"
    /\ mpc' = "accept"
    /\ wpc' = [wpc EXCEPT ![nacc] = "start"]
    /\ UNCHANGED <<clientVars, status, clientFd, nacc, owner, wfd, won, repliers>>

CreateThreadFail ==
    /\ mpc = "create"
    /\ mpc' = "accept"
    /\ UNCHANGED <<clientVars, status, clientFd, nacc, owner, wpc, wfd, won,
                   repliers>>

---------------------------------------------------------------------------
(* Worker threads *)

\* sockFd = *(int*)arg
ReadArg(w) ==
    /\ wpc[w] = "start"
    /\ wfd' = [wfd EXCEPT ![w] = clientFd]
    /\ wpc' = [wpc EXCEPT ![w] = "recv"]
    /\ UNCHANGED <<clientVars, status, mpc, clientFd, nacc, owner, won, repliers>>

\* The descriptors behind which there is a connection.
OpenFds == {f \in Fds : owner[f] # 0}

\* recv() looks the descriptor up; from then on it works on the connection
\* it found, even if another thread closes the descriptor.
EnterRecv(w) ==
    /\ wpc[w] = "recv"
    /\ wfd[w] \in OpenFds
    /\ won' = [won EXCEPT ![w] = owner[wfd[w]]]
    /\ wpc' = [wpc EXCEPT ![w] = "blocked"]
    /\ UNCHANGED <<clientVars, status, mpc, clientFd, nacc, owner, wfd, repliers>>

\* The descriptor is closed, or the -1 of a failed accept(): recv() fails with
\* EBADF, "net error", exit(-1).
RecvBadFd(w) ==
    /\ wpc[w] = "recv"
    /\ wfd[w] \notin OpenFds
    /\ ProcessExit("ebadf")

RecvData(w) ==
    /\ wpc[w] = "blocked"
    /\ \E n \in 1 .. MaxMsg : Take(won[w], n)
    /\ wpc' = [wpc EXCEPT ![w] = "reply"]
    /\ UNCHANGED <<status, mpc, clientFd, nacc, owner, wfd, won, repliers>>

\* recv() returns 0: the thread ends and leaves the descriptor open.
RecvEnd(w) ==
    /\ wpc[w] = "blocked"
    /\ AtEnd(won[w])
    /\ wpc' = [wpc EXCEPT ![w] = "done"]
    /\ UNCHANGED <<clientVars, status, mpc, clientFd, nacc, owner, wfd, won,
                   repliers>>

\* recv() returns -1: ServerRecv returns -1 and the thread calls exit(-1).
RecvError(w) ==
    /\ wpc[w] = "blocked"
    /\ AtFail(won[w])
    /\ ProcessExit("neterr")

\* send(sockFd, "666", 3, 0): the descriptor is looked up again.  The result
\* is ignored, so a closed descriptor or a broken connection is not noticed.
Reply(w) ==
    /\ wpc[w] = "reply"
    /\ repliers' = [c \in Conns |->
                      IF c = owner[wfd[w]] /\ peer[c] # "reset"
                      THEN repliers[c] \cup {w} ELSE repliers[c]]
    /\ wpc' = [wpc EXCEPT ![w] = "close"]
    /\ UNCHANGED <<clientVars, status, mpc, clientFd, nacc, owner, wfd, won>>

\* A send on a broken connection may raise SIGPIPE, which nobody handles.
ReplyKilled(w) ==
    /\ wpc[w] = "reply"
    /\ owner[wfd[w]] # 0
    /\ peer[owner[wfd[w]]] = "reset"
    /\ ProcessExit("sigpipe")

\* Mutant: the caller of ServerRecv closes the descriptor once more.
CloseFdAgain(w) ==
    /\ wpc[w] \in {"close", "closed"}
    /\ owner' = [owner EXCEPT ![wfd[w]] = 0]
    /\ wpc' = [wpc EXCEPT ![w] = "closed"]
    /\ UNCHANGED <<clientVars, status, mpc, clientFd, nacc, wfd, won, repliers>>

\* close(sockFd): an error (the descriptor is closed already) is ignored.
CloseFd(w) ==
    /\ wpc[w] = "close"
    /\ owner' = [owner EXCEPT ![wfd[w]] = 0]
    /\ wpc' = [wpc EXCEPT ![w] = "closed"]
    /\ UNCHANGED <<clientVars, status, mpc, clientFd, nacc, wfd, won, repliers>>

---------------------------------------------------------------------------
MainGoesOn ==
    Setup \/ SetupFail \/ Accept \/ AcceptExit \/ CreateThread \/ CreateThreadFail

Main == MainGoesOn \/ AcceptFail

Worker(w) ==
    \/ ReadArg(w) \/ EnterRecv(w) \/ RecvBadFd(w) \/ RecvData(w)
    \/ RecvEnd(w) \/ RecvError(w) \/ Reply(w) \/ ReplyKilled(w) \/ CloseFd(w)

Clients == mpc # "init" /\ ClientNext /\ UNCHANGED serverVars

Next ==
    /\ status = "run"
    /\ Main \/ Clients \/ \E w \in Workers : Worker(w)

Spec == Init /\ [][Next]_vars

\* The threads are scheduled fairly; nothing is assumed of the clients, and
\* accept() need not fail.
FairSpec ==
    /\ Spec
    /\ WF_vars(status = "run" /\ MainGoesOn)
    /\ \A w \in Workers : WF_vars(status = "run" /\ Worker(w))

---------------------------------------------------------------------------
(* Properties *)

Holds(w) == wpc[w] \in {"recv", "blocked", "reply", "close"}

\* Whatever the race on clientFd does, a thread only ever works on its own
\* connection or a later one: when it resolves its descriptor (recv, send,
\* close) it never hits a connection older than the one it was started for.
NeverAnOlderConnection ==
    \A w \in Workers :
       /\ Holds(w) /\ wfd[w] \in OpenFds => owner[wfd[w]] >= w
       /\ won[w] # 0 => won[w] >= w

\* Hence connection c is answered by threads 1..c only, each once: the first
\* client gets at most one answer, and every answer comes from a thread that
\* was started no later than the connection was accepted.
AnsweredByNoLaterThread ==
    \A c \in Conns : repliers[c] \subseteq 1 .. c

\* recv() on a bad descriptor, which ends the server for all clients, has
\* two causes: ANOTHER thread got the same descriptor and closed it, or
\* accept() has failed, its -1 went to a thread that read clientFd late, and
\* main is about to exit anyhow.  Without the race on clientFd, EBADF cannot
\* happen.
BadDescriptorOnlyByRace ==
    status = "ebadf" =>
       \E w \in Workers :
          /\ wpc[w] = "recv"
          /\ \/ wfd[w] = -1 /\ mpc = "fail"
             \/ \E v \in Workers :
                   v # w /\ wpc[v] = "closed" /\ wfd[v] = wfd[w]

\* A connection nobody will ever look at again: its descriptor is open but
\* neither clientFd nor a live thread has it.  Two causes in the code: main
\* overwrote clientFd before the thread read it, and the branch of
\* ServerRecv for dataLen = 0, which does not close.
Orphan(c) ==
    \E f \in Fds : /\ owner[f] = c
                   /\ clientFd # f
                   /\ \A w \in Workers : Holds(w) => wfd[w] # f

\* Such a connection stays open and unserved until the process exits: the
\* descriptor is lost for good, which is how EMFILE comes about.
OrphansStay == [][\A c \in Conns : Orphan(c) => Orphan(c)']_vars

\* The most recently accepted connection is not exposed to the race: if no
\* other one is accepted after it, its thread exists and its client sends,
\* some thread receives the message, or the process exits.
LatestIsServed ==
    \A c \in Conns :
       LET Last == nacc = c /\ wpc[c] # "none"
           Answering == \E w \in Workers :
                           won[w] = c /\ wpc[w] \in {"reply", "close", "closed"}
       IN  <>[]Last =>
              (Last /\ data[c] > 0 ~> data[c] = 0 \/ Answering \/ status # "run")

\* What the race on clientFd can do, and what not: it moves threads to later
\* connections only, answers are given by threads started no later than the
\* connection was accepted, and EBADF needs two threads with one descriptor
\* or a failed accept().
RaceOnlyToLater ==
    /\ NeverAnOlderConnection /\ AnsweredByNoLaterThread /\ BadDescriptorOnlyByRace
=============================================================================
