----------------------- MODULE EchoThreadServer_proofs -----------------------
(***************************************************************************)
(* Proofs about EchoThreadServer for any number of connections, messages   *)
(* and descriptors.                                                        *)
(***************************************************************************)
EXTENDS EchoThreadServer, TLAPS

\* The numbers of accepted connections bound everything: a descriptor refers
\* to an accepted connection, a thread was started for an accepted one, and
\* the descriptor in clientFd, while open, is that of the latest.
Numbering ==
    /\ nacc <= nconn
    /\ \A f \in Fds : owner[f] <= nacc
    /\ \A w \in Workers : wpc[w] # "none" => w <= nacc
    /\ mpc = "create" => nacc \in Conns /\ wpc[nacc] = "none"
    /\ mpc = "fail" => clientFd = -1
    /\ nacc > 0 /\ mpc # "fail" => clientFd \in Fds
    /\ clientFd \in Fds => owner[clientFd] \in {0, nacc}

\* What the threads know: one that has read clientFd has a descriptor, or the
\* -1 of an accept() that failed, with which it does not get past recv(); one
\* that entered recv() has a connection.
ThreadData ==
    \A w \in Workers :
       /\ wpc[w] \in {"blocked", "reply", "close", "closed"} => wfd[w] \in Fds
       /\ wpc[w] = "recv" => wfd[w] \in Fds \/ (wfd[w] = -1 /\ mpc = "fail")
       /\ wpc[w] \in {"blocked", "reply"} => won[w] \in Conns

\* A descriptor that was handed out and is closed was closed by a thread that
\* had it.
ClosedByThread ==
    \A f \in Fds :
       owner[f] = 0 /\ (clientFd = f \/ \E w \in Workers : wfd[w] = f)
          => \E v \in Workers : wpc[v] = "closed" /\ wfd[v] = f

\* The inductive invariant.
IInv ==
    /\ TypeOK
    /\ Numbering
    /\ ThreadData
    /\ NeverAnOlderConnection
    /\ AnsweredByNoLaterThread
    /\ ClosedByThread
    /\ BadDescriptorOnlyByRace

---------------------------------------------------------------------------
LEMMA InitIInv == Init => IInv
  BY ClientAssumption, FdAssumption
  DEF Init, ClientInit, IInv, Fds, Workers, Conns, Exits, TypeOK, ClientTypeOK,
      Numbering, ThreadData, NeverAnOlderConnection, OpenFds, Holds,
      AnsweredByNoLaterThread, ClosedByThread, BadDescriptorOnlyByRace

\* What the clients and recv() do to the network keeps its type.
LEMMA ClientStep ==
  ASSUME ClientTypeOK,
         ClientNext \/ \E c \in Conns, n \in 1 .. MaxMsg : Take(c, n)
  PROVE  ClientTypeOK'
<1> USE ClientAssumption DEF ClientTypeOK, Conns
<1>1. CASE Connect
  BY <1>1 DEF Connect
<1>2. ASSUME NEW c \in Conns, ClientSend(c) PROVE ClientTypeOK'
  <2>1. sent[c] + 1 \in 0 .. MaxMsg /\ data[c] + 1 \in 0 .. MaxMsg
    BY <1>2 DEF ClientSend
  <2> QED
    BY <1>2, <2>1 DEF ClientSend
<1>3. ASSUME NEW c \in Conns, ClientClose(c) \/ ConnReset(c)
      PROVE  ClientTypeOK'
  BY <1>3 DEF ClientClose, ConnReset
<1>4. ASSUME NEW c \in Conns, NEW n \in 1 .. MaxMsg, Take(c, n)
      PROVE  ClientTypeOK'
  <2>1. data[c] - n \in 0 .. MaxMsg /\ data[c] - n <= sent[c]
    BY <1>4 DEF Take
  <2>2. /\ data' = [data EXCEPT ![c] = data[c] - n]
        /\ UNCHANGED <<nconn, sent, peer>>
    BY <1>4 DEF Take
  <2>3. data' \in [Conns -> 0 .. MaxMsg] /\ \A d \in Conns : data'[d] <= sent[d]
    BY <2>1, <2>2
  <2> QED
    BY <2>2, <2>3
<1> QED
  BY <1>1, <1>2, <1>3, <1>4 DEF ClientNext

\* Type correctness is kept by every step; that clientFd and the workers'
\* descriptors are real ones when they are used comes from the other parts.
LEMMA NextTypeOK == IInv /\ [Next]_vars => TypeOK'
<1> SUFFICES ASSUME IInv, [Next]_vars PROVE TypeOK'
  OBVIOUS
<1> USE ClientAssumption, FdAssumption
    DEF IInv, TypeOK, Numbering, ThreadData, Fds, Workers, Conns, Exits
<1>1. CASE UNCHANGED vars
  BY <1>1 DEF vars, serverVars, clientVars, ClientTypeOK
<1>2. CASE Setup \/ SetupFail \/ AcceptFail \/ AcceptExit
  BY <1>2 DEF Setup, SetupFail, AcceptFail, AcceptExit, ProcessExit, clientVars,
     ClientTypeOK
<1>3. CASE Accept
  <2>1. nacc + 1 \in Conns
    BY <1>3 DEF Accept, ClientTypeOK
  <2>2. PICK f \in Fds : /\ owner' = [owner EXCEPT ![f] = nacc + 1]
                         /\ clientFd' = f
    BY <1>3 DEF Accept
  <2>3. /\ ClientTypeOK' /\ mpc' = "create" /\ nacc' = nacc + 1
        /\ UNCHANGED <<status, wpc, wfd, won, repliers>>
    BY <1>3 DEF Accept, clientVars, ClientTypeOK
  <2>4. owner' \in [Fds -> {0} \cup Conns]
    BY <2>1, <2>2
  <2> QED
    BY <2>1, <2>2, <2>3, <2>4
<1>4. CASE CreateThread \/ CreateThreadFail
  BY <1>4 DEF CreateThread, CreateThreadFail, clientVars, ClientTypeOK
<1>5. CASE Clients
  BY <1>5, ClientStep DEF Clients, serverVars
<1>6. ASSUME NEW w \in Workers,
             RecvBadFd(w) \/ RecvError(w) \/ ReplyKilled(w)
      PROVE  TypeOK'
  BY <1>6 DEF RecvBadFd, RecvError, ReplyKilled, ProcessExit, clientVars,
     ClientTypeOK
<1>7. ASSUME NEW w \in Workers, RecvEnd(w) \/ CloseFd(w)
      PROVE  TypeOK'
  BY <1>7 DEF RecvEnd, CloseFd, clientVars, ClientTypeOK
<1>8. ASSUME NEW w \in Workers, EnterRecv(w) PROVE TypeOK'
  <2>1. won' = [won EXCEPT ![w] = owner[wfd[w]]] /\ owner[wfd[w]] \in Conns
    BY <1>8 DEF EnterRecv, OpenFds
  <2>2. won' \in [Workers -> {0} \cup Conns]
    BY <2>1
  <2> QED
    BY <1>8, <2>2 DEF EnterRecv, clientVars, ClientTypeOK
<1>9. ASSUME NEW w \in Workers, RecvData(w) PROVE TypeOK'
  <2>1. ClientTypeOK'
    BY <1>9, ClientStep DEF RecvData
  <2> QED
    BY <1>9, <2>1 DEF RecvData
<1>10. ASSUME NEW w \in Workers, Reply(w) PROVE TypeOK'
  BY <1>10 DEF Reply, clientVars, ClientTypeOK
<1>11. ASSUME NEW w \in Workers, ReadArg(w) PROVE TypeOK'
  BY <1>11 DEF ReadArg, clientVars, ClientTypeOK
<1> QED
  BY <1>1, <1>2, <1>3, <1>4, <1>5, <1>6, <1>7, <1>8, <1>9, <1>10, <1>11
  DEF Next, Main, MainGoesOn, Worker

\* Accept hands out the next number; nothing else changes the numbering.
LEMMA NextNumbering == IInv /\ [Next]_vars => Numbering'
<1> SUFFICES ASSUME IInv, [Next]_vars PROVE Numbering'
  OBVIOUS
<1> USE ClientAssumption, FdAssumption
    DEF IInv, TypeOK, Numbering, ThreadData,
        clientVars, serverVars, Fds, Workers, Conns
<1>1. CASE UNCHANGED vars
  BY <1>1 DEF vars
<1>2. CASE Clients
  BY <1>2 DEF Clients, ClientNext, Connect, ClientSend, ClientClose, ConnReset,
     ClientTypeOK
<1>3. CASE Setup \/ SetupFail \/ AcceptFail \/ AcceptExit \/ CreateThreadFail
  BY <1>3 DEF Setup, SetupFail, AcceptFail, AcceptExit, CreateThreadFail, ProcessExit
<1>4. ASSUME NEW w \in Workers,
             ReadArg(w) \/ EnterRecv(w) \/ RecvBadFd(w) \/ RecvData(w) \/
             RecvEnd(w) \/ RecvError(w) \/ ReplyKilled(w)
      PROVE  Numbering'
  <2>1. UNCHANGED <<nconn, nacc, mpc, clientFd, owner>>
    BY <1>4 DEF ReadArg, EnterRecv, RecvBadFd, RecvData, RecvEnd, RecvError,
       ReplyKilled, ProcessExit, Take
  <2>2. \A v \in Workers : wpc'[v] = "none" <=> wpc[v] = "none"
    BY <1>4 DEF ReadArg, EnterRecv, RecvBadFd, RecvData, RecvEnd, RecvError,
       ReplyKilled, ProcessExit
  <2> QED
    BY <2>1, <2>2
<1>5. CASE Accept
  <2>1. PICK f \in Fds : /\ owner[f] = 0
                         /\ owner' = [owner EXCEPT ![f] = nacc + 1]
                         /\ clientFd' = f
    BY <1>5 DEF Accept
  <2>2. nacc' = nacc + 1 /\ nacc' \in Conns /\ nacc < nconn
    BY <1>5 DEF Accept, ClientTypeOK
  <2>3. wpc[nacc + 1] = "none"
    BY <2>2
  <2>4. nconn' = nconn /\ wpc' = wpc /\ mpc' = "create"
    BY <1>5 DEF Accept
  <2>5. ASSUME NEW g \in Fds PROVE owner'[g] <= nacc'
    <3>1. owner[g] <= nacc /\ nacc \in Nat /\ owner[g] \in Nat
      BY DEF ClientTypeOK
    <3>2. owner'[g] = nacc + 1 \/ owner'[g] = owner[g]
      BY <2>1
    <3> QED
      BY <2>2, <3>1, <3>2
  <2>6. \A w \in Workers : wpc'[w] # "none" => w <= nacc'
    BY <2>2, <2>4
  <2>7. clientFd' \in Fds /\ owner'[clientFd'] = nacc'
    BY <2>1, <2>2
  <2> QED
    BY <2>2, <2>3, <2>4, <2>5, <2>6, <2>7 DEF ClientTypeOK
<1>6. CASE CreateThread
  BY <1>6 DEF CreateThread
<1>7. ASSUME NEW w \in Workers, Reply(w) PROVE Numbering'
  BY <1>7 DEF Reply
<1>8. ASSUME NEW w \in Workers, CloseFd(w) PROVE Numbering'
  BY <1>8 DEF CloseFd
<1> QED
  BY <1>1, <1>2, <1>3, <1>4, <1>5, <1>6, <1>7, <1>8
  DEF Next, Main, MainGoesOn, Worker

\* What a thread that has just been created finds in clientFd.
LEMMA WhatIsRead ==
  ASSUME IInv, NEW w \in Workers, wpc[w] = "start"
  PROVE  clientFd \in Fds \/ (clientFd = -1 /\ mpc = "fail")
<1>1. w \in Nat /\ w > 0 /\ nacc \in Nat /\ w <= nacc
  BY ClientAssumption DEF IInv, TypeOK, ClientTypeOK, Numbering, Workers, Conns
<1>2. nacc > 0
  BY <1>1
<1>3. CASE mpc = "fail"
  BY <1>3 DEF IInv, Numbering
<1>4. CASE mpc # "fail"
  <2>1. nacc > 0 /\ mpc # "fail" => clientFd \in Fds
    BY DEF IInv, Numbering
  <2> QED
    BY <1>2, <1>4, <2>1
<1> QED
  BY <1>3, <1>4

\* A thread reads a descriptor that main has stored.
LEMMA NextThreadData == IInv /\ [Next]_vars => ThreadData'
<1> SUFFICES ASSUME IInv, [Next]_vars PROVE ThreadData'
  OBVIOUS
<1> USE ClientAssumption, FdAssumption
    DEF IInv, TypeOK, Numbering, ThreadData,
        clientVars, serverVars, Fds, Workers, Conns
<1>1. CASE UNCHANGED vars
  BY <1>1 DEF vars
<1>2. CASE Clients
  BY <1>2 DEF Clients, ClientNext, Connect, ClientSend, ClientClose, ConnReset,
     ClientTypeOK
<1>3. CASE \/ Setup \/ SetupFail \/ Accept
           \/ AcceptFail \/ AcceptExit \/ CreateThread \/ CreateThreadFail
  BY <1>3 DEF Setup, SetupFail, Accept, AcceptFail, AcceptExit, CreateThread,
     CreateThreadFail, ProcessExit
<1>4. ASSUME NEW w \in Workers,
             RecvBadFd(w) \/ RecvError(w) \/ ReplyKilled(w)
      PROVE  ThreadData'
  <2>1. UNCHANGED <<mpc, wpc, wfd, won>>
    BY <1>4 DEF RecvBadFd, RecvError, ReplyKilled, ProcessExit
  <2> QED
    BY <2>1
<1>5. ASSUME NEW w \in Workers, ReadArg(w) PROVE ThreadData'
  <2>1. clientFd \in Fds \/ (clientFd = -1 /\ mpc = "fail")
    BY <1>5, WhatIsRead DEF ReadArg
  <2> QED
    BY <1>5, <2>1 DEF ReadArg
<1>6. ASSUME NEW w \in Workers, Reply(w) PROVE ThreadData'
  BY <1>6 DEF Reply
<1>7. ASSUME NEW w \in Workers, EnterRecv(w) PROVE ThreadData'
  <2>1. /\ wfd[w] \in Fds /\ owner[wfd[w]] \in Conns
        /\ won' = [won EXCEPT ![w] = owner[wfd[w]]]
        /\ wpc' = [wpc EXCEPT ![w] = "blocked"]
        /\ UNCHANGED <<mpc, wfd>>
    BY <1>7 DEF EnterRecv, OpenFds
  <2> QED
    BY <2>1
<1>8. ASSUME NEW w \in Workers, RecvData(w) PROVE ThreadData'
  BY <1>8 DEF RecvData, Take
<1>9. ASSUME NEW w \in Workers, RecvEnd(w) \/ CloseFd(w) PROVE ThreadData'
  BY <1>9 DEF RecvEnd, CloseFd
<1> QED
  BY <1>1, <1>2, <1>3, <1>4, <1>5, <1>6, <1>7, <1>8, <1>9
  DEF Next, Main, MainGoesOn, Worker

\* Only ReadArg and Accept matter: the descriptor read is that of the latest
\* connection, and a descriptor that is given out again gets a later one.
LEMMA NextNeverOlder == IInv /\ [Next]_vars => NeverAnOlderConnection'
<1> SUFFICES ASSUME IInv, [Next]_vars PROVE NeverAnOlderConnection'
  OBVIOUS
<1> USE ClientAssumption, FdAssumption
    DEF IInv, TypeOK, Numbering, ThreadData, NeverAnOlderConnection, OpenFds, Holds,
        clientVars, serverVars, Fds, Workers, Conns
<1>1. CASE UNCHANGED vars
  BY <1>1 DEF vars
<1>2. CASE Clients
  BY <1>2 DEF Clients, ClientNext, Connect, ClientSend, ClientClose, ConnReset,
     ClientTypeOK
<1>3. CASE Setup \/ SetupFail \/ AcceptFail \/ AcceptExit \/ CreateThread \/ CreateThreadFail
  BY <1>3 DEF Setup, SetupFail, AcceptFail, AcceptExit, CreateThread, CreateThreadFail,
     ProcessExit
<1>4. ASSUME NEW w \in Workers,
             RecvBadFd(w) \/ RecvData(w) \/ RecvEnd(w) \/ RecvError(w) \/
             ReplyKilled(w)
      PROVE  NeverAnOlderConnection'
  BY <1>4 DEF RecvBadFd, RecvData, RecvEnd, RecvError, ReplyKilled,
     ProcessExit, Take
<1>5. CASE Accept
  BY <1>5 DEF Accept
<1>6. ASSUME NEW w \in Workers, ReadArg(w) PROVE NeverAnOlderConnection'
  BY <1>6 DEF ReadArg
<1>7. ASSUME NEW w \in Workers, EnterRecv(w) PROVE NeverAnOlderConnection'
  BY <1>7 DEF EnterRecv
<1>8. ASSUME NEW w \in Workers, Reply(w) PROVE NeverAnOlderConnection'
  BY <1>8 DEF Reply
<1>9. ASSUME NEW w \in Workers, CloseFd(w) PROVE NeverAnOlderConnection'
  BY <1>9 DEF CloseFd
<1> QED
  BY <1>1, <1>2, <1>3, <1>4, <1>5, <1>6, <1>7, <1>8, <1>9
  DEF Next, Main, MainGoesOn, Worker

\* An answer goes to the connection the thread's descriptor refers to.
LEMMA NextAnswered == IInv /\ [Next]_vars => AnsweredByNoLaterThread'
<1> SUFFICES ASSUME IInv, [Next]_vars PROVE AnsweredByNoLaterThread'
  OBVIOUS
<1> USE ClientAssumption, FdAssumption
    DEF IInv, TypeOK, ThreadData, NeverAnOlderConnection, OpenFds, Holds,
        AnsweredByNoLaterThread, clientVars, serverVars, Fds, Workers, Conns
<1>1. CASE UNCHANGED vars
  BY <1>1 DEF vars
<1>2. CASE Clients
  BY <1>2 DEF Clients, ClientNext, Connect, ClientSend, ClientClose, ConnReset,
     ClientTypeOK
<1>3. CASE \/ Setup \/ SetupFail \/ Accept
           \/ AcceptFail \/ AcceptExit \/ CreateThread \/ CreateThreadFail
  BY <1>3 DEF Setup, SetupFail, Accept, AcceptFail, AcceptExit, CreateThread,
     CreateThreadFail, ProcessExit
<1>4. ASSUME NEW w \in Workers,
             ReadArg(w) \/ EnterRecv(w) \/ RecvBadFd(w) \/ RecvData(w) \/
             RecvEnd(w) \/ RecvError(w) \/ ReplyKilled(w) \/ CloseFd(w)
      PROVE  AnsweredByNoLaterThread'
  BY <1>4 DEF ReadArg, EnterRecv, RecvBadFd, RecvData, RecvEnd, RecvError,
     ReplyKilled, CloseFd, ProcessExit, Take
<1>5. ASSUME NEW w \in Workers, Reply(w) PROVE AnsweredByNoLaterThread'
  BY <1>5 DEF Reply
<1> QED
  BY <1>1, <1>2, <1>3, <1>4, <1>5
  DEF Next, Main, MainGoesOn, Worker

\* A closed descriptor has a closer; CloseFd makes one, Accept reopens.
LEMMA NextClosed == IInv /\ [Next]_vars => ClosedByThread'
<1> SUFFICES ASSUME IInv, [Next]_vars PROVE ClosedByThread'
  OBVIOUS
<1> USE ClientAssumption, FdAssumption
    DEF IInv, TypeOK, Numbering, ThreadData, ClosedByThread,
        clientVars, serverVars, Fds, Workers, Conns
<1>1. CASE UNCHANGED vars
  BY <1>1 DEF vars
<1>2. CASE Clients
  BY <1>2 DEF Clients, ClientNext, Connect, ClientSend, ClientClose, ConnReset,
     ClientTypeOK
<1>3. CASE SetupFail \/ AcceptFail \/ AcceptExit \/ CreateThreadFail
  <2>1. /\ UNCHANGED <<owner, wfd, wpc>>
        /\ clientFd' = clientFd \/ clientFd' = -1
    BY <1>3 DEF SetupFail, AcceptFail, AcceptExit, CreateThreadFail, ProcessExit
  <2> QED
    BY <2>1
<1>4. ASSUME NEW w \in Workers,
             RecvBadFd(w) \/ RecvError(w) \/ ReplyKilled(w)
      PROVE  ClosedByThread'
  <2>1. UNCHANGED <<owner, clientFd, wfd, wpc>>
    BY <1>4 DEF RecvBadFd, RecvError, ReplyKilled, ProcessExit
  <2> QED
    BY <2>1
<1>5. CASE Setup
  BY <1>5 DEF Setup
<1>6. CASE Accept
  BY <1>6 DEF Accept
<1>7. CASE CreateThread
  BY <1>7 DEF CreateThread
<1>8. ASSUME NEW w \in Workers, ReadArg(w) PROVE ClosedByThread'
  BY <1>8 DEF ReadArg
<1>9. ASSUME NEW w \in Workers, Reply(w) PROVE ClosedByThread'
  BY <1>9 DEF Reply
<1>10. ASSUME NEW w \in Workers, CloseFd(w) PROVE ClosedByThread'
  BY <1>10 DEF CloseFd
<1>11. ASSUME NEW w \in Workers, EnterRecv(w) PROVE ClosedByThread'
  BY <1>11 DEF EnterRecv
<1>12. ASSUME NEW w \in Workers, RecvData(w) PROVE ClosedByThread'
  BY <1>12 DEF RecvData, Take
<1>13. ASSUME NEW w \in Workers, RecvEnd(w) PROVE ClosedByThread'
  BY <1>13 DEF RecvEnd
<1> QED
  BY <1>1, <1>2, <1>3, <1>4, <1>5, <1>6, <1>7, <1>8, <1>9, <1>10, <1>11,
     <1>12, <1>13
  DEF Next, Main, MainGoesOn, Worker

\* The only step that matters is RecvBadFd, where ClosedByThread names the
\* other thread.
LEMMA NextBadDescriptor == IInv /\ [Next]_vars => BadDescriptorOnlyByRace'
<1> SUFFICES ASSUME IInv, [Next]_vars
             PROVE  BadDescriptorOnlyByRace'
  OBVIOUS
<1> USE ClientAssumption, FdAssumption
    DEF IInv, TypeOK, ThreadData, ClosedByThread, BadDescriptorOnlyByRace,
        clientVars, serverVars, Fds, Workers, Conns
<1>1. CASE UNCHANGED vars
  BY <1>1 DEF vars
<1>2. CASE Clients
  BY <1>2 DEF Clients, ClientNext, Connect, ClientSend, ClientClose, ConnReset,
     ClientTypeOK
<1>3. CASE /\ status = "run"
          /\ \/ Setup \/ SetupFail \/ Accept
             \/ AcceptFail \/ AcceptExit \/ CreateThread \/ CreateThreadFail
  BY <1>3 DEF Setup, SetupFail, Accept, AcceptFail, AcceptExit, CreateThread,
     CreateThreadFail, ProcessExit
<1>4. ASSUME NEW w \in Workers, status = "run",
             ReadArg(w) \/ EnterRecv(w) \/ RecvData(w) \/ RecvEnd(w) \/
             RecvError(w) \/ Reply(w) \/ ReplyKilled(w) \/ CloseFd(w)
      PROVE  BadDescriptorOnlyByRace'
  BY <1>4 DEF ReadArg, EnterRecv, RecvData, RecvEnd, RecvError, Reply,
     ReplyKilled, CloseFd, ProcessExit, Take
<1>5. ASSUME NEW w \in Workers, RecvBadFd(w) PROVE BadDescriptorOnlyByRace'
  <2>1. /\ wfd[w] \notin OpenFds /\ wpc[w] = "recv" /\ status' = "ebadf"
        /\ UNCHANGED <<mpc, wpc, wfd>>
    BY <1>5 DEF RecvBadFd, ProcessExit
  <2>2. CASE wfd[w] = -1 /\ mpc = "fail"
    BY <2>1, <2>2
  <2>3. CASE wfd[w] \in Fds /\ owner[wfd[w]] = 0
    <3>1. PICK v \in Workers : wpc[v] = "closed" /\ wfd[v] = wfd[w]
      BY <2>3
    <3>2. v # w
      BY <2>1, <3>1
    <3> QED
      BY <2>1, <3>1, <3>2
  <2> QED
    BY <2>1, <2>2, <2>3 DEF OpenFds
<1> QED
  BY <1>1, <1>2, <1>3, <1>4, <1>5
  DEF Next, Main, MainGoesOn, Worker

LEMMA NextIInv == IInv /\ [Next]_vars => IInv'
  BY NextTypeOK, NextNumbering, NextThreadData, NextNeverOlder, NextAnswered,
     NextClosed, NextBadDescriptor DEF IInv

LEMMA Inductive == Spec => []IInv
<1>1. Init => IInv
  BY InitIInv
<1>2. IInv /\ [Next]_vars => IInv'
  BY NextIInv
<1> QED
  BY <1>1, <1>2, PTL DEF Spec

---------------------------------------------------------------------------
\* Every variable keeps its type, whatever the threads do to clientFd.
THEOREM ThreadServerType == Spec => []TypeOK
  BY Inductive, PTL DEF IInv

\* The race on clientFd never directs a thread to a connection older than the
\* one it was started for (ThreadServerResponse, ServerRecv).
THEOREM NoOlderConnection == Spec => []NeverAnOlderConnection
  BY Inductive, PTL DEF IInv

\* Connection c is answered by threads 1..c only.
THEOREM NoLaterAnswer == Spec => []AnsweredByNoLaterThread
  BY Inductive, PTL DEF IInv

\* recv() on a bad descriptor, which ends the server, needs two threads that
\* read the same clientFd, or an accept() that has failed already.
THEOREM BadDescriptorNeedsRace == Spec => []BadDescriptorOnlyByRace
  BY Inductive, PTL DEF IInv

\* A connection whose descriptor nobody knows stays open until the exit.
THEOREM OrphansNeverClosed == Spec => OrphansStay
<1>1. ASSUME IInv, [Next]_vars, NEW c \in Conns, Orphan(c)
      PROVE  Orphan(c)'
  <2>1. PICK f \in Fds : /\ owner[f] = c
                         /\ clientFd # f
                         /\ \A w \in Workers : Holds(w) => wfd[w] # f
    BY <1>1 DEF Orphan
  <2>2. c # 0
    BY DEF Conns
  <2> USE <1>1, <2>1, <2>2 DEF IInv, TypeOK, Fds, Workers, Holds
  <2>3. owner'[f] = c
    <3>1. CASE Accept
      BY <3>1 DEF Accept
    <3>2. ASSUME NEW w \in Workers, CloseFd(w) PROVE owner'[f] = c
      BY <3>2 DEF CloseFd
    <3>3. CASE owner' = owner
      BY <3>3
    <3> QED
      BY <3>1, <3>2, <3>3
      DEF Next, Main, MainGoesOn, Setup, SetupFail, AcceptFail, AcceptExit, CreateThread,
       CreateThreadFail, ProcessExit, Clients, Worker, ReadArg, EnterRecv,
       RecvBadFd, RecvData, RecvEnd, RecvError, Reply, ReplyKilled, vars,
       serverVars
  <2>4. clientFd' # f
    BY DEF Next, Main, MainGoesOn, Setup, SetupFail, Accept, AcceptFail, AcceptExit, CreateThread,
       CreateThreadFail, ProcessExit, Clients, Worker, ReadArg, EnterRecv,
       RecvBadFd, RecvData, RecvEnd, RecvError, Reply, ReplyKilled, CloseFd,
       vars, serverVars
  <2>5. ASSUME NEW w \in Workers, Holds(w)' PROVE wfd'[w] # f
    BY <2>5 DEF Next, Main, MainGoesOn, Setup, SetupFail, Accept, AcceptFail, AcceptExit, CreateThread,
       CreateThreadFail, ProcessExit, Clients, Worker, ReadArg, EnterRecv,
       RecvBadFd, RecvData, RecvEnd, RecvError, Reply, ReplyKilled, CloseFd,
       vars, serverVars
  <2> QED
    BY <2>3, <2>4, <2>5 DEF Orphan
<1>2. IInv /\ [Next]_vars => [\A c \in Conns : Orphan(c) => Orphan(c)']_vars
  BY <1>1
<1> QED
  BY <1>2, Inductive, PTL DEF Spec, OrphansStay

\* All of it together: the race on clientFd moves threads to later
\* connections only (ThreadServerResponse, ServerRecv).
THEOREM RaceToLaterOnly == Spec => []RaceOnlyToLater
  BY NoOlderConnection, NoLaterAnswer, BadDescriptorNeedsRace, PTL DEF RaceOnlyToLater
=============================================================================
