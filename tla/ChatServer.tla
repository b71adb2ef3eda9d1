----------------------------- MODULE ChatServer -----------------------------
(***************************************************************************)
(* TcpChatMultiProcess_Server: a chain of processes.  The process that     *)
(* accepts client p stays with p and sends what p says to every client     *)
(* found in a shared array of descriptor NUMBERS; the child it forked goes *)
(* on accepting.  A child inherits the descriptors of the earlier clients  *)
(* and no process ever gets those of later ones, whose numbers it still    *)
(* finds in the array.                                                     *)
(*                                                                         *)
(* Process p serves client p; both count from 1, the array of the code     *)
(* from 0.                                                                 *)
(***************************************************************************)
EXTENDS TcpClients, Integers

CONSTANT FirstFd   \* the lowest descriptor that is free for the first client

ASSUME FdAssumption == FirstFd \in Nat

Procs == 1 .. MaxConn + 1
Fds   == FirstFd .. FirstFd + MaxConn - 1

VARIABLES slot,    \* the shared array clientSocketFd, -1 where unused
          pc,      \* program counter of each process, "none" before its fork
          fdt,     \* fdt[p][f]: client that descriptor f of p refers to, or 0
          nxt,     \* the index i of the broadcast loop of each process
          got,     \* got[p]: clients the current message of p was sent to
          wanted   \* wanted[p]: clients in the array when it was received

procVars == <<slot, pc, fdt, nxt, got, wanted>>
vars == <<clientVars, procVars>>

TypeOK ==
    /\ ClientTypeOK
    /\ slot \in [Conns -> {-1} \cup Fds]
    /\ pc \in [Procs -> {"none", "accept", "fork", "recv", "send", "sent",
                         "ebadf", "exited", "failed"}]
    /\ fdt \in [Procs -> [Fds -> {0} \cup Conns]]
    /\ nxt \in [Procs -> 1 .. MaxConn + 1]
    /\ got \in [Procs -> SUBSET Conns]
    /\ wanted \in [Procs -> SUBSET Conns]

\* main has created the socket, bound it, listened and filled the array.
Init ==
    /\ ClientInit
    /\ slot = [i \in Conns |-> -1]
    /\ pc = [p \in Procs |-> IF p = 1 THEN "accept" ELSE "none"]
    /\ fdt = [p \in Procs |-> [f \in Fds |-> 0]]
    /\ nxt = [p \in Procs |-> 1]
    /\ got = [p \in Procs |-> {}]
    /\ wanted = [p \in Procs |-> {}]

Goto(p, from, to) ==
    /\ pc[p] = from
    /\ pc' = [pc EXCEPT ![p] = to]

---------------------------------------------------------------------------
(* Accepting *)

\* accept() gives process p its lowest free descriptor, which is stored in
\* the shared array.
Accept(p) ==
    /\ Goto(p, "accept", "fork")
    /\ p <= nconn
    /\ \E f \in Fds :
          /\ fdt[p][f] = 0
          /\ \A g \in Fds : g < f => fdt[p][g] # 0
          /\ fdt' = [fdt EXCEPT ![p][f] = p]
          /\ slot' = [slot EXCEPT ![p] = f]
    /\ UNCHANGED <<clientVars, nxt, got, wanted>>

\* accept() fails: its -1 is stored, the loop ends and the process with it.
AcceptFail(p) ==
    /\ Goto(p, "accept", "failed")
    /\ slot' = [i \in Conns |-> IF i = p THEN -1 ELSE slot[i]]
    /\ fdt' = [fdt EXCEPT ![p] = [f \in Fds |-> 0]]
    /\ UNCHANGED <<clientVars, nxt, got, wanted>>

\* Mutants: parent and child both go on accepting; the child first closes the
\* descriptor of its parent's client.
ForkBothAccept(p) ==
    /\ pc[p] = "fork"
    /\ pc' = [pc EXCEPT ![p] = "accept", ![p + 1] = "accept"]
    /\ fdt' = [fdt EXCEPT ![p + 1] = fdt[p]]
    /\ UNCHANGED <<clientVars, slot, nxt, got, wanted>>

ForkChildCloses(p) ==
    /\ pc[p] = "fork"
    /\ pc' = [pc EXCEPT ![p] = "recv", ![p + 1] = "accept"]
    /\ fdt' = [fdt EXCEPT ![p + 1] = [fdt[p] EXCEPT ![slot[p]] = 0]]
    /\ UNCHANGED <<clientVars, slot, nxt, got, wanted>>

\* The child goes on accepting with index + 1; the parent serves client p.
Fork(p) ==
    /\ pc[p] = "fork"
    /\ pc' = [pc EXCEPT ![p] = "recv", ![p + 1] = "accept"]
    /\ fdt' = [fdt EXCEPT ![p + 1] = fdt[p]]
    /\ UNCHANGED <<clientVars, slot, nxt, got, wanted>>

\* exit(): the descriptors of the process are closed, the array keeps them.
Exit(p, why) ==
    /\ pc' = [pc EXCEPT ![p] = why]
    /\ fdt' = [fdt EXCEPT ![p] = [f \in Fds |-> 0]]
    /\ UNCHANGED <<clientVars, slot, nxt, got, wanted>>

\* fork() fails: client p has no process and nobody accepts any more.
ForkFail(p) == pc[p] = "fork" /\ Exit(p, "failed")

---------------------------------------------------------------------------
(* Serving client p *)

Members == {i \in Conns : slot[i] # -1}

\* ServerRecv() returns a message, and the broadcast begins.
Recv(p) ==
    /\ Goto(p, "recv", "send") \/ Goto(p, "sent", "send")
    /\ \E n \in 1 .. MaxMsg : Take(p, n)
    /\ nxt' = [nxt EXCEPT ![p] = 1]
    /\ got' = [got EXCEPT ![p] = {}]
    /\ wanted' = [wanted EXCEPT ![p] = Members]
    /\ UNCHANGED <<slot, fdt>>

\* The client left or the connection broke: ServerRecv() exits.
RecvOver(p) ==
    /\ pc[p] \in {"recv", "sent"}
    /\ AtEnd(p) \/ AtFail(p)
    /\ Exit(p, "exited")

\* What descriptor number slot[i] means in process p.
Target(p, i) == fdt[p][slot[i]]

InLoop(p) == pc[p] = "send" /\ nxt[p] <= MaxConn

SkipEmpty(p) ==
    /\ InLoop(p)
    /\ slot[nxt[p]] = -1
    /\ nxt' = [nxt EXCEPT ![p] = @ + 1]
    /\ UNCHANGED <<clientVars, slot, pc, fdt, got, wanted>>

\* send() works as long as no reset has been seen, even to a client that left.
Send(p) ==
    /\ InLoop(p)
    /\ slot[nxt[p]] # -1
    /\ LET c == Target(p, nxt[p]) IN
          /\ c # 0
          /\ peer[c] # "reset"
          /\ got' = [got EXCEPT ![p] = @ \cup {c}]
    /\ nxt' = [nxt EXCEPT ![p] = @ + 1]
    /\ UNCHANGED <<clientVars, slot, pc, fdt, wanted>>

\* send() fails, or SIGPIPE ends the process: the client is gone.
SendFail(p) ==
    /\ InLoop(p)
    /\ slot[nxt[p]] # -1
    /\ Target(p, nxt[p]) # 0
    /\ peer[Target(p, nxt[p])] = "reset"
    /\ Exit(p, "exited")

\* The number means nothing in this process: EBADF, exit(-1).
SendBadFd(p) ==
    /\ InLoop(p)
    /\ slot[nxt[p]] # -1
    /\ Target(p, nxt[p]) = 0
    /\ Exit(p, "ebadf")

\* Mutant: the index is not reset for the next message.
EndLoopOff(p) ==
    /\ nxt[p] > MaxConn
    /\ Goto(p, "send", "sent")
    /\ nxt' = [nxt EXCEPT ![p] = @ + 1]
    /\ UNCHANGED <<clientVars, slot, fdt, got, wanted>>

EndLoop(p) ==
    /\ nxt[p] > MaxConn
    /\ Goto(p, "send", "sent")
    /\ UNCHANGED <<clientVars, slot, fdt, nxt, got, wanted>>

---------------------------------------------------------------------------
Process(p) ==
    \/ Accept(p) \/ Fork(p) \/ ForkFail(p)
    \/ Recv(p) \/ RecvOver(p)
    \/ SkipEmpty(p) \/ Send(p) \/ SendFail(p) \/ SendBadFd(p) \/ EndLoop(p)

\* The listening socket is open in every process of the chain.
Clients ==
    /\ ClientNext
    /\ nconn' > nconn =>
          \E p \in Procs : pc[p] \notin {"none", "exited", "ebadf", "failed"}
    /\ UNCHANGED procVars

Next ==
    \/ \E p \in Conns : Process(p)
    \/ \E p \in Procs : AcceptFail(p)
    \/ Clients

Spec == Init /\ [][Next]_vars

---------------------------------------------------------------------------
(* Properties *)

\* The descriptor number of client i means client i in every process that has
\* that descriptor at all: a message is never sent to the wrong client,
\* although every process has its own table.
SlotMeansSameClient ==
    \A p \in Procs : \A i \in Members : Target(p, i) \in {0, i}

Over(p) == pc[p] \in {"sent", "ebadf"}

\* A broadcast of process p that is over reached the clients 1..p, all of
\* them, and nobody else: who joined later never hears earlier clients.
ReachesEarlierClients ==
    \A p \in Procs : Over(p) => got[p] = 1 .. p

\* "/* broadcast message to every client */": as long as no client has left,
\* a broadcast that is over reached every client in the array when the
\* message came in.
BroadcastReachesEveryone ==
    \A p \in Procs :
       Over(p) /\ (\A c \in Conns : peer[c] = "open") => wanted[p] \subseteq got[p]

\* The client whose own process is gone stays connected, to later processes
\* that send to it and read nothing from it, as long as one of them lives:
\* the server ends a connection only with the last process of the chain.
HeldByLaterOnes ==
    \A p \in Procs : \A q \in 1 .. p :
       pc[p] \in {"recv", "send", "sent"} => \E f \in Fds : fdt[p][f] = q

\* Whichever processes of the chain have ended, exactly one goes on accepting,
\* until accept() or fork() fails in it; then nobody ever does.
OneAcceptor ==
    IF \E p \in Procs : pc[p] = "failed"
    THEN \A p \in Procs : pc[p] \notin {"accept", "fork"}
    ELSE \E p \in Procs : \A q \in Procs : pc[q] \in {"accept", "fork"} <=> q = p

\* What the shared array is worth: its numbers mean the same clients in every
\* process, who is reached are the clients before, and they stay connected.
ArrayMeansClients == SlotMeansSameClient /\ ReachesEarlierClients /\ HeldByLaterOnes
=============================================================================
