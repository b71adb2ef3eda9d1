------------------------- MODULE EchoProcessServer -------------------------
(***************************************************************************)
(* TcpEchoServerMultiProcess_Server: the parent accepts connections and    *)
(* forks one child per connection; parent and child each have their own    *)
(* copy of every descriptor open at the fork.  A handler for SIGCHLD calls *)
(* wait() ONCE per signal, and signals that arrive while one is pending    *)
(* are merged into it.                                                     *)
(*                                                                         *)
(* Child c is the one forked for connection c; process 0 is the parent.    *)
(***************************************************************************)
EXTENDS TcpClients

CONSTANT MaxStop   \* how often children are stopped (kill -STOP, terminal)

ASSUME StopAssumption == MaxStop \in Nat

Procs == 0 .. MaxConn

VARIABLES status,   \* the parent: "run" or "exited"
          mpc,      \* the parent's loop: "init", "accept", "fork", "close"
          nacc,     \* connections accepted so far
          held,     \* held[p]: connections process p has a descriptor of
          cpc,      \* program counter of child c, "none" before the fork
          stopped,  \* children that are stopped
          stops,    \* number of stops so far
          pending,  \* SIGCHLD is pending for the parent
          inH,      \* the parent is in sigHandler_SIGCHLD
          served    \* served[c]: what was done with connection c (history)

procVars == <<status, mpc, nacc, held, cpc>>
sigVars == <<stopped, stops, pending, inH>>
vars == <<clientVars, procVars, sigVars, served>>

TypeOK ==
    /\ ClientTypeOK
    /\ status \in {"run", "exited"}
    /\ mpc \in {"init", "accept", "fork", "close"}
    /\ nacc \in 0 .. MaxConn
    /\ held \in [Procs -> SUBSET Conns]
    /\ cpc \in [Conns -> {"none", "lost", "recv", "reply", "close1", "close2",
                          "exit", "zombie", "reaped"}]
    /\ stopped \in SUBSET Conns
    /\ stops \in 0 .. MaxStop
    /\ pending \in BOOLEAN
    /\ inH \in BOOLEAN
    /\ served \in [Conns -> {"open", "got", "answered", "over", "shed"}]

Init ==
    /\ ClientInit
    /\ status = "run"
    /\ mpc = "init"
    /\ nacc = 0
    /\ held = [p \in Procs |-> {}]
    /\ cpc = [c \in Conns |-> "none"]
    /\ stopped = {}
    /\ stops = 0
    /\ pending = FALSE
    /\ inH = FALSE
    /\ served = [c \in Conns |-> "open"]

Zombies  == {c \in Conns : cpc[c] = "zombie"}
Alive(c) == cpc[c] \in {"recv", "reply", "close1", "close2", "exit"}

---------------------------------------------------------------------------
(* The parent's loop; it does not move while the signal handler runs *)

Parent == status = "run" /\ ~inH

\* signal(), InitInetSocket() and listen().
Setup ==
    /\ Parent
    /\ mpc = "init"
    /\ mpc' = "accept"
    /\ UNCHANGED <<clientVars, status, nacc, held, cpc, sigVars, served>>

\* One of them fails, or signal() returns the disposition it replaced and
\* that was not SIG_DFL: the code takes any other for a failure.
SetupFail ==
    /\ Parent
    /\ mpc = "init"
    /\ status' = "exited"
    /\ UNCHANGED <<clientVars, mpc, nacc, held, cpc, sigVars, served>>

Accept ==
    /\ Parent
    /\ mpc = "accept"
    /\ nacc < nconn
    /\ nacc' = nacc + 1
    /\ held' = [held EXCEPT ![0] = @ \cup {nacc + 1}]
    /\ mpc' = "fork"
    /\ UNCHANGED <<clientVars, status, cpc, sigVars, served>>

\* Mutant: the -1 of accept() is taken for a connection.
AcceptFailUnchecked ==
    /\ Parent
    /\ mpc = "accept"
    /\ nacc' = nacc + 1
    /\ held' = [held EXCEPT ![0] = @ \cup {nacc + 1}]
    /\ mpc' = "fork"
    /\ UNCHANGED <<clientVars, status, cpc, sigVars, served>>

\* accept() fails: the parent exits.  Its children are adopted by init, which
\* waits for those that have ended, and go on.
AcceptFail ==
    /\ Parent
    /\ mpc = "accept"
    /\ status' = "exited"
    /\ held' = [held EXCEPT ![0] = {}]
    /\ cpc' = [c \in Conns |-> IF cpc[c] = "zombie" THEN "reaped" ELSE cpc[c]]
    /\ pending' = FALSE
    /\ UNCHANGED <<clientVars, mpc, nacc, stopped, stops, inH, served>>

\* The child starts with a copy of the parent's descriptors.
Fork ==
    /\ Parent
    /\ mpc = "fork"
    /\ cpc' = [cpc EXCEPT ![nacc] = "recv"]
    /\ held' = [held EXCEPT ![nacc] = held[0]]
    /\ mpc' = "close"
    /\ UNCHANGED <<clientVars, status, nacc, sigVars, served>>

\* fork() = -1 is taken for the parent's return: nobody serves the client.
ForkFail ==
    /\ Parent
    /\ mpc = "fork"
    /\ cpc' = [cpc EXCEPT ![nacc] = "lost"]
    /\ served' = [served EXCEPT ![nacc] = "shed"]
    /\ mpc' = "close"
    /\ UNCHANGED <<clientVars, status, nacc, held, sigVars>>

\* Mutants: the parent keeps its copy of the descriptor; the parent also
\* collects a child that has ended.
ParentKeeps ==
    /\ Parent
    /\ mpc = "close"
    /\ mpc' = "accept"
    /\ UNCHANGED <<clientVars, status, nacc, held, cpc, sigVars, served>>

ParentCloseAndWait ==
    /\ Parent
    /\ mpc = "close"
    /\ held' = [held EXCEPT ![0] = @ \ {nacc}]
    /\ mpc' = "accept"
    /\ \E c \in Conns :
          cpc' = [cpc EXCEPT ![c] = IF @ = "zombie" THEN "reaped" ELSE @]
    /\ UNCHANGED <<clientVars, status, nacc, sigVars, served>>

ParentClose ==
    /\ Parent
    /\ mpc = "close"
    /\ held' = [held EXCEPT ![0] = @ \ {nacc}]
    /\ mpc' = "accept"
    /\ UNCHANGED <<clientVars, status, nacc, cpc, sigVars, served>>

---------------------------------------------------------------------------
(* sigHandler_SIGCHLD; SIGCHLD is blocked while it runs *)

Deliver ==
    /\ Parent
    /\ pending
    /\ pending' = FALSE
    /\ inH' = TRUE
    /\ UNCHANGED <<clientVars, procVars, stopped, stops, served>>

\* wait(NULL) returns one of the children that ended; with none of them it
\* blocks, and with no child at all it fails.
HandlerWait ==
    /\ inH
    /\ \E c \in Zombies : cpc' = [cpc EXCEPT ![c] = "reaped"]
    /\ inH' = FALSE
    /\ UNCHANGED <<clientVars, status, mpc, nacc, held, stopped, stops, pending,
                   served>>

HandlerNoChild ==
    /\ inH
    /\ Zombies = {}
    /\ \A c \in Conns : ~Alive(c)
    /\ inH' = FALSE
    /\ UNCHANGED <<clientVars, procVars, stopped, stops, pending, served>>

---------------------------------------------------------------------------
(* The children: ServerRecv, a second close() and the exit *)

Running(c) == Alive(c) /\ c \notin stopped

ChildAt(c, from, to) ==
    /\ Running(c)
    /\ cpc[c] = from
    /\ cpc' = [cpc EXCEPT ![c] = to]

RecvData(c) ==
    /\ ChildAt(c, "recv", "reply")
    /\ \E n \in 1 .. MaxMsg : Take(c, n)
    /\ served' = [served EXCEPT ![c] = "got"]
    /\ UNCHANGED <<status, mpc, nacc, held, sigVars>>

\* recv() = 0 or -1: ServerRecv returns without closing.
RecvOver(c) ==
    /\ ChildAt(c, "recv", "close2")
    /\ AtEnd(c) \/ AtFail(c)
    /\ served' = [served EXCEPT ![c] = "over"]
    /\ UNCHANGED <<clientVars, status, mpc, nacc, held, sigVars>>

\* Mutant: the child goes on receiving after its answer.
ReplyAndContinue(c) ==
    /\ ChildAt(c, "reply", "recv")
    /\ served' = [served EXCEPT ![c] = "answered"]
    /\ UNCHANGED <<clientVars, status, mpc, nacc, held, sigVars>>

\* send(sockFd, "666", 3, 0); it fails if the connection broke.
Reply(c) ==
    /\ ChildAt(c, "reply", "close1")
    /\ served' = IF peer[c] = "reset" THEN served
                                      ELSE [served EXCEPT ![c] = "answered"]
    /\ UNCHANGED <<clientVars, status, mpc, nacc, held, sigVars>>

\* The exit of a process closes its descriptors and signals the parent.
Exit(c) ==
    /\ held' = [held EXCEPT ![c] = {}]
    /\ cpc' = [cpc EXCEPT ![c] = IF status = "run" THEN "zombie" ELSE "reaped"]
    /\ pending' = (status = "run")
    /\ UNCHANGED <<clientVars, status, mpc, nacc, stopped, stops, inH, served>>

\* SIGPIPE ends the child.
ReplyKilled(c) ==
    /\ Running(c)
    /\ cpc[c] = "reply"
    /\ peer[c] = "reset"
    /\ Exit(c)

\* close(sockFd) in ServerRecv, then close(clientFd) in the caller, which
\* fails if the first was reached.
ChildClose(c) ==
    /\ ChildAt(c, "close1", "close2") \/ ChildAt(c, "close2", "exit")
    /\ held' = [held EXCEPT ![c] = @ \ {c}]
    /\ UNCHANGED <<clientVars, status, mpc, nacc, sigVars, served>>

ChildExit(c) ==
    /\ Running(c)
    /\ cpc[c] = "exit"
    /\ Exit(c)

\* A child that is stopped or continued also signals its parent.
ChildStop(c) ==
    /\ Running(c)
    /\ stops < MaxStop
    /\ stops' = stops + 1
    /\ stopped' = stopped \cup {c}
    /\ pending' = (status = "run")
    /\ UNCHANGED <<clientVars, procVars, inH, served>>

ChildCont(c) ==
    /\ c \in stopped
    /\ stopped' = stopped \ {c}
    /\ pending' = (status = "run")
    /\ UNCHANGED <<clientVars, procVars, stops, inH, served>>

---------------------------------------------------------------------------
Main ==
    \/ Setup \/ SetupFail \/ Accept \/ AcceptFail
    \/ Fork \/ ForkFail \/ ParentClose

Handler == Deliver \/ HandlerWait \/ HandlerNoChild

Child(c) ==
    \/ RecvData(c) \/ RecvOver(c) \/ Reply(c) \/ ReplyKilled(c)
    \/ ChildClose(c) \/ ChildExit(c)

\* The listening socket is open in the parent and in every child.
Listening == mpc # "init" /\ (status = "run" \/ \E c \in Conns : Alive(c))

Clients ==
    /\ ClientNext
    /\ nconn' > nconn => Listening
    /\ UNCHANGED <<procVars, sigVars, served>>

Next ==
    \/ Main \/ Handler \/ Clients
    \/ \E c \in Conns : Child(c) \/ ChildStop(c) \/ ChildCont(c)

Spec == Init /\ [][Next]_vars

\* Fair scheduling of the parent, of its handler and of every child; accept()
\* need not fail, clients need not do anything, stopped children stay so.
FairSpec ==
    /\ Spec
    /\ WF_vars(Setup \/ SetupFail \/ Accept \/ Fork \/ ForkFail \/ ParentClose)
    /\ WF_vars(Handler)
    /\ \A c \in Conns : WF_vars(Child(c))

---------------------------------------------------------------------------
(* Properties *)

\* A child never holds a descriptor of another client's connection, and the
\* parent at most one of the client it is forking for: what makes the end of
\* one child visible to its client and to nobody else.
OwnConnectionOnly ==
    /\ held[0] \subseteq {nacc}
    /\ \A c \in Conns : held[c] \subseteq {c}

\* However SIGCHLDs are merged, the wait() of the handler never blocks (and
\* never fails) as long as no child was stopped: each run of the handler finds
\* a child that ended.
HandlerFindsZombie == inH /\ stops = 0 => Zombies # {}

\* Every established connection is accepted, whatever the children and the
\* handler do, unless the parent exits or a stopped child made the handler
\* wait in vain.
AcceptsEveryone ==
    \A c \in Conns : c <= nconn ~> nacc >= c \/ status # "run" \/ stops > 0

\* The server is done with connection c: no process has it.
Released(c) == c <= nacc /\ \A p \in Procs : c \notin held[p]

\* A connection that was answered, ended or shed is closed by every process
\* that has it, so that the client sees its end.
ReleasesEveryone ==
    \A c \in Conns : served[c] # "open" ~> Released(c) \/ stops > 0

Phase == [c \in Conns |-> IF c > nconn THEN "none"
                          ELSE IF Released(c) THEN "closed" ELSE served[c]]

Service == INSTANCE EchoService WITH phase <- Phase

\* The process server is an echo service: connections are handled one by one
\* and independently, although parent and children share descriptors.
ImplementsService == Service!ServiceSpec

\* Descriptors and signals together: no process has another client's
\* connection, and the handler that interrupts the parent finds its zombie.
OwnConnectionOwnZombie == OwnConnectionOnly /\ HandlerFindsZombie

\* Every client gets in and, once it is answered or over, is let go.
EveryoneInAndOut == AcceptsEveryone /\ ReleasesEveryone
=============================================================================
