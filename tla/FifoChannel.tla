---------------------------- MODULE FifoChannel ----------------------------
(***************************************************************************)
(* src/src/pipe/fifoTest.cpp: programs that meet at the name of a FIFO.  A *)
(* receiver creates the FIFO, opens it and reads; a sender opens it and    *)
(* writes.  On SIGINT either closes what gFifoFd says and unlinks the      *)
(* name.                                                                   *)
(*                                                                         *)
(* A FIFO is called after the receiver that created it.  open() waits      *)
(* until the other side has opened the FIFO too.  The handler is installed *)
(* without SA_RESTART, so that SIGINT ends a waiting open(); gFifoFd is 0, *)
(* the standard input, until open() has returned and its result is stored. *)
(* A process is followed from RegisterSignal() on.  Fewer messages wait in *)
(* a FIFO than one read() takes; reading the end of the file changes       *)
(* nothing.                                                                *)
(***************************************************************************)
EXTENDS Naturals

CONSTANTS
    Receivers, Senders,   \* the processes
    NoFifo,
    FifoCapacity,         \* bound: messages a FIFO holds
    MaxSigints            \* bound: SIGINTs, of all processes

ASSUME FifoAssumption ==
    /\ NoFifo \notin Receivers /\ Receivers \cap Senders = {}
    /\ FifoCapacity \in Nat /\ MaxSigints \in Nat

VARIABLES
    fifoPc,     \* where each process is
    fifoName,   \* the FIFO that has the name gFifoName
    opened,     \* the FIFO a process has open, or is opening
    met,        \* the other side has come since the process called open()
    inHandler,  \* SigHandler has closed gFifoFd and not yet unlinked the name
    sigints,    \* SIGINTs so far
    buffered    \* messages in each FIFO

fifoVars == <<fifoPc, fifoName, opened, met, inHandler, sigints, buffered>>

Processes == Receivers \cup Senders

FifoInit ==
    /\ fifoPc = [p \in Processes |-> IF p \in Receivers THEN "mkfifo" ELSE "open"]
    /\ fifoName = NoFifo
    /\ opened = [p \in Processes |-> NoFifo]
    /\ met = [p \in Processes |-> FALSE]
    /\ inHandler = [p \in Processes |-> FALSE]
    /\ sigints = 0
    /\ buffered = [r \in Receivers |-> 0]

OtherSide(p) == IF p \in Receivers THEN Senders ELSE Receivers

(* A process runs its own code when it is not in the handler.              *)
At(p, place) == fifoPc[p] = place /\ ~inHandler[p]
GoTo(p, place) == fifoPc' = [fifoPc EXCEPT ![p] = place]

(* The last process to close a FIFO takes what is in it along.             *)
CloseFd(p) ==
    /\ opened' = [opened EXCEPT ![p] = NoFifo]
    /\ buffered' = [r \in Receivers |->
            IF \E q \in Processes \ {p} : opened[q] = r THEN buffered[r] ELSE 0]

Unlink == fifoName' = NoFifo

-----------------------------------------------------------------------------
Mkfifo(r) ==
    /\ At(r, "mkfifo") /\ fifoName = NoFifo
    /\ fifoName' = r
    /\ GoTo(r, "open")
    /\ UNCHANGED <<opened, met, inHandler, sigints, buffered>>

(* mutant: perrorExit("mkfifo fail", UNLINK).                              *)
MkfifoFailUnlinks(r) ==
    /\ At(r, "mkfifo") /\ fifoName # NoFifo
    /\ GoTo(r, "unlink")
    /\ UNCHANGED <<fifoName, opened, met, inHandler, sigints, buffered>>

(* The name exists: perrorExit() at level EXIT.                            *)
MkfifoFail(r) ==
    /\ At(r, "mkfifo") /\ fifoName # NoFifo
    /\ GoTo(r, "exit")
    /\ UNCHANGED <<fifoName, opened, met, inHandler, sigints, buffered>>

(* open() finds the name and meets whoever has the other end of the FIFO.  *)
Open(p) ==
    LET partners == {q \in OtherSide(p) : opened[q] = fifoName} IN
    /\ At(p, "open") /\ fifoName # NoFifo
    /\ GoTo(p, "opening")
    /\ opened' = [opened EXCEPT ![p] = fifoName]
    /\ met' = [q \in Processes |-> \/ met[q]
                                   \/ q \in partners
                                   \/ q = p /\ partners # {}]
    /\ UNCHANGED <<fifoName, inHandler, sigints, buffered>>

OpenReturns(p) ==
    /\ At(p, "opening") /\ met[p]
    /\ GoTo(p, IF p \in Receivers THEN "read" ELSE "write")
    /\ UNCHANGED <<fifoName, opened, met, inHandler, sigints, buffered>>

(* There is no such name: perrorExit() at level UNLINK.                    *)
OpenFail(p) ==
    /\ At(p, "open") /\ fifoName = NoFifo
    /\ GoTo(p, "unlink")
    /\ UNCHANGED <<fifoName, opened, met, inHandler, sigints, buffered>>

PerrorUnlink(p) ==
    /\ At(p, "unlink")
    /\ Unlink
    /\ GoTo(p, "exit")
    /\ UNCHANGED <<opened, met, inHandler, sigints, buffered>>

PerrorClose(p) ==
    /\ At(p, "exit")
    /\ CloseFd(p)
    /\ GoTo(p, "ended")
    /\ UNCHANGED <<fifoName, met, inHandler, sigints>>

Read(r) ==
    /\ At(r, "read") /\ opened[r] # NoFifo
    /\ buffered[opened[r]] > 0
    /\ buffered' = [buffered EXCEPT ![opened[r]] = 0]
    /\ UNCHANGED <<fifoPc, fifoName, opened, met, inHandler, sigints>>

(* The handler has closed the FIFO: perrorExit() at level CLOSE.           *)
ReadFail(r) ==
    /\ At(r, "read") /\ opened[r] = NoFifo
    /\ GoTo(r, "unlink")
    /\ UNCHANGED <<fifoName, opened, met, inHandler, sigints, buffered>>

HasReader(f) == \E r \in Receivers : opened[r] = f

(* A sender whose FIFO the handler has closed fails to write for ever.     *)
Write(s) ==
    /\ At(s, "write") /\ opened[s] # NoFifo
    /\ HasReader(opened[s]) /\ buffered[opened[s]] < FifoCapacity
    /\ buffered' = [buffered EXCEPT ![opened[s]] = @ + 1]
    /\ UNCHANGED <<fifoPc, fifoName, opened, met, inHandler, sigints>>

(* Nobody reads any more: SIGPIPE.                                         *)
Sigpipe(s) ==
    /\ At(s, "write") /\ opened[s] # NoFifo
    /\ ~HasReader(opened[s])
    /\ CloseFd(s)
    /\ GoTo(s, "killed")
    /\ UNCHANGED <<fifoName, met, inHandler, sigints>>

RecvProcess(r) ==
    \/ Mkfifo(r) \/ MkfifoFail(r) \/ Open(r) \/ OpenReturns(r) \/ OpenFail(r)
    \/ Read(r) \/ ReadFail(r) \/ PerrorUnlink(r) \/ PerrorClose(r)

SendProcess(s) ==
    \/ Open(s) \/ OpenReturns(s) \/ OpenFail(s)
    \/ Write(s) \/ Sigpipe(s) \/ PerrorUnlink(s) \/ PerrorClose(s)

-----------------------------------------------------------------------------
Running(p) == fifoPc[p] \notin {"ended", "killed"}

(* SIGINT: an open() that still waits fails, and perrorExit() follows the  *)
(* handler; one that has met the other side returns after it, with gFifoFd *)
(* still 0 when the handler closes it.                                     *)
Sigint(p) ==
    LET waits == fifoPc[p] = "opening" /\ ~met[p] IN
    /\ Running(p) /\ ~inHandler[p] /\ sigints < MaxSigints
    /\ sigints' = sigints + 1
    /\ inHandler' = [inHandler EXCEPT ![p] = TRUE]
    /\ IF waits THEN GoTo(p, "unlink") ELSE UNCHANGED fifoPc
    /\ IF waits \/ fifoPc[p] \in {"read", "write"}
         THEN CloseFd(p) ELSE UNCHANGED <<opened, buffered>>
    /\ UNCHANGED <<fifoName, met>>

HandlerUnlink(p) ==
    /\ inHandler[p]
    /\ Unlink
    /\ inHandler' = [inHandler EXCEPT ![p] = FALSE]
    /\ UNCHANGED <<fifoPc, opened, met, sigints, buffered>>

FifoStep(p) ==
    \/ p \in Receivers /\ RecvProcess(p)
    \/ p \in Senders /\ SendProcess(p)
    \/ HandlerUnlink(p)

FifoNext == \E p \in Processes : FifoStep(p) \/ Sigint(p)

-----------------------------------------------------------------------------
Fifos == Receivers \cup {NoFifo}

FifoTypeOK ==
    /\ fifoPc \in [Processes -> {"mkfifo", "open", "opening", "read", "write",
                                 "unlink", "exit", "ended", "killed"}]
    /\ fifoName \in Fifos
    /\ opened \in [Processes -> Fifos]
    /\ met \in [Processes -> BOOLEAN]
    /\ inHandler \in [Processes -> BOOLEAN]
    /\ sigints \in 0..MaxSigints
    /\ buffered \in [Receivers -> 0..FifoCapacity]

(* Whoever unlinks a name, and whoever creates it again in between, a name *)
(* is never left behind by a receiver that has ended.                      *)
NoFifoLeft ==
    \A r \in Receivers : fifoName = r => Running(r)

(* As long as there is no SIGINT and every sender comes when the name is   *)
(* there, the receiver that made the FIFO can be reached by it: a second   *)
(* receiver that fails to make it does not take it away.                   *)
FifoNameKept ==
    \A r \in Receivers :
        /\ fifoPc[r] \in {"open", "opening", "read"}
        /\ sigints = 0
        /\ \A s \in Senders : fifoPc[s] \notin {"unlink", "exit", "ended"}
        => fifoName = r

(* The name of a FIFO and the receiver that serves it.                     *)
FifoNameOwned == NoFifoLeft /\ FifoNameKept

(* SIGINT ends a receiver that waits in open() or has stored the           *)
(* descriptor, although the handler itself only closes and unlinks.        *)
EndsAfterSigint ==
    \A r \in Receivers :
        (inHandler[r] /\ fifoPc[r] \in {"unlink", "read"}) ~> fifoPc[r] = "ended"
=============================================================================
