---------------------------- MODULE SelectServer ----------------------------
(***************************************************************************)
(* src/src/tcp/tcpEchoServerSelect.cpp: one thread, select() over the      *)
(* listening socket and the clients, whose descriptors are in              *)
(* saveClientFdSet; every client found readable is read until it closes.   *)
(* The bracket too many of line 135 is taken out.                          *)
(*                                                                         *)
(* saveClientFdSet[1024] = {-1} sets the first entry only; the others are  *)
(* 0, which is the standard input, not "none".  Descriptors are numbered   *)
(* as the kernel does, the lowest free one first; 0, 1, 2 are open when    *)
(* the program starts and the listening socket is 3.                       *)
(*                                                                         *)
(* FD_SETSIZE, 1024, is the size of an fd_set and of saveClientFdSet; a    *)
(* process may be allowed more descriptors (ulimit -n).                    *)
(***************************************************************************)
EXTENDS TcpClients, Integers, FiniteSetsExt

CONSTANT FD_SETSIZE

None == -1
Closed == 0     \* what a descriptor may be besides a connection
File == -1
Listener == -2
serverFd == 3

ASSUME SelectAssumption == FD_SETSIZE \in Nat /\ FD_SETSIZE > serverFd

Fds == 0..(serverFd + MaxConn)

VARIABLES
    connOf,           \* descriptor -> what is open there
    accepted,         \* connections accept() has returned
    saveClientFdSet, maxFd,
    sockFdSet, fdCnt, \* what select() left in the set and returned
    scanFd, iTimes,   \* the loop over the set
    selPc,            \* "select", "accept", "scan", "read"; at the end
                      \* "selectError", "acceptFailed" or "overrun"
    typed,            \* there is input on descriptor 0
    together          \* a select() found the listener and a client ready (history)

selectVars == <<connOf, accepted, saveClientFdSet, maxFd, sockFdSet, fdCnt,
                scanFd, iTimes, selPc, typed, together, clientVars>>

SelectInit ==
    /\ ClientInit
    /\ connOf = [fd \in Fds |-> IF fd < serverFd THEN File
                                ELSE IF fd = serverFd THEN Listener ELSE Closed]
    /\ accepted = 0
    /\ saveClientFdSet = [fd \in Fds |-> IF fd = 0 THEN None ELSE 0]
    /\ maxFd = serverFd + 1
    /\ sockFdSet = {} /\ fdCnt = 0 /\ scanFd = 0 /\ iTimes = 0
    /\ selPc = "select" /\ typed = FALSE /\ together = FALSE

Watched == {serverFd} \cup ({saveClientFdSet[idx] : idx \in 0..(maxFd - 1)} \ {None})

Readable(fd) ==
    CASE connOf[fd] = Listener -> nconn > accepted
      [] connOf[fd] = File     -> fd = 0 /\ typed
      [] connOf[fd] \in Conns    -> data[connOf[fd]] > 0 \/ peer[connOf[fd]] # "open"

-----------------------------------------------------------------------------
(* The set is filled and select() waits without limit; a descriptor that   *)
(* was closed makes it fail, which ends the program.                       *)
Select ==
    /\ selPc = "select"
    /\ \/ /\ \E fd \in Watched : connOf[fd] = Closed
          /\ selPc' = "selectError"
          /\ UNCHANGED <<sockFdSet, fdCnt, together>>
       \/ /\ \A fd \in Watched : connOf[fd] # Closed
          /\ sockFdSet' = {fd \in Watched : Readable(fd)}
          /\ sockFdSet' # {}
          /\ fdCnt' = Cardinality(sockFdSet')
          /\ together' = (together \/ (serverFd \in sockFdSet' /\ sockFdSet' # {serverFd}))
          /\ selPc' = IF serverFd \in sockFdSet' THEN "accept" ELSE "scan"
    /\ scanFd' = 0 /\ iTimes' = 0
    /\ UNCHANGED <<connOf, accepted, saveClientFdSet, maxFd, typed, clientVars>>

LowestFree == Min({fd \in Fds : connOf[fd] = Closed})

AcceptUncounted ==  \* mutant: fdCnt still counts the listening socket
    /\ selPc = "accept" /\ LowestFree < FD_SETSIZE
    /\ LET acceptFd == LowestFree
       IN /\ connOf' = [connOf EXCEPT ![acceptFd] = accepted + 1]
          /\ maxFd' = IF acceptFd >= maxFd THEN acceptFd + 1 ELSE maxFd
          /\ saveClientFdSet' = [saveClientFdSet EXCEPT ![acceptFd] = acceptFd]
    /\ accepted' = accepted + 1 /\ UNCHANGED fdCnt /\ selPc' = "scan"
    /\ UNCHANGED <<sockFdSet, scanFd, iTimes, typed, together, clientVars>>

Accept ==
    /\ selPc = "accept" /\ LowestFree < FD_SETSIZE
    /\ LET acceptFd == LowestFree
       IN /\ connOf' = [connOf EXCEPT ![acceptFd] = accepted + 1]
          /\ maxFd' = IF acceptFd >= maxFd THEN acceptFd + 1 ELSE maxFd
          /\ saveClientFdSet' = [saveClientFdSet EXCEPT ![acceptFd] = acceptFd]
    /\ accepted' = accepted + 1 /\ fdCnt' = fdCnt - 1 /\ selPc' = "scan"
    /\ UNCHANGED <<sockFdSet, scanFd, iTimes, typed, together, clientVars>>

(* accept() fails, when the descriptors are used up or for another reason, *)
(* and the program exits; or it returns one that is beyond the end of both *)
(* arrays, which nothing checks, and what the program does with the memory *)
(* behind them is not modelled.                                            *)
AcceptEnds ==
    /\ selPc = "accept"
    /\ selPc' \in {"acceptFailed"} \cup (IF LowestFree < FD_SETSIZE THEN {} ELSE {"overrun"})
    /\ UNCHANGED <<connOf, accepted, saveClientFdSet, maxFd, sockFdSet, fdCnt,
                   scanFd, iTimes, typed, together, clientVars>>

(* The loop ends after fdCnt descriptors of the set, or at maxFd; the bit  *)
(* of the listening socket is still in the set.                            *)
Scan ==
    /\ selPc = "scan"
    /\ LET ahead == {fd \in sockFdSet : fd >= scanFd /\ fd < maxFd}
       IN IF iTimes < fdCnt /\ ahead # {}
          THEN /\ scanFd' = Min(ahead) /\ iTimes' = iTimes + 1 /\ selPc' = "read"
          ELSE /\ selPc' = "select" /\ UNCHANGED <<scanFd, iTimes>>
    /\ UNCHANGED <<connOf, accepted, saveClientFdSet, maxFd, sockFdSet, fdCnt,
                   typed, together, clientVars>>

(* recv() of a client until it ends; while it has nothing to say EAGAIN    *)
(* turns the loop, and nobody else is served.                              *)
ReadData ==
    /\ selPc = "read" /\ connOf[scanFd] \in Conns
    /\ \E n \in 1..MaxMsg : Take(connOf[scanFd], n)
    /\ UNCHANGED <<connOf, accepted, saveClientFdSet, maxFd, sockFdSet, fdCnt,
                   scanFd, iTimes, selPc, typed, together>>

(* The end, or an error: on the listening socket and on the standard input *)
(* recv() always fails (ENOTCONN, ENOTSOCK).  All the same the entry is    *)
(* cleared and the descriptor closed.                                      *)
ReadEnd ==
    /\ selPc = "read"
    /\ LET c == connOf[scanFd] IN c \in Conns => AtEnd(c) \/ AtFail(c)
    /\ saveClientFdSet' = [saveClientFdSet EXCEPT ![scanFd] = None]
    /\ connOf' = [connOf EXCEPT ![scanFd] = Closed]
    /\ scanFd' = scanFd + 1 /\ selPc' = "scan"
    /\ UNCHANGED <<accepted, maxFd, sockFdSet, fdCnt, iTimes, typed, together, clientVars>>

(* Somebody types a line.                                                  *)
Typing ==
    /\ ~typed /\ typed' = TRUE
    /\ UNCHANGED <<connOf, accepted, saveClientFdSet, maxFd, sockFdSet, fdCnt,
                   scanFd, iTimes, selPc, together, clientVars>>

(* TcpEchoServerSelect_Client() and its connection.                        *)
SelectClients ==
    /\ ClientNext
    /\ UNCHANGED <<connOf, accepted, saveClientFdSet, maxFd, sockFdSet, fdCnt,
                   scanFd, iTimes, selPc, typed, together>>

SelectNext ==
    \/ Select \/ Accept \/ AcceptEnds \/ Scan \/ ReadData \/ ReadEnd
    \/ Typing \/ SelectClients

-----------------------------------------------------------------------------
SelectTypeOK ==
    /\ ClientTypeOK
    /\ connOf \in [Fds -> Conns \cup {File, Listener, Closed}]
    /\ accepted \in 0..nconn /\ maxFd \in (serverFd + 1)..(serverFd + MaxConn + 1)
    /\ \A fd \in Fds : saveClientFdSet[fd] \in {None, 0, fd}
    /\ sockFdSet \subseteq Fds /\ fdCnt \in Nat /\ iTimes \in Nat /\ scanFd \in 0..(serverFd + MaxConn + 1)
    /\ selPc \in {"select", "accept", "scan", "read", "selectError",
                  "acceptFailed", "overrun"}
    /\ typed \in BOOLEAN /\ together \in BOOLEAN

(* Besides a failed accept() the server ends when select() fails, for two  *)
(* reasons only, both far from that call: a line was typed (line 86 left   *)
(* zeros in saveClientFdSet), or a client was ready in the same turn as a  *)
(* new connection (line 130 still sees the bit of the listening socket).   *)
(* And the arrays are overrun only by a connection that finds all of       *)
(* FD_SETSIZE descriptors open: those that line 146 closed are used again. *)
EndsByTwoThings ==
    /\ selPc = "selectError" => typed \/ together
    /\ selPc = "overrun" => \A fd \in 0..(FD_SETSIZE - 1) : connOf[fd] # Closed

(* A client that is accepted and not closed is watched by every later      *)
(* select(), and no two descriptors are one connection: nobody is left out *)
(* whatever descriptors are reused.                                        *)
AcceptedIsWatched ==
    /\ \A fd \in Fds : connOf[fd] \in Conns => fd \in Watched
    /\ \A fd, other \in Fds : connOf[fd] = connOf[other] /\ connOf[fd] \in Conns => fd = other
=============================================================================
