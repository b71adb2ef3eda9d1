---------------------------- MODULE EchoService ----------------------------
(***************************************************************************)
(* What an echo server of tcpEchoServerMultiProcess.cpp promises: every    *)
(* connection is handled for itself.  It is answered at most once, and     *)
(* only after a message of this very client was received; it is closed     *)
(* when it was answered, when its client ended, or when the server had to  *)
(* shed it; no step for one connection touches another.                    *)
(***************************************************************************)
EXTENDS TcpClients

VARIABLE phase   \* phase[c]: how far the service has got with connection c

Phases == {"none", "open", "got", "answered", "over", "shed", "closed"}

ServiceInit ==
    /\ ClientInit
    /\ phase = [c \in Conns |-> "none"]

Move(c, from, to) ==
    /\ phase[c] = from
    /\ phase' = [phase EXCEPT ![c] = to]

Establish == Connect /\ Move(nconn + 1, "none", "open")

Receive(c) == Move(c, "open", "got") /\ \E n \in 1 .. MaxMsg : Take(c, n)

Answer(c) == Move(c, "got", "answered") /\ UNCHANGED clientVars

\* The client's stream ended or broke before a message was received.
Over(c) ==
    /\ AtEnd(c) \/ AtFail(c)
    /\ Move(c, "open", "over")
    /\ UNCHANGED clientVars

\* No process could be made for the connection.
Shed(c) == Move(c, "open", "shed") /\ UNCHANGED clientVars

Close(c) ==
    /\ \E p \in {"got", "answered", "over", "shed"} : Move(c, p, "closed")
    /\ UNCHANGED clientVars

ServiceNext ==
    \/ Establish
    \/ \E c \in Conns :
          \/ Receive(c) \/ Answer(c) \/ Over(c) \/ Shed(c) \/ Close(c)
          \/ /\ ClientSend(c) \/ ClientClose(c) \/ ConnReset(c)
             /\ UNCHANGED phase

ServiceSpec == ServiceInit /\ [][ServiceNext]_<<clientVars, phase>>
=============================================================================
