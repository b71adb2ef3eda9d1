----------------------------- MODULE TcpClients -----------------------------
(***************************************************************************)
(* The clients of the TCP servers and the part of TCP the servers see.  A  *)
(* client (TcpEchoServerMultiProcess_Client, TcpChatMultiProcess_Client)   *)
(* connects, sends a number of messages and closes.  The network may break *)
(* a connection at any time, and a client that closes while the server     *)
(* still sends to it, or with an unread answer, resets it.                 *)
(*                                                                         *)
(* Connections are numbered in the order in which they are established,    *)
(* which is the order in which accept() hands them out.                    *)
(***************************************************************************)
EXTENDS Naturals

CONSTANTS MaxConn,  \* connections established in one execution
          MaxMsg    \* bound on sendTimes, the messages of one client

ASSUME ClientAssumption == MaxConn \in Nat \ {0} /\ MaxMsg \in Nat \ {0}

Conns == 1 .. MaxConn

VARIABLES nconn,  \* connections established so far
          sent,   \* sent[c]: messages client c has sent
          data,   \* data[c]: messages of c that the server has not received
          peer    \* peer[c]: what the server's socket knows of its peer

clientVars == <<nconn, sent, data, peer>>

ClientTypeOK ==
    /\ nconn \in 0 .. MaxConn
    /\ sent \in [Conns -> 0 .. MaxMsg]
    /\ data \in [Conns -> 0 .. MaxMsg]
    /\ \A c \in Conns : data[c] <= sent[c]
    /\ peer \in [Conns -> {"open", "closed", "reset"}]

ClientInit ==
    /\ nconn = 0
    /\ sent = [c \in Conns |-> 0]
    /\ data = [c \in Conns |-> 0]
    /\ peer = [c \in Conns |-> "open"]

\* ConnectServer() succeeds: the kernel completes the handshake and queues
\* the connection for accept().
Connect ==
    /\ nconn < MaxConn
    /\ nconn' = nconn + 1
    /\ UNCHANGED <<sent, data, peer>>

\* One iteration of the client's send loop.
ClientSend(c) ==
    /\ c <= nconn
    /\ peer[c] = "open"
    /\ sent[c] < MaxMsg
    /\ sent' = [sent EXCEPT ![c] = @ + 1]
    /\ data' = [data EXCEPT ![c] = @ + 1]
    /\ UNCHANGED <<nconn, peer>>

\* The client closes its socket and the server's kernel gets the FIN.
ClientClose(c) ==
    /\ c <= nconn
    /\ peer[c] = "open"
    /\ peer' = [peer EXCEPT ![c] = "closed"]
    /\ UNCHANGED <<nconn, sent, data>>

\* The server's kernel gets a RST: the connection broke, or the client had
\* closed without reading the server's answer.
ConnReset(c) ==
    /\ c <= nconn
    /\ peer[c] # "reset"
    /\ peer' = [peer EXCEPT ![c] = "reset"]
    /\ UNCHANGED <<nconn, sent, data>>

ClientNext ==
    \/ Connect
    \/ \E c \in Conns : ClientSend(c) \/ ClientClose(c) \/ ConnReset(c)

---------------------------------------------------------------------------
\* The possible outcomes of recv() on connection c, which blocks while there
\* is none: one call takes some of the queued messages; the end of the
\* stream and an error are reported once the queue is empty.
Take(c, n) ==
    /\ n \in 1 .. data[c]
    /\ data' = [data EXCEPT ![c] = @ - n]
    /\ UNCHANGED <<nconn, sent, peer>>

AtEnd(c)  == data[c] = 0 /\ peer[c] = "closed"
AtFail(c) == data[c] = 0 /\ peer[c] = "reset"
=============================================================================
