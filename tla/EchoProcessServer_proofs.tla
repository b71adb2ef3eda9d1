---------------------- MODULE EchoProcessServer_proofs ----------------------
(***************************************************************************)
(* Proofs about EchoProcessServer for any number of connections, messages  *)
(* and stops.                                                              *)
(***************************************************************************)
EXTENDS EchoProcessServer, TLAPS

\* The parent's loop: which connection it has at which point, and which
\* children exist.
ParentLoop ==
    /\ nacc <= nconn
    /\ mpc = "init" => nacc = 0 /\ ~pending /\ ~inH
    /\ mpc \in {"init", "accept"} => held[0] = {}
    /\ mpc \in {"fork", "close"} => nacc \in Conns /\ held[0] \subseteq {nacc}
    /\ mpc = "fork" => held[0] = {nacc}
    /\ \A c \in Conns :
          cpc[c] = "none" <=> c > nacc \/ (c = nacc /\ mpc = "fork")

\* The children: what child c has and has done at each point of ServerRecv.
Children ==
    \A c \in Conns :
       /\ held[c] \subseteq {c}
       /\ c \in stopped => Alive(c)
       /\ cpc[c] = "none" => held[c] = {} /\ served[c] = "open"
       /\ cpc[c] = "lost" => held[c] = {} /\ served[c] = "shed"
       /\ cpc[c] = "recv" => c \in held[c] /\ served[c] = "open"
       /\ cpc[c] = "reply" => c \in held[c] /\ served[c] = "got"
       /\ cpc[c] = "close1" => c \in held[c] /\ served[c] \in {"got", "answered"}
       /\ cpc[c] = "close2" => served[c] \in {"got", "answered", "over"}
       /\ cpc[c] \in {"exit", "zombie", "reaped"} =>
             held[c] = {} /\ served[c] \in {"got", "answered", "over"}

\* A SIGCHLD that is pending and one that is being handled each stand for a
\* child that ended, and for different ones.
Signals ==
    /\ status = "exited" => ~inH /\ ~pending
    /\ stops = 0 =>
          /\ stopped = {}
          /\ inH \/ pending => Zombies # {}
          /\ inH /\ pending => \E b, c \in Zombies : b # c

\* The inductive invariant.
IInv == TypeOK /\ ParentLoop /\ Children /\ Signals

---------------------------------------------------------------------------
LEMMA InitIInv == Init => IInv
<1> SUFFICES ASSUME Init PROVE IInv
  OBVIOUS
<1> USE ClientAssumption, StopAssumption DEF Init, ClientInit, Procs, Conns
<1>1. TypeOK
  <2>1. ClientTypeOK
    BY DEF ClientTypeOK
  <2>2. pending \in BOOLEAN /\ inH \in BOOLEAN
    BY Zenon
  <2>3. /\ nacc \in 0 .. MaxConn /\ stops \in 0 .. MaxStop
        /\ stopped \in SUBSET Conns
    OBVIOUS
  <2> QED
    BY <2>1, <2>2, <2>3 DEF TypeOK
<1>2. ParentLoop
  BY DEF ParentLoop
<1>3. Children
  BY DEF Children, Alive
<1>4. Signals
  BY DEF Signals
<1> QED
  BY <1>1, <1>2, <1>3, <1>4 DEF IInv

\* What the clients and recv() do to the network keeps its type.
LEMMA ClientStep ==
  ASSUME ClientTypeOK,
         ClientNext \/ \E c \in Conns, n \in 1 .. MaxMsg : Take(c, n)
  PROVE  ClientTypeOK'
<1> USE ClientAssumption DEF ClientTypeOK, Conns
<1>1. CASE Connect
  BY <1>1 DEF Connect
<1>2. ASSUME NEW c \in Conns, ClientSend(c) PROVE ClientTypeOK'
  <2>1. sent[c] + 1 \in 0 .. MaxMsg /\ data[c] + 1 \in 0 .. MaxMsg
    BY <1>2 DEF ClientSend
  <2> QED
    BY <1>2, <2>1 DEF ClientSend
<1>3. ASSUME NEW c \in Conns, ClientClose(c) \/ ConnReset(c)
      PROVE  ClientTypeOK'
  BY <1>3 DEF ClientClose, ConnReset
<1>4. ASSUME NEW c \in Conns, NEW n \in 1 .. MaxMsg, Take(c, n)
      PROVE  ClientTypeOK'
  <2>1. data[c] - n \in 0 .. MaxMsg /\ data[c] - n <= sent[c]
    BY <1>4 DEF Take
  <2>2. /\ data' = [data EXCEPT ![c] = data[c] - n]
        /\ UNCHANGED <<nconn, sent, peer>>
    BY <1>4 DEF Take
  <2>3. data' \in [Conns -> 0 .. MaxMsg] /\ \A d \in Conns : data'[d] <= sent[d]
    BY <2>1, <2>2
  <2> QED
    BY <2>2, <2>3
<1> QED
  BY <1>1, <1>2, <1>3, <1>4 DEF ClientNext

\* Type correctness is kept by every step.
LEMMA NextType == IInv /\ [Next]_vars => TypeOK'
<1> SUFFICES ASSUME IInv, [Next]_vars PROVE TypeOK'
  OBVIOUS
<1> USE ClientAssumption, StopAssumption
    DEF IInv, TypeOK, ParentLoop, Alive, Zombies, Procs, Conns, procVars, sigVars
<1>a. clientVars' = clientVars => ClientTypeOK'
  BY DEF clientVars, ClientTypeOK
<1>b. nacc < nconn => nacc + 1 \in Conns
  BY DEF ClientTypeOK
<1>1. CASE UNCHANGED vars
  BY <1>1, <1>a DEF vars
<1>2. CASE Clients
  BY <1>2, ClientStep DEF Clients
<1>3. CASE Setup \/ SetupFail
  BY <1>3, <1>a DEF Setup, SetupFail, Parent
<1>4. CASE Accept
  BY <1>4, <1>a, <1>b DEF Accept, Parent
<1>5. CASE AcceptFail
  BY <1>5, <1>a DEF AcceptFail, Parent
<1>6. CASE Fork
  BY <1>6, <1>a DEF Fork, Parent
<1>7. CASE ForkFail
  BY <1>7, <1>a DEF ForkFail, Parent
<1>8. CASE ParentClose
  BY <1>8, <1>a DEF ParentClose, Parent
<1>9. CASE Deliver \/ HandlerNoChild
  BY <1>9, <1>a DEF Deliver, HandlerNoChild, Parent
<1>10. CASE HandlerWait
  BY <1>10, <1>a DEF HandlerWait, Parent
<1>11. ASSUME NEW c \in Conns, RecvData(c) PROVE TypeOK'
  <2>1. ClientTypeOK'
    BY <1>11, ClientStep DEF RecvData
  <2> QED
    BY <1>11, <2>1 DEF RecvData, ChildAt
<1>12. ASSUME NEW c \in Conns, RecvOver(c) PROVE TypeOK'
  BY <1>12, <1>a DEF RecvOver, ChildAt
<1>13. ASSUME NEW c \in Conns, ReplyKilled(c) \/ ChildExit(c)
      PROVE  TypeOK'
  <2>1. Exit(c)
    BY <1>13 DEF ReplyKilled, ChildExit
  <2> QED
    BY <2>1, <1>a DEF Exit
<1>14. ASSUME NEW c \in Conns, ChildClose(c) PROVE TypeOK'
  BY <1>14, <1>a DEF ChildClose, ChildAt
<1>15. ASSUME NEW c \in Conns, ChildStop(c) PROVE TypeOK'
  <2>1. stops' \in 0 .. MaxStop /\ stopped' \in SUBSET Conns
    BY <1>15, <1>a DEF ChildStop
  <2>2. pending' \in BOOLEAN
    BY <1>15, <1>a DEF ChildStop
  <2>3. UNCHANGED <<clientVars, status, mpc, nacc, held, cpc, inH, served>>
    BY <1>15 DEF ChildStop
  <2> QED
    BY <2>1, <2>2, <2>3, <1>a
<1>16. ASSUME NEW c \in Conns, ChildCont(c) PROVE TypeOK'
  BY <1>16, <1>a DEF ChildCont
<1>17. ASSUME NEW c \in Conns, Reply(c) PROVE TypeOK'
  BY <1>17, <1>a DEF Reply, ChildAt
<1> QED
  BY <1>1, <1>2, <1>3, <1>4, <1>5, <1>6, <1>7, <1>8, <1>9, <1>10, <1>11,
     <1>12, <1>13, <1>14, <1>15, <1>16, <1>17
  DEF Next, Main, Handler, Child

\* The parent's loop keeps account of what it has accepted and forked.
LEMMA NextParentLoop == IInv /\ [Next]_vars => ParentLoop'
<1> SUFFICES ASSUME IInv, [Next]_vars PROVE ParentLoop'
  OBVIOUS
<1> USE ClientAssumption, StopAssumption
    DEF IInv, TypeOK, ParentLoop, Children, Alive, Zombies, Procs, Conns,
        clientVars, procVars, sigVars
<1>1. CASE UNCHANGED vars
  BY <1>1 DEF vars
<1>2. CASE Clients
  <2>1. nconn \in Nat /\ nconn' \in Nat /\ nconn' >= nconn
    <3>1. nconn' = nconn \/ nconn' = nconn + 1
      BY <1>2 DEF Clients, ClientNext, Connect, ClientSend, ClientClose, ConnReset
    <3> QED
      BY <3>1 DEF ClientTypeOK
  <2>2. UNCHANGED <<procVars, sigVars>>
    BY <1>2 DEF Clients
  <2> QED
    BY <2>1, <2>2
<1>3. CASE Setup \/ SetupFail
  BY <1>3 DEF Setup, SetupFail, Parent
<1>4. CASE Accept
  <2>1. /\ nacc \in 0 .. MaxConn /\ nacc' = nacc + 1 /\ nacc' <= nconn
        /\ nconn' = nconn /\ nacc' \in Conns
    BY <1>4 DEF Accept, ClientTypeOK
  <2>2. held'[0] = {nacc'} /\ cpc' = cpc /\ mpc = "accept" /\ mpc' = "fork"
    BY <1>4, <2>1 DEF Accept
  <2>3. ASSUME NEW c \in Conns
        PROVE  cpc'[c] = "none" <=> c > nacc' \/ c = nacc'
    BY <2>1, <2>2
  <2> QED
    BY <2>1, <2>2, <2>3
<1>5. CASE AcceptFail
  BY <1>5 DEF AcceptFail, Parent
<1>6. CASE Fork
  BY <1>6 DEF Fork, Parent
<1>7. CASE ForkFail
  BY <1>7 DEF ForkFail, Parent
<1>8. CASE ParentClose
  BY <1>8 DEF ParentClose, Parent
<1>9. CASE Deliver \/ HandlerNoChild
  BY <1>9 DEF Deliver, HandlerNoChild, Parent
<1>10. CASE HandlerWait
  BY <1>10 DEF HandlerWait, Parent
<1>11. ASSUME NEW c \in Conns, RecvData(c) PROVE ParentLoop'
  BY <1>11 DEF RecvData, Take, ChildAt, Running
<1>12. ASSUME NEW c \in Conns, RecvOver(c) \/ Reply(c)
      PROVE  ParentLoop'
  BY <1>12 DEF RecvOver, ChildAt, Running, Reply
<1>13. ASSUME NEW c \in Conns, ReplyKilled(c) \/ ChildExit(c)
      PROVE  ParentLoop'
  BY <1>13 DEF ReplyKilled, Exit, Running, ChildExit
<1>14. ASSUME NEW c \in Conns, ChildClose(c) PROVE ParentLoop'
  BY <1>14 DEF ChildClose, ChildAt, Running
<1>15. ASSUME NEW c \in Conns, ChildStop(c) \/ ChildCont(c)
      PROVE  ParentLoop'
  BY <1>15 DEF ChildStop, Running, ChildCont
<1> QED
  BY <1>1, <1>2, <1>3, <1>4, <1>5, <1>6, <1>7, <1>8, <1>9, <1>10, <1>11,
     <1>12, <1>13, <1>14, <1>15
  DEF Next, Main, Handler, Child

\* Every child has its own connection only, until it has closed it.
LEMMA NextChildren == IInv /\ [Next]_vars => Children'
<1> SUFFICES ASSUME IInv, [Next]_vars PROVE Children'
  OBVIOUS
<1> USE ClientAssumption, StopAssumption
    DEF IInv, TypeOK, ParentLoop, Children, Alive, Zombies, Procs, Conns,
        clientVars, procVars, sigVars
<1>1. CASE UNCHANGED vars
  BY <1>1 DEF vars
<1>2. CASE Clients
  BY <1>2 DEF Clients, ClientNext, Connect, ClientSend, ClientClose, ConnReset,
     ClientTypeOK
<1>3. CASE Setup \/ SetupFail
  BY <1>3 DEF Setup, SetupFail, Parent
<1>4. CASE Accept
  BY <1>4 DEF Accept, Parent
<1>5. CASE AcceptFail
  BY <1>5 DEF AcceptFail, Parent
<1>6. CASE Fork
  BY <1>6 DEF Fork, Parent
<1>7. CASE ForkFail
  BY <1>7 DEF ForkFail, Parent
<1>8. CASE ParentClose
  BY <1>8 DEF ParentClose, Parent
<1>9. CASE Deliver \/ HandlerNoChild
  BY <1>9 DEF Deliver, HandlerNoChild, Parent
<1>10. CASE HandlerWait
  BY <1>10 DEF HandlerWait, Parent
<1>11. ASSUME NEW c \in Conns, RecvData(c) PROVE Children'
  BY <1>11 DEF RecvData, Take, ChildAt, Running
<1>12. ASSUME NEW c \in Conns, RecvOver(c) PROVE Children'
  BY <1>12 DEF RecvOver, ChildAt, Running
<1>13. ASSUME NEW c \in Conns, Reply(c) PROVE Children'
  BY <1>13 DEF Reply, ChildAt, Running
<1>14. ASSUME NEW c \in Conns, ReplyKilled(c) PROVE Children'
  BY <1>14 DEF ReplyKilled, Exit, Running
<1>15. ASSUME NEW c \in Conns, ChildClose(c) PROVE Children'
  BY <1>15 DEF ChildClose, ChildAt, Running
<1>16. ASSUME NEW c \in Conns, ChildExit(c) PROVE Children'
  BY <1>16 DEF ChildExit, Exit, Running
<1>17. ASSUME NEW c \in Conns, ChildStop(c) PROVE Children'
  BY <1>17 DEF ChildStop, Running
<1>18. ASSUME NEW c \in Conns, ChildCont(c) PROVE Children'
  BY <1>18 DEF ChildCont
<1> QED
  BY <1>1, <1>2, <1>3, <1>4, <1>5, <1>6, <1>7, <1>8, <1>9, <1>10, <1>11,
     <1>12, <1>13, <1>14, <1>15, <1>16, <1>17, <1>18
  DEF Next, Main, Handler, Child

\* An exit adds an ended child and at most one signal; the handler's wait()
\* takes one ended child and leaves the other to the signal that is pending.
LEMMA NextSignals == IInv /\ [Next]_vars => Signals'
<1> SUFFICES ASSUME IInv, [Next]_vars PROVE Signals'
  OBVIOUS
<1> USE ClientAssumption, StopAssumption
    DEF IInv, TypeOK, ParentLoop, Children, Signals, Zombies, Alive, Procs,
        Conns, clientVars, procVars, sigVars
<1>1. CASE UNCHANGED vars
  BY <1>1 DEF vars
<1>2. CASE Clients
  BY <1>2 DEF Clients, ClientNext, Connect, ClientSend, ClientClose, ConnReset,
     ClientTypeOK
<1>3. CASE Setup
  BY <1>3 DEF Setup, Parent
<1>4. CASE SetupFail
  BY <1>4 DEF SetupFail, Parent
<1>5. CASE Accept
  BY <1>5 DEF Accept, Parent
<1>6. CASE AcceptFail
  BY <1>6 DEF AcceptFail, Parent
<1>7. CASE Fork
  BY <1>7 DEF Fork, Parent
<1>8. CASE ForkFail
  BY <1>8 DEF ForkFail, Parent
<1>9. CASE ParentClose
  BY <1>9 DEF ParentClose, Parent
<1>10. CASE Deliver
  BY <1>10 DEF Deliver, Parent
<1>11. CASE HandlerWait
  <2>1. PICK z \in Conns : cpc[z] = "zombie" /\ cpc' = [cpc EXCEPT ![z] = "reaped"]
    BY <1>11 DEF HandlerWait
  <2>2. inH /\ ~inH' /\ UNCHANGED <<status, stops, stopped, pending>>
    BY <1>11 DEF HandlerWait
  <2>3. ASSUME stops = 0, pending
        PROVE  \E b \in Conns : cpc'[b] = "zombie"
    <3>1. PICK b \in Conns : cpc[b] = "zombie" /\ b # z
      BY <2>2, <2>3
    <3> QED
      BY <2>1, <3>1
  <2> QED
    BY <2>2, <2>3
<1>12. CASE HandlerNoChild
  BY <1>12 DEF HandlerNoChild, Parent
<1>13. ASSUME NEW c \in Conns, RecvData(c) PROVE Signals'
  BY <1>13 DEF RecvData, Take, ChildAt, Running
<1>14. ASSUME NEW c \in Conns, RecvOver(c) PROVE Signals'
  BY <1>14 DEF RecvOver, ChildAt, Running
<1>15. ASSUME NEW c \in Conns, Reply(c) PROVE Signals'
  BY <1>15 DEF Reply, ChildAt, Running
<1>16. ASSUME NEW c \in Conns, ReplyKilled(c) PROVE Signals'
  BY <1>16 DEF ReplyKilled, Exit, Running
<1>17. ASSUME NEW c \in Conns, ChildClose(c) PROVE Signals'
  BY <1>17 DEF ChildClose, ChildAt, Running
<1>18. ASSUME NEW c \in Conns, ChildExit(c) PROVE Signals'
  <2>1. /\ cpc[c] = "exit"
        /\ cpc' = [cpc EXCEPT ![c] = IF status = "run" THEN "zombie" ELSE "reaped"]
        /\ pending' = (status = "run")
        /\ UNCHANGED <<status, stopped, stops, inH>>
    BY <1>18 DEF ChildExit, Exit
  <2>2. CASE status = "exited"
    BY <2>1, <2>2
  <2>3. CASE status = "run"
    <3>1. cpc'[c] = "zombie" /\ \A b \in Zombies : b # c /\ cpc'[b] = "zombie"
      BY <2>1, <2>3
    <3> QED
      BY <2>1, <2>3, <3>1
  <2> QED
    BY <2>2, <2>3
<1>19. ASSUME NEW c \in Conns, ChildStop(c) PROVE Signals'
  BY <1>19 DEF ChildStop, Running
<1>20. ASSUME NEW c \in Conns, ChildCont(c) PROVE Signals'
  BY <1>20 DEF ChildCont
<1> QED
  BY <1>1, <1>2, <1>3, <1>4, <1>5, <1>6, <1>7, <1>8, <1>9, <1>10, <1>11,
     <1>12, <1>13, <1>14, <1>15, <1>16, <1>17, <1>18, <1>19, <1>20
  DEF Next, Main, Handler, Child

LEMMA Inductive == Spec => []IInv
<1>1. Init => IInv
  BY InitIInv
<1>2. IInv /\ [Next]_vars => IInv'
  BY NextType, NextParentLoop, NextChildren, NextSignals DEF IInv
<1> QED
  BY <1>1, <1>2, PTL DEF Spec

---------------------------------------------------------------------------
\* Every variable keeps its type.
THEOREM ProcessServerType == Spec => []TypeOK
  BY Inductive, PTL DEF IInv

\* No process ever holds a descriptor of another client's connection.
THEOREM ProcessServerOwn == Spec => []OwnConnectionOnly
<1>1. IInv => OwnConnectionOnly
  BY DEF IInv, TypeOK, ParentLoop, Children, OwnConnectionOnly
<1> QED
  BY <1>1, Inductive, PTL

\* The wait() of sigHandler_SIGCHLD finds a child that ended.
THEOREM ProcessServerHandler == Spec => []HandlerFindsZombie
<1>1. IInv => HandlerFindsZombie
  BY DEF IInv, Signals, HandlerFindsZombie
<1> QED
  BY <1>1, Inductive, PTL

---------------------------------------------------------------------------
(* The process server implements EchoService *)

\* Parent and child are the only processes that can have a connection.
LEMMA ReleasedIff ==
  IInv => \A c \in Conns : Released(c) <=> /\ c <= nacc
                                          /\ c \notin held[0]
                                          /\ c \notin held[c]
  BY ClientAssumption
  DEF IInv, TypeOK, ParentLoop, Children, Released, Procs, Conns

LEMMA ReleasedIffNext ==
  IInv' => \A c \in Conns : Released(c)' <=> /\ c <= nacc'
                                            /\ c \notin held'[0]
                                            /\ c \notin held'[c]
  BY ClientAssumption
  DEF IInv, TypeOK, ParentLoop, Children, Released, Procs, Conns

\* A step that leaves the variables of Phase alone is invisible.
LEMMA Invisible ==
  ASSUME UNCHANGED <<nconn, nacc, held, served>>
  PROVE  Phase' = Phase
  BY DEF Phase, Released

\* How a change of the phase of one connection is seen by EchoService.
LEMMA OneMoves ==
  ASSUME NEW c \in Conns, NEW from, NEW to, Phase[c] = from,
         \A d \in Conns : Phase'[d] = IF d = c THEN to ELSE Phase[d]
  PROVE  Service!Move(c, from, to)
  BY DEF Service!Move, Phase

\* A step of a process that gives up connection c, and nothing else, closes it
\* for EchoService or is invisible.
LEMMA MayClose ==
  ASSUME IInv, NEW c \in Conns, c <= nacc, UNCHANGED <<clientVars, nacc, served>>,
         \A d \in Conns : d # c => (Released(d)' <=> Released(d)),
         Released(c) => Released(c)',
         Released(c)' => served[c] # "open"
  PROVE  Service!ServiceNext \/ UNCHANGED <<Service!clientVars, Phase>>
<1> USE DEF clientVars, Service!clientVars
<1>a. c <= nconn /\ c \in Nat /\ nacc \in Nat /\ nconn \in Nat
  BY DEF IInv, TypeOK, ClientTypeOK, ParentLoop, Conns
<1>1. CASE Released(c)' <=> Released(c)
  <2>1. \A d \in Conns : Released(d)' <=> Released(d)
    BY <1>1
  <2> QED
    BY <2>1 DEF Phase
<1>2. CASE ~Released(c) /\ Released(c)'
  <2>1. served[c] \in {"got", "answered", "over", "shed"} /\ Phase[c] = served[c]
    BY <1>2, <1>a DEF IInv, TypeOK, Phase
  <2>2. \A d \in Conns : Phase'[d] = IF d = c THEN "closed" ELSE Phase[d]
    BY <1>2, <1>a DEF Phase
  <2>3. Service!Move(c, served[c], "closed")
    BY <2>1, <2>2, OneMoves
  <2> QED
    BY <2>1, <2>3 DEF Service!ServiceNext, Service!Close, Conns, Service!Conns
<1> QED
  BY <1>1, <1>2

\* A change of what was done with a connection some process has.
LEMMA ServedMoves ==
  ASSUME IInv, NEW c \in Conns, NEW to, c \in held[c], c <= nacc, c <= nconn,
         UNCHANGED <<nconn, nacc, held>>, served' = [served EXCEPT ![c] = to]
  PROVE  Service!Move(c, served[c], to)
<1>1. ~Released(c) /\ (\A d \in Conns : Released(d)' <=> Released(d))
  BY ReleasedIff DEF Released
<1>2. Phase[c] = served[c]
  BY <1>1 DEF Phase, IInv, TypeOK, ClientTypeOK, Conns
<1>3. \A d \in Conns : Phase'[d] = IF d = c THEN to ELSE Phase[d]
  BY <1>1 DEF Phase, IInv, TypeOK, ClientTypeOK, Conns
<1> QED
  BY <1>2, <1>3, OneMoves

LEMMA InitImplements == Init => Service!ServiceInit
  BY ClientAssumption
  DEF Init, ClientInit, Service!ServiceInit, Service!ClientInit, Phase, Conns,
      Service!Conns

\* Every step is a step of EchoService for one connection, or a stutter.
LEMMA StepImplements ==
  IInv /\ IInv' /\ [Next]_vars
     => [Service!ServiceNext]_<<Service!clientVars, Phase>>
<1> SUFFICES ASSUME IInv, IInv', [Next]_vars
             PROVE  Service!ServiceNext \/ UNCHANGED <<Service!clientVars, Phase>>
  OBVIOUS
<1> USE ClientAssumption DEF Conns, Service!Conns, clientVars, Service!clientVars
<1>a. nacc \in Nat /\ nconn \in Nat /\ nacc <= nconn
  BY DEF IInv, TypeOK, ClientTypeOK, ParentLoop
<1>1. CASE UNCHANGED vars
  BY <1>1, Invisible DEF vars, procVars
<1>2. CASE Clients
  <2>1. CASE Connect
    <3>1. /\ nconn + 1 \in Conns /\ nconn' = nconn + 1
          /\ UNCHANGED <<nacc, held, served>>
      BY <1>2, <2>1, <1>a DEF Clients, Connect, procVars
    <3>2. served[nconn + 1] = "open"
      BY <3>1, <1>a DEF IInv, ParentLoop, Children
    <3>3. Phase[nconn + 1] = "none"
      BY <3>1, <1>a DEF Phase
    <3>4. \A d \in Conns : Phase'[d] = IF d = nconn + 1 THEN "open" ELSE Phase[d]
      BY <3>1, <3>2, <1>a DEF Phase, Released
    <3>5. Service!Move(nconn + 1, "none", "open")
      BY <3>1, <3>3, <3>4, OneMoves
    <3> QED
      BY <2>1, <3>5
      DEF Connect, Service!ServiceNext, Service!Establish, Service!Connect
  <2>2. ASSUME NEW c \in Conns, ClientSend(c) \/ ClientClose(c) \/ ConnReset(c)
        PROVE  Service!ServiceNext
    <3>1. Phase' = Phase
      BY <1>2, <2>2, Invisible
      DEF Clients, procVars, ClientSend, ClientClose, ConnReset
    <3> QED
      BY <2>2, <3>1 DEF Service!ServiceNext, ClientSend, ClientClose, ConnReset,
         Service!ClientSend, Service!ClientClose, Service!ConnReset
  <2> QED
    BY <1>2, <2>1, <2>2 DEF Clients, ClientNext
<1>3. CASE Setup \/ SetupFail
  BY <1>3, Invisible DEF Setup, SetupFail
<1>4. CASE Deliver \/ HandlerWait \/ HandlerNoChild
  BY <1>4, Invisible DEF Deliver, HandlerWait, HandlerNoChild, procVars
<1>5. ASSUME NEW c \in Conns, ChildStop(c) \/ ChildCont(c)
      PROVE  UNCHANGED <<Service!clientVars, Phase>>
  BY <1>5, Invisible DEF ChildStop, ChildCont, procVars
\* Accepting and forking change who has the connection, not that someone has.
<1>6. CASE Accept
  <2>1. /\ nacc + 1 \in Conns /\ nacc' = nacc + 1 /\ nconn' = nconn
        /\ served' = served
        /\ \A d \in Conns : d # nacc + 1 => (d \in held'[0] <=> d \in held[0])
        /\ \A d \in Conns : held'[d] = held[d]
        /\ nacc + 1 \in held'[0]
    BY <1>6, <1>a DEF Accept, IInv, TypeOK, Procs, ClientTypeOK
  <2>2. \A d \in Conns : Released(d)' <=> Released(d)
    BY <2>1, <1>a, ReleasedIff, ReleasedIffNext
  <2>3. Phase' = Phase
    BY <2>1, <2>2 DEF Phase
  <2> QED
    BY <1>6, <2>3 DEF Accept
<1>7. CASE AcceptFail
  <2>1. held[0] = {} /\ held' = held
    BY <1>7 DEF AcceptFail, IInv, TypeOK, ParentLoop, Procs
  <2> QED
    BY <1>7, <2>1, Invisible DEF AcceptFail
<1>8. CASE Fork
  <2>1. /\ nacc \in Conns /\ held[0] = {nacc} /\ held'[0] = held[0]
        /\ \A d \in Conns : d # nacc => held'[d] = held[d]
        /\ UNCHANGED <<nconn, nacc, served>>
    BY <1>8 DEF Fork, IInv, TypeOK, ParentLoop, Procs
  <2>2. \A d \in Conns : Released(d)' <=> Released(d)
    BY <2>1, ReleasedIff, ReleasedIffNext
  <2>3. Phase' = Phase
    BY <2>1, <2>2 DEF Phase
  <2> QED
    BY <1>8, <2>3 DEF Fork
<1>9. CASE ForkFail
  <2>1. /\ nacc \in Conns /\ nacc \in held[0] /\ served[nacc] = "open"
        /\ UNCHANGED <<nconn, nacc, held>>
        /\ served' = [served EXCEPT ![nacc] = "shed"]
    BY <1>9 DEF ForkFail, IInv, TypeOK, ParentLoop, Children, Procs
  <2>2. ~Released(nacc)
    BY <2>1, ReleasedIff
  <2>3. Phase[nacc] = "open"
    BY <2>1, <2>2, <1>a DEF Phase
  <2>4. \A d \in Conns : Phase'[d] = IF d = nacc THEN "shed" ELSE Phase[d]
    BY <2>1, <2>2, <1>a DEF Phase, Released, IInv, TypeOK
  <2>5. Service!Move(nacc, "open", "shed")
    BY <2>1, <2>3, <2>4, OneMoves
  <2> QED
    BY <1>9, <2>1, <2>5 DEF ForkFail, Service!ServiceNext, Service!Shed
<1>10. CASE ParentClose
  <2>1. /\ nacc \in Conns /\ held[0] \subseteq {nacc} /\ held'[0] = {}
        /\ \A d \in Conns : held'[d] = held[d]
        /\ UNCHANGED <<clientVars, nacc, served, cpc>>
        /\ cpc[nacc] # "none"
    BY <1>10 DEF ParentClose, IInv, TypeOK, ParentLoop, Procs
  <2>2. nacc \notin held[nacc] => served[nacc] # "open"
    BY <2>1 DEF IInv, TypeOK, Children
  <2>3. \A d \in Conns : d # nacc => (Released(d)' <=> Released(d))
    BY <2>1, ReleasedIff, ReleasedIffNext
  <2>4. /\ Released(nacc) => Released(nacc)'
        /\ Released(nacc)' => served[nacc] # "open"
    BY <2>1, <2>2, ReleasedIff, ReleasedIffNext
  <2> QED
    BY <1>a, <2>1, <2>3, <2>4, MayClose
<1>11. ASSUME NEW c \in Conns, RecvData(c) PROVE Service!ServiceNext
  <2>1. /\ c \in held[c] /\ served[c] = "open" /\ c <= nacc /\ c <= nconn
        /\ UNCHANGED <<nconn, nacc, held>>
        /\ served' = [served EXCEPT ![c] = "got"]
    BY <1>11, <1>a DEF RecvData, ChildAt, Take, IInv, TypeOK, ParentLoop, Children
  <2>2. Service!Move(c, "open", "got")
    BY <2>1, ServedMoves
  <2> QED
    BY <1>11, <2>2 DEF RecvData, Take, Service!ServiceNext, Service!Receive,
       Service!Take
<1>12. ASSUME NEW c \in Conns, RecvOver(c) PROVE Service!ServiceNext
  <2>1. /\ c \in held[c] /\ served[c] = "open" /\ c <= nacc /\ c <= nconn
        /\ UNCHANGED <<nconn, nacc, held>>
        /\ served' = [served EXCEPT ![c] = "over"]
    BY <1>12, <1>a DEF RecvOver, ChildAt, IInv, TypeOK, ParentLoop, Children
  <2>2. Service!Move(c, "open", "over")
    BY <2>1, ServedMoves
  <2> QED
    BY <1>12, <2>2 DEF RecvOver, AtEnd, AtFail, Service!ServiceNext, Service!Over,
       Service!AtEnd, Service!AtFail
<1>13. ASSUME NEW c \in Conns, Reply(c)
       PROVE  Service!ServiceNext \/ UNCHANGED <<Service!clientVars, Phase>>
  <2>1. CASE served' = served
    BY <1>13, <2>1, Invisible DEF Reply
  <2>2. CASE served' = [served EXCEPT ![c] = "answered"]
    <3>1. /\ c \in held[c] /\ served[c] = "got" /\ c <= nacc /\ c <= nconn
          /\ UNCHANGED <<nconn, nacc, held>>
      BY <1>13, <1>a DEF Reply, ChildAt, IInv, TypeOK, ParentLoop, Children
    <3>2. Service!Move(c, "got", "answered")
      BY <2>2, <3>1, ServedMoves
    <3> QED
      BY <1>13, <3>2 DEF Reply, Service!ServiceNext, Service!Answer
  <2> QED
    BY <1>13, <2>1, <2>2 DEF Reply
<1>14. ASSUME NEW c \in Conns, ReplyKilled(c) \/ ChildClose(c) \/ ChildExit(c)
       PROVE  Service!ServiceNext \/ UNCHANGED <<Service!clientVars, Phase>>
  <2>1. /\ cpc[c] \in {"reply", "close1", "close2", "exit"}
        /\ held'[0] = held[0] /\ held'[c] = {}
        /\ \A d \in Conns : d # c => held'[d] = held[d]
        /\ UNCHANGED <<clientVars, nacc, served>>
    BY <1>14 DEF ReplyKilled, ChildClose, ChildExit, Exit, ChildAt, IInv, TypeOK,
       Children, Procs
  <2>2. c <= nacc /\ served[c] # "open"
    BY <2>1, <1>a DEF IInv, TypeOK, ParentLoop, Children
  <2>3. \A d \in Conns : d # c => (Released(d)' <=> Released(d))
    BY <2>1, ReleasedIff, ReleasedIffNext
  <2>4. Released(c) => Released(c)'
    BY <2>1, <2>2, ReleasedIff, ReleasedIffNext
  <2> QED
    BY <1>a, <2>1, <2>2, <2>3, <2>4, MayClose
<1> QED
  BY <1>1, <1>2, <1>3, <1>4, <1>5, <1>6, <1>7, <1>8, <1>9, <1>10, <1>11, <1>12,
     <1>13, <1>14
  DEF Next, Main, Handler, Child

\* The process server is an echo service.
THEOREM ProcessServerImplements == Spec => ImplementsService
<1>1. Init => Service!ServiceInit
  BY InitImplements
<1>2. IInv /\ IInv' /\ [Next]_vars
         => [Service!ServiceNext]_<<Service!clientVars, Phase>>
  BY StepImplements
<1> QED
  BY <1>1, <1>2, Inductive, PTL DEF Spec, ImplementsService, Service!ServiceSpec

\* Processes keep to their own connections and the handler to its zombie.
THEOREM ProcessServerHolds == Spec => []OwnConnectionOwnZombie
  BY ProcessServerOwn, ProcessServerHandler, PTL DEF OwnConnectionOwnZombie
=============================================================================
