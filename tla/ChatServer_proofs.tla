-------------------------- MODULE ChatServer_proofs --------------------------
(***************************************************************************)
(* Proofs about ChatServer, for any number of clients, messages and any    *)
(* first free descriptor.  The invariant says what the fork()s leave in    *)
(* the descriptor tables: every process that lives has the descriptors of  *)
(* the clients up to its own, and accept() has numbered them in turn.      *)
(***************************************************************************)
EXTENDS ChatServer, TLAPS

(* The client that descriptor number f was given to, and its number.       *)
ClientOf(f) == f - FirstFd + 1
FdOf(c)     == FirstFd + c - 1

Live  == {"fork", "recv", "send", "sent"}
Forked == {"recv", "send", "sent", "ebadf", "exited"}

(* One process is the end of the chain: whoever is before it has forked,   *)
(* whoever is after it does not exist.                                     *)
IsLast(p) ==
    /\ pc[p] \in {"accept", "fork", "failed"}
    /\ \A q \in Procs : q < p => pc[q] \in Forked
    /\ \A q \in Procs : q > p => pc[q] = "none"

Chain ==
    /\ \E p \in Procs : IsLast(p)
    /\ \A p \in Procs : pc[p] \in Forked \cup {"fork"} => p \in Conns

(* A descriptor means the client it was first given to or nothing, and a   *)
(* process that lives has those of the clients accepted before its fork    *)
(* and of its own.                                                         *)
Tables ==
    \A p \in Procs : \A f \in Fds :
        /\ fdt[p][f] \in {0, ClientOf(f)}
        /\ pc[p] = "accept" => (fdt[p][f] # 0 <=> ClientOf(f) < p)
        /\ pc[p] \in Live => (fdt[p][f] # 0 <=> ClientOf(f) <= p)

(* The array has the number of a client from its accept() on.              *)
Slots ==
    \A i \in Conns :
        /\ slot[i] \in {-1, FdOf(i)}
        /\ pc[i] \in Forked \cup {"fork"} => slot[i] = FdOf(i)

(* A broadcast has reached the clients it has come to, up to the own one.  *)
Reached ==
    \A p \in Procs :
        pc[p] = "send" => got[p] = {c \in Conns : c <= p /\ c < nxt[p]}

IInv == TypeOK /\ Chain /\ Tables /\ Slots /\ Reached /\ ReachesEarlierClients

-----------------------------------------------------------------------------
(* The numbers of descriptors and of clients are one to one.               *)
LEMMA Numbering ==
    /\ \A c \in Conns : FdOf(c) \in Fds /\ ClientOf(FdOf(c)) = c /\ FdOf(c) # -1
    /\ \A f \in Fds : ClientOf(f) \in Conns /\ FdOf(ClientOf(f)) = f
<1> USE FdAssumption, ClientAssumption DEF Conns, Fds, FdOf, ClientOf
<1>1. FirstFd \in Int /\ FirstFd >= 0 /\ MaxConn \in Int
  OBVIOUS
<1>2. ASSUME NEW c \in Conns
      PROVE  FdOf(c) \in Fds /\ ClientOf(FdOf(c)) = c /\ FdOf(c) # -1
  BY <1>1, <1>2
<1>3. ASSUME NEW f \in Fds PROVE ClientOf(f) \in Conns /\ FdOf(ClientOf(f)) = f
  BY <1>1, <1>3
<1> QED  BY <1>2, <1>3

LEMMA ProcsAndConns ==
    /\ Conns \subseteq Procs /\ \A p \in Conns : p + 1 \in Procs
    /\ \A p \in Procs : p \in Int /\ p \in 1 .. MaxConn + 1
    /\ \A p \in Conns : p \in Int /\ p \in 1 .. MaxConn
    /\ MaxConn \in Int /\ MaxConn >= 1
  BY ClientAssumption DEF Conns, Procs

LEMMA InitIInv == Init => IInv
<1> SUFFICES ASSUME Init PROVE IInv
  OBVIOUS
<1> USE ClientAssumption DEF Init, ClientInit
<1>1. TypeOK
  BY ProcsAndConns DEF TypeOK, ClientTypeOK
<1>2. 1 \in Procs /\ IsLast(1)
  BY ProcsAndConns DEF IsLast, Procs
<1>3. Chain
  BY <1>2 DEF Chain, Forked
<1>4. Tables
  <2> SUFFICES ASSUME NEW p \in Procs, NEW f \in Fds
               PROVE  /\ fdt[p][f] \in {0, ClientOf(f)}
                      /\ pc[p] = "accept" => (fdt[p][f] # 0 <=> ClientOf(f) < p)
                      /\ pc[p] \in Live => (fdt[p][f] # 0 <=> ClientOf(f) <= p)
    BY DEF Tables
  <2>1. ClientOf(f) \in Int /\ ClientOf(f) >= 1
    BY Numbering, ProcsAndConns
  <2> QED  BY <2>1 DEF Live
<1>5. Slots /\ Reached /\ ReachesEarlierClients
  BY ProcsAndConns DEF Slots, Reached, ReachesEarlierClients, Over, Forked
<1> QED  BY <1>1, <1>3, <1>4, <1>5 DEF IInv

-----------------------------------------------------------------------------
(* What the clients and the network do, and recv(), keep the clients'      *)
(* variables in their types.                                               *)
LEMMA ClientStep ==
    ASSUME ClientTypeOK,
           ClientNext \/ (\E c \in Conns, n \in 1 .. MaxMsg : Take(c, n))
    PROVE  ClientTypeOK'
<1> USE ClientAssumption DEF ClientTypeOK
<1>1. CASE Connect
  BY <1>1 DEF Connect
<1>2. ASSUME NEW c \in Conns, ClientSend(c) PROVE ClientTypeOK'
  <2>1. sent[c] + 1 \in 0 .. MaxMsg /\ data[c] + 1 \in 0 .. MaxMsg
    BY <1>2 DEF ClientSend
  <2> QED  BY <1>2, <2>1 DEF ClientSend
<1>3. ASSUME NEW c \in Conns, ClientClose(c) \/ ConnReset(c) PROVE ClientTypeOK'
  BY <1>3 DEF ClientClose, ConnReset
<1>4. ASSUME NEW c \in Conns, NEW n \in 1 .. MaxMsg, Take(c, n)
      PROVE  ClientTypeOK'
  <2>1. data[c] - n \in 0 .. MaxMsg /\ data[c] - n <= data[c]
    BY <1>4 DEF Take
  <2> QED  BY <1>4, <2>1 DEF Take
<1> QED  BY <1>1, <1>2, <1>3, <1>4 DEF ClientNext

(* The process that accepts or forks is the end of the chain.              *)
LEMMA LastIsUnique ==
    ASSUME IInv, NEW p \in Procs, pc[p] \in {"accept", "fork"}
    PROVE  IsLast(p)
<1>1. PICK q \in Procs : IsLast(q)
  BY DEF IInv, Chain
<1>2. q = p
  BY <1>1, ProcsAndConns DEF IsLast, Forked
<1> QED  BY <1>1, <1>2

(* A step within a process that has forked moves nothing of the chain.     *)
LEMMA ChainKept ==
    ASSUME TypeOK, Chain, NEW p \in Procs, pc[p] \in Forked,
           NEW to \in Forked, pc' = [pc EXCEPT ![p] = to]
    PROVE  Chain'
<1>1. PICK q \in Procs : IsLast(q)
  BY DEF Chain
<1>2. q # p
  BY <1>1 DEF IsLast, Forked
<1>3. IsLast(q)'
  BY <1>1, <1>2 DEF IsLast, TypeOK, Forked
<1>4. \A r \in Procs : pc'[r] \in Forked \cup {"fork"} => r \in Conns
  BY DEF Chain, TypeOK
<1> QED  BY <1>3, <1>4 DEF Chain

-----------------------------------------------------------------------------
(* Accepting.  The lowest free descriptor of process p is the one after    *)
(* those of the clients 1 .. p - 1, which it has all inherited.            *)
LEMMA AcceptIInv == ASSUME IInv, NEW p \in Conns, Accept(p) PROVE IInv'
<1> USE DEF IInv
<1>0. /\ p \in Procs /\ pc[p] = "accept" /\ pc' = [pc EXCEPT ![p] = "fork"]
      /\ UNCHANGED <<clientVars, nxt, got, wanted>>
  BY ProcsAndConns DEF Accept, Goto
<1>1. PICK f \in Fds :
        /\ fdt[p][f] = 0
        /\ \A g \in Fds : g < f => fdt[p][g] # 0
        /\ fdt' = [fdt EXCEPT ![p][f] = p]
        /\ slot' = [slot EXCEPT ![p] = f]
  BY DEF Accept
<1>2. f = FdOf(p)
  <2>1. ClientOf(f) >= p
    BY <1>0, <1>1, Numbering, ProcsAndConns DEF Tables
  <2>2. FdOf(p) \in Fds /\ ClientOf(FdOf(p)) = p /\ FdOf(p) # -1
    BY Numbering
  <2>3. fdt[p][FdOf(p)] = 0
    BY <1>0, <2>2, ProcsAndConns DEF Tables
  <2>4. ~(FdOf(p) < f)
    BY <1>1, <2>2, <2>3
  <2> QED  BY <2>1, <2>4, FdAssumption, ProcsAndConns DEF Fds, FdOf, ClientOf
<1>3. TypeOK'
  BY <1>0, <1>1, ProcsAndConns DEF TypeOK, ClientTypeOK, clientVars
<1>4. Chain'
  <2>1. IsLast(p)'
    BY <1>0, LastIsUnique DEF IsLast, TypeOK
  <2> QED  BY <1>0, <2>1 DEF Chain, TypeOK
<1>5. Tables'
  <2> SUFFICES ASSUME NEW q \in Procs, NEW g \in Fds
               PROVE  /\ fdt'[q][g] \in {0, ClientOf(g)}
                      /\ pc'[q] = "accept" => (fdt'[q][g] # 0 <=> ClientOf(g) < q)
                      /\ pc'[q] \in Live => (fdt'[q][g] # 0 <=> ClientOf(g) <= q)
    BY DEF Tables
  <2>1. /\ fdt[q][g] \in {0, ClientOf(g)}
        /\ pc[q] = "accept" => (fdt[q][g] # 0 <=> ClientOf(g) < q)
        /\ pc[q] \in Live => (fdt[q][g] # 0 <=> ClientOf(g) <= q)
    BY DEF Tables
  <2>2. CASE q # p
    BY <1>0, <1>1, <2>1, <2>2 DEF TypeOK
  <2>3. CASE q = p /\ g # f
    <3>1. fdt'[q][g] = fdt[q][g] /\ pc'[q] = "fork"
      BY <1>0, <1>1, <2>3 DEF TypeOK
    <3>2. ClientOf(g) # p
      BY <1>2, <2>3, Numbering
    <3>3. ClientOf(g) \in Int /\ p \in Int
      BY Numbering, ProcsAndConns
    <3> QED  BY <1>0, <2>1, <2>3, <3>1, <3>2, <3>3
  <2>4. CASE q = p /\ g = f
    <3>1. fdt'[q][g] = p /\ pc'[q] = "fork"
      BY <1>0, <1>1, <2>4 DEF TypeOK
    <3>2. ClientOf(g) = p /\ p # 0 /\ p \in Int
      BY <1>2, <2>4, Numbering, ProcsAndConns
    <3> QED  BY <2>4, <3>1, <3>2
  <2> QED  BY <2>2, <2>3, <2>4
<1>6. Slots'
  BY <1>0, <1>1, <1>2 DEF Slots, TypeOK, Forked
<1>7. Reached' /\ ReachesEarlierClients'
  BY <1>0 DEF Reached, ReachesEarlierClients, Over, TypeOK
<1> QED  BY <1>3, <1>4, <1>5, <1>6, <1>7

(* Every descriptor of the process is closed: what holds of descriptors    *)
(* then holds of none.                                                     *)
LEMMA ClosedTables ==
    ASSUME TypeOK, Tables, NEW p \in Procs, NEW to, to \notin Live \cup {"accept"},
           pc' = [pc EXCEPT ![p] = to],
           fdt' = [fdt EXCEPT ![p] = [f \in Fds |-> 0]]
    PROVE  Tables'
  BY DEF Tables, TypeOK

LEMMA AcceptFailIInv == ASSUME IInv, NEW p \in Procs, AcceptFail(p) PROVE IInv'
<1> USE DEF IInv
<1>0. /\ pc[p] = "accept" /\ pc' = [pc EXCEPT ![p] = "failed"]
      /\ slot' = [i \in Conns |-> IF i = p THEN -1 ELSE slot[i]]
      /\ fdt' = [fdt EXCEPT ![p] = [f \in Fds |-> 0]]
      /\ UNCHANGED <<clientVars, nxt, got, wanted>>
  BY DEF AcceptFail, Goto
<1>1. TypeOK'
  BY <1>0 DEF TypeOK, ClientTypeOK, clientVars
<1>2. IsLast(p)'
  BY <1>0, LastIsUnique DEF IsLast, TypeOK
<1>3. Chain'
  BY <1>0, <1>2 DEF Chain, TypeOK, Forked
<1>4. Tables'
  BY <1>0, ClosedTables DEF Live
<1>5. Slots'
  BY <1>0, ProcsAndConns DEF Slots, TypeOK, Forked
<1>6. Reached' /\ ReachesEarlierClients'
  BY <1>0 DEF Reached, ReachesEarlierClients, Over, TypeOK
<1> QED  BY <1>1, <1>3, <1>4, <1>5, <1>6

(* The child gets the table of the parent and is the new end of the chain. *)
LEMMA ForkIInv == ASSUME IInv, NEW p \in Conns, Fork(p) PROVE IInv'
<1> USE DEF IInv
<1>0. /\ p \in Procs /\ p + 1 \in Procs /\ pc[p] = "fork" /\ p + 1 # p
      /\ pc' = [pc EXCEPT ![p] = "recv", ![p + 1] = "accept"]
      /\ fdt' = [fdt EXCEPT ![p + 1] = fdt[p]]
      /\ UNCHANGED <<clientVars, slot, nxt, got, wanted>>
  BY ProcsAndConns DEF Fork
<1>1. IsLast(p) /\ pc[p + 1] = "none"
  BY <1>0, LastIsUnique, ProcsAndConns DEF IsLast
<1>a. \A q \in Procs : pc'[q] = IF q = p THEN "recv"
                               ELSE IF q = p + 1 THEN "accept" ELSE pc[q]
  BY <1>0 DEF TypeOK
<1>2. TypeOK'
  BY <1>0 DEF TypeOK, ClientTypeOK, clientVars
<1>3. Chain'
  <2>1. IsLast(p + 1)'
    <3>1. \A q \in Procs : q < p + 1 => q = p \/ (q < p /\ q # p + 1)
      BY ProcsAndConns
    <3>2. \A q \in Procs : q > p + 1 => q > p /\ q # p + 1 /\ q # p
      BY ProcsAndConns
    <3>3. \A q \in Procs : q < p + 1 => pc'[q] \in Forked
      BY <1>1, <1>a, <3>1 DEF IsLast, Forked
    <3>4. \A q \in Procs : q > p + 1 => pc'[q] = "none"
      BY <1>1, <1>a, <3>2 DEF IsLast
    <3> QED  BY <1>0, <1>a, <3>3, <3>4 DEF IsLast
  <2>2. \A q \in Procs : pc'[q] \in Forked \cup {"fork"} => q \in Conns
    BY <1>0 DEF Chain, TypeOK, Forked
  <2> QED  BY <1>0, <2>1, <2>2 DEF Chain
<1>4. Tables'
  <2> SUFFICES ASSUME NEW q \in Procs, NEW g \in Fds
               PROVE  /\ fdt'[q][g] \in {0, ClientOf(g)}
                      /\ pc'[q] = "accept" => (fdt'[q][g] # 0 <=> ClientOf(g) < q)
                      /\ pc'[q] \in Live => (fdt'[q][g] # 0 <=> ClientOf(g) <= q)
    BY DEF Tables
  <2>1. CASE q = p + 1
    <3>1. fdt'[q][g] = fdt[p][g] /\ pc'[q] = "accept"
      BY <1>0, <2>1 DEF TypeOK
    <3>2. fdt[p][g] \in {0, ClientOf(g)} /\ (fdt[p][g] # 0 <=> ClientOf(g) <= p)
      BY <1>0 DEF Tables, Live
    <3>3. ClientOf(g) \in Int /\ p \in Int
      BY Numbering, ProcsAndConns
    <3> QED  BY <2>1, <3>1, <3>2, <3>3 DEF Live
  <2>2. CASE q # p + 1
    BY <1>0, <2>2 DEF Tables, TypeOK, Live
  <2> QED  BY <2>1, <2>2
<1>5. Slots'
  <2> SUFFICES ASSUME NEW i \in Conns
               PROVE  /\ slot[i] \in {-1, FdOf(i)}
                      /\ pc'[i] \in Forked \cup {"fork"} => slot[i] = FdOf(i)
    BY <1>0 DEF Slots
  <2>1. i \in Procs
    BY ProcsAndConns
  <2>2. pc'[i] \in Forked \cup {"fork"} => pc[i] \in Forked \cup {"fork"}
    BY <1>0, <1>a, <2>1 DEF Forked
  <2> QED  BY <2>2 DEF Slots
<1>6. Reached' /\ ReachesEarlierClients'
  BY <1>0 DEF Reached, ReachesEarlierClients, Over, TypeOK
<1> QED  BY <1>2, <1>3, <1>4, <1>5, <1>6

LEMMA ForkFailIInv == ASSUME IInv, NEW p \in Conns, ForkFail(p) PROVE IInv'
<1> USE DEF IInv
<1>0. /\ p \in Procs /\ pc[p] = "fork" /\ pc' = [pc EXCEPT ![p] = "failed"]
      /\ fdt' = [fdt EXCEPT ![p] = [f \in Fds |-> 0]]
      /\ UNCHANGED <<clientVars, slot, nxt, got, wanted>>
  BY ProcsAndConns DEF ForkFail, Exit
<1>1. TypeOK'
  BY <1>0 DEF TypeOK, ClientTypeOK, clientVars
<1>2. IsLast(p)'
  BY <1>0, LastIsUnique DEF IsLast, TypeOK
<1>3. Chain'
  BY <1>0, <1>2 DEF Chain, TypeOK, Forked
<1>4. Tables'
  BY <1>0, ClosedTables DEF Live
<1>5. Slots'
  BY <1>0 DEF Slots, TypeOK, Forked
<1>6. Reached' /\ ReachesEarlierClients'
  BY <1>0 DEF Reached, ReachesEarlierClients, Over, TypeOK
<1> QED  BY <1>1, <1>3, <1>4, <1>5, <1>6
-----------------------------------------------------------------------------
(* Serving client p: nothing of the chain and the array changes.           *)
LEMMA RecvIInv == ASSUME IInv, NEW p \in Conns, Recv(p) PROVE IInv'
<1> USE DEF IInv
<1>0. /\ p \in Procs /\ pc[p] \in Forked /\ pc' = [pc EXCEPT ![p] = "send"]
      /\ pc[p] \in Live
      /\ UNCHANGED <<slot, fdt>>
  BY ProcsAndConns DEF Recv, Goto, Forked, Live
<1>1. /\ nxt' = [nxt EXCEPT ![p] = 1] /\ got' = [got EXCEPT ![p] = {}]
      /\ wanted' = [wanted EXCEPT ![p] = Members]
  BY DEF Recv
<1>2. ClientTypeOK'
  BY ClientStep DEF TypeOK, Recv
<1>3. TypeOK'
  BY <1>0, <1>1, <1>2, ProcsAndConns DEF TypeOK, Members
<1>4. Chain'
  BY <1>0, ChainKept DEF Forked
<1>5. Tables'
  BY <1>0 DEF Tables, TypeOK, Live
<1>6. Slots'
  BY <1>0 DEF Slots, TypeOK, Forked
<1>7. Reached'
  <2>1. {c \in Conns : c <= p /\ c < 1} = {}
    BY ProcsAndConns
  <2> QED  BY <1>0, <1>1, <2>1 DEF Reached, TypeOK
<1>8. ReachesEarlierClients'
  BY <1>0, <1>1 DEF ReachesEarlierClients, Over, TypeOK
<1> QED  BY <1>3, <1>4, <1>5, <1>6, <1>7, <1>8

(* A process that has forked exits: its descriptors are closed.            *)
LEMMA ExitIInv ==
    ASSUME IInv, NEW p \in Conns, pc[p] \in Forked,
           NEW why \in {"exited", "ebadf"}, Exit(p, why),
           why = "ebadf" => got[p] = 1 .. p
    PROVE  IInv'
<1> USE DEF IInv
<1>0. /\ p \in Procs /\ pc' = [pc EXCEPT ![p] = why]
      /\ fdt' = [fdt EXCEPT ![p] = [f \in Fds |-> 0]]
      /\ UNCHANGED <<clientVars, slot, nxt, got, wanted>>
  BY ProcsAndConns DEF Exit
<1>1. TypeOK'
  BY <1>0 DEF TypeOK, ClientTypeOK, clientVars
<1>2. Chain'
  BY <1>0, ChainKept DEF Forked
<1>3. Tables'
  BY <1>0, ClosedTables DEF Live
<1>4. Slots'
  BY <1>0 DEF Slots, TypeOK, Forked
<1>5. Reached' /\ ReachesEarlierClients'
  BY <1>0 DEF Reached, ReachesEarlierClients, Over, TypeOK
<1> QED  BY <1>1, <1>2, <1>3, <1>4, <1>5

(* What the loop finds at its index: the clients up to p are all in the    *)
(* array and have their descriptor in p, the later ones have none.         *)
LEMMA TargetIs ==
    ASSUME IInv, NEW p \in Conns, InLoop(p)
    PROVE  /\ nxt[p] \in Conns
           /\ nxt[p] <= p => slot[nxt[p]] # -1 /\ Target(p, nxt[p]) = nxt[p]
           /\ nxt[p] > p /\ slot[nxt[p]] # -1 => Target(p, nxt[p]) = 0
<1> USE DEF IInv
<1>1. p \in Procs /\ pc[p] = "send" /\ nxt[p] \in Conns
  BY ProcsAndConns DEF InLoop, TypeOK, Conns
<1>2. /\ FdOf(nxt[p]) \in Fds /\ ClientOf(FdOf(nxt[p])) = nxt[p]
      /\ FdOf(nxt[p]) # -1 /\ nxt[p] # 0
  BY <1>1, Numbering, ProcsAndConns
<1>3. /\ fdt[p][FdOf(nxt[p])] \in {0, nxt[p]}
      /\ fdt[p][FdOf(nxt[p])] # 0 <=> nxt[p] <= p
  BY <1>1, <1>2 DEF Tables, Live
<1>4. slot[nxt[p]] \in {-1, FdOf(nxt[p])}
  BY <1>1 DEF Slots
<1>5. CASE nxt[p] <= p
  <2>1. PICK q \in Procs : IsLast(q)
    BY DEF Chain
  <2>2. p < q
    BY <1>1, <2>1, ProcsAndConns DEF IsLast
  <2>3. nxt[p] \in Procs /\ nxt[p] < q
    BY <1>1, <1>5, <2>2, ProcsAndConns
  <2>4. slot[nxt[p]] = FdOf(nxt[p])
    BY <1>1, <2>1, <2>3 DEF IsLast, Slots
  <2> QED  BY <1>1, <1>2, <1>3, <1>5, <2>4, ProcsAndConns DEF Target
<1>6. CASE ~(nxt[p] <= p)
  BY <1>1, <1>3, <1>4, <1>6, ProcsAndConns DEF Target
<1> QED  BY <1>5, <1>6

(* The loop goes on to the next index: after Send() the client was reached *)
(* if it is not a later one, and an empty place is a later one's.          *)
LEMMA LoopIInv == ASSUME IInv, NEW p \in Conns, SkipEmpty(p) \/ Send(p) PROVE IInv'
<1> USE DEF IInv
<1> DEFINE n == nxt[p]
<1>0. /\ InLoop(p) /\ p \in Procs /\ pc[p] = "send"
      /\ nxt' = [nxt EXCEPT ![p] = n + 1]
      /\ UNCHANGED <<clientVars, slot, pc, fdt, wanted>>
  BY ProcsAndConns DEF SkipEmpty, Send, InLoop
<1>1. /\ n \in Conns /\ n \in Int /\ n + 1 \in 1 .. MaxConn + 1
      /\ n <= p => slot[n] # -1 /\ Target(p, n) = n
      /\ n > p /\ slot[n] # -1 => Target(p, n) = 0
  BY <1>0, TargetIs, ProcsAndConns
<1>2. got[p] = {c \in Conns : c <= p /\ c < n}
  BY <1>0 DEF Reached
<1>3. got' = [got EXCEPT ![p] = {c \in Conns : c <= p /\ c < n + 1}]
  <2>0. got \in [Procs -> SUBSET Conns]
    BY DEF TypeOK
  <2>1. CASE SkipEmpty(p)
    <3>1. n > p
      BY <1>1, <2>1, ProcsAndConns DEF SkipEmpty
    <3>2. {c \in Conns : c <= p /\ c < n + 1} = got[p]
      BY <1>1, <1>2, <3>1, ProcsAndConns
    <3> QED  BY <1>0, <2>0, <2>1, <3>2 DEF SkipEmpty
  <2>2. CASE Send(p)
    <3>0. /\ slot[n] # -1 /\ Target(p, n) # 0
          /\ got' = [got EXCEPT ![p] = got[p] \cup {Target(p, n)}]
      BY <2>2 DEF Send
    <3>a. n <= p
      BY <1>1, <3>0, ProcsAndConns
    <3>b. Target(p, n) = n
      BY <1>1, <3>a
    <3>1. n <= p /\ got' = [got EXCEPT ![p] = got[p] \cup {n}]
      BY <3>0, <3>a, <3>b
    <3>2. {c \in Conns : c <= p /\ c < n + 1} = got[p] \cup {n}
      BY <1>1, <1>2, <3>1, ProcsAndConns
    <3> QED  BY <3>1, <3>2
  <2> QED  BY <2>1, <2>2
<1>4. TypeOK'
  BY <1>0, <1>1, <1>3 DEF TypeOK, ClientTypeOK, clientVars
<1>5. Chain'
  BY <1>0 DEF Chain, IsLast
<1>6. Tables' /\ Slots'
  BY <1>0 DEF Tables, Slots
<1>7. Reached'
  BY <1>0, <1>3 DEF Reached, TypeOK
<1>8. ReachesEarlierClients'
  BY <1>0, <1>3 DEF ReachesEarlierClients, Over, TypeOK
<1> QED  BY <1>4, <1>5, <1>6, <1>7, <1>8

LEMMA SendBadFdIInv == ASSUME IInv, NEW p \in Conns, SendBadFd(p) PROVE IInv'
<1>0. /\ InLoop(p) /\ p \in Procs /\ pc[p] = "send" /\ Exit(p, "ebadf")
      /\ slot[nxt[p]] # -1 /\ Target(p, nxt[p]) = 0
  BY ProcsAndConns DEF SendBadFd, InLoop
<1>1. nxt[p] \in Conns /\ nxt[p] > p
  BY <1>0, TargetIs, ProcsAndConns
<1>2. got[p] = 1 .. p
  <2>1. got[p] = {c \in Conns : c <= p /\ c < nxt[p]}
    BY <1>0 DEF IInv, Reached
  <2> QED  BY <1>1, <2>1, ProcsAndConns DEF Conns
<1> QED  BY <1>0, <1>2, ExitIInv DEF Forked

LEMMA EndLoopIInv == ASSUME IInv, NEW p \in Conns, EndLoop(p) PROVE IInv'
<1> USE DEF IInv
<1>0. /\ p \in Procs /\ pc[p] = "send" /\ nxt[p] > MaxConn
      /\ pc' = [pc EXCEPT ![p] = "sent"]
      /\ UNCHANGED <<clientVars, slot, fdt, nxt, got, wanted>>
  BY ProcsAndConns DEF EndLoop, Goto
<1>1. got[p] = 1 .. p
  <2>1. got[p] = {c \in Conns : c <= p /\ c < nxt[p]}
    BY <1>0 DEF Reached
  <2>2. nxt[p] \in Int
    BY <1>0 DEF TypeOK
  <2> QED  BY <1>0, <2>1, <2>2, ProcsAndConns DEF Conns
<1>2. TypeOK'
  BY <1>0 DEF TypeOK, ClientTypeOK, clientVars
<1>3. Chain'
  BY <1>0, ChainKept DEF Forked
<1>4. Tables' /\ Slots'
  BY <1>0 DEF Tables, Slots, TypeOK, Live, Forked
<1>5. Reached' /\ ReachesEarlierClients'
  BY <1>0, <1>1 DEF Reached, ReachesEarlierClients, Over, TypeOK
<1> QED  BY <1>2, <1>3, <1>4, <1>5

LEMMA NextIInv == ASSUME IInv, [Next]_vars PROVE IInv'
<1>1. ASSUME NEW p \in Conns, Process(p) PROVE IInv'
  <2>1. CASE Accept(p) \/ Fork(p) \/ ForkFail(p)
    BY <2>1, AcceptIInv, ForkIInv, ForkFailIInv
  <2>2. CASE Recv(p)
    BY <2>2, RecvIInv
  <2>3. CASE RecvOver(p)
    BY <2>3, ExitIInv DEF RecvOver, Forked
  <2>4. CASE SkipEmpty(p) \/ Send(p)
    BY <2>4, LoopIInv
  <2>5. CASE SendFail(p)
    BY <2>5, ExitIInv DEF SendFail, InLoop, Forked
  <2>6. CASE SendBadFd(p) \/ EndLoop(p)
    BY <2>6, SendBadFdIInv, EndLoopIInv
  <2> QED  BY <1>1, <2>1, <2>2, <2>3, <2>4, <2>5, <2>6 DEF Process
<1>2. ASSUME NEW p \in Procs, AcceptFail(p) PROVE IInv'
  BY <1>2, AcceptFailIInv
<1>3. CASE Clients \/ UNCHANGED vars
  <2>1. UNCHANGED procVars
    BY <1>3 DEF Clients, vars
  <2>2. ClientTypeOK'
    <3>1. CASE Clients
      BY <3>1, ClientStep DEF Clients, IInv, TypeOK
    <3>2. CASE UNCHANGED vars
      BY <3>2 DEF vars, clientVars, IInv, TypeOK, ClientTypeOK
    <3> QED  BY <1>3, <3>1, <3>2
  <2>3. TypeOK'
    BY <2>1, <2>2 DEF IInv, TypeOK, procVars
  <2> QED
    BY <2>1, <2>3
    DEF procVars, IInv, Chain, IsLast, Tables, Slots, Reached,
        ReachesEarlierClients, Over
<1> QED  BY <1>1, <1>2, <1>3 DEF Next

LEMMA SpecIInv == Spec => []IInv
  BY InitIInv, NextIInv, PTL DEF Spec

-----------------------------------------------------------------------------
LEMMA TablesMeanClients ==
    ASSUME IInv PROVE SlotMeansSameClient /\ HeldByLaterOnes
<1> USE DEF IInv
<1>1. ASSUME NEW p \in Procs, NEW i \in Members PROVE Target(p, i) \in {0, i}
  <2>1. i \in Conns /\ slot[i] = FdOf(i)
    BY DEF Members, Slots
  <2>2. FdOf(i) \in Fds /\ ClientOf(FdOf(i)) = i
    BY <2>1, Numbering
  <2> QED  BY <2>1, <2>2 DEF Tables, Target
<1>2. ASSUME NEW p \in Procs, NEW q \in 1 .. p, pc[p] \in {"recv", "send", "sent"}
      PROVE  \E f \in Fds : fdt[p][f] = q
  <2>1. q \in Conns
    BY <1>2, ProcsAndConns DEF Chain, Forked, Conns
  <2>2. FdOf(q) \in Fds /\ ClientOf(FdOf(q)) = q
    BY <2>1, Numbering
  <2>3. fdt[p][FdOf(q)] \in {0, q} /\ (fdt[p][FdOf(q)] # 0 <=> q <= p)
    BY <1>2, <2>2 DEF Tables, Live
  <2> QED  BY <2>1, <2>2, <2>3, ProcsAndConns
<1> QED  BY <1>1, <1>2 DEF SlotMeansSameClient, HeldByLaterOnes

LEMMA ChainHasOneEnd == ASSUME IInv PROVE OneAcceptor
<1>1. PICK p \in Procs : IsLast(p)
  BY DEF IInv, Chain
<1>2. \A q \in Procs : q # p => pc[q] \in Forked \cup {"none"}
  BY <1>1, ProcsAndConns DEF IsLast
<1> QED  BY <1>1, <1>2 DEF OneAcceptor, IsLast, Forked

(* The variables keep their types (tcpChatMultiProcess.cpp: the server).   *)
THEOREM ChatType == Spec => []TypeOK
<1>1. IInv => TypeOK
  BY DEF IInv
<1> QED  BY <1>1, SpecIInv, PTL

(* The shared array means the same clients to every process of the chain   *)
(* (StartServer: clientSocketFd[clientNum] = accept()): a broadcast that   *)
(* is over went to the clients up to the process's own and nobody else,    *)
(* and a process that lives keeps all of them connected.                   *)
THEOREM ArrayHolds == Spec => []ArrayMeansClients
<1>1. IInv => ArrayMeansClients
  BY TablesMeanClients DEF IInv, ArrayMeansClients
<1> QED  BY <1>1, SpecIInv, PTL

(* However processes end, one goes on accepting until accept() or fork()   *)
(* fails in it.                                                            *)
THEOREM AcceptorIsOne == Spec => []OneAcceptor
  BY ChainHasOneEnd, SpecIInv, PTL

=============================================================================
