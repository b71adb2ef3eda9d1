----------------------------- MODULE CasCounter -----------------------------
(***************************************************************************)
(* src/src/cas/casBaseOnGcc.cpp: every thread adds LOOP_NUM times to two   *)
(* counters, to countSync with __sync_fetch_and_add() and to countNoSync   *)
(* with ++, a read and a write between which other threads may run.  The   *)
(* barrier of the former keeps the latter from being moved out of the      *)
(* loop.  main() creates the threads, sleeps and reads both counters.      *)
(***************************************************************************)
EXTENDS Naturals, FiniteSets, Sequences

CONSTANTS
    CasThreads,   \* the 20 threads
    LOOP_NUM

ASSUME CasAssumption == IsFiniteSet(CasThreads) /\ LOOP_NUM \in Nat

VARIABLES
    countSync, countNoSync,
    cpc,       \* where each thread is; "new": not created
    cidx,      \* i of ThreadFunc
    cread,     \* the value of countNoSync each thread has read
    mpc,       \* where main() is
    casShown   \* what main() has printed

casVars == <<countSync, countNoSync, cpc, cidx, cread, mpc, casShown>>

CasInit ==
    /\ countSync = 0 /\ countNoSync = 0
    /\ cpc = [t \in CasThreads |-> "new"]
    /\ cidx = [t \in CasThreads |-> 0]
    /\ cread = [t \in CasThreads |-> 0]
    /\ mpc = "create"
    /\ casShown = <<>>

(* pthread_create(); when it fails main() goes on with the next one.       *)
CreateFunc(t) ==
    /\ mpc = "create" /\ cpc[t] = "new"
    /\ cpc' = [cpc EXCEPT ![t] = "add"]
    /\ UNCHANGED <<countSync, countNoSync, cidx, cread, mpc, casShown>>

CasSleep ==
    /\ mpc = "create"
    /\ mpc' = "sync"
    /\ UNCHANGED <<countSync, countNoSync, cpc, cidx, cread, casShown>>

AddSyncOneMore(t) == \* mutant: i <= LOOP_NUM
    /\ cpc[t] = "add" /\ cidx[t] <= LOOP_NUM /\ mpc # "end"
    /\ countSync' = countSync + 1
    /\ cpc' = [cpc EXCEPT ![t] = "read"]
    /\ UNCHANGED <<countNoSync, cidx, cread, mpc, casShown>>

(* The program ends with main(): mpc = "end" stops every thread.           *)
AddSync(t) ==
    /\ cpc[t] = "add" /\ cidx[t] < LOOP_NUM /\ mpc # "end"
    /\ countSync' = countSync + 1
    /\ cpc' = [cpc EXCEPT ![t] = "read"]
    /\ UNCHANGED <<countNoSync, cidx, cread, mpc, casShown>>

ReadNoSyncOnce(t) == \* mutant: the counter is read before the loop only
    /\ cpc[t] = "read" /\ mpc # "end"
    /\ cread' = IF cidx[t] = 0 THEN [cread EXCEPT ![t] = countNoSync] ELSE cread
    /\ cpc' = [cpc EXCEPT ![t] = "write"]
    /\ UNCHANGED <<countSync, countNoSync, cidx, mpc, casShown>>

ReadNoSync(t) ==
    /\ cpc[t] = "read" /\ mpc # "end"
    /\ cread' = [cread EXCEPT ![t] = countNoSync]
    /\ cpc' = [cpc EXCEPT ![t] = "write"]
    /\ UNCHANGED <<countSync, countNoSync, cidx, mpc, casShown>>

WriteNoSync(t) ==
    /\ cpc[t] = "write" /\ mpc # "end"
    /\ countNoSync' = cread[t] + 1
    /\ cpc' = [cpc EXCEPT ![t] = "add"]
    /\ cidx' = [cidx EXCEPT ![t] = @ + 1]
    /\ UNCHANGED <<countSync, cread, mpc, casShown>>

ThreadFunc(t) == AddSync(t) \/ ReadNoSync(t) \/ WriteNoSync(t)

(* The two printf() are two reads, with threads running in between when    *)
(* three seconds were not enough.                                          *)
ShowSync ==
    /\ mpc = "sync"
    /\ mpc' = "nosync" /\ casShown' = <<countSync>>
    /\ UNCHANGED <<countSync, countNoSync, cpc, cidx, cread>>

ShowNoSync ==
    /\ mpc = "nosync"
    /\ mpc' = "end" /\ casShown' = Append(casShown, countNoSync)
    /\ UNCHANGED <<countSync, countNoSync, cpc, cidx, cread>>

CasNext ==
    \/ CasSleep \/ ShowSync \/ ShowNoSync
    \/ \E t \in CasThreads : CreateFunc(t) \/ ThreadFunc(t)

CasSpec == CasInit /\ [][CasNext]_casVars

-----------------------------------------------------------------------------
CasTypeOK ==
    /\ countSync \in Nat /\ countNoSync \in Nat
    /\ cpc \in [CasThreads -> {"new", "add", "read", "write"}]
    /\ cidx \in [CasThreads -> 0..LOOP_NUM]
    /\ cread \in [CasThreads -> Nat]
    /\ mpc \in {"create", "sync", "nosync", "end"}

(* Between its two additions.                                              *)
Between == {t \in CasThreads : cpc[t] \in {"read", "write"}}

(* Additions to countNoSync get lost, but a stale write never brings it    *)
(* past the additions that were made: countSync is an upper bound at every *)
(* moment, with room for the threads between their two additions.          *)
NoSyncNeverAhead == countNoSync + Cardinality(Between) <= countSync

AllDone ==
    \A t \in CasThreads :
        cpc[t] = "new" \/ (cpc[t] = "add" /\ cidx[t] = LOOP_NUM)
Created == {t \in CasThreads : cpc[t] # "new"}

(* When all threads are done countSync is exact, and countNoSync can have  *)
(* lost all but two additions (all but none with one thread).              *)
DoneCounts ==
    AllDone /\ Created # {} /\ LOOP_NUM >= 2 =>
        /\ countSync = LOOP_NUM * Cardinality(Created)
        /\ countNoSync >= IF Cardinality(Created) = 1 THEN LOOP_NUM ELSE 2
=============================================================================
