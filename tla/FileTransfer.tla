---------------------------- MODULE FileTransfer ----------------------------
(***************************************************************************)
(* What the file transmitter (src/src/tcp/tcpFileTransmitter.cpp) promises *)
(* about the file it creates: the file grows with the bytes of the sent    *)
(* file, in order and from the start, and the transfer counts as complete  *)
(* only when all of them are there.  It may end early at any time.         *)
(***************************************************************************)
EXTENDS Naturals

CONSTANT FileLen    \* bytes of the file that is sent

VARIABLES
    got,      \* how many bytes of it are in the received file
    verdict   \* how the transfer ended

Init == got = 0 /\ verdict = "open"

Grow ==
    /\ verdict = "open"
    /\ got' \in (got + 1)..FileLen
    /\ UNCHANGED verdict

Complete ==
    /\ verdict = "open"
    /\ got = FileLen
    /\ verdict' = "complete"
    /\ UNCHANGED got

GiveUp ==
    /\ verdict = "open"
    /\ verdict' = "incomplete"
    /\ UNCHANGED got

Next == Grow \/ Complete \/ GiveUp

Spec == Init /\ [][Next]_<<got, verdict>>
=============================================================================
