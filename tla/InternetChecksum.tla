-------------------------- MODULE InternetChecksum --------------------------
(***************************************************************************)
(* The checksum functions of src/src/icmp and src/src/socketRaw, over      *)
(* sequences of words 0..Word-1.  In the code Word is 2^16 and the sum a   *)
(* register of two words (an odd last byte is a word of its own value); a  *)
(* smaller Word lets a few words reach the top bit of the register.        *)
(***************************************************************************)
EXTENDS Naturals, Sequences

CONSTANT Word

ASSUME WordAssumption == Word \in Nat /\ Word > 8   \* words of a header

TopBit == (Word * Word) \div 2                       \* 0x80000000
Carried(sum) == (sum \div Word) + (sum % Word)
Complement(sum) == Word - 1 - (sum % Word)           \* (uint16_t)~sum

(* Both carries of ping.cpp:370 and rawSocketDump.cpp:427.                 *)
Folded(sum) == LET once == Carried(sum) IN once + (once \div Word)

(* The loop over the words, from left to right and from 0; add says what   *)
(* becomes of the sum and a word.                                          *)
Summed(add, words) ==
    LET sum[n \in 0 .. Len(words)] == IF n = 0 THEN 0 ELSE add[<<sum[n - 1], words[n]>>]
    IN sum[Len(words)]

Plain == [p \in Nat \X Nat |-> p[1] + p[2]]

(* The top bit of the register is folded in before it is lost.             *)
Carrying == [p \in Nat \X Nat |-> LET sum == p[1] + p[2]
                                  IN IF sum >= TopBit THEN Carried(sum) ELSE sum]

CalcCheckSumOneCarry(words) == \* mutant: the carry of the carry is left out
    Complement(Carried(Summed(Plain, words)))

CalcCheckSum(words) == Complement(Folded(Summed(Plain, words)))
CalcIpv4HdrCheckSum(words) == Complement(Folded(Summed(Carrying, words)))

(* Reference: the one's complement sum of RFC 1071, one end-around carry   *)
(* per addition; a packet with its checksum in it sums to all ones.        *)
EndAround == [p \in Nat \X Nat |-> LET sum == p[1] + p[2]
                                   IN IF sum >= Word THEN sum - Word + 1 ELSE sum]
OnesSum(words) == Summed(EndAround, words)
Verifies(words) == OnesSum(words) = Word - 1
=============================================================================
