---------------------------- MODULE MachineWords ----------------------------
(***************************************************************************)
(* The words of a machine: a word of n bits is a number below 2^n.           *)
(***************************************************************************)
EXTENDS Integers

(* 0x1UL << n *)
Pow2[n \in Nat] == IF n = 0 THEN 1 ELSE 2 * Pow2[n - 1]

(* The places of the bits of a word that are 1. *)
BitsOf(width, w) == {i \in 0 .. width - 1 : (w \div Pow2[i]) % 2 = 1}

(* The word that has those bits. *)
WithBits(width, bits) == CHOOSE w \in 0 .. Pow2[width] - 1 : BitsOf(width, w) = bits

(* What a word stands for as a two's complement number. *)
Signed(width, w) == IF w < Pow2[width - 1] THEN w ELSE w - Pow2[width]
=============================================================================
