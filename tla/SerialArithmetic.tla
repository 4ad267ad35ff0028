-------------------------- MODULE SerialArithmetic --------------------------
(***************************************************************************)
(* Serial number arithmetic on the DATA sequence space.                    *)
(*                                                                         *)
(* The code computes on uint32 sequence numbers with "(a - b) >>> 0" and   *)
(* compares them by half range: b is ahead of a when the forward distance  *)
(* from a to b is neither 0 nor at least 2^31.  The size of the space is   *)
(* a parameter, so that TLC can walk all the way round a small one; the    *)
(* code's value is HalfSpace = 2^31.  Reduction modulo SeqSpace is written *)
(* as a conditional subtraction, which is what >>> 0 does to the           *)
(* difference or the sum of two numbers of the space.                      *)
(***************************************************************************)
EXTENDS Integers

CONSTANT HalfSpace      \* half the number of sequence numbers

ASSUME HalfSpaceAssumption == HalfSpace \in Nat \ {0, 1}

SeqSpace == 2 * HalfSpace
SeqNum == 0 .. SeqSpace - 1

(* The code's null: no sequence number seen yet. *)
NoSeq == -1

(* (to - from) >>> 0 : forward distance from one number to another. *)
Dist(from, to) == IF to >= from THEN to - from ELSE (to - from) + SeqSpace

(* (s + k) >>> 0, for k \in SeqNum. *)
Plus(s, k) == IF s + k < SeqSpace THEN s + k ELSE (s + k) - SeqSpace

Succ(s) == Plus(s, 1)
Pred(s) == Dist(1, s)

IsAhead(s, ref) == Dist(ref, s) # 0 /\ Dist(ref, s) < HalfSpace
IsBehind(s, ref) == IsAhead(ref, s)

=============================================================================
