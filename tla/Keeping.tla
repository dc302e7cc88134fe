------------------------------- MODULE Keeping -------------------------------
(***************************************************************************)
(* What the loops over the lists of the Microstack leave: they walk a list *)
(* from its head and take some nodes out, which keeps the order of the     *)
(* others.  This is SelectSeq with a set for its test, as a recursive      *)
(* function.                                                               *)
(***************************************************************************)
EXTENDS Integers, Sequences

(* The elements of s that are in K, in their order. *)
Keep(s, K) ==
  LET upTo[i \in 0..Len(s)] ==
        IF i = 0 THEN <<>>
        ELSE IF s[i] \in K THEN Append(upTo[i - 1], s[i]) ELSE upTo[i - 1]
  IN  upTo[Len(s)]
=============================================================================
