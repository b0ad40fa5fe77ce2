------------------------------ MODULE VecRetain ------------------------------
(***************************************************************************)
(* Vec::retain and Iterator::filter of the Rust library: the elements of a *)
(* list that are wanted, in their order.  A recursive function and not     *)
(* SelectSeq, because the proofs expand it.                                *)
(***************************************************************************)
EXTENDS Integers, Sequences

Retains(s, wanted) ==
    LET kept[k \in 0 .. Len(s)] ==
          IF k = 0 THEN <<>>
          ELSE IF s[k] \in wanted THEN Append(kept[k - 1], s[k]) ELSE kept[k - 1]
    IN  kept

Retain(s, wanted) == Retains(s, wanted)[Len(s)]

=============================================================================
