-------------------------- MODULE SequenceFilter --------------------------
(***************************************************************************)
(* Filtering a sequence by a set.  SelectSeq takes an operator, which a    *)
(* proof cannot instantiate; this is the same loop over a set of members,  *)
(* as a recursive function that a proof can unfold.                        *)
(***************************************************************************)
EXTENDS Naturals, Sequences

\* The members of T in s, in their order.
Kept(s, T) ==
    LET F[i \in 0..Len(s)] ==
            IF i = 0 THEN <<>> ELSE IF s[i] \in T THEN Append(F[i - 1], s[i]) ELSE F[i - 1]
    IN F[Len(s)]
=============================================================================
