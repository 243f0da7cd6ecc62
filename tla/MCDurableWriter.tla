-------------------------- MODULE MCDurableWriter --------------------------
(* Small instances of DurableWriter.                                       *)
EXTENDS DurableWriter

CONSTANTS e1, e2, e3

Symmetry == Permutations(Events)
=============================================================================
