--------------------------- MODULE MCProviderJobs ---------------------------
(* Small instances of ProviderJobs.                                        *)
EXTENDS ProviderJobs, TLC

CONSTANTS k1, k2, r1, c1, c2, t1, t2, t3, t4, w1, w2, history

MCTypeOf == [r \in Requests |-> history]
OnePolicy == history :> [max_in_flight |-> 1, minimum_interval |-> 1]
NoPolicies == [ty \in {} |-> 0]
EveryType == [w \in Workers |-> JobTypes]

Symmetry == Permutations(Tokens) \cup Permutations(Contents)
              \cup Permutations(Workers)
=============================================================================
