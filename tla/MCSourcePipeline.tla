------------------------- MODULE MCSourcePipeline -------------------------
EXTENDS SourcePipeline, TLC

Pair == Permutations(Tokens)
=============================================================================
