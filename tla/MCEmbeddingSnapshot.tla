-------------------------- MODULE MCEmbeddingSnapshot --------------------------
(* Instances of EmbeddingSnapshot for TLC: two builders, chunks of uneven  *)
(* length, two choices of limits of which one is bound by the items and    *)
(* the other by the tokens.                                                *)
EXTENDS EmbeddingSnapshot, TLC

CONSTANTS b1, b2, v1, v2

MCBuilders == {b1, b2}
MCVersions == {v1, v2}
MCTokens == <<1, 2, 1, 1>>
MCLimits == {[items |-> 3, tokens |-> 3], [items |-> 3, tokens |-> 9],
             [items |-> 3, tokens |-> 1]}
MCSymmetry == Permutations(MCBuilders) \cup Permutations(MCVersions)
==============================================================================
