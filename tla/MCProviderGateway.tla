-------------------------- MODULE MCProviderGateway --------------------------
(* Three calls in two processes over a generate key, whose cost the        *)
(* provider may report above or below its projection, and a parse key,     *)
(* which is never retried.  Two reservations fit below the limit, a third  *)
(* does not always.                                                        *)
EXTENDS ProviderGateway, TLC

CONSTANTS c1, c2, c3, p1, p2
MCCalls == {c1, c2, c3}
MCProcs == {p1, p2}
MCOperation == [k \in Keys |-> IF k = "g" THEN "generate" ELSE "parse"]
MCProjected == [k \in Keys |-> IF k = "g" THEN 2 ELSE 1]
MCReported == {2, 3}
MCSymmetry == Permutations(MCCalls) \cup Permutations(MCProcs)
==============================================================================
