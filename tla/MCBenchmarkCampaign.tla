-------------------------- MODULE MCBenchmarkCampaign --------------------------
(***************************************************************************)
(* Two processes, three questions of two types in two batches, one or two  *)
(* replacement rounds.  Question 2 is a near duplicate of 1 and of 3,      *)
(* which are none of each other.                                           *)
(***************************************************************************)
EXTENDS BenchmarkCampaign, Integers, TLC
CONSTANTS p1, p2
MCProcesses == {p1, p2}
MCSymmetry == Permutations(MCProcesses)

MCQuotas == <<2, 1>>
MCNormalQuotas == <<1, 1>>
MCWindows == <<[doc |-> "A", pages |-> {1, 2}], [doc |-> "A", pages |-> {2}],
               [doc |-> "B", pages |-> {1}]>>
MCSimilar == {<<a, b>> \in (1..5) \X (1..5) : a - b \in -1..1}
MCDraft(q, doc, page) == [question |-> q, page |-> <<doc, page>>, sound |-> TRUE]
MCDrafts == {MCDraft(q, "A", 2) : q \in {1, 3, 5}}
            \cup {MCDraft(1, "A", 1), MCDraft(2, "B", 1), [MCDraft(5, "B", 1) EXCEPT !.sound = FALSE]}
================================================================================
