------------------------------ MODULE MCGoldRun ------------------------------
(* An instance of GoldRun for TLC: two processes; three preregistrations, of *)
(* which two bind the same cohort; two slots, two scores, one report.      *)
(* Splits is evaluated on four items, each with one or two of four tokens. *)
EXTENDS GoldRun, Splits, TLC

CONSTANTS p1, p2, e1, e2, e3, c1, c2, v1, v2, r1

MCProcesses == {p1, p2}
MCPreregs == {e1, e2, e3}
MCCohortOf == (e1 :> c1) @@ (e2 :> c1) @@ (e3 :> c2)
MCScores == {v1, v2}
MCReports == {r1}
MCSymmetry == Permutations(MCProcesses) \cup Permutations(MCScores) \cup Permutations({e1, e2})

\* The benchmarks the sealed items may be taken from.
MCTokens == 1..4
MCBenchmarks ==
    [1..4 -> {<<t>> : t \in MCTokens} \cup {t \in MCTokens \X MCTokens : t[1] < t[2]}]

MCInit == Init /\ SplitsInit

MCCut == Cut /\ UNCHANGED vars

MCNext == MCCut \/ (items = <<>> /\ Next /\ UNCHANGED items)

MCSpec == MCInit /\ [][MCNext]_<<vars, items>>
==============================================================================
