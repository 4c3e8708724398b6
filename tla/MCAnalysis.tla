------------------------------ MODULE MCAnalysis ------------------------------
(***************************************************************************)
(* Two exporters of one output, and first a look at what the tables say of *)
(* every bundle of a small family: three configurations of which two are a *)
(* pair but for the parse mode, three questions of two types.              *)
(***************************************************************************)
EXTENDS AnalysisExport

mcvars == <<export, input>>

MCConfig(id) ==
    [id |-> id, mode |-> IF id = "b" THEN "enhanced" ELSE "standard", strategy |-> "fixed",
     retriever |-> IF id = "c" THEN "hybrid" ELSE "dense", topK |-> 3, prompt |-> "v1",
     model |-> "m"]
MCType(q) == IF q = "q3" THEN "table" ELSE "fact"

\* Correctness is a percentage; a failure is a result with none.
MCResult(id, q, right) ==
    [id |-> id, question |-> q, type |-> MCType(q),
     correctness |-> IF <<id, q>> \in right THEN 100 ELSE 0, latency |-> IF q = "q1" THEN 5 ELSE IF q = "q2" THEN 8 ELSE 6]
MCFailure(r) ==
    [id |-> r.id, question |-> r.question, type |-> r.type, primary |-> "retrieval",
     secondary |-> "none"]
MCUsage(id, operation, q, cost, cached) ==
    [id |-> id, question |-> q, type |-> IF q = None THEN "all" ELSE MCType(q), model |-> "m",
     operation |-> operation, cost |-> cost, cached |-> cached]

MCBundle(ids, questions, right, cost, cached) ==
    LET n == Len(questions)
        each(P(_, _)) == [i \in 1..(Len(ids) * n) |->
                            P(ids[(i - 1) \div n + 1], questions[((i - 1) % n) + 1])]
        results == each(LAMBDA id, q : MCResult(id, q, right))
        failed == SelectSeq(results, LAMBDA r : r.correctness = 0)
    IN [lineage |-> "lineage",
        configs |-> [i \in DOMAIN ids |-> MCConfig(ids[i])],
        results |-> results,
        usage |-> [i \in DOMAIN ids |-> MCUsage(ids[i], "parse", None, 7, cached)]
                  \o each(LAMBDA id, q : MCUsage(id, "generate", q, cost[id], cached)),
        failures |-> [i \in DOMAIN failed |-> MCFailure(failed[i])]]

MCQuestions == <<"q1", "q2", "q3">>
MCPairs == {"a", "b", "c"} \X {"q1", "q2", "q3"}

\* One bundle, or two that are merged; in the last the cohorts are not one.
MCInputs ==
    UNION {
      {<<MCBundle(<<"a", "b", "c">>, MCQuestions, right, cost, cost["c"] = 14)>>,
       <<MCBundle(<<"b", "a">>, MCQuestions, right, cost, cost["c"] = 14),
         MCBundle(<<"c">>, MCQuestions, right, cost, cost["c"] = 15)>>,
       <<MCBundle(<<"a", "c">>, MCQuestions, right, cost, cost["c"] = 14),
         MCBundle(<<"b">>, <<"q1">>, right, cost, cost["c"] = 14)>>} :
      right \in SUBSET MCPairs, cost \in {c \in [{"a", "b", "c"} -> {14, 15}] : c["a"] = 14}}

\* What the exporters are asked for: an export that can be made, one of two
\* bundles, one without enough failures, one that spent nothing, one whose
\* bundles are not of one cohort, and one that has a configuration twice.
MCCost == [id \in {"a", "b", "c"} |-> 14]
MCRequests ==
    LET whole == MCBundle(<<"a", "b">>, MCQuestions, {}, MCCost, FALSE)
        rest == MCBundle(<<"c">>, MCQuestions, {}, MCCost, FALSE)
    IN {<<whole>>, <<whole, rest>>,
        <<MCBundle(<<"a", "b">>, MCQuestions, MCPairs, MCCost, FALSE)>>,
        <<[whole EXCEPT !.usage = <<>>]>>,
        <<whole, MCBundle(<<"c">>, <<"q1">>, {}, MCCost, FALSE)>>,
        <<whole, whole>>}

MCConsoles == {None, 90}

MCInit == ExportInit /\ AnalysisInit
MCTabulate == Tabulate /\ UNCHANGED export
MCExport == input = Done /\ ExportNext /\ UNCHANGED input
MCNext == MCTabulate \/ MCExport

MCSpec == MCInit /\ [][MCNext]_mcvars
===============================================================================
