-------------------------------- MODULE Analysis --------------------------------
(***************************************************************************)
(* What an analysis export says: the relations a bundle of evidence has to *)
(* satisfy, the failure sample, the costs and the aggregate tables of      *)
(* analysis.py.                                                            *)
(*                                                                         *)
(* A row of evidence is known by its place; a table of the export is a     *)
(* function from the key of a row to its numbers: the order of rows and    *)
(* the salted public ids, which rename the keys, are left out.  Money,     *)
(* scores and times are integers, in units of the quantum they are rounded *)
(* to.                                                                     *)
(***************************************************************************)
EXTENDS Integers, Sequences, SequencesExt

CONSTANTS
    None,
    Evidence,               \* the bundles that an export may be asked of
    Vat,                    \* vat_multiplier, in percent
    Consoles                \* what the console says was paid, or None

VARIABLE input              \* bundles, until they are tabulated

\* What a column adds up to over some of the rows.
Total(rows, some, column) == SumFunction([i \in some |-> rows[i][column]])

Size(n) == IF n < 0 THEN -n ELSE n

\* quantize(..., ROUND_HALF_UP) of n / d: halves go away from zero.
Quotient(n, d) == LET q == (2 * Size(n) + d) \div (2 * d) IN IF n < 0 THEN -q ELSE q

\* _mean
Mean(rows, some, column) == Quotient(Total(rows, some, column), Cardinality(some))

ResultsOf(bundle, id) == {i \in DOMAIN bundle.results : bundle.results[i].id = id}
Experiments(bundle) == {c.id : c \in Range(bundle.configs)}
Cohort(bundle, id) == {bundle.results[i].question : i \in ResultsOf(bundle, id)}
ConfigOf(bundle, id) == CHOOSE c \in Range(bundle.configs) : c.id = id

\* AnalysisBundle._validate_relations
ValidBundle(bundle) ==
    LET results == Range(bundle.results)
        bound == {<<r.id, r.question, r.type>> : r \in results}
    IN /\ Len(bundle.configs) > 0
       /\ Cardinality(Experiments(bundle)) = Len(bundle.configs)
       /\ \A row \in results \cup Range(bundle.usage) \cup Range(bundle.failures) :
            row.id \in Experiments(bundle)
       /\ Cardinality({<<r.id, r.question>> : r \in results}) = Len(bundle.results)
       /\ \A i, j \in Experiments(bundle) : Cohort(bundle, i) = Cohort(bundle, j)
       /\ \A r, s \in results : r.question = s.question => r.type = s.type
       /\ \A u \in Range(bundle.usage) :
            u.question = None \/ <<u.id, u.question, u.type>> \in bound
       /\ \A f \in Range(bundle.failures) : <<f.id, f.question, f.type>> \in bound

\* ExportRequest._same_lineage
SameLineage(bundles) ==
    /\ Cardinality({b.lineage : b \in Range(bundles)}) = 1
    /\ \A i, j \in DOMAIN bundles :
         i # j => Experiments(bundles[i]) \cap Experiments(bundles[j]) = {}

\* _merge_bundles; the result is validated like any bundle.
Concat(parts) == FoldLeft(LAMBDA all, part : all \o part, <<>>, parts)
Merge(bundles) ==
    [lineage |-> bundles[1].lineage,
     configs |-> Concat([i \in DOMAIN bundles |-> bundles[i].configs]),
     results |-> Concat([i \in DOMAIN bundles |-> bundles[i].results]),
     usage |-> Concat([i \in DOMAIN bundles |-> bundles[i].usage]),
     failures |-> Concat([i \in DOMAIN bundles |-> bundles[i].failures])]

Stratum(f) == <<f.id, f.type>>
Prior(rows, i) == Cardinality({j \in 1..(i - 1) : Stratum(rows[j]) = Stratum(rows[i])})

\* plan_failure_sample, of failures in the order of their salted hashes within
\* sorted strata: which of them are taken, round after round.
Before(rows, i, j) ==
    Prior(rows, i) < Prior(rows, j) \/ (Prior(rows, i) = Prior(rows, j) /\ i < j)
FailureSample(failures, size) ==
    {i \in DOMAIN failures : Cardinality({j \in DOMAIN failures : Before(failures, j, i)}) < size}

\* The key of a cost row.
CostGroup(u) == <<u.id, u.operation, u.model, u.type, u.cached>>

\* build_cost_rows: what is paid for, with the tax, and each generate group's
\* share of what was paid to parse.
CostRows(bundle, vat) ==
    LET usage == bundle.usage
        Of(group) == {i \in DOMAIN usage : CostGroup(usage[i]) = group}
        Net(group) == Total(usage, Of(group), "cost")
        Parsed(id) == Total(usage, {i \in DOMAIN usage : usage[i].id = id /\ ~usage[i].cached
                                                         /\ usage[i].operation = "parse"}, "cost")
        Answered(id) == Cardinality(ResultsOf(bundle, id))
        Covered(group) == Cardinality({usage[i].question : i \in Of(group)} \ {None})
    IN [group \in {CostGroup(usage[i]) : i \in DOMAIN usage} |->
          [calls |-> Cardinality(Of(group)),
           net |-> Net(group),
           gross |-> Quotient(Net(group) * vat, 100),
           amortized |-> IF group[2] = "generate" /\ Answered(group[1]) > 0
                         THEN Quotient(Parsed(group[1]) * Covered(group), Answered(group[1]))
                         ELSE 0]]

SumOver(table, column) == SumFunction([key \in DOMAIN table |-> table[key][column]])

Reconciliation(costs, console) ==
    LET local == SumOver(costs, "gross")
    IN IF console = None THEN [status |-> "not_reconciled", local |-> local, delta |-> None]
       ELSE [status |-> "reconciled", local |-> local, delta |-> console - local]

\* The leaderboard of _build_tables, with the cost that its Pareto table adds.
Spent(costs, id) == {group \in DOMAIN costs : group[1] = id}
Leaderboard(bundle, costs) ==
    [id \in Experiments(bundle) |->
       LET rows == ResultsOf(bundle, id)
       IN [count |-> Cardinality(rows), quality |-> Mean(bundle.results, rows, "correctness"),
           cost |-> SumFunction([group \in Spent(costs, id) |-> costs[group].gross])]]

\* Mutant: one that is as good and as cheap is better.
IsPareto_Weak(id, board) ==
    \A other \in DOMAIN board \ {id} :
        ~(board[other].quality >= board[id].quality /\ board[other].cost <= board[id].cost)

\* _is_pareto
IsPareto(id, board) ==
    \A other \in DOMAIN board \ {id} :
        ~ /\ board[other].quality >= board[id].quality /\ board[other].cost <= board[id].cost
          /\ board[other].quality > board[id].quality \/ board[other].cost < board[id].cost

\* _marginal_rows: each configuration of the frontier against the one before;
\* the step has a price per point of quality if there is more quality.
Frontier(board) == {id \in DOMAIN board : IsPareto(id, board)}
NoBetter(board, i, j) ==
    board[i].quality < board[j].quality
      \/ (board[i].quality = board[j].quality /\ board[i].cost <= board[j].cost)
Marginal(board) ==
    LET size == Cardinality(Frontier(board))
        ordered == CHOOSE s \in [1..size -> Frontier(board)] :
                     /\ IsInjective(s)
                     /\ \A i, j \in 1..size : i < j => NoBetter(board, s[i], s[j])
    IN [i \in 2..size |->
          [quality |-> board[ordered[i]].quality - board[ordered[i - 1]].quality,
           cost |-> board[ordered[i]].cost - board[ordered[i - 1]].cost]]

\* What makes two configurations a pair but for the parse mode.
Binding(c) == <<c.strategy, c.retriever, c.topK, c.prompt, c.model>>

\* _paired_parse_rows: the effect of the enhanced parse on the questions both
\* of a pair answered; the last configuration of a mode has the pair's place.
PairedParse(bundle) ==
    LET configs == bundle.configs
        At(b, mode) == {i \in DOMAIN configs : Binding(configs[i]) = b /\ configs[i].mode = mode}
        Id(b, mode) == configs[Max(At(b, mode))].id
        Score(id, q) == (CHOOSE r \in Range(bundle.results) : r.id = id /\ r.question = q).correctness
    IN [b \in {b \in {Binding(configs[i]) : i \in DOMAIN configs} :
                 At(b, "standard") # {} /\ At(b, "enhanced") # {}} |->
          LET standard == Id(b, "standard")  enhanced == Id(b, "enhanced")
              questions == Cohort(bundle, standard)
          IN [same |-> questions = Cohort(bundle, enhanced), count |-> Cardinality(questions),
              effect |-> Quotient(SumFunction([q \in questions |->
                                     Score(enhanced, q) - Score(standard, q)]),
                                  Cardinality(questions))]]

\* _aggregate_axes: results by an axis of their configuration, or by type.
AxesOf(bundle, axes, r) ==
    [axis \in axes |-> IF axis = "type" THEN r.type ELSE ConfigOf(bundle, r.id)[axis]]
AggregateAxes(bundle, axes) ==
    LET results == bundle.results
    IN [key \in {AxesOf(bundle, axes, results[i]) : i \in DOMAIN results} |->
          LET rows == {i \in DOMAIN results : AxesOf(bundle, axes, results[i]) = key}
          IN [count |-> Cardinality(rows), quality |-> Mean(results, rows, "correctness"),
              latency |-> Mean(results, rows, "latency")]]

\* _failure_taxonomy_rows
Taxon(f) == <<f.id, f.type, f.primary, f.secondary>>
FailureTaxonomy(bundle) ==
    LET failures == bundle.failures
    IN [key \in {Taxon(failures[i]) : i \in DOMAIN failures} |->
          [count |-> Cardinality({i \in DOMAIN failures : Taxon(failures[i]) = key})]]

\* Values in their order; equal ones by their places.
Lower(values, i, j) == values[i] < values[j] \/ (values[i] = values[j] /\ i < j)
Sorted(values) ==
    [k \in 1..Cardinality(DOMAIN values) |->
       values[CHOOSE i \in DOMAIN values :
                Cardinality({j \in DOMAIN values : Lower(values, j, i)}) = k - 1]]

\* _percentile, times 100: between the two nearest ranks.
Percentile(values, percent) ==
    LET ordered == Sorted(values)
        position == (Cardinality(DOMAIN values) - 1) * percent
        lower == ordered[position \div 100 + 1]
        upper == ordered[(position + 99) \div 100 + 1]
    IN 100 * lower + (upper - lower) * (position % 100)

\* _latency_rows
LatencyRows(bundle) ==
    [id \in {bundle.results[i].id : i \in DOMAIN bundle.results} |->
       LET values == [i \in ResultsOf(bundle, id) |-> bundle.results[i].latency]
       IN [p50 |-> Percentile(values, 50), p95 |-> Percentile(values, 95),
           p99 |-> Percentile(values, 99), values |-> values]]

\* What AnalysisResult and AnalysisUsage say of a row's numbers.
Rows(rows) == rows \in Seq(Range(rows))
BundleOK(bundle) ==
    /\ Rows(bundle.configs) /\ Rows(bundle.results) /\ Rows(bundle.usage) /\ Rows(bundle.failures)
    /\ \A r \in Range(bundle.results) : r.correctness \in Nat /\ r.latency \in Nat
    /\ \A u \in Range(bundle.usage) : u.cost \in Nat

ASSUME AnalysisAssumption ==
    /\ Vat \in Nat /\ Consoles \ {None} \subseteq Int
    /\ \A bundles \in Evidence : Rows(bundles) /\ \A b \in Range(bundles) : BundleOK(b)

\* A request that is accepted, and whose tables can be made.
Tabulable(bundles) ==
    /\ bundles # <<>> /\ SameLineage(bundles) /\ \A b \in Range(bundles) : ValidBundle(b)
    /\ LET bundle == Merge(bundles) IN ValidBundle(bundle) /\ bundle.results # <<>>

Done == <<>>
AnalysisInit == input \in Evidence \cup {Done}

\* The tables are made; the export knows its request only.
Tabulate == input # Done /\ input' = Done

AnalysisSpec == AnalysisInit /\ [][Tabulate]_input

-----------------------------------------------------------------------------
(* What the tables of an export are to agree on. *)

\* Nothing is lost or counted twice on the way into a table.
TablesAddUp(bundle, costs, board) ==
    LET local == SumOver(costs, "gross")
        pairs == PairedParse(bundle)
    IN /\ SumOver(costs, "calls") = Len(bundle.usage)
       /\ SumOver(costs, "net") = Total(bundle.usage, DOMAIN bundle.usage, "cost")
       /\ SumOver(board, "cost") = local
       /\ \A console \in Consoles \ {None} : local + Reconciliation(costs, console).delta = console
       /\ SumOver(board, "count") = Len(bundle.results)
       /\ \A axes \in {{"strategy", "mode"}, {"retriever", "type"}, {"topK"}, {"prompt"}} :
            SumOver(AggregateAxes(bundle, axes), "count") = Len(bundle.results)
       /\ SumOver(FailureTaxonomy(bundle), "count") = Len(bundle.failures)
       /\ \A b \in DOMAIN pairs : pairs[b].same

\* The percentiles are in their order, and between values that were measured.
PercentilesOrdered(rows) ==
    \A row \in Range(rows) :
       /\ row.p50 <= row.p95 /\ row.p95 <= row.p99
       /\ \E v, w \in Range(row.values) : 100 * v <= row.p50 /\ row.p99 <= 100 * w

\* Of every two strata the sample has as many, or one more of one, unless that
\* is all there is of the other.
SampleIsFair(failures, size) ==
    LET sample == FailureSample(failures, size)
        Taken(s) == Cardinality({i \in sample : Stratum(failures[i]) = s})
        Left(s) == \E i \in DOMAIN failures \ sample : Stratum(failures[i]) = s
        strata == {Stratum(f) : f \in Range(failures)}
    IN /\ Cardinality(sample) = size
       /\ \A s, t \in strata : Left(s) => Taken(t) <= Taken(s) + 1

\* Somebody is on the frontier, whoever is not is beaten by somebody who is,
\* and along the frontier more quality is never free.
FrontierIsSound(board) ==
    LET frontier == Frontier(board)
        marginal == Marginal(board)
    IN /\ frontier # {}
       /\ \A id \in DOMAIN board \ frontier : \E f \in frontier :
            board[f].quality >= board[id].quality /\ board[f].cost <= board[id].cost
       /\ \A i \in DOMAIN marginal :
            /\ marginal[i].quality >= 0
            /\ marginal[i].quality > 0 <=> marginal[i].cost > 0

\* Of a request that is accepted the tables agree with the evidence and with
\* one another, whatever is billed: every call and every cent is in one cost
\* row, every result in one row of each table, the failure sample is spread
\* over the strata, and the frontier is one (build_cost_rows, _build_tables,
\* plan_failure_sample, _is_pareto, _marginal_rows).
AnalysisSound ==
    Tabulable(input) =>
        LET bundle == Merge(input)
            costs == CostRows(bundle, Vat)
            board == Leaderboard(bundle, costs)
        IN /\ TablesAddUp(bundle, costs, board)
           /\ PercentilesOrdered(LatencyRows(bundle))
           /\ \A size \in 1..Len(bundle.failures) : SampleIsFair(bundle.failures, size)
           /\ FrontierIsSound(board)
================================================================================
