------------------------------- MODULE Selection -------------------------------
(***************************************************************************)
(* Which configurations go on to the next stage: the retrieval grid        *)
(* (experiments/planner.py), the retrieval shortlist and the top three     *)
(* (experiments/selection.py).                                             *)
(*                                                                         *)
(* A screening outcome is its configuration's parse mode, chunk strategy,  *)
(* retriever, top_k and snapshots, and its cohort; a sequence of outcomes  *)
(* is in the order of _quality_key, which ends with the hash: it is total. *)
(***************************************************************************)
EXTENDS Integers, Sequences, SequencesExt

CONSTANTS Strategies,  \* CHUNK_STRATEGIES
          TopKs,       \* TOP_K_VALUES
          Contests     \* the outcomes a selection is made from

VARIABLE contest  \* the outcomes, until a selection is made from them

\* A raised exception; nothing that is selected is empty.
Unselected == <<>>

ParseModes == {"standard", "enhanced"}
Retrievers == {"dense", "bm25", "hybrid"}
ScoredTopK == 5

\* generate_core_retrieval_configs: the configurations over the snapshots that
\* bindings names for each parse mode and chunk strategy.
CoreRetrievalConfigs(bindings, strategies, topKs) ==
    IF DOMAIN bindings # ParseModes \X strategies THEN {}
    ELSE {[mode |-> b[1], strategy |-> b[2], snapshots |-> bindings[b],
           retriever |-> r, topK |-> k] :
             b \in DOMAIN bindings, r \in Retrievers, k \in topKs}

Family(c) == <<c.mode, c.strategy, c.retriever>>

\* The first outcome of each family, in order; the other top_k of a complete
\* grid are not considered.
Best(some, o) ==
    IF o.topK # ScoredTopK \/ \E i \in DOMAIN some : Family(some[i]) = Family(o) THEN some
    ELSE Append(some, o)
Ranked(outcomes) == FoldLeft(Best, <<>>, outcomes)

Cap(size) == (size + 1) \div 2

\* The parse mode and the retriever of o are below the cap.
BelowCaps(some, o, size) ==
    /\ Cardinality({i \in DOMAIN some : some[i].mode = o.mode}) < Cap(size)
    /\ Cardinality({i \in DOMAIN some : some[i].retriever = o.retriever}) < Cap(size)

Take(size, some, o) ==
    IF Len(some) < size /\ BelowCaps(some, o, size) THEN Append(some, o) ELSE some

\* select_retrieval_shortlist: the best families in order, each parse mode and
\* each retriever at most ceil(size / 2) times.  The outcomes are to be the
\* whole grid, of one cohort.
Shortlist(outcomes, grid, size) ==
    LET configs == {[mode |-> o.mode, strategy |-> o.strategy, snapshots |-> o.snapshots,
                     retriever |-> o.retriever, topK |-> o.topK] : o \in Range(outcomes)}
        selected == FoldLeft(LAMBDA some, o : Take(size, some, o), <<>>, Ranked(outcomes))
    IN IF configs # grid \/ Len(outcomes) # Cardinality(grid)
          \/ Cardinality({o.cohort : o \in Range(outcomes)}) # 1
          \/ Len(selected) < size
       THEN Unselected ELSE selected

\* Mutant: the best value is the cheapest of all.
TopThree_Cheapest(outcomes) ==
    IF Len(outcomes) < 3 THEN Unselected
    ELSE LET best == CHOOSE o \in Range(outcomes) : \A p \in Range(outcomes) : o.cost <= p.cost
             three == SubSeq(outcomes, 1, 3)
         IN IF Contains(three, best) THEN three ELSE [three EXCEPT ![3] = best]

\* The key of best_value: cost, quality, hash.
BetterValue(o, p) ==
    \/ o.cost < p.cost
    \/ o.cost = p.cost /\ o.quality > p.quality
    \/ o.cost = p.cost /\ o.quality = p.quality /\ o.hash < p.hash

\* select_generation_top_three, of outcomes in the order of quality, latency,
\* cost and hash: the best value of those that are competitive with the leader
\* replaces the third unless it is among the three.
TopThree(outcomes) ==
    LET competitive == {o \in Range(outcomes) : o.high >= outcomes[1].low}
        bestValue == CHOOSE o \in competitive : \A p \in competitive : ~BetterValue(p, o)
        three == SubSeq(outcomes, 1, 3)
    IN IF Len(outcomes) < 3 \/ Cardinality({o.hash : o \in Range(outcomes)}) < Len(outcomes)
          \/ Cardinality({o.cohort : o \in Range(outcomes)}) # 1
          \/ \E o \in Range(outcomes) : ~o.calibrated
       THEN Unselected
       ELSE IF Contains(three, bestValue) THEN three ELSE [three EXCEPT ![3] = bestValue]

\* What the outcomes of a whole grid are, in the order of their quality: every
\* configuration once.
OfGrid(configs, cohort) ==
    {[mode |-> c.mode, strategy |-> c.strategy, snapshots |-> c.snapshots,
      retriever |-> c.retriever, topK |-> c.topK, cohort |-> cohort] : c \in configs}
Grid(bindings) == CoreRetrievalConfigs(bindings, Strategies, TopKs)
Screened(c) ==
    /\ c.kind = "grid" /\ DOMAIN c.bindings = ParseModes \X Strategies
    /\ c.size \in 1..Cardinality(ParseModes \X Strategies \X Retrievers)
    /\ c.outcomes \in Seq(OfGrid(Grid(c.bindings), c.cohort))
    /\ IsInjective(c.outcomes) /\ Range(c.outcomes) = OfGrid(Grid(c.bindings), c.cohort)

\* GenerationOutcome, in units of a common denominator, best quality first.
Outcome(cohorts) ==
    [quality : Int, low : Int, high : Int, cost : Int, hash : Int, cohort : cohorts,
     calibrated : BOOLEAN]
Generated(c) ==
    /\ c.kind = "three" /\ c.outcomes \in Seq(Outcome(c.cohorts))
    /\ \A o \in Range(c.outcomes) : o.low <= o.high
    /\ \A i, j \in DOMAIN c.outcomes :
         i <= j => c.outcomes[i].quality >= c.outcomes[j].quality

ASSUME SelectionAssumption ==
    /\ IsFiniteSet(Strategies) /\ IsFiniteSet(TopKs) /\ ScoredTopK \in TopKs
    /\ \A c \in Contests : Screened(c) \/ Generated(c)

Decided == [kind |-> "decided"]
SelectionInit == contest \in Contests \cup {Decided}

\* A selection is made; the next stage knows what was selected only.
Select == contest # Decided /\ contest' = Decided

SelectionSpec == SelectionInit /\ [][Select]_contest

-----------------------------------------------------------------------------
(* What a selection is to be. *)

Diverse(families, size) ==
    /\ \A m \in ParseModes : Cardinality({f \in families : f[1] = m}) <= Cap(size)
    /\ \A r \in Retrievers : Cardinality({f \in families : f[3] = r}) <= Cap(size)

Families(outcomes) ==
    LET ranked == Ranked(outcomes) IN [i \in DOMAIN ranked |-> Family(ranked[i])]

\* From a whole grid a shortlist of any size up to the number of families is
\* found, and no other diverse set of families is better: the best family the
\* two do not share is in the shortlist.
ShortlistIsBest(outcomes, grid, size) ==
    LET shortlist == Shortlist(outcomes, grid, size)
        families == Families(outcomes)
        chosen == {Family(o) : o \in Range(shortlist)}
    IN /\ shortlist # Unselected
       /\ Cardinality(chosen) = size /\ Diverse(chosen, size)
       /\ \A other \in kSubset(size, Range(families)) :
            Diverse(other, size) /\ other # chosen =>
              LET unshared == {i \in DOMAIN families :
                                 (families[i] \in chosen) # (families[i] \in other)}
              IN families[Min(unshared)] \in chosen

\* The leader goes on, with the cheapest of those it does not clearly beat;
\* whoever is passed over is no better than one of the others, or dearer.
TopThreeKeepsValue(outcomes) ==
    LET three == TopThree(outcomes)
    IN three # Unselected =>
         /\ three[1] = outcomes[1] /\ IsInjective(three)
         /\ \A o \in Range(outcomes) :
              o.high >= outcomes[1].low => \E t \in Range(three) :
                 t.cost <= o.cost /\ t.high >= outcomes[1].low
         /\ \A o \in Range(outcomes) \ Range(three) : \A i \in 1..2 : o.quality <= three[i].quality

\* The shortlist of a whole grid always exists and is the best diverse one; the
\* leader and the best value for money are among the three that go on
\* (select_retrieval_shortlist, select_generation_top_three).
SelectionsBest ==
    /\ contest.kind = "grid" =>
         ShortlistIsBest(contest.outcomes, Grid(contest.bindings), contest.size)
    /\ contest.kind = "three" => TopThreeKeepsValue(contest.outcomes)
==============================================================================
