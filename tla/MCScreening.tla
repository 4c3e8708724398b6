---------------------------- MODULE MCScreening ----------------------------
(***************************************************************************)
(* Screening with two processes, two questions and two rankings; before    *)
(* it, the functions the stage is made of, on every input of a small set:  *)
(* queries with what the retrievers, the source and the model return, and  *)
(* the outcomes the selections are made from.  The run starts when the     *)
(* question is answered and the selection made.                            *)
(***************************************************************************)
EXTENDS Screening, GroundedAnswer, Selection, TLC

CONSTANTS p1, p2, k1, k2
MCProcesses == {p1, p2}
MCRankings == {k1, k2}
MCSymmetry == Permutations(MCProcesses) \cup Permutations(MCRankings)

mcvars == <<vars, query, contest>>

\* Rankings of up to two of three chunks; a larger chunk does not always fit.
MCFound == {r \in UNION {[1..n -> 1..3] : n \in 0..2} : IsInjective(r)}
MCTokens == <<3, 1, 2>>
MCRaw ==
    {[form |-> "json", answer |-> [citations |-> c, abstained |-> a]] :
       c \in {<<>>, <<1>>, <<2, 1>>, <<1, 1>>}, a \in BOOLEAN}
    \cup {[form |-> "prose", answer |-> [citations |-> <<1>>, abstained |-> FALSE]]}

\* The source returns the rows of the hits in another order, or one too few.
MCRows(hits) ==
    LET row(h) == [chunk |-> h.chunk, rank |-> h.rank, tokens |-> MCTokens[h.chunk]]
        rows == <<>> \o [i \in DOMAIN hits |-> row(hits[i])]
    IN {Reverse(rows), SubSeq(rows, 2, Len(rows))}

MCSearches ==
    {[dense |-> d, sparse |-> s, k |-> 0, weights |-> w, topK |-> 2] :
       d \in MCFound, s \in MCFound, w \in {<<1, 1>>, <<2, 1>>}}

MCQueries ==
    UNION {{search @@ [rows |-> rows, budget |-> b, raw |-> raw, version |-> v] :
              rows \in MCRows(HybridSearch(search)), b \in {2, 4}, raw \in MCRaw, v \in {"v1", "v2"}} :
           search \in MCSearches}

\* The whole grid over one strategy: the scored outcomes in every order, the
\* others before them.
MCStrategies == {"fixed"}
MCTopKs == {3, 5}
MCBindings == [b \in ParseModes \X MCStrategies |-> b]
MCGrid == CoreRetrievalConfigs(MCBindings, MCStrategies, MCTopKs)
MCOutcome(c) == CHOOSE o \in OfGrid({c}, "cohort") : TRUE
MCScored == {c \in MCGrid : c.topK = 5}
MCShortlists ==
    {[kind |-> "grid", size |-> n, bindings |-> MCBindings, cohort |-> "cohort",
      outcomes |-> [i \in 1..12 |-> MCOutcome(IF i <= 6 THEN [order[7 - i] EXCEPT !.topK = 3]
                                              ELSE order[i - 6])]] :
       n \in 2..6, order \in SetToSeqs(MCScored)}

MCThrees ==
    {[kind |-> "three", cohorts |-> {"cohort"},
      outcomes |-> [i \in 1..4 |->
         [quality |-> q[i], low |-> q[i] - w[i], high |-> q[i] + w[i], cost |-> cost[i],
          hash |-> 5 - i, cohort |-> "cohort", calibrated |-> TRUE]]] :
       q \in {<<4, 3, 2, 1>>, <<3, 3, 2, 2>>}, w \in [1..4 -> 0..1], cost \in [1..4 -> 1..3]}

MCContests == MCShortlists \cup MCThrees

MCInit ==
    /\ Init
    /\ \/ AnswerInit /\ contest = Decided
       \/ SelectionInit /\ query = Answered

MCAnswer == GiveAnswer /\ UNCHANGED <<vars, contest>>
MCSelect == Select /\ UNCHANGED <<vars, query>>
MCScreen == query = Answered /\ contest = Decided /\ Next /\ UNCHANGED <<query, contest>>
MCNext == MCAnswer \/ MCSelect \/ MCScreen

MCSpec == MCInit /\ [][MCNext]_mcvars
============================================================================
