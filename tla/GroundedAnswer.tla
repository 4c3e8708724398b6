---------------------------- MODULE GroundedAnswer ----------------------------
(***************************************************************************)
(* From a question to a cited answer: HybridRetriever.search               *)
(* (retrieval/service.py), reciprocal_rank_fusion, RagService.answer,      *)
(* ContextBuilder.build, parse_generated_answer, validate_answer_policy    *)
(* and resolve_citations.                                                  *)
(*                                                                         *)
(* A chunk is the position of its id in the order of ids; a ranking is the *)
(* sequence of chunks a branch found.  The citation label C<i> is i.  A    *)
(* raised exception is Refused.  Tokens of the joined records are added    *)
(* up; scores, which are fractions, are brought to a common denominator.   *)
(***************************************************************************)
EXTENDS Integers, Sequences, SequencesExt

CONSTANT Queries  \* what the branches, the source and the model say to a question

VARIABLE query  \* one of them, until it is answered

Refused == [refused |-> TRUE]

Unranked == 0
RankIn(ranking, c) == IF Contains(ranking, c) THEN SelectInSeq(ranking, LAMBDA d : d = c)
                      ELSE Unranked

\* weight / (k + rank), times the product of all denominators k + 1 .. k + n.
Times(at, product, i) == IF i = at.rank THEN product ELSE product * (at.k + i)
Term(k, n, weight, rank) ==
    LET at == [k |-> k, rank |-> rank]
        upTo == [i \in 1..n |-> i]
    IN IF rank = Unranked THEN 0
       ELSE weight * FoldLeft(LAMBDA product, i : Times(at, product, i), 1, upTo)

\* The fused score of a chunk.
Longest(rankings) == Max({Len(r) : r \in Range(rankings)} \cup {1})
Plus(of, sum, b) ==
    sum + Term(of.k, of.n, of.weights[b], RankIn(of.rankings[b], of.chunk))
Score(rankings, k, weights, c) ==
    LET of == [rankings |-> rankings, k |-> k, n |-> Longest(rankings), weights |-> weights,
               chunk |-> c]
        branches == [b \in DOMAIN rankings |-> b]
    IN FoldLeft(LAMBDA sum, b : Plus(of, sum, b), 0, branches)

\* The order of fused scores; equal scores are ordered by chunk id.
Better(score, c, d) == score[c] > score[d] \/ (score[c] = score[d] /\ c < d)

ReciprocalRankFusion(rankings, k, weights) ==
    LET chunks == UNION {Range(r) : r \in Range(rankings)}
        score == [c \in chunks |-> Score(rankings, k, weights, c)]
    IN [i \in 1..Cardinality(chunks) |->
          CHOOSE c \in chunks : Cardinality({d \in chunks : Better(score, d, c)}) = i - 1]

\* The first top_k of the fused ranking, each with its ranks in the branches.
HybridSearch(q) ==
    LET fused == ReciprocalRankFusion(<<q.dense, q.sparse>>, q.k, q.weights)
    IN [i \in 1..Min({q.topK, Len(fused)}) |->
          [chunk |-> fused[i], rank |-> i, dense |-> RankIn(q.dense, fused[i]),
           sparse |-> RankIn(q.sparse, fused[i])]]

\* RetrievalScreenRunner._persistable_hits: what a screening run accepts.
PersistableHits(hits, topK) ==
    /\ Len(hits) <= topK
    /\ \A i \in DOMAIN hits : hits[i].rank = i
    /\ IsInjective([i \in DOMAIN hits |-> hits[i].chunk])
    /\ \A i \in DOMAIN hits : hits[i].dense # Unranked \/ hits[i].sparse # Unranked

\* _validate_resolved_chunks: the source returned each hit once, unchanged,
\* and nothing else.
ResolvedExactly(hits, rows) ==
    /\ IsInjective([i \in DOMAIN rows |-> rows[i].chunk])
    /\ {[chunk |-> r.chunk, rank |-> r.rank] : r \in Range(rows)}
         = {[chunk |-> h.chunk, rank |-> h.rank] : h \in Range(hits)}

\* The resolved records by rank, no chunk twice.
Ordered(rows) ==
    CHOOSE s \in SetToSeqs(Range(rows)) :
       \A i, j \in DOMAIN s : i < j => s[i].rank <= s[j].rank

Tokens(rows) == FoldLeft(LAMBDA sum, r : sum + r.tokens, 0, rows)

\* Mutant: a record that does not fit is skipped and a shorter one taken.
BuildContext_Skipping(rows, budget) ==
    FoldLeft(LAMBDA some, r : IF Tokens(Append(some, r)) <= budget THEN Append(some, r)
                              ELSE some, <<>>, Ordered(rows))

\* ContextBuilder.build: the records in the order of their ranks, as many from
\* the first on as fit.
BuildContext(rows, budget) ==
    LET ordered == Ordered(rows)
        fitting == Max({n \in 0..Len(ordered) :
                          \A m \in 1..n : Tokens(SubSeq(ordered, 1, m)) <= budget})
    IN SubSeq(ordered, 1, fitting)

\* parse_generated_answer: JSON, or JSON in one fence, of the right shape.
ParsesGeneratedAnswer(raw) == raw.form \in {"json", "fenced json"}

ValidateAnswerPolicy(answer, version) ==
    /\ answer.abstained => answer.citations = <<>>
    /\ version \in {"v2", "v3"} /\ ~answer.abstained => answer.citations # <<>>

\* resolve_citations: distinct labels of records in the context.
ResolvesCitations(labels, context) ==
    IsInjective(labels) /\ Range(labels) \subseteq DOMAIN context

\* RagService.answer: what the user gets, or Refused.
Answer(q) ==
    LET context == BuildContext(q.rows, q.budget)
        generated == q.raw.answer
    IN IF /\ ResolvedExactly(HybridSearch(q), q.rows)
          /\ ParsesGeneratedAnswer(q.raw)
          /\ ValidateAnswerPolicy(generated, q.version)
          /\ ResolvesCitations(generated.citations, context)
       THEN [evidence |-> [i \in DOMAIN context |-> context[i].chunk],
             citations |-> [i \in DOMAIN generated.citations |->
                              context[generated.citations[i]].chunk],
             abstained |-> generated.abstained]
       ELSE Refused

\* What a branch finds: chunks, none twice.
Ranking(r) == r \in Seq(Nat) /\ IsInjective(r)

\* What HybridRetriever.search and RagService.answer may be given.
Row == [chunk : Nat, rank : Nat, tokens : Nat]
Reply == [citations : Seq(Nat), abstained : BOOLEAN]
Asked(q) ==
    /\ Ranking(q.dense) /\ Ranking(q.sparse)
    /\ q.k \in Nat /\ q.weights \in (Nat \ {0}) \X (Nat \ {0}) /\ q.topK \in Nat \ {0}
    /\ q.rows \in Seq(Row) /\ q.budget \in Nat
    /\ q.raw.answer \in Reply /\ q.version \in {"v1", "v2", "v3"}

ASSUME AnswerAssumption == \A q \in Queries : Asked(q)

Answered == [answered |-> TRUE]
AnswerInit == query \in Queries \cup {Answered}

\* The question is answered, or refused.
GiveAnswer == query # Answered /\ query' = Answered

AnswerSpec == AnswerInit /\ [][GiveAnswer]_query

-----------------------------------------------------------------------------
(* What an answer is to be, whatever the branches, the source and the model  *)
(* return.                                                                   *)

\* Chunk c is ahead of d in every branch that has either.
Ahead(q, c, d) ==
    /\ \A ranking \in {q.dense, q.sparse} :
         Contains(ranking, d) => /\ Contains(ranking, c)
                                 /\ RankIn(ranking, c) < RankIn(ranking, d)
    /\ Contains(q.dense, c) \/ Contains(q.sparse, c)

\* The evidence starts with the best chunks: whatever is ahead of a chunk in
\* the evidence precedes it there.  Citations are chunks of the evidence, each
\* cited once, and an answer that has to be supported has one.
Grounded(q) ==
    LET a == Answer(q)
        chunks == Range(q.dense) \cup Range(q.sparse)
    IN a # Refused =>
         /\ \A i \in DOMAIN a.evidence : \A c \in chunks :
              Ahead(q, c, a.evidence[i]) => \E j \in 1..(i - 1) : a.evidence[j] = c
         /\ Range(a.citations) \subseteq Range(a.evidence) /\ IsInjective(a.citations)
         /\ Range(a.evidence) \subseteq chunks /\ Len(a.evidence) <= q.topK
         /\ q.version # "v1" => (a.abstained <=> a.citations = <<>>)

\* A hybrid search is something a screening run accepts, and an answer cites
\* what it was given and was given the best there was, whatever the branches
\* find, the source resolves and the model writes (HybridRetriever.search,
\* RagService.answer).
AnswersGrounded ==
    query # Answered =>
        Grounded(query) /\ PersistableHits(HybridSearch(query), query.topK)
===============================================================================
