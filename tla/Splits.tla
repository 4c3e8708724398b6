-------------------------------- MODULE Splits --------------------------------
(***************************************************************************)
(* build_split_snapshots of benchmark/splits.py: benchmark items are       *)
(* joined into leakage components by union-find over the documents, the    *)
(* family and the paraphrase group they share, and whole components are    *)
(* dealt to the three snapshots.                                           *)
(*                                                                         *)
(* Items are their positions in the order of their ids; tokens[i] is the   *)
(* sequence of tokens of item i.  Path halving changes no root and is left *)
(* out.  The seeded generator decides the order of components of one size  *)
(* and which of the emptiest snapshots is next: here, any.                 *)
(***************************************************************************)
EXTENDS Integers, Sequences, SequencesExt

CONSTANTS Tokens,      \* documents, question families and paraphrase groups
          Benchmarks   \* for each item of a benchmark, its tokens

ASSUME SplitsAssumption == Benchmarks \subseteq Seq(Seq(Tokens))

VARIABLE items  \* the benchmark, until its splits are cut

Names == {"dev_auto", "test_gold", "stress"}

Root(parent, item) ==
    LET find[i \in DOMAIN parent] == IF parent[i] = i THEN i ELSE find[parent[i]]
    IN find[item]

\* Mutant: the items are joined themselves, not their roots.
Union_Shallow(parent, left, right) ==
    IF left = right THEN parent
    ELSE [parent EXCEPT ![IF left < right THEN right ELSE left] =
                            IF left < right THEN left ELSE right]

Union(parent, left, right) ==
    LET a == Root(parent, left)
        b == Root(parent, right)
    IN IF a = b THEN parent
       ELSE [parent EXCEPT ![IF a < b THEN b ELSE a] = IF a < b THEN a ELSE b]

\* indexes.setdefault finds the first item that has the token.
First(tokens, token) ==
    CHOOSE i \in DOMAIN tokens :
        /\ token \in Range(tokens[i])
        /\ \A j \in DOMAIN tokens : token \in Range(tokens[j]) => i <= j

\* Each item in order, and each of its tokens.
JoinToken(at, parent, token) == Union(parent, First(at.tokens, token), at.item)
JoinItem(tokens, parent, item) ==
    LET at == [tokens |-> tokens, item |-> item]
    IN FoldLeft(LAMBDA some, token : JoinToken(at, some, token), parent, tokens[item])
Joined(tokens) ==
    LET apart == [i \in DOMAIN tokens |-> i]
    IN FoldLeft(LAMBDA parent, item : JoinItem(tokens, parent, item), apart, apart)

Components(tokens) ==
    LET parent == Joined(tokens)
    IN {{i \in DOMAIN tokens : Root(parent, i) = r} :
           r \in {Root(parent, i) : i \in DOMAIN tokens}}

\* The largest component first.
Orders(components) ==
    {o \in SetToSeqs(components) : \A n \in 1..(Len(o) - 1) :
        Cardinality(o[n]) >= Cardinality(o[n + 1])}

\* Each to a snapshot with the fewest items; the set of all allocations the
\* generator may produce.
Deal(allocation, group) ==
    {[allocation EXCEPT ![name] = @ \cup group] :
        name \in {n \in Names : \A m \in Names :
                    Cardinality(allocation[n]) <= Cardinality(allocation[m])}}
DealAll(some, group) == UNION {Deal(a, group) : a \in some}
Dealt(components) ==
    UNION {FoldLeft(DealAll, {[n \in Names |-> {}]}, o) : o \in Orders(components)}

\* An allocation that leaves a snapshot empty is refused.
BuildSplitSnapshots(tokens) ==
    {a \in Dealt(Components(tokens)) : \A n \in Names : a[n] # {}}

SplitsInit == items \in Benchmarks

\* The splits are cut; the gold run knows the sealed items only.
Cut == items # <<>> /\ items' = <<>>

SplitsSpec == SplitsInit /\ [][Cut]_items
-----------------------------------------------------------------------------
(* Reference: items leak into each other along chains of shared tokens.     *)

Shares(tokens, i, j) == Range(tokens[i]) \cap Range(tokens[j]) # {}

Closed(tokens, c) ==
    \A j \in c, k \in DOMAIN tokens : Shares(tokens, j, k) => k \in c

\* The least set that holds item i and is closed under sharing.
Leakage(tokens, i) ==
    LET closed == {c \in SUBSET DOMAIN tokens : i \in c /\ Closed(tokens, c)}
    IN CHOOSE c \in closed : \A d \in closed : c \subseteq d

\* No item of one snapshot leaks into an item of another, every item is in
\* exactly one, and the snapshots are refused exactly if there are fewer than
\* three chains.  The sizes differ by no more than the largest chain.
Isolates(tokens) ==
    LET chains == {Leakage(tokens, i) : i \in DOMAIN tokens}
        built == BuildSplitSnapshots(tokens)
    IN /\ built = {} <=> Cardinality(chains) < 3
       /\ \A a \in built :
            /\ UNION {a[n] : n \in Names} = DOMAIN tokens
            /\ \A n, m \in Names :
                 /\ n # m => a[n] \cap a[m] = {}
                 /\ Cardinality(a[n]) - Cardinality(a[m])
                      <= Max({Cardinality(c) : c \in chains})
            /\ \A c \in chains : \E n \in Names : c \subseteq a[n]

\* Whatever the generator draws, no chain of shared documents, families or
\* paraphrases leads from one snapshot of a benchmark into another, however
\* long, and a split is refused only when there are too few chains
\* (build_split_snapshots).
SplitsIsolate == items # <<>> => Isolates(items)
===============================================================================
