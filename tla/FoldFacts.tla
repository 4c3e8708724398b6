------------------------------- MODULE FoldFacts -------------------------------
(***************************************************************************)
(* What a fold from the left computes, for any operation Op: the values    *)
(* after each element, one after the other.  FoldLeft of SequencesExt is   *)
(* Fold below as soon as its definition is expanded; a module that proves  *)
(* about a fold takes an instance of this one for the fold's operation.    *)
(* Then what a finite set adds up to (SumFunctionOnSet, the fold whose     *)
(* operation is +), and the places of its members in a strict total order. *)
(***************************************************************************)
EXTENDS Integers, Functions, FiniteSetTheorems, TLAPS

CONSTANT Op(_, _, _)  \* its first operand is the context of the fold

Largest(S) == CHOOSE x \in S : \A y \in S : x >= y

(* The equation that FoldLeft chooses a solution of, over the sets of      *)
(* positions in seq.                                                       *)
Folds(ctx, iter, base, seq, D) == iter = [s \in SUBSET D |->
    IF s = {} THEN base ELSE Op(ctx, iter[s \ {Largest(s)}], seq[Largest(s)])]

Fold(ctx, base, seq) == (CHOOSE iter : Folds(ctx, iter, base, seq, DOMAIN seq))[DOMAIN seq]

(* Of the subsets of a finite set with a property one is smallest.         *)
LEMMA Smallest ==
    ASSUME NEW S, IsFiniteSet(S), NEW Bad \in SUBSET (SUBSET S), Bad # {}
    PROVE  \E T \in Bad : \A U \in Bad : ~(U \subseteq T /\ U # T)
<1>1. FiniteSubsetsOf(S) = SUBSET S
  BY FS_FiniteSubsetsOfFinite
<1>2. IsWellFoundedOn(StrictSubsetOrdering(S), SUBSET S)
  BY <1>1, FS_StrictSubsetOrderingWellFounded
<1>3. PICK T \in Bad : \A U \in Bad : <<U, T>> \notin StrictSubsetOrdering(S)
  BY <1>2, WFMin
<1> QED BY <1>3 DEF StrictSubsetOrdering

LEMMA Interval ==
    ASSUME NEW n \in Nat
    PROVE  IsFiniteSet(1..n)
<1>1. 1 \in Int /\ n \in Int
  OBVIOUS
<1> QED BY <1>1, FS_Interval

(* Induction over a finite interval, as a set.                             *)
LEMMA IntervalInduction ==
    ASSUME NEW n \in Nat, NEW T, 0 \in T, \A i \in 1..n : i - 1 \in T => i \in T
    PROVE  \A i \in 0..n : i \in T
<1> DEFINE D == 1..n
           Below(i) == {j \in D : j <= i}
           Bad == {i \in 0..n : i \notin T}
           Initial == {B \in SUBSET D : \E i \in Bad : B = Below(i)}
<1>1. SUFFICES ASSUME Bad # {} PROVE FALSE
  OBVIOUS
<1>a. IsFiniteSet(D)
  BY Interval
<1>b. \A i \in Bad : Below(i) \in Initial
  OBVIOUS
<1>2. Initial \in SUBSET (SUBSET D) /\ Initial # {}
  BY <1>1, <1>b
<1>3. PICK I \in Initial : \A J \in Initial : ~(J \subseteq I /\ J # I)
  <2> HIDE DEF Initial, D
  <2> QED BY <1>2, <1>a, Smallest
<1>4. PICK i \in Bad : I = Below(i)
  BY DEF Initial
<1>5. i \in 1..n
  BY <1>4
<1>6. i - 1 \in T
  <2>1. i - 1 \in 0..n /\ Below(i - 1) \subseteq Below(i) /\ i \in Below(i) /\ i \notin Below(i - 1)
    BY <1>5
  <2>2. i - 1 \in Bad => Below(i - 1) \in Initial
    BY <1>b
  <2>3. ~(Below(i - 1) \in Initial)
    <3> HIDE DEF Below, Initial
    <3> QED BY <1>3, <1>4, <2>1
  <2> QED BY <2>1, <2>2, <2>3
<1> QED BY <1>4, <1>5, <1>6

(* A nonempty set of naturals that is bounded has a largest element.       *)
LEMMA LargestIn ==
    ASSUME NEW n \in Nat, NEW S \in SUBSET (1..n), S # {}
    PROVE  Largest(S) \in S /\ \A y \in S : Largest(S) >= y
<1> DEFINE T == {i \in 0..n : \A j \in S : j <= i => \E x \in S : x <= i /\ \A y \in S : y <= i => x >= y}
<1>1. 0 \in T
  BY DEF T
<1>2. ASSUME NEW i \in 1..n, i - 1 \in T PROVE i \in T
  <2>1. CASE i \in S
    BY <1>2, <2>1
  <2>2. CASE i \notin S
    <3>1. \A j \in S : j <= i <=> j <= i - 1
      BY <2>2
    <3> QED BY <1>2, <3>1
  <2> QED BY <2>1, <2>2
<1>3. n \in T
  <2> HIDE DEF T
  <2> QED BY <1>1, <1>2, IntervalInduction
<1>4. \E x \in S : \A y \in S : x >= y
  <2>a. \A j \in S : j \in 1..n
    OBVIOUS
  <2>b. \A j \in S : j <= n
    BY <2>a
  <2>1. PICK j \in S : TRUE
    BY Zenon
  <2>2. PICK x \in S : \A y \in S : y <= n => x >= y
    BY <1>3, <2>1, <2>b
  <2> QED BY <2>2, <2>b
<1> QED BY <1>4 DEF Largest

(* A finite set every part of which has a largest element.                 *)
Ranked(S) == IsFiniteSet(S) /\ \A T \in SUBSET S : T # {} => Largest(T) \in T

LEMMA IntervalRanked ==
    ASSUME NEW n \in Nat
    PROVE  Ranked(1..n)
BY Interval, LargestIn DEF Ranked

(* Two solutions of the equation agree where both are defined.             *)
LEMMA FoldsAgree ==
    ASSUME NEW ctx, NEW base, NEW seq, NEW S, Ranked(S), NEW R \in SUBSET S,
           NEW g, NEW h, Folds(ctx, g, base, seq, S), Folds(ctx, h, base, seq, R)
    PROVE  \A T \in SUBSET R : g[T] = h[T]
<1> DEFINE Bad == {T \in SUBSET R : g[T] # h[T]}
<1>1. SUFFICES ASSUME Bad # {} PROVE FALSE
  OBVIOUS
<1>2. PICK T \in Bad : \A U \in Bad : ~(U \subseteq T /\ U # T)
  <2>1. Bad \in SUBSET (SUBSET R) /\ IsFiniteSet(R)
    BY FS_Subset DEF Ranked
  <2> HIDE DEF Bad
  <2> QED BY <1>1, <2>1, Smallest
<1> DEFINE U == T \ {Largest(T)}
<1>3. T # {} => Largest(T) \in T
  BY <1>2 DEF Ranked
<1>4. g[T] = IF T = {} THEN base ELSE Op(ctx, g[U], seq[Largest(T)])
  BY <1>2 DEF Folds
<1>5. h[T] = IF T = {} THEN base ELSE Op(ctx, h[U], seq[Largest(T)])
  BY <1>2 DEF Folds
<1>6. CASE T = {}
  BY <1>2, <1>4, <1>5, <1>6
<1>7. CASE T # {}
  <2>1. U \subseteq T /\ U # T /\ U \subseteq R
    BY <1>2, <1>3, <1>7
  <2>2. g[U] = h[U]
    BY <1>2, <2>1
  <2> QED BY <1>2, <1>4, <1>5, <1>7, <2>2
<1> QED BY <1>6, <1>7

(* The equation has a solution: were there a smallest set of positions     *)
(* without one, the solutions over its subsets would make it.              *)
LEMMA FoldsExist ==
    ASSUME NEW ctx, NEW base, NEW seq, NEW S, Ranked(S)
    PROVE  \E g : Folds(ctx, g, base, seq, S)
<1> DEFINE Bad == {T \in SUBSET S : ~ \E g : Folds(ctx, g, base, seq, T)}
<1>1. SUFFICES ASSUME Bad # {} PROVE FALSE
  OBVIOUS
<1>2. PICK T \in Bad : \A U \in Bad : ~(U \subseteq T /\ U # T)
  <2>1. Bad \in SUBSET (SUBSET S) /\ IsFiniteSet(S)
    BY DEF Ranked
  <2> HIDE DEF Bad
  <2> QED BY <1>1, <2>1, Smallest
<1>r. \A U \in SUBSET T : Ranked(U)
  BY <1>2, FS_Subset DEF Ranked
<1> DEFINE G(U) == CHOOSE g : Folds(ctx, g, base, seq, U)
           v == [U \in SUBSET T |-> IF U = {} THEN base
                    ELSE Op(ctx, G(U \ {Largest(U)})[U \ {Largest(U)}], seq[Largest(U)])]
<1>3. \A U \in SUBSET T : U # T => Folds(ctx, G(U), base, seq, U)
  <2> SUFFICES ASSUME NEW U \in SUBSET T, U # T PROVE Folds(ctx, G(U), base, seq, U)
    OBVIOUS
  <2>1. U \in SUBSET S /\ U \notin Bad
    BY <1>2
  <2> QED BY <2>1
<1>4. \A U \in SUBSET T : U # {} =>
         /\ Largest(U) \in U /\ U \ {Largest(U)} \in SUBSET T
         /\ U \ {Largest(U)} # U /\ U \ {Largest(U)} # T
  <2> SUFFICES ASSUME NEW U \in SUBSET T, U # {}
               PROVE  /\ Largest(U) \in U /\ U \ {Largest(U)} \in SUBSET T
                      /\ U \ {Largest(U)} # U /\ U \ {Largest(U)} # T
    OBVIOUS
  <2>2. Largest(U) \in U
    BY <1>r DEF Ranked
  <2> QED BY <2>2
<1>5. \A U \in SUBSET T : U # T => v[U] = G(U)[U]
  <2> SUFFICES ASSUME NEW U \in SUBSET T, U # T PROVE v[U] = G(U)[U]
    OBVIOUS
  <2> DEFINE W == U \ {Largest(U)}
  <2>1. Folds(ctx, G(U), base, seq, U) /\ Ranked(U)
    BY <1>3, <1>r
  <2>2. G(U)[U] = IF U = {} THEN base ELSE Op(ctx, G(U)[W], seq[Largest(U)])
    <3> HIDE DEF G
    <3> QED BY <2>1 DEF Folds
  <2>3. CASE U = {}
    <3> HIDE DEF G
    <3> QED BY <2>2, <2>3
  <2>4. CASE U # {}
    <3>1. W \in SUBSET T /\ W # T /\ W \subseteq U
      BY <1>4, <2>4
    <3>2. Folds(ctx, G(W), base, seq, W)
      BY <1>3, <3>1
    <3>3. G(U)[W] = G(W)[W]
      <4> HIDE DEF G, W
      <4> QED BY <2>1, <3>1, <3>2, FoldsAgree
    <3> HIDE DEF G
    <3> QED BY <2>2, <2>4, <3>3
  <2> QED BY <2>3, <2>4
<1>6. Folds(ctx, v, base, seq, T)
  <2>1. \A U \in SUBSET T : U # {} =>
            G(U \ {Largest(U)})[U \ {Largest(U)}] = v[U \ {Largest(U)}]
    <3> HIDE DEF G, v
    <3> QED BY <1>4, <1>5
  <2> DEFINE w == [U \in SUBSET T |-> IF U = {} THEN base
                      ELSE Op(ctx, v[U \ {Largest(U)}], seq[Largest(U)])]
  <2>2. \A U \in SUBSET T : v[U] = w[U]
    <3> HIDE DEF G
    <3> SUFFICES ASSUME NEW U \in SUBSET T PROVE v[U] = w[U]
      OBVIOUS
    <3>1. CASE U = {}
      BY <3>1
    <3>2. CASE U # {}
      <4>1. v[U] = Op(ctx, G(U \ {Largest(U)})[U \ {Largest(U)}], seq[Largest(U)])
        BY <3>2
      <4>2. w[U] = Op(ctx, v[U \ {Largest(U)}], seq[Largest(U)])
        BY <3>2
      <4> HIDE DEF v, w
      <4> QED BY <2>1, <3>2, <4>1, <4>2
    <3> QED BY <3>1, <3>2
  <2>3. v = w
    <3>1. v = [U \in SUBSET T |-> v[U]]
      OBVIOUS
    <3>2. w = [U \in SUBSET T |-> w[U]]
      OBVIOUS
    <3> HIDE DEF v, w
    <3> QED BY <2>2, <3>1, <3>2
  <2> HIDE DEF v
  <2> QED BY <2>3 DEF Folds
<1> HIDE DEF v
<1> QED BY <1>2, <1>6

(* A value per element: the base, and from the value before the i-th       *)
(* element and the element the value after it.                             *)
Steps(v, ctx, base, n, seq) ==
    /\ v[0] = base
    /\ \A i \in 1..n : v[i] = Op(ctx, v[i - 1], seq[i])

(* A fold goes through them.                                               *)
THEOREM FoldTrace ==
    ASSUME NEW ctx, NEW base, NEW n \in Nat, NEW seq, DOMAIN seq = 1..n
    PROVE  \E v : Steps(v, ctx, base, n, seq) /\ v[n] = Fold(ctx, base, seq)
<1> DEFINE iter == CHOOSE g : Folds(ctx, g, base, seq, 1..n)
           v == [i \in 0..n |-> iter[1..i]]
<1>1. Folds(ctx, iter, base, seq, 1..n)
  <2>1. \E g : Folds(ctx, g, base, seq, 1..n)
    BY IntervalRanked, FoldsExist
  <2> QED BY <2>1
<1>2. Fold(ctx, base, seq) = iter[1..n]
  BY DEF Fold
<1> HIDE DEF iter
<1>3. v[0] = base
  <2>1. 1..0 = {}
    OBVIOUS
  <2> QED BY <1>1, <2>1 DEF Folds
<1>4. ASSUME NEW i \in 1..n PROVE v[i] = Op(ctx, v[i - 1], seq[i])
  <2>0. i \in Nat /\ 1 <= i /\ i <= n
    OBVIOUS
  <2>a. i - 1 \in 0..n /\ i \in 0..n
    BY <2>0
  <2>b. \A j \in 1..i : j \in 1..n
    BY <2>0
  <2>c. i \in 1..i
    BY <2>0
  <2>1. 1..i \in SUBSET (1..n) /\ 1..i # {} /\ i - 1 \in 0..n
    BY <2>a, <2>b, <2>c
  <2>2. Largest(1..i) = i
    <3> DEFINE I == 1..i
    <3>a. I \in SUBSET (1..n) /\ I # {}
      BY <2>1
    <3>1. Largest(1..i) \in 1..i /\ \A y \in 1..i : Largest(1..i) >= y
      <4> HIDE DEF I
      <4>1. Largest(I) \in I /\ \A y \in I : Largest(I) >= y
        BY <3>a, LargestIn
      <4> QED BY <4>1 DEF I
    <3> QED BY <3>1
  <2>3. (1..i) \ {i} = 1..(i - 1)
    OBVIOUS
  <2>4. iter[1..i] = Op(ctx, iter[(1..i) \ {i}], seq[i])
    BY <1>1, <2>1, <2>2 DEF Folds
  <2>5. v[i] = iter[1..i] /\ v[i - 1] = iter[1..(i - 1)]
    BY <2>a
  <2> HIDE DEF v
  <2> QED BY <2>3, <2>4, <2>5
<1>5. v[n] = Fold(ctx, base, seq)
  BY <1>2
<1>6. Steps(v, ctx, base, n, seq)
  <2> HIDE DEF v
  <2> QED BY <1>3, <1>4 DEF Steps
<1> HIDE DEF v
<1> QED BY <1>5, <1>6

(* The values after each element are determined by the operation.          *)
THEOREM FoldUnique ==
    ASSUME NEW ctx, NEW base, NEW n \in Nat, NEW seq, DOMAIN seq = 1..n,
           NEW v, Steps(v, ctx, base, n, seq)
    PROVE  v[n] = Fold(ctx, base, seq)
<1>1. PICK w : Steps(w, ctx, base, n, seq) /\ w[n] = Fold(ctx, base, seq)
  BY FoldTrace
<1> DEFINE T == {i \in 0..n : v[i] = w[i]}
<1>2. 0 \in T
  BY <1>1 DEF Steps
<1>3. ASSUME NEW i \in 1..n, i - 1 \in T PROVE i \in T
  <2>1. i \in 0..n /\ v[i - 1] = w[i - 1]
    BY <1>3
  <2>2. v[i] = w[i]
    BY <1>1, <2>1 DEF Steps
  <2> QED BY <2>1, <2>2
<1>4. n \in 0..n
  OBVIOUS
<1>5. n \in T
  <2> HIDE DEF T
  <2> QED BY <1>2, <1>3, <1>4, IntervalInduction
<1> QED BY <1>1, <1>5

THEOREM FoldEmpty ==
    ASSUME NEW ctx, NEW base, NEW seq, DOMAIN seq = 1..0
    PROVE  Fold(ctx, base, seq) = base
<1> DEFINE v == [i \in {0} |-> base]
<1>1. Steps(v, ctx, base, 0, seq)
  BY DEF Steps
<1>2. v[0] = base
  OBVIOUS
<1> HIDE DEF v
<1> QED BY <1>1, <1>2, FoldUnique

(* One more element is one more application of the operation.              *)
THEOREM FoldLast ==
    ASSUME NEW ctx, NEW base, NEW n \in Nat, NEW some, DOMAIN some = 1..n,
           NEW all, DOMAIN all = 1..(n + 1), \A i \in 1..n : all[i] = some[i]
    PROVE  Fold(ctx, base, all) = Op(ctx, Fold(ctx, base, some), all[n + 1])
<1>1. PICK v : Steps(v, ctx, base, n + 1, all) /\ v[n + 1] = Fold(ctx, base, all)
  <2>1. n + 1 \in Nat
    OBVIOUS
  <2> QED BY <2>1, FoldTrace
<1>2. \A i \in 1..n : i \in 1..(n + 1)
  OBVIOUS
<1>3. Steps(v, ctx, base, n, some)
  BY <1>1, <1>2 DEF Steps
<1>4. v[n] = Fold(ctx, base, some)
  BY <1>1, <1>3, FoldUnique
<1>5. n + 1 \in 1..(n + 1) /\ (n + 1) - 1 = n
  OBVIOUS
<1> QED BY <1>1, <1>4, <1>5 DEF Steps

-----------------------------------------------------------------------------
(* Sums over finite sets.                                                  *)

(* The equation of the fold that SumFunctionOnSet is: g gives the sum of f *)
(* over every subset of S.                                                 *)
First(S) == CHOOSE x \in S : TRUE
SumsOver(g, f, S) == g = [T \in SUBSET S |->
    IF T = {} THEN 0 ELSE f[First(T)] + g[T \ {First(T)}]]

LEMMA SumUnfold == \A f, S : SumFunctionOnSet(f, S) = (CHOOSE g : SumsOver(g, f, S))[S]
  BY DEF SumFunctionOnSet, FoldFunctionOnSet, MapThenFoldSet, SumsOver, First

LEMMA FirstIn == \A S : S # {} => First(S) \in S
  BY DEF First

(* Two solutions of the equation agree where both are defined.             *)
LEMMA SumsAgree ==
    ASSUME NEW f, NEW S, NEW R, NEW g, NEW h, SumsOver(g, f, S), SumsOver(h, f, R),
           IsFiniteSet(S), R \subseteq S
    PROVE  \A T \in SUBSET R : g[T] = h[T]
<1> DEFINE Bad == {T \in SUBSET R : g[T] # h[T]}
<1>1. SUFFICES ASSUME Bad # {} PROVE FALSE
  OBVIOUS
<1>2. PICK T \in Bad : \A U \in Bad : ~(U \subseteq T /\ U # T)
  <2>1. Bad \in SUBSET (SUBSET R)
    OBVIOUS
  <2> HIDE DEF Bad
  <2> QED BY <1>1, <2>1, Smallest, FS_Subset
<1>3. T # {} => First(T) \in T
  BY FirstIn
<1>4. g[T] = IF T = {} THEN 0 ELSE f[First(T)] + g[T \ {First(T)}]
  BY <1>2 DEF SumsOver
<1>5. h[T] = IF T = {} THEN 0 ELSE f[First(T)] + h[T \ {First(T)}]
  BY <1>2 DEF SumsOver
<1>6. CASE T = {}
  BY <1>2, <1>4, <1>5, <1>6
<1>7. CASE T # {}
  <2>1. T \ {First(T)} \subseteq T /\ T \ {First(T)} # T /\ T \ {First(T)} \subseteq R
    BY <1>2, <1>3, <1>7
  <2>2. g[T \ {First(T)}] = h[T \ {First(T)}]
    BY <1>2, <2>1
  <2> QED BY <1>2, <1>4, <1>5, <1>7, <2>2
<1> QED BY <1>6, <1>7

(* The equation has a solution over every finite set: were there a         *)
(* smallest set without one, the solutions over its subsets would make it. *)
LEMMA SumsExist ==
    ASSUME NEW f, NEW S, IsFiniteSet(S)
    PROVE  \E g : SumsOver(g, f, S)
<1> DEFINE Bad == {T \in SUBSET S : ~ \E g : SumsOver(g, f, T)}
<1>1. SUFFICES ASSUME Bad # {} PROVE FALSE
  OBVIOUS
<1>2. PICK T \in Bad : \A U \in Bad : ~(U \subseteq T /\ U # T)
  <2>1. Bad \in SUBSET (SUBSET S)
    OBVIOUS
  <2> HIDE DEF Bad
  <2> QED BY <1>1, <2>1, Smallest
<1> DEFINE G(U) == CHOOSE g : SumsOver(g, f, U)
           v == [U \in SUBSET T |-> IF U = {} THEN 0
                    ELSE f[First(U)] + G(U \ {First(U)})[U \ {First(U)}]]
<1>3. \A U \in SUBSET T : U # T => SumsOver(G(U), f, U) /\ IsFiniteSet(U)
  <2> SUFFICES ASSUME NEW U \in SUBSET T, U # T PROVE SumsOver(G(U), f, U) /\ IsFiniteSet(U)
    OBVIOUS
  <2>1. U \in SUBSET S /\ U \notin Bad
    BY <1>2
  <2>2. \E g : SumsOver(g, f, U)
    BY <2>1
  <2> QED BY <2>1, <2>2, FS_Subset
<1>4. \A U \in SUBSET T : U # T => v[U] = G(U)[U]
  <2> SUFFICES ASSUME NEW U \in SUBSET T, U # T PROVE v[U] = G(U)[U]
    OBVIOUS
  <2>1. SumsOver(G(U), f, U) /\ IsFiniteSet(U)
    BY <1>3
  <2>2. G(U)[U] = IF U = {} THEN 0 ELSE f[First(U)] + G(U)[U \ {First(U)}]
    <3> HIDE DEF G
    <3> QED BY <2>1 DEF SumsOver
  <2>3. CASE U = {}
    <3> HIDE DEF G
    <3> QED BY <2>2, <2>3
  <2>4. CASE U # {}
    <3> DEFINE W == U \ {First(U)}
    <3>1. W \in SUBSET T /\ W # T /\ W \subseteq U
      BY <2>4, FirstIn
    <3>2. SumsOver(G(W), f, W)
      BY <1>3, <3>1
    <3>3. G(U)[W] = G(W)[W]
      <4> HIDE DEF G, W
      <4> QED BY <2>1, <3>1, <3>2, SumsAgree
    <3> HIDE DEF G
    <3> QED BY <2>2, <2>4, <3>3
  <2> QED BY <2>3, <2>4
<1>5. SumsOver(v, f, T)
  <2>1. \A U \in SUBSET T : U # {} =>
            G(U \ {First(U)})[U \ {First(U)}] = v[U \ {First(U)}]
    <3> HIDE DEF G, v
    <3>1. \A U \in SUBSET T : U # {} => U \ {First(U)} \in SUBSET T /\ U \ {First(U)} # T
      BY FirstIn
    <3> QED BY <1>4, <3>1
  <2> DEFINE w == [U \in SUBSET T |-> IF U = {} THEN 0
                      ELSE f[First(U)] + v[U \ {First(U)}]]
  <2>2. \A U \in SUBSET T : v[U] = w[U]
    <3> HIDE DEF G
    <3> SUFFICES ASSUME NEW U \in SUBSET T PROVE v[U] = w[U]
      OBVIOUS
    <3>1. CASE U = {}
      BY <3>1
    <3>2. CASE U # {}
      <4>1. v[U] = f[First(U)] + G(U \ {First(U)})[U \ {First(U)}]
        BY <3>2
      <4> HIDE DEF v
      <4> QED BY <2>1, <3>2, <4>1
    <3> QED BY <3>1, <3>2
  <2>3. v = w
    <3>1. v = [U \in SUBSET T |-> v[U]]
      OBVIOUS
    <3>2. w = [U \in SUBSET T |-> w[U]]
      OBVIOUS
    <3> HIDE DEF v, w
    <3> QED BY <2>2, <3>1, <3>2
  <2> HIDE DEF v
  <2> QED BY <2>3 DEF SumsOver
<1> HIDE DEF v
<1> QED BY <1>2, <1>5

(* What SumFunctionOnSet computes: nothing over the empty set, and over    *)
(* any other finite set one element's value and the sum over the others.   *)
LEMMA SumEmpty == \A f : SumFunctionOnSet(f, {}) = 0
<1> SUFFICES ASSUME NEW f PROVE SumFunctionOnSet(f, {}) = 0
  OBVIOUS
<1> DEFINE g == CHOOSE h : SumsOver(h, f, {})
<1>1. SumsOver(g, f, {})
  BY SumsExist, FS_EmptySet
<1> HIDE DEF g
<1>2. g[{}] = 0
  BY <1>1 DEF SumsOver
<1> QED BY <1>2, SumUnfold DEF g

LEMMA SumFirst ==
    ASSUME NEW f, NEW S, IsFiniteSet(S), S # {}
    PROVE  SumFunctionOnSet(f, S) = f[First(S)] + SumFunctionOnSet(f, S \ {First(S)})
<1> DEFINE R == S \ {First(S)}
           g == CHOOSE k : SumsOver(k, f, S)
           h == CHOOSE k : SumsOver(k, f, R)
<1>0. IsFiniteSet(R) /\ R \subseteq S
  BY FS_Subset
<1>1. SumsOver(g, f, S)
  BY SumsExist
<1>2. SumsOver(h, f, R)
  BY <1>0, SumsExist
<1>3. SumFunctionOnSet(f, S) = g[S] /\ SumFunctionOnSet(f, R) = h[R]
  BY SumUnfold
<1> HIDE DEF g, h
<1>4. g[S] = f[First(S)] + g[R]
  BY <1>1 DEF SumsOver
<1>5. g[R] = h[R]
  <2> HIDE DEF R
  <2> QED BY <1>0, <1>1, <1>2, SumsAgree
<1> QED BY <1>3, <1>4, <1>5

(* A sum of naturals is a natural.                                         *)
LEMMA SumNat ==
    ASSUME NEW f, NEW S, IsFiniteSet(S), \A x \in S : f[x] \in Nat
    PROVE  SumFunctionOnSet(f, S) \in Nat
<1> DEFINE Bad == {T \in SUBSET S : SumFunctionOnSet(f, T) \notin Nat}
<1>1. SUFFICES ASSUME Bad # {} PROVE FALSE
  OBVIOUS
<1>2. PICK T \in Bad : \A U \in Bad : ~(U \subseteq T /\ U # T)
  <2>1. Bad \in SUBSET (SUBSET S)
    OBVIOUS
  <2> HIDE DEF Bad
  <2> QED BY <1>1, <2>1, Smallest
<1>3. T # {}
  <2>1. SumFunctionOnSet(f, {}) \in Nat
    BY SumEmpty
  <2> QED BY <1>2, <2>1
<1> DEFINE R == T \ {First(T)}
<1>4. First(T) \in T /\ R \in SUBSET S /\ R # T /\ R \subseteq T
  BY <1>2, <1>3, FirstIn
<1>5. SumFunctionOnSet(f, R) \in Nat
  BY <1>2, <1>4
<1>6. IsFiniteSet(T)
  BY <1>2, FS_Subset
<1>7. SumFunctionOnSet(f, T) = f[First(T)] + SumFunctionOnSet(f, R)
  BY <1>3, <1>6, SumFirst
<1>8. f[First(T)] \in Nat
  BY <1>2, <1>4
<1> QED BY <1>2, <1>5, <1>7, <1>8

(* The order of summation does not matter: any element may be taken out.   *)
LEMMA SumSplit ==
    ASSUME NEW f, NEW S, IsFiniteSet(S), \A x \in S : f[x] \in Nat, NEW y \in S
    PROVE  SumFunctionOnSet(f, S) = f[y] + SumFunctionOnSet(f, S \ {y})
<1> DEFINE Bad == {T \in SUBSET S : \E x \in T :
                       SumFunctionOnSet(f, T) # f[x] + SumFunctionOnSet(f, T \ {x})}
<1>1. SUFFICES ASSUME Bad # {} PROVE FALSE
  OBVIOUS
<1>2. PICK T \in Bad : \A U \in Bad : ~(U \subseteq T /\ U # T)
  <2>1. Bad \in SUBSET (SUBSET S)
    OBVIOUS
  <2> HIDE DEF Bad
  <2> QED BY <1>1, <2>1, Smallest
<1>3. PICK x \in T : SumFunctionOnSet(f, T) # f[x] + SumFunctionOnSet(f, T \ {x})
  BY <1>2
<1> DEFINE c == First(T)
           R == T \ {c}
           Q == T \ {x}
           B == T \ {c, x}
<1>4. c \in T /\ T \subseteq S /\ R \in SUBSET S /\ R # T /\ R \subseteq T
  BY <1>2, <1>3, FirstIn
<1>5. IsFiniteSet(T) /\ IsFiniteSet(R) /\ IsFiniteSet(Q) /\ IsFiniteSet(B)
  BY <1>4, FS_Subset
<1>6. SumFunctionOnSet(f, T) = f[c] + SumFunctionOnSet(f, R)
  BY <1>3, <1>5, SumFirst
<1>7. x # c
  BY <1>3, <1>6
<1>8. SumFunctionOnSet(f, R) = f[x] + SumFunctionOnSet(f, R \ {x})
  BY <1>2, <1>3, <1>4, <1>7
<1>9. R \ {x} = B
  OBVIOUS
<1>10. SumFunctionOnSet(f, Q) = f[c] + SumFunctionOnSet(f, B)
  <2>1. Q \in SUBSET S /\ Q # T /\ Q \subseteq T /\ c \in Q /\ Q \ {c} = B
    BY <1>3, <1>4, <1>7
  <2> HIDE DEF Q, B, c
  <2> QED BY <1>2, <2>1
<1>11. f[c] \in Nat /\ f[x] \in Nat
  BY <1>3, <1>4
<1>12. \A z \in B : f[z] \in Nat
  BY <1>4
<1>13. SumFunctionOnSet(f, B) \in Nat
  <2> HIDE DEF B
  <2> QED BY <1>5, <1>12, SumNat
<1> HIDE DEF c, R, Q, B
<1> QED BY <1>3, <1>6, <1>8, <1>9, <1>10, <1>11, <1>13 DEF Q

(* The sum depends on the values over the set only.                        *)
LEMMA SumSame ==
    ASSUME NEW f, NEW g, NEW S, IsFiniteSet(S), \A x \in S : f[x] = g[x]
    PROVE  SumFunctionOnSet(f, S) = SumFunctionOnSet(g, S)
<1> DEFINE Bad == {T \in SUBSET S : SumFunctionOnSet(f, T) # SumFunctionOnSet(g, T)}
<1>1. SUFFICES ASSUME Bad # {} PROVE FALSE
  OBVIOUS
<1>2. PICK T \in Bad : \A U \in Bad : ~(U \subseteq T /\ U # T)
  <2>1. Bad \in SUBSET (SUBSET S)
    OBVIOUS
  <2> HIDE DEF Bad
  <2> QED BY <1>1, <2>1, Smallest
<1>3. T # {}
  BY <1>2, SumEmpty
<1> DEFINE R == T \ {First(T)}
<1>4. First(T) \in T /\ R \in SUBSET S /\ R # T /\ R \subseteq T
  BY <1>2, <1>3, FirstIn
<1>5. SumFunctionOnSet(f, R) = SumFunctionOnSet(g, R)
  BY <1>2, <1>4
<1>6. IsFiniteSet(T)
  BY <1>2, FS_Subset
<1>7. SumFunctionOnSet(f, T) = f[First(T)] + SumFunctionOnSet(f, R)
  BY <1>3, <1>6, SumFirst
<1>8. SumFunctionOnSet(g, T) = g[First(T)] + SumFunctionOnSet(g, R)
  BY <1>3, <1>6, SumFirst
<1>9. f[First(T)] = g[First(T)]
  BY <1>2, <1>4
<1> QED BY <1>2, <1>5, <1>7, <1>8, <1>9

(* Zeros add up to zero.                                                   *)
LEMMA SumZero ==
    ASSUME NEW S, IsFiniteSet(S)
    PROVE  SumFunctionOnSet([x \in S |-> 0], S) = 0
<1> DEFINE f == [x \in S |-> 0]
           Bad == {T \in SUBSET S : SumFunctionOnSet(f, T) # 0}
<1>1. SUFFICES ASSUME Bad # {} PROVE FALSE
  OBVIOUS
<1>2. PICK T \in Bad : \A U \in Bad : ~(U \subseteq T /\ U # T)
  <2>1. Bad \in SUBSET (SUBSET S)
    OBVIOUS
  <2> HIDE DEF Bad
  <2> QED BY <1>1, <2>1, Smallest
<1>3. T # {}
  BY <1>2, SumEmpty
<1> DEFINE R == T \ {First(T)}
<1>4. First(T) \in T /\ R \in SUBSET S /\ R # T /\ R \subseteq T
  BY <1>2, <1>3, FirstIn
<1>5. SumFunctionOnSet(f, R) = 0
  BY <1>2, <1>4
<1>6. IsFiniteSet(T) /\ f[First(T)] = 0
  BY <1>2, <1>4, FS_Subset
<1>7. SumFunctionOnSet(f, T) = f[First(T)] + SumFunctionOnSet(f, R)
  <2> HIDE DEF f
  <2> QED BY <1>3, <1>6, SumFirst
<1> QED BY <1>2, <1>5, <1>6, <1>7

-----------------------------------------------------------------------------
(* Places in a finite order.                                               *)

(* R is a strict total order of the members of S.                          *)
StrictOrder(R, S) ==
    /\ \A c \in S : <<c, c>> \notin R
    /\ \A c, d, e \in S : <<c, d>> \in R /\ <<d, e>> \in R => <<c, e>> \in R
    /\ \A c, d \in S : c = d \/ <<c, d>> \in R \/ <<d, c>> \in R

Above(R, S, c) == {d \in S : <<d, c>> \in R}
Place(R, S, c) == Cardinality(Above(R, S, c)) + 1

(* In a finite strict total order every place from the first to the last   *)
(* is taken by one member, an earlier one by what precedes it.             *)
LEMMA Placed ==
    ASSUME NEW S, IsFiniteSet(S), NEW R, StrictOrder(R, S), NEW N, N = Cardinality(S)
    PROVE  /\ N \in Nat
           /\ \A c \in S : Place(R, S, c) \in 1..N
           /\ \A c, d \in S : <<c, d>> \in R => Place(R, S, c) < Place(R, S, d)
           /\ \A c, d \in S : Place(R, S, c) = Place(R, S, d) => c = d
           /\ \A i \in 1..N : \E c \in S : Place(R, S, c) = i
<1>1. N \in Nat
  BY FS_CardinalityType
<1>2. \A c \in S : Above(R, S, c) \in SUBSET S /\ IsFiniteSet(Above(R, S, c))
  BY FS_Subset DEF Above
<1>3. ASSUME NEW c \in S PROVE Place(R, S, c) \in 1..N
  <2>1. Cardinality(Above(R, S, c)) \in Nat
    BY <1>2, FS_CardinalityType
  <2>2. c \notin Above(R, S, c) /\ Above(R, S, c) \cup {c} \in SUBSET S
    BY DEF Above, StrictOrder
  <2>3. Cardinality(Above(R, S, c) \cup {c}) = Cardinality(Above(R, S, c)) + 1
    BY <1>2, <2>2, FS_AddElement
  <2>4. Cardinality(Above(R, S, c) \cup {c}) <= N
    BY <2>2, FS_Subset
  <2> QED BY <1>1, <2>1, <2>3, <2>4 DEF Place
<1>4. ASSUME NEW c \in S, NEW d \in S, <<c, d>> \in R PROVE Place(R, S, c) < Place(R, S, d)
  <2>1. c \notin Above(R, S, c) /\ Above(R, S, c) \cup {c} \in SUBSET Above(R, S, d)
    BY <1>4 DEF Above, StrictOrder
  <2>2. Cardinality(Above(R, S, c) \cup {c}) = Cardinality(Above(R, S, c)) + 1
    BY <1>2, <2>1, FS_AddElement
  <2>3. Cardinality(Above(R, S, c) \cup {c}) <= Cardinality(Above(R, S, d))
    BY <1>2, <2>1, FS_Subset
  <2>4. Cardinality(Above(R, S, c)) \in Nat /\ Cardinality(Above(R, S, d)) \in Nat
    BY <1>2, FS_CardinalityType
  <2> QED BY <2>2, <2>3, <2>4 DEF Place
<1>5. ASSUME NEW c \in S, NEW d \in S, Place(R, S, c) = Place(R, S, d) PROVE c = d
  <2>1. Place(R, S, c) \in Int /\ Place(R, S, d) \in Int
    BY <1>1, <1>3
  <2>2. ~(Place(R, S, c) < Place(R, S, d)) /\ ~(Place(R, S, d) < Place(R, S, c))
    BY <1>5, <2>1
  <2>3. <<c, d>> \notin R /\ <<d, c>> \notin R
    BY <1>4, <2>2
  <2> QED BY <2>3 DEF StrictOrder
<1>6. \A i \in 1..N : \E c \in S : Place(R, S, c) = i
  <2> DEFINE f == [c \in S |-> Place(R, S, c)]
  <2>1. f \in Injection(S, 1..N)
    BY <1>3, <1>5 DEF Injection, IsInjective
  <2>2. IsFiniteSet(1..N) /\ Cardinality(1..N) = N
    <3>1. 1 \in Int /\ N \in Int
      BY <1>1
    <3>2. IsFiniteSet(1..N) /\ Cardinality(1..N) = IF 1 > N THEN 0 ELSE N - 1 + 1
      BY <3>1, FS_Interval
    <3> QED BY <1>1, <3>2
  <2>3. f \in Surjection(S, 1..N)
    BY <2>1, <2>2, FS_Injection
  <2> QED BY <2>3 DEF Surjection
<1> QED BY <1>1, <1>3, <1>4, <1>5, <1>6
================================================================================
