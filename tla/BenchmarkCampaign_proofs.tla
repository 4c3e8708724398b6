---------------------- MODULE BenchmarkCampaign_proofs ----------------------
(***************************************************************************)
(* Proofs about BenchmarkCampaign, for any quotas, windows, caps, drafts,  *)
(* number of processes and rounds.                                         *)
(*                                                                         *)
(* The argument: a process is at a position, which is its plans, the       *)
(* number of its next batch and what was generated.  From a position, the  *)
(* answer to its batch determines the next one; from the end of a round,   *)
(* its validation does.  So as long as there is one answer only to each    *)
(* batch, which the gateway sees to, the positions of all processes, dead  *)
(* ones included, lie on one trail.  All the properties are about a trail: *)
(* it has one end (ReportsAgree), a place for each batch that was          *)
(* confirmed and no other (ConfirmedScope), and at each position no more   *)
(* is asked for than is still accepted (RejectionsOnMerit).                *)
(*                                                                         *)
(* Plan, then batches, then validation are shown first, as facts about     *)
(* the operators; then positions and trails; then the steps.               *)
(***************************************************************************)
EXTENDS BenchmarkCampaign, FiniteSetTheorems, SequenceTheorems, TLAPS

JobFold == INSTANCE FoldFacts WITH Op <- AddJob
KindFold == INSTANCE FoldFacts WITH Op <- AddKind
JoinFold == INSTANCE FoldFacts WITH Op <- JoinGroups
JudgeFold == INSTANCE FoldFacts WITH Op <- Judge
Concat(ctx, a, b) == a \o b
PlanFold == INSTANCE FoldFacts WITH Op <- Concat

(* The recursive definitions of a plan and of its validation are folds: what *)
(* is shown of FoldFacts holds of them.                                      *)
LEMMA JobsForFold ==
    ASSUME NEW kinds, NEW windows, NEW prior
    PROVE  JobsFor(kinds, windows, prior) =
           JobFold!Fold([windows |-> windows, prior |-> prior],
                        [jobs |-> <<>>, last |-> Len(windows)], kinds).jobs
BY DEF JobsFor, FoldLeft, MapThenFoldSet, Max, JobFold!Fold, JobFold!Folds, JobFold!Largest

LEMMA ExpandedFold ==
    ASSUME NEW counts
    PROVE  Expanded(counts) = KindFold!Fold(counts, <<>>, [t \in DOMAIN counts |-> t])
BY DEF Expanded, FoldLeft, MapThenFoldSet, Max, KindFold!Fold, KindFold!Folds, KindFold!Largest

LEMMA AllJobsFold ==
    ASSUME NEW plans
    PROVE  AllJobs(plans) = PlanFold!Fold({}, <<>>, plans)
BY DEF AllJobs, FoldLeft, MapThenFoldSet, Max, PlanFold!Fold, PlanFold!Folds, PlanFold!Largest, Concat

LEMMA ValidateFold ==
    ASSUME NEW candidates
    PROVE  Validate(candidates) =
           JudgeFold!Fold([candidates |-> candidates, duplicates |-> Duplicates(candidates)],
                          <<>>, candidates)
BY DEF Validate, FoldLeft, MapThenFoldSet, Max, JudgeFold!Fold, JudgeFold!Folds, JudgeFold!Largest

(***************************************************************************)
(* Batches.                                                                *)
(***************************************************************************)
LEMMA Times ==
    ASSUME NEW a \in Nat, NEW b \in Nat, NEW n \in Nat, a <= b
    PROVE  a * n <= b * n
OBVIOUS

(* A quotient rounded up.                                                    *)
LEMMA DivideUp ==
    ASSUME NEW a \in Nat
    PROVE  LET q == (a + BatchSize - 1) \div BatchSize IN
           q \in Nat /\ a <= q * BatchSize /\ (q # 0 => (q - 1) * BatchSize < a)
<1> DEFINE q == (a + BatchSize - 1) \div BatchSize
<1>1. BatchSize \in Nat \ {0} /\ a + BatchSize - 1 \in Nat
  BY PlanAssumption
<1>2. /\ q \in Nat /\ BatchSize * q <= a + BatchSize - 1
      /\ a + BatchSize - 1 < BatchSize * q + BatchSize
  BY <1>1
<1> HIDE DEF q
<1>3. q * BatchSize = BatchSize * q /\ (q - 1) * BatchSize = BatchSize * q - BatchSize
  BY <1>1, <1>2
<1>4. BatchSize * q \in Nat
  BY <1>1, <1>2
<1>5. a <= q * BatchSize /\ (q - 1) * BatchSize < a
  BY <1>1, <1>2, <1>3, <1>4
<1> QED BY <1>2, <1>5 DEF q

LEMMA DivideUpMonotone ==
    ASSUME NEW a \in Nat, NEW b \in Nat, a <= b
    PROVE  (a + BatchSize - 1) \div BatchSize <= (b + BatchSize - 1) \div BatchSize
<1> DEFINE q == (a + BatchSize - 1) \div BatchSize
           r == (b + BatchSize - 1) \div BatchSize
<1>1. q \in Nat /\ a <= q * BatchSize /\ (q # 0 => (q - 1) * BatchSize < a)
  BY DivideUp
<1>2. r \in Nat /\ b <= r * BatchSize
  BY DivideUp
<1>3. BatchSize \in Nat \ {0}
  BY PlanAssumption
<1> HIDE DEF q, r
<1>4. ASSUME r <= q - 1, q # 0 PROVE FALSE
  <2>1. r * BatchSize <= (q - 1) * BatchSize
    BY <1>1, <1>2, <1>3, <1>4
  <2>2. r * BatchSize \in Nat /\ (q - 1) * BatchSize \in Int
    BY <1>1, <1>2, <1>3
  <2> QED BY <1>1, <1>2, <1>4, <2>1, <2>2
<1>5. q <= r
  BY <1>1, <1>2, <1>4
<1> QED BY <1>5 DEF q, r

(* The batches are consecutive parts of the jobs, none of them empty, the last *)
(* one ends with the last job.                                               *)
LEMMA BatchesOf ==
    ASSUME NEW S, NEW jobs \in Seq(S)
    PROVE  /\ Len(Batches(jobs)) \in Nat
           /\ jobs # <<>> => 1 <= Len(Batches(jobs))
           /\ \A b \in 1..Len(Batches(jobs)) :
                 LET from == (b - 1) * BatchSize
                     to == IF b = Len(Batches(jobs)) THEN Len(jobs) ELSE b * BatchSize
                 IN /\ from \in Nat /\ to \in Nat /\ from < to /\ to <= Len(jobs)
                    /\ Batches(jobs)[b] = SubSeq(jobs, from + 1, to)
<1> DEFINE q == (Len(jobs) + BatchSize - 1) \div BatchSize
<1>1. Len(jobs) \in Nat /\ BatchSize \in Nat \ {0}
  BY PlanAssumption
<1>2. q \in Nat /\ Len(jobs) <= q * BatchSize /\ (q # 0 => (q - 1) * BatchSize < Len(jobs))
  BY <1>1, DivideUp
<1>3. /\ DOMAIN Batches(jobs) = 1..q
      /\ \A b \in 1..q : Batches(jobs)[b] =
            SubSeq(jobs, (b - 1) * BatchSize + 1, Min({b * BatchSize, Len(jobs)}))
  BY DEF Batches
<1>q. Batches(jobs) = [b \in 1..q |-> Batches(jobs)[b]]
  BY DEF Batches
<1> HIDE DEF q
<1>4. Len(Batches(jobs)) = q
  BY <1>2, <1>q
<1>5. jobs # <<>> => 1 <= q
  <2>1. q = 0 => q * BatchSize = 0
    BY <1>1
  <2>2. jobs # <<>> => Len(jobs) # 0
    OBVIOUS
  <2> QED BY <1>1, <1>2, <2>1, <2>2
<1>6. ASSUME NEW b \in 1..q
      PROVE  LET from == (b - 1) * BatchSize
                 to == IF b = q THEN Len(jobs) ELSE b * BatchSize
             IN /\ from \in Nat /\ to \in Nat /\ from < to /\ to <= Len(jobs)
                /\ Batches(jobs)[b] = SubSeq(jobs, from + 1, to)
  <2> DEFINE from == (b - 1) * BatchSize
             upto == b * BatchSize
             to == IF b = q THEN Len(jobs) ELSE upto
  <2>1. from \in Nat /\ upto \in Nat /\ upto = from + BatchSize
    BY <1>1, <1>2
  <2>2. CASE b = q
    <3>1. from < Len(jobs) /\ Len(jobs) <= upto
      BY <1>2, <2>2
    <3>2. Min({upto, Len(jobs)}) = Len(jobs)
      <4> HIDE DEF upto
      <4> QED BY <1>1, <2>1, <3>1 DEF Min
    <3>3. Batches(jobs)[b] = SubSeq(jobs, from + 1, Len(jobs))
      BY <1>3, <3>2
    <3>4. to = Len(jobs)
      BY <2>2
    <3> HIDE DEF from
    <3>5. /\ from \in Nat /\ to \in Nat /\ from < to /\ to <= Len(jobs)
          /\ Batches(jobs)[b] = SubSeq(jobs, from + 1, to)
      BY <1>1, <2>1, <3>1, <3>3, <3>4
    <3> QED BY <3>5 DEF from
  <2>3. CASE b # q
    <3>1. upto <= (q - 1) * BatchSize
      <4> DEFINE last == q - 1
      <4>1. b \in Nat /\ last \in Nat /\ b <= last
        BY <1>2, <2>3
      <4>2. BatchSize \in Nat
        BY <1>1
      <4> HIDE DEF last
      <4>3. b * BatchSize <= last * BatchSize
        BY <4>1, <4>2, Times
      <4> QED BY <4>3 DEF last
    <3>2. (q - 1) * BatchSize \in Int
      BY <1>1, <1>2
    <3>3. upto < Len(jobs)
      BY <1>1, <1>2, <2>1, <3>1, <3>2
    <3>4. Min({upto, Len(jobs)}) = upto
      <4> HIDE DEF upto
      <4> QED BY <1>1, <2>1, <3>3 DEF Min
    <3>5. from < upto
      <4> HIDE DEF from, upto
      <4> QED BY <1>1, <2>1
    <3> QED BY <1>1, <1>3, <2>1, <2>3, <3>3, <3>4, <3>5
  <2> QED BY <2>2, <2>3
<1> QED BY <1>2, <1>4, <1>5, <1>6

(* Who has fewer jobs has no more batches.                                   *)
LEMMA BatchesMonotone ==
    ASSUME NEW S, NEW few \in Seq(S), NEW many \in Seq(S), Len(few) <= Len(many)
    PROVE  Len(Batches(few)) <= Len(Batches(many))
<1> DEFINE q(jobs) == (Len(jobs) + BatchSize - 1) \div BatchSize
<1>1. ASSUME NEW jobs \in Seq(S) PROVE Len(Batches(jobs)) = q(jobs)
  <2>1. q(jobs) \in Nat
    BY DivideUp
  <2>2. DOMAIN Batches(jobs) = 1..q(jobs)
    BY DEF Batches
  <2>q. Batches(jobs) = [b \in 1..q(jobs) |-> Batches(jobs)[b]]
    BY DEF Batches
  <2> HIDE DEF q
  <2> QED BY <2>1, <2>2, <2>q
<1>2. q(few) <= q(many)
  BY DivideUpMonotone
<1> QED BY <1>1, <1>2

Job == [kind : Types, window : Range(Windows)]

(* Every document and every page is within its cap.                        *)
WithinCaps(jobs) ==
    /\ \A doc : OfDocument(jobs, doc) <= DocumentCap
    /\ \A page : OfPage(jobs, page) <= PageCap

(* The types are numbered.                                                   *)
LEMMA TypesOf == Len(Quotas) \in Nat /\ Types = 1..Len(Quotas)
BY PlanAssumption DEF Types

LEMMA PositionsCount ==
    ASSUME NEW n \in Nat, NEW D \in SUBSET (1..n)
    PROVE  IsFiniteSet(D) /\ Cardinality(D) \in Nat
<1> DEFINE P == 1..n
<1>1. IsFiniteSet(P)
  <2>1. 1 \in Int /\ n \in Int
    OBVIOUS
  <2> QED BY <2>1, FS_Interval
<1>p. D \subseteq P
  OBVIOUS
<1> HIDE DEF P
<1>2. IsFiniteSet(D)
  BY <1>1, <1>p, FS_Subset
<1> QED BY <1>2, FS_CardinalityType

(* The window that the planner takes, the first that fits, is one that fits. *)
LEMMA LeastOf ==
    ASSUME NEW n \in Nat, NEW S \in SUBSET (1..n), S # {}
    PROVE  Min(S) \in S /\ \A y \in S : Min(S) <= y
<1> DEFINE T == {i \in 0..n : (\E j \in S : j <= i) => \E x \in S : \A y \in S : x <= y}
<1>s. \A j \in S : j \in Nat /\ 1 <= j /\ j <= n
  OBVIOUS
<1>1. 0 \in T
  BY <1>s
<1>2. ASSUME NEW i \in 1..n, i - 1 \in T PROVE i \in T
  <2>1. CASE \E j \in S : j <= i - 1
    BY <1>2, <2>1
  <2>2. CASE ~ \E j \in S : j <= i - 1
    <3>1. \A y \in S : i <= y
      BY <1>s, <2>2
    <3>2. (\E j \in S : j <= i) => i \in S
      BY <1>s, <3>1
    <3> QED BY <3>1, <3>2
  <2> QED BY <2>1, <2>2
<1>3. n \in T
  <2>1. n \in 0..n
    OBVIOUS
  <2> HIDE DEF T
  <2> QED BY <1>1, <1>2, <2>1, JobFold!IntervalInduction
<1>4. \E x \in S : \A y \in S : x <= y
  <2>1. PICK j \in S : TRUE
    BY Zenon
  <2> QED BY <1>3, <1>s, <2>1
<1> QED BY <1>4 DEF Min

(* One element more counts for one at most.                                  *)
LEMMA GrowsByOne ==
    ASSUME NEW D, IsFiniteSet(D), NEW E, NEW x, E \subseteq D \cup {x}
    PROVE  /\ Cardinality(D) \in Nat /\ Cardinality(E) \in Nat
           /\ Cardinality(E) <= Cardinality(D) + 1
           /\ x \notin E => Cardinality(E) <= Cardinality(D)
<1>1. IsFiniteSet(D \cup {x})
  BY FS_AddElement
<1>2. IsFiniteSet(E) /\ Cardinality(E) <= Cardinality(D \cup {x})
  BY <1>1, FS_Subset
<1>3. /\ Cardinality(D) \in Nat /\ Cardinality(E) \in Nat /\ Cardinality(D \cup {x}) \in Nat
  BY <1>1, <1>2, FS_CardinalityType
<1>4. Cardinality(D \cup {x}) = Cardinality(D) \/ Cardinality(D \cup {x}) = Cardinality(D) + 1
  BY FS_AddElement
<1>5. x \notin E => E \subseteq D
  OBVIOUS
<1>6. x \notin E => Cardinality(E) <= Cardinality(D)
  BY <1>5, FS_Subset
<1> QED BY <1>2, <1>3, <1>4, <1>6

LEMMA ConcatAppend ==
    ASSUME NEW s \in Seq(Job), NEW t \in Seq(Job), NEW x \in Job
    PROVE  Append(s \o t, x) = s \o Append(t, x)
<1> DEFINE J == Job
<1>1. s \in Seq(J) /\ t \in Seq(J) /\ x \in J
  OBVIOUS
<1> HIDE DEF J
<1>2. s \o t \in Seq(J) /\ <<x>> \in Seq(J)
  BY <1>1
<1>3. Append(s \o t, x) = (s \o t) \o <<x>>
  BY <1>1, <1>2, AppendIsConcat
<1>4. Append(t, x) = t \o <<x>>
  BY <1>1, AppendIsConcat
<1> QED BY <1>1, <1>2, <1>3, <1>4, ConcatAssociative

(* One more job counts once for its document and its pages.                *)
LEMMA OneMoreJob ==
    ASSUME NEW jobs \in Seq(Job), NEW job \in Job, WithinCaps(jobs),
           OfDocument(jobs, job.window.doc) < DocumentCap,
           \A page \in Pages(job.window) : OfPage(jobs, page) < PageCap
    PROVE  WithinCaps(Append(jobs, job))
<1> DEFINE n == Len(jobs)
           all == Append(jobs, job)
<1>1. /\ n \in Nat /\ DOMAIN jobs = 1..n /\ DOMAIN all = 1..(n + 1)
      /\ \A i \in 1..n : all[i] = jobs[i]
      /\ all[n + 1] = job
  OBVIOUS
<1>2. DocumentCap \in Nat /\ PageCap \in Nat
  BY PlanAssumption
<1> HIDE DEF n, all
<1>3. ASSUME NEW doc PROVE OfDocument(all, doc) <= DocumentCap
  <2> DEFINE D == {i \in DOMAIN jobs : jobs[i].window.doc = doc}
             E == {i \in DOMAIN all : all[i].window.doc = doc}
  <2>1. IsFiniteSet(D)
    BY <1>1, PositionsCount
  <2>2. E \subseteq D \cup {n + 1}
    BY <1>1
  <2>3. n + 1 \in E => job.window.doc = doc
    BY <1>1
  <2>4. /\ Cardinality(D) \in Nat /\ Cardinality(E) \in Nat
        /\ Cardinality(E) <= Cardinality(D) + 1
        /\ n + 1 \notin E => Cardinality(E) <= Cardinality(D)
    <3> HIDE DEF D, E
    <3> QED BY <2>1, <2>2, GrowsByOne
  <2>5. Cardinality(D) <= DocumentCap /\ (job.window.doc = doc => Cardinality(D) < DocumentCap)
    BY DEF WithinCaps, OfDocument
  <2>6. Cardinality(E) <= DocumentCap
    <3> HIDE DEF D, E
    <3> QED BY <1>2, <2>3, <2>4, <2>5
  <2> QED BY <2>6 DEF OfDocument
<1>4. ASSUME NEW page PROVE OfPage(all, page) <= PageCap
  <2> DEFINE D == {i \in DOMAIN jobs : page \in Pages(jobs[i].window)}
             E == {i \in DOMAIN all : page \in Pages(all[i].window)}
  <2>1. IsFiniteSet(D)
    BY <1>1, PositionsCount
  <2>2. E \subseteq D \cup {n + 1}
    BY <1>1
  <2>3. n + 1 \in E => page \in Pages(job.window)
    BY <1>1
  <2>4. /\ Cardinality(D) \in Nat /\ Cardinality(E) \in Nat
        /\ Cardinality(E) <= Cardinality(D) + 1
        /\ n + 1 \notin E => Cardinality(E) <= Cardinality(D)
    <3> HIDE DEF D, E
    <3> QED BY <2>1, <2>2, GrowsByOne
  <2>5. Cardinality(D) <= PageCap /\ (page \in Pages(job.window) => Cardinality(D) < PageCap)
    BY DEF WithinCaps, OfPage
  <2>6. Cardinality(E) <= PageCap
    <3> HIDE DEF D, E
    <3> QED BY <1>2, <2>3, <2>4, <2>5
  <2> QED BY <2>6 DEF OfPage
<1> QED BY <1>3, <1>4 DEF WithinCaps, all

(* What the planner has after some of the kinds: nothing, where no window  *)
(* fits, or a job for each.                                                *)
Planned(some, n, kinds, windows, prior) ==
    \/ some.last = 0 /\ some.jobs = <<>>
    \/ /\ some.last \in 1..Len(windows) /\ some.jobs \in Seq(Job) /\ Len(some.jobs) = n
       /\ \A i \in 1..n : some.jobs[i].kind = kinds[i]
       /\ WithinCaps(prior \o some.jobs)

(* One kind more: a job within the caps, or no plan at all.                  *)
LEMMA PlannedStep ==
    ASSUME NEW kinds \in Seq(Types), NEW windows \in Seq(Range(Windows)), NEW prior \in Seq(Job),
           NEW n \in Nat, n + 1 \in 1..Len(kinds), WithinCaps(prior), NEW some,
           Planned(some, n, kinds, windows, prior)
    PROVE  Planned(AddJob([windows |-> windows, prior |-> prior], some, kinds[n + 1]), n + 1,
                   kinds, windows, prior)
<1> DEFINE on == [windows |-> windows, prior |-> prior]
           kind == kinds[n + 1]
           After(offset) == ((some.last + offset - 1) % Len(windows)) + 1
           fitting == {o \in 1..Len(windows) : Fits(prior, some.jobs, windows[After(o)])}
           index == After(Min(fitting))
           job == [kind |-> kind, window |-> windows[index]]
<1>1. AddJob(on, some, kind) =
        IF some.last = 0 \/ fitting = {} THEN [jobs |-> <<>>, last |-> 0]
        ELSE [jobs |-> Append(some.jobs, job), last |-> index]
  BY DEF AddJob, Refused
<1>2. CASE some.last = 0 \/ fitting = {}
  BY <1>1, <1>2 DEF Planned
<1>3. CASE some.last # 0 /\ fitting # {}
  <2>1. /\ some.last \in 1..Len(windows) /\ some.jobs \in Seq(Job) /\ Len(some.jobs) = n
        /\ \A i \in 1..n : some.jobs[i].kind = kinds[i]
        /\ WithinCaps(prior \o some.jobs)
    BY <1>3 DEF Planned
  <2>2. Min(fitting) \in fitting
    <3>1. fitting \in SUBSET (1..Len(windows)) /\ Len(windows) \in Nat
      OBVIOUS
    <3> HIDE DEF fitting
    <3> QED BY <1>3, <3>1, LeastOf
  <2>3. Min(fitting) \in 1..Len(windows) /\ Fits(prior, some.jobs, windows[index])
    BY <2>2
  <2>4. index \in 1..Len(windows)
    <3> DEFINE a == some.last + Min(fitting) - 1
               m == Len(windows)
    <3>1. a \in Int /\ m \in Nat \ {0}
      <4> HIDE DEF fitting
      <4> QED BY <2>1, <2>3
    <3>2. a % m \in 0..(m - 1)
      <4> HIDE DEF a, m
      <4> QED BY <3>1
    <3>3. index = (a % m) + 1
      OBVIOUS
    <3> HIDE DEF a, m, index
    <3>4. index \in 1..m
      BY <3>1, <3>2, <3>3
    <3> QED BY <3>4 DEF m
  <2> HIDE DEF fitting, index
  <2>5. job \in Job
    <3>1. windows[index] \in Range(Windows) /\ kind \in Types
      BY <2>4
    <3> QED BY <3>1 DEF Job
  <2> DEFINE all == prior \o some.jobs
  <2>6. /\ all \in Seq(Job) /\ WithinCaps(all)
        /\ OfDocument(all, job.window.doc) < DocumentCap
        /\ \A page \in Pages(job.window) : OfPage(all, page) < PageCap
    BY <2>1, <2>3 DEF Fits
  <2>7. WithinCaps(Append(all, job))
    <3> HIDE DEF all, job
    <3> QED BY <2>5, <2>6, OneMoreJob
  <2> HIDE DEF job
  <2>8. Append(all, job) = prior \o Append(some.jobs, job)
    <3> DEFINE t == some.jobs
    <3>1. t \in Seq(Job)
      BY <2>1
    <3> HIDE DEF t
    <3>2. Append(prior \o t, job) = prior \o Append(t, job)
      BY <2>5, <3>1, ConcatAppend
    <3> QED BY <3>2 DEF t
  <2>9. /\ Append(some.jobs, job) \in Seq(Job) /\ Len(Append(some.jobs, job)) = n + 1
        /\ \A i \in 1..(n + 1) : Append(some.jobs, job)[i].kind = kinds[i]
    <3>1. job.kind = kind
      BY DEF job
    <3> QED BY <2>1, <2>5, <3>1
  <2>10. AddJob(on, some, kind) = [jobs |-> Append(some.jobs, job), last |-> index]
    BY <1>1, <1>3
  <2>11. WithinCaps(prior \o Append(some.jobs, job))
    BY <2>7, <2>8
  <2> DEFINE next == [jobs |-> Append(some.jobs, job), last |-> index]
  <2>12. next.jobs = Append(some.jobs, job) /\ next.last = index
    OBVIOUS
  <2> HIDE DEF next
  <2>13. Planned(next, n + 1, kinds, windows, prior)
    BY <2>4, <2>9, <2>11, <2>12 DEF Planned
  <2> QED BY <2>10, <2>13 DEF next
<1> QED BY <1>2, <1>3

(* A plan is refused, or has a job for each of the kinds, within the caps. *)
LEMMA JobsForKinds ==
    ASSUME NEW kinds \in Seq(Types), NEW windows \in Seq(Range(Windows)),
           NEW prior \in Seq(Job), WithinCaps(prior), JobsFor(kinds, windows, prior) # <<>>
    PROVE  /\ JobsFor(kinds, windows, prior) \in Seq(Job)
           /\ Len(JobsFor(kinds, windows, prior)) = Len(kinds)
           /\ \A i \in 1..Len(kinds) : JobsFor(kinds, windows, prior)[i].kind = kinds[i]
           /\ WithinCaps(prior \o JobsFor(kinds, windows, prior))
<1> DEFINE ctx == [windows |-> windows, prior |-> prior]
           base == [jobs |-> <<>>, last |-> Len(windows)]
           n == Len(kinds)
<1>1. n \in Nat /\ DOMAIN kinds = 1..n
  OBVIOUS
<1>2. JobsFor(kinds, windows, prior) = JobFold!Fold(ctx, base, kinds).jobs
  BY JobsForFold
<1>b. base.jobs = <<>> /\ base.last = Len(windows)
  OBVIOUS
<1> HIDE DEF ctx, base, n
<1>3. PICK v : JobFold!Steps(v, ctx, base, n, kinds) /\ v[n] = JobFold!Fold(ctx, base, kinds)
  BY <1>1, JobFold!FoldTrace
<1> DEFINE T == {i \in 0..n : Planned(v[i], i, kinds, windows, prior)}
<1>4. 0 \in T
  <2>1. prior \o <<>> = prior
    OBVIOUS
  <2>2. /\ <<>> \in Seq(Job) /\ Len(<<>>) = 0
        /\ Len(windows) = 0 \/ Len(windows) \in 1..Len(windows)
    OBVIOUS
  <2>3. Planned(base, 0, kinds, windows, prior)
    BY <1>b, <2>1, <2>2 DEF Planned
  <2> QED BY <1>1, <1>3, <2>3 DEF JobFold!Steps
<1>5. ASSUME NEW i \in 1..n, i - 1 \in T PROVE i \in T
  <2> DEFINE m == i - 1
  <2>1. m \in Nat /\ m + 1 = i /\ i \in 0..n
    BY <1>1
  <2>2. m + 1 \in 1..Len(kinds)
    BY <2>1 DEF n
  <2>3. Planned(v[m], m, kinds, windows, prior)
    BY <1>5
  <2> HIDE DEF m
  <2>4. Planned(AddJob(ctx, v[m], kinds[m + 1]), m + 1, kinds, windows, prior)
    BY <2>1, <2>2, <2>3, PlannedStep DEF ctx
  <2>5. v[i] = AddJob(ctx, v[m], kinds[m + 1])
    BY <1>3, <2>1 DEF m, JobFold!Steps
  <2> QED BY <2>1, <2>4, <2>5
<1>6. n \in T
  <2>1. n \in 0..n
    BY <1>1
  <2> HIDE DEF T
  <2> QED BY <1>1, <1>4, <1>5, <2>1, JobFold!IntervalInduction
<1>7. Planned(v[n], n, kinds, windows, prior)
  BY <1>6
<1> QED BY <1>2, <1>3, <1>7 DEF Planned, n

(* After some of the types: the kinds are these types, each in one place.  *)
Blocks(counts, kinds, n) ==
    /\ kinds \in Seq(Types)
    /\ \A j \in 1..Len(kinds) : kinds[j] <= n
    /\ \A k \in Types : \E a \in Nat : \A j \in 1..Len(kinds) :
          kinds[j] = k => a < j /\ j <= a + counts[k]

(* One type more: its kinds come after all others.                           *)
LEMMA BlocksStep ==
    ASSUME NEW counts \in [Types -> Nat], NEW n \in Nat, n + 1 \in Types, NEW kinds,
           Blocks(counts, kinds, n)
    PROVE  /\ Blocks(counts, AddKind(counts, kinds, n + 1), n + 1)
           /\ Len(AddKind(counts, kinds, n + 1)) = Len(kinds) + counts[n + 1]
<1> DEFINE t == n + 1
           c == counts[t]
           block == [i \in 1..c |-> t]
           all == AddKind(counts, kinds, t)
           m == Len(kinds)
<1>1. c \in Nat /\ t \in Types /\ Types = 1..Len(Quotas) /\ Len(Quotas) \in Nat
  BY TypesOf
<1>2. kinds \in Seq(Types) /\ m \in Nat
  BY DEF Blocks
<1>3. block \in Seq(Types) /\ Len(block) = c /\ \A i \in 1..c : block[i] = t
  <2> HIDE DEF t, c
  <2> QED BY <1>1
<1>4. all = kinds \o block
  BY DEF AddKind
<1> HIDE DEF t, c, block, all
<1>5. /\ all \in Seq(Types) /\ Len(all) = m + c
      /\ \A j \in 1..(m + c) : all[j] = IF j <= m THEN kinds[j] ELSE block[j - m]
  BY <1>2, <1>3, <1>4
<1>6. \A j \in 1..(m + c) : j > m => all[j] = t
  <2> TAKE j \in 1..(m + c)
  <2>1. j > m => j - m \in 1..c
    BY <1>1, <1>2
  <2> QED BY <1>3, <1>5, <2>1
<1>7. \A j \in 1..m : all[j] = kinds[j] /\ kinds[j] <= n
  <2>1. \A j \in 1..m : j \in 1..(m + c) /\ j <= m
    BY <1>1, <1>2
  <2> QED BY <1>5, <2>1 DEF Blocks
<1>8. \A j \in 1..(m + c) : all[j] <= t
  <2> TAKE j \in 1..(m + c)
  <2>1. CASE j <= m
    <3>1. j \in 1..m
      BY <1>1, <1>2, <2>1
    <3>2. all[j] = kinds[j] /\ kinds[j] <= n /\ kinds[j] \in Types
      BY <1>2, <1>7, <3>1
    <3>3. kinds[j] \in Nat
      BY <1>1, <3>2
    <3> QED BY <3>2, <3>3 DEF t
  <2>2. CASE ~(j <= m)
    <3>1. all[j] = t
      BY <1>2, <1>6, <2>2
    <3>2. t <= t
      BY DEF t
    <3> QED BY <3>1, <3>2
  <2> QED BY <2>1, <2>2
<1>9. ASSUME NEW k \in Types
      PROVE  \E a \in Nat : \A j \in 1..(m + c) : all[j] = k => a < j /\ j <= a + counts[k]
  <2>1. CASE k = t
    <3>1. ASSUME NEW j \in 1..(m + c), all[j] = k PROVE m < j /\ j <= m + counts[k]
      <4>1. CASE j <= m
        <5>1. j \in 1..m
          BY <1>1, <1>2, <4>1
        <5>2. all[j] = kinds[j] /\ kinds[j] <= n
          BY <1>7, <5>1
        <5>3. t <= n
          BY <2>1, <3>1, <5>2
        <5> QED BY <5>3 DEF t
      <4>2. CASE m < j
        BY <1>1, <1>2, <2>1, <4>2 DEF c
      <4> QED BY <1>2, <4>1, <4>2
    <3> QED BY <1>2, <3>1
  <2>2. CASE k # t
    <3>1. PICK a \in Nat : \A j \in 1..m : kinds[j] = k => a < j /\ j <= a + counts[k]
      BY DEF Blocks
    <3>2. ASSUME NEW j \in 1..(m + c), all[j] = k PROVE a < j /\ j <= a + counts[k]
      <4>1. j <= m
        BY <1>2, <1>6, <2>2, <3>2
      <4>2. j \in 1..m
        BY <1>1, <1>2, <4>1
      <4> QED BY <1>7, <3>1, <3>2, <4>2
    <3> QED BY <3>2
  <2> QED BY <2>1, <2>2
<1> HIDE DEF m
<1>10. Blocks(counts, all, t)
  BY <1>5, <1>8, <1>9 DEF Blocks
<1> QED BY <1>5, <1>10 DEF t, c, all, m

(* The kinds of a plan.                                                    *)
LEMMA KindsExpanded ==
    ASSUME NEW counts \in [Types -> Nat]
    PROVE  /\ Expanded(counts) \in Seq(Types)
           /\ \A k \in Types : \E a \in Nat : \A j \in 1..Len(Expanded(counts)) :
                 Expanded(counts)[j] = k => a < j /\ j <= a + counts[k]
<1> DEFINE n == Len(Quotas)
           seq == [t \in Types |-> t]
<1>1. n \in Nat /\ Types = 1..n
  BY TypesOf
<1>2. DOMAIN seq = 1..n /\ \A i \in 1..n : seq[i] = i
  BY <1>1
<1>3. Expanded(counts) = KindFold!Fold(counts, <<>>, seq)
  BY ExpandedFold
<1> HIDE DEF seq, n
<1>4. PICK v : KindFold!Steps(v, counts, <<>>, n, seq) /\ v[n] = KindFold!Fold(counts, <<>>, seq)
  BY <1>1, <1>2, KindFold!FoldTrace
<1> DEFINE T == {i \in 0..n : Blocks(counts, v[i], i)}
<1>5. 0 \in T
  <2>1. /\ <<>> \in Seq(Types) /\ Len(<<>>) = 0 /\ 0 \in 0..n
        /\ \A j \in 1..0 : FALSE
    BY <1>1
  <2>2. \A k \in Types : \E a \in Nat : TRUE
    OBVIOUS
  <2>3. Blocks(counts, <<>>, 0)
    BY <2>1, <2>2 DEF Blocks
  <2> QED BY <1>4, <2>1, <2>3 DEF KindFold!Steps
<1>6. ASSUME NEW i \in 1..n, i - 1 \in T PROVE i \in T
  <2> DEFINE m == i - 1
  <2>1. m \in Nat /\ m + 1 = i /\ i \in 0..n /\ i \in Types
    BY <1>1
  <2>2. Blocks(counts, v[m], m)
    BY <1>6
  <2>3. v[i] = AddKind(counts, v[m], i)
    BY <1>2, <1>4 DEF KindFold!Steps
  <2> HIDE DEF m
  <2>4. Blocks(counts, AddKind(counts, v[m], m + 1), m + 1)
    BY <2>1, <2>2, BlocksStep
  <2> QED BY <2>1, <2>3, <2>4
<1>7. n \in T
  <2>1. n \in 0..n
    BY <1>1
  <2> HIDE DEF T
  <2> QED BY <1>1, <1>5, <1>6, <2>1, KindFold!IntervalInduction
<1> QED BY <1>3, <1>4, <1>7 DEF Blocks

(* Who asks for fewer questions of each type gets no more jobs.            *)
LEMMA ExpandedMonotone ==
    ASSUME NEW few \in [Types -> Nat], NEW many \in [Types -> Nat],
           \A t \in Types : few[t] <= many[t]
    PROVE  Len(Expanded(few)) <= Len(Expanded(many))
<1> DEFINE n == Len(Quotas)
           seq == [t \in Types |-> t]
<1>1. n \in Nat /\ Types = 1..n
  BY TypesOf
<1>2. DOMAIN seq = 1..n /\ \A i \in 1..n : seq[i] = i
  BY <1>1
<1>3. Expanded(few) = KindFold!Fold(few, <<>>, seq) /\ Expanded(many) = KindFold!Fold(many, <<>>, seq)
  BY ExpandedFold
<1> HIDE DEF seq, n
<1>4. PICK v : KindFold!Steps(v, few, <<>>, n, seq) /\ v[n] = KindFold!Fold(few, <<>>, seq)
  BY <1>1, <1>2, KindFold!FoldTrace
<1>5. PICK w : KindFold!Steps(w, many, <<>>, n, seq) /\ w[n] = KindFold!Fold(many, <<>>, seq)
  BY <1>1, <1>2, KindFold!FoldTrace
<1> DEFINE T == {i \in 0..n : /\ Blocks(few, v[i], i) /\ Blocks(many, w[i], i)
                              /\ Len(v[i]) <= Len(w[i])}
<1>6. 0 \in T
  <2>1. /\ <<>> \in Seq(Types) /\ Len(<<>>) = 0 /\ 0 \in 0..n
        /\ \A j \in 1..0 : FALSE
    BY <1>1
  <2>2. \A k \in Types : \E a \in Nat : TRUE
    OBVIOUS
  <2>3. Blocks(few, <<>>, 0) /\ Blocks(many, <<>>, 0)
    BY <2>1, <2>2 DEF Blocks
  <2>4. v[0] = <<>> /\ w[0] = <<>>
    BY <1>4, <1>5 DEF KindFold!Steps
  <2> QED BY <2>1, <2>3, <2>4
<1>7. ASSUME NEW i \in 1..n, i - 1 \in T PROVE i \in T
  <2> DEFINE m == i - 1
  <2>1. m \in Nat /\ m + 1 = i /\ i \in 0..n /\ i \in Types
    BY <1>1
  <2>2. Blocks(few, v[m], m) /\ Blocks(many, w[m], m) /\ Len(v[m]) <= Len(w[m])
    BY <1>7
  <2>3. v[i] = AddKind(few, v[m], i) /\ w[i] = AddKind(many, w[m], i)
    BY <1>2, <1>4, <1>5 DEF KindFold!Steps
  <2> HIDE DEF m
  <2>4. /\ Blocks(few, AddKind(few, v[m], m + 1), m + 1)
        /\ Len(AddKind(few, v[m], m + 1)) = Len(v[m]) + few[m + 1]
    BY <2>1, <2>2, BlocksStep
  <2>5. /\ Blocks(many, AddKind(many, w[m], m + 1), m + 1)
        /\ Len(AddKind(many, w[m], m + 1)) = Len(w[m]) + many[m + 1]
    BY <2>1, <2>2, BlocksStep
  <2>6. Len(v[m]) \in Nat /\ Len(w[m]) \in Nat
    BY <2>2 DEF Blocks
  <2>7. few[i] \in Nat /\ many[i] \in Nat /\ few[i] <= many[i]
    BY <2>1
  <2>8. Len(v[i]) <= Len(w[i])
    BY <2>1, <2>2, <2>3, <2>4, <2>5, <2>6, <2>7
  <2> QED BY <2>1, <2>3, <2>4, <2>5, <2>8
<1>8. n \in T
  <2>1. n \in 0..n
    BY <1>1
  <2> HIDE DEF T
  <2> QED BY <1>1, <1>6, <1>7, <2>1, KindFold!IntervalInduction
<1> QED BY <1>3, <1>4, <1>5, <1>8

AddWindow(ctx, some, j) == IF Contains(some, j.window) THEN some ELSE Append(some, j.window)
WindowFold == INSTANCE FoldFacts WITH Op <- AddWindow

LEMMA WindowsOfFold ==
    ASSUME NEW jobs
    PROVE  WindowsOf(jobs) = WindowFold!Fold({}, <<>>, jobs)
BY DEF WindowsOf, FoldLeft, MapThenFoldSet, Max, WindowFold!Fold, WindowFold!Folds,
       WindowFold!Largest, AddWindow

(* Replacements are planned over windows that there are.                     *)
LEMMA WindowsOfJobs ==
    ASSUME NEW jobs \in Seq(Job)
    PROVE  WindowsOf(jobs) \in Seq(Range(Windows))
<1> DEFINE n == Len(jobs)
           W == Range(Windows)
<1>1. n \in Nat /\ DOMAIN jobs = 1..n
  OBVIOUS
<1>2. ASSUME NEW i \in 1..n PROVE jobs[i].window \in W
  <2>1. jobs[i] \in Job
    OBVIOUS
  <2> HIDE DEF W
  <2> QED BY <2>1 DEF Job, W
<1>3. WindowsOf(jobs) = WindowFold!Fold({}, <<>>, jobs)
  BY WindowsOfFold
<1> HIDE DEF n, W
<1>4. PICK v : WindowFold!Steps(v, {}, <<>>, n, jobs) /\ v[n] = WindowFold!Fold({}, <<>>, jobs)
  BY <1>1, WindowFold!FoldTrace
<1> DEFINE T == {i \in 0..n : v[i] \in Seq(W)}
<1>5. 0 \in T
  <2>1. <<>> \in Seq(W) /\ 0 \in 0..n
    BY <1>1
  <2> QED BY <1>4, <2>1 DEF WindowFold!Steps
<1>6. ASSUME NEW i \in 1..n, i - 1 \in T PROVE i \in T
  <2>1. v[i] = AddWindow({}, v[i - 1], jobs[i]) /\ i \in 0..n /\ v[i - 1] \in Seq(W)
    BY <1>1, <1>4, <1>6 DEF WindowFold!Steps
  <2>2. Append(v[i - 1], jobs[i].window) \in Seq(W)
    BY <1>2, <2>1
  <2> QED BY <2>1, <2>2 DEF AddWindow
<1>7. n \in T
  <2>1. n \in 0..n
    BY <1>1
  <2> HIDE DEF T
  <2> QED BY <1>1, <1>5, <1>6, <2>1, WindowFold!IntervalInduction
<1> QED BY <1>3, <1>4, <1>7 DEF W

(* The jobs of one plan more.                                              *)
LEMMA AllJobsAppend ==
    ASSUME NEW plans \in Seq(Seq(Job)), NEW jobs \in Seq(Job)
    PROVE  AllJobs(Append(plans, jobs)) = AllJobs(plans) \o jobs
<1> DEFINE n == Len(plans)
           all == Append(plans, jobs)
<1>1. /\ n \in Nat /\ DOMAIN plans = 1..n /\ DOMAIN all = 1..(n + 1)
      /\ \A i \in 1..n : all[i] = plans[i]
      /\ all[n + 1] = jobs
  OBVIOUS
<1> HIDE DEF n, all
<1>2. PlanFold!Fold({}, <<>>, all) = Concat({}, PlanFold!Fold({}, <<>>, plans), all[n + 1])
  BY <1>1, PlanFold!FoldLast
<1>3. AllJobs(all) = AllJobs(plans) \o jobs
  BY <1>1, <1>2, AllJobsFold DEF Concat
<1> QED BY <1>3 DEF all

LEMMA AllJobsNone == AllJobs(<<>>) = <<>>
<1>1. DOMAIN <<>> = 1..0
  OBVIOUS
<1>2. PlanFold!Fold({}, <<>>, <<>>) = <<>>
  BY <1>1, PlanFold!FoldEmpty
<1> QED BY <1>2, AllJobsFold

(* All jobs of all plans.                                                    *)
LEMMA AllJobsType ==
    ASSUME NEW plans \in Seq(Seq(Job))
    PROVE  AllJobs(plans) \in Seq(Job)
<1> DEFINE n == Len(plans)
           J == Job
<1>1. n \in Nat /\ DOMAIN plans = 1..n /\ \A i \in 1..n : plans[i] \in Seq(J)
  OBVIOUS
<1>c. \A s, t \in Seq(J) : s \o t \in Seq(J)
  OBVIOUS
<1> HIDE DEF n, J
<1>4. PICK v : PlanFold!Steps(v, {}, <<>>, n, plans) /\ v[n] = PlanFold!Fold({}, <<>>, plans)
  BY <1>1, PlanFold!FoldTrace
<1> DEFINE T == {i \in 0..n : v[i] \in Seq(J)}
<1>5. 0 \in T
  <2>1. <<>> \in Seq(J) /\ 0 \in 0..n
    BY <1>1
  <2> QED BY <1>4, <2>1 DEF PlanFold!Steps
<1>6. ASSUME NEW i \in 1..n, i - 1 \in T PROVE i \in T
  <2>1. v[i] = v[i - 1] \o plans[i] /\ i \in 0..n /\ v[i - 1] \in Seq(J)
    BY <1>1, <1>4, <1>6 DEF PlanFold!Steps, Concat
  <2>2. v[i] \in Seq(J)
    BY <1>1, <1>c, <2>1
  <2> QED BY <2>1, <2>2
<1>7. n \in T
  <2>1. n \in 0..n
    BY <1>1
  <2> HIDE DEF T
  <2> QED BY <1>1, <1>5, <1>6, <2>1, PlanFold!IntervalInduction
<1> QED BY <1>4, <1>7, AllJobsFold DEF J

Candidate == [kind : Types, question : {d.question : d \in Drafts}, page : {d.page : d \in Drafts},
              sound : {d.sound : d \in Drafts}, origin : Processes \cup {Replayed, None}]

(* The same but for the origins.                                           *)
SameContent(c, d) ==
    /\ Len(c) = Len(d)
    /\ \A i \in 1..Len(c) : /\ c[i].kind = d[i].kind /\ c[i].question = d[i].question
                            /\ c[i].page = d[i].page /\ c[i].sound = d[i].sound

Each(n) == [i \in 1..n |-> i]

(* The duplicates are those that are not the first of their group.           *)
LEMMA DuplicatesFold ==
    ASSUME NEW S, NEW c \in Seq(S)
    PROVE  Duplicates(c) =
           {i \in 1..Len(c) : JoinFold!Fold(c, Each(Len(c)), Each(Len(c)))[i] # i}
<1>1. DOMAIN c = 1..Len(c)
  OBVIOUS
<1> QED BY <1>1 DEF Duplicates, Each, FoldLeft, MapThenFoldSet, Max, JoinFold!Fold, JoinFold!Folds, JoinFold!Largest

(* A group is named after one of its members, or an earlier candidate.     *)
Groups(group, n) ==
    /\ group = [i \in 1..n |-> group[i]]
    /\ \A i \in 1..n : group[i] \in 1..n /\ group[i] <= i

(* Joining two groups names a group after an earlier candidate, never a later. *)
LEMMA JoinGroupsLower ==
    ASSUME NEW S, NEW c \in Seq(S), NEW group, Groups(group, Len(c)), NEW m \in 1..Len(c)
    PROVE  /\ Groups(JoinGroups(c, group, m), Len(c))
           /\ \A i \in 1..Len(c) : JoinGroups(c, group, m)[i] <= group[i]
<1> DEFINE n == Len(c)
           Near(i) == <<c[i].question, c[m].question>> \in Similar
           near == {group[i] : i \in {i \in 1..(m - 1) : Near(i)}} \cup {m}
           next == JoinGroups(c, group, m)
<1>1. n \in Nat /\ DOMAIN c = 1..n
  OBVIOUS
<1>2. next = [i \in 1..n |-> IF group[i] \in near THEN Min(near) ELSE group[i]]
  BY <1>1 DEF JoinGroups
<1>3. near \in SUBSET (1..n) /\ near # {}
  <2>1. \A i \in 1..(m - 1) : i \in 1..n
    BY <1>1
  <2> QED BY <2>1 DEF Groups
<1> HIDE DEF n, near, next
<1>4. Min(near) \in near /\ \A y \in near : Min(near) <= y
  BY <1>1, <1>3, LeastOf
<1>5. Min(near) \in 1..n
  BY <1>3, <1>4
<1>6. \A i \in 1..n : group[i] \in 1..n /\ group[i] <= i
  BY DEF Groups, n
<1>7. ASSUME NEW i \in 1..n PROVE next[i] \in 1..n /\ next[i] <= group[i] /\ next[i] <= i
  <2>1. next[i] = IF group[i] \in near THEN Min(near) ELSE group[i]
    BY <1>2
  <2>2. CASE group[i] \in near
    BY <1>1, <1>4, <1>5, <1>6, <2>1, <2>2
  <2>3. CASE group[i] \notin near
    BY <1>1, <1>6, <2>1, <2>3
  <2> QED BY <2>2, <2>3
<1>8. next = [i \in 1..n |-> next[i]]
  BY <1>2
<1> QED BY <1>7, <1>8 DEF n, next, Groups

(* The groups among the first candidates do not depend on those after      *)
(* them, nor on the origins.                                               *)
SameQuestions(c, d) ==
    Len(c) <= Len(d) /\ \A i \in 1..Len(c) : c[i].question = d[i].question

SameUpTo(n, g, h) == \A i \in 1..n : g[i] = h[i]

(* What joins among the first candidates is the same whatever comes after them. *)
LEMMA JoinGroupsPrefix ==
    ASSUME NEW S, NEW c \in Seq(S), NEW d \in Seq(S), SameQuestions(c, d),
           NEW g, NEW h, SameUpTo(Len(c), g, h), NEW m \in 1..Len(c)
    PROVE  SameUpTo(Len(c), JoinGroups(c, g, m), JoinGroups(d, h, m))
<1> DEFINE near(e, f) == {f[i] : i \in {i \in 1..(m - 1) :
                                          <<e[i].question, e[m].question>> \in Similar}} \cup {m}
<1>1. Len(c) \in Nat /\ Len(d) \in Nat /\ DOMAIN c = 1..Len(c) /\ DOMAIN d = 1..Len(d)
  OBVIOUS
<1>q. /\ Len(c) <= Len(d) /\ \A i \in 1..Len(c) : c[i].question = d[i].question
      /\ \A i \in 1..Len(c) : g[i] = h[i]
  BY DEF SameQuestions, SameUpTo
<1>2. \A i \in 1..(m - 1) : i \in 1..Len(c)
  BY <1>1
<1>3. near(c, g) = near(d, h)
  <2>1. {i \in 1..(m - 1) : <<c[i].question, c[m].question>> \in Similar}
        = {i \in 1..(m - 1) : <<d[i].question, d[m].question>> \in Similar}
    BY <1>2, <1>q
  <2> QED BY <1>2, <1>q, <2>1
<1>4. \A i \in 1..Len(c) : i \in 1..Len(d)
  BY <1>1, <1>q
<1>5. JoinGroups(c, g, m) = [i \in 1..Len(c) |-> IF g[i] \in near(c, g) THEN Min(near(c, g)) ELSE g[i]]
  BY <1>1 DEF JoinGroups
<1>6. JoinGroups(d, h, m) = [i \in 1..Len(d) |-> IF h[i] \in near(d, h) THEN Min(near(d, h)) ELSE h[i]]
  BY <1>1 DEF JoinGroups
<1> HIDE DEF near
<1> QED BY <1>q, <1>3, <1>4, <1>5, <1>6 DEF SameUpTo

(* At first, each candidate is a group of its own.                           *)
LEMMA EachGroups ==
    ASSUME NEW n \in Nat
    PROVE  Groups(Each(n), n)
BY DEF Groups, Each

(* Who is a duplicate stays one when more candidates come after.           *)
LEMMA DuplicatesStay ==
    ASSUME NEW S, NEW c \in Seq(S), NEW d \in Seq(S), SameQuestions(c, d)
    PROVE  Duplicates(c) \subseteq Duplicates(d)
<1> DEFINE n == Len(c)
           k == Len(d)
<1>1. n \in Nat /\ k \in Nat /\ n <= k
  BY DEF SameQuestions
<1>e. \A l \in Nat : DOMAIN Each(l) = 1..l /\ \A i \in 1..l : Each(l)[i] = i
  BY DEF Each
<1>2. PICK v : JoinFold!Steps(v, c, Each(n), n, Each(n)) /\ v[n] = JoinFold!Fold(c, Each(n), Each(n))
  <2> HIDE DEF n
  <2>1. DOMAIN Each(n) = 1..n
    BY <1>1, <1>e
  <2> QED BY <1>1, <2>1, JoinFold!FoldTrace
<1>3. PICK w : JoinFold!Steps(w, d, Each(k), k, Each(k)) /\ w[k] = JoinFold!Fold(d, Each(k), Each(k))
  <2> HIDE DEF k
  <2>1. DOMAIN Each(k) = 1..k
    BY <1>1, <1>e
  <2> QED BY <1>1, <2>1, JoinFold!FoldTrace
<1>4. /\ v[0] = Each(n) /\ \A i \in 1..n : v[i] = JoinGroups(c, v[i - 1], i)
      /\ w[0] = Each(k) /\ \A i \in 1..k : w[i] = JoinGroups(d, w[i - 1], i)
  <2> HIDE DEF n, k
  <2> QED BY <1>1, <1>2, <1>3, <1>e DEF JoinFold!Steps
<1> DEFINE T == {i \in 0..n : Groups(v[i], n) /\ Groups(w[i], k) /\ \A j \in 1..n : v[i][j] = w[i][j]}
<1>5. 0 \in T
  <2>1. \A j \in 1..n : Each(n)[j] = Each(k)[j]
    <3> HIDE DEF n, k
    <3>1. \A j \in 1..n : j \in 1..k
      BY <1>1
    <3> QED BY <1>1, <1>e, <3>1
  <2> HIDE DEF n, k
  <2> QED BY <1>1, <1>4, <2>1, EachGroups
<1>6. ASSUME NEW i \in 1..n, i - 1 \in T PROVE i \in T
  <2> DEFINE g == v[i - 1]
             h == w[i - 1]
  <2>1. Groups(g, n) /\ Groups(h, k) /\ \A j \in 1..n : g[j] = h[j]
    BY <1>6
  <2>2. i \in 1..k /\ i \in 0..n /\ v[i] = JoinGroups(c, g, i) /\ w[i] = JoinGroups(d, h, i)
    BY <1>1, <1>4
  <2> HIDE DEF g, h
  <2>3. Groups(v[i], n)
    BY <2>1, <2>2, JoinGroupsLower
  <2>4. Groups(w[i], k)
    BY <2>1, <2>2, JoinGroupsLower
  <2>5. \A j \in 1..n : v[i][j] = w[i][j]
    <3>1. SameUpTo(n, g, h)
      BY <2>1 DEF SameUpTo
    <3>2. SameUpTo(n, JoinGroups(c, g, i), JoinGroups(d, h, i))
      BY <3>1, JoinGroupsPrefix
    <3> QED BY <2>2, <3>2 DEF SameUpTo
  <2> QED BY <2>2, <2>3, <2>4, <2>5
<1>7. n \in T
  <2>1. n \in 0..n
    BY <1>1
  <2> HIDE DEF T, n
  <2> QED BY <1>1, <1>5, <1>6, <2>1, JoinFold!IntervalInduction
<1> DEFINE U == {i \in 0..k : n <= i => /\ Groups(w[i], k)
                                        /\ \A j \in 1..n : w[i][j] \in Nat /\ w[i][j] <= v[n][j]}
<1>8. Groups(v[n], n) /\ Groups(w[n], k) /\ \A j \in 1..n : v[n][j] = w[n][j]
  BY <1>7
<1>9. \A j \in 1..n : v[n][j] \in Nat /\ v[n][j] <= j
  <2> HIDE DEF n
  <2> QED BY <1>8, <1>1 DEF Groups
<1>10. \A i \in 0..k : i = n => i \in U
  BY <1>8, <1>9
<1>11. 0 \in U
  <2>1. 0 \in 0..k
    BY <1>1
  <2>2. ~(n <= 0) \/ 0 = n
    BY <1>1
  <2> HIDE DEF n, k
  <2> QED BY <1>10, <2>1, <2>2
<1>12. ASSUME NEW i \in 1..k, i - 1 \in U PROVE i \in U
  <2>0. i \in 0..k /\ i \in Nat
    BY <1>1
  <2>1. CASE i = n
    BY <1>10, <2>0, <2>1
  <2>2. CASE i < n
    BY <1>1, <2>0, <2>2
  <2>3. CASE n < i
    <3> DEFINE g == w[i - 1]
    <3>1. Groups(g, k) /\ \A j \in 1..n : g[j] \in Nat /\ g[j] <= v[n][j]
      BY <1>1, <1>12, <2>0, <2>3
    <3>2. w[i] = JoinGroups(d, g, i)
      BY <1>4
    <3> HIDE DEF g
    <3>3. Groups(w[i], k) /\ \A j \in 1..k : w[i][j] <= g[j]
      BY <3>1, <3>2, JoinGroupsLower
    <3>4. \A j \in 1..n : w[i][j] \in Nat /\ w[i][j] <= v[n][j]
      <4> TAKE j \in 1..n
      <4> HIDE DEF n, k
      <4>1. j \in 1..k
        BY <1>1
      <4>2. w[i][j] \in Nat /\ w[i][j] <= g[j]
        BY <3>3, <4>1 DEF Groups
      <4> QED BY <1>9, <3>1, <4>2
    <3> QED BY <2>0, <3>3, <3>4
  <2> QED BY <1>1, <2>0, <2>1, <2>2, <2>3
<1>13. k \in U
  <2>1. k \in 0..k
    BY <1>1
  <2> HIDE DEF U, k
  <2> QED BY <1>1, <1>11, <1>12, <2>1, JoinFold!IntervalInduction
<1>14. ASSUME NEW j \in 1..n, v[n][j] # j PROVE w[k][j] # j
  <2>1. w[k][j] \in Nat /\ w[k][j] <= v[n][j]
    BY <1>1, <1>13
  <2>2. v[n][j] \in Nat /\ v[n][j] <= j /\ j \in Nat
    BY <1>9, <1>1
  <2> HIDE DEF n, k
  <2> QED BY <1>14, <2>1, <2>2
<1>15. /\ Duplicates(c) = {i \in 1..n : v[n][i] # i}
       /\ Duplicates(d) = {i \in 1..k : w[k][i] # i}
  BY <1>2, <1>3, DuplicatesFold
<1>16. \A i \in 1..n : i \in 1..k
  BY <1>1
<1> HIDE DEF n, k
<1> QED BY <1>14, <1>15, <1>16

(* Who is a duplicate depends on the questions only.                         *)
LEMMA DuplicatesSame ==
    ASSUME NEW S, NEW c \in Seq(S), NEW d \in Seq(S), Len(c) = Len(d),
           \A i \in 1..Len(c) : c[i].question = d[i].question
    PROVE  Duplicates(c) = Duplicates(d)
<1>1. SameQuestions(c, d) /\ SameQuestions(d, c)
  BY DEF SameQuestions
<1>2. Duplicates(c) \subseteq Duplicates(d)
  BY <1>1, DuplicatesStay
<1>3. Duplicates(d) \subseteq Duplicates(c)
  BY <1>1, DuplicatesStay
<1> QED BY <1>2, <1>3

Merits == {"duplicate_question", "unsound"}
Rules == SUBSET (Merits \cup {"type_quota_exceeded", "per_document_cap_exceeded",
                              "per_page_cap_exceeded"})
Of(candidates) == [candidates |-> candidates, duplicates |-> Duplicates(candidates)]

(* Whether there is room for one more of a candidate's type, document and  *)
(* page.                                                                   *)
Room(of, rules, c) ==
    LET accepted == {i \in DOMAIN rules : rules[i] = {}} IN
    /\ ~(Cardinality({i \in accepted : of.candidates[i].kind = c.kind}) >= Quotas[c.kind])
    /\ ~(Cardinality({i \in accepted : of.candidates[i].page[1] = c.page[1]}) >= DocumentCap)
    /\ ~(Cardinality({i \in accepted : of.candidates[i].page = c.page}) >= PageCap)

Judged(of, rules, c, verdict) ==
    LET text == TextRules(of, Len(rules) + 1, c) IN
    /\ text # {} => verdict = text
    /\ text = {} /\ Room(of, rules, c) => verdict = {}

(* The rules about a candidate itself.                                       *)
LEMMA TextMerits ==
    ASSUME NEW of, NEW n, NEW c
    PROVE  TextRules(of, n, c) \subseteq Merits
BY DEF TextRules, Merits

LEMMA RulesOf ==
    /\ \A text \in SUBSET Merits : text \in Rules
    /\ {"type_quota_exceeded"} \in Rules /\ {"per_document_cap_exceeded"} \in Rules
    /\ {"per_page_cap_exceeded"} \in Rules /\ {} \in Rules
BY DEF Rules

(* A verdict more: those before stay, and the new one is of the candidate by *)
(* itself where there is room for it.                                        *)
LEMMA JudgeNext ==
    ASSUME NEW of, NEW rules \in Seq(Rules), NEW c
    PROVE  /\ Judge(of, rules, c) \in Seq(Rules)
           /\ Len(Judge(of, rules, c)) = Len(rules) + 1
           /\ SameUpTo(Len(rules), Judge(of, rules, c), rules)
           /\ Judged(of, rules, c, Judge(of, rules, c)[Len(rules) + 1])
<1> DEFINE accepted == {i \in DOMAIN rules : rules[i] = {}}
           text == TextRules(of, Len(rules) + 1, c)
           kinds == Cardinality({i \in accepted : of.candidates[i].kind = c.kind}) >= Quotas[c.kind]
           documents == Cardinality({i \in accepted : of.candidates[i].page[1] = c.page[1]}) >= DocumentCap
           pages == Cardinality({i \in accepted : of.candidates[i].page = c.page}) >= PageCap
           verdict == IF text # {} THEN text
                      ELSE IF kinds THEN {"type_quota_exceeded"}
                      ELSE IF documents THEN {"per_document_cap_exceeded"}
                      ELSE IF pages THEN {"per_page_cap_exceeded"}
                      ELSE {}
<1>1. Judge(of, rules, c) = Append(rules, verdict)
  BY DEF Judge
<1>2. text \in Rules
  BY TextMerits, RulesOf
<1>3. Room(of, rules, c) <=> ~kinds /\ ~documents /\ ~pages
  BY DEF Room
<1> HIDE DEF kinds, documents, pages, text
<1>4. verdict \in Rules
  BY <1>2, RulesOf
<1>5. /\ text # {} => verdict = text
      /\ text = {} /\ Room(of, rules, c) => verdict = {}
  BY <1>3
<1> HIDE DEF verdict
<1>6. /\ Append(rules, verdict) \in Seq(Rules)
      /\ Len(Append(rules, verdict)) = Len(rules) + 1
  BY <1>4
<1>7. \A j \in 1..Len(rules) : Append(rules, verdict)[j] = rules[j]
  BY <1>4
<1>8. Append(rules, verdict)[Len(rules) + 1] = verdict
  BY <1>4
<1> QED BY <1>1, <1>5, <1>6, <1>7, <1>8 DEF text, Judged, SameUpTo

(* Each verdict is about a candidate and the verdicts before it.           *)
LEMMA Validated ==
    ASSUME NEW S, NEW c \in Seq(S)
    PROVE  /\ Validate(c) \in Seq(Rules) /\ Len(Validate(c)) = Len(c)
           /\ \A i \in 1..Len(c) :
                 \E rules \in Seq(Rules) :
                    /\ Len(rules) = i - 1
                    /\ \A j \in 1..(i - 1) : rules[j] = Validate(c)[j]
                    /\ Validate(c)[i] = Judge(Of(c), rules, c[i])[i]
<1> DEFINE n == Len(c)
           of == Of(c)
           V == Validate(c)
<1>1. n \in Nat /\ DOMAIN c = 1..n
  OBVIOUS
<1>2. V = JudgeFold!Fold(of, <<>>, c)
  BY ValidateFold DEF Of
<1> HIDE DEF n, of, V
<1>3. PICK v : JudgeFold!Steps(v, of, <<>>, n, c) /\ v[n] = JudgeFold!Fold(of, <<>>, c)
  BY <1>1, JudgeFold!FoldTrace
<1>4. v[0] = <<>> /\ \A i \in 1..n : v[i] = Judge(of, v[i - 1], c[i])
  BY <1>3 DEF JudgeFold!Steps
<1> DEFINE T == {i \in 0..n : /\ v[i] \in Seq(Rules) /\ Len(v[i]) = i
                              /\ \A j \in 1..i : v[i][j] = v[j][j]}
<1>5. 0 \in T
  <2>1. <<>> \in Seq(Rules) /\ Len(<<>>) = 0 /\ 0 \in 0..n /\ \A j \in 1..0 : FALSE
    BY <1>1
  <2> QED BY <1>4, <2>1
<1>6. ASSUME NEW i \in 1..n, i - 1 \in T PROVE i \in T
  <2> DEFINE rules == v[i - 1]
  <2>1. rules \in Seq(Rules) /\ Len(rules) = i - 1 /\ \A j \in 1..(i - 1) : rules[j] = v[j][j]
    BY <1>6
  <2>2. v[i] = Judge(of, rules, c[i]) /\ i \in 0..n
    BY <1>1, <1>4
  <2> HIDE DEF rules
  <2>3. /\ v[i] \in Seq(Rules) /\ Len(v[i]) = Len(rules) + 1
        /\ \A j \in 1..Len(rules) : v[i][j] = rules[j]
    BY <2>1, <2>2, JudgeNext DEF SameUpTo
  <2>4. Len(v[i]) = i
    BY <1>1, <2>1, <2>3
  <2>5. \A j \in 1..i : v[i][j] = v[j][j]
    <3> TAKE j \in 1..i
    <3>1. j = i \/ j \in 1..(i - 1)
      BY <1>1
    <3> QED BY <2>1, <2>3, <3>1
  <2> QED BY <2>2, <2>3, <2>4, <2>5
<1>7. \A i \in 0..n : i \in T
  <2> HIDE DEF T
  <2> QED BY <1>1, <1>5, <1>6, JudgeFold!IntervalInduction
<1>8. /\ V \in Seq(Rules) /\ Len(V) = n /\ \A j \in 1..n : V[j] = v[j][j]
  <2>1. n \in 0..n
    BY <1>1
  <2> QED BY <1>2, <1>3, <1>7, <2>1
<1>9. ASSUME NEW i \in 1..n
      PROVE  \E rules \in Seq(Rules) : /\ Len(rules) = i - 1
                                       /\ \A j \in 1..(i - 1) : rules[j] = V[j]
                                       /\ V[i] = Judge(of, rules, c[i])[i]
  <2> DEFINE rules == v[i - 1]
  <2>0. i - 1 \in 0..n
    BY <1>1
  <2>1. rules \in Seq(Rules) /\ Len(rules) = i - 1 /\ \A j \in 1..(i - 1) : rules[j] = v[j][j]
    BY <1>7, <2>0
  <2>2. \A j \in 1..(i - 1) : j \in 1..n
    BY <1>1
  <2>3. V[i] = Judge(of, rules, c[i])[i]
    BY <1>4, <1>8
  <2> HIDE DEF rules
  <2> QED BY <1>8, <2>1, <2>2, <2>3
<1> QED BY <1>8, <1>9 DEF n, of, V

(* One fewer in a set is fewer.                                              *)
LEMMA FewerWithout ==
    ASSUME NEW n \in Nat, NEW D \in SUBSET (1..n), NEW x \in D, NEW E, E \subseteq D, x \notin E
    PROVE  Cardinality(E) \in Nat /\ Cardinality(E) < Cardinality(D)
<1>1. IsFiniteSet(D) /\ Cardinality(D) \in Nat
  BY PositionsCount
<1>2. E \subseteq D \ {x}
  OBVIOUS
<1>3. IsFiniteSet(D \ {x}) /\ Cardinality(D \ {x}) = Cardinality(D) - 1
  BY <1>1, FS_RemoveElement
<1>4. IsFiniteSet(E) /\ Cardinality(E) <= Cardinality(D \ {x})
  BY <1>2, <1>3, FS_Subset
<1>5. Cardinality(E) \in Nat
  BY <1>4, FS_CardinalityType
<1> QED BY <1>1, <1>3, <1>4, <1>5

(* As many as b consecutive numbers are no more than b.                      *)
LEMMA CountWithin ==
    ASSUME NEW a \in Nat, NEW b \in Nat, NEW D, \A i \in D : i \in Nat /\ a < i /\ i <= a + b
    PROVE  IsFiniteSet(D) /\ Cardinality(D) \in Nat /\ Cardinality(D) <= b
<1> DEFINE P == (a + 1)..(a + b)
<1>1. D \subseteq P
  OBVIOUS
<1>2. IsFiniteSet(P) /\ Cardinality(P) = b
  <2>1. a + 1 \in Int /\ a + b \in Int
    OBVIOUS
  <2>2. IsFiniteSet(P) /\ Cardinality(P) = IF a + 1 > a + b THEN 0 ELSE (a + b) - (a + 1) + 1
    BY <2>1, FS_Interval
  <2> HIDE DEF P
  <2> QED BY <2>2
<1> HIDE DEF P
<1>3. IsFiniteSet(D) /\ Cardinality(D) <= Cardinality(P)
  BY <1>1, <1>2, FS_Subset
<1>4. Cardinality(D) \in Nat
  BY <1>3, FS_CardinalityType
<1> QED BY <1>2, <1>3, <1>4

(* The candidates of a type with nothing wrong, and the jobs of the type   *)
(* that are still to be done.                                              *)
Fine(c, t) == {i \in 1..Len(c) : c[i].kind = t /\ TextRules(Of(c), i, c[i]) = {}}
Left(c, jobs, t) == {i \in 1..Len(jobs) : Len(c) < i /\ jobs[i].kind = t}

Matches(c, jobs) ==
    /\ Len(c) <= Len(jobs)
    /\ \A i \in 1..Len(c) : c[i].kind = jobs[i].kind /\ c[i].page \in Pages(jobs[i].window)

(* The jobs are within the caps, and were they all to bring accepted       *)
(* questions, there would be no more of a type than wanted.                *)
InScope(c, jobs) ==
    /\ Matches(c, jobs)
    /\ WithinCaps(jobs)
    /\ \A t \in Types : Cardinality(Fine(c, t)) + Cardinality(Left(c, jobs, t)) <= Quotas[t]

LEMMA CountsType ==
    ASSUME NEW c \in Seq(Candidate), NEW jobs \in Seq(Job), NEW t
    PROVE  /\ Fine(c, t) \in SUBSET (1..Len(c)) /\ Left(c, jobs, t) \in SUBSET (1..Len(jobs))
           /\ IsFiniteSet(Fine(c, t)) /\ IsFiniteSet(Left(c, jobs, t))
           /\ Cardinality(Fine(c, t)) \in Nat /\ Cardinality(Left(c, jobs, t)) \in Nat
<1>1. /\ Fine(c, t) \in SUBSET (1..Len(c)) /\ Left(c, jobs, t) \in SUBSET (1..Len(jobs))
      /\ Len(c) \in Nat /\ Len(jobs) \in Nat
  BY DEF Fine, Left
<1> QED BY <1>1, PositionsCount

(* In scope, a candidate breaks no rule but those about itself.            *)
LEMMA RoomInScope ==
    ASSUME NEW c \in Seq(Candidate), NEW jobs \in Seq(Job), InScope(c, jobs),
           NEW i \in 1..Len(c), TextRules(Of(c), i, c[i]) = {},
           NEW rules \in Seq(Rules), Len(rules) = i - 1,
           \A j \in 1..(i - 1) : rules[j] = TextRules(Of(c), j, c[j])
    PROVE  Room(Of(c), rules, c[i])
<1> DEFINE n == Len(c)
           k == Len(jobs)
           accepted == {j \in DOMAIN rules : rules[j] = {}}
<1>1. n \in Nat /\ k \in Nat /\ n <= k /\ i \in 1..k /\ DOMAIN rules = 1..(i - 1)
  BY DEF InScope, Matches
<1>2. \A j \in accepted : j \in 1..n /\ j < i /\ TextRules(Of(c), j, c[j]) = {}
  BY <1>1
<1>3. \A j \in 1..n : j \in 1..k /\ c[j].kind = jobs[j].kind /\ c[j].page \in Pages(jobs[j].window)
  BY <1>1 DEF InScope, Matches
<1>4. c[i].kind \in Types /\ Quotas[c[i].kind] \in Nat
  <2>1. c[i] \in Candidate
    OBVIOUS
  <2>2. c[i].kind \in Types
    BY <2>1 DEF Candidate
  <2>3. \A t \in Types : Quotas[t] \in Nat
    BY PlanAssumption DEF Types
  <2> QED BY <2>2, <2>3
<1>5. Of(c).candidates = c
  BY DEF Of
<1>6. DocumentCap \in Nat /\ PageCap \in Nat
  BY PlanAssumption
<1> HIDE DEF accepted, n, k
<1>7. ~(Cardinality({j \in accepted : c[j].kind = c[i].kind}) >= Quotas[c[i].kind])
  <2> DEFINE E == {j \in accepted : c[j].kind = c[i].kind}
             D == Fine(c, c[i].kind)
             L == Left(c, jobs, c[i].kind)
             q == Quotas[c[i].kind]
  <2>1. D \in SUBSET (1..n) /\ Cardinality(D) \in Nat /\ Cardinality(L) \in Nat
    BY CountsType DEF n
  <2>2. E \subseteq D /\ i \in D /\ i \notin E
    <3>1. E \subseteq D
      BY <1>2 DEF Fine, n
    <3>2. i \in D
      BY DEF Fine
    <3>3. i \notin E
      BY <1>1, <1>2
    <3> QED BY <3>1, <3>2, <3>3
  <2>3. Cardinality(D) + Cardinality(L) <= q
    BY <1>4 DEF InScope
  <2> HIDE DEF D, E, L, q
  <2>4. Cardinality(E) \in Nat /\ Cardinality(E) < Cardinality(D)
    BY <1>1, <2>1, <2>2, FewerWithout
  <2>5. ~(Cardinality(E) >= q)
    BY <1>4, <2>1, <2>3, <2>4 DEF q
  <2> QED BY <2>5 DEF E, q
<1>8. ~(Cardinality({j \in accepted : c[j].page[1] = c[i].page[1]}) >= DocumentCap)
  <2> DEFINE E == {j \in accepted : c[j].page[1] = c[i].page[1]}
             D == {j \in 1..k : jobs[j].window.doc = c[i].page[1]}
  <2>1. \A j \in 1..n : c[j].page[1] = jobs[j].window.doc
    BY <1>3 DEF Pages
  <2>2. E \subseteq D /\ i \in D /\ i \notin E /\ D \in SUBSET (1..k)
    BY <1>1, <1>2, <1>3, <2>1 DEF n
  <2>3. Cardinality(D) <= DocumentCap
    <3>1. DOMAIN jobs = 1..k
      BY DEF k
    <3> QED BY <3>1 DEF InScope, WithinCaps, OfDocument
  <2> HIDE DEF D, E
  <2>4. Cardinality(E) \in Nat /\ Cardinality(E) < Cardinality(D) /\ Cardinality(D) \in Nat
    BY <1>1, <2>2, FewerWithout, PositionsCount
  <2>5. ~(Cardinality(E) >= DocumentCap)
    BY <1>6, <2>3, <2>4
  <2> QED BY <2>5 DEF E
<1>9. ~(Cardinality({j \in accepted : c[j].page = c[i].page}) >= PageCap)
  <2> DEFINE E == {j \in accepted : c[j].page = c[i].page}
             D == {j \in 1..k : c[i].page \in Pages(jobs[j].window)}
  <2>2. E \subseteq D /\ i \in D /\ i \notin E /\ D \in SUBSET (1..k)
    BY <1>1, <1>2, <1>3 DEF n
  <2>3. Cardinality(D) <= PageCap
    <3>1. DOMAIN jobs = 1..k
      BY DEF k
    <3> QED BY <3>1 DEF InScope, WithinCaps, OfPage
  <2> HIDE DEF D, E
  <2>4. Cardinality(E) \in Nat /\ Cardinality(E) < Cardinality(D) /\ Cardinality(D) \in Nat
    BY <1>1, <2>2, FewerWithout, PositionsCount
  <2>5. ~(Cardinality(E) >= PageCap)
    BY <1>6, <2>3, <2>4
  <2> QED BY <2>5 DEF E
<1> QED BY <1>5, <1>7, <1>8, <1>9 DEF Room, accepted

(* In scope, what is wrong with a candidate is all that it is rejected for.  *)
LEMMA OnMerit ==
    ASSUME NEW c \in Seq(Candidate), NEW jobs \in Seq(Job), InScope(c, jobs)
    PROVE  \A i \in 1..Len(c) : Validate(c)[i] = TextRules(Of(c), i, c[i])
<1> DEFINE n == Len(c)
           V == Validate(c)
           T == {i \in 0..n : \A j \in 1..i : V[j] = TextRules(Of(c), j, c[j])}
<1>1. n \in Nat
  OBVIOUS
<1>2. 0 \in T
  BY <1>1
<1>3. ASSUME NEW i \in 1..n, i - 1 \in T PROVE i \in T
  <2>1. PICK rules \in Seq(Rules) : /\ Len(rules) = i - 1
                                    /\ \A j \in 1..(i - 1) : rules[j] = V[j]
                                    /\ V[i] = Judge(Of(c), rules, c[i])[i]
    BY Validated
  <2>2. \A j \in 1..(i - 1) : rules[j] = TextRules(Of(c), j, c[j])
    BY <1>3, <2>1
  <2>3. Len(rules) + 1 = i /\ i \in 0..n
    BY <1>1, <2>1
  <2> DEFINE text == TextRules(Of(c), i, c[i])
             verdict == Judge(Of(c), rules, c[i])[i]
  <2>4. /\ text # {} => verdict = text
        /\ text = {} /\ Room(Of(c), rules, c[i]) => verdict = {}
    <3>1. Judged(Of(c), rules, c[i], Judge(Of(c), rules, c[i])[Len(rules) + 1])
      BY JudgeNext
    <3> QED BY <2>3, <3>1 DEF Judged
  <2>5. text = {} => Room(Of(c), rules, c[i])
    BY <2>1, <2>2, RoomInScope
  <2>6. V[i] = text
    <3> HIDE DEF text
    <3> QED BY <2>1, <2>4, <2>5
  <2>7. \A j \in 1..i : j = i \/ j \in 1..(i - 1)
    BY <1>1
  <2> HIDE DEF V
  <2> QED BY <1>3, <2>3, <2>6, <2>7
<1>4. n \in T
  <2>1. n \in 0..n
    BY <1>1
  <2> HIDE DEF T, n
  <2> QED BY <1>1, <1>2, <1>3, <2>1, JudgeFold!IntervalInduction
<1> QED BY <1>4

(* In scope, all that is right is accepted.                                  *)
LEMMA AcceptedInScope ==
    ASSUME NEW c \in Seq(Candidate), NEW jobs \in Seq(Job), InScope(c, jobs)
    PROVE  Accepted(c, Validate(c)) = [t \in Types |-> Cardinality(Fine(c, t))]
<1> DEFINE V == Validate(c)
<1>1. DOMAIN V = 1..Len(c)
  BY Validated
<1>2. \A i \in 1..Len(c) : V[i] = TextRules(Of(c), i, c[i])
  BY OnMerit
<1> HIDE DEF V
<1>3. ASSUME NEW t \in Types PROVE {i \in DOMAIN V : V[i] = {} /\ c[i].kind = t} = Fine(c, t)
  BY <1>1, <1>2 DEF Fine
<1> QED BY <1>3 DEF Accepted, V

(* Two counts together are no more than two that cover them.                 *)
LEMMA TwoCounts ==
    ASSUME NEW A, NEW B, NEW C, NEW D, IsFiniteSet(A), IsFiniteSet(B), IsFiniteSet(C), IsFiniteSet(D),
           A \cap B = {}, C \cap D = {}, A \cup B \subseteq C \cup D
    PROVE  /\ Cardinality(A) \in Nat /\ Cardinality(B) \in Nat
           /\ Cardinality(C) \in Nat /\ Cardinality(D) \in Nat
           /\ Cardinality(A) + Cardinality(B) <= Cardinality(C) + Cardinality(D)
<1>1. /\ Cardinality(A) \in Nat /\ Cardinality(B) \in Nat
      /\ Cardinality(C) \in Nat /\ Cardinality(D) \in Nat
  BY FS_CardinalityType
<1>2. IsFiniteSet(A \cup B) /\ IsFiniteSet(C \cup D) /\ Cardinality({}) = 0
  BY FS_Union, FS_EmptySet
<1>3. Cardinality(A \cup B) = Cardinality(A) + Cardinality(B) - Cardinality(A \cap B)
  BY FS_Union
<1>4. Cardinality(C \cup D) = Cardinality(C) + Cardinality(D) - Cardinality(C \cap D)
  BY FS_Union
<1>5. Cardinality(A \cup B) <= Cardinality(C \cup D)
  BY <1>2, FS_Subset
<1>6. Cardinality(A \cap B) = 0 /\ Cardinality(C \cap D) = 0
  BY <1>2
<1> QED BY <1>1, <1>3, <1>4, <1>5, <1>6

(* More candidates for the jobs.                                           *)
LEMMA ScopeMore ==
    ASSUME NEW c \in Seq(Candidate), NEW new \in Seq(Candidate), NEW jobs \in Seq(Job),
           InScope(c, jobs), Matches(c \o new, jobs)
    PROVE  InScope(c \o new, jobs)
<1> DEFINE all == c \o new
           n == Len(c)
           m == Len(all)
           k == Len(jobs)
<1>1. all \in Seq(Candidate) /\ m = n + Len(new) /\ \A i \in 1..n : all[i] = c[i]
  OBVIOUS
<1>2. n \in Nat /\ m \in Nat /\ k \in Nat /\ n <= m /\ m <= k
  BY <1>1 DEF Matches
<1>3. \A i \in 1..m : i \in 1..k /\ all[i].kind = jobs[i].kind
  BY <1>2 DEF Matches
<1>4. Duplicates(c) \subseteq Duplicates(all)
  <2>1. SameQuestions(c, all)
    BY <1>1, <1>2 DEF SameQuestions
  <2> HIDE DEF all
  <2> QED BY <1>1, <2>1, DuplicatesStay
<1> HIDE DEF all, n, m, k
<1>5. ASSUME NEW t \in Types
      PROVE  Cardinality(Fine(all, t)) + Cardinality(Left(all, jobs, t)) <= Quotas[t]
  <2> DEFINE A == Fine(all, t)
             B == Left(all, jobs, t)
             C == Fine(c, t)
             D == Left(c, jobs, t)
  <2>1. IsFiniteSet(A) /\ IsFiniteSet(B) /\ IsFiniteSet(C) /\ IsFiniteSet(D)
    BY <1>1, CountsType
  <2>2. A \cap B = {} /\ C \cap D = {}
    <3>1. A \cap B = {}
      BY <1>2 DEF Fine, Left, m
    <3>2. C \cap D = {}
      BY <1>2 DEF Fine, Left, n
    <3> QED BY <3>1, <3>2
  <2>3. ASSUME NEW i \in A PROVE i \in C \cup D
    <3>1. i \in 1..m /\ all[i].kind = t /\ TextRules(Of(all), i, all[i]) = {}
      BY DEF Fine, m
    <3>2. i \in 1..k /\ jobs[i].kind = t
      BY <1>3, <3>1
    <3>3. CASE n < i
      BY <3>2, <3>3 DEF Left, n, k
    <3>4. CASE ~(n < i)
      <4>1. i \in 1..n
        BY <1>2, <3>1, <3>4
      <4>2. all[i] = c[i]
        BY <1>1, <4>1
      <4>3. TextRules(Of(c), i, c[i]) = {}
        BY <1>4, <3>1, <4>2 DEF TextRules, Of
      <4> QED BY <3>1, <4>1, <4>2, <4>3 DEF Fine, n
    <3> QED BY <3>3, <3>4
  <2>4. B \subseteq D
    BY <1>2 DEF Left, n, m
  <2>5. A \cup B \subseteq C \cup D
    <3> HIDE DEF A, B, C, D
    <3> QED BY <2>3, <2>4
  <2>6. Cardinality(C) + Cardinality(D) <= Quotas[t]
    BY DEF InScope
  <2> HIDE DEF A, B, C, D
  <2>7. /\ Cardinality(A) \in Nat /\ Cardinality(B) \in Nat
        /\ Cardinality(C) \in Nat /\ Cardinality(D) \in Nat
        /\ Cardinality(A) + Cardinality(B) <= Cardinality(C) + Cardinality(D)
    BY <2>1, <2>2, <2>5, TwoCounts
  <2>8. Quotas[t] \in Nat
    BY PlanAssumption DEF Types
  <2>9. Cardinality(A) + Cardinality(B) <= Quotas[t]
    BY <2>6, <2>7, <2>8
  <2> QED BY <2>9 DEF A, B
<1>6. InScope(all, jobs)
  BY <1>5 DEF InScope, all
<1> QED BY <1>6 DEF all

(* The jobs of a plan are no more of a type than asked for.                *)
NoMoreThan(plan, counts) ==
    \A k \in Types : \E a \in Nat : \A j \in 1..Len(plan) :
        plan[j].kind = k => a < j /\ j <= a + counts[k]

(* A plan that is not refused has a job for each question asked for.         *)
LEMMA PlanFor ==
    ASSUME NEW counts \in [Types -> Nat], NEW windows \in Seq(Range(Windows)),
           NEW prior \in Seq(Job), WithinCaps(prior),
           NEW plan, plan = JobsFor(Expanded(counts), windows, prior), plan # <<>>
    PROVE  /\ plan \in Seq(Job) /\ Len(plan) = Len(Expanded(counts))
           /\ NoMoreThan(plan, counts) /\ WithinCaps(prior \o plan)
<1> DEFINE kinds == Expanded(counts)
<1>1. kinds \in Seq(Types)
  BY KindsExpanded
<1>2. \A k \in Types : \E a \in Nat : \A j \in 1..Len(kinds) :
         kinds[j] = k => a < j /\ j <= a + counts[k]
  BY KindsExpanded
<1> HIDE DEF kinds
<1>3. plan = JobsFor(kinds, windows, prior)
  BY DEF kinds
<1>4. /\ plan \in Seq(Job) /\ Len(plan) = Len(kinds)
      /\ \A i \in 1..Len(kinds) : plan[i].kind = kinds[i]
      /\ WithinCaps(prior \o plan)
  BY <1>1, <1>3, JobsForKinds
<1>5. NoMoreThan(plan, counts)
  BY <1>2, <1>4 DEF NoMoreThan
<1> QED BY <1>4, <1>5 DEF kinds

(* A plan of what is missing, after all jobs of the plans before are done. *)
LEMMA ScopeNewPlan ==
    ASSUME NEW c \in Seq(Candidate), NEW jobs \in Seq(Job), InScope(c, jobs), Len(c) = Len(jobs),
           NEW plan \in Seq(Job), WithinCaps(jobs \o plan),
           NEW targets \in [Types -> Nat], \A t \in Types : targets[t] <= Quotas[t],
           NoMoreThan(plan, Deficits(Accepted(c, Validate(c)), targets))
    PROVE  InScope(c, jobs \o plan)
<1> DEFINE all == jobs \o plan
           n == Len(c)
           counts == Deficits(Accepted(c, Validate(c)), targets)
<1>1. /\ n \in Nat /\ Len(plan) \in Nat /\ all \in Seq(Job) /\ Len(all) = n + Len(plan)
      /\ \A i \in 1..n : all[i] = jobs[i]
      /\ \A i \in 1..Len(all) : n < i => all[i] = plan[i - n]
  OBVIOUS
<1>2. Matches(c, all)
  BY <1>1 DEF InScope, Matches
<1>3. ASSUME NEW t \in Types
      PROVE  Cardinality(Fine(c, t)) + Cardinality(Left(c, all, t)) <= Quotas[t]
  <2> DEFINE f == Cardinality(Fine(c, t))
             L == Left(c, all, t)
             d == counts[t]
  <2>1. f \in Nat /\ f <= Quotas[t] /\ Quotas[t] \in Nat
    <3>1. f \in Nat /\ Cardinality(Left(c, jobs, t)) \in Nat
      BY CountsType
    <3>2. f + Cardinality(Left(c, jobs, t)) <= Quotas[t]
      BY DEF InScope
    <3>3. Quotas[t] \in Nat
      BY PlanAssumption DEF Types
    <3> HIDE DEF f
    <3> QED BY <3>1, <3>2, <3>3
  <2>2. d = IF f < targets[t] THEN targets[t] - f ELSE 0
    <3>1. Accepted(c, Validate(c))[t] = f
      BY AcceptedInScope
    <3> HIDE DEF f
    <3> QED BY <3>1 DEF Deficits
  <2> HIDE DEF d, f
  <2>3. d \in Nat /\ f + d <= Quotas[t]
    BY <2>1, <2>2
  <2>4. PICK a \in Nat : \A j \in 1..Len(plan) : plan[j].kind = t => a < j /\ j <= a + d
    BY DEF NoMoreThan, d
  <2> DEFINE b == n + a
  <2>5. b \in Nat /\ \A i \in L : i \in Nat /\ b < i /\ i <= b + d
    <3>1. b \in Nat
      BY <1>1
    <3>2. ASSUME NEW i \in L PROVE i \in Nat /\ b < i /\ i <= b + d
      <4>1. i \in 1..Len(all) /\ n < i /\ all[i].kind = t
        BY DEF Left
      <4> HIDE DEF all, n, L
      <4>2. i - n \in 1..Len(plan) /\ i \in Nat
        BY <1>1, <4>1
      <4>3. plan[i - n].kind = t
        BY <1>1, <4>1
      <4>4. a < i - n /\ i - n <= a + d
        BY <2>4, <4>2, <4>3
      <4> QED BY <1>1, <2>3, <4>2, <4>4
    <3> QED BY <3>1, <3>2
  <2> HIDE DEF b, L
  <2>6. Cardinality(L) \in Nat /\ Cardinality(L) <= d
    BY <2>3, <2>5, CountWithin
  <2>7. f + Cardinality(L) <= Quotas[t]
    BY <2>1, <2>3, <2>6
  <2> QED BY <2>7 DEF f, L
<1> QED BY <1>2, <1>3 DEF InScope

(* The first plan of a campaign is in scope of nothing generated yet.        *)
LEMMA ScopeFirst ==
    ASSUME Plan # <<>>
    PROVE  /\ Plan \in Seq(Job) /\ Len(Plan) = Len(Expanded(Quotas)) /\ Windows # <<>>
           /\ InScope(<<>>, Plan)
<1>1. Windows # <<>> /\ Plan = JobsFor(Expanded(Quotas), Windows, <<>>)
  BY DEF Plan, Refused
<1>2. Quotas \in [Types -> Nat] /\ Windows \in Seq(Range(Windows)) /\ <<>> \in Seq(Job)
  BY PlanAssumption DEF Types
<1>3. WithinCaps(<<>>)
  <2>1. DOMAIN <<>> = {}
    OBVIOUS
  <2>2. \A doc : OfDocument(<<>>, doc) = 0
    BY <2>1, FS_EmptySet DEF OfDocument
  <2>3. \A page : OfPage(<<>>, page) = 0
    BY <2>1, FS_EmptySet DEF OfPage
  <2>4. DocumentCap \in Nat /\ PageCap \in Nat
    BY PlanAssumption
  <2> QED BY <2>2, <2>3, <2>4 DEF WithinCaps
<1>4. /\ Plan \in Seq(Job) /\ Len(Plan) = Len(Expanded(Quotas))
      /\ NoMoreThan(Plan, Quotas) /\ WithinCaps(<<>> \o Plan)
  BY <1>1, <1>2, <1>3, PlanFor
<1>5. <<>> \o Plan = Plan
  BY <1>4
<1>6. Matches(<<>>, Plan)
  <2>1. Len(<<>>) = 0 /\ \A i \in 1..0 : FALSE
    OBVIOUS
  <2>2. Len(Plan) \in Nat
    BY <1>4
  <2> QED BY <2>1, <2>2 DEF Matches
<1>7. ASSUME NEW t \in Types
      PROVE  Cardinality(Fine(<<>>, t)) + Cardinality(Left(<<>>, Plan, t)) <= Quotas[t]
  <2> DEFINE L == Left(<<>>, Plan, t)
             q == Quotas[t]
  <2>1. Fine(<<>>, t) = {}
    BY DEF Fine
  <2>2. PICK a \in Nat : \A j \in 1..Len(Plan) : Plan[j].kind = t => a < j /\ j <= a + q
    BY <1>4 DEF NoMoreThan
  <2>3. q \in Nat
    BY <1>2
  <2>4. \A i \in L : i \in Nat /\ a < i /\ i <= a + q
    BY <1>4, <2>2 DEF Left
  <2> HIDE DEF L, q
  <2>5. Cardinality(L) \in Nat /\ Cardinality(L) <= q
    BY <2>3, <2>4, CountWithin
  <2>6. Cardinality({}) + Cardinality(L) <= q
    BY <2>3, <2>5, FS_EmptySet
  <2> QED BY <2>1, <2>6 DEF L, q
<1> QED BY <1>1, <1>4, <1>5, <1>6, <1>7 DEF InScope

Targets(scope) == IF scope THEN NormalQuotas ELSE Quotas

(* The targets of a campaign are no more than the quotas.                    *)
LEMMA TargetsType ==
    ASSUME NEW scope \in BOOLEAN
    PROVE  /\ Targets(scope) \in [Types -> Nat] /\ Quotas \in [Types -> Nat]
           /\ \A t \in Types : Targets(scope)[t] <= Quotas[t]
<1>1. Quotas \in [Types -> Nat] /\ NormalQuotas \in [Types -> Nat]
  BY PlanAssumption DEF Types
<1>2. \A t \in Types : NormalQuotas[t] <= Quotas[t]
  BY PlanAssumption DEF Types
<1>3. \A t \in Types : Quotas[t] <= Quotas[t]
  BY <1>1
<1> QED BY <1>1, <1>2, <1>3 DEF Targets

(* What is missing is no more than the quotas.                               *)
LEMMA DeficitsType ==
    ASSUME NEW accepted \in [Types -> Nat], NEW targets \in [Types -> Nat],
           \A t \in Types : targets[t] <= Quotas[t]
    PROVE  /\ Deficits(accepted, targets) \in [Types -> Nat]
           /\ \A t \in Types : Deficits(accepted, targets)[t] <= Quotas[t]
<1>1. \A t \in Types : accepted[t] \in Nat /\ targets[t] \in Nat /\ Quotas[t] \in Nat
  BY PlanAssumption DEF Types
<1> DEFINE d(t) == IF accepted[t] < targets[t] THEN targets[t] - accepted[t] ELSE 0
<1>2. \A t \in Types : d(t) \in Nat /\ d(t) <= Quotas[t]
  BY <1>1
<1>3. Deficits(accepted, targets) = [t \in Types |-> d(t)]
  BY DEF Deficits
<1> HIDE DEF d
<1> QED BY <1>2, <1>3

(* The plan of a round in which all jobs of the plans are done.            *)
LEMMA Replan ==
    ASSUME NEW plans \in Seq(Seq(Job)), Len(plans) >= 1, Plan # <<>>,
           NEW c \in Seq(Candidate), InScope(c, AllJobs(plans)), Len(c) = Len(AllJobs(plans)),
           NEW scope \in BOOLEAN, NEW new, new # <<>>,
           new = PlanReplacements(plans, Accepted(c, Validate(c)), Targets(scope))
    PROVE  /\ new \in Seq(Job) /\ Len(new) <= Len(Plan)
           /\ InScope(c, AllJobs(plans) \o new)
<1> DEFINE accepted == Accepted(c, Validate(c))
           targets == Targets(scope)
           counts == Deficits(accepted, targets)
           jobs == AllJobs(plans)
<1>1. jobs \in Seq(Job) /\ plans[1] \in Seq(Job)
  BY AllJobsType
<1>2. accepted \in [Types -> Nat]
  <2>1. \A t \in Types : Cardinality(Fine(c, t)) \in Nat
    BY <1>1, CountsType
  <2>2. accepted = [t \in Types |-> Cardinality(Fine(c, t))]
    BY <1>1, AcceptedInScope
  <2> HIDE DEF accepted
  <2> QED BY <2>1, <2>2
<1>3. /\ targets \in [Types -> Nat] /\ Quotas \in [Types -> Nat]
      /\ \A t \in Types : targets[t] <= Quotas[t]
  BY TargetsType
<1> HIDE DEF accepted, targets, jobs
<1>4. counts \in [Types -> Nat] /\ \A t \in Types : counts[t] <= Quotas[t]
  BY <1>2, <1>3, DeficitsType
<1>5. WithinCaps(jobs) /\ InScope(c, jobs) /\ Len(c) = Len(jobs)
  BY DEF jobs, InScope
<1> DEFINE windows == WindowsOf(plans[1])
<1>6. windows \in Seq(Range(Windows))
  BY <1>1, WindowsOfJobs
<1>7. new = JobsFor(Expanded(counts), windows, jobs)
  BY DEF PlanReplacements, jobs, accepted, targets
<1> HIDE DEF windows, counts
<1>8. /\ new \in Seq(Job) /\ Len(new) = Len(Expanded(counts))
      /\ NoMoreThan(new, counts) /\ WithinCaps(jobs \o new)
  BY <1>1, <1>4, <1>5, <1>6, <1>7, PlanFor
<1>9. Len(new) <= Len(Plan)
  <2>1. Len(Expanded(counts)) <= Len(Expanded(Quotas))
    BY <1>3, <1>4, ExpandedMonotone
  <2> QED BY <1>8, <2>1, ScopeFirst
<1>10. InScope(c, jobs \o new)
  BY <1>1, <1>3, <1>5, <1>8, ScopeNewPlan DEF counts, accepted
<1> QED BY <1>8, <1>9, <1>10 DEF jobs

-----------------------------------------------------------------------------
(* Positions of a process: before a batch, or before the end of a round.   *)

Position(t) ==
    /\ t = [pc |-> t.pc, plans |-> t.plans, batch |-> t.batch,
            generated |-> t.generated, drafts |-> t.drafts]
    /\ t.pc \in {"get", "validate"} /\ t.drafts = <<>>
    /\ t.plans \in Seq(Seq(Job)) /\ t.batch \in Nat \ {0} /\ t.generated \in Seq(Candidate)
    /\ Len(t.plans) >= 1 /\ Len(t.plans) <= MaxRounds + 1
    /\ Plan # <<>> /\ Jobs(t) # <<>> /\ Len(Jobs(t)) <= Len(Plan)
    /\ t.pc = "get" => t.batch <= Len(Batches(Jobs(t)))
    /\ t.pc = "validate" => t.batch = Len(Batches(Jobs(t))) + 1

Done(t) == IF t.pc = "validate" THEN Len(Jobs(t)) ELSE (t.batch - 1) * BatchSize

Sound(t) ==
    /\ Position(t)
    /\ InScope(t.generated, AllJobs(t.plans))
    /\ \E prior \in Seq(Job) : /\ AllJobs(t.plans) = prior \o Jobs(t)
                               /\ Len(t.generated) = Len(prior) + Done(t)

Ended(t, scope) == Level(t) = "target" \/ (scope /\ Level(t) = "normal_floor") \/ LastRound(t)

NewPlan(t, scope) ==
    PlanReplacements(t.plans, Accepted(t.generated, Validate(t.generated)), Targets(scope))

(* The answers to a batch are for its jobs.                                *)
Answer(g) ==
    /\ g.candidates \in Seq(Candidate) /\ Len(g.candidates) = Len(JobsOf(g.batch))
    /\ Matches(g.candidates, JobsOf(g.batch))

(* From one position to the next, by the answers G.                        *)
GetTurn(t, u, G) ==
    t.pc = "get" /\ \E g \in G : g.batch = BatchOf(t) /\ u = Advance(t, g.candidates)
RoundTurn(t, u, scope) ==
    /\ t.pc = "validate" /\ ~Ended(t, scope) /\ NewPlan(t, scope) # Refused
    /\ u = [t EXCEPT !.pc = "get", !.plans = Append(@, NewPlan(t, scope)), !.batch = 1]
Turn(t, u, G, scope) == GetTurn(t, u, G) \/ RoundTurn(t, u, scope)

(* The next batch.                                                           *)
LEMMA AdvanceFields ==
    ASSUME NEW t, Position(t), NEW candidates, NEW u, u = Advance(t, candidates)
    PROVE  /\ u = [pc |-> u.pc, plans |-> u.plans, batch |-> u.batch,
                   generated |-> u.generated, drafts |-> u.drafts]
           /\ u.pc = IF t.batch = Len(Batches(Jobs(t))) THEN "validate" ELSE "get"
           /\ u.plans = t.plans /\ u.batch = t.batch + 1
           /\ u.generated = t.generated \o candidates /\ u.drafts = <<>>
BY DEF Advance, Position

(* The next round.                                                           *)
LEMMA RoundFields ==
    ASSUME NEW t, Position(t), NEW new, NEW u,
           u = [t EXCEPT !.pc = "get", !.plans = Append(@, new), !.batch = 1]
    PROVE  /\ u = [pc |-> u.pc, plans |-> u.plans, batch |-> u.batch,
                   generated |-> u.generated, drafts |-> u.drafts]
           /\ u.pc = "get" /\ u.plans = Append(t.plans, new) /\ u.batch = 1
           /\ u.generated = t.generated /\ u.drafts = <<>>
BY DEF Position

LEMMA ConcatCandidates ==
    ASSUME NEW c \in Seq(Candidate), NEW d \in Seq(Candidate)
    PROVE  /\ c \o d \in Seq(Candidate) /\ Len(c \o d) = Len(c) + Len(d)
           /\ \A i \in 1..Len(c) : (c \o d)[i] = c[i]
           /\ \A i \in 1..(Len(c) + Len(d)) : i > Len(c) => (c \o d)[i] = d[i - Len(c)]
OBVIOUS

(* The candidates of a batch continue those of the batches before it.      *)
Slice(batch, jobs, from, to) ==
    from \in Nat /\ to \in Nat /\ from < to /\ to <= Len(jobs) /\ batch = SubSeq(jobs, from + 1, to)

(* The candidates of a batch, after those of the batches before it, are for the *)
(* jobs that come next.                                                      *)
LEMMA BatchMatches ==
    ASSUME NEW prior \in Seq(Job), NEW jobs \in Seq(Job), NEW c \in Seq(Candidate),
           NEW new \in Seq(Candidate), NEW from, NEW to, NEW batch, Slice(batch, jobs, from, to),
           Len(c) = Len(prior) + from, Matches(c, prior \o jobs),
           Len(new) = Len(batch), Matches(new, batch)
    PROVE  Matches(c \o new, prior \o jobs) /\ Len(c \o new) = Len(prior) + to
<1> DEFINE p == Len(prior)
           all == prior \o jobs
           m == to - from
<1>0. from \in Nat /\ to \in Nat /\ from < to /\ to <= Len(jobs) /\ batch = SubSeq(jobs, from + 1, to)
  BY DEF Slice
<1>1. p \in Nat /\ Len(jobs) \in Nat /\ m \in Nat /\ Len(c) \in Nat
  BY <1>0
<1>2. Len(batch) = m /\ \A j \in 1..m : batch[j] = jobs[from + j]
  BY <1>0
<1>3. Len(all) = p + Len(jobs) /\ \A j \in 1..Len(jobs) : all[p + j] = jobs[j]
  OBVIOUS
<1>4. /\ Len(c \o new) = Len(c) + m
      /\ \A i \in 1..Len(c) : (c \o new)[i] = c[i]
      /\ \A i \in 1..(Len(c) + m) : i > Len(c) => (c \o new)[i] = new[i - Len(c)]
  <2>1. Len(new) = m
    BY <1>2
  <2>2. /\ Len(c \o new) = Len(c) + Len(new)
        /\ \A i \in 1..Len(c) : (c \o new)[i] = c[i]
    BY ConcatCandidates
  <2>3. \A i \in 1..(Len(c) + Len(new)) : i > Len(c) => (c \o new)[i] = new[i - Len(c)]
    BY ConcatCandidates
  <2> HIDE DEF m
  <2> QED BY <2>1, <2>2, <2>3
<1>5. \A i \in 1..Len(c) : c[i].kind = all[i].kind /\ c[i].page \in Pages(all[i].window)
  BY DEF Matches
<1>6. \A j \in 1..m : new[j].kind = batch[j].kind /\ new[j].page \in Pages(batch[j].window)
  BY <1>2 DEF Matches
<1> DEFINE d == c \o new
<1> HIDE DEF p, all, m, d
<1>7. Len(d) = p + to /\ Len(d) <= Len(all)
  <2>1. Len(d) = Len(c) + m
    BY <1>4 DEF d
  <2>2. Len(c) = p + from
    BY DEF p
  <2>3. Len(all) = p + Len(jobs)
    BY <1>3
  <2>4. m = to - from
    BY DEF m
  <2>5. to <= Len(jobs) /\ Len(jobs) \in Nat /\ p \in Nat
    BY <1>0, <1>1
  <2>6. from \in Nat /\ to \in Nat
    BY <1>0
  <2>7. Len(d) = (p + from) + (to - from)
    BY <2>1, <2>2, <2>4, Zenon
  <2>8. (p + from) + (to - from) = p + to /\ p + to <= p + Len(jobs)
    BY <2>5, <2>6
  <2> QED BY <2>3, <2>7, <2>8, Zenon
<1>8. ASSUME NEW i \in 1..Len(d)
      PROVE  d[i].kind = all[i].kind /\ d[i].page \in Pages(all[i].window)
  <2>1. CASE i <= Len(c)
    <3>1. i \in 1..Len(c)
      BY <1>1, <2>1
    <3> QED BY <1>4, <1>5, <3>1 DEF d
  <2>2. CASE i > Len(c)
    <3> DEFINE j == i - Len(c)
    <3>1. j \in 1..m /\ i = p + (from + j) /\ from + j \in 1..Len(jobs)
      BY <1>0, <1>1, <1>7, <2>2 DEF m, p
    <3>2. d[i] = new[j]
      BY <1>4, <1>1, <1>7, <2>2 DEF d, m, p
    <3>3. batch[j] = jobs[from + j] /\ all[i] = jobs[from + j]
      BY <1>2, <1>3, <3>1
    <3> HIDE DEF j
    <3> QED BY <1>6, <3>1, <3>2, <3>3
  <2> QED BY <1>1, <2>1, <2>2
<1>9. Matches(d, all)
  BY <1>7, <1>8 DEF Matches
<1> QED BY <1>7, <1>9 DEF d, all, p

(* A batch keeps the position sound: generate_batch answers for all of its jobs. *)
LEMMA GetTurnSound ==
    ASSUME NEW t, Sound(t), NEW G, \A g \in G : Answer(g), NEW u, GetTurn(t, u, G)
    PROVE  Sound(u)
<1>1. PICK g \in G : g.batch = BatchOf(t) /\ u = Advance(t, g.candidates)
  BY DEF GetTurn
<1> DEFINE jobs == Jobs(t)
           B == Len(Batches(jobs))
           b == t.batch
           new == g.candidates
           c == t.generated
           batch == Batches(jobs)[b]
           from == (b - 1) * BatchSize
           to == IF b = B THEN Len(jobs) ELSE b * BatchSize
<1>2. /\ Position(t) /\ t.pc = "get" /\ InScope(c, AllJobs(t.plans))
      /\ jobs \in Seq(Job) /\ jobs # <<>> /\ Len(jobs) <= Len(Plan)
      /\ c \in Seq(Candidate) /\ b \in 1..B
  <2>1. Position(t) /\ t.pc = "get" /\ InScope(c, AllJobs(t.plans))
    BY DEF Sound, GetTurn
  <2>2. t.plans \in Seq(Seq(Job)) /\ Len(t.plans) \in 1..Len(t.plans)
    BY <2>1 DEF Position
  <2>3. jobs \in Seq(Job)
    BY <2>2 DEF Jobs
  <2>4. B \in Nat
    <3> HIDE DEF jobs
    <3> QED BY <2>3, BatchesOf
  <2>5. b \in Nat \ {0} /\ b <= B
    BY <2>1 DEF Position
  <2>6. b \in 1..B
    <3> HIDE DEF b, B
    <3> QED BY <2>4, <2>5
  <2> QED BY <2>1, <2>3, <2>6 DEF Position
<1>3. PICK prior \in Seq(Job) : AllJobs(t.plans) = prior \o jobs /\ Len(c) = Len(prior) + Done(t)
  BY DEF Sound
<1>4. Done(t) = from
  BY <1>2 DEF Done
<1>5. u = [pc |-> u.pc, plans |-> u.plans, batch |-> u.batch,
           generated |-> u.generated, drafts |-> u.drafts]
  BY <1>1, <1>2, AdvanceFields
<1>6. /\ u.pc = IF b = B THEN "validate" ELSE "get"
      /\ u.plans = t.plans /\ u.batch = b + 1 /\ u.generated = c \o new /\ u.drafts = <<>>
  BY <1>1, <1>2 DEF Advance, Position
<1>7. new \in Seq(Candidate) /\ Len(new) = Len(batch) /\ Matches(new, batch)
  BY <1>1 DEF Answer, JobsOf, BatchOf, Jobs
<1>8. Jobs(u) = jobs
  BY <1>6 DEF Jobs
<1> HIDE DEF jobs, new, c, B, batch, b
<1>9. /\ B \in Nat
      /\ from \in Nat /\ to \in Nat /\ from < to /\ to <= Len(jobs)
      /\ batch = SubSeq(jobs, from + 1, to)
  BY <1>2, BatchesOf DEF B, batch
<1> HIDE DEF from, to
<1>10. Matches(c, prior \o jobs)
  BY <1>2, <1>3 DEF InScope
<1>11. Matches(c \o new, prior \o jobs) /\ Len(c \o new) = Len(prior) + to
  <2>1. Len(c) = Len(prior) + from
    BY <1>3, <1>4
  <2>2. Slice(batch, jobs, from, to)
    BY <1>9 DEF Slice
  <2>4. jobs \in Seq(Job) /\ c \in Seq(Candidate)
    BY <1>2
  <2> QED BY <1>7, <1>10, <2>1, <2>2, <2>4, BatchMatches
<1>12. InScope(u.generated, AllJobs(u.plans))
  <2>1. prior \o jobs \in Seq(Job)
    BY <1>2
  <2>2. InScope(c \o new, prior \o jobs)
    BY <1>2, <1>3, <1>7, <1>11, <2>1, ScopeMore
  <2> QED BY <1>3, <1>6, <2>2
<1>13. Done(u) = to
  <2>1. CASE b = B
    BY <1>6, <1>8, <2>1 DEF Done, to
  <2>2. CASE b # B
    <3>1. u.batch - 1 = b
      BY <1>2, <1>6, <1>9
    <3> QED BY <1>6, <2>2, <3>1 DEF Done, to
  <2> QED BY <2>1, <2>2
<1>14. u.generated \in Seq(Candidate)
  BY <1>2, <1>6, <1>7
<1>15. Position(u)
  <2>1. u.batch \in Nat \ {0} /\ (u.pc = "get" => u.batch <= B) /\ (u.pc = "validate" => u.batch = B + 1)
        /\ u.pc \in {"get", "validate"}
    BY <1>2, <1>6, <1>9
  <2> QED BY <1>2, <1>5, <1>6, <1>8, <1>14, <2>1 DEF Position, B
<1> QED BY <1>3, <1>6, <1>8, <1>11, <1>12, <1>13, <1>15 DEF Sound

(* A round of replacements keeps the position sound: it asks for what is     *)
(* missing only, within the caps.                                            *)
LEMMA RoundTurnSound ==
    ASSUME NEW t, Sound(t), NEW scope \in BOOLEAN, NEW u, RoundTurn(t, u, scope)
    PROVE  Sound(u)
<1> DEFINE new == NewPlan(t, scope)
           c == t.generated
           plans == t.plans
<1>1. /\ Position(t) /\ t.pc = "validate" /\ InScope(c, AllJobs(plans)) /\ new # <<>>
      /\ u = [t EXCEPT !.pc = "get", !.plans = Append(@, new), !.batch = 1]
      /\ ~LastRound(t)
  BY DEF Sound, RoundTurn, Refused, Ended
<1>2. /\ plans \in Seq(Seq(Job)) /\ Len(plans) >= 1 /\ Len(plans) <= MaxRounds + 1
      /\ c \in Seq(Candidate) /\ Plan # <<>>
  BY <1>1 DEF Position
<1>3. AllJobs(plans) \in Seq(Job)
  BY <1>2, AllJobsType
<1>4. Len(c) = Len(AllJobs(plans))
  <2>1. PICK prior \in Seq(Job) : AllJobs(plans) = prior \o Jobs(t) /\ Len(c) = Len(prior) + Done(t)
    BY DEF Sound
  <2>2. Done(t) = Len(Jobs(t))
    BY <1>1 DEF Done
  <2>3. Jobs(t) \in Seq(Job)
    <3>1. Len(plans) \in 1..Len(plans)
      BY <1>2
    <3> QED BY <1>2, <3>1 DEF Jobs
  <2> QED BY <2>1, <2>2, <2>3
<1>5. new = PlanReplacements(plans, Accepted(c, Validate(c)), Targets(scope))
  BY DEF NewPlan
<1> HIDE DEF new, c, plans
<1>6. new \in Seq(Job) /\ Len(new) <= Len(Plan) /\ InScope(c, AllJobs(plans) \o new)
  BY <1>1, <1>2, <1>4, <1>5, Replan
<1>7. u = [pc |-> u.pc, plans |-> u.plans, batch |-> u.batch,
           generated |-> u.generated, drafts |-> u.drafts]
  BY <1>1 DEF Position
<1>8. u.pc = "get" /\ u.plans = Append(plans, new) /\ u.batch = 1 /\ u.generated = c /\ u.drafts = <<>>
  BY <1>1 DEF c, plans, Position
<1>9. Len(u.plans) = Len(plans) + 1 /\ Jobs(u) = new /\ u.plans \in Seq(Seq(Job))
  <2>1. /\ Append(plans, new) \in Seq(Seq(Job)) /\ Len(Append(plans, new)) = Len(plans) + 1
        /\ Append(plans, new)[Len(plans) + 1] = new
    BY <1>2, <1>6
  <2> QED BY <1>8, <2>1 DEF Jobs
<1>10. AllJobs(u.plans) = AllJobs(plans) \o new
  BY <1>2, <1>6, <1>8, AllJobsAppend
<1>11. Len(u.plans) <= MaxRounds + 1
  <2>1. Len(plans) # MaxRounds + 1
    BY <1>1 DEF LastRound, plans
  <2>2. Len(plans) \in Nat /\ MaxRounds \in Nat
    BY <1>2, CampaignAssumption
  <2> QED BY <1>2, <1>9, <2>1, <2>2
<1>12. 1 <= Len(Batches(new))
  BY <1>1, <1>6, BatchesOf
<1>13. Position(u)
  <2>1. Len(u.plans) >= 1
    BY <1>2, <1>9
  <2> QED BY <1>1, <1>2, <1>6, <1>7, <1>8, <1>9, <1>11, <1>12, <2>1 DEF Position
<1>14. Done(u) = 0
  <2>1. (1 - 1) * BatchSize = 0
    BY PlanAssumption
  <2> QED BY <1>8, <2>1 DEF Done
<1>15. Len(c) = Len(AllJobs(plans)) + 0
  BY <1>3, <1>4
<1> QED BY <1>3, <1>6, <1>8, <1>9, <1>10, <1>13, <1>14, <1>15 DEF Sound

First == [pc |-> "get", plans |-> <<Plan>>, batch |-> 1, generated |-> <<>>, drafts |-> <<>>]

Before(t, u) ==
    \/ Len(t.plans) < Len(u.plans)
    \/ Len(t.plans) = Len(u.plans) /\ t.batch < u.batch
SamePlace(t, u) == Len(t.plans) = Len(u.plans) /\ t.batch = u.batch

Extends(many, few) == Len(few) <= Len(many) /\ \A i \in 1..Len(few) : few[i] = many[i]

Single(G) == \A g, h \in G : g.batch = h.batch => g = h

(* The positions that the answers lead through, the first one on: one for  *)
(* each place, each but the last with the next among them, and each with   *)
(* the plans of those before.                                              *)
Trail(Pos, G, scope) ==
    /\ Plan # <<>> => First \in Pos
    /\ \A t \in Pos : Sound(t)
    /\ \A t, u \in Pos : SamePlace(t, u) => t = u
    /\ \A t, u \in Pos : Before(t, u) => \E v \in Pos : Turn(t, v, G, scope)
    /\ \A t, u \in Pos : Len(t.plans) <= Len(u.plans) => Extends(u.plans, t.plans)

(* Each turn keeps the position sound.                                       *)
LEMMA TurnSound ==
    ASSUME NEW t, Sound(t), NEW G, \A g \in G : Answer(g), NEW scope \in BOOLEAN,
           NEW u, Turn(t, u, G, scope)
    PROVE  Sound(u)
BY GetTurnSound, RoundTurnSound DEF Turn

(* Where a process goes from a position is determined by the answers.        *)
LEMMA TurnUnique ==
    ASSUME NEW t, NEW G, Single(G), NEW scope, NEW u, Turn(t, u, G, scope),
           NEW v, Turn(t, v, G, scope)
    PROVE  u = v
<1>1. CASE t.pc = "get"
  <2>1. PICK g \in G : g.batch = BatchOf(t) /\ u = Advance(t, g.candidates)
    BY <1>1 DEF Turn, GetTurn, RoundTurn
  <2>2. PICK h \in G : h.batch = BatchOf(t) /\ v = Advance(t, h.candidates)
    BY <1>1 DEF Turn, GetTurn, RoundTurn
  <2>3. g = h
    BY <2>1, <2>2 DEF Single
  <2> QED BY <2>1, <2>2, <2>3
<1>2. CASE t.pc # "get"
  BY <1>2 DEF Turn, GetTurn, RoundTurn
<1> QED BY <1>1, <1>2

(* More answers take no turn away.                                           *)
LEMMA TurnGrows ==
    ASSUME NEW t, NEW G, NEW H, G \subseteq H, NEW scope, NEW u, Turn(t, u, G, scope)
    PROVE  Turn(t, u, H, scope)
BY DEF Turn, GetTurn

LEMMA PlaceType ==
    ASSUME NEW t, Sound(t)
    PROVE  Len(t.plans) \in Nat /\ t.batch \in Nat /\ t.plans \in Seq(Seq(Job))
BY DEF Sound, Position

(* A turn goes on to a later place, with the plans before it.                *)
LEMMA TurnBefore ==
    ASSUME NEW t, Sound(t), NEW G, NEW scope, NEW u, Turn(t, u, G, scope)
    PROVE  Before(t, u) /\ Extends(u.plans, t.plans)
<1>1. Position(t) /\ Len(t.plans) \in Nat /\ t.batch \in Nat
  BY PlaceType DEF Sound
<1>2. CASE GetTurn(t, u, G)
  <2>1. PICK g \in G : u = Advance(t, g.candidates)
    BY <1>2 DEF GetTurn
  <2>2. u.plans = t.plans /\ u.batch = t.batch + 1
    BY <1>1, <2>1, AdvanceFields
  <2> QED BY <1>1, <2>2 DEF Before, Extends
<1>3. CASE RoundTurn(t, u, scope)
  <2> DEFINE new == NewPlan(t, scope)
  <2>1. u = [t EXCEPT !.pc = "get", !.plans = Append(@, new), !.batch = 1]
    BY <1>3 DEF RoundTurn
  <2> HIDE DEF new
  <2>2. u.plans = Append(t.plans, new)
    BY <1>1, <2>1 DEF Position
  <2>3. t.plans \in Seq(Seq(Job))
    BY <1>1 DEF Position
  <2>4. Len(u.plans) = Len(t.plans) + 1 /\ \A i \in 1..Len(t.plans) : u.plans[i] = t.plans[i]
    BY <2>2, <2>3
  <2> QED BY <1>1, <2>4 DEF Before, Extends
<1> QED BY <1>2, <1>3 DEF Turn

(* Places are in order.                                                      *)
LEMMA BeforeOrder ==
    ASSUME NEW s, NEW t, NEW u, Sound(s), Sound(t), Sound(u)
    PROVE  /\ Before(s, t) \/ SamePlace(s, t) \/ Before(t, s)
           /\ Before(s, t) /\ Before(t, u) => Before(s, u)
           /\ Before(s, t) => ~SamePlace(s, t) /\ ~SamePlace(t, s) /\ ~Before(t, s)
           /\ ~Before(s, s)
           /\ Before(s, t) => Len(s.plans) <= Len(t.plans)
BY PlaceType DEF Before, SamePlace

LEMMA ExtendsChain ==
    ASSUME NEW a \in Seq(Seq(Job)), NEW b \in Seq(Seq(Job)), NEW c \in Seq(Seq(Job)),
           Extends(b, a), Extends(c, b)
    PROVE  Extends(c, a)
BY DEF Extends

(* The last position turns into one more.                                  *)
LEMMA TrailExtend ==
    ASSUME NEW Pos, NEW G, NEW scope \in BOOLEAN, Trail(Pos, G, scope), Single(G),
           \A g \in G : Answer(g), NEW t \in Pos, NEW u, Turn(t, u, G, scope)
    PROVE  Trail(Pos \cup {u}, G, scope)
<1> DEFINE Q == Pos \cup {u}
<1>1. \A s \in Pos : Sound(s)
  BY DEF Trail
<1>2. Sound(u) /\ Sound(t)
  BY <1>1, TurnSound
<1>3. CASE u \in Pos
  <2>1. Pos \cup {u} = Pos
    BY <1>3
  <2> QED BY <2>1
<1>4. CASE u \notin Pos
  <2>1. \A s \in Pos : ~Before(t, s)
    <3>1. SUFFICES ASSUME NEW s \in Pos, Before(t, s) PROVE FALSE
      OBVIOUS
    <3>2. PICK v \in Pos : Turn(t, v, G, scope)
      BY <3>1 DEF Trail
    <3>3. v = u
      BY <3>2, TurnUnique
    <3> QED BY <1>4, <3>3
  <2>2. \A s \in Pos : s = t \/ Before(s, t)
    <3> TAKE s \in Pos
    <3>1. Before(s, t) \/ SamePlace(s, t) \/ Before(t, s)
      BY <1>1, BeforeOrder
    <3>2. SamePlace(s, t) => s = t
      BY DEF Trail
    <3> QED BY <2>1, <3>1, <3>2
  <2>3. Before(t, u) /\ Extends(u.plans, t.plans)
    BY <1>2, TurnBefore
  <2>4. \A s \in Pos : Before(s, u)
    <3> TAKE s \in Pos
    <3>1. Before(s, t) /\ Before(t, u) => Before(s, u)
      BY <1>1, <1>2, BeforeOrder
    <3> QED BY <2>2, <2>3, <3>1
  <2>5. \A s \in Pos : ~SamePlace(s, u) /\ ~SamePlace(u, s) /\ ~Before(u, s) /\ Len(s.plans) <= Len(u.plans)
    <3> TAKE s \in Pos
    <3>1. Sound(s) /\ Before(s, u)
      BY <1>1, <2>4
    <3> QED BY <1>2, <3>1, BeforeOrder
  <2>6. ~Before(u, u)
    BY <1>2, BeforeOrder
  <2>7. \A x, y \in Q : SamePlace(x, y) => x = y
    <3>1. \A x, y \in Pos : SamePlace(x, y) => x = y
      BY DEF Trail
    <3> QED BY <2>5, <3>1
  <2>8. \A x, y \in Q : Before(x, y) => \E v \in Q : Turn(x, v, G, scope)
    <3> SUFFICES ASSUME NEW x \in Q, NEW y \in Q, Before(x, y)
                 PROVE  \E v \in Q : Turn(x, v, G, scope)
      OBVIOUS
    <3>1. x \in Pos
      BY <2>5, <2>6
    <3>2. CASE x = t
      BY <3>2
    <3>3. CASE x # t
      <4>1. Before(x, t)
        BY <2>2, <3>1, <3>3
      <4>2. \E v \in Pos : Turn(x, v, G, scope)
        BY <3>1, <4>1 DEF Trail
      <4> QED BY <4>2
    <3> QED BY <3>2, <3>3
  <2>9. \A s \in Pos : Extends(u.plans, s.plans)
    <3> TAKE s \in Pos
    <3>1. s.plans \in Seq(Seq(Job)) /\ t.plans \in Seq(Seq(Job)) /\ u.plans \in Seq(Seq(Job))
      BY <1>1, <1>2, PlaceType
    <3>2. Len(s.plans) <= Len(t.plans)
      <4>1. CASE s = t
        BY <3>1, <4>1
      <4>2. CASE Before(s, t)
        BY <1>1, <4>2, BeforeOrder
      <4> QED BY <2>2, <4>1, <4>2
    <3>3. Extends(t.plans, s.plans)
      BY <3>2 DEF Trail
    <3> QED BY <2>3, <3>1, <3>3, ExtendsChain
  <2>10. \A s \in Pos : Len(u.plans) <= Len(s.plans) => Extends(s.plans, u.plans)
    <3> TAKE s \in Pos
    <3>1. Len(s.plans) \in Nat /\ Len(u.plans) \in Nat
      BY <1>1, <1>2, PlaceType
    <3> QED BY <2>9, <3>1 DEF Extends
  <2>11. Extends(u.plans, u.plans)
    <3>1. Len(u.plans) \in Nat
      BY <1>2, PlaceType
    <3> QED BY <3>1 DEF Extends
  <2>12. \A x, y \in Q : Len(x.plans) <= Len(y.plans) => Extends(y.plans, x.plans)
    <3>1. \A x, y \in Pos : Len(x.plans) <= Len(y.plans) => Extends(y.plans, x.plans)
      BY DEF Trail
    <3> QED BY <2>9, <2>10, <2>11, <3>1
  <2>13. (Plan # <<>> => First \in Q) /\ \A s \in Q : Sound(s)
    BY <1>1, <1>2 DEF Trail
  <2> QED BY <2>7, <2>8, <2>12, <2>13 DEF Trail
<1> QED BY <1>3, <1>4

(* More answers leave the trail as it is.                                    *)
LEMMA TrailGrows ==
    ASSUME NEW Pos, NEW G, NEW H, G \subseteq H, NEW scope, Trail(Pos, G, scope)
    PROVE  Trail(Pos, H, scope)
<1>1. \A t, v : Turn(t, v, G, scope) => Turn(t, v, H, scope)
  BY TurnGrows
<1> QED BY <1>1 DEF Trail

(* There is one end at most.                                               *)
LEMMA OneEnd ==
    ASSUME NEW Pos, NEW G, NEW scope, Trail(Pos, G, scope), NEW t \in Pos, NEW u \in Pos,
           t.pc = "validate", Ended(t, scope), u.pc = "validate", Ended(u, scope)
    PROVE  t = u
<1>1. \A v : ~Turn(t, v, G, scope) /\ ~Turn(u, v, G, scope)
  BY DEF Turn, GetTurn, RoundTurn
<1>2. ~Before(t, u) /\ ~Before(u, t)
  BY <1>1 DEF Trail
<1>3. Before(t, u) \/ SamePlace(t, u) \/ Before(u, t)
  BY BeforeOrder DEF Trail
<1> QED BY <1>2, <1>3 DEF Trail

(* At first the trail is the start of a campaign, if it can start at all.    *)
LEMMA TrailFirst ==
    ASSUME NEW G, NEW scope
    PROVE  Trail(IF Plan = <<>> THEN {} ELSE {First}, G, scope)
<1>1. CASE Plan = <<>>
  BY <1>1 DEF Trail
<1>2. CASE Plan # <<>>
  <2>1. Plan \in Seq(Job) /\ InScope(<<>>, Plan)
    BY <1>2, ScopeFirst
  <2>2. /\ <<Plan>> \in Seq(Seq(Job)) /\ Len(<<Plan>>) = 1 /\ <<Plan>>[1] = Plan
        /\ <<>> \in Seq(Candidate) /\ <<>> \in Seq(Seq(Job)) /\ Append(<<>>, Plan) = <<Plan>>
    BY <2>1
  <2>3. AllJobs(<<Plan>>) = Plan
    <3>1. AllJobs(<<>>) \o Plan = Plan
      BY <2>1, AllJobsNone
    <3> QED BY <2>1, <2>2, <3>1, AllJobsAppend
  <2>4. Jobs(First) = Plan /\ Done(First) = 0
    <3>1. (1 - 1) * BatchSize = 0
      BY PlanAssumption
    <3> QED BY <2>2, <3>1 DEF First, Jobs, Done
  <2>5. 1 <= Len(Batches(Plan)) /\ Len(Plan) \in Nat
    BY <1>2, <2>1, BatchesOf
  <2>6. Position(First)
    <3>1. 1 <= MaxRounds + 1
      BY CampaignAssumption
    <3> QED BY <1>2, <2>1, <2>2, <2>4, <2>5, <3>1 DEF Position, First
  <2>7. <<>> \o Plan = Plan /\ <<>> \in Seq(Job) /\ Len(<<>>) = 0 + 0
    BY <2>1
  <2>8. Sound(First)
    BY <2>1, <2>3, <2>4, <2>6, <2>7 DEF Sound, First
  <2>9. ~Before(First, First) /\ Extends(First.plans, First.plans)
    <3>1. Len(First.plans) \in Nat
      BY <2>8, PlaceType
    <3> QED BY <2>8, <3>1, BeforeOrder DEF Extends
  <2> HIDE DEF First
  <2> QED BY <1>2, <2>8, <2>9 DEF Trail
<1> QED BY <1>1, <1>2

(***************************************************************************)
(* Validation does not see the origins.                                    *)
(***************************************************************************)
LEMMA JudgeSame ==
    ASSUME NEW c \in Seq(Candidate), NEW d \in Seq(Candidate), SameContent(c, d),
           NEW rules \in Seq(Rules), Len(rules) < Len(c), NEW i \in 1..Len(c)
    PROVE  Judge(Of(c), rules, c[i]) = Judge(Of(d), rules, d[i])
<1> DEFINE accepted == {j \in DOMAIN rules : rules[j] = {}}
<1>1. \A j \in 1..Len(c) : /\ c[j].kind = d[j].kind /\ c[j].question = d[j].question
                           /\ c[j].page = d[j].page /\ c[j].sound = d[j].sound
  BY DEF SameContent
<1>2. Duplicates(c) = Duplicates(d)
  BY DuplicatesSame DEF SameContent
<1>3. accepted \subseteq 1..Len(c)
  OBVIOUS
<1> HIDE DEF accepted
<1>4. /\ {j \in accepted : c[j].kind = c[i].kind} = {j \in accepted : d[j].kind = d[i].kind}
      /\ {j \in accepted : c[j].page[1] = c[i].page[1]} = {j \in accepted : d[j].page[1] = d[i].page[1]}
      /\ {j \in accepted : c[j].page = c[i].page} = {j \in accepted : d[j].page = d[i].page}
  BY <1>1, <1>3
<1>5. c[i].kind = d[i].kind /\ c[i].sound = d[i].sound
  BY <1>1
<1> QED BY <1>2, <1>4, <1>5 DEF Judge, TextRules, Of, accepted

(* Two processes with the same candidates but for their origins validate alike. *)
LEMMA ValidateSame ==
    ASSUME NEW c \in Seq(Candidate), NEW d \in Seq(Candidate), SameContent(c, d)
    PROVE  /\ Validate(c) = Validate(d)
           /\ Accepted(c, Validate(c)) = Accepted(d, Validate(d))
<1> DEFINE n == Len(c)
<1>1. n \in Nat /\ DOMAIN c = 1..n /\ DOMAIN d = 1..n
  BY DEF SameContent
<1>2. Validate(c) = JudgeFold!Fold(Of(c), <<>>, c) /\ Validate(d) = JudgeFold!Fold(Of(d), <<>>, d)
  BY ValidateFold DEF Of
<1>3. PICK v : JudgeFold!Steps(v, Of(c), <<>>, n, c) /\ v[n] = JudgeFold!Fold(Of(c), <<>>, c)
  <2> HIDE DEF n
  <2> QED BY <1>1, JudgeFold!FoldTrace
<1>4. v[0] = <<>> /\ \A i \in 1..n : v[i] = Judge(Of(c), v[i - 1], c[i])
  BY <1>3 DEF JudgeFold!Steps
<1> DEFINE T == {i \in 0..n : v[i] \in Seq(Rules) /\ Len(v[i]) = i}
<1>5. 0 \in T
  <2>1. <<>> \in Seq(Rules) /\ Len(<<>>) = 0 /\ 0 \in 0..n
    BY <1>1
  <2> QED BY <1>4, <2>1
<1>6. ASSUME NEW i \in 1..n, i - 1 \in T PROVE i \in T
  <2> DEFINE rules == v[i - 1]
  <2>1. rules \in Seq(Rules) /\ Len(rules) = i - 1
    BY <1>6
  <2>2. v[i] = Judge(Of(c), rules, c[i]) /\ i \in 0..n
    BY <1>1, <1>4
  <2> HIDE DEF rules
  <2>3. v[i] \in Seq(Rules) /\ Len(v[i]) = Len(rules) + 1
    BY <2>1, <2>2, JudgeNext
  <2> QED BY <1>1, <2>1, <2>2, <2>3
<1>7. \A i \in 0..n : i \in T
  <2> HIDE DEF T, n
  <2> QED BY <1>1, <1>5, <1>6, JudgeFold!IntervalInduction
<1>8. ASSUME NEW i \in 1..n PROVE v[i] = Judge(Of(d), v[i - 1], d[i])
  <2>1. i - 1 \in 0..n
    BY <1>1
  <2>2. v[i - 1] \in Seq(Rules) /\ Len(v[i - 1]) < n
    BY <1>1, <1>7, <2>1
  <2>3. Judge(Of(c), v[i - 1], c[i]) = Judge(Of(d), v[i - 1], d[i])
    BY <2>2, JudgeSame
  <2> QED BY <1>4, <2>3
<1>9. JudgeFold!Steps(v, Of(d), <<>>, n, d)
  BY <1>4, <1>8 DEF JudgeFold!Steps
<1>10. v[n] = JudgeFold!Fold(Of(d), <<>>, d)
  <2> HIDE DEF n
  <2> QED BY <1>1, <1>9, JudgeFold!FoldUnique
<1>11. Validate(c) = Validate(d)
  BY <1>2, <1>3, <1>10
<1>12. Accepted(c, Validate(c)) = Accepted(d, Validate(c))
  <2> DEFINE V == Validate(c)
  <2>1. DOMAIN V = 1..Len(c)
    BY Validated
  <2>2. \A i \in 1..Len(c) : c[i].kind = d[i].kind
    BY DEF SameContent
  <2> HIDE DEF V
  <2>3. \A t : {i \in DOMAIN V : V[i] = {} /\ c[i].kind = t} = {i \in DOMAIN V : V[i] = {} /\ d[i].kind = t}
    BY <2>1, <2>2
  <2> QED BY <2>3 DEF Accepted, V
<1> QED BY <1>11, <1>12

-----------------------------------------------------------------------------
(* The content of candidates.                                              *)

LEMMA ContentFacts ==
    ASSUME NEW c \in Seq(Candidate)
    PROVE  /\ Content(c) \in Seq(Candidate) /\ Len(Content(c)) = Len(c) /\ SameContent(c, Content(c))
           /\ \A i \in 1..Len(c) : Content(c)[i] = [c[i] EXCEPT !.origin = None]
<1>1. Len(c) \in Nat /\ DOMAIN c = 1..Len(c)
  OBVIOUS
<1>2. Content(c) = [i \in 1..Len(c) |-> [c[i] EXCEPT !.origin = None]]
  BY <1>1 DEF Content
<1>3. ASSUME NEW i \in 1..Len(c)
      PROVE  LET x == [c[i] EXCEPT !.origin = None] IN
             /\ x \in Candidate /\ x.kind = c[i].kind /\ x.question = c[i].question
             /\ x.page = c[i].page /\ x.sound = c[i].sound
  <2>1. c[i] \in Candidate
    OBVIOUS
  <2>2. None \in Processes \cup {Replayed, None}
    OBVIOUS
  <2> QED BY <2>1, <2>2 DEF Candidate
<1> DEFINE d == Content(c)
<1>4. \A i \in 1..Len(c) : d[i] = [c[i] EXCEPT !.origin = None]
  BY <1>2
<1>5. d \in [1..Len(c) -> Candidate]
  BY <1>2, <1>3
<1> HIDE DEF d
<1>6. d \in Seq(Candidate) /\ Len(d) = Len(c)
  BY <1>1, <1>5
<1>7. SameContent(c, d)
  BY <1>3, <1>4, <1>6 DEF SameContent
<1> QED BY <1>4, <1>6, <1>7 DEF d

(* Candidates are the same when each of them is.                             *)
LEMMA SameCandidates ==
    ASSUME NEW c \in Seq(Candidate), NEW d \in Seq(Candidate), Len(c) = Len(d),
           \A i \in 1..Len(c) : c[i] = d[i]
    PROVE  c = d
<1>1. c = [i \in 1..Len(c) |-> c[i]] /\ d = [i \in 1..Len(c) |-> d[i]]
  OBVIOUS
<1> DEFINE D == 1..Len(c)
<1>2. \A i \in D : c[i] = d[i]
  OBVIOUS
<1>3. c = [i \in D |-> c[i]] /\ d = [i \in D |-> d[i]]
  BY <1>1
<1> HIDE DEF D
<1>4. [i \in D |-> c[i]] = [i \in D |-> d[i]]
  BY <1>2
<1> QED BY <1>3, <1>4, Zenon

(* Without origins, candidates are put together as with them.                *)
LEMMA ContentConcat ==
    ASSUME NEW c \in Seq(Candidate), NEW d \in Seq(Candidate)
    PROVE  Content(c \o d) = Content(c) \o Content(d)
<1> DEFINE e == c \o d
           n == Len(c)
           m == Len(d)
           f == Content(c) \o Content(d)
<1>1. n \in Nat /\ m \in Nat
  OBVIOUS
<1>2. /\ e \in Seq(Candidate) /\ Len(e) = n + m
      /\ \A i \in 1..n : e[i] = c[i]
      /\ \A i \in 1..(n + m) : i > n => e[i] = d[i - n]
  BY ConcatCandidates
<1>3. /\ Content(c) \in Seq(Candidate) /\ Len(Content(c)) = n
      /\ \A i \in 1..n : Content(c)[i] = [c[i] EXCEPT !.origin = None]
  BY ContentFacts
<1>4. /\ Content(d) \in Seq(Candidate) /\ Len(Content(d)) = m
      /\ \A i \in 1..m : Content(d)[i] = [d[i] EXCEPT !.origin = None]
  BY ContentFacts
<1>5. /\ f \in Seq(Candidate) /\ Len(f) = n + m
      /\ \A i \in 1..n : f[i] = Content(c)[i]
      /\ \A i \in 1..(n + m) : i > n => f[i] = Content(d)[i - n]
  <2> HIDE DEF n, m
  <2>1. /\ f \in Seq(Candidate) /\ Len(f) = Len(Content(c)) + Len(Content(d))
        /\ \A i \in 1..Len(Content(c)) : f[i] = Content(c)[i]
        /\ \A i \in 1..(Len(Content(c)) + Len(Content(d))) :
              i > Len(Content(c)) => f[i] = Content(d)[i - Len(Content(c))]
    BY <1>3, <1>4, ConcatCandidates
  <2> QED BY <1>3, <1>4, <2>1
<1>6. /\ Content(e) \in Seq(Candidate) /\ Len(Content(e)) = n + m
      /\ \A i \in 1..(n + m) : Content(e)[i] = [e[i] EXCEPT !.origin = None]
  <2> HIDE DEF e
  <2> QED BY <1>2, ContentFacts
<1> HIDE DEF e, f, n, m
<1>7. ASSUME NEW i \in 1..(n + m) PROVE Content(e)[i] = f[i]
  <2>1. CASE i <= n
    <3>1. i \in 1..n
      BY <1>1, <2>1
    <3>2. e[i] = c[i] /\ f[i] = [c[i] EXCEPT !.origin = None]
      BY <1>2, <1>3, <1>5, <3>1
    <3>3. Content(e)[i] = [e[i] EXCEPT !.origin = None]
      BY <1>6
    <3> QED BY <3>2, <3>3, Zenon
  <2>2. CASE i > n
    <3>1. i - n \in 1..m
      BY <1>1, <2>2
    <3>2. e[i] = d[i - n] /\ f[i] = [d[i - n] EXCEPT !.origin = None]
      BY <1>2, <1>4, <1>5, <2>2, <3>1
    <3>3. Content(e)[i] = [e[i] EXCEPT !.origin = None]
      BY <1>6
    <3> QED BY <3>2, <3>3, Zenon
  <2> QED BY <1>1, <2>1, <2>2
<1>8. Content(e) = f
  <2> DEFINE x == Content(e)
  <2>1. x \in Seq(Candidate) /\ Len(x) = n + m /\ \A i \in 1..(n + m) : x[i] = f[i]
    BY <1>6, <1>7
  <2> HIDE DEF x
  <2>2. x = f
    BY <1>5, <2>1, SameCandidates
  <2> QED BY <2>2 DEF x
<1> QED BY <1>8 DEF e, f

(* What is made of an answer.                                              *)
LEMMA AuthoritativeFacts ==
    ASSUME NEW jobs \in Seq(Job), NEW drafts \in Answers(jobs), drafts # <<>>,
           NEW origin \in Processes \cup {Replayed, None}
    PROVE  LET c == Authoritative(jobs, drafts, origin) IN
           /\ c \in Seq(Candidate) /\ Len(c) = Len(jobs) /\ Matches(c, jobs)
           /\ Content(c) = Authoritative(jobs, drafts, None)
<1> DEFINE c == Authoritative(jobs, drafts, origin)
           n == Len(jobs)
           One(i, o) == [kind |-> jobs[i].kind, question |-> drafts[i].question,
                        page |-> drafts[i].page, sound |-> drafts[i].sound, origin |-> o]
<1>1. n \in Nat /\ DOMAIN jobs = 1..n
  OBVIOUS
<1>2. drafts \in [1..n -> Drafts] /\ \A i \in 1..n : drafts[i].page \in Pages(jobs[i].window)
  BY <1>1 DEF Answers, InWindow
<1>3. \A i \in 1..n : jobs[i] \in Job
  OBVIOUS
<1>4. c = [i \in 1..n |-> One(i, origin)] /\ Authoritative(jobs, drafts, None) = [i \in 1..n |-> One(i, None)]
  BY <1>1 DEF Authoritative
<1>5. ASSUME NEW i \in 1..n PROVE One(i, origin) \in Candidate
  <2>1. drafts[i] \in Drafts /\ jobs[i].kind \in Types
    BY <1>2, <1>3 DEF Job
  <2>2. One(i, origin).kind \in Types
    BY <2>1
  <2>3. /\ drafts[i].question \in {d.question : d \in Drafts}
        /\ drafts[i].page \in {d.page : d \in Drafts}
        /\ drafts[i].sound \in {d.sound : d \in Drafts}
    BY <2>1
  <2> QED BY <2>1, <2>3 DEF Candidate
<1>6. c \in Seq(Candidate) /\ Len(c) = n /\ DOMAIN c = 1..n
  <2>1. c \in [1..n -> Candidate]
    <3>1. c = [i \in 1..n |-> One(i, origin)]
      BY <1>4
    <3> HIDE DEF One, n, c
    <3> QED BY <1>5, <3>1
  <2>2. DOMAIN c = 1..n
    BY <1>4
  <2> HIDE DEF c
  <2> QED BY <1>1, <2>1, <2>2
<1>7. \A i \in 1..n : c[i] = One(i, origin)
  <2>1. c = [i \in 1..n |-> One(i, origin)]
    BY <1>4
  <2> HIDE DEF c, n, One
  <2> QED BY <2>1
<1>8. Matches(c, jobs)
  <2>1. \A i \in 1..n : c[i].kind = jobs[i].kind /\ c[i].page = drafts[i].page
    <3> TAKE i \in 1..n
    <3>1. One(i, origin).kind = jobs[i].kind /\ One(i, origin).page = drafts[i].page
      OBVIOUS
    <3>2. c[i] = One(i, origin)
      BY <1>7
    <3> HIDE DEF c, One
    <3> QED BY <3>1, <3>2
  <2> HIDE DEF c, n
  <2> QED BY <1>1, <1>2, <1>6, <2>1 DEF Matches, n
<1>9. Content(c) = [i \in 1..n |-> One(i, None)]
  <2>1. Content(c) = [i \in 1..n |-> [c[i] EXCEPT !.origin = None]]
    BY <1>6 DEF Content
  <2>2. \A i \in 1..n : [c[i] EXCEPT !.origin = None] = One(i, None)
    <3> TAKE i \in 1..n
    <3>1. [One(i, origin) EXCEPT !.origin = None] = One(i, None)
      OBVIOUS
    <3>2. c[i] = One(i, origin)
      BY <1>7
    <3> HIDE DEF c, One
    <3> QED BY <3>1, <3>2
  <2> HIDE DEF c, n, One
  <2> QED BY <2>1, <2>2
<1> QED BY <1>4, <1>6, <1>8, <1>9

(***************************************************************************)
(* Processes as positions: where a process is among all batches of the     *)
(* campaign, with its candidates as they are (Place) and without their     *)
(* origins (Face).                                                         *)
(***************************************************************************)
Asking == {"get", "check", "replace"}
Ending == {"validate", "candidates", "report"}

Busy(l) ==
    /\ l = [pc |-> l.pc, plans |-> l.plans, batch |-> l.batch,
            generated |-> l.generated, drafts |-> l.drafts]
    /\ l.pc \in Asking \cup Ending
    /\ l.generated \in Seq(Candidate) /\ l.drafts \in Seq(Candidate)

Side(l) == IF l.pc \in Asking THEN "get" ELSE "validate"
Place(l) == [pc |-> Side(l), plans |-> l.plans, batch |-> l.batch,
             generated |-> l.generated, drafts |-> <<>>]
Face(l) == [pc |-> Side(l), plans |-> l.plans, batch |-> l.batch,
            generated |-> Content(l.generated), drafts |-> <<>>]

(* What a process asks for, plans and decides does not depend on origins.    *)
LEMMA FaceFacts ==
    ASSUME NEW l, Busy(l), NEW scope
    PROVE  /\ BatchOf(Face(l)) = BatchOf(l) /\ BatchOf(Place(l)) = BatchOf(l)
           /\ Jobs(Face(l)) = Jobs(l) /\ Jobs(Place(l)) = Jobs(l)
           /\ Ended(Face(l), scope) = Ended(l, scope) /\ Ended(Place(l), scope) = Ended(l, scope)
           /\ NewPlan(Face(l), scope) = NewPlan(l, scope)
           /\ NewPlan(Place(l), scope) = NewPlan(l, scope)
<1> DEFINE c == l.generated
           d == Content(c)
           f == Face(l)
           g == Place(l)
<1>1. c \in Seq(Candidate) /\ d \in Seq(Candidate) /\ SameContent(c, d)
  <2>1. c \in Seq(Candidate)
    BY DEF Busy
  <2> HIDE DEF c
  <2> QED BY <2>1, ContentFacts
<1>2. /\ f.plans = l.plans /\ f.batch = l.batch /\ f.generated = d
      /\ g.plans = l.plans /\ g.batch = l.batch /\ g.generated = c
  BY DEF Face, Place
<1> HIDE DEF d, c, f, g
<1>3. Accepted(c, Validate(c)) = Accepted(d, Validate(d))
  BY <1>1, ValidateSame
<1>4. c = l.generated
  BY DEF c
<1>5. BatchOf(f) = BatchOf(l) /\ BatchOf(g) = BatchOf(l) /\ Jobs(f) = Jobs(l) /\ Jobs(g) = Jobs(l)
  BY <1>2 DEF BatchOf, Jobs
<1>6. Level(f) = Level(l) /\ Level(g) = Level(l) /\ LastRound(f) = LastRound(l) /\ LastRound(g) = LastRound(l)
  BY <1>2, <1>3, <1>4 DEF Level, LastRound
<1>7. NewPlan(f, scope) = NewPlan(l, scope) /\ NewPlan(g, scope) = NewPlan(l, scope)
  BY <1>2, <1>3, <1>4 DEF NewPlan
<1>8. Ended(f, scope) = Ended(l, scope) /\ Ended(g, scope) = Ended(l, scope)
  BY <1>6 DEF Ended
<1> QED BY <1>5, <1>7, <1>8 DEF f, g

(* A process that goes on to the next batch.                               *)
LEMMA Advances ==
    ASSUME NEW l, Busy(l), l.pc \in Asking, NEW c \in Seq(Candidate), NEW m, m = Advance(l, c)
    PROVE  /\ Busy(m) /\ m.pc \in {"get", "validate"}
           /\ Place(m) = Advance(Place(l), c)
           /\ Face(m) = Advance(Face(l), Content(c))
<1> DEFINE last == l.batch = Len(Batches(Jobs(l)))
           pc == IF last THEN "validate" ELSE "get"
<1>1. l = [pc |-> l.pc, plans |-> l.plans, batch |-> l.batch,
           generated |-> l.generated, drafts |-> l.drafts]
  BY DEF Busy
<1>2. /\ m = [pc |-> m.pc, plans |-> m.plans, batch |-> m.batch,
              generated |-> m.generated, drafts |-> m.drafts]
      /\ m.pc = pc /\ m.plans = l.plans /\ m.batch = l.batch + 1
      /\ m.generated = l.generated \o c /\ m.drafts = <<>>
  BY <1>1 DEF Advance
<1>3. l.generated \o c \in Seq(Candidate) /\ Content(l.generated \o c) = Content(l.generated) \o Content(c)
  BY ContentConcat, ConcatCandidates DEF Busy
<1>4. Jobs(Place(l)) = Jobs(l) /\ Jobs(Face(l)) = Jobs(l)
  BY DEF Place, Face, Jobs
<1>5. Advance(Place(l), c) = [pc |-> pc, plans |-> l.plans, batch |-> l.batch + 1,
                              generated |-> l.generated \o c, drafts |-> <<>>]
  <2>1. Place(l).batch = l.batch
    BY DEF Place
  <2>2. Advance(Place(l), c)
          = [Place(l) EXCEPT !.generated = l.generated \o c, !.drafts = <<>>, !.pc = pc, !.batch = l.batch + 1]
    BY <1>4, <2>1 DEF Advance, Place
  <2> HIDE DEF pc
  <2> QED BY <2>2 DEF Place
<1>6. Advance(Face(l), Content(c))
        = [pc |-> pc, plans |-> l.plans, batch |-> l.batch + 1,
           generated |-> Content(l.generated) \o Content(c), drafts |-> <<>>]
  <2>1. Face(l).batch = l.batch
    BY DEF Face
  <2>2. Advance(Face(l), Content(c))
          = [Face(l) EXCEPT !.generated = Content(l.generated) \o Content(c), !.drafts = <<>>, !.pc = pc,
                            !.batch = l.batch + 1]
    BY <1>4, <2>1 DEF Advance, Face
  <2> HIDE DEF pc
  <2> QED BY <2>2 DEF Face
<1>7. pc \in {"get", "validate"} /\ Side(m) = pc
  BY <1>2 DEF Side, Asking
<1> HIDE DEF pc
<1>8. Busy(m) /\ m.pc \in {"get", "validate"}
  <2>1. <<>> \in Seq(Candidate)
    OBVIOUS
  <2> QED BY <1>2, <1>3, <1>7, <2>1 DEF Busy, Asking, Ending
<1>9. Place(m) = Advance(Place(l), c)
  BY <1>2, <1>5, <1>7 DEF Place
<1>10. Face(m) = Advance(Face(l), Content(c))
  BY <1>2, <1>3, <1>6, <1>7 DEF Face
<1> QED BY <1>8, <1>9, <1>10

Shape(l) == l = [pc |-> l.pc, plans |-> l.plans, batch |-> l.batch,
                 generated |-> l.generated, drafts |-> l.drafts]

(* A process that goes on to the next round.                               *)
LEMMA Replans ==
    ASSUME NEW l, Busy(l), l.pc = "validate", NEW scope, ~Ended(l, scope),
           NewPlan(l, scope) # Refused, NEW m,
           m = [l EXCEPT !.pc = "get", !.plans = Append(@, NewPlan(l, scope)), !.batch = 1]
    PROVE  /\ Busy(m) /\ m.pc = "get"
           /\ RoundTurn(Place(l), Place(m), scope)
           /\ RoundTurn(Face(l), Face(m), scope)
<1> DEFINE new == NewPlan(l, scope)
<1>1. l = [pc |-> l.pc, plans |-> l.plans, batch |-> l.batch,
           generated |-> l.generated, drafts |-> l.drafts]
  BY DEF Busy
<1>2. /\ NewPlan(Face(l), scope) = new /\ NewPlan(Place(l), scope) = new
      /\ ~Ended(Face(l), scope) /\ ~Ended(Place(l), scope)
  BY FaceFacts
<1> HIDE DEF new
<1>3. m = [l EXCEPT !.pc = "get", !.plans = Append(@, new), !.batch = 1] /\ new # Refused
  BY DEF new
<1>4. /\ m = [pc |-> m.pc, plans |-> m.plans, batch |-> m.batch,
              generated |-> m.generated, drafts |-> m.drafts]
      /\ m.pc = "get" /\ m.plans = Append(l.plans, new) /\ m.batch = 1
      /\ m.generated = l.generated /\ m.drafts = l.drafts
  BY <1>1, <1>3
<1>5. Side(m) = "get" /\ Side(l) = "validate"
  BY <1>4 DEF Side, Asking
<1>6. Place(m) = [Place(l) EXCEPT !.pc = "get", !.plans = Append(@, new), !.batch = 1]
  <2> DEFINE u == [Place(l) EXCEPT !.pc = "get", !.plans = Append(@, new), !.batch = 1]
  <2>1. Shape(Place(m)) /\ Shape(Place(l))
    BY DEF Shape, Place
  <2>2. /\ Place(m).pc = "get" /\ Place(m).plans = Append(l.plans, new) /\ Place(m).batch = 1
        /\ Place(m).generated = l.generated /\ Place(m).drafts = <<>>
    BY <1>4, <1>5 DEF Place
  <2>3. Place(l).plans = l.plans /\ Place(l).generated = l.generated /\ Place(l).drafts = <<>>
    BY DEF Place
  <2>4. /\ Shape(u) /\ u.pc = "get" /\ u.plans = Append(l.plans, new) /\ u.batch = 1
        /\ u.generated = l.generated /\ u.drafts = <<>>
    <3> DEFINE t == Place(l)
    <3>1. Shape(t) /\ t.plans = l.plans /\ t.generated = l.generated /\ t.drafts = <<>>
      BY <2>1, <2>3
    <3>2. u = [t EXCEPT !.pc = "get", !.plans = Append(@, new), !.batch = 1]
      OBVIOUS
    <3> HIDE DEF t, u
    <3>3. /\ Shape(u) /\ u.pc = "get" /\ u.plans = Append(t.plans, new) /\ u.batch = 1
          /\ u.generated = t.generated /\ u.drafts = t.drafts
      BY <3>1, <3>2 DEF Shape
    <3> QED BY <3>1, <3>3
  <2> HIDE DEF u
  <2>5. Place(m) = u
    BY <2>1, <2>2, <2>4, Zenon DEF Shape
  <2> QED BY <2>5 DEF u
<1>7. Face(m) = [Face(l) EXCEPT !.pc = "get", !.plans = Append(@, new), !.batch = 1]
  <2> DEFINE u == [Face(l) EXCEPT !.pc = "get", !.plans = Append(@, new), !.batch = 1]
  <2>1. Shape(Face(m)) /\ Shape(Face(l))
    BY DEF Shape, Face
  <2>2. /\ Face(m).pc = "get" /\ Face(m).plans = Append(l.plans, new) /\ Face(m).batch = 1
        /\ Face(m).generated = Content(l.generated) /\ Face(m).drafts = <<>>
    BY <1>4, <1>5 DEF Face
  <2>3. Face(l).plans = l.plans /\ Face(l).generated = Content(l.generated) /\ Face(l).drafts = <<>>
    BY DEF Face
  <2>4. /\ Shape(u) /\ u.pc = "get" /\ u.plans = Append(l.plans, new) /\ u.batch = 1
        /\ u.generated = Content(l.generated) /\ u.drafts = <<>>
    <3> DEFINE t == Face(l)
    <3>1. Shape(t) /\ t.plans = l.plans /\ t.generated = Content(l.generated) /\ t.drafts = <<>>
      BY <2>1, <2>3
    <3>2. u = [t EXCEPT !.pc = "get", !.plans = Append(@, new), !.batch = 1]
      OBVIOUS
    <3> HIDE DEF t, u
    <3>3. /\ Shape(u) /\ u.pc = "get" /\ u.plans = Append(t.plans, new) /\ u.batch = 1
          /\ u.generated = t.generated /\ u.drafts = t.drafts
      BY <3>1, <3>2 DEF Shape
    <3> QED BY <3>1, <3>3
  <2> HIDE DEF u
  <2>5. Face(m) = u
    BY <2>1, <2>2, <2>4, Zenon DEF Shape
  <2> QED BY <2>5 DEF u
<1>8. Place(l).pc = "validate" /\ Face(l).pc = "validate"
  BY <1>5 DEF Place, Face
<1>9. Busy(m)
  BY <1>4 DEF Busy, Asking
<1> QED BY <1>2, <1>3, <1>4, <1>6, <1>7, <1>8, <1>9 DEF RoundTurn

(***************************************************************************)
(* What the positions S of the processes and the ends E that were written  *)
(* have to do with the answers G: they are all on one trail.               *)
(***************************************************************************)
Covered(G, scope, S, E, Pos) ==
    /\ Trail(Pos, G, scope)
    /\ S \subseteq Pos
    /\ \A e \in E : \E t \in Pos : t.pc = "validate" /\ Ended(t, scope) /\ e = t.generated

Reached(u, S, G, scope) ==
    \/ u \in S
    \/ Plan # <<>> /\ u = First
    \/ \E s \in S : Turn(s, u, G, scope)

Sure(G) == Single(G) /\ \A g \in G : Answer(g)

CoveredOn(G, scope, S, E, Pos) == \E Q : Pos \subseteq Q /\ Covered(G, scope, S, E, Q)

(* A process that moves from a position on the trail to the one the answers lead *)
(* to is on a trail again.                                                   *)
LEMMA CoveredMove ==
    ASSUME NEW G, NEW H, G \subseteq H, Sure(H),
           NEW scope \in BOOLEAN, NEW S, NEW E, NEW Pos, Covered(G, scope, S, E, Pos),
           NEW u, Reached(u, S, H, scope), NEW S2, S2 \subseteq S \cup {u}
    PROVE  CoveredOn(H, scope, S2, E, Pos)
<1>1. Trail(Pos, H, scope) /\ S \subseteq Pos
  BY TrailGrows DEF Covered
<1>2. PICK Q : Pos \subseteq Q /\ u \in Q /\ Trail(Q, H, scope)
  <2>1. CASE u \in Pos
    BY <1>1, <2>1
  <2>2. CASE Plan # <<>> /\ u = First
    <3>1. u \in Pos
      BY <1>1, <2>2 DEF Trail
    <3> QED BY <1>1, <3>1
  <2>3. CASE \E s \in S : Turn(s, u, H, scope)
    <3>1. PICK s \in S : Turn(s, u, H, scope)
      BY <2>3
    <3>2. s \in Pos
      BY <1>1
    <3>3. Trail(Pos \cup {u}, H, scope)
      BY <1>1, <3>1, <3>2, TrailExtend DEF Sure
    <3> QED BY <3>3
  <2> QED BY <1>1, <2>1, <2>2, <2>3 DEF Reached
<1>3. \A e \in E : \E t \in Q : t.pc = "validate" /\ Ended(t, scope) /\ e = t.generated
  BY <1>2 DEF Covered
<1> QED BY <1>1, <1>2, <1>3 DEF Covered, CoveredOn

(* What a process at the end of the campaign writes is an end of the trail.  *)
LEMMA CoveredEnd ==
    ASSUME NEW G, NEW scope, NEW S, NEW E, NEW Pos, Covered(G, scope, S, E, Pos),
           NEW u \in S, u.pc = "validate", Ended(u, scope),
           NEW E2, E2 \subseteq E \cup {u.generated}
    PROVE  Covered(G, scope, S, E2, Pos)
BY DEF Covered

-----------------------------------------------------------------------------
(* All processes.                                                          *)
Typed(r) ==
    /\ r = [p \in Processes |-> r[p]]
    /\ \A p \in Processes : r[p] = Idle \/ Busy(r[p])

Working(r) == {p \in Processes : r[p].pc # "idle"}
Faces(r) == {Face(r[p]) : p \in Working(r)}
Places(r) == {Place(r[p]) : p \in Working(r)}

(* A process that is not idle has a position.                                *)
LEMMA WorkingBusy ==
    ASSUME NEW r, Typed(r), NEW p \in Processes
    PROVE  /\ r[p].pc # "idle" <=> Busy(r[p])
           /\ r[p].pc # "idle" <=> r[p] # Idle
           /\ r[p].pc # "idle" => Face(r[p]) \in Faces(r) /\ Place(r[p]) \in Places(r)
<1>1. Idle.pc = "idle"
  BY DEF Idle
<1>2. Busy(r[p]) => r[p].pc # "idle"
  BY DEF Busy, Asking, Ending
<1>3. r[p] = Idle \/ Busy(r[p])
  BY DEF Typed
<1>4. r[p].pc # "idle" => Face(r[p]) \in Faces(r) /\ Place(r[p]) \in Places(r)
  BY DEF Faces, Places, Working
<1> QED BY <1>1, <1>2, <1>3, <1>4

Moved(r, s, p, m) == s = [r EXCEPT ![p] = m]

(* What is left when one process moves.                                      *)
LEMMA OneMoves ==
    ASSUME NEW r, Typed(r), NEW p \in Processes, NEW m, m = Idle \/ Busy(m),
           NEW s, Moved(r, s, p, m)
    PROVE  /\ Typed(s) /\ s[p] = m /\ \A q \in Processes : q # p => s[q] = r[q]
           /\ Faces(s) \subseteq Faces(r) \cup {Face(m)}
           /\ Places(s) \subseteq Places(r) \cup {Place(m)}
           /\ m = Idle => Faces(s) \subseteq Faces(r) /\ Places(s) \subseteq Places(r)
           /\ Working(s) \subseteq Working(r) \cup {p}
           /\ m = Idle => Working(s) \subseteq Working(r)
<1>1. r = [q \in Processes |-> r[q]]
  BY DEF Typed
<1>2. s = [q \in Processes |-> s[q]] /\ s[p] = m /\ \A q \in Processes : q # p => s[q] = r[q]
  BY <1>1 DEF Moved
<1>3. Typed(s)
  BY <1>2 DEF Typed
<1>4. Working(s) \subseteq Working(r) \cup {p}
  BY <1>2 DEF Working
<1>5. m = Idle => p \notin Working(s)
  BY <1>2 DEF Working, Idle
<1>6. \A q \in Working(s) : q # p => q \in Working(r) /\ s[q] = r[q]
  BY <1>2, <1>4 DEF Working
<1>7. Faces(s) \subseteq Faces(r) \cup {Face(m)} /\ Places(s) \subseteq Places(r) \cup {Place(m)}
  BY <1>2, <1>6 DEF Faces, Places
<1>8. m = Idle => Faces(s) \subseteq Faces(r) /\ Places(s) \subseteq Places(r)
  BY <1>5, <1>6 DEF Faces, Places
<1>9. m = Idle => Working(s) \subseteq Working(r)
  BY <1>4, <1>5
<1> QED BY <1>2, <1>3, <1>4, <1>7, <1>8, <1>9

-----------------------------------------------------------------------------
(* The answers that candidates can be made of, without their origins.      *)
Known(rs) ==
    {[batch |-> r.batch, candidates |-> Authoritative(JobsOf(r.batch), r.drafts, None)] :
       r \in {x \in rs : x.drafts # <<>>}}

Answering(rs) ==
    /\ Single(rs)
    /\ \A r \in rs : JobsOf(r.batch) \in Seq(Job) /\ r.drafts \in Answers(JobsOf(r.batch))

(* What is known of a batch is one answer, for all of its jobs.              *)
LEMMA KnownFacts ==
    ASSUME NEW rs, Answering(rs)
    PROVE  Sure(Known(rs))
<1>1. Single(Known(rs))
  <2>1. SUFFICES ASSUME NEW g \in Known(rs), NEW h \in Known(rs), g.batch = h.batch PROVE g = h
    BY DEF Single
  <2>2. PICK x \in rs : g = [batch |-> x.batch, candidates |-> Authoritative(JobsOf(x.batch), x.drafts, None)]
    BY DEF Known
  <2>3. PICK y \in rs : h = [batch |-> y.batch, candidates |-> Authoritative(JobsOf(y.batch), y.drafts, None)]
    BY DEF Known
  <2>4. x.batch = y.batch
    BY <2>1, <2>2, <2>3
  <2>5. x = y
    BY <2>4 DEF Answering, Single
  <2> QED BY <2>2, <2>3, <2>5
<1>2. ASSUME NEW g \in Known(rs) PROVE Answer(g)
  <2>1. PICK r \in rs : /\ r.drafts # <<>>
                        /\ g = [batch |-> r.batch,
                                candidates |-> Authoritative(JobsOf(r.batch), r.drafts, None)]
    BY DEF Known
  <2> DEFINE jobs == JobsOf(r.batch)
             c == Authoritative(jobs, r.drafts, None)
  <2>2. jobs \in Seq(Job) /\ r.drafts \in Answers(jobs)
    BY DEF Answering
  <2>3. g.batch = r.batch /\ g.candidates = c
    BY <2>1
  <2>4. c \in Seq(Candidate) /\ Len(c) = Len(jobs) /\ Matches(c, jobs)
    <3>1. None \in Processes \cup {Replayed, None}
      OBVIOUS
    <3> HIDE DEF jobs
    <3> QED BY <2>1, <2>2, <3>1, AuthoritativeFacts
  <2> HIDE DEF c
  <2> QED BY <2>3, <2>4 DEF Answer
<1> QED BY <1>1, <1>2 DEF Sure

(* A response more leaves known what was.                                    *)
LEMMA KnownGrows ==
    ASSUME NEW rs, NEW ss, rs \subseteq ss
    PROVE  Known(rs) \subseteq Known(ss)
BY DEF Known

(* The checkpoints: each of an answer, whatever its origin.                *)
Entry(batch, candidates) == [batch |-> batch, candidates |-> candidates]

Kept(cs, rs) ==
    /\ Single(cs)
    /\ \A c \in cs : /\ c.candidates \in Seq(Candidate)
                     /\ Entry(c.batch, Content(c.candidates)) \in Known(rs)

(* So it is of the checkpoints.                                              *)
LEMMA KeptFacts ==
    ASSUME NEW cs, NEW rs, Answering(rs), Kept(cs, rs)
    PROVE  Sure(cs)
<1>1. ASSUME NEW c \in cs PROVE Answer(c)
  <2> DEFINE d == c.candidates
             e == Content(d)
             jobs == JobsOf(c.batch)
  <2>1. d \in Seq(Candidate) /\ Entry(c.batch, e) \in Known(rs)
    BY DEF Kept
  <2>2. Answer(Entry(c.batch, e))
    BY <2>1, KnownFacts DEF Sure
  <2>3. e \in Seq(Candidate) /\ Len(e) = Len(jobs) /\ Matches(e, jobs)
    BY <2>2 DEF Answer, Entry
  <2>4. SameContent(d, e) /\ Len(e) = Len(d)
    BY <2>1, ContentFacts
  <2> HIDE DEF e, d, jobs
  <2>5. Len(d) = Len(jobs) /\ Matches(d, jobs)
    BY <2>3, <2>4 DEF Matches, SameContent
  <2> QED BY <2>1, <2>5 DEF Answer, d, jobs
<1> QED BY <1>1 DEF Kept, Sure

(***************************************************************************)
(* The inductive invariant.  All that was answered, written and is under   *)
(* way lies on one trail, which the responses lead through; and while no   *)
(* two processes overlapped, the checkpoints do, with the origins that     *)
(* candidates have in them.                                                *)
(***************************************************************************)
Held(r, rs) ==
    \A p \in Processes : r[p].pc \in {"check", "replace"} =>
       Entry(BatchOf(r[p]), Content(r[p].drafts)) \in Known(rs)
AtEnd(r, scope) ==
    \A p \in Processes : r[p].pc \in {"candidates", "report"} => Ended(r[p], scope)
Filed(r, cf, rf) ==
    /\ rf \subseteq cf /\ cf \subseteq Seq(Candidate)
    /\ \A p \in Processes : r[p].pc = "report" => r[p].generated \in cf
Asked(rs, Pos) == \A x \in rs : \E t \in Pos : t.pc = "get" /\ x.batch = BatchOf(t)
Contents(cf) == {Content(f) : f \in cf}

OneTrail(scope, r, rs, cf) ==
    \E Pos : Covered(Known(rs), scope, Faces(r), Contents(cf), Pos) /\ Asked(rs, Pos)

Stands(scope, r, rs, cs, cf, rf) ==
    /\ scope \in BOOLEAN /\ Typed(r)
    /\ Answering(rs) /\ Kept(cs, rs)
    /\ Held(r, rs) /\ AtEnd(r, scope) /\ Filed(r, cf, rf)
    /\ OneTrail(scope, r, rs, cf)

Private(scope, r, cs, cf) ==
    /\ \A p, q \in Working(r) : p = q
    /\ \A p \in Processes : r[p].pc \in {"check", "replace"} =>
          \A c \in cs : c.batch # BatchOf(r[p])
    /\ \E Pos : Covered(cs, scope, Places(r), cf, Pos)

IInv ==
    /\ Stands(reducedScope, run, responses, checkpoints, candidateFiles, reportFiles)
    /\ overlapped \in BOOLEAN
    /\ ~overlapped => Private(reducedScope, run, checkpoints, candidateFiles)

-----------------------------------------------------------------------------
(* One process moves, from run[p] to m; the gateway may be asked for it.   *)

Proper(m, scope, ss, cf) ==
    /\ m = Idle \/ Busy(m)
    /\ m.pc \in {"check", "replace"} => Entry(BatchOf(m), Content(m.drafts)) \in Known(ss)
    /\ m.pc \in {"candidates", "report"} => Ended(m, scope)
    /\ m.pc = "report" => m.generated \in cf

Requests(r, p, rs, ss) ==
    /\ rs \subseteq ss
    /\ \A x \in ss : x \in rs \/ (r[p].pc = "get" /\ x.batch = BatchOf(r[p]))

(* One process moves, and all stands as before.                              *)
LEMMA Moves ==
    ASSUME NEW scope, NEW r, NEW rs, NEW cs, NEW cf, NEW rf, Stands(scope, r, rs, cs, cf, rf),
           NEW ss, Answering(ss), NEW p \in Processes, Requests(r, p, rs, ss),
           NEW m, Proper(m, scope, ss, cf),
           m = Idle \/ Reached(Face(m), Faces(r), Known(ss), scope),
           NEW s, Moved(r, s, p, m)
    PROVE  Stands(scope, s, ss, cs, cf, rf)
<1>1. /\ scope \in BOOLEAN /\ Typed(r) /\ Kept(cs, rs) /\ Held(r, rs) /\ AtEnd(r, scope)
      /\ Filed(r, cf, rf) /\ OneTrail(scope, r, rs, cf)
  BY DEF Stands
<1>2. m = Idle \/ Busy(m)
  BY DEF Proper
<1>3. /\ Typed(s) /\ s[p] = m /\ \A q \in Processes : q # p => s[q] = r[q]
      /\ Faces(s) \subseteq Faces(r) \cup {Face(m)}
      /\ m = Idle => Faces(s) \subseteq Faces(r)
  BY <1>1, <1>2, OneMoves
<1>4. rs \subseteq ss /\ Known(rs) \subseteq Known(ss)
  BY KnownGrows DEF Requests
<1>5. Sure(Known(ss))
  BY KnownFacts
<1>6. Kept(cs, ss)
  BY <1>1, <1>4 DEF Kept
<1>7. Held(s, ss)
  BY <1>1, <1>3, <1>4 DEF Held, Proper
<1>8. AtEnd(s, scope)
  BY <1>1, <1>3 DEF AtEnd, Proper
<1>9. Filed(s, cf, rf)
  BY <1>1, <1>3 DEF Filed, Proper
<1>10. OneTrail(scope, s, ss, cf)
  <2>1. PICK Pos : Covered(Known(rs), scope, Faces(r), Contents(cf), Pos) /\ Asked(rs, Pos)
    BY <1>1 DEF OneTrail
  <2>2. Asked(ss, Pos)
    <3>1. SUFFICES ASSUME NEW x \in ss, x \notin rs
                   PROVE  \E t \in Pos : t.pc = "get" /\ x.batch = BatchOf(t)
      BY <2>1 DEF Asked
    <3>2. r[p].pc = "get" /\ x.batch = BatchOf(r[p])
      BY <3>1 DEF Requests
    <3>3. Busy(r[p]) /\ Face(r[p]) \in Faces(r)
      BY <1>1, <3>2, WorkingBusy
    <3>4. Face(r[p]) \in Pos
      BY <2>1, <3>3 DEF Covered
    <3>5. Face(r[p]).pc = "get" /\ x.batch = BatchOf(Face(r[p]))
      BY <3>2, <3>3 DEF BatchOf, Face, Side, Asking
    <3> QED BY <3>4, <3>5
  <2>3. \E Q : Pos \subseteq Q /\ Covered(Known(ss), scope, Faces(s), Contents(cf), Q)
    <3>1. CASE m = Idle
      <4>1. Trail(Pos, Known(ss), scope)
        BY <1>4, <2>1, TrailGrows DEF Covered
      <4>2. Covered(Known(ss), scope, Faces(s), Contents(cf), Pos)
        BY <1>3, <2>1, <3>1, <4>1 DEF Covered
      <4> QED BY <4>2
    <3>2. CASE Reached(Face(m), Faces(r), Known(ss), scope)
      <4> DEFINE S == Faces(r)
                 S2 == Faces(s)
                 u == Face(m)
                 G == Known(rs)
                 H == Known(ss)
                 E == Contents(cf)
      <4>1. G \subseteq H /\ Sure(H) /\ S2 \subseteq S \cup {u} /\ scope \in BOOLEAN
        BY <1>1, <1>3, <1>4, <1>5
      <4>2. Covered(G, scope, S, E, Pos) /\ Reached(u, S, H, scope)
        BY <2>1, <3>2
      <4> HIDE DEF S, S2, u, G, H, E
      <4>3. CoveredOn(H, scope, S2, E, Pos)
        BY <4>1, <4>2, CoveredMove
      <4> QED BY <4>3 DEF H, S2, E, CoveredOn
    <3> QED BY <3>1, <3>2
  <2>4. PICK Q : Pos \subseteq Q /\ Covered(Known(ss), scope, Faces(s), Contents(cf), Q)
    BY <2>3
  <2>5. Asked(ss, Q)
    BY <2>2, <2>4 DEF Asked
  <2> QED BY <2>4, <2>5 DEF OneTrail
<1> QED BY <1>1, <1>3, <1>6, <1>7, <1>8, <1>9, <1>10 DEF Stands

(* The same when there is one process only, with origins.                    *)
LEMMA MovesAlone ==
    ASSUME NEW scope \in BOOLEAN, NEW r, Typed(r), NEW cs, NEW cf, Private(scope, r, cs, cf),
           NEW ds, cs \subseteq ds, Sure(ds),
           NEW p \in Processes, Working(r) \subseteq {p}, NEW m, m = Idle \/ Busy(m),
           m.pc \in {"check", "replace"} => \A d \in ds : d.batch # BatchOf(m),
           m = Idle \/ Reached(Place(m), Places(r), ds, scope),
           NEW s, Moved(r, s, p, m)
    PROVE  Private(scope, s, ds, cf)
<1>1. /\ Typed(s) /\ s[p] = m /\ \A q \in Processes : q # p => s[q] = r[q]
      /\ Places(s) \subseteq Places(r) \cup {Place(m)}
      /\ m = Idle => Places(s) \subseteq Places(r)
      /\ Working(s) \subseteq Working(r) \cup {p}
  BY OneMoves
<1>2. \A q, x \in Working(s) : q = x
  BY <1>1
<1>3. \A q \in Processes : s[q].pc \in {"check", "replace"} => \A d \in ds : d.batch # BatchOf(s[q])
  <2> TAKE q \in Processes
  <2>1. CASE q = p
    BY <1>1, <2>1
  <2>2. CASE q # p
    <3>1. r[q].pc = "idle"
      BY <2>2 DEF Working
    <3> QED BY <1>1, <2>2, <3>1
  <2> QED BY <2>1, <2>2
<1>4. PICK Pos : Covered(cs, scope, Places(r), cf, Pos)
  BY DEF Private
<1>5. \E Q : Covered(ds, scope, Places(s), cf, Q)
  <2>1. CASE m = Idle
    <3>1. Trail(Pos, ds, scope)
      BY <1>4, TrailGrows DEF Covered
    <3>2. Covered(ds, scope, Places(s), cf, Pos)
      BY <1>1, <1>4, <2>1, <3>1 DEF Covered
    <3> QED BY <3>2
  <2>2. CASE Reached(Place(m), Places(r), ds, scope)
    <3>1. CoveredOn(ds, scope, Places(s), cf, Pos)
      BY <1>1, <1>4, <2>2, CoveredMove
    <3> QED BY <3>1 DEF CoveredOn
  <2> QED BY <2>1, <2>2
<1> QED BY <1>2, <1>3, <1>5 DEF Private

(* No file is touched.                                                     *)
LEMMA MovesAsking ==
    ASSUME IInv, NEW p \in Processes, NEW ss, Answering(ss), Requests(run, p, responses, ss),
           NEW m, Proper(m, reducedScope, ss, candidateFiles),
           m = Idle \/ Reached(Face(m), Faces(run), Known(ss), reducedScope),
           Moved(run, run', p, m), responses' = ss,
           ~overlapped' =>
              /\ ~overlapped /\ Working(run) \subseteq {p}
              /\ m.pc \in {"check", "replace"} => \A c \in checkpoints : c.batch # BatchOf(m)
              /\ m = Idle \/ Reached(Place(m), Places(run), checkpoints, reducedScope),
           overlapped' \in BOOLEAN,
           UNCHANGED <<reducedScope, checkpoints, candidateFiles, reportFiles>>
    PROVE  IInv'
<1> DEFINE s == run'
<1>0. Moved(run, s, p, m)
  OBVIOUS
<1> HIDE DEF s
<1>1. Stands(reducedScope, run, responses, checkpoints, candidateFiles, reportFiles)
  BY DEF IInv
<1>2. Answering(responses) /\ Kept(checkpoints, responses) /\ Typed(run) /\ reducedScope \in BOOLEAN
  BY <1>1 DEF Stands
<1>4. Stands(reducedScope, s, ss, checkpoints, candidateFiles, reportFiles)
  BY <1>0, <1>1, Moves
<1>5. ASSUME ~overlapped' PROVE Private(reducedScope, s, checkpoints, candidateFiles)
  <2>1. Private(reducedScope, run, checkpoints, candidateFiles)
    BY <1>5 DEF IInv
  <2>2. Sure(checkpoints)
    BY <1>2, KeptFacts
  <2>3. m = Idle \/ Busy(m)
    BY DEF Proper
  <2>4. /\ Working(run) \subseteq {p}
        /\ m.pc \in {"check", "replace"} => \A d \in checkpoints : d.batch # BatchOf(m)
        /\ m = Idle \/ Reached(Place(m), Places(run), checkpoints, reducedScope)
    BY <1>5
  <2>5. checkpoints \subseteq checkpoints
    OBVIOUS
  <2> QED BY <1>0, <1>2, <2>1, <2>2, <2>3, <2>4, <2>5, MovesAlone
<1> QED BY <1>4, <1>5 DEF IInv, s

(* Nor is the gateway.                                                     *)
LEMMA MovesOnly ==
    ASSUME IInv, NEW p \in Processes, NEW m, Proper(m, reducedScope, responses, candidateFiles),
           m = Idle \/ Reached(Face(m), Faces(run), Known(responses), reducedScope),
           Moved(run, run', p, m),
           ~overlapped' =>
              /\ ~overlapped /\ Working(run) \subseteq {p}
              /\ m.pc \in {"check", "replace"} => \A c \in checkpoints : c.batch # BatchOf(m)
              /\ m = Idle \/ Reached(Place(m), Places(run), checkpoints, reducedScope),
           overlapped' \in BOOLEAN,
           UNCHANGED <<reducedScope, responses, checkpoints, candidateFiles, reportFiles>>
    PROVE  IInv'
<1>1. Answering(responses) /\ Requests(run, p, responses, responses)
  BY DEF IInv, Stands, Requests
<1> QED BY <1>1, MovesAsking

(* A process at work.                                                        *)
LEMMA WorkingFacts ==
    ASSUME IInv, NEW p \in Processes, run[p].pc # "idle"
    PROVE  /\ Busy(run[p]) /\ Face(run[p]) \in Faces(run) /\ Place(run[p]) \in Places(run)
           /\ ~overlapped => Working(run) \subseteq {p}
<1>1. Typed(run)
  BY DEF IInv, Stands
<1>2. ~overlapped => Working(run) \subseteq {p}
  BY DEF IInv, Private, Working
<1> QED BY <1>1, <1>2, WorkingBusy

(* The invariant holds at first.                                             *)
LEMMA InitStands == Init => IInv
<1> SUFFICES ASSUME Init PROVE IInv
  OBVIOUS
<1> DEFINE Pos == IF Plan = <<>> THEN {} ELSE {First}
<1>1. /\ reducedScope \in BOOLEAN /\ responses = {} /\ checkpoints = {}
      /\ candidateFiles = {} /\ reportFiles = {} /\ run = [p \in Processes |-> Idle]
      /\ overlapped = FALSE
  BY DEF Init
<1>2. run = [p \in Processes |-> run[p]] /\ \A p \in Processes : run[p] = Idle /\ run[p].pc = "idle"
  BY <1>1 DEF Idle
<1>3. Typed(run) /\ Working(run) = {}
  BY <1>2 DEF Typed, Working
<1>4. Faces(run) = {} /\ Places(run) = {} /\ Contents(candidateFiles) = {}
  BY <1>1, <1>3 DEF Faces, Places, Contents
<1>5. \A G : Trail(Pos, G, reducedScope)
  BY TrailFirst
<1> HIDE DEF Pos
<1>6. /\ Covered(Known(responses), reducedScope, Faces(run), Contents(candidateFiles), Pos)
      /\ Covered(checkpoints, reducedScope, Places(run), candidateFiles, Pos)
  BY <1>1, <1>4, <1>5 DEF Covered
<1>7. Asked(responses, Pos)
  BY <1>1 DEF Asked
<1>8. /\ Answering(responses) /\ Kept(checkpoints, responses) /\ Held(run, responses)
      /\ AtEnd(run, reducedScope) /\ Filed(run, candidateFiles, reportFiles)
  BY <1>1, <1>2 DEF Answering, Kept, Single, Held, AtEnd, Filed
<1>9. Private(reducedScope, run, checkpoints, candidateFiles)
  BY <1>2, <1>3, <1>6 DEF Private
<1> QED BY <1>1, <1>3, <1>6, <1>7, <1>8, <1>9 DEF IInv, Stands, OneTrail

(* _run up to the loop keeps the invariant.                                  *)
LEMMA StartStands ==
    ASSUME IInv, NEW p \in Processes, Start(p)
    PROVE  IInv'
<1> DEFINE m == [pc |-> "get", plans |-> <<Plan>>, batch |-> 1, generated |-> <<>>, drafts |-> <<>>]
<1>1. /\ run[p].pc = "idle" /\ Plan # <<>> /\ Moved(run, run', p, m)
      /\ overlapped' = (overlapped \/ \E q \in Processes : run[q].pc # "idle")
      /\ UNCHANGED <<reducedScope, responses, checkpoints, candidateFiles, reportFiles>>
  BY DEF Start, At, Active, Refused, Moved
<1>2. overlapped \in BOOLEAN
  BY DEF IInv
<1>3. overlapped' \in BOOLEAN
  BY <1>1, Zenon
<1>4. ~overlapped' => ~overlapped /\ Working(run) \subseteq {p}
  <2>1. ~overlapped' => ~overlapped /\ \A q \in Processes : run[q].pc = "idle"
    BY <1>1, Zenon
  <2> QED BY <2>1 DEF Working
<1>5. Face(m) = m /\ Place(m) = m /\ Busy(m) /\ m.pc = "get" /\ m = First
  <2>1. <<>> \in Seq(Candidate) /\ Content(<<>>) = <<>>
    <3>1. <<>> \in Seq(Candidate) /\ Len(<<>>) = 0
      OBVIOUS
    <3>2. Content(<<>>) \in Seq(Candidate) /\ Len(Content(<<>>)) = 0
      BY <3>1, ContentFacts
    <3> QED BY <3>1, <3>2
  <2>2. Side(m) = "get" /\ m.pc = "get"
    BY DEF Side, Asking
  <2>3. Face(m) = m /\ Place(m) = m
    BY <2>1, <2>2 DEF Face, Place
  <2> QED BY <2>1, <2>2, <2>3 DEF Busy, Asking, First
<1> HIDE DEF m
<1>6. Proper(m, reducedScope, responses, candidateFiles)
  BY <1>5 DEF Proper
<1>7. /\ Reached(Face(m), Faces(run), Known(responses), reducedScope)
      /\ Reached(Place(m), Places(run), checkpoints, reducedScope)
  BY <1>1, <1>5 DEF Reached
<1>8. m.pc \notin {"check", "replace"}
  BY <1>5
<1> QED BY <1>1, <1>3, <1>4, <1>6, <1>7, <1>8, MovesOnly

(* A process goes on to the next batch by candidates that are known.       *)
LEMMA AdvanceReaches ==
    ASSUME NEW l, Busy(l), l.pc \in Asking, NEW c \in Seq(Candidate), NEW scope,
           NEW G, Entry(BatchOf(l), Content(c)) \in G, NEW S, Face(l) \in S
    PROVE  Reached(Face(Advance(l, c)), S, G, scope)
<1> DEFINE g == Entry(BatchOf(l), Content(c))
           m == Advance(l, c)
<1>1. Face(m) = Advance(Face(l), Content(c))
  BY Advances
<1>2. BatchOf(Face(l)) = BatchOf(l) /\ Face(l).pc = "get"
  BY FaceFacts DEF Face, Side
<1>3. g.batch = BatchOf(l) /\ g.candidates = Content(c)
  BY DEF Entry
<1> HIDE DEF g, m
<1>4. GetTurn(Face(l), Face(m), G)
  BY <1>1, <1>2, <1>3 DEF GetTurn, g
<1> QED BY <1>4 DEF Reached, Turn, m

(* The same with origins.                                                    *)
LEMMA AdvancePlace ==
    ASSUME NEW l, Busy(l), l.pc \in Asking, NEW c \in Seq(Candidate), NEW scope,
           NEW G, NEW g \in G, g.batch = BatchOf(l), g.candidates = c, NEW S, Place(l) \in S
    PROVE  Reached(Place(Advance(l, c)), S, G, scope)
<1> DEFINE m == Advance(l, c)
<1>1. Place(m) = Advance(Place(l), c)
  BY Advances
<1>2. BatchOf(Place(l)) = BatchOf(l) /\ Place(l).pc = "get"
  BY FaceFacts DEF Place, Side
<1> HIDE DEF m
<1>3. GetTurn(Place(l), Place(m), G)
  BY <1>1, <1>2 DEF GetTurn
<1> QED BY <1>3 DEF Reached, Turn, m

(* Resuming from a checkpoint keeps the invariant: it is of the known answer. *)
LEMMA ResumeStands ==
    ASSUME IInv, NEW p \in Processes, Resume(p)
    PROVE  IInv'
<1> DEFINE l == run[p]
<1>1. PICK c \in checkpoints : /\ c.batch = BatchOf(l)
                               /\ Moved(run, run', p, Advance(l, c.candidates))
  BY DEF Resume, Stored, Moved
<1>2. /\ l.pc = "get" /\ overlapped' = overlapped
      /\ UNCHANGED <<reducedScope, responses, checkpoints, candidateFiles, reportFiles>>
  BY DEF Resume, At
<1>3. /\ Busy(l) /\ Face(l) \in Faces(run) /\ Place(l) \in Places(run) /\ l.pc \in Asking
      /\ ~overlapped => Working(run) \subseteq {p}
  BY <1>2, WorkingFacts DEF Asking
<1> HIDE DEF l
<1> DEFINE m == Advance(l, c.candidates)
<1>4. c.candidates \in Seq(Candidate) /\ Entry(c.batch, Content(c.candidates)) \in Known(responses)
  BY DEF IInv, Stands, Kept
<1>5. Busy(m) /\ m.pc \in {"get", "validate"}
  BY <1>3, <1>4, Advances
<1>6. Reached(Face(m), Faces(run), Known(responses), reducedScope)
  BY <1>1, <1>3, <1>4, AdvanceReaches
<1>7. Reached(Place(m), Places(run), checkpoints, reducedScope)
  BY <1>1, <1>3, <1>4, AdvancePlace
<1>8. Moved(run, run', p, m)
  BY <1>1
<1> HIDE DEF m
<1>9. Proper(m, reducedScope, responses, candidateFiles) /\ m.pc \notin {"check", "replace"}
  BY <1>5 DEF Proper
<1>10. overlapped' \in BOOLEAN
  BY <1>2 DEF IInv
<1> QED BY <1>2, <1>3, <1>6, <1>7, <1>8, <1>9, <1>10, MovesOnly

(* The batch at a position has jobs.                                         *)
LEMMA BatchJobs ==
    ASSUME NEW t, Sound(t), t.pc = "get"
    PROVE  JobsOf(BatchOf(t)) \in Seq(Job)
<1> DEFINE jobs == Jobs(t)
           B == Len(Batches(jobs))
           b == t.batch
<1>1. /\ t.plans \in Seq(Seq(Job)) /\ Len(t.plans) \in 1..Len(t.plans)
      /\ b \in Nat \ {0} /\ b <= B /\ jobs # <<>>
  BY DEF Sound, Position
<1>2. jobs \in Seq(Job)
  BY <1>1 DEF Jobs
<1>3. JobsOf(BatchOf(t)) = Batches(jobs)[b]
  BY DEF JobsOf, BatchOf, Jobs
<1> HIDE DEF jobs, b
<1>4. B \in Nat
  BY <1>2, BatchesOf
<1>5. b \in 1..B
  BY <1>1, <1>4
<1> DEFINE from == (b - 1) * BatchSize
           to == IF b = B THEN Len(jobs) ELSE b * BatchSize
<1>6. from \in Nat /\ to \in Nat /\ from < to /\ to <= Len(jobs) /\ Batches(jobs)[b] = SubSeq(jobs, from + 1, to)
  BY <1>1, <1>2, <1>5, BatchesOf
<1> HIDE DEF from, to
<1>7. SubSeq(jobs, from + 1, to) \in Seq(Job)
  <2>1. \A i \in (from + 1)..to : jobs[i] \in Job
    BY <1>2, <1>6
  <2> QED BY <1>2, <1>6, <2>1
<1> QED BY <1>3, <1>6, <1>7

(* So has the one that a process asks for.                                   *)
LEMMA GetJobs ==
    ASSUME IInv, NEW p \in Processes, run[p].pc = "get"
    PROVE  JobsOf(BatchOf(run[p])) \in Seq(Job)
<1> DEFINE l == run[p]
<1>1. Busy(l) /\ Face(l) \in Faces(run) /\ l.pc = "get"
  BY WorkingFacts
<1> HIDE DEF l
<1>2. PICK Pos : Covered(Known(responses), reducedScope, Faces(run), Contents(candidateFiles), Pos)
  BY DEF IInv, Stands, OneTrail
<1>3. Sound(Face(l)) /\ Face(l).pc = "get"
  BY <1>1, <1>2 DEF Covered, Trail, Face, Side, Asking
<1>4. BatchOf(Face(l)) = BatchOf(l)
  BY <1>1, FaceFacts
<1> QED BY <1>3, <1>4, BatchJobs DEF l

(* What a process does not change of its place.                            *)
Stays(l, m) ==
    /\ m.plans = l.plans /\ m.batch = l.batch /\ m.generated = l.generated
    /\ m.pc \in Asking <=> l.pc \in Asking

(* Its position is the same.                                                 *)
LEMMA StaysFacts ==
    ASSUME NEW l, NEW m, Stays(l, m)
    PROVE  Face(m) = Face(l) /\ Place(m) = Place(l) /\ BatchOf(m) = BatchOf(l)
<1>1. Side(m) = Side(l)
  BY DEF Stays, Side
<1> QED BY <1>1 DEF Stays, Face, Place, BatchOf

(* Asking the gateway keeps the invariant: a response that is paid is the only *)
(* one for its batch, and one that is replayed was known.                    *)
LEMMA AskStands ==
    ASSUME IInv, NEW p \in Processes, Ask(p)
    PROVE  IInv'
<1> DEFINE l == run[p]
           batch == BatchOf(l)
           jobs == JobsOf(batch)
           paid == Answered(batch) = {}
           origin == IF paid THEN p ELSE Replayed
<1>1. /\ l.pc = "get" /\ Stored(batch) = {} /\ overlapped' = overlapped
      /\ UNCHANGED <<reducedScope, checkpoints, candidateFiles, reportFiles>>
  BY DEF Ask, At
<1>2. PICK r \in IF paid THEN [batch : {batch}, drafts : Answers(jobs)] ELSE Answered(batch) :
         /\ responses' = responses \cup {r}
         /\ run' = [run EXCEPT ![p] =
              IF r.drafts = <<>> THEN Idle
              ELSE [l EXCEPT !.pc = "check", !.drafts = Authoritative(jobs, r.drafts, origin)]]
  BY DEF Ask
<1>3. /\ Busy(l) /\ Face(l) \in Faces(run) /\ Place(l) \in Places(run) /\ l.pc \in Asking
      /\ ~overlapped => Working(run) \subseteq {p}
  BY <1>1, WorkingFacts DEF Asking
<1>4. jobs \in Seq(Job)
  BY <1>1, GetJobs
<1>5. Answering(responses)
  BY DEF IInv, Stands
<1>6. r.batch = batch /\ r.drafts \in Answers(jobs)
  <2>1. CASE paid
    BY <1>2, <2>1
  <2>2. CASE ~paid
    <3>1. r \in responses /\ r.batch = batch
      BY <1>2, <2>2 DEF Answered
    <3> QED BY <1>5, <3>1 DEF Answering
  <2> QED BY <2>1, <2>2
<1>7. r \in responses \/ \A x \in responses : x.batch # batch
  BY <1>2 DEF Answered
<1> DEFINE ss == responses \cup {r}
           d == Authoritative(jobs, r.drafts, origin)
           m == IF r.drafts = <<>> THEN Idle ELSE [l EXCEPT !.pc = "check", !.drafts = d]
<1>8. responses' = ss /\ Moved(run, run', p, m)
  BY <1>2 DEF Moved
<1>9. origin \in Processes \cup {Replayed, None}
  OBVIOUS
<1>10. \A c \in checkpoints : c.batch # batch
  BY <1>1 DEF Stored
<1> HIDE DEF origin
<1>11. Answering(ss)
  <2>1. Single(ss)
    BY <1>5, <1>6, <1>7 DEF Answering, Single
  <2>2. JobsOf(r.batch) \in Seq(Job) /\ r.drafts \in Answers(JobsOf(r.batch))
    BY <1>4, <1>6
  <2> QED BY <1>5, <2>1, <2>2 DEF Answering
<1>12. Requests(run, p, responses, ss)
  BY <1>1, <1>6 DEF Requests
<1>13. CASE r.drafts = <<>>
  <2>1. m = Idle /\ m.pc = "idle"
    BY <1>13 DEF Idle
  <2> HIDE DEF m, ss
  <2>2. Proper(m, reducedScope, ss, candidateFiles) /\ m.pc \notin {"check", "replace"}
    BY <2>1 DEF Proper
  <2>3. overlapped' \in BOOLEAN
    BY <1>1 DEF IInv
  <2> QED BY <1>1, <1>3, <1>8, <1>11, <1>12, <2>1, <2>2, <2>3, MovesAsking
<1>14. CASE r.drafts # <<>>
  <2>1. /\ d \in Seq(Candidate) /\ Content(d) = Authoritative(jobs, r.drafts, None)
    <3> HIDE DEF jobs
    <3> QED BY <1>4, <1>6, <1>9, <1>14, AuthoritativeFacts
  <2>2. Entry(batch, Content(d)) \in Known(ss)
    <3>1. Entry(batch, Content(d)) = [batch |-> r.batch, candidates |-> Authoritative(JobsOf(r.batch), r.drafts, None)]
      BY <1>6, <2>1 DEF Entry
    <3> QED BY <1>14, <3>1 DEF Known
  <2> HIDE DEF d
  <2>3. m = [l EXCEPT !.pc = "check", !.drafts = d]
    BY <1>14
  <2> HIDE DEF m
  <2>4. /\ Busy(m) /\ m.pc = "check" /\ m.drafts = d /\ Stays(l, m)
    <3> HIDE DEF l
    <3> QED BY <1>3, <2>1, <2>3 DEF Busy, Stays, Asking
  <2> HIDE DEF l, batch, ss
  <2>5. Face(m) = Face(l) /\ Place(m) = Place(l) /\ BatchOf(m) = batch
    BY <2>4, StaysFacts DEF batch
  <2>6. Proper(m, reducedScope, ss, candidateFiles)
    BY <2>2, <2>4, <2>5 DEF Proper
  <2>7. /\ Reached(Face(m), Faces(run), Known(ss), reducedScope)
        /\ Reached(Place(m), Places(run), checkpoints, reducedScope)
    BY <1>3, <2>5 DEF Reached
  <2>8. \A c \in checkpoints : c.batch # BatchOf(m)
    BY <1>10, <2>5
  <2>9. overlapped' \in BOOLEAN
    BY <1>1 DEF IInv
  <2> QED BY <1>1, <1>3, <1>8, <1>11, <1>12, <2>6, <2>7, <2>8, <2>9, MovesAsking
<1> QED BY <1>13, <1>14

(* Nothing is asked of an idle process.                                      *)
LEMMA IdleFacts ==
    ASSUME NEW scope, NEW ss, NEW cf
    PROVE  Proper(Idle, scope, ss, cf) /\ Idle.pc \notin {"check", "replace"}
<1>1. Idle.pc = "idle"
  BY DEF Idle
<1> QED BY <1>1 DEF Proper

(* The process gives up or dies.                                           *)
LEMMA EndStands ==
    ASSUME IInv, NEW p \in Processes, run[p].pc # "idle", Moved(run, run', p, Idle),
           UNCHANGED <<reducedScope, responses, checkpoints, candidateFiles, reportFiles, overlapped>>
    PROVE  IInv'
<1>1. overlapped' \in BOOLEAN /\ (~overlapped' => ~overlapped /\ Working(run) \subseteq {p})
  BY WorkingFacts DEF IInv
<1> QED BY <1>1, IdleFacts, MovesOnly

(* The comparison in put keeps the invariant.                                *)
LEMMA CheckStands ==
    ASSUME IInv, NEW p \in Processes, Check(p)
    PROVE  IInv'
<1> DEFINE l == run[p]
           batch == BatchOf(l)
           stored == Stored(batch)
           same == \E c \in stored : c.candidates = l.drafts
           replaces == [l EXCEPT !.pc = "replace"]
           advances == Advance(l, l.drafts)
<1>1. /\ l.pc = "check" /\ overlapped' = overlapped
      /\ UNCHANGED <<reducedScope, responses, checkpoints, candidateFiles, reportFiles>>
      /\ run' = [run EXCEPT ![p] = IF stored = {} THEN replaces ELSE IF same THEN advances ELSE Idle]
  BY DEF Check, At
<1>2. /\ Busy(l) /\ Face(l) \in Faces(run) /\ Place(l) \in Places(run) /\ l.pc \in Asking
      /\ ~overlapped => Working(run) \subseteq {p}
  BY <1>1, WorkingFacts DEF Asking
<1>3. Entry(batch, Content(l.drafts)) \in Known(responses)
  BY <1>1 DEF IInv, Stands, Held
<1>4. l.drafts \in Seq(Candidate) /\ overlapped' \in BOOLEAN
  BY <1>1, <1>2 DEF Busy, IInv
<1>5. CASE stored = {}
  <2> DEFINE m == replaces
  <2>1. Moved(run, run', p, m)
    BY <1>1, <1>5 DEF Moved
  <2>2. Busy(m) /\ m.pc = "replace" /\ m.drafts = l.drafts /\ Stays(l, m)
    <3> HIDE DEF l
    <3> QED BY <1>1, <1>2 DEF Busy, Stays, Asking
  <2>3. \A c \in checkpoints : c.batch # batch
    BY <1>5 DEF Stored
  <2> HIDE DEF m, l, batch
  <2>4. Face(m) = Face(l) /\ Place(m) = Place(l) /\ BatchOf(m) = batch
    BY <2>2, StaysFacts DEF batch
  <2>5. Proper(m, reducedScope, responses, candidateFiles)
    BY <1>3, <2>2, <2>4 DEF Proper
  <2>6. /\ Reached(Face(m), Faces(run), Known(responses), reducedScope)
        /\ Reached(Place(m), Places(run), checkpoints, reducedScope)
    BY <1>2, <2>4 DEF Reached
  <2> QED BY <1>1, <1>2, <1>4, <2>1, <2>3, <2>4, <2>5, <2>6, MovesOnly
<1>6. CASE stored # {} /\ same
  <2> DEFINE m == advances
  <2>1. Moved(run, run', p, m)
    BY <1>1, <1>6 DEF Moved
  <2>2. PICK c \in checkpoints : c.batch = batch /\ c.candidates = l.drafts
    BY <1>6 DEF Stored
  <2> HIDE DEF l
  <2>3. Busy(m) /\ m.pc \in {"get", "validate"}
    BY <1>2, <1>4, Advances
  <2>4. /\ Reached(Face(m), Faces(run), Known(responses), reducedScope)
        /\ Reached(Place(m), Places(run), checkpoints, reducedScope)
    BY <1>2, <1>3, <1>4, <2>2, AdvanceReaches, AdvancePlace
  <2> HIDE DEF m
  <2>5. Proper(m, reducedScope, responses, candidateFiles) /\ m.pc \notin {"check", "replace"}
    BY <2>3 DEF Proper
  <2> QED BY <1>1, <1>2, <1>4, <2>1, <2>4, <2>5, MovesOnly
<1>7. CASE stored # {} /\ ~same
  <2>1. Moved(run, run', p, Idle) /\ l.pc # "idle"
    BY <1>1, <1>7 DEF Moved
  <2> QED BY <1>1, <2>1, EndStands
<1> QED BY <1>5, <1>6, <1>7

(* os.replace keeps the invariant, though it may put a checkpoint in place of *)
(* one with other origins: the content is that of the known answer.          *)
LEMMA ReplaceStands ==
    ASSUME IInv, NEW p \in Processes, Replace(p)
    PROVE  IInv'
<1> DEFINE l == run[p]
           batch == BatchOf(l)
           c == Entry(batch, l.drafts)
           cs == (checkpoints \ Stored(batch)) \cup {c}
           m == Advance(l, l.drafts)
<1>1. /\ l.pc = "replace" /\ overlapped' = overlapped /\ checkpoints' = cs
      /\ UNCHANGED <<reducedScope, responses, candidateFiles, reportFiles>>
      /\ Moved(run, run', p, m)
  BY DEF Replace, At, Entry, Moved
<1>2. /\ Busy(l) /\ Face(l) \in Faces(run) /\ Place(l) \in Places(run) /\ l.pc \in Asking
      /\ ~overlapped => Working(run) \subseteq {p}
  BY <1>1, WorkingFacts DEF Asking
<1>3. Entry(batch, Content(l.drafts)) \in Known(responses)
  BY <1>1 DEF IInv, Stands, Held
<1>4. l.drafts \in Seq(Candidate) /\ overlapped' \in BOOLEAN
  BY <1>1, <1>2 DEF Busy, IInv
<1>5. /\ Stands(reducedScope, run, responses, checkpoints, candidateFiles, reportFiles)
      /\ Answering(responses) /\ Kept(checkpoints, responses) /\ Typed(run) /\ reducedScope \in BOOLEAN
  BY DEF IInv, Stands
<1>6. c.batch = batch /\ c.candidates = l.drafts /\ c \in cs
  BY DEF Entry
<1> DEFINE d == l.drafts
<1> HIDE DEF c
<1>7. Kept(cs, responses)
  <2>1. \A x \in cs : x = c \/ (x \in checkpoints /\ x.batch # batch)
    BY DEF Stored
  <2> HIDE DEF cs, batch
  <2>2. Single(cs)
    BY <1>5, <1>6, <2>1 DEF Kept, Single
  <2> QED BY <1>3, <1>4, <1>5, <1>6, <2>1, <2>2 DEF Kept
<1>8. Stands(reducedScope, run, responses, cs, candidateFiles, reportFiles)
  BY <1>5, <1>7 DEF Stands
<1> HIDE DEF l
<1>9. Busy(m) /\ m.pc \in {"get", "validate"}
  BY <1>2, <1>4, Advances
<1>10. Reached(Face(m), Faces(run), Known(responses), reducedScope)
  BY <1>2, <1>3, <1>4, AdvanceReaches
<1>11. Reached(Place(m), Places(run), cs, reducedScope)
  <2> HIDE DEF cs
  <2> QED BY <1>2, <1>4, <1>6, AdvancePlace
<1> HIDE DEF m, cs
<1>12. Proper(m, reducedScope, responses, candidateFiles) /\ m.pc \notin {"check", "replace"}
  BY <1>9 DEF Proper
<1> DEFINE s == run'
<1>13. Moved(run, s, p, m) /\ Requests(run, p, responses, responses)
  BY <1>1 DEF Requests
<1> HIDE DEF s
<1>14. Stands(reducedScope, s, responses, cs, candidateFiles, reportFiles)
  BY <1>5, <1>8, <1>10, <1>12, <1>13, Moves
<1>15. ASSUME ~overlapped' PROVE Private(reducedScope, s, cs, candidateFiles)
  <2>1. ~overlapped /\ Working(run) \subseteq {p} /\ Private(reducedScope, run, checkpoints, candidateFiles)
    BY <1>1, <1>2, <1>15 DEF IInv
  <2>2. \A x \in checkpoints : x.batch # batch
    BY <1>1, <2>1 DEF Private, l
  <2>3. checkpoints \subseteq cs
    BY <2>2 DEF cs, Stored
  <2>4. Sure(cs)
    BY <1>5, <1>7, KeptFacts
  <2> QED BY <1>5, <1>9, <1>11, <1>12, <1>13, <2>1, <2>3, <2>4, MovesAlone
<1> QED BY <1>1, <1>4, <1>14, <1>15 DEF IInv, s

(* The end of a round keeps the invariant.                                   *)
LEMMA EndRoundStands ==
    ASSUME IInv, NEW p \in Processes, EndRound(p)
    PROVE  IInv'
<1> DEFINE l == run[p]
           new == NewPlan(l, reducedScope)
           candidates == [l EXCEPT !.pc = "candidates"]
           again == [l EXCEPT !.pc = "get", !.plans = Append(@, new), !.batch = 1]
<1>1. /\ l.pc = "validate" /\ overlapped' = overlapped
      /\ UNCHANGED <<reducedScope, responses, checkpoints, candidateFiles, reportFiles>>
  BY DEF EndRound, At
<1>2. run' = [run EXCEPT ![p] = IF Ended(l, reducedScope) THEN candidates
                                ELSE IF new = Refused THEN Idle ELSE again]
  <2> DEFINE ended == Suffices(Level(l)) \/ LastRound(l)
             replacements == PlanReplacements(l.plans, Accepted(l.generated, Validate(l.generated)),
                                              IF reducedScope THEN NormalQuotas ELSE Quotas)
  <2>1. run' = [run EXCEPT ![p] = IF ended THEN candidates ELSE IF replacements = Refused THEN Idle
                                  ELSE [l EXCEPT !.pc = "get", !.plans = Append(@, replacements), !.batch = 1]]
    BY DEF EndRound
  <2>2. replacements = new
    BY DEF NewPlan, Targets
  <2>3. ended <=> Ended(l, reducedScope)
    BY DEF Ended, Suffices
  <2> HIDE DEF ended, replacements, new, candidates, l
  <2> QED BY <2>1, <2>2, <2>3
<1>3. /\ Busy(l) /\ Face(l) \in Faces(run) /\ Place(l) \in Places(run)
      /\ ~overlapped => Working(run) \subseteq {p}
  BY <1>1, WorkingFacts
<1>4. overlapped' \in BOOLEAN
  BY <1>1 DEF IInv
<1>5. CASE Ended(l, reducedScope)
  <2> DEFINE m == candidates
  <2>1. Moved(run, run', p, m)
    BY <1>2, <1>5 DEF Moved
  <2> HIDE DEF l
  <2>2. Busy(m) /\ m.pc = "candidates" /\ Stays(l, m)
    BY <1>1, <1>3 DEF Busy, Stays, Asking, Ending
  <2> HIDE DEF m
  <2>3. Face(m) = Face(l) /\ Place(m) = Place(l)
    BY <2>2, StaysFacts
  <2>4. Ended(m, reducedScope)
    BY <1>5, <2>2 DEF Ended, Level, LastRound, Stays
  <2>5. Proper(m, reducedScope, responses, candidateFiles)
    BY <2>2, <2>4 DEF Proper
  <2>6. /\ Reached(Face(m), Faces(run), Known(responses), reducedScope)
        /\ Reached(Place(m), Places(run), checkpoints, reducedScope)
    BY <1>3, <2>3 DEF Reached
  <2>7. m.pc \notin {"check", "replace"}
    BY <2>2
  <2> QED BY <1>1, <1>3, <1>4, <2>1, <2>5, <2>6, <2>7, MovesOnly
<1>6. CASE ~Ended(l, reducedScope) /\ new # Refused
  <2> DEFINE m == again
  <2>1. Moved(run, run', p, m)
    BY <1>2, <1>6 DEF Moved
  <2> HIDE DEF l
  <2>2. Busy(m) /\ m.pc = "get" /\ RoundTurn(Place(l), Place(m), reducedScope)
        /\ RoundTurn(Face(l), Face(m), reducedScope)
    BY <1>1, <1>3, <1>6, Replans
  <2> HIDE DEF m, new
  <2>3. Proper(m, reducedScope, responses, candidateFiles) /\ m.pc \notin {"check", "replace"}
    BY <2>2 DEF Proper
  <2>4. /\ Reached(Face(m), Faces(run), Known(responses), reducedScope)
        /\ Reached(Place(m), Places(run), checkpoints, reducedScope)
    BY <1>3, <2>2 DEF Reached, Turn
  <2> QED BY <1>1, <1>3, <1>4, <2>1, <2>3, <2>4, MovesOnly
<1>7. CASE ~Ended(l, reducedScope) /\ new = Refused
  <2>1. Moved(run, run', p, Idle) /\ l.pc # "idle"
    BY <1>1, <1>2, <1>7 DEF Moved
  <2> QED BY <1>1, <2>1, EndStands
<1> QED BY <1>5, <1>6, <1>7

(* _write_results, the candidates: they are an end of the trail.             *)
LEMMA WriteCandidatesStands ==
    ASSUME IInv, NEW p \in Processes, WriteCandidates(p)
    PROVE  IInv'
<1> DEFINE l == run[p]
           cf == candidateFiles \cup {l.generated}
           m == [l EXCEPT !.pc = "report"]
           s == run'
<1>1. /\ l.pc = "candidates" /\ overlapped' = overlapped /\ candidateFiles' = cf
      /\ UNCHANGED <<reducedScope, responses, checkpoints, reportFiles>>
  BY DEF WriteCandidates, At
<1>2. Moved(run, s, p, m)
  BY Zenon DEF WriteCandidates, Moved
<1>3. /\ Busy(l) /\ Face(l) \in Faces(run) /\ Place(l) \in Places(run)
      /\ ~overlapped => Working(run) \subseteq {p}
  BY <1>1, WorkingFacts
<1>4. /\ Stands(reducedScope, run, responses, checkpoints, candidateFiles, reportFiles)
      /\ Answering(responses) /\ Kept(checkpoints, responses) /\ Typed(run) /\ reducedScope \in BOOLEAN
      /\ Ended(l, reducedScope) /\ overlapped' \in BOOLEAN
  BY <1>1 DEF IInv, Stands, AtEnd
<1> HIDE DEF s
<1>5. /\ Busy(m) /\ m.pc = "report" /\ m.generated = l.generated /\ Stays(l, m)
      /\ Ended(l, reducedScope) => Ended(m, reducedScope)
  <2> HIDE DEF l
  <2>1. /\ Busy(m) /\ m.pc = "report" /\ m.generated = l.generated /\ Stays(l, m)
    BY <1>1, <1>3 DEF Busy, Stays, Asking, Ending
  <2> HIDE DEF m
  <2>2. Ended(l, reducedScope) => Ended(m, reducedScope)
    BY <2>1 DEF Ended, Level, LastRound, Stays
  <2> QED BY <2>1, <2>2
<1> HIDE DEF m
<1>6. Face(m) = Face(l) /\ Place(m) = Place(l)
  BY <1>5, StaysFacts
<1>7. /\ Face(l).pc = "validate" /\ Face(l).generated = Content(l.generated) /\ Ended(Face(l), reducedScope)
      /\ Place(l).pc = "validate" /\ Place(l).generated = l.generated /\ Ended(Place(l), reducedScope)
  BY <1>1, <1>3, <1>4, FaceFacts DEF Face, Place, Side, Asking
<1>8. l.generated \in Seq(Candidate) /\ l.generated \in cf
  BY <1>3 DEF Busy
<1> HIDE DEF l
<1>9. Filed(run, cf, reportFiles)
  BY <1>4, <1>8 DEF Stands, Filed
<1>10. OneTrail(reducedScope, run, responses, cf)
  <2>1. PICK Pos : /\ Covered(Known(responses), reducedScope, Faces(run), Contents(candidateFiles), Pos)
                   /\ Asked(responses, Pos)
    BY <1>4 DEF Stands, OneTrail
  <2>2. Contents(cf) \subseteq Contents(candidateFiles) \cup {Face(l).generated}
    BY <1>7 DEF Contents
  <2>3. Covered(Known(responses), reducedScope, Faces(run), Contents(cf), Pos)
    BY <1>3, <1>7, <2>1, <2>2, CoveredEnd
  <2> QED BY <2>1, <2>3 DEF OneTrail
<1>11. Stands(reducedScope, run, responses, checkpoints, cf, reportFiles)
  BY <1>4, <1>9, <1>10 DEF Stands
<1>12. Proper(m, reducedScope, responses, cf) /\ m.pc \notin {"check", "replace"}
  BY <1>4, <1>5, <1>8 DEF Proper
<1>13. /\ Reached(Face(m), Faces(run), Known(responses), reducedScope)
       /\ Reached(Place(m), Places(run), checkpoints, reducedScope)
  BY <1>3, <1>6 DEF Reached
<1>14. Requests(run, p, responses, responses)
  BY DEF Requests
<1> HIDE DEF cf
<1>15. Stands(reducedScope, s, responses, checkpoints, cf, reportFiles)
  BY <1>2, <1>4, <1>11, <1>12, <1>13, <1>14, Moves
<1>16. ASSUME ~overlapped' PROVE Private(reducedScope, s, checkpoints, cf)
  <2>1. ~overlapped /\ Working(run) \subseteq {p} /\ Private(reducedScope, run, checkpoints, candidateFiles)
    BY <1>1, <1>3, <1>16 DEF IInv
  <2>2. PICK Pos : Covered(checkpoints, reducedScope, Places(run), candidateFiles, Pos)
    BY <2>1 DEF Private
  <2>3. cf \subseteq candidateFiles \cup {Place(l).generated}
    BY <1>7 DEF cf
  <2>4. Covered(checkpoints, reducedScope, Places(run), cf, Pos)
    BY <1>3, <1>7, <2>2, <2>3, CoveredEnd
  <2>5. Private(reducedScope, run, checkpoints, cf)
    BY <2>1, <2>4 DEF Private
  <2>6. Sure(checkpoints) /\ checkpoints \subseteq checkpoints
    BY <1>4, KeptFacts
  <2> QED BY <1>2, <1>4, <1>5, <1>12, <1>13, <2>1, <2>5, <2>6, MovesAlone
<1> QED BY <1>1, <1>4, <1>15, <1>16 DEF IInv, s

(* _write_results, the report: its candidates are there.                     *)
LEMMA WriteReportStands ==
    ASSUME IInv, NEW p \in Processes, WriteReport(p)
    PROVE  IInv'
<1> DEFINE rf == reportFiles \cup {run[p].generated}
           s == run'
<1>1. /\ run[p].pc = "report" /\ overlapped' = overlapped /\ reportFiles' = rf
      /\ UNCHANGED <<reducedScope, responses, checkpoints, candidateFiles>>
      /\ Moved(run, s, p, Idle)
  BY DEF WriteReport, At, End, Moved
<1> HIDE DEF s
<1>2. /\ Stands(reducedScope, run, responses, checkpoints, candidateFiles, reportFiles)
      /\ Answering(responses) /\ Kept(checkpoints, responses) /\ Typed(run) /\ reducedScope \in BOOLEAN
      /\ overlapped' \in BOOLEAN
  BY <1>1 DEF IInv, Stands
<1>3. ~overlapped => Working(run) \subseteq {p}
  BY <1>1, WorkingFacts
<1>4. Filed(run, candidateFiles, rf)
  BY <1>1, <1>2 DEF Stands, Filed
<1> HIDE DEF rf
<1>5. Stands(reducedScope, run, responses, checkpoints, candidateFiles, rf)
  BY <1>2, <1>4 DEF Stands
<1>6. Requests(run, p, responses, responses)
  BY DEF Requests
<1>7. Stands(reducedScope, s, responses, checkpoints, candidateFiles, rf)
  BY <1>1, <1>2, <1>5, <1>6, IdleFacts, Moves
<1>8. ASSUME ~overlapped' PROVE Private(reducedScope, s, checkpoints, candidateFiles)
  <2>1. Working(run) \subseteq {p} /\ Private(reducedScope, run, checkpoints, candidateFiles)
    BY <1>1, <1>3, <1>8 DEF IInv
  <2>2. Sure(checkpoints) /\ checkpoints \subseteq checkpoints
    BY <1>2, KeptFacts
  <2> QED BY <1>1, <1>2, <2>1, <2>2, IdleFacts, MovesAlone
<1> QED BY <1>1, <1>2, <1>7, <1>8 DEF IInv, s

(* So does every step.                                                       *)
LEMMA NextStands == IInv /\ [Next]_vars => IInv'
<1> SUFFICES ASSUME IInv, [Next]_vars PROVE IInv'
  OBVIOUS
<1>1. ASSUME NEW p \in Processes, Step(p) PROVE IInv'
  <2>1. CASE Start(p)
    BY <2>1, StartStands
  <2>2. CASE Resume(p)
    BY <2>2, ResumeStands
  <2>3. CASE Ask(p)
    BY <2>3, AskStands
  <2>4. CASE Check(p)
    BY <2>4, CheckStands
  <2>5. CASE Replace(p)
    BY <2>5, ReplaceStands
  <2>6. CASE EndRound(p)
    BY <2>6, EndRoundStands
  <2>7. CASE WriteCandidates(p)
    BY <2>7, WriteCandidatesStands
  <2>8. CASE WriteReport(p)
    BY <2>8, WriteReportStands
  <2>9. CASE Crash(p)
    <3>1. run[p].pc # "idle" /\ Moved(run, run', p, Idle)
          /\ UNCHANGED <<reducedScope, responses, checkpoints, candidateFiles, reportFiles, overlapped>>
      BY <2>9 DEF Crash, Active, At, End, Moved
    <3> QED BY <3>1, EndStands
  <2> QED BY <1>1, <2>1, <2>2, <2>3, <2>4, <2>5, <2>6, <2>7, <2>8, <2>9 DEF Step
<1>2. CASE Next
  BY <1>1, <1>2 DEF Next
<1>3. CASE UNCHANGED vars
  BY <1>3 DEF vars, IInv, Stands, Private
<1> QED BY <1>2, <1>3

(* In every behaviour, whatever processes overlap, die and are started again, *)
(* all that was paid for, kept and written belongs to one sequence of batches. *)
THEOREM CampaignInvariant == Spec => []IInv
BY InitStands, NextStands, PTL DEF Spec

-----------------------------------------------------------------------------
(* On one trail everything is in scope.                                      *)
LEMMA OnMeritStands == IInv => RejectionsOnMerit
<1> SUFFICES ASSUME IInv, NEW p \in Processes, At(p, "validate"),
                    NEW rules \in Range(Validate(run[p].generated))
             PROVE  rules \subseteq {"duplicate_question", "unsound"}
  BY DEF RejectionsOnMerit
<1> DEFINE l == run[p]
           c == l.generated
           d == Content(c)
<1>1. l.pc = "validate" /\ Busy(l) /\ Face(l) \in Faces(run)
  BY WorkingFacts DEF At
<1>2. c \in Seq(Candidate) /\ d \in Seq(Candidate) /\ SameContent(c, d)
  <2>1. c \in Seq(Candidate)
    BY <1>1 DEF Busy
  <2> HIDE DEF c
  <2> QED BY <2>1, ContentFacts
<1>3. Validate(c) = Validate(d)
  <2> HIDE DEF c, d
  <2> QED BY <1>2, ValidateSame
<1>4. Sound(Face(l)) /\ Position(Face(l))
  BY <1>1 DEF IInv, Stands, OneTrail, Covered, Trail, Sound
<1>5. Face(l).generated = d /\ Face(l).plans \in Seq(Seq(Job))
  BY <1>4 DEF Face, Position
<1> DEFINE jobs == AllJobs(Face(l).plans)
<1>6. InScope(d, jobs) /\ jobs \in Seq(Job)
  BY <1>4, <1>5, AllJobsType DEF Sound
<1>7. rules \in Range(Validate(d))
  BY <1>3
<1> HIDE DEF d, jobs, l
<1>8. Validate(d) \in Seq(Rules) /\ DOMAIN Validate(d) = 1..Len(d)
  BY <1>2, Validated
<1>9. PICK i \in 1..Len(d) : rules = Validate(d)[i]
  BY <1>7, <1>8 DEF Range
<1>10. Validate(d)[i] = TextRules(Of(d), i, d[i])
  BY <1>2, <1>6, OnMerit
<1> QED BY <1>9, <1>10, TextMerits DEF Merits

(* No candidate is ever rejected because there are enough of its type, document *)
(* or page (plan_replacements, validate_candidates).                         *)
THEOREM RejectionsOnMeritHolds == Spec => []RejectionsOnMerit
BY CampaignInvariant, OnMeritStands, PTL

(* A trail has one end.                                                      *)
LEMMA AgreeStands == IInv => ReportsAgree
<1> SUFFICES ASSUME IInv PROVE ReportsAgree
  OBVIOUS
<1>1. reportFiles \subseteq candidateFiles /\ candidateFiles \subseteq Seq(Candidate)
  BY DEF IInv, Stands, Filed
<1>2. ASSUME NEW f \in candidateFiles, NEW g \in candidateFiles PROVE Content(f) = Content(g)
  <2>1. PICK Pos : Covered(Known(responses), reducedScope, Faces(run), Contents(candidateFiles), Pos)
    BY DEF IInv, Stands, OneTrail
  <2>2. Content(f) \in Contents(candidateFiles) /\ Content(g) \in Contents(candidateFiles)
    BY DEF Contents
  <2>3. PICK t \in Pos : t.pc = "validate" /\ Ended(t, reducedScope) /\ Content(f) = t.generated
    BY <2>1, <2>2 DEF Covered
  <2>4. PICK u \in Pos : u.pc = "validate" /\ Ended(u, reducedScope) /\ Content(g) = u.generated
    BY <2>1, <2>2 DEF Covered
  <2>5. t = u
    BY <2>1, <2>3, <2>4, OneEnd DEF Covered
  <2> QED BY <2>3, <2>4, <2>5
<1>3. ASSUME ~overlapped PROVE Cardinality(candidateFiles) <= 1
  <2>1. PICK Pos : Covered(checkpoints, reducedScope, Places(run), candidateFiles, Pos)
    BY <1>3 DEF IInv, Private
  <2>2. \A f, g \in candidateFiles : f = g
    <3> SUFFICES ASSUME NEW f \in candidateFiles, NEW g \in candidateFiles PROVE f = g
      OBVIOUS
    <3>1. PICK t \in Pos : t.pc = "validate" /\ Ended(t, reducedScope) /\ f = t.generated
      BY <2>1 DEF Covered
    <3>2. PICK u \in Pos : u.pc = "validate" /\ Ended(u, reducedScope) /\ g = u.generated
      BY <2>1 DEF Covered
    <3>3. t = u
      BY <2>1, <3>1, <3>2, OneEnd DEF Covered
    <3> QED BY <3>1, <3>2, <3>3
  <2>3. CASE candidateFiles = {}
    BY <2>3, FS_EmptySet
  <2>4. CASE candidateFiles # {}
    <3>1. PICK f \in candidateFiles : TRUE
      BY <2>4
    <3>2. candidateFiles = {f}
      BY <2>2, <3>1
    <3>3. Cardinality({f}) = 1
      BY FS_Singleton
    <3> QED BY <3>2, <3>3
  <2> QED BY <2>3, <2>4
<1> QED BY <1>1, <1>2, <1>3 DEF ReportsAgree

(* All reports of a campaign say the same, and there is one only when no two *)
(* processes overlapped (_write_results, BenchmarkGenerator.generate_batch). *)
THEOREM ReportsAgreeHolds == Spec => []ReportsAgree
BY CampaignInvariant, AgreeStands, PTL

-----------------------------------------------------------------------------
(* Plans that others continue are their beginning.                           *)
LEMMA Prefix ==
    ASSUME NEW few \in Seq(Seq(Job)), NEW many \in Seq(Seq(Job)), Extends(many, few)
    PROVE  few = SubSeq(many, 1, Len(few))
<1> DEFINE n == Len(few)
           s == SubSeq(many, 1, n)
<1>1. n \in Nat /\ n <= Len(many) /\ Len(many) \in Nat /\ \A i \in 1..n : few[i] = many[i]
  BY DEF Extends
<1>2. s = [i \in 1..n |-> many[i]]
  BY <1>1
<1>3. few = [i \in 1..n |-> few[i]]
  OBVIOUS
<1>4. [i \in 1..n |-> many[i]] = [i \in 1..n |-> few[i]]
  <2> DEFINE D == 1..n
  <2>1. \A i \in D : few[i] = many[i]
    BY <1>1
  <2> HIDE DEF D
  <2>2. [i \in D |-> many[i]] = [i \in D |-> few[i]]
    BY <2>1
  <2> QED BY <2>2 DEF D
<1> QED BY <1>2, <1>3, <1>4, Zenon

(* A trail has one position for each place, and there are Projected places.  *)
LEMMA ScopeStands == IInv => ConfirmedScope
<1> SUFFICES ASSUME IInv PROVE ConfirmedScope
  OBVIOUS
<1> DEFINE I == 1..(MaxRounds + 1)
           B == Len(Batches(Plan))
           J == 1..B
           At2(x) == <<Len(x.batch.plans), x.batch.number>>
<1>1. PICK Pos : /\ Covered(Known(responses), reducedScope, Faces(run), Contents(candidateFiles), Pos)
                 /\ Asked(responses, Pos)
  BY DEF IInv, Stands, OneTrail
<1>2. /\ \A t \in Pos : Sound(t)
      /\ \A t, u \in Pos : SamePlace(t, u) => t = u
      /\ \A t, u \in Pos : Len(t.plans) <= Len(u.plans) => Extends(u.plans, t.plans)
  BY <1>1 DEF Covered, Trail
<1>3. \A x \in responses : \E t \in Pos :
        t.pc = "get" /\ x.batch = BatchOf(t) /\ x.batch.plans = t.plans /\ x.batch.number = t.batch
  BY <1>1 DEF Asked, BatchOf
<1>4. Single(responses)
  BY DEF IInv, Stands, Answering
<1>5. B \in Nat
  <2>1. CASE Plan = <<>>
    <3>1. Plan \in Seq(Job)
      BY <2>1
    <3> QED BY <3>1, BatchesOf
  <2>2. CASE Plan # <<>>
    BY <2>2, ScopeFirst, BatchesOf
  <2> QED BY <2>1, <2>2
<1>6. \A t \in Pos : t.pc = "get" => Len(t.plans) \in I /\ t.batch \in J
  <2> SUFFICES ASSUME NEW t \in Pos, t.pc = "get" PROVE Len(t.plans) \in I /\ t.batch \in J
    OBVIOUS
  <2> DEFINE jobs == Jobs(t)
  <2>1. /\ t.plans \in Seq(Seq(Job)) /\ Len(t.plans) \in 1..Len(t.plans) /\ Len(t.plans) <= MaxRounds + 1
        /\ t.batch \in Nat \ {0} /\ t.batch <= Len(Batches(jobs))
        /\ jobs # <<>> /\ Len(jobs) <= Len(Plan) /\ Plan # <<>>
    BY <1>2 DEF Sound, Position
  <2>2. jobs \in Seq(Job) /\ Plan \in Seq(Job)
    BY <2>1, ScopeFirst DEF Jobs
  <2> HIDE DEF jobs
  <2>3. Len(Batches(jobs)) \in Nat
    BY <2>2, BatchesOf
  <2>4. Len(Batches(jobs)) <= B
    BY <2>1, <2>2, BatchesMonotone
  <2> HIDE DEF B
  <2> QED BY <1>5, <2>1, <2>3, <2>4, CampaignAssumption
<1>7. \A x, y \in responses : At2(x) = At2(y) => x = y
  <2> SUFFICES ASSUME NEW x \in responses, NEW y \in responses, At2(x) = At2(y) PROVE x = y
    OBVIOUS
  <2>1. PICK t \in Pos : x.batch = BatchOf(t) /\ x.batch.plans = t.plans /\ x.batch.number = t.batch
    BY <1>3
  <2>2. PICK u \in Pos : y.batch = BatchOf(u) /\ y.batch.plans = u.plans /\ y.batch.number = u.batch
    BY <1>3
  <2>3. SamePlace(t, u)
    BY <2>1, <2>2 DEF SamePlace
  <2>4. t = u
    BY <1>2, <2>3
  <2> QED BY <1>4, <2>1, <2>2, <2>4 DEF Single
<1>8. \A x \in responses : At2(x) \in I \X J
  BY <1>3, <1>6
<1>9. /\ IsFiniteSet(I) /\ Cardinality(I) = MaxRounds + 1
      /\ IsFiniteSet(J) /\ Cardinality(J) = B
  <2>1. 1 \in Int /\ MaxRounds + 1 \in Int /\ B \in Int
    BY <1>5, CampaignAssumption
  <2> HIDE DEF B
  <2>2. IsFiniteSet(1..(MaxRounds + 1)) /\ IsFiniteSet(1..B)
    BY <2>1, FS_Interval
  <2>3. Cardinality(1..(MaxRounds + 1)) = IF 1 > MaxRounds + 1 THEN 0 ELSE (MaxRounds + 1) - 1 + 1
    BY <2>1, FS_Interval
  <2>4. Cardinality(1..B) = IF 1 > B THEN 0 ELSE B - 1 + 1
    BY <2>1, FS_Interval
  <2> QED BY <1>5, <2>2, <2>3, <2>4, CampaignAssumption
<1> HIDE DEF I, J, B, At2
<1>10. IsFiniteSet(I \X J) /\ Cardinality(I \X J) = Cardinality(I) * Cardinality(J)
  BY <1>9, FS_Product
<1> DEFINE f == [x \in responses |-> At2(x)]
<1>11. f \in Injection(responses, I \X J)
  <2>1. f \in [responses -> I \X J]
    BY <1>8
  <2>2. \A x, y \in responses : f[x] = f[y] => x = y
    BY <1>7
  <2> HIDE DEF f
  <2> QED BY <2>1, <2>2 DEF Injection, IsInjective
<1>12. Cardinality(responses) <= Cardinality(I \X J)
  BY <1>10, <1>11, FS_Injection
<1>13. Cardinality(responses) <= Projected
  <2>1. (MaxRounds + 1) * B = B * (MaxRounds + 1)
    BY <1>5, CampaignAssumption
  <2> QED BY <1>9, <1>10, <1>12, <2>1 DEF Projected, B
<1>14. ASSUME NEW x \in responses, NEW y \in responses, Len(x.batch.plans) <= Len(y.batch.plans)
       PROVE  x.batch.plans = SubSeq(y.batch.plans, 1, Len(x.batch.plans))
  <2>1. PICK t \in Pos : x.batch.plans = t.plans
    BY <1>3
  <2>2. PICK u \in Pos : y.batch.plans = u.plans
    BY <1>3
  <2>3. Extends(u.plans, t.plans)
    BY <1>2, <1>14, <2>1, <2>2
  <2>4. t.plans \in Seq(Seq(Job)) /\ u.plans \in Seq(Seq(Job))
    BY <1>2, PlaceType
  <2> QED BY <2>1, <2>2, <2>3, <2>4, Prefix
<1> QED BY <1>13, <1>14 DEF ConfirmedScope

(* All invocations together ask for no more batches than the operator confirmed, *)
(* and all in one sequence of plans (generation_campaign_hash,               *)
(* projected_generation_cost).                                               *)
THEOREM ConfirmedScopeHolds == Spec => []ConfirmedScope
BY CampaignInvariant, ScopeStands, PTL

=============================================================================
