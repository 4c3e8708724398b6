----------------------------- MODULE BenchmarkPlan -----------------------------
(***************************************************************************)
(* The planner of benchmark generation (GenerationPlanner,                 *)
(* benchmark/generation.py) and the validation of what was generated       *)
(* (validate_candidates, benchmark/validation.py).                         *)
(*                                                                         *)
(* A question type is a number: its place in the quotas.  A window is a    *)
(* record [doc, pages], a page the pair of its document and its number.    *)
(* A draft is what a model writes for a job: the question, the page of its *)
(* evidence (or of the fact it transforms) and whether the rules about the *)
(* text of evidence, answer and transformation find nothing.               *)
(***************************************************************************)
EXTENDS Naturals, Sequences, FiniteSets, SequencesExt

CONSTANTS Quotas,        \* how many questions of each type
          NormalQuotas,  \* the same for a reduced scope
          Windows,       \* the source windows, in the planner's order
          DocumentCap, PageCap, BatchSize,
          Similar        \* pairs of questions that are near duplicates

ASSUME PlanAssumption ==
    /\ Quotas \in Seq(Nat \ {0}) /\ NormalQuotas \in Seq(Nat \ {0})
    /\ Len(NormalQuotas) = Len(Quotas)
    /\ \A t \in DOMAIN Quotas : NormalQuotas[t] <= Quotas[t]
    /\ Windows \in Seq(Range(Windows))
    /\ DocumentCap \in Nat \ {0} /\ PageCap \in Nat \ {0} /\ BatchSize \in Nat \ {0}

Refused == <<>>   \* a raised exception

Types == DOMAIN Quotas
Pages(window) == {<<window.doc, page>> : page \in window.pages}

OfDocument(jobs, doc) == Cardinality({i \in DOMAIN jobs : jobs[i].window.doc = doc})
OfPage(jobs, page) == Cardinality({i \in DOMAIN jobs : page \in Pages(jobs[i].window)})

\* Mutant: the caps are those of each plan by itself.
Fits_ByRound(prior, jobs, window) ==
    /\ OfDocument(jobs, window.doc) < DocumentCap
    /\ \A page \in Pages(window) : OfPage(jobs, page) < PageCap

\* Neither the document nor a page of the window is at its cap.
Fits(prior, jobs, window) ==
    /\ OfDocument(prior \o jobs, window.doc) < DocumentCap
    /\ \A page \in Pages(window) : OfPage(prior \o jobs, page) < PageCap

\* One more job: the next window that fits, starting after the window of the
\* job before.  Where none fits there is none, and no plan.
AddJob(on, some, kind) ==
    LET n == Len(on.windows)
        After(offset) == ((some.last + offset - 1) % n) + 1
        fitting == {o \in 1..n : Fits(on.prior, some.jobs, on.windows[After(o)])}
        index == After(Min(fitting))
    IN IF some.last = 0 \/ fitting = {} THEN [jobs |-> Refused, last |-> 0]
       ELSE [jobs |-> Append(some.jobs, [kind |-> kind, window |-> on.windows[index]]),
             last |-> index]

\* A job for each of the kinds; prior are the jobs of earlier plans.
JobsFor(kinds, windows, prior) ==
    FoldLeft(LAMBDA some, kind : AddJob([windows |-> windows, prior |-> prior], some, kind),
             [jobs |-> <<>>, last |-> Len(windows)], kinds).jobs

AddKind(counts, kinds, t) == kinds \o [i \in 1..counts[t] |-> t]

Expanded(counts) ==
    FoldLeft(LAMBDA kinds, t : AddKind(counts, kinds, t), <<>>, [t \in DOMAIN counts |-> t])

Total(counts) == FoldLeft(LAMBDA sum, n : sum + n, 0, counts)

\* GenerationPlanner.plan
Plan ==
    LET documents == {w.doc : w \in Range(Windows)}
        pages == UNION {Pages(w) : w \in Range(Windows)}
        capacity == Min({Cardinality(documents) * DocumentCap, Cardinality(pages) * PageCap})
    IN IF Windows = <<>> \/ capacity < Total(Quotas) THEN Refused
       ELSE JobsFor(Expanded(Quotas), Windows, <<>>)

Deficits(accepted, targets) ==
    [t \in Types |-> IF accepted[t] < targets[t] THEN targets[t] - accepted[t] ELSE 0]

\* The distinct windows of the first plan, in the order of their first jobs.
WindowsOf(jobs) ==
    FoldLeft(LAMBDA some, j : IF Contains(some, j.window) THEN some
                              ELSE Append(some, j.window), <<>>, jobs)

AllJobs(plans) == FoldLeft(\o, <<>>, plans)

\* GenerationPlanner.plan_replacements: the missing questions, over the windows
\* of the first plan, under caps that count the jobs of all plans.
PlanReplacements(plans, accepted, targets) ==
    JobsFor(Expanded(Deficits(accepted, targets)), WindowsOf(plans[1]), AllJobs(plans))

Batches(jobs) ==
    [b \in 1..((Len(jobs) + BatchSize - 1) \div BatchSize) |->
       SubSeq(jobs, (b - 1) * BatchSize + 1, Min({b * BatchSize, Len(jobs)}))]

-----------------------------------------------------------------------------
(* Validation *)

\* The groups among the first m candidates, as their least members, from those
\* among the candidates before m.
JoinGroups(candidates, group, m) ==
    LET Near(i) == <<candidates[i].question, candidates[m].question>> \in Similar
        near == {group[i] : i \in {i \in 1..(m - 1) : Near(i)}} \cup {m}
    IN [i \in DOMAIN candidates |-> IF group[i] \in near THEN Min(near) ELSE group[i]]

\* _duplicate_groups: the questions that similarity connects to one before;
\* the first of each group is not a duplicate.
Duplicates(candidates) ==
    LET each == [i \in DOMAIN candidates |-> i]
        group == FoldLeft(LAMBDA g, m : JoinGroups(candidates, g, m), each, each)
    IN {i \in DOMAIN candidates : group[i] # i}

\* What is wrong with the n-th candidate alone.
TextRules(of, n, c) ==
    (IF n \in of.duplicates THEN {"duplicate_question"} ELSE {})
    \cup (IF c.sound THEN {} ELSE {"unsound"})

\* The rules that the next candidate breaks.  Quotas and caps count what was
\* accepted before.
Judge(of, rules, c) ==
    LET accepted == {i \in DOMAIN rules : rules[i] = {}}
        text == TextRules(of, Len(rules) + 1, c)
        kinds == {i \in accepted : of.candidates[i].kind = c.kind}
        documents == {i \in accepted : of.candidates[i].page[1] = c.page[1]}
        pages == {i \in accepted : of.candidates[i].page = c.page}
    IN Append(rules,
         IF text # {} THEN text
         ELSE IF Cardinality(kinds) >= Quotas[c.kind] THEN {"type_quota_exceeded"}
         ELSE IF Cardinality(documents) >= DocumentCap THEN {"per_document_cap_exceeded"}
         ELSE IF Cardinality(pages) >= PageCap THEN {"per_page_cap_exceeded"}
         ELSE {})

\* validate_candidates: for each candidate the rules it breaks.
Validate(candidates) ==
    LET duplicates == Duplicates(candidates) IN
    FoldLeft(LAMBDA rules, c :
                 Judge([candidates |-> candidates, duplicates |-> duplicates], rules, c),
             <<>>, candidates)

\* ValidationReport.type_distribution
Accepted(candidates, rules) ==
    [t \in Types |-> Cardinality({i \in DOMAIN rules : rules[i] = {} /\ candidates[i].kind = t})]

CompletionLevel(accepted) ==
    CASE Total(Deficits(accepted, Quotas)) = 0 -> "target"
      [] Total(Deficits(accepted, Quotas)) > 0 /\ Total(Deficits(accepted, NormalQuotas)) = 0 ->
           "normal_floor"
      [] OTHER -> "insufficient"
==============================================================================
