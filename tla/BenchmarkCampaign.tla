--------------------------- MODULE BenchmarkCampaign ---------------------------
(***************************************************************************)
(* A benchmark generation campaign: _run of scripts/generate_benchmark.py, *)
(* BenchmarkGenerator and FileBatchRepository (benchmark/generation.py),   *)
(* in any number of processes with the same arguments, which may die       *)
(* anywhere and be started again.                                          *)
(*                                                                         *)
(* A plan's hash commits to its jobs and to the plans before it, so a      *)
(* batch is identified by the plans up to its own and its number.  What    *)
(* the gateway answers to a batch is kept here by the batch: the gateway   *)
(* pays for a request once and replays its response.  A candidate's id is  *)
(* its plan and ordinal, which its place among all candidates stands for.  *)
(* The correlation id and cache flag of a candidate are its origin: the    *)
(* process for which the response was paid, or Replayed.                   *)
(***************************************************************************)
EXTENDS BenchmarkPlan

CONSTANTS Processes,
          Drafts,        \* what a model may write
          MaxRounds,     \* --max-replacement-rounds
          Budget,        \* what the project may spend, in batches
          None,
          MaxStarts      \* bound: invocations of the script

Replayed == "replayed"

ASSUME CampaignAssumption ==
    /\ MaxRounds \in Nat /\ Budget \in Nat /\ MaxStarts \in Nat

VARIABLES reducedScope, \* the campaign's --allow-reduced-scope
          responses,    \* the gateway: what it was answered, batch by batch
          checkpoints,  \* the files of the repository
          candidateFiles, reportFiles,
          run,          \* the local variables of each process
          overlapped,   \* history: two processes were active at once
          starts

vars == <<reducedScope, responses, checkpoints, candidateFiles, reportFiles, run,
          overlapped, starts>>

Idle == [pc |-> "idle"]

Init ==
    /\ reducedScope \in BOOLEAN
    /\ responses = {} /\ checkpoints = {}
    /\ candidateFiles = {} /\ reportFiles = {}
    /\ run = [p \in Processes |-> Idle]
    /\ overlapped = FALSE /\ starts = 0

At(p, pc) == run[p].pc = pc
Active(p) == ~At(p, "idle")
End(p) == run' = [run EXCEPT ![p] = Idle]

Jobs(local) == local.plans[Len(local.plans)]
BatchOf(local) == [plans |-> local.plans, number |-> local.batch]
JobsOf(batch) == Batches(batch.plans[Len(batch.plans)])[batch.number]

\* Every batch that was answered is paid for; a plan's batches are all priced
\* at the same maximum here.
Remaining == Budget - Cardinality(responses)
Projected == Len(Batches(Plan)) * (MaxRounds + 1)

\* _run up to the loop: the plan and generation_execution_blockers.
Start(p) ==
    /\ At(p, "idle") /\ starts < MaxStarts
    /\ Plan # Refused /\ Projected < Remaining
    /\ run' = [run EXCEPT ![p] =
         [pc |-> "get", plans |-> <<Plan>>, batch |-> 1, generated |-> <<>>, drafts |-> <<>>]]
    /\ starts' = starts + 1
    /\ overlapped' = (overlapped \/ \E q \in Processes : Active(q))
    /\ UNCHANGED <<reducedScope, responses, checkpoints, candidateFiles, reportFiles>>

\* _validate_candidate_window
InWindow(draft, window) == draft.page \in Pages(window)

\* What generate_batch can make of a response: candidates for all of the jobs,
\* or nothing, which it raises on.
Answers(jobs) ==
    {<<>>} \cup {ds \in [DOMAIN jobs -> Drafts] :
                   \A i \in DOMAIN jobs : InWindow(ds[i], jobs[i].window)}

Authoritative(jobs, drafts, origin) ==
    [i \in DOMAIN jobs |-> [kind |-> jobs[i].kind, question |-> drafts[i].question,
                            page |-> drafts[i].page, sound |-> drafts[i].sound,
                            origin |-> origin]]

Stored(batch) == {c \in checkpoints : c.batch = batch}
Answered(batch) == {r \in responses : r.batch = batch}

\* The next batch, or the validation of the round.
Advance(local, candidates) ==
    [local EXCEPT !.generated = @ \o candidates, !.drafts = <<>>,
                  !.pc = IF local.batch = Len(Batches(Jobs(local))) THEN "validate" ELSE "get",
                  !.batch = @ + 1]

\* generate_batch, when there is a checkpoint of this very plan.
Resume(p) ==
    /\ At(p, "get")
    /\ \E c \in Stored(BatchOf(run[p])) :
         run' = [run EXCEPT ![p] = Advance(@, c.candidates)]
    /\ UNCHANGED <<responses, checkpoints, candidateFiles, reportFiles>>
    /\ UNCHANGED <<reducedScope, overlapped, starts>>

\* Mutant: the gateway pays again for what it was answered.
Ask_Afresh(p) ==
    LET batch == BatchOf(run[p]) IN
    /\ At(p, "get") /\ Stored(batch) = {}
    /\ \E drafts \in Answers(JobsOf(batch)) :
         /\ responses' = responses \cup {[batch |-> batch, drafts |-> drafts]}
         /\ run' = [run EXCEPT ![p] =
              IF drafts = <<>> THEN Idle
              ELSE [@ EXCEPT !.pc = "check", !.drafts = Authoritative(JobsOf(batch), drafts, p)]]
    /\ UNCHANGED <<checkpoints, candidateFiles, reportFiles>>
    /\ UNCHANGED <<reducedScope, overlapped, starts>>

\* generate_batch, when there is none: the gateway, paid or replayed, and what
\* is made of the response.
Ask(p) ==
    LET batch == BatchOf(run[p])
        paid == Answered(batch) = {}
    IN
    /\ At(p, "get") /\ Stored(batch) = {}
    /\ \E r \in IF paid THEN [batch : {batch}, drafts : Answers(JobsOf(batch))]
                ELSE Answered(batch) :
         /\ responses' = responses \cup {r}
         /\ run' = [run EXCEPT ![p] =
              IF r.drafts = <<>> THEN Idle
              ELSE [@ EXCEPT !.pc = "check",
                             !.drafts = Authoritative(JobsOf(batch), r.drafts,
                                                      IF paid THEN p ELSE Replayed)]]
    /\ UNCHANGED <<checkpoints, candidateFiles, reportFiles>>
    /\ UNCHANGED <<reducedScope, overlapped, starts>>

\* FileBatchRepository.put as far as the open: a checkpoint that another
\* process wrote is to be the same to the byte.
Check(p) ==
    /\ At(p, "check")
    /\ run' = [run EXCEPT ![p] =
         IF Stored(BatchOf(@)) = {} THEN [@ EXCEPT !.pc = "replace"]
         ELSE IF \E c \in Stored(BatchOf(@)) : c.candidates = @.drafts
         THEN Advance(@, @.drafts) ELSE Idle]
    /\ UNCHANGED <<responses, checkpoints, candidateFiles, reportFiles>>
    /\ UNCHANGED <<reducedScope, overlapped, starts>>

\* os.replace, whatever is there by now.
Replace(p) ==
    LET batch == BatchOf(run[p]) IN
    /\ At(p, "replace")
    /\ checkpoints' = (checkpoints \ Stored(batch))
                      \cup {[batch |-> batch, candidates |-> run[p].drafts]}
    /\ run' = [run EXCEPT ![p] = Advance(@, @.drafts)]
    /\ UNCHANGED <<responses, candidateFiles, reportFiles>>
    /\ UNCHANGED <<reducedScope, overlapped, starts>>

Level(local) ==
    CompletionLevel(Accepted(local.generated, Validate(local.generated)))

Suffices(level) == level = "target" \/ (reducedScope /\ level = "normal_floor")

LastRound(local) == Len(local.plans) = MaxRounds + 1

\* The end of a round: the results are written, or what is missing is planned
\* again; where that cannot be, all of it was for nothing.
EndRound(p) ==
    LET accepted == Accepted(run[p].generated, Validate(run[p].generated))
        targets == IF reducedScope THEN NormalQuotas ELSE Quotas
        replacements == PlanReplacements(run[p].plans, accepted, targets)
    IN
    /\ At(p, "validate")
    /\ run' = [run EXCEPT ![p] =
         IF Suffices(Level(@)) \/ LastRound(@) THEN [@ EXCEPT !.pc = "candidates"]
         ELSE IF replacements = Refused THEN Idle
         ELSE [@ EXCEPT !.pc = "get", !.plans = Append(run[p].plans, replacements),
                        !.batch = 1]]
    /\ UNCHANGED <<responses, checkpoints, candidateFiles, reportFiles>>
    /\ UNCHANGED <<reducedScope, overlapped, starts>>

\* _write_results: the files are named after all that is in them.
WriteCandidates(p) ==
    /\ At(p, "candidates")
    /\ candidateFiles' = candidateFiles \cup {run[p].generated}
    /\ run' = [run EXCEPT ![p].pc = "report"]
    /\ UNCHANGED <<responses, checkpoints, reportFiles>>
    /\ UNCHANGED <<reducedScope, overlapped, starts>>

WriteReport(p) ==
    /\ At(p, "report")
    /\ reportFiles' = reportFiles \cup {run[p].generated}
    /\ End(p)
    /\ UNCHANGED <<responses, checkpoints, candidateFiles>>
    /\ UNCHANGED <<reducedScope, overlapped, starts>>

\* The process dies.  A request that was sent is answered and paid for by then
\* or was never sent.
Crash(p) ==
    /\ Active(p)
    /\ End(p)
    /\ UNCHANGED <<responses, checkpoints, candidateFiles, reportFiles>>
    /\ UNCHANGED <<reducedScope, overlapped, starts>>

Step(p) ==
    \/ Start(p) \/ Resume(p) \/ Ask(p) \/ Check(p) \/ Replace(p) \/ EndRound(p)
    \/ WriteCandidates(p) \/ WriteReport(p)
    \/ Crash(p)

Next == \E p \in Processes : Step(p)

Spec == Init /\ [][Next]_vars

-----------------------------------------------------------------------------
(* Properties *)

\* Whatever the model writes, no candidate is ever rejected because there are
\* enough of its type, its document or its page: the plans of a campaign ask
\* for no more than validation takes (plan_replacements, validate_candidates).
RejectionsOnMerit ==
    \A p \in Processes : At(p, "validate") =>
        \A rules \in Range(Validate(run[p].generated)) :
           rules \subseteq {"duplicate_question", "unsound"}

Content(generated) ==
    [i \in DOMAIN generated |-> [generated[i] EXCEPT !.origin = None]]

\* All reports of a campaign, written by whichever process and after whatever
\* crashes and restarts, say the same of the same candidates, and there is one
\* only, its candidates beside it, unless two processes overlapped.
ReportsAgree ==
    /\ reportFiles \subseteq candidateFiles
    /\ \A f, g \in candidateFiles : Content(f) = Content(g)
    /\ ~overlapped => Cardinality(candidateFiles) <= 1

\* All invocations together ask for no more batches than the operator was shown
\* and confirmed, and all in one sequence of plans: one that resumes plans as
\* the others did (generation_campaign_hash, projected_generation_cost).
ConfirmedScope ==
    /\ Cardinality(responses) <= Projected
    /\ \A r, s \in responses :
         Len(r.batch.plans) <= Len(s.batch.plans)
           => r.batch.plans = SubSeq(s.batch.plans, 1, Len(r.batch.plans))
================================================================================
