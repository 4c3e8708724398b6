---------------------------- MODULE ExperimentRun ----------------------------
(***************************************************************************)
(* One experiment run on disk and the processes that execute it:           *)
(* FileExperimentRepository and ExperimentRunner.run,                      *)
(* experiments/runner.py.                                                  *)
(*                                                                         *)
(* The run is a directory: state.json (replaced atomically), history/ (one *)
(* file per transition, written after the state), results/ (one exclusive  *)
(* file per question) and errors/.  Nothing locks it.  A runner is one     *)
(* invocation of run() after another; inside it, the tasks of its worker   *)
(* pool are the questions.  Code between two awaits is one action, except  *)
(* that the writes of state.json and of history/ are actions of their own, *)
(* because other processes and crashes come in between.                    *)
(***************************************************************************)
EXTENDS Integers, FiniteSets, Sequences, FiniteSetsExt, SequencesExt

CONSTANTS Runners,        \* processes an operator may run on the directory
          NoRunner,
          Questions,      \* config.question_ids, numbered in their order
          Concurrency,    \* runtime.concurrency
          BatchCap,       \* runtime.batch_cap
          ErrorWindow,    \* runtime.error_window
          SchemaStop,     \* schema errors in a full window that stop the run
          ProviderStop,   \* provider errors in a full window that stop it
          MaxAttempts,    \* bound: invocations of run()
          MaxCrashes      \* bound: crashes

ASSUME RunAssumption ==
    /\ NoRunner \notin Runners
    /\ Questions \subseteq Nat /\ IsFiniteSet(Questions)
    /\ Concurrency \in Nat \ {0} /\ ErrorWindow \in Nat \ {0}
    /\ BatchCap \in 1..Cardinality(Questions)
    /\ SchemaStop \in 1..ErrorWindow /\ ProviderStop \in 1..ErrorWindow
    /\ MaxAttempts \in Nat /\ MaxCrashes \in Nat

VARIABLES disk,       \* "absent", "partial" (create() under way or cut off), "ready"
          state,      \* state.json
          history,    \* the statuses under history/, oldest first
          saved,      \* results/: the runner that saved a question's result
          phase,      \* where each runner is
          mine,       \* a runner's local variables
          closing,    \* the state a runner is about to write
          tripped,    \* an error threshold was passed and no diagnosis given since
          overlap,    \* two runners were inside run() at the same time
          attempts, crashes

vars == <<disk, state, history, saved, phase, mine, closing, tripped, overlap,
          attempts, crashes>>

Statuses == {"planned", "running", "completed", "failed", "cancelled", "stopped"}
Reasons == {"none", "schema_error_threshold", "provider_error_threshold",
            "budget_exhausted", "batch_cap", "operator_cancelled"}
ThresholdReasons == {"schema_error_threshold", "provider_error_threshold"}
Kinds == {"ok", "schema", "provider", "other"}
Phases == {"idle", "creating", "starting", "opening", "running", "closing", "logging"}

RunState == [status : Statuses, completed : SUBSET Questions,
             failed : SUBSET Questions, reason : Reasons]
Local == [completed : SUBSET Questions, failed : SUBSET Questions,
          todo : SUBSET Questions, executing : SUBSET Questions,
          stop : Reasons, recent : Seq(Kinds)]

Planned == [status |-> "planned", completed |-> {}, failed |-> {}, reason |-> "none"]
Fresh == [completed |-> {}, failed |-> {}, todo |-> {}, executing |-> {},
          stop |-> "none", recent |-> <<>>]

(* _TRANSITIONS *)
Transitions == [s \in Statuses |->
    CASE s = "planned" -> {"running", "cancelled"}
      [] s = "running" -> {"completed", "failed", "cancelled", "stopped"}
      [] s \in {"failed", "cancelled", "stopped"} -> {"running"}
      [] s = "completed" -> {}]

HasResult == {q \in Questions : saved[q] # NoRunner}

\* Mutant: questions are taken for pending whatever is on disk.
FirstPending_All(done) ==
    {q \in Questions : Cardinality({x \in Questions : x < q}) < BatchCap}

(* pending[: batch_cap], in the order of the config. *)
FirstPending(done) ==
    LET pending == Questions \ done
    IN {q \in pending : Cardinality({x \in pending : x < q}) < BatchCap}

Init ==
    /\ disk = "absent" /\ state = Planned /\ history = <<>>
    /\ saved = [q \in Questions |-> NoRunner]
    /\ phase = [r \in Runners |-> "idle"]
    /\ mine = [r \in Runners |-> Fresh]
    /\ closing = [r \in Runners |-> Planned]
    /\ tripped = FALSE /\ overlap = FALSE
    /\ attempts = 0 /\ crashes = 0

To(r, where) == phase' = [phase EXCEPT ![r] = where]
Set(r, local) == mine' = [mine EXCEPT ![r] = local]
bounds == <<attempts, crashes>>
-----------------------------------------------------------------------------
(* create(): refused when the directory of the semantic hash exists; the   *)
(* directory comes first, state.json and the first history entry last.     *)

CreateDirectory(r) ==
    /\ phase[r] = "idle" /\ disk = "absent"
    /\ To(r, "creating") /\ disk' = "partial"
    /\ UNCHANGED <<state, history, saved, mine, closing, tripped, overlap, bounds>>

WritePlanned(r) ==
    /\ phase[r] = "creating"
    /\ To(r, "idle")
    /\ disk' = "ready" /\ state' = Planned /\ history' = <<"planned">>
    /\ UNCHANGED <<saved, mine, closing, tripped, overlap, bounds>>

(* The start of run(): load, refuse, collect the results, check the        *)
(* transition to running.                                                  *)
BeginAttempt(r, resume, acknowledged) ==
    /\ phase[r] = "idle" /\ disk = "ready" /\ attempts < MaxAttempts
    /\ state.status # "planned" => resume
    /\ state.status = "stopped" /\ state.reason \in ThresholdReasons => acknowledged
    /\ "running" \in Transitions[state.status]
    /\ To(r, "starting")
    /\ Set(r, [Fresh EXCEPT !.completed = HasResult])
    /\ attempts' = attempts + 1
    /\ tripped' = (tripped /\ ~acknowledged)
    /\ overlap' = (overlap \/ \E x \in Runners \ {r} : phase[x] # "idle")
    /\ UNCHANGED <<disk, state, history, saved, closing, crashes>>

WriteRunning(r) ==
    /\ phase[r] = "starting"
    /\ To(r, "opening")
    /\ state' = [status |-> "running", completed |-> mine[r].completed,
                 failed |-> {}, reason |-> "none"]
    /\ UNCHANGED <<disk, history, saved, mine, closing, tripped, overlap, bounds>>

\* Mutant: the transition to running leaves no trace.
LogRunning_Silent(r) ==
    /\ phase[r] = "opening"
    /\ To(r, "running")
    /\ Set(r, [mine[r] EXCEPT !.todo = FirstPending(mine[r].completed)])
    /\ UNCHANGED <<disk, state, history, saved, closing, tripped, overlap, bounds>>

LogRunning(r) ==
    /\ phase[r] = "opening"
    /\ To(r, "running")
    /\ history' = Append(history, "running")
    /\ Set(r, [mine[r] EXCEPT !.todo = FirstPending(mine[r].completed)])
    /\ UNCHANGED <<disk, state, saved, closing, tripped, overlap, bounds>>
-----------------------------------------------------------------------------
(* The worker pool.  Tasks pass the semaphore in the order of the config;  *)
(* once the stop event is set, the tasks not started return at once.       *)

StartQuestion(r) == \E q \in mine[r].todo :
    /\ phase[r] = "running" /\ mine[r].stop = "none"
    /\ \A x \in mine[r].todo : q <= x
    /\ Cardinality(mine[r].executing) < Concurrency
    /\ Set(r, [mine[r] EXCEPT !.todo = @ \ {q}, !.executing = @ \cup {q}])
    /\ UNCHANGED <<disk, state, history, saved, phase, closing, tripped, overlap, bounds>>

\* Mutant: tasks not started when the pool stops wait for it to go on.
SkipRest_Waits(r) == FALSE /\ UNCHANGED vars

SkipRest(r) ==
    /\ phase[r] = "running" /\ mine[r].todo # {} /\ mine[r].stop # "none"
    /\ Cardinality(mine[r].executing) < Concurrency
    /\ Set(r, [mine[r] EXCEPT !.todo = {}])
    /\ UNCHANGED <<disk, state, history, saved, phase, closing, tripped, overlap, bounds>>

Remember(recent, kind) ==
    LET all == Append(recent, kind)
    IN IF Len(all) > ErrorWindow THEN Tail(all) ELSE all

InWindow(recent, kind) == Cardinality({i \in DOMAIN recent : recent[i] = kind})

\* Mutant: an existing result file is replaced.
SaveResult_Replaces(r, q) ==
    LET m == mine[r]
    IN /\ q \in m.executing
       /\ saved' = [saved EXCEPT ![q] = r]
       /\ Set(r, [m EXCEPT !.executing = @ \ {q}, !.completed = @ \cup {q},
                           !.recent = Remember(@, "ok")])
       /\ UNCHANGED tripped

(* save_result links the file exclusively, then the question counts as     *)
(* completed.                                                              *)
SaveResult(r, q) ==
    LET m == mine[r]
    IN /\ q \in m.executing /\ saved[q] = NoRunner
       /\ saved' = [saved EXCEPT ![q] = r]
       /\ Set(r, [m EXCEPT !.executing = @ \ {q}, !.completed = @ \cup {q},
                           !.recent = Remember(@, "ok")])
       /\ UNCHANGED tripped

(* BudgetExceededError stops the run. *)
BudgetExhausted(r, q) ==
    LET m == mine[r]
    IN /\ q \in m.executing
       /\ Set(r, [m EXCEPT !.executing = @ \ {q}, !.failed = @ \cup {q},
                           !.stop = "budget_exhausted"])
       /\ UNCHANGED <<saved, tripped>>

(* Any other exception, also the FileExistsError of a result another       *)
(* runner saved: the window is examined, schema errors first.  A later     *)
(* reason overwrites an earlier one.                                       *)
QuestionFails(r, q, kind) ==
    LET m == mine[r]
        recent == Remember(m.recent, kind)
        full == Len(recent) = ErrorWindow
        verdict == IF full /\ InWindow(recent, "schema") >= SchemaStop
                       THEN "schema_error_threshold"
                   ELSE IF full /\ InWindow(recent, "provider") >= ProviderStop
                       THEN "provider_error_threshold"
                   ELSE m.stop
    IN /\ q \in m.executing
       /\ Set(r, [m EXCEPT !.executing = @ \ {q}, !.failed = @ \cup {q},
                           !.recent = recent, !.stop = verdict])
       /\ tripped' = (tripped \/ verdict \in ThresholdReasons)
       /\ UNCHANGED saved

FinishQuestion(r) == \E q \in Questions :
    /\ phase[r] = "running"
    /\ \/ SaveResult(r, q)
       \/ BudgetExhausted(r, q)
       \/ \E kind \in Kinds \ {"ok"} : QuestionFails(r, q, kind)
    /\ UNCHANGED <<disk, state, history, phase, closing, overlap, bounds>>
-----------------------------------------------------------------------------
\* Mutant: the questions not in this batch are forgotten.
Verdict_IgnoresRest(r) ==
    LET m == mine[r]
    IN IF m.stop # "none"
       THEN [status |-> "stopped", completed |-> m.completed, failed |-> m.failed,
             reason |-> m.stop]
       ELSE [status |-> IF m.failed # {} THEN "failed" ELSE "completed",
             completed |-> m.completed, failed |-> m.failed, reason |-> "none"]

(* The end of run(): what the pool left decides the final state. *)
Verdict(r) ==
    LET m == mine[r]
        end(status, failed, reason) ==
            [status |-> status, completed |-> m.completed, failed |-> failed,
             reason |-> reason]
    IN CASE m.stop # "none" -> end("stopped", m.failed, m.stop)
         [] m.stop = "none" /\ m.failed # {} -> end("failed", m.failed, "none")
         [] m.stop = "none" /\ m.failed = {} /\ m.completed # Questions ->
                end("stopped", state.failed, "batch_cap")
         [] OTHER -> end("completed", {}, "none")

(* transition() loads the current state; a transition its table does not   *)
(* have raises and leaves the directory as it is.                          *)
Conclude(r, final) ==
    /\ IF final.status \in Transitions[state.status]
       THEN To(r, "closing") /\ closing' = [closing EXCEPT ![r] = final]
       ELSE To(r, "idle") /\ UNCHANGED closing
    /\ Set(r, Fresh)
    /\ UNCHANGED <<disk, state, history, saved, tripped, overlap, bounds>>

PoolDone(r) ==
    /\ phase[r] = "running" /\ mine[r].todo = {} /\ mine[r].executing = {}
    /\ Conclude(r, Verdict(r))

(* The operator cancels: the tasks are cancelled and awaited. *)
\* Mutant: the completions of this attempt are not passed on.
CancelRun_Stale(r) ==
    /\ phase[r] = "running"
    /\ Conclude(r, [status |-> "cancelled", completed |-> state.completed,
                    failed |-> mine[r].failed, reason |-> "operator_cancelled"])

CancelRun(r) ==
    /\ phase[r] = "running"
    /\ Conclude(r, [status |-> "cancelled", completed |-> mine[r].completed,
                    failed |-> mine[r].failed, reason |-> "operator_cancelled"])

WriteFinal(r) ==
    /\ phase[r] = "closing"
    /\ To(r, "logging")
    /\ state' = closing[r]
    /\ UNCHANGED <<disk, history, saved, mine, closing, tripped, overlap, bounds>>

LogFinal(r) ==
    /\ phase[r] = "logging"
    /\ To(r, "idle")
    /\ history' = Append(history, closing[r].status)
    /\ closing' = [closing EXCEPT ![r] = Planned]
    /\ UNCHANGED <<disk, state, saved, mine, tripped, overlap, bounds>>

(* A process dies, or an exception leaves run() past its handlers (a       *)
(* second cancellation, an artifact that cannot be written).               *)
Crash(r) ==
    /\ phase[r] # "idle" /\ crashes < MaxCrashes
    /\ To(r, "idle") /\ Set(r, Fresh)
    /\ closing' = [closing EXCEPT ![r] = Planned]
    /\ crashes' = crashes + 1
    /\ UNCHANGED <<disk, state, history, saved, tripped, overlap, attempts>>

Work(r) ==
    \/ WritePlanned(r) \/ WriteRunning(r) \/ LogRunning(r) \/ StartQuestion(r)
    \/ SkipRest(r) \/ FinishQuestion(r) \/ PoolDone(r) \/ WriteFinal(r) \/ LogFinal(r)

Next == \E r \in Runners :
    \/ CreateDirectory(r)
    \/ \E resume, acknowledged \in BOOLEAN : BeginAttempt(r, resume, acknowledged)
    \/ Work(r)
    \/ CancelRun(r)
    \/ Crash(r)

Spec == Init /\ [][Next]_vars

(* A process that runs goes on, and every execution of a question ends     *)
(* (the gateway's retries and timeouts are bounded); operators need not    *)
(* start, cancel or resume anything.                                       *)
FairSpec == Spec /\ \A r \in Runners : WF_vars(Work(r))
-----------------------------------------------------------------------------
Idle == \A r \in Runners : phase[r] = "idle"

(* Every variable holds values of its type; the error window never grows   *)
(* beyond its size.                                                        *)
RunTypeOK ==
    /\ disk \in {"absent", "partial", "ready"}
    /\ state \in RunState
    /\ history \in Seq(Statuses)
    /\ saved \in [Questions -> Runners \cup {NoRunner}]
    /\ phase \in [Runners -> Phases]
    /\ mine \in [Runners -> Local]
    /\ \A r \in Runners : Len(mine[r].recent) <= ErrorWindow
    /\ closing \in [Runners -> RunState]
    /\ tripped \in BOOLEAN /\ overlap \in BOOLEAN
    /\ attempts \in 0..MaxAttempts /\ crashes \in 0..MaxCrashes

(* state.json never claims a question that has no result on disk, and a    *)
(* completed run has them all: under two runners, cancellations and        *)
(* crashes alike.                                                          *)
RecordsBackedByResults ==
    /\ state.completed \subseteq HasResult
    /\ state.status = "completed" => state.completed = Questions

(* While operators take turns, a run that has come to rest knows its       *)
(* artifacts: what is completed has a result, what failed has none, and    *)
(* nothing else has.                                                       *)
StateMatchesArtifacts ==
    ~overlap /\ state.status \in {"completed", "failed", "cancelled", "stopped"}
    => state.completed = HasResult /\ state.failed \cap HasResult = {}

(* Resuming is idempotent: while operators take turns, no question whose   *)
(* result is on disk is executed again, whatever attempt saved it and      *)
(* however that attempt ended.                                             *)
NeverReexecutesSaved == ~overlap =>
    \A r \in Runners : mine[r].executing \cap HasResult = {}

(* Where nobody crashed and operators took turns, the history is a path of *)
(* the transition table that leads to the current state.                   *)
HistoryFaithful == ~overlap /\ crashes = 0 /\ disk = "ready" /\ Idle =>
    /\ Last(history) = state.status
    /\ \A i \in 1..(Len(history) - 1) : history[i + 1] \in Transitions[history[i]]

(* A saved result is immutable: not even a second runner that executed the *)
(* same question replaces it.                                              *)
ResultsImmutable ==
    [][\A q \in Questions : saved[q] # NoRunner => saved'[q] = saved[q]]_vars

(* While operators take turns, a completed run stays as it is.             *)
CompletedIsFinal ==
    [][state.status = "completed" /\ ~overlap => state' = state]_vars

(* run() returns: a stopped pool drains, and no task keeps it waiting.     *)
RunnerReturns == \A r \in Runners : phase[r] # "idle" ~> phase[r] = "idle"

-----------------------------------------------------------------------------
(* The strengthening that makes the safety properties inductive.           *)

Final == {"completed", "failed", "cancelled", "stopped"}
InRun == {"starting", "opening", "running"}

(* What runners know and are about to write has results behind it. *)
RunnersBacked == \A r \in Runners :
    /\ mine[r].completed \subseteq HasResult
    /\ closing[r].completed \subseteq HasResult
    /\ closing[r].status = "completed" => closing[r].completed = Questions

(* Nothing runs before the run directory is complete. *)
CreatedFirst ==
    /\ disk = "absent" => Idle
    /\ disk = "partial" => \A r \in Runners : phase[r] \in {"idle", "creating"}
    /\ \A r \in Runners : phase[r] = "creating" => disk = "partial"
    /\ disk # "ready" => state = Planned /\ ~overlap

Solo == ~overlap =>
    \A r, x \in Runners : phase[r] # "idle" /\ phase[x] # "idle" => r = x

(* What the only runner of the directory knows about it, by its phase. *)
InStepOf(r) ==
    /\ phase[r] = "starting" => "running" \in Transitions[state.status]
    /\ phase[r] \in {"opening", "running", "closing"} =>
           state.status = "running" /\ state.failed = {}
    /\ phase[r] \in InRun => mine[r].completed = HasResult
    /\ phase[r] \in {"starting", "opening"} => mine[r].executing = {} /\ mine[r].failed = {}
    /\ phase[r] \notin InRun => mine[r] = Fresh
    /\ (mine[r].todo \cup mine[r].executing \cup mine[r].failed) \cap HasResult = {}
    /\ mine[r].executing \cap (mine[r].todo \cup mine[r].failed) = {}
    /\ mine[r].todo \cap mine[r].failed = {}
    /\ phase[r] = "closing" => /\ closing[r].status \in Final
                               /\ closing[r].completed = HasResult
                               /\ closing[r].failed \cap HasResult = {}
    /\ phase[r] = "logging" => state = closing[r] /\ state.status \in Final

InStep == ~overlap => \A r \in Runners : InStepOf(r)

(* Where the history lags behind the state, by the phase of the runner.    *)
HistoryInStep == ~overlap /\ crashes = 0 /\ disk = "ready" =>
    /\ history # <<>>
    /\ \A i \in 1..(Len(history) - 1) : history[i + 1] \in Transitions[history[i]]
    /\ \A r \in Runners :
           /\ phase[r] = "opening" => "running" \in Transitions[history[Len(history)]]
           /\ phase[r] = "logging" => history[Len(history)] = "running"
    /\ (\A r \in Runners : phase[r] \notin {"opening", "logging"}) =>
           history[Len(history)] = state.status

RunIInv == RunTypeOK /\ RecordsBackedByResults /\ RunnersBacked /\ CreatedFirst /\ Solo
           /\ InStep /\ StateMatchesArtifacts /\ HistoryInStep

(* "threshold-stop resume requires a diagnosis acknowledgement" (task 15   *)
(* report): once an error threshold was passed, no attempt starts without  *)
(* one.  The code looks at stop_reason only, which the budget or a         *)
(* cancellation overwrites.                                                *)
DiagnosisRequired == ~(tripped /\ \E r \in Runners : phase[r] = "starting")
==============================================================================
