------------------------ MODULE ExperimentRun_proofs ------------------------
(***************************************************************************)
(* Proofs about the run directory and its runners: type correctness and    *)
(* the inductive invariant RunIInv, from which the safety properties of    *)
(* ExperimentRun follow for any number of runners, questions and attempts; *)
(* then the exporters of what was run, with an invariant of their own, and *)
(* what the tables they export say of the evidence.                        *)
(***************************************************************************)
EXTENDS AnalysisExport, ExperimentRun, FiniteSetTheorems, FunctionTheorems, TLAPS

(* Counting an error keeps the window a window. *)
LEMMA WindowKept ==
    ASSUME NEW recent \in Seq(Kinds), Len(recent) <= ErrorWindow, NEW kind \in Kinds
    PROVE  /\ Remember(recent, kind) \in Seq(Kinds)
           /\ Len(Remember(recent, kind)) <= ErrorWindow
<1> DEFINE all == Append(recent, kind)
<1>1. all \in Seq(Kinds) /\ Len(all) = Len(recent) + 1
  OBVIOUS
<1>2. ErrorWindow \in Nat \ {0} BY RunAssumption
<1>3. CASE Len(all) > ErrorWindow
  <2>1. all # <<>> BY <1>1
  <2>2. Tail(all) \in Seq(Kinds) /\ Len(Tail(all)) = Len(all) - 1
    BY <1>1, <2>1
  <2> QED BY <1>1, <1>2, <1>3, <2>2 DEF Remember
<1>4. CASE ~(Len(all) > ErrorWindow)
  BY <1>1, <1>2, <1>4 DEF Remember
<1> QED BY <1>3, <1>4

(* What the end of a pool writes is a run state. *)
LEMMA VerdictType ==
    ASSUME RunTypeOK, NEW r \in Runners
    PROVE  Verdict(r) \in RunState
<1>1. mine[r] \in Local /\ state \in RunState BY DEF RunTypeOK
<1> QED BY <1>1 DEF Verdict, Local, RunState, Statuses, Reasons

(* Types of the variables every step but SetLocal's leaves alone. *)
LEMMA SetTypes ==
    ASSUME RunTypeOK, NEW r \in Runners, NEW local \in Local,
           Len(local.recent) <= ErrorWindow, Set(r, local)
    PROVE  /\ mine' \in [Runners -> Local]
           /\ \A x \in Runners : Len(mine'[x].recent) <= ErrorWindow
BY DEF RunTypeOK, Set

LEMMA FreshType == Fresh \in Local /\ Fresh.recent = <<>> /\ Planned \in RunState
BY DEF Fresh, Local, Planned, RunState, Statuses, Reasons

(* Type correctness of each step. *)
LEMMA TypesStep ==
    ASSUME RunTypeOK, [Next]_vars
    PROVE  RunTypeOK'
<1>0. ErrorWindow \in Nat \ {0} /\ MaxAttempts \in Nat /\ MaxCrashes \in Nat
  BY RunAssumption
<1>f. Fresh \in Local /\ Len(Fresh.recent) <= ErrorWindow /\ Planned \in RunState
  BY FreshType, <1>0
<1>1. ASSUME NEW r \in Runners, CreateDirectory(r) PROVE RunTypeOK'
  BY <1>1 DEF CreateDirectory, RunTypeOK, To, bounds, Phases
<1>2. ASSUME NEW r \in Runners, WritePlanned(r) PROVE RunTypeOK'
  BY <1>2, <1>f DEF WritePlanned, RunTypeOK, To, bounds, Phases, Statuses
<1>3. ASSUME NEW r \in Runners, NEW resume \in BOOLEAN, NEW acknowledged \in BOOLEAN,
             BeginAttempt(r, resume, acknowledged) PROVE RunTypeOK'
  <2> DEFINE local == [Fresh EXCEPT !.completed = HasResult]
  <2>1. local \in Local /\ Len(local.recent) <= ErrorWindow
    BY <1>f DEF Fresh, Local, HasResult
  <2>2. /\ mine' \in [Runners -> Local]
        /\ \A x \in Runners : Len(mine'[x].recent) <= ErrorWindow
    BY <1>3, <2>1, SetTypes DEF BeginAttempt
  <2>3. attempts' \in 0..MaxAttempts
    BY <1>3, <1>0 DEF BeginAttempt, RunTypeOK
  <2>4. tripped' \in BOOLEAN /\ overlap' \in BOOLEAN
    BY <1>3 DEF BeginAttempt, RunTypeOK
  <2> QED BY <1>3, <2>2, <2>3, <2>4 DEF BeginAttempt, RunTypeOK, To, Phases
<1>4. ASSUME NEW r \in Runners, WriteRunning(r) PROVE RunTypeOK'
  <2>1. mine[r] \in Local BY DEF RunTypeOK
  <2>2. state' \in RunState
    BY <1>4, <2>1 DEF WriteRunning, Local, RunState, Statuses, Reasons
  <2> QED BY <1>4, <2>2 DEF WriteRunning, RunTypeOK, To, bounds, Phases
<1>5. ASSUME NEW r \in Runners, LogRunning(r) PROVE RunTypeOK'
  <2> DEFINE local == [mine[r] EXCEPT !.todo = FirstPending(mine[r].completed)]
  <2>1. mine[r] \in Local /\ Len(mine[r].recent) <= ErrorWindow BY DEF RunTypeOK
  <2>2. FirstPending(mine[r].completed) \subseteq Questions BY DEF FirstPending
  <2>3. local \in Local /\ Len(local.recent) <= ErrorWindow
    BY <2>1, <2>2 DEF Local
  <2>4. /\ mine' \in [Runners -> Local]
        /\ \A x \in Runners : Len(mine'[x].recent) <= ErrorWindow
    BY <1>5, <2>3, SetTypes DEF LogRunning
  <2>5. history' \in Seq(Statuses) BY <1>5 DEF LogRunning, RunTypeOK, Statuses
  <2> QED BY <1>5, <2>4, <2>5 DEF LogRunning, RunTypeOK, To, bounds, Phases
<1>6. ASSUME NEW r \in Runners, StartQuestion(r) PROVE RunTypeOK'
  <2>1. PICK q \in mine[r].todo :
            Set(r, [mine[r] EXCEPT !.todo = @ \ {q}, !.executing = @ \cup {q}])
    BY <1>6 DEF StartQuestion
  <2> DEFINE local == [mine[r] EXCEPT !.todo = @ \ {q}, !.executing = @ \cup {q}]
  <2>2. mine[r] \in Local /\ Len(mine[r].recent) <= ErrorWindow BY DEF RunTypeOK
  <2>3. local \in Local /\ Len(local.recent) <= ErrorWindow BY <2>2 DEF Local
  <2>4. /\ mine' \in [Runners -> Local]
        /\ \A x \in Runners : Len(mine'[x].recent) <= ErrorWindow
    BY <2>1, <2>3, SetTypes
  <2> QED BY <1>6, <2>4 DEF StartQuestion, RunTypeOK, bounds
<1>7. ASSUME NEW r \in Runners, SkipRest(r) PROVE RunTypeOK'
  <2> DEFINE local == [mine[r] EXCEPT !.todo = {}]
  <2>1. mine[r] \in Local /\ Len(mine[r].recent) <= ErrorWindow BY DEF RunTypeOK
  <2>2. local \in Local /\ Len(local.recent) <= ErrorWindow BY <2>1 DEF Local
  <2>3. /\ mine' \in [Runners -> Local]
        /\ \A x \in Runners : Len(mine'[x].recent) <= ErrorWindow
    BY <1>7, <2>2, SetTypes DEF SkipRest
  <2> QED BY <1>7, <2>3 DEF SkipRest, RunTypeOK, bounds
<1>8. ASSUME NEW r \in Runners, FinishQuestion(r) PROVE RunTypeOK'
  <2>1. PICK q \in Questions :
            /\ \/ SaveResult(r, q)
               \/ BudgetExhausted(r, q)
               \/ \E kind \in Kinds \ {"ok"} : QuestionFails(r, q, kind)
            /\ UNCHANGED <<disk, state, history, phase, closing, overlap, bounds>>
    BY <1>8 DEF FinishQuestion
  <2>2. mine[r] \in Local /\ Len(mine[r].recent) <= ErrorWindow /\ tripped \in BOOLEAN
    BY DEF RunTypeOK
  <2>3. CASE SaveResult(r, q)
    <3> DEFINE local == [mine[r] EXCEPT !.executing = @ \ {q}, !.completed = @ \cup {q},
                                        !.recent = Remember(@, "ok")]
    <3>1. /\ Remember(mine[r].recent, "ok") \in Seq(Kinds)
          /\ Len(Remember(mine[r].recent, "ok")) <= ErrorWindow
      BY <2>2, WindowKept DEF Local, Kinds
    <3>2. local \in Local /\ Len(local.recent) <= ErrorWindow
      BY <2>2, <3>1 DEF Local
    <3>3. /\ mine' \in [Runners -> Local]
          /\ \A x \in Runners : Len(mine'[x].recent) <= ErrorWindow
      BY <2>3, <3>2, SetTypes DEF SaveResult
    <3>4. saved' \in [Questions -> Runners \cup {NoRunner}] /\ tripped' \in BOOLEAN
      BY <2>3, <2>2 DEF SaveResult, RunTypeOK
    <3> QED BY <2>1, <3>3, <3>4 DEF RunTypeOK, bounds
  <2>4. CASE BudgetExhausted(r, q)
    <3> DEFINE local == [mine[r] EXCEPT !.executing = @ \ {q}, !.failed = @ \cup {q},
                                        !.stop = "budget_exhausted"]
    <3>1. local \in Local /\ Len(local.recent) <= ErrorWindow
      BY <2>2 DEF Local, Reasons
    <3>2. /\ mine' \in [Runners -> Local]
          /\ \A x \in Runners : Len(mine'[x].recent) <= ErrorWindow
      BY <2>4, <3>1, SetTypes DEF BudgetExhausted
    <3> QED BY <2>1, <2>4, <3>2 DEF BudgetExhausted, RunTypeOK, bounds
  <2>5. ASSUME NEW kind \in Kinds \ {"ok"}, QuestionFails(r, q, kind) PROVE RunTypeOK'
    <3>1. PICK verdict \in Reasons :
              /\ Set(r, [mine[r] EXCEPT !.executing = @ \ {q}, !.failed = @ \cup {q},
                           !.recent = Remember(mine[r].recent, kind), !.stop = verdict])
              /\ tripped' = (tripped \/ verdict \in ThresholdReasons)
      BY <2>5, <2>2 DEF QuestionFails, Local, Reasons
    <3> DEFINE local == [mine[r] EXCEPT !.executing = @ \ {q}, !.failed = @ \cup {q},
                           !.recent = Remember(mine[r].recent, kind), !.stop = verdict]
    <3>2. /\ Remember(mine[r].recent, kind) \in Seq(Kinds)
          /\ Len(Remember(mine[r].recent, kind)) <= ErrorWindow
      BY <2>2, WindowKept DEF Local
    <3>3. local \in Local /\ Len(local.recent) <= ErrorWindow
      BY <2>2, <3>2 DEF Local
    <3>4. /\ mine' \in [Runners -> Local]
          /\ \A x \in Runners : Len(mine'[x].recent) <= ErrorWindow
      BY <3>1, <3>3, SetTypes
    <3>5. saved' = saved /\ tripped' \in BOOLEAN
      BY <2>2, <2>5, <3>1 DEF QuestionFails
    <3> QED BY <2>1, <3>4, <3>5 DEF RunTypeOK, bounds
  <2> QED BY <2>1, <2>3, <2>4, <2>5
<1>9. ASSUME NEW r \in Runners, NEW final \in RunState, Conclude(r, final) PROVE RunTypeOK'
  <2>1. /\ mine' \in [Runners -> Local]
        /\ \A x \in Runners : Len(mine'[x].recent) <= ErrorWindow
    BY <1>9, <1>f, SetTypes DEF Conclude
  <2>2. phase' \in [Runners -> Phases] /\ closing' \in [Runners -> RunState]
    BY <1>9 DEF Conclude, RunTypeOK, To, Phases
  <2> QED BY <1>9, <2>1, <2>2 DEF Conclude, RunTypeOK, bounds
<1>10. ASSUME NEW r \in Runners, PoolDone(r) PROVE RunTypeOK'
  BY <1>9, <1>10, VerdictType DEF PoolDone
<1>11. ASSUME NEW r \in Runners, CancelRun(r) PROVE RunTypeOK'
  <2> DEFINE final == [status |-> "cancelled", completed |-> mine[r].completed,
                       failed |-> mine[r].failed, reason |-> "operator_cancelled"]
  <2>1. mine[r] \in Local BY DEF RunTypeOK
  <2>2. final \in RunState BY <2>1 DEF Local, RunState, Statuses, Reasons
  <2> QED BY <1>9, <1>11, <2>2 DEF CancelRun
<1>12. ASSUME NEW r \in Runners, WriteFinal(r) PROVE RunTypeOK'
  BY <1>12 DEF WriteFinal, RunTypeOK, To, bounds, Phases
<1>13. ASSUME NEW r \in Runners, LogFinal(r) PROVE RunTypeOK'
  <2>1. history' \in Seq(Statuses)
    BY <1>13 DEF LogFinal, RunTypeOK, RunState
  <2> QED BY <1>13, <1>f, <2>1 DEF LogFinal, RunTypeOK, To, bounds, Phases
<1>14. ASSUME NEW r \in Runners, Crash(r) PROVE RunTypeOK'
  <2>1. /\ mine' \in [Runners -> Local]
        /\ \A x \in Runners : Len(mine'[x].recent) <= ErrorWindow
    BY <1>14, <1>f, SetTypes DEF Crash
  <2>2. crashes' \in 0..MaxCrashes BY <1>14, <1>0 DEF Crash, RunTypeOK
  <2> QED BY <1>14, <1>f, <2>1, <2>2 DEF Crash, RunTypeOK, To, Phases
<1>15. CASE UNCHANGED vars
  BY <1>15 DEF vars, RunTypeOK
<1> QED BY <1>1, <1>2, <1>3, <1>4, <1>5, <1>6, <1>7, <1>8, <1>10, <1>11, <1>12,
           <1>13, <1>14, <1>15 DEF Next, Work

LEMMA InitTypes == Init => RunTypeOK
<1> SUFFICES ASSUME Init PROVE RunTypeOK OBVIOUS
<1>1. ErrorWindow \in Nat \ {0} /\ MaxAttempts \in Nat /\ MaxCrashes \in Nat
  BY RunAssumption
<1>2. Fresh \in Local /\ Len(Fresh.recent) <= ErrorWindow /\ Planned \in RunState
  BY FreshType, <1>1
<1>3. /\ mine \in [Runners -> Local]
      /\ \A r \in Runners : Len(mine[r].recent) <= ErrorWindow
  BY <1>2 DEF Init
<1>4. closing \in [Runners -> RunState] /\ state \in RunState
  BY <1>2 DEF Init
<1>5. attempts \in 0..MaxAttempts /\ crashes \in 0..MaxCrashes
  BY <1>1 DEF Init
<1>6. history \in Seq(Statuses)
  BY DEF Init
<1>7. /\ phase \in [Runners -> Phases]
      /\ saved \in [Questions -> Runners \cup {NoRunner}]
      /\ disk \in {"absent", "partial", "ready"}
      /\ tripped \in BOOLEAN /\ overlap \in BOOLEAN
  BY DEF Init, Phases
<1> QED BY <1>3, <1>4, <1>5, <1>6, <1>7 DEF RunTypeOK

(* Every variable of a run and of its runners keeps its type, and the      *)
(* error window its size, whatever runners do.                             *)
THEOREM RunTypes == Spec => []RunTypeOK
<1>1. Init => RunTypeOK BY InitTypes
<1>2. RunTypeOK /\ [Next]_vars => RunTypeOK'
  BY TypesStep
<1> QED BY <1>1, <1>2, PTL DEF Spec

-----------------------------------------------------------------------------
(* What the end of a pool claims is what its runner knows. *)
LEMMA VerdictFacts ==
    ASSUME RunTypeOK, NEW r \in Runners
    PROVE  /\ Verdict(r) \in RunState
           /\ Verdict(r).completed = mine[r].completed
           /\ Verdict(r).status = "completed" => mine[r].completed = Questions
           /\ Verdict(r).failed \in {mine[r].failed, state.failed, {}}
           /\ Verdict(r).status \in Final
<1>1. mine[r] \in Local /\ state \in RunState BY DEF RunTypeOK
<1> QED BY <1>1, VerdictType DEF Verdict, Local, Final

(* A saved result is never replaced, and no step but SaveResult touches    *)
(* the results.                                                            *)
LEMMA ResultsStep ==
    ASSUME RunTypeOK, [Next]_vars
    PROVE  /\ \A q \in Questions : saved[q] # NoRunner => saved'[q] = saved[q]
           /\ HasResult \subseteq HasResult'
<1>1. CASE saved' = saved
  BY <1>1 DEF HasResult
<1>2. ASSUME NEW r \in Runners, NEW q \in Questions, SaveResult(r, q)
      PROVE  /\ \A x \in Questions : saved[x] # NoRunner => saved'[x] = saved[x]
             /\ HasResult \subseteq HasResult'
  <2>1. saved[q] = NoRunner /\ saved' = [saved EXCEPT ![q] = r]
    BY <1>2 DEF SaveResult
  <2>2. \A x \in Questions : saved[x] # NoRunner => saved'[x] = saved[x]
    BY <2>1 DEF RunTypeOK
  <2> QED BY <2>2 DEF HasResult
<1>3. saved' = saved \/ \E r \in Runners, q \in Questions : SaveResult(r, q)
  <2>1. CASE UNCHANGED vars
    BY <2>1 DEF vars
  <2>2. ASSUME NEW r \in Runners, FinishQuestion(r)
        PROVE  saved' = saved \/ \E q \in Questions : SaveResult(r, q)
    BY <2>2 DEF FinishQuestion, BudgetExhausted, QuestionFails
  <2>3. ASSUME NEW r \in Runners,
               CreateDirectory(r) \/ WritePlanned(r) \/ WriteRunning(r) \/ LogRunning(r)
                 \/ StartQuestion(r) \/ SkipRest(r) \/ Crash(r)
        PROVE  saved' = saved
    BY <2>3 DEF CreateDirectory, WritePlanned, WriteRunning, LogRunning, StartQuestion, SkipRest,
                Crash
  <2>4. ASSUME NEW r \in Runners,
               PoolDone(r) \/ CancelRun(r) \/ WriteFinal(r) \/ LogFinal(r)
        PROVE  saved' = saved
    BY <2>4 DEF PoolDone, CancelRun, Conclude, WriteFinal, LogFinal
  <2>5. ASSUME NEW r \in Runners, NEW resume, NEW acknowledged,
               BeginAttempt(r, resume, acknowledged)
        PROVE  saved' = saved
    BY <2>5 DEF BeginAttempt
  <2> QED BY <2>1, <2>2, <2>3, <2>4, <2>5, Zenon DEF Next, Work
<1> QED BY <1>1, <1>2, <1>3

(* What the end of a question does, for the proofs below. *)
LEMMA FinishFacts ==
    ASSUME RunTypeOK, NEW r \in Runners, FinishQuestion(r)
    PROVE  \E q \in Questions :
             /\ q \in mine[r].executing
             /\ mine' = [mine EXCEPT ![r] = mine'[r]]
             /\ mine'[r] \in Local
             /\ mine'[r].todo = mine[r].todo
             /\ mine'[r].executing = mine[r].executing \ {q}
             /\ \/ /\ HasResult' = HasResult \cup {q}
                   /\ mine'[r].completed = mine[r].completed \cup {q}
                   /\ mine'[r].failed = mine[r].failed
                \/ /\ HasResult' = HasResult
                   /\ mine'[r].completed = mine[r].completed
                   /\ mine'[r].failed = mine[r].failed \cup {q}
<1>1. RunTypeOK' BY TypesStep DEF Next, Work
<1>2. PICK q \in Questions : \/ SaveResult(r, q)
                             \/ BudgetExhausted(r, q)
                             \/ \E kind \in Kinds \ {"ok"} : QuestionFails(r, q, kind)
  BY DEF FinishQuestion
<1>3. mine[r] \in Local /\ mine'[r] \in Local BY <1>1 DEF RunTypeOK
<1>4. CASE SaveResult(r, q)
  <2>1. saved' = [saved EXCEPT ![q] = r] /\ r # NoRunner
    BY <1>4, RunAssumption DEF SaveResult
  <2>2. HasResult' = HasResult \cup {q}
    BY <2>1 DEF HasResult, RunTypeOK
  <2>3. mine' = [mine EXCEPT ![r] =
                   [mine[r] EXCEPT !.executing = @ \ {q}, !.completed = @ \cup {q},
                                   !.recent = Remember(@, "ok")]]
    BY <1>4 DEF SaveResult, Set
  <2>4. /\ mine'[r].executing = mine[r].executing \ {q}
        /\ mine'[r].completed = mine[r].completed \cup {q}
        /\ mine'[r].todo = mine[r].todo /\ mine'[r].failed = mine[r].failed
        /\ mine' = [mine EXCEPT ![r] = mine'[r]]
    BY <1>3, <2>3 DEF Local, RunTypeOK
  <2>5. q \in mine[r].executing BY <1>4 DEF SaveResult
  <2> QED BY <1>3, <2>2, <2>4, <2>5
<1>5. CASE BudgetExhausted(r, q)
  <2>1. mine' = [mine EXCEPT ![r] =
                   [mine[r] EXCEPT !.executing = @ \ {q}, !.failed = @ \cup {q},
                                   !.stop = "budget_exhausted"]]
    BY <1>5 DEF BudgetExhausted, Set
  <2>2. /\ mine'[r].executing = mine[r].executing \ {q}
        /\ mine'[r].completed = mine[r].completed /\ mine'[r].todo = mine[r].todo
        /\ mine'[r].failed = mine[r].failed \cup {q}
        /\ mine' = [mine EXCEPT ![r] = mine'[r]]
    BY <1>3, <2>1 DEF Local, RunTypeOK
  <2>3. q \in mine[r].executing /\ HasResult' = HasResult
    BY <1>5 DEF BudgetExhausted, HasResult
  <2> QED BY <1>3, <2>2, <2>3
<1>6. ASSUME NEW kind \in Kinds \ {"ok"}, QuestionFails(r, q, kind)
      PROVE  /\ q \in mine[r].executing /\ HasResult' = HasResult
             /\ mine'[r].executing = mine[r].executing \ {q}
             /\ mine'[r].completed = mine[r].completed /\ mine'[r].todo = mine[r].todo
             /\ mine'[r].failed = mine[r].failed \cup {q}
             /\ mine' = [mine EXCEPT ![r] = mine'[r]]
  <2>1. PICK verdict :
          mine' = [mine EXCEPT ![r] =
                     [mine[r] EXCEPT !.executing = @ \ {q}, !.failed = @ \cup {q},
                                     !.recent = Remember(mine[r].recent, kind),
                                     !.stop = verdict]]
    BY <1>6 DEF QuestionFails, Set
  <2>2. /\ mine'[r].executing = mine[r].executing \ {q}
        /\ mine'[r].completed = mine[r].completed /\ mine'[r].todo = mine[r].todo
        /\ mine'[r].failed = mine[r].failed \cup {q}
        /\ mine' = [mine EXCEPT ![r] = mine'[r]]
    BY <1>3, <2>1 DEF Local, RunTypeOK
  <2>3. q \in mine[r].executing /\ HasResult' = HasResult
    BY <1>6 DEF QuestionFails, HasResult
  <2> QED BY <2>2, <2>3
<1> QED BY <1>2, <1>3, <1>4, <1>5, <1>6

(* What conclude does, for the proofs below. *)
LEMMA ConcludeFacts ==
    ASSUME RunTypeOK, NEW r \in Runners, NEW final \in RunState, Conclude(r, final)
    PROVE  /\ mine' = [mine EXCEPT ![r] = Fresh]
           /\ UNCHANGED <<disk, state, history, saved, overlap, crashes>>
           /\ \/ /\ phase' = [phase EXCEPT ![r] = "closing"]
                 /\ closing' = [closing EXCEPT ![r] = final]
                 /\ final.status \in Transitions[state.status]
              \/ /\ phase' = [phase EXCEPT ![r] = "idle"]
                 /\ closing' = closing
                 /\ final.status \notin Transitions[state.status]
BY DEF Conclude, To, Set, bounds

(* Every pool ends in one of two ways. *)
LEMMA PoolEnds ==
    ASSUME RunTypeOK, NEW r \in Runners, PoolDone(r) \/ CancelRun(r)
    PROVE  \E final \in RunState :
             /\ Conclude(r, final)
             /\ phase[r] = "running"
             /\ final.completed = mine[r].completed
             /\ final.status = "completed" => mine[r].completed = Questions
             /\ final.failed \in {mine[r].failed, state.failed, {}}
             /\ final.status \in Final
<1>1. CASE PoolDone(r)
  BY <1>1, VerdictFacts DEF PoolDone
<1>2. CASE CancelRun(r)
  <2> DEFINE final == [status |-> "cancelled", completed |-> mine[r].completed,
                       failed |-> mine[r].failed, reason |-> "operator_cancelled"]
  <2>1. mine[r] \in Local BY DEF RunTypeOK
  <2>2. final \in RunState /\ final.status \in Final
    BY <2>1 DEF Local, RunState, Statuses, Reasons, Final
  <2>3. Conclude(r, final) /\ phase[r] = "running" BY <1>2 DEF CancelRun
  <2> QED BY <2>2, <2>3
<1> QED BY <1>1, <1>2

-----------------------------------------------------------------------------
(* Nothing is ever claimed without results behind it. *)
LEMMA BackedStep ==
    ASSUME RunTypeOK, RecordsBackedByResults, RunnersBacked, [Next]_vars
    PROVE  RecordsBackedByResults' /\ RunnersBacked'
<1> DEFINE Backed == RecordsBackedByResults /\ RunnersBacked
<1>a. HasResult \subseteq HasResult' BY ResultsStep
<1>p. Planned.completed = {} /\ Planned.status = "planned" /\ Fresh.completed = {}
  BY DEF Planned, Fresh
<1>t. RunTypeOK' BY TypesStep
\* A step that adds nothing to what is claimed.
<1>b. ASSUME state' = state, mine' = mine, closing' = closing PROVE Backed'
  BY <1>a, <1>b DEF RecordsBackedByResults, RunnersBacked
<1>1. ASSUME NEW r \in Runners, CreateDirectory(r) PROVE Backed'
  BY <1>1, <1>b DEF CreateDirectory
<1>2. ASSUME NEW r \in Runners, WritePlanned(r) PROVE Backed'
  <2>1. state' = Planned /\ mine' = mine /\ closing' = closing
    BY <1>2 DEF WritePlanned
  <2> QED BY <1>a, <1>p, <2>1 DEF RecordsBackedByResults, RunnersBacked
<1>3. ASSUME NEW r \in Runners, NEW resume \in BOOLEAN, NEW acknowledged \in BOOLEAN,
             BeginAttempt(r, resume, acknowledged) PROVE Backed'
  <2>1. mine' = [mine EXCEPT ![r] = [Fresh EXCEPT !.completed = HasResult]]
    BY <1>3 DEF BeginAttempt, Set
  <2>2. \A x \in Runners : mine'[x].completed \subseteq HasResult
    BY <2>1 DEF RunTypeOK, RunnersBacked, Fresh
  <2>3. state' = state /\ closing' = closing BY <1>3 DEF BeginAttempt
  <2> QED BY <1>a, <2>2, <2>3 DEF RecordsBackedByResults, RunnersBacked
<1>4. ASSUME NEW r \in Runners, WriteRunning(r) PROVE Backed'
  <2>1. /\ state' = [status |-> "running", completed |-> mine[r].completed,
                     failed |-> {}, reason |-> "none"]
        /\ mine' = mine /\ closing' = closing
    BY <1>4 DEF WriteRunning
  <2> QED BY <1>a, <2>1 DEF RecordsBackedByResults, RunnersBacked
<1>5. ASSUME NEW r \in Runners,
             LogRunning(r) \/ StartQuestion(r) \/ SkipRest(r) PROVE Backed'
  <2>1. ASSUME LogRunning(r) PROVE \A x \in Runners : mine'[x].completed = mine[x].completed
    BY <2>1 DEF LogRunning, Set, RunTypeOK, Local
  <2>2. ASSUME StartQuestion(r) PROVE \A x \in Runners : mine'[x].completed = mine[x].completed
    BY <2>2 DEF StartQuestion, Set, RunTypeOK, Local
  <2>3. ASSUME SkipRest(r) PROVE \A x \in Runners : mine'[x].completed = mine[x].completed
    BY <2>3 DEF SkipRest, Set, RunTypeOK, Local
  <2>4. \A x \in Runners : mine'[x].completed = mine[x].completed
    BY <1>5, <2>1, <2>2, <2>3
  <2>5. state' = state /\ closing' = closing
    BY <1>5 DEF LogRunning, StartQuestion, SkipRest
  <2> QED BY <1>a, <2>4, <2>5 DEF RecordsBackedByResults, RunnersBacked
<1>6. ASSUME NEW r \in Runners, FinishQuestion(r) PROVE Backed'
  <2>1. mine' = [mine EXCEPT ![r] = mine'[r]] /\ mine'[r].completed \subseteq HasResult'
    BY <1>6, <1>a, FinishFacts DEF RunnersBacked
  <2>2. \A x \in Runners : mine'[x].completed \subseteq HasResult'
    BY <2>1, <1>a DEF RunTypeOK, RunnersBacked
  <2>3. state' = state /\ closing' = closing BY <1>6 DEF FinishQuestion
  <2> QED BY <1>a, <2>2, <2>3 DEF RecordsBackedByResults, RunnersBacked
<1>7. ASSUME NEW r \in Runners, PoolDone(r) \/ CancelRun(r) PROVE Backed'
  <2>1. PICK final \in RunState :
            /\ Conclude(r, final)
            /\ final.completed = mine[r].completed
            /\ final.status = "completed" => mine[r].completed = Questions
    BY <1>7, PoolEnds
  <2>2. mine' = [mine EXCEPT ![r] = Fresh] /\ state' = state
    BY <2>1, ConcludeFacts
  <2>3. closing' = [closing EXCEPT ![r] = final] \/ closing' = closing
    BY <2>1, ConcludeFacts
  <2>4. \A x \in Runners : mine'[x].completed \subseteq HasResult
    BY <2>2, <1>p DEF RunTypeOK, RunnersBacked
  <2>5. \A x \in Runners : /\ closing'[x].completed \subseteq HasResult
                           /\ closing'[x].status = "completed" => closing'[x].completed = Questions
    BY <2>1, <2>3 DEF RunTypeOK, RunnersBacked
  <2> QED BY <1>a, <2>2, <2>4, <2>5 DEF RecordsBackedByResults, RunnersBacked
<1>8. ASSUME NEW r \in Runners, WriteFinal(r) PROVE Backed'
  <2>1. state' = closing[r] /\ mine' = mine /\ closing' = closing
    BY <1>8 DEF WriteFinal
  <2> QED BY <1>a, <2>1 DEF RecordsBackedByResults, RunnersBacked
<1>9. ASSUME NEW r \in Runners, LogFinal(r) PROVE Backed'
  <2>1. state' = state /\ mine' = mine /\ closing' = [closing EXCEPT ![r] = Planned]
    BY <1>9 DEF LogFinal
  <2> QED BY <1>a, <1>p, <2>1 DEF RunTypeOK, RecordsBackedByResults, RunnersBacked
<1>10. ASSUME NEW r \in Runners, Crash(r) PROVE Backed'
  <2>1. /\ state' = state /\ mine' = [mine EXCEPT ![r] = Fresh]
        /\ closing' = [closing EXCEPT ![r] = Planned]
    BY <1>10 DEF Crash, Set
  <2> QED BY <1>a, <1>p, <2>1 DEF RunTypeOK, RecordsBackedByResults, RunnersBacked
<1>11. CASE UNCHANGED vars
  BY <1>11, <1>b DEF vars
<1> QED BY <1>1, <1>2, <1>3, <1>4, <1>5, <1>6, <1>7, <1>8, <1>9, <1>10, <1>11 DEF Next, Work

(* Nothing runs before the directory is there, and whoever begins an       *)
(* attempt while another process is at work leaves the fact in overlap.    *)
LEMMA TurnsStep ==
    ASSUME RunTypeOK, CreatedFirst, Solo, [Next]_vars
    PROVE  CreatedFirst' /\ Solo'
<1> DEFINE Turns == CreatedFirst /\ Solo
<1>1. ASSUME NEW r \in Runners, CreateDirectory(r) PROVE Turns'
  <2>1. /\ disk = "absent" /\ disk' = "partial" /\ state' = state /\ overlap' = overlap
        /\ phase' = [phase EXCEPT ![r] = "creating"]
    BY <1>1 DEF CreateDirectory, To
  <2>2. \A x \in Runners : phase[x] = "idle" /\ phase'[x] = IF x = r THEN "creating" ELSE "idle"
    BY <2>1 DEF CreatedFirst, Idle, RunTypeOK
  <2> QED BY <2>1, <2>2 DEF CreatedFirst, Solo, Idle
<1>2. ASSUME NEW r \in Runners, WritePlanned(r) PROVE Turns'
  <2>1. /\ phase[r] = "creating" /\ disk' = "ready" /\ overlap' = overlap
        /\ phase' = [phase EXCEPT ![r] = "idle"]
    BY <1>2 DEF WritePlanned, To
  <2>2. \A x \in Runners : phase'[x] # "idle" => phase[x] # "idle" /\ phase'[x] = phase[x]
    BY <2>1 DEF RunTypeOK
  <2>3. Solo' BY <2>1, <2>2 DEF Solo
  <2>4. ~overlap
    BY <2>1 DEF CreatedFirst
  <2>5. \A x \in Runners : phase'[x] = "idle"
    BY <2>1, <2>4 DEF Solo, RunTypeOK
  <2> QED BY <2>1, <2>3, <2>5 DEF CreatedFirst
<1>3. ASSUME NEW r \in Runners, NEW resume \in BOOLEAN, NEW acknowledged \in BOOLEAN,
             BeginAttempt(r, resume, acknowledged) PROVE Turns'
  <2>1. /\ disk = "ready" /\ disk' = disk /\ state' = state
        /\ phase' = [phase EXCEPT ![r] = "starting"]
        /\ overlap' = (overlap \/ \E x \in Runners \ {r} : phase[x] # "idle")
    BY <1>3 DEF BeginAttempt, To
  <2> QED BY <2>1 DEF CreatedFirst, Solo, RunTypeOK
<1>4. ASSUME NEW r \in Runners,
             WriteRunning(r) \/ LogRunning(r) \/ StartQuestion(r) \/ SkipRest(r)
             \/ FinishQuestion(r) \/ WriteFinal(r) \/ LogFinal(r)
      PROVE  Turns'
  <2>1. /\ disk' = disk /\ overlap' = overlap
        /\ phase[r] \notin {"idle", "creating"}
        /\ phase' = [phase EXCEPT ![r] = phase'[r]]
        /\ phase'[r] # "creating"
    BY <1>4 DEF WriteRunning, LogRunning, StartQuestion, SkipRest, FinishQuestion, To,
                WriteFinal, LogFinal, RunTypeOK
  <2>2. disk = "ready"
    BY <2>1 DEF CreatedFirst, Idle, RunTypeOK
  <2>3. \A x \in Runners : /\ phase'[x] # "idle" => phase[x] # "idle"
                           /\ phase'[x] = "creating" => phase[x] = "creating"
    BY <2>1 DEF RunTypeOK
  <2> QED BY <2>1, <2>2, <2>3 DEF CreatedFirst, Solo
<1>5. ASSUME NEW r \in Runners, PoolDone(r) \/ CancelRun(r) PROVE Turns'
  <2>1. PICK final \in RunState : Conclude(r, final) /\ phase[r] = "running"
    BY <1>5, PoolEnds
  <2>2. /\ disk' = disk /\ overlap' = overlap
        /\ \/ phase' = [phase EXCEPT ![r] = "closing"]
           \/ phase' = [phase EXCEPT ![r] = "idle"]
    BY <2>1, ConcludeFacts
  <2>3. disk = "ready"
    BY <2>1 DEF CreatedFirst, Idle, RunTypeOK
  <2>4. \A x \in Runners : /\ phase'[x] # "idle" => phase[x] # "idle"
                           /\ phase'[x] = "creating" => phase[x] = "creating"
    BY <2>1, <2>2 DEF RunTypeOK
  <2> QED BY <2>2, <2>3, <2>4 DEF CreatedFirst, Solo
<1>6. ASSUME NEW r \in Runners, Crash(r) PROVE Turns'
  <2>1. /\ disk' = disk /\ overlap' = overlap /\ state' = state
        /\ phase' = [phase EXCEPT ![r] = "idle"]
    BY <1>6 DEF Crash, To
  <2>2. \A x \in Runners : phase'[x] # "idle" => phase'[x] = phase[x]
    BY <2>1 DEF RunTypeOK
  <2> QED BY <2>1, <2>2 DEF CreatedFirst, Solo, Idle, RunTypeOK
<1>7. CASE UNCHANGED vars
  BY <1>7 DEF vars, CreatedFirst, Solo, Idle
<1> QED BY <1>1, <1>2, <1>3, <1>4, <1>5, <1>6, <1>7 DEF Next, Work

-----------------------------------------------------------------------------
(* While operators take turns, whoever does not act is idle. *)
LEMMA OthersIdle ==
    ASSUME Solo, InStep, ~overlap, NEW r \in Runners, phase[r] # "idle",
           NEW x \in Runners, x # r
    PROVE  phase[x] = "idle" /\ mine[x] = Fresh
<1>1. phase[x] = "idle" BY DEF Solo
<1> QED BY <1>1 DEF InStep, InStepOf, InRun

LEMMA IdleInStep ==
    ASSUME NEW r \in Runners, phase[r] = "idle", mine[r] = Fresh
    PROVE  InStepOf(r)
BY DEF InStepOf, InRun, Fresh

(* The same for the state after a step. *)
LEMMA IdleInStepNext ==
    ASSUME NEW r \in Runners, phase'[r] = "idle", mine'[r] = Fresh
    PROVE  InStepOf(r)'
BY DEF InStepOf, InRun, Fresh

(* A step of r, while operators take turns, has only r's part to check.    *)
LEMMA OnlyActorMatters ==
    ASSUME RunTypeOK, Solo, InStep, ~overlap, NEW r \in Runners, phase[r] # "idle",
           \A x \in Runners \ {r} : phase'[x] = phase[x] /\ mine'[x] = mine[x],
           InStepOf(r)'
    PROVE  InStep'
<1>1. ASSUME NEW x \in Runners PROVE InStepOf(x)'
  <2>1. CASE x = r BY <2>1
  <2>2. CASE x # r
    <3>1. phase'[x] = "idle" /\ mine'[x] = Fresh
      BY <2>2, OthersIdle
    <3> QED BY <3>1, IdleInStepNext
  <2> QED BY <2>1, <2>2
<1> QED BY <1>1 DEF InStep

(* While operators take turns, a runner knows the artifacts, and so does   *)
(* the state it leaves behind.                                             *)
LEMMA InStepStep ==
    ASSUME RunTypeOK, CreatedFirst, Solo, InStep, StateMatchesArtifacts, [Next]_vars
    PROVE  InStep' /\ StateMatchesArtifacts'
<1> DEFINE Kept == InStep' /\ StateMatchesArtifacts'
<1>o. overlap => overlap'
  BY DEF Next, Work, vars, CreateDirectory, WritePlanned, BeginAttempt, WriteRunning,
         LogRunning, StartQuestion, SkipRest, FinishQuestion, PoolDone, CancelRun,
         Conclude, WriteFinal, LogFinal, Crash
<1> SUFFICES ASSUME ~overlap, ~overlap' PROVE Kept
  BY <1>o DEF InStep, StateMatchesArtifacts
<1>a. \A r \in Runners : InStepOf(r) BY DEF InStep
<1>p. Planned.status = "planned" BY DEF Planned
<1>1. ASSUME NEW r \in Runners, CreateDirectory(r) PROVE Kept
  <2>1. /\ phase' = [phase EXCEPT ![r] = "creating"] /\ phase[r] = "idle"
        /\ UNCHANGED <<state, saved, mine, closing>>
    BY <1>1 DEF CreateDirectory, To
  <2>2. \A x \in Runners : phase[x] = "idle" /\ mine[x] = Fresh
    BY <1>1, <1>a DEF CreateDirectory, CreatedFirst, Idle, InStepOf, InRun
  <2>3. phase'[r] = "creating" /\ mine'[r] = Fresh /\ HasResult' = HasResult
    BY <2>1, <2>2 DEF RunTypeOK, HasResult
  <2>4. InStepOf(r)'
    BY <2>3 DEF InStepOf, InRun, Fresh
  <2>5. ASSUME NEW x \in Runners, x # r PROVE InStepOf(x)'
    <3>1. phase'[x] = "idle" /\ mine'[x] = Fresh
      BY <2>1, <2>2, <2>5 DEF RunTypeOK
    <3> QED BY <3>1, IdleInStepNext
  <2>6. InStep' BY <2>4, <2>5 DEF InStep
  <2> QED BY <2>1, <2>3, <2>6 DEF StateMatchesArtifacts
<1>2. ASSUME NEW r \in Runners, WritePlanned(r) PROVE Kept
  <2>1. /\ phase[r] = "creating" /\ phase' = [phase EXCEPT ![r] = "idle"]
        /\ state' = Planned /\ UNCHANGED <<saved, mine, closing>>
    BY <1>2 DEF WritePlanned, To
  <2>2. phase'[r] = "idle" /\ mine'[r] = Fresh
    BY <1>a, <2>1 DEF RunTypeOK, InStepOf, InRun
  <2>3. InStepOf(r)' BY <2>2, IdleInStepNext
  <2>4. \A x \in Runners \ {r} : phase'[x] = phase[x] /\ mine'[x] = mine[x]
    BY <2>1 DEF RunTypeOK
  <2>5. InStep' BY <2>1, <2>3, <2>4, OnlyActorMatters
  <2> QED BY <1>p, <2>1, <2>5 DEF StateMatchesArtifacts
<1>3. ASSUME NEW r \in Runners, NEW resume \in BOOLEAN, NEW acknowledged \in BOOLEAN,
             BeginAttempt(r, resume, acknowledged) PROVE Kept
  <2>1. /\ phase[r] = "idle" /\ phase' = [phase EXCEPT ![r] = "starting"]
        /\ "running" \in Transitions[state.status]
        /\ mine' = [mine EXCEPT ![r] = [Fresh EXCEPT !.completed = HasResult]]
        /\ overlap' = (overlap \/ \E x \in Runners \ {r} : phase[x] # "idle")
        /\ UNCHANGED <<state, saved, closing>>
    BY <1>3 DEF BeginAttempt, To, Set
  <2>2. /\ phase'[r] = "starting" /\ HasResult' = HasResult
        /\ mine'[r].completed = HasResult /\ mine'[r].todo = {}
        /\ mine'[r].executing = {} /\ mine'[r].failed = {}
    BY <2>1 DEF RunTypeOK, HasResult, Fresh
  <2>3. InStepOf(r)'
    BY <2>1, <2>2 DEF InStepOf, InRun
  <2>4. ASSUME NEW x \in Runners, x # r PROVE InStepOf(x)'
    <3>1. phase[x] = "idle" BY <2>1, <2>4
    <3>2. mine[x] = Fresh BY <1>a, <3>1 DEF InStepOf, InRun
    <3>3. phase'[x] = "idle" /\ mine'[x] = Fresh
      BY <2>1, <2>4, <3>1, <3>2 DEF RunTypeOK
    <3> QED BY <3>3, IdleInStepNext
  <2>5. InStep' BY <2>3, <2>4 DEF InStep
  <2> QED BY <2>1, <2>2, <2>5 DEF StateMatchesArtifacts
<1>4. ASSUME NEW r \in Runners, WriteRunning(r) PROVE Kept
  <2>1. /\ phase[r] = "starting" /\ phase' = [phase EXCEPT ![r] = "opening"]
        /\ state' = [status |-> "running", completed |-> mine[r].completed,
                     failed |-> {}, reason |-> "none"]
        /\ UNCHANGED <<saved, mine, closing>>
    BY <1>4 DEF WriteRunning, To
  <2>2. phase'[r] = "opening" /\ HasResult' = HasResult
    BY <2>1 DEF RunTypeOK, HasResult
  <2>3. InStepOf(r)'
    BY <1>a, <2>1, <2>2 DEF InStepOf, InRun
  <2>4. \A x \in Runners \ {r} : phase'[x] = phase[x] /\ mine'[x] = mine[x]
    BY <2>1 DEF RunTypeOK
  <2>5. InStep' BY <2>1, <2>3, <2>4, OnlyActorMatters
  <2> QED BY <2>1, <2>5 DEF StateMatchesArtifacts
<1>5. ASSUME NEW r \in Runners, LogRunning(r) PROVE Kept
  <2>1. /\ phase[r] = "opening" /\ phase' = [phase EXCEPT ![r] = "running"]
        /\ mine' = [mine EXCEPT ![r] =
                       [mine[r] EXCEPT !.todo = FirstPending(mine[r].completed)]]
        /\ UNCHANGED <<state, saved, closing>>
    BY <1>5 DEF LogRunning, To, Set
  <2>2. /\ phase'[r] = "running" /\ HasResult' = HasResult
        /\ mine'[r].todo = FirstPending(mine[r].completed)
        /\ mine'[r].completed = mine[r].completed /\ mine'[r].failed = mine[r].failed
        /\ mine'[r].executing = mine[r].executing
    BY <2>1 DEF RunTypeOK, HasResult, Local
  <2>3. FirstPending(mine[r].completed) \cap HasResult = {}
    BY <1>a, <2>1 DEF FirstPending, InStepOf, InRun
  <2>4. InStepOf(r)'
    BY <1>a, <2>1, <2>2, <2>3 DEF InStepOf, InRun
  <2>5. \A x \in Runners \ {r} : phase'[x] = phase[x] /\ mine'[x] = mine[x]
    BY <2>1 DEF RunTypeOK
  <2>6. InStep' BY <2>1, <2>4, <2>5, OnlyActorMatters
  <2> QED BY <2>1, <2>2, <2>6 DEF StateMatchesArtifacts
<1>6. ASSUME NEW r \in Runners, StartQuestion(r) PROVE Kept
  <2>1. /\ phase[r] = "running" /\ UNCHANGED <<phase, state, saved, closing>>
    BY <1>6 DEF StartQuestion
  <2>2. PICK q \in mine[r].todo :
          mine' = [mine EXCEPT ![r] =
                     [mine[r] EXCEPT !.todo = @ \ {q}, !.executing = @ \cup {q}]]
    BY <1>6 DEF StartQuestion, Set
  <2>3. /\ HasResult' = HasResult
        /\ mine'[r].todo = mine[r].todo \ {q}
        /\ mine'[r].executing = mine[r].executing \cup {q}
        /\ mine'[r].completed = mine[r].completed /\ mine'[r].failed = mine[r].failed
    BY <2>1, <2>2 DEF RunTypeOK, HasResult, Local
  <2>4. q \notin mine[r].failed
    BY <1>a DEF InStepOf
  <2>5. InStepOf(r)'
    BY <1>a, <2>1, <2>2, <2>3, <2>4 DEF InStepOf, InRun
  <2>6. \A x \in Runners \ {r} : phase'[x] = phase[x] /\ mine'[x] = mine[x]
    BY <2>1, <2>2 DEF RunTypeOK
  <2>7. InStep' BY <2>1, <2>5, <2>6, OnlyActorMatters
  <2> QED BY <2>1, <2>3, <2>7 DEF StateMatchesArtifacts
<1>7. ASSUME NEW r \in Runners, SkipRest(r) PROVE Kept
  <2>1. /\ phase[r] = "running" /\ UNCHANGED <<phase, state, saved, closing>>
        /\ mine' = [mine EXCEPT ![r] = [mine[r] EXCEPT !.todo = {}]]
    BY <1>7 DEF SkipRest, Set
  <2>2. /\ HasResult' = HasResult
        /\ mine'[r].todo = {} /\ mine'[r].executing = mine[r].executing
        /\ mine'[r].completed = mine[r].completed /\ mine'[r].failed = mine[r].failed
    BY <2>1 DEF RunTypeOK, HasResult, Local
  <2>3. InStepOf(r)'
    BY <1>a, <2>1, <2>2 DEF InStepOf, InRun
  <2>4. \A x \in Runners \ {r} : phase'[x] = phase[x] /\ mine'[x] = mine[x]
    BY <2>1 DEF RunTypeOK
  <2>5. InStep' BY <2>1, <2>3, <2>4, OnlyActorMatters
  <2> QED BY <2>1, <2>2, <2>5 DEF StateMatchesArtifacts
<1>8. ASSUME NEW r \in Runners, FinishQuestion(r) PROVE Kept
  <2>1. phase[r] = "running" /\ UNCHANGED <<phase, state, closing>>
    BY <1>8 DEF FinishQuestion
  <2>2. PICK q \in Questions :
             /\ q \in mine[r].executing
             /\ mine' = [mine EXCEPT ![r] = mine'[r]]
             /\ mine'[r].todo = mine[r].todo
             /\ mine'[r].executing = mine[r].executing \ {q}
             /\ \/ /\ HasResult' = HasResult \cup {q}
                   /\ mine'[r].completed = mine[r].completed \cup {q}
                   /\ mine'[r].failed = mine[r].failed
                \/ /\ HasResult' = HasResult
                   /\ mine'[r].completed = mine[r].completed
                   /\ mine'[r].failed = mine[r].failed \cup {q}
    BY <1>8, FinishFacts
  <2>3. phase'[r] = "running" /\ state'.status = "running" /\ state'.failed = {}
    BY <1>a, <2>1 DEF InStepOf
  <2>4. q \notin mine[r].todo /\ q \notin mine[r].failed /\ q \notin HasResult
    BY <1>a, <2>2 DEF InStepOf
  <2>5. mine[r].completed = HasResult
    BY <1>a, <2>1 DEF InStepOf, InRun
  <2>6. mine'[r].completed = HasResult'
    BY <2>2, <2>5
  <2>7. /\ (mine'[r].todo \cup mine'[r].executing \cup mine'[r].failed) \cap HasResult' = {}
        /\ mine'[r].executing \cap (mine'[r].todo \cup mine'[r].failed) = {}
        /\ mine'[r].todo \cap mine'[r].failed = {}
    BY <1>a, <2>2, <2>4 DEF InStepOf
  <2>8. InStepOf(r)'
    BY <2>3, <2>6, <2>7 DEF InStepOf, InRun
  <2>9. \A x \in Runners \ {r} : phase'[x] = phase[x] /\ mine'[x] = mine[x]
    BY <2>1, <2>2 DEF RunTypeOK
  <2>10. InStep' BY <2>1, <2>8, <2>9, OnlyActorMatters
  <2> QED BY <2>3, <2>10 DEF StateMatchesArtifacts
<1>9. ASSUME NEW r \in Runners, PoolDone(r) \/ CancelRun(r) PROVE Kept
  <2>1. PICK final \in RunState :
             /\ Conclude(r, final) /\ phase[r] = "running"
             /\ final.completed = mine[r].completed
             /\ final.failed \in {mine[r].failed, state.failed, {}}
             /\ final.status \in Final
    BY <1>9, PoolEnds
  <2>2. mine' = [mine EXCEPT ![r] = Fresh] /\ UNCHANGED <<state, saved>>
    BY <2>1, ConcludeFacts
  <2>3. state.status = "running" /\ state.failed = {}
    BY <1>a, <2>1 DEF InStepOf
  <2>4. final.completed = HasResult /\ final.failed \cap HasResult = {}
    BY <1>a, <2>1, <2>3 DEF InStepOf, InRun
  <2>5. mine'[r] = Fresh /\ HasResult' = HasResult
    BY <2>2 DEF RunTypeOK, HasResult
  <2>6. \/ phase' = [phase EXCEPT ![r] = "closing"] /\ closing' = [closing EXCEPT ![r] = final]
        \/ phase' = [phase EXCEPT ![r] = "idle"]
    BY <2>1, ConcludeFacts
  <2>7. \/ phase'[r] = "closing" /\ closing'[r] = final
        \/ phase'[r] = "idle"
    BY <2>6 DEF RunTypeOK
  <2>8. InStepOf(r)'
    BY <2>1, <2>2, <2>3, <2>4, <2>5, <2>7 DEF InStepOf, InRun, Fresh
  <2>9. \A x \in Runners \ {r} : phase'[x] = phase[x] /\ mine'[x] = mine[x]
    BY <2>2, <2>6 DEF RunTypeOK
  <2>10. InStep' BY <2>1, <2>8, <2>9, OnlyActorMatters
  <2> QED BY <2>2, <2>3, <2>10 DEF StateMatchesArtifacts
<1>10. ASSUME NEW r \in Runners, WriteFinal(r) PROVE Kept
  <2>1. /\ phase[r] = "closing" /\ phase' = [phase EXCEPT ![r] = "logging"]
        /\ state' = closing[r] /\ UNCHANGED <<saved, mine, closing>>
    BY <1>10 DEF WriteFinal, To
  <2>2. phase'[r] = "logging" /\ HasResult' = HasResult
    BY <2>1 DEF RunTypeOK, HasResult
  <2>3. /\ mine[r] = Fresh /\ closing[r].status \in Final
        /\ closing[r].completed = HasResult /\ closing[r].failed \cap HasResult = {}
    BY <1>a, <2>1 DEF InStepOf, InRun
  <2>4. InStepOf(r)'
    BY <2>1, <2>2, <2>3 DEF InStepOf, InRun, Fresh
  <2>5. \A x \in Runners \ {r} : phase'[x] = phase[x] /\ mine'[x] = mine[x]
    BY <2>1 DEF RunTypeOK
  <2>6. InStep' BY <2>1, <2>4, <2>5, OnlyActorMatters
  <2> QED BY <2>1, <2>2, <2>3, <2>6 DEF StateMatchesArtifacts
<1>11. ASSUME NEW r \in Runners, LogFinal(r) \/ Crash(r) PROVE Kept
  <2>1. /\ phase[r] # "idle" /\ phase' = [phase EXCEPT ![r] = "idle"]
        /\ UNCHANGED <<state, saved>>
        /\ mine' = mine \/ mine' = [mine EXCEPT ![r] = Fresh]
    BY <1>11 DEF LogFinal, Crash, To, Set
  <2>2. \/ phase[r] = "logging" /\ mine' = mine
        \/ mine' = [mine EXCEPT ![r] = Fresh]
    BY <1>11 DEF LogFinal, Crash, Set
  <2>3. phase'[r] = "idle" /\ mine'[r] = Fresh /\ HasResult' = HasResult
    BY <1>a, <2>1, <2>2 DEF RunTypeOK, HasResult, InStepOf, InRun
  <2>4. InStepOf(r)' BY <2>3, IdleInStepNext
  <2>5. \A x \in Runners \ {r} : phase'[x] = phase[x] /\ mine'[x] = mine[x]
    BY <2>1 DEF RunTypeOK
  <2>6. InStep' BY <2>1, <2>4, <2>5, OnlyActorMatters
  <2> QED BY <2>1, <2>3, <2>6 DEF StateMatchesArtifacts
<1>12. CASE UNCHANGED vars
  BY <1>12 DEF vars, InStep, InStepOf, StateMatchesArtifacts, HasResult
<1> QED BY <1>1, <1>2, <1>3, <1>4, <1>5, <1>6, <1>7, <1>8, <1>9, <1>10, <1>11, <1>12
        DEF Next, Work

-----------------------------------------------------------------------------
(* A path of the transition table grows by a step the table allows. *)
LEMMA PathGrows ==
    ASSUME NEW h \in Seq(Statuses), h # <<>>, NEW s \in Statuses,
           \A i \in 1..(Len(h) - 1) : h[i + 1] \in Transitions[h[i]],
           s \in Transitions[h[Len(h)]]
    PROVE  /\ Append(h, s) # <<>>
           /\ Append(h, s)[Len(Append(h, s))] = s
           /\ \A i \in 1..(Len(Append(h, s)) - 1) :
                  Append(h, s)[i + 1] \in Transitions[Append(h, s)[i]]
<1> DEFINE g == Append(h, s)
<1>1. /\ Len(g) = Len(h) + 1 /\ Len(h) \in Nat \ {0} /\ g[Len(g)] = s
      /\ \A i \in 1..Len(h) : g[i] = h[i]
  OBVIOUS
<1>2. ASSUME NEW i \in 1..(Len(g) - 1) PROVE g[i + 1] \in Transitions[g[i]]
  <2>1. CASE i = Len(h)
    BY <1>1, <2>1
  <2>2. CASE i # Len(h)
    <3>1. i \in 1..(Len(h) - 1) /\ i \in 1..Len(h) /\ i + 1 \in 1..Len(h)
      BY <1>1, <2>2
    <3> QED BY <1>1, <3>1
  <2> QED BY <2>1, <2>2
<1>3. g # <<>> BY <1>1
<1> QED BY <1>1, <1>2, <1>3

(* While operators take turns and nobody crashes, the history follows the  *)
(* state, one entry behind only between the two writes of a transition.    *)
LEMMA HistoryStep ==
    ASSUME RunTypeOK, CreatedFirst, Solo, InStep, HistoryInStep, [Next]_vars
    PROVE  HistoryInStep'
<1>o. overlap => overlap'
  BY DEF Next, Work, vars, CreateDirectory, WritePlanned, BeginAttempt, WriteRunning,
         LogRunning, StartQuestion, SkipRest, FinishQuestion, PoolDone, CancelRun,
         Conclude, WriteFinal, LogFinal, Crash
<1>c. crashes' = 0 => crashes = 0
  <2>1. crashes \in Nat BY RunAssumption DEF RunTypeOK
  <2>2. CASE \E r \in Runners : Crash(r)
    BY <2>1, <2>2 DEF Crash
  <2>3. CASE ~ \E r \in Runners : Crash(r)
    BY <2>3 DEF Next, Work, vars, bounds, CreateDirectory, WritePlanned, BeginAttempt,
           WriteRunning, LogRunning, StartQuestion, SkipRest, FinishQuestion, PoolDone,
           CancelRun, Conclude, WriteFinal, LogFinal
  <2> QED BY <2>2, <2>3
<1> SUFFICES ASSUME ~overlap, ~overlap', crashes = 0, crashes' = 0, disk' = "ready"
             PROVE  HistoryInStep'
  BY <1>o, <1>c DEF HistoryInStep
<1>a. \A r \in Runners : InStepOf(r) BY DEF InStep
<1>h. history \in Seq(Statuses) /\ state.status \in Statuses BY DEF RunTypeOK, RunState
<1>i. ASSUME NEW r \in Runners, phase[r] # "idle" PROVE \A x \in Runners \ {r} : phase[x] = "idle"
  BY <1>i DEF Solo
<1>1. ASSUME NEW r \in Runners, CreateDirectory(r) PROVE HistoryInStep'
  BY <1>1 DEF CreateDirectory
<1>2. ASSUME NEW r \in Runners, WritePlanned(r) PROVE HistoryInStep'
  <2>1. /\ phase[r] = "creating" /\ phase' = [phase EXCEPT ![r] = "idle"]
        /\ history' = <<"planned">> /\ state'.status = "planned"
    BY <1>2 DEF WritePlanned, To, Planned
  <2>2. \A x \in Runners : phase'[x] = "idle"
    BY <1>i, <2>1 DEF RunTypeOK
  <2>3. history' # <<>> /\ Len(history') = 1 /\ history'[1] = "planned"
    BY <2>1
  <2> QED BY <2>1, <2>2, <2>3 DEF HistoryInStep
<1>3. ASSUME NEW r \in Runners, NEW resume \in BOOLEAN, NEW acknowledged \in BOOLEAN,
             BeginAttempt(r, resume, acknowledged) PROVE HistoryInStep'
  <2>1. /\ disk = "ready" /\ phase[r] = "idle" /\ phase' = [phase EXCEPT ![r] = "starting"]
        /\ overlap' = (overlap \/ \E x \in Runners \ {r} : phase[x] # "idle")
        /\ UNCHANGED <<state, history>>
    BY <1>3 DEF BeginAttempt, To
  <2>2. \A x \in Runners : /\ phase[x] = "idle"
                           /\ phase'[x] \notin {"opening", "logging"}
    BY <2>1 DEF RunTypeOK
  <2> QED BY <2>1, <2>2 DEF HistoryInStep
<1>4. ASSUME NEW r \in Runners, WriteRunning(r) PROVE HistoryInStep'
  <2>1. /\ disk' = disk /\ phase[r] = "starting" /\ phase' = [phase EXCEPT ![r] = "opening"]
        /\ history' = history
    BY <1>4 DEF WriteRunning, To
  <2>2. \A x \in Runners : phase[x] \notin {"opening", "logging"}
    BY <1>i, <2>1
  <2>3. "running" \in Transitions[history[Len(history)]]
    BY <1>a, <2>1, <2>2 DEF HistoryInStep, InStepOf
  <2>4. phase'[r] = "opening" /\ \A x \in Runners \ {r} : phase'[x] = "idle"
    BY <1>i, <2>1 DEF RunTypeOK
  <2> QED BY <2>1, <2>3, <2>4 DEF HistoryInStep
<1>5. ASSUME NEW r \in Runners, LogRunning(r) PROVE HistoryInStep'
  <2>1. /\ disk' = disk /\ phase[r] = "opening" /\ phase' = [phase EXCEPT ![r] = "running"]
        /\ history' = Append(history, "running") /\ state' = state
    BY <1>5 DEF LogRunning, To
  <2>2. /\ history # <<>> /\ "running" \in Transitions[history[Len(history)]]
        /\ \A i \in 1..(Len(history) - 1) : history[i + 1] \in Transitions[history[i]]
    BY <2>1 DEF HistoryInStep
  <2>3. "running" \in Statuses BY DEF Statuses
  <2>4. /\ history' # <<>> /\ history'[Len(history')] = "running"
        /\ \A i \in 1..(Len(history') - 1) : history'[i + 1] \in Transitions[history'[i]]
    BY <1>h, <2>1, <2>2, <2>3, PathGrows
  <2>5. state'.status = "running" BY <1>a, <2>1 DEF InStepOf
  <2>6. \A x \in Runners : phase'[x] \notin {"opening", "logging"}
    BY <1>i, <2>1 DEF RunTypeOK
  <2> QED BY <2>4, <2>5, <2>6 DEF HistoryInStep
<1>6. ASSUME NEW r \in Runners, StartQuestion(r) \/ SkipRest(r) \/ FinishQuestion(r)
      PROVE  HistoryInStep'
  <2>1. UNCHANGED <<disk, phase, history, state>>
    BY <1>6 DEF StartQuestion, SkipRest, FinishQuestion
  <2> QED BY <2>1 DEF HistoryInStep
<1>7. ASSUME NEW r \in Runners, PoolDone(r) \/ CancelRun(r) PROVE HistoryInStep'
  <2>1. PICK final \in RunState : Conclude(r, final) /\ phase[r] = "running"
    BY <1>7, PoolEnds
  <2>2. /\ UNCHANGED <<disk, state, history>>
        /\ \/ phase' = [phase EXCEPT ![r] = "closing"]
           \/ phase' = [phase EXCEPT ![r] = "idle"]
    BY <2>1, ConcludeFacts
  <2>3. \A x \in Runners : /\ phase[x] \notin {"opening", "logging"}
                           /\ phase'[x] \notin {"opening", "logging"}
    BY <1>i, <2>1, <2>2 DEF RunTypeOK
  <2> QED BY <2>2, <2>3 DEF HistoryInStep
<1>8. ASSUME NEW r \in Runners, WriteFinal(r) PROVE HistoryInStep'
  <2>1. /\ disk' = disk /\ phase[r] = "closing" /\ phase' = [phase EXCEPT ![r] = "logging"]
        /\ history' = history
    BY <1>8 DEF WriteFinal, To
  <2>2. \A x \in Runners : phase[x] \notin {"opening", "logging"}
    BY <1>i, <2>1
  <2>3. history[Len(history)] = "running"
    BY <1>a, <2>1, <2>2 DEF HistoryInStep, InStepOf
  <2>4. phase'[r] = "logging" /\ \A x \in Runners \ {r} : phase'[x] = "idle"
    BY <1>i, <2>1 DEF RunTypeOK
  <2> QED BY <2>1, <2>3, <2>4 DEF HistoryInStep
<1>9. ASSUME NEW r \in Runners, LogFinal(r) PROVE HistoryInStep'
  <2>1. /\ disk' = disk /\ phase[r] = "logging" /\ phase' = [phase EXCEPT ![r] = "idle"]
        /\ history' = Append(history, closing[r].status) /\ state' = state
    BY <1>9 DEF LogFinal, To
  <2>2. state = closing[r] /\ state.status \in Final
    BY <1>a, <2>1 DEF InStepOf
  <2>3. "running" \in Statuses /\ Transitions["running"] = Final
    BY DEF Statuses, Transitions, Final
  <2>4. /\ history # <<>> /\ state.status \in Transitions[history[Len(history)]]
        /\ \A i \in 1..(Len(history) - 1) : history[i + 1] \in Transitions[history[i]]
    BY <2>1, <2>2, <2>3 DEF HistoryInStep
  <2>5. /\ history' # <<>> /\ history'[Len(history')] = state.status
        /\ \A i \in 1..(Len(history') - 1) : history'[i + 1] \in Transitions[history'[i]]
    BY <1>h, <2>1, <2>2, <2>4, PathGrows
  <2>6. \A x \in Runners : phase'[x] \notin {"opening", "logging"}
    BY <1>i, <2>1 DEF RunTypeOK
  <2> QED BY <2>1, <2>5, <2>6 DEF HistoryInStep
<1>10. ASSUME NEW r \in Runners, Crash(r) PROVE HistoryInStep'
  BY <1>10 DEF Crash
<1>11. CASE UNCHANGED vars
  BY <1>11 DEF vars, HistoryInStep
<1> QED BY <1>1, <1>2, <1>3, <1>4, <1>5, <1>6, <1>7, <1>8, <1>9, <1>10, <1>11
        DEF Next, Work

-----------------------------------------------------------------------------
LEMMA InvariantInit == Init => RunIInv
<1> SUFFICES ASSUME Init PROVE RunIInv OBVIOUS
<1>1. RunTypeOK BY InitTypes
<1>2. HasResult = {} BY DEF Init, HasResult
<1>3. RecordsBackedByResults /\ RunnersBacked
  BY <1>2 DEF Init, RecordsBackedByResults, RunnersBacked, Planned, Fresh
<1>4. CreatedFirst /\ Solo BY DEF Init, CreatedFirst, Solo, Idle
<1>5. InStep /\ StateMatchesArtifacts
  <2>1. \A r \in Runners : InStepOf(r) BY IdleInStep DEF Init
  <2> QED BY <2>1 DEF Init, InStep, StateMatchesArtifacts, Planned
<1>6. HistoryInStep BY DEF Init, HistoryInStep
<1> QED BY <1>1, <1>3, <1>4, <1>5, <1>6 DEF RunIInv

LEMMA InvariantStep == RunIInv /\ [Next]_vars => RunIInv'
BY TypesStep, BackedStep, TurnsStep, InStepStep, HistoryStep DEF RunIInv

(* The inductive invariant of a run directory and all its runners.         *)
THEOREM RunInvariant == Spec => []RunIInv
BY InvariantInit, InvariantStep, PTL DEF Spec

(* state.json never claims a result that is not on disk, whatever          *)
(* processes work on the directory at once, die, or are cancelled.         *)
THEOREM RecordsBackedHolds == Spec => []RecordsBackedByResults
<1>1. RunIInv => RecordsBackedByResults BY DEF RunIInv
<1> QED BY <1>1, RunInvariant, PTL

(* While operators take turns, the state a run comes to rest in agrees     *)
(* with the files under results/.                                          *)
THEOREM StateMatchesHolds == Spec => []StateMatchesArtifacts
<1>1. RunIInv => StateMatchesArtifacts BY DEF RunIInv
<1> QED BY <1>1, RunInvariant, PTL

(* Resuming is idempotent: no question with a saved result is executed     *)
(* again while operators take turns.                                       *)
THEOREM NeverReexecutesHolds == Spec => []NeverReexecutesSaved
<1>1. RunIInv => NeverReexecutesSaved
  BY DEF RunIInv, InStep, InStepOf, NeverReexecutesSaved
<1> QED BY <1>1, RunInvariant, PTL

(* Without crashes and overlaps the history is a path of the transition    *)
(* table that ends in the current state.                                   *)
THEOREM HistoryFaithfulHolds == Spec => []HistoryFaithful
<1>1. RunIInv => HistoryFaithful
  BY DEF RunIInv, HistoryInStep, HistoryFaithful, Idle, Last, RunTypeOK
<1> QED BY <1>1, RunInvariant, PTL

(* A saved result is immutable, whoever executes its question again.       *)
THEOREM ResultsImmutableHolds == Spec => ResultsImmutable
<1>1. RunTypeOK /\ [Next]_vars =>
          [\A q \in Questions : saved[q] # NoRunner => saved'[q] = saved[q]]_vars
  BY ResultsStep
<1> QED BY <1>1, RunTypes, PTL DEF Spec, ResultsImmutable

(* While operators take turns, nothing opens a completed run again.        *)
THEOREM CompletedIsFinalHolds == Spec => CompletedIsFinal
<1>1. RunIInv /\ [Next]_vars =>
          [state.status = "completed" /\ ~overlap => state' = state]_vars
  <2> SUFFICES ASSUME RunIInv, Next, state.status = "completed", ~overlap
               PROVE  state' = state
    OBVIOUS
  <2>a. \A r \in Runners : InStepOf(r) BY DEF RunIInv, InStep
  <2>1. ASSUME NEW r \in Runners, WritePlanned(r) PROVE FALSE
    BY <2>1 DEF WritePlanned, RunIInv, CreatedFirst, Planned
  <2>2. ASSUME NEW r \in Runners, WriteRunning(r) PROVE FALSE
    <3>1. "running" \in Transitions["completed"]
      BY <2>a, <2>2 DEF WriteRunning, InStepOf
    <3> QED BY <3>1 DEF Transitions, Statuses
  <2>3. ASSUME NEW r \in Runners, WriteFinal(r) PROVE FALSE
    BY <2>a, <2>3 DEF WriteFinal, InStepOf
  <2> QED BY <2>1, <2>2, <2>3 DEF Next, Work, CreateDirectory, BeginAttempt, LogRunning,
             StartQuestion, SkipRest, FinishQuestion, PoolDone, CancelRun, Conclude,
             LogFinal, Crash
<1> QED BY <1>1, RunInvariant, PTL DEF Spec, CompletedIsFinal

(***************************************************************************)
(* The exporters of what was run, for any number of exporters, requests    *)
(* and attempts.  Whoever is past the lock holds it, so nobody else        *)
(* publishes meanwhile; what is staged grows file by file and is described *)
(* when it is whole; and what is published is never touched again.         *)
(***************************************************************************)
(* The published directory of a request. *)
Whole(r) == [files |-> FilesOf(r), manifest |-> Manifest(FilesOf(r), r)]

Working == {"building", "writing", "described"}
Holding == Working \cup {"locked", "published"}
Labels == Holding \cup {"idle", "asked", "failed", "returned"}

ExportTypeOK ==
    /\ pc \in [Exporters -> Labels] /\ starts \in [Exporters -> Nat]
    /\ request \in [Exporters -> Requests \cup {None}]
    /\ DOMAIN staging = Exporters /\ staging = [p \in Exporters |-> staging[p]]
    /\ DOMAIN answer = Exporters /\ answer = [p \in Exporters |-> answer[p]]
    /\ lock \in Exporters \cup {None}

(* What an exporter at label l with request r has staged as s. *)
StagedSound(l, r, s) ==
    /\ l \notin {"idle", "failed"} => r \in Requests
    /\ l \notin Working => s = None
    /\ l \in {"building", "writing"} => \E files : s = [files |-> files, manifest |-> None]
    /\ l = "described" => s = Whole(r)

ExportIInv ==
    /\ ExportTypeOK
    /\ \A p \in Exporters : StagedSound(pc[p], request[p], staging[p])
    /\ \A p \in Exporters : pc[p] \in Holding => lock = p
    /\ \A p \in Exporters : pc[p] = "published" => output # None
    /\ output # None => \E r \in Requests : output = Whole(r)
    /\ \A p \in Exporters : answer[p] # None => output # None /\ answer[p] = output.manifest

LEMMA ExportStart == ExportInit => ExportIInv
  BY ExportAssumption
     DEF ExportInit, ExportIInv, ExportTypeOK, StagedSound, Labels, Holding, Working

(* A step of one exporter that publishes nothing. *)
LEMMA ExporterStep ==
    ASSUME ExportIInv, NEW p \in Exporters, NEW l \in Labels, NEW r, NEW s,
           Goto(p, l), request' = [request EXCEPT ![p] = r],
           staging' = [staging EXCEPT ![p] = s],
           r \in Requests \cup {None}, starts' \in [Exporters -> Nat],
           StagedSound(l, r, s),
           l \in Holding => lock' = p, l = "published" => output # None,
           \/ lock' = lock
           \/ lock \in {p, None} /\ lock' \in {p, None},
           UNCHANGED <<output, answer>>
    PROVE  ExportIInv'
  <1>1. /\ pc' \in [Exporters -> Labels]
        /\ pc'[p] = l /\ request'[p] = r /\ staging'[p] = s
        /\ \A q \in Exporters \ {p} :
             pc'[q] = pc[q] /\ request'[q] = request[q] /\ staging'[q] = staging[q]
    BY DEF ExportIInv, ExportTypeOK, Goto
  <1>2. ExportTypeOK'
    BY <1>1 DEF ExportIInv, ExportTypeOK, Goto
  <1>3. \A q \in Exporters : StagedSound(pc'[q], request'[q], staging'[q])
    BY <1>1 DEF ExportIInv
  <1>4. ASSUME NEW q \in Exporters, pc'[q] \in Holding PROVE lock' = q
    BY <1>1, <1>4, ExportAssumption DEF ExportIInv
  <1>5. \A q \in Exporters : pc'[q] = "published" => output' # None
    BY <1>1 DEF ExportIInv
  <1> QED
    BY <1>2, <1>3, <1>4, <1>5 DEF ExportIInv

LEMMA ExportStep == ExportIInv /\ [ExportNext]_export => ExportIInv'
  <1> SUFFICES ASSUME ExportIInv, [ExportNext]_export PROVE ExportIInv'
    OBVIOUS
  <1>1. CASE UNCHANGED export
    BY <1>1 DEF export, ExportIInv, ExportTypeOK
  <1>2. ASSUME NEW p \in Exporters,
               \/ Ask(p) \/ Lock(p) \/ Refuse(p) \/ Stage(p) \/ Fail(p) \/ Build(p)
               \/ WriteTable(p) \/ WriteFigure(p) \/ Describe(p) \/ Publish(p) \/ Return(p)
               \/ SyncFails(p) \/ ExporterCrash(p)
        PROVE  ExportIInv'
    <2>a. /\ ExportTypeOK /\ StagedSound(pc[p], request[p], staging[p])
          /\ pc[p] \in Labels /\ request[p] \in Requests \cup {None}
          /\ pc[p] \in Holding => lock = p
      BY DEF ExportIInv, ExportTypeOK
    <2>b. request = [request EXCEPT ![p] = request[p]]
          /\ staging = [staging EXCEPT ![p] = staging[p]]
      BY <2>a DEF ExportTypeOK
    <2> USE DEF Holding, Working, Labels
    <2>1. CASE Ask(p)
      <3> PICK r \in Requests : request' = [request EXCEPT ![p] = r]
        BY <2>1 DEF Ask
      <3>1. /\ Goto(p, "asked") /\ staging' = [staging EXCEPT ![p] = staging[p]]
            /\ UNCHANGED <<lock, output, answer>> /\ pc[p] \in {"idle", "failed"}
        BY <2>1, <2>b DEF Ask
      <3>2. starts' \in [Exporters -> Nat]
        <4>1. \A q \in Exporters : starts[q] + 1 \in Nat
          BY <2>a DEF ExportTypeOK
        <4> QED
          BY <2>1, <2>a, <4>1 DEF Ask, ExportTypeOK
      <3>3. StagedSound("asked", r, staging[p])
        BY <2>a, <3>1 DEF StagedSound
      <3> QED
        BY <3>1, <3>2, <3>3, ExporterStep
    <2>2. CASE Lock(p)
      <3>1. /\ Goto(p, "locked") /\ lock = None /\ lock' = p
            /\ UNCHANGED <<starts, request, staging, output, answer>> /\ pc[p] = "asked"
        BY <2>2 DEF Lock
      <3>2. StagedSound("locked", request[p], staging[p])
        BY <2>a, <3>1 DEF StagedSound
      <3> QED
        BY <2>a, <2>b, <3>1, <3>2, ExporterStep DEF ExportTypeOK
    <2>3. CASE Refuse(p)
      <3>1. /\ Goto(p, "failed") /\ lock = p /\ lock' = None
            /\ UNCHANGED <<starts, request, staging, output, answer>> /\ pc[p] = "locked"
        BY <2>3, <2>a DEF Refuse
      <3>2. StagedSound("failed", request[p], staging[p])
        BY <2>a, <3>1 DEF StagedSound
      <3> QED
        BY <2>a, <2>b, <3>1, <3>2, ExporterStep DEF ExportTypeOK
    <2>4. CASE Stage(p)
      <3> DEFINE s == [files |-> {}, manifest |-> None]
      <3>1. /\ Goto(p, "building") /\ lock = p /\ staging' = [staging EXCEPT ![p] = s]
            /\ UNCHANGED <<starts, request, lock, output, answer>> /\ pc[p] = "locked"
        BY <2>4, <2>a DEF Stage
      <3>2. StagedSound("building", request[p], s)
        BY <2>a, <3>1 DEF StagedSound
      <3> HIDE DEF s
      <3> QED
        BY <2>a, <2>b, <3>1, <3>2, ExporterStep DEF ExportTypeOK
    <2>5. CASE Fail(p)
      <3>1. /\ Goto(p, "failed") /\ lock = p /\ lock' = None
            /\ staging' = [staging EXCEPT ![p] = None]
            /\ UNCHANGED <<starts, request, output, answer>>
        BY <2>5, <2>a DEF Fail
      <3>2. StagedSound("failed", request[p], None)
        BY DEF StagedSound
      <3> QED
        BY <2>a, <2>b, <3>1, <3>2, ExporterStep DEF ExportTypeOK
    <2>6. CASE Build(p)
      <3>1. /\ Goto(p, "writing") /\ lock = p /\ pc[p] = "building"
            /\ UNCHANGED <<starts, request, staging, lock, output, answer>>
        BY <2>6, <2>a DEF Build
      <3>2. StagedSound("writing", request[p], staging[p])
        BY <2>a, <3>1 DEF StagedSound
      <3>3. /\ request' = [request EXCEPT ![p] = request[p]]
            /\ staging' = [staging EXCEPT ![p] = staging[p]]
            /\ starts' \in [Exporters -> Nat] /\ lock' = lock /\ lock' = p
        BY <2>a, <2>b, <3>1 DEF ExportTypeOK
      <3> QED
        BY <2>a, <3>1, <3>2, <3>3, ExporterStep
    <2>7. CASE WriteTable(p) \/ WriteFigure(p)
      <3>1. PICK file : /\ staging' = [staging EXCEPT ![p].files = @ \cup {file}]
                        /\ pc[p] = "writing"
                        /\ UNCHANGED <<pc, starts, request, lock, output, answer>>
        BY <2>7 DEF WriteTable, WriteFigure, WriteNext
      <3>2. PICK files : staging[p] = [files |-> files, manifest |-> None]
        BY <2>a, <3>1 DEF StagedSound
      <3> DEFINE s == [files |-> files \cup {file}, manifest |-> None]
      <3>3. staging' = [staging EXCEPT ![p] = s] /\ Goto(p, "writing") /\ lock = p
        <4>1. staging' = [staging EXCEPT ![p] =
                            [staging[p] EXCEPT !.files = staging[p].files \cup {file}]]
          BY <3>1, Zenon
        <4>2. [staging[p] EXCEPT !.files = staging[p].files \cup {file}] = s
          BY <3>2
        <4> HIDE DEF s
        <4>3. pc' = [pc EXCEPT ![p] = "writing"] /\ lock = p
          BY <2>a, <3>1 DEF ExportTypeOK
        <4> QED
          BY <4>1, <4>2, <4>3, Zenon DEF Goto
      <3>4. StagedSound("writing", request[p], s)
        BY <2>a, <3>1 DEF StagedSound
      <3>5. /\ request' = [request EXCEPT ![p] = request[p]]
            /\ starts' \in [Exporters -> Nat] /\ lock' = lock /\ lock' = p
        BY <2>a, <2>b, <3>1, <3>3 DEF ExportTypeOK
      <3> HIDE DEF s
      <3> QED
        BY <2>a, <3>1, <3>3, <3>4, <3>5, ExporterStep
    <2>8. CASE Describe(p)
      <3>1. /\ Goto(p, "described") /\ lock = p /\ pc[p] = "writing"
            /\ staging[p].files = FilesOf(request[p])
            /\ staging' = [staging EXCEPT ![p].manifest = Manifest(staging[p].files, request[p])]
            /\ UNCHANGED <<starts, request, lock, output, answer>>
        BY <2>8, <2>a DEF Describe
      <3>2. PICK files : staging[p] = [files |-> files, manifest |-> None]
        BY <2>a, <3>1 DEF StagedSound
      <3>3. staging' = [staging EXCEPT ![p] = Whole(request[p])]
        <4>1. staging' = [staging EXCEPT ![p] = [staging[p] EXCEPT
                            !.manifest = Manifest(staging[p].files, request[p])]]
          BY <3>1, Zenon
        <4>2. [staging[p] EXCEPT !.manifest = Manifest(staging[p].files, request[p])]
                = [files |-> files, manifest |-> Manifest(files, request[p])]
          BY <3>2
        <4>3. files = FilesOf(request[p])
          BY <3>1, <3>2
        <4> QED
          BY <4>1, <4>2, <4>3, Zenon DEF Whole
      <3>4. StagedSound("described", request[p], Whole(request[p]))
        BY <2>a, <3>1 DEF StagedSound
      <3> QED
        BY <2>a, <2>b, <3>1, <3>3, <3>4, ExporterStep DEF ExportTypeOK
    <2>9. CASE Publish(p)
      <3>1. /\ pc[p] = "described" /\ lock = p /\ output = None /\ output' = staging[p]
            /\ staging' = [staging EXCEPT ![p] = None] /\ pc' = [pc EXCEPT ![p] = "published"]
            /\ UNCHANGED <<starts, request, lock, answer>>
        BY <2>9, <2>a DEF Publish, Goto
      <3>2. request[p] \in Requests /\ output' = Whole(request[p]) /\ output' # None
        BY <2>a, <3>1, ExportAssumption DEF StagedSound, Whole
      <3>3. ExportTypeOK'
        BY <2>a, <3>1 DEF ExportTypeOK
      <3>4. \A q \in Exporters : StagedSound(pc'[q], request'[q], staging'[q])
        BY <2>a, <3>1, <3>2 DEF ExportIInv, ExportTypeOK, StagedSound
      <3>5. \A q \in Exporters : pc'[q] \in Holding => lock' = q
        BY <2>a, <3>1 DEF ExportIInv, ExportTypeOK
      <3>6. \A q \in Exporters : answer'[q] = None
        BY <3>1 DEF ExportIInv
      <3> QED
        BY <3>2, <3>3, <3>4, <3>5, <3>6 DEF ExportIInv
    <2>10. CASE Return(p)
      <3>1. /\ pc[p] = "published" /\ lock = p /\ lock' = None
            /\ answer' = [answer EXCEPT ![p] = output.manifest]
            /\ pc' = [pc EXCEPT ![p] = "returned"]
            /\ UNCHANGED <<starts, request, staging, output>>
        BY <2>10, <2>a DEF Return, Goto
      <3>2. ExportTypeOK'
        BY <2>a, <3>1 DEF ExportTypeOK
      <3>3. \A q \in Exporters : StagedSound(pc'[q], request'[q], staging'[q])
        BY <2>a, <3>1 DEF ExportIInv, ExportTypeOK, StagedSound
      <3>4. \A q \in Exporters : /\ pc'[q] \in Holding => lock' = q
                                 /\ pc'[q] = "published" => output' # None
        BY <2>a, <3>1 DEF ExportIInv, ExportTypeOK
      <3>5. \A q \in Exporters :
              answer'[q] # None => output' # None /\ answer'[q] = output'.manifest
        BY <2>a, <3>1 DEF ExportIInv, ExportTypeOK
      <3> QED
        BY <3>1, <3>2, <3>3, <3>4, <3>5 DEF ExportIInv
    <2>11. CASE SyncFails(p)
      <3>1. /\ Goto(p, "failed") /\ lock = p /\ lock' = None /\ pc[p] = "published"
            /\ UNCHANGED <<starts, request, staging, output, answer>>
        BY <2>11, <2>a DEF SyncFails
      <3>2. StagedSound("failed", request[p], staging[p])
        BY <2>a, <3>1 DEF StagedSound
      <3> QED
        BY <2>a, <2>b, <3>1, <3>2, ExporterStep DEF ExportTypeOK
    <2>12. CASE ExporterCrash(p)
      <3>1. /\ Goto(p, "idle") /\ lock' = IF lock = p THEN None ELSE lock
            /\ staging' = [staging EXCEPT ![p] = None]
            /\ UNCHANGED <<starts, request, output, answer>>
        BY <2>12 DEF ExporterCrash
      <3>2. StagedSound("idle", request[p], None)
        BY DEF StagedSound
      <3> QED
        BY <2>a, <2>b, <3>1, <3>2, ExporterStep DEF ExportTypeOK
    <2> QED
      BY <1>2, <2>1, <2>2, <2>3, <2>4, <2>5, <2>6, <2>7, <2>8, <2>9, <2>10, <2>11, <2>12
  <1> QED
    BY <1>1, <1>2 DEF ExportNext

(* The inductive invariant of the exporters of one output directory. *)
THEOREM ExportInvariant == ExportSpec => []ExportIInv
  BY ExportStart, ExportStep, PTL DEF ExportSpec

(* What is published is one request's, whole, under a manifest of what is  *)
(* there, and every exporter that returns was given that manifest          *)
(* (export_analysis).                                                      *)
THEOREM PublishedWholeHolds == ExportSpec => []PublishedWhole
  <1>1. ASSUME ExportIInv PROVE PublishedWhole
    <2>1. output # None => \E r \in Requests :
            output.files = FilesOf(r) /\ output.manifest = Manifest(FilesOf(r), r)
      BY <1>1 DEF ExportIInv, Whole
    <2>2. \A p \in Exporters : staging[p] # None => lock = p
      BY <1>1 DEF ExportIInv, StagedSound, Holding
    <2> QED
      BY <1>1, <2>1, <2>2 DEF ExportIInv, PublishedWhole
  <1> QED
    BY <1>1, ExportInvariant, PTL

-----------------------------------------------------------------------------
(* What the tables of an export say.                                       *)

(* Appending one part to what the parts before it gave. *)
ConcatNext(none, all, part) == all \o part

(* FoldFacts for the fold of Concat, for sums, and for the places of the   *)
(* members of an ordered set; what is finite there, how large it is and    *)
(* what it adds up to is so here.                                          *)
PartFold == INSTANCE FoldFacts WITH Op <- ConcatNext

(* What is finite, how large it is and what it adds up to, there and here. *)
LEMMA SameSets ==
    /\ \A S : PartFold!IsFiniteSet(S) = IsFiniteSet(S)
    /\ \A S : PartFold!Cardinality(S) = Cardinality(S)
    /\ \A f, S : PartFold!SumFunctionOnSet(f, S) = SumFunctionOnSet(f, S)
<1>1. \A S : PartFold!IsFiniteSet(S) = IsFiniteSet(S)
  BY DEF IsFiniteSet, PartFold!IsFiniteSet
<1>2. \A S : PartFold!Cardinality(S) = Cardinality(S)
  BY DEF Cardinality, PartFold!Cardinality
<1>3. \A f, S : PartFold!SumFunctionOnSet(f, S) = SumFunctionOnSet(f, S)
  BY DEF SumFunctionOnSet, FoldFunctionOnSet, MapThenFoldSet, PartFold!SumFunctionOnSet,
         PartFold!FoldFunctionOnSet, PartFold!MapThenFoldSet
<1> QED BY <1>1, <1>2, <1>3

(* The facts about sums, cited as they are needed.                         *)
LEMMA AddsNothing == \A f : SumFunctionOnSet(f, {}) = 0
  BY SameSets, PartFold!SumEmpty

LEMMA AddsToNat ==
    ASSUME NEW f, NEW S, IsFiniteSet(S), \A x \in S : f[x] \in Nat
    PROVE  SumFunctionOnSet(f, S) \in Nat
  BY SameSets, PartFold!SumNat

LEMMA AddsOne ==
    ASSUME NEW f, NEW S, IsFiniteSet(S), \A x \in S : f[x] \in Nat, NEW y \in S
    PROVE  SumFunctionOnSet(f, S) = f[y] + SumFunctionOnSet(f, S \ {y})
  BY SameSets, PartFold!SumSplit

LEMMA AddsSame ==
    ASSUME NEW f, NEW g, NEW S, IsFiniteSet(S), \A x \in S : f[x] = g[x]
    PROVE  SumFunctionOnSet(f, S) = SumFunctionOnSet(g, S)
  BY SameSets, PartFold!SumSame

(* The smallest of the subsets with a property.                            *)
LEMMA SmallestOf ==
    ASSUME NEW S, IsFiniteSet(S), NEW Bad \in SUBSET (SUBSET S), Bad # {}
    PROVE  \E T \in Bad : \A U \in Bad : ~(U \subseteq T /\ U # T)
  BY SameSets, PartFold!Smallest

(* The members of S with key k.                                            *)
Keyed(S, key, k) == {x \in S : key[x] = k}

(* What the sums of the groups of T add up to.                             *)
ByKey(f, key, K, T) ==
    SumFunctionOnSet([k \in K |-> SumFunctionOnSet(f, Keyed(T, key, k))], K)

(* One more member adds its amount to the group of its key.                *)
LEMMA OneMoreKeyed ==
    ASSUME NEW T, IsFiniteSet(T), NEW K, IsFiniteSet(K), NEW f, NEW key, NEW y \in T,
           \A x \in T : f[x] \in Nat /\ key[x] \in K
    PROVE  ByKey(f, key, K, T) = f[y] + ByKey(f, key, K, T \ {y})
<1> DEFINE R == T \ {y}
           g == [k \in K |-> SumFunctionOnSet(f, Keyed(T, key, k))]
           h == [k \in K |-> SumFunctionOnSet(f, Keyed(R, key, k))]
           k0 == key[y]
<1>1. \A k \in K : /\ IsFiniteSet(Keyed(T, key, k)) /\ IsFiniteSet(Keyed(R, key, k))
                   /\ Keyed(T, key, k) \in SUBSET T /\ Keyed(R, key, k) \in SUBSET T
  BY FS_Subset DEF Keyed
<1>2. \A k \in K : g[k] \in Nat /\ h[k] \in Nat
  <2> SUFFICES ASSUME NEW k \in K PROVE g[k] \in Nat /\ h[k] \in Nat
    OBVIOUS
  <2>1. SumFunctionOnSet(f, Keyed(T, key, k)) \in Nat
    BY <1>1, AddsToNat
  <2>2. SumFunctionOnSet(f, Keyed(R, key, k)) \in Nat
    BY <1>1, AddsToNat
  <2> QED BY <2>1, <2>2
<1>3. k0 \in K
  OBVIOUS
<1>4. \A k \in K \ {k0} : Keyed(T, key, k) = Keyed(R, key, k)
  BY DEF Keyed
<1>5. \A k \in K \ {k0} : g[k] = h[k]
  BY <1>4
<1>6. y \in Keyed(T, key, k0) /\ Keyed(T, key, k0) \ {y} = Keyed(R, key, k0)
  BY DEF Keyed
<1>7. g[k0] = f[y] + h[k0]
  <2>1. SumFunctionOnSet(f, Keyed(T, key, k0))
          = f[y] + SumFunctionOnSet(f, Keyed(T, key, k0) \ {y})
    <3>1. \A x \in Keyed(T, key, k0) : f[x] \in Nat
      BY DEF Keyed
    <3>2. IsFiniteSet(Keyed(T, key, k0))
      BY <1>1, <1>3
    <3> HIDE DEF k0
    <3> QED BY <1>6, <3>1, <3>2, AddsOne
  <2> QED BY <1>3, <1>6, <2>1
<1>8. IsFiniteSet(K \ {k0})
  BY FS_Subset
<1> HIDE DEF g, h, k0
<1>9. SumFunctionOnSet(g, K) = g[k0] + SumFunctionOnSet(g, K \ {k0})
  BY <1>2, <1>3, AddsOne
<1>10. SumFunctionOnSet(h, K) = h[k0] + SumFunctionOnSet(h, K \ {k0})
  BY <1>2, <1>3, AddsOne
<1>11. SumFunctionOnSet(g, K \ {k0}) = SumFunctionOnSet(h, K \ {k0})
  BY <1>5, <1>8, AddsSame
<1>12. SumFunctionOnSet(h, K \ {k0}) \in Nat
  BY <1>2, <1>8, AddsToNat
<1>13. ByKey(f, key, K, T) = SumFunctionOnSet(g, K) /\ ByKey(f, key, K, R) = SumFunctionOnSet(h, K)
  BY DEF ByKey, g, h
<1>14. f[y] \in Nat /\ h[k0] \in Nat
  BY <1>2, <1>3
<1> QED BY <1>7, <1>9, <1>10, <1>11, <1>12, <1>13, <1>14

(* Nothing is lost or counted twice when amounts are added up by key.      *)
LEMMA GroupsAddUp ==
    ASSUME NEW S, IsFiniteSet(S), NEW K, IsFiniteSet(K), NEW f, NEW key,
           \A x \in S : f[x] \in Nat /\ key[x] \in K
    PROVE  ByKey(f, key, K, S) = SumFunctionOnSet(f, S)
<1> DEFINE Bad == {T \in SUBSET S : ByKey(f, key, K, T) # SumFunctionOnSet(f, T)}
<1>1. SUFFICES ASSUME Bad # {} PROVE FALSE
  OBVIOUS
<1>2. PICK T \in Bad : \A U \in Bad : ~(U \subseteq T /\ U # T)
  <2>1. Bad \in SUBSET (SUBSET S)
    OBVIOUS
  <2> HIDE DEF Bad
  <2> QED BY <1>1, <2>1, SmallestOf
<1>3. IsFiniteSet(T) /\ T \in SUBSET S
  BY <1>2, FS_Subset
<1>4. CASE T = {}
  <2> DEFINE g == [k \in K |-> SumFunctionOnSet(f, Keyed({}, key, k))]
  <2>1. \A k \in K : Keyed({}, key, k) = {}
    BY DEF Keyed
  <2>2. \A k \in K : g[k] = 0
    BY <2>1, AddsNothing
  <2>3. ByKey(f, key, K, {}) = SumFunctionOnSet(g, K)
    BY DEF ByKey
  <2> HIDE DEF g
  <2>4. SumFunctionOnSet(g, K) = 0
    <3> DEFINE Off == {L \in SUBSET K : SumFunctionOnSet(g, L) # 0}
    <3>1. SUFFICES ASSUME Off # {} PROVE FALSE
      OBVIOUS
    <3>2. PICK L \in Off : \A U \in Off : ~(U \subseteq L /\ U # L)
      <4>1. Off \in SUBSET (SUBSET K)
        OBVIOUS
      <4> HIDE DEF Off
      <4> QED BY <3>1, <4>1, SmallestOf
    <3>3. PICK k \in L : TRUE
      BY <3>2, AddsNothing
    <3>4. SumFunctionOnSet(g, L) = g[k] + SumFunctionOnSet(g, L \ {k})
      <4>1. IsFiniteSet(L) /\ \A x \in L : g[x] \in Nat
        BY <2>2, <3>2, FS_Subset
      <4> QED BY <3>3, <4>1, AddsOne
    <3>5. SumFunctionOnSet(g, L \ {k}) = 0
      <4>1. L \ {k} \in SUBSET K /\ L \ {k} \subseteq L /\ L \ {k} # L
        BY <3>2, <3>3
      <4> QED BY <3>2, <4>1
    <3> QED BY <2>2, <3>2, <3>3, <3>4, <3>5
  <2> QED BY <1>2, <1>4, <2>3, <2>4, AddsNothing
<1>5. CASE T # {}
  <2>1. PICK y \in T : TRUE
    BY <1>5
  <2>2. \A x \in T : f[x] \in Nat /\ key[x] \in K
    BY <1>3
  <2>3. ByKey(f, key, K, T) = f[y] + ByKey(f, key, K, T \ {y})
    BY <1>3, <2>2, OneMoreKeyed
  <2>4. SumFunctionOnSet(f, T) = f[y] + SumFunctionOnSet(f, T \ {y})
    BY <1>3, <2>2, AddsOne
  <2>5. T \ {y} \in SUBSET S /\ T \ {y} \subseteq T /\ T \ {y} # T
    BY <1>3, <2>1
  <2>6. ByKey(f, key, K, T \ {y}) = SumFunctionOnSet(f, T \ {y})
    BY <1>2, <2>5
  <2> QED BY <1>2, <2>3, <2>4, <2>6
<1> QED BY <1>4, <1>5

(* A count is a sum of ones.                                               *)
LEMMA OnesCount ==
    ASSUME NEW S, IsFiniteSet(S), NEW f, \A x \in S : f[x] = 1
    PROVE  SumFunctionOnSet(f, S) = Cardinality(S)
<1> DEFINE Bad == {T \in SUBSET S : SumFunctionOnSet(f, T) # Cardinality(T)}
<1>1. SUFFICES ASSUME Bad # {} PROVE FALSE
  OBVIOUS
<1>2. PICK T \in Bad : \A U \in Bad : ~(U \subseteq T /\ U # T)
  <2>1. Bad \in SUBSET (SUBSET S)
    OBVIOUS
  <2> HIDE DEF Bad
  <2> QED BY <1>1, <2>1, SmallestOf
<1>3. IsFiniteSet(T) /\ T \in SUBSET S
  BY <1>2, FS_Subset
<1>4. T # {}
  BY <1>2, AddsNothing, FS_EmptySet
<1>5. PICK y \in T : TRUE
  BY <1>4
<1>6. SumFunctionOnSet(f, T) = f[y] + SumFunctionOnSet(f, T \ {y})
  <2>1. \A x \in T : f[x] \in Nat
    BY <1>3
  <2> QED BY <1>3, <2>1, AddsOne
<1>7. T \ {y} \in SUBSET S /\ T \ {y} \subseteq T /\ T \ {y} # T
  BY <1>3, <1>5
<1>8. SumFunctionOnSet(f, T \ {y}) = Cardinality(T \ {y})
  BY <1>2, <1>7
<1>9. Cardinality(T \ {y}) = Cardinality(T) - 1 /\ Cardinality(T) \in Nat
  BY <1>3, <1>5, FS_RemoveElement, FS_CardinalityType
<1>10. f[y] = 1
  BY <1>3
<1> QED BY <1>2, <1>6, <1>8, <1>9, <1>10

(* Every member is counted in one group.                                   *)
LEMMA GroupsCount ==
    ASSUME NEW S, IsFiniteSet(S), NEW K, IsFiniteSet(K), NEW key, \A x \in S : key[x] \in K
    PROVE  SumFunctionOnSet([k \in K |-> Cardinality(Keyed(S, key, k))], K) = Cardinality(S)
<1> DEFINE f == [x \in S |-> 1]
           g == [k \in K |-> SumFunctionOnSet(f, Keyed(S, key, k))]
           h == [k \in K |-> Cardinality(Keyed(S, key, k))]
<1>1. ByKey(f, key, K, S) = SumFunctionOnSet(f, S)
  <2>1. \A x \in S : f[x] \in Nat /\ key[x] \in K
    OBVIOUS
  <2> HIDE DEF f
  <2> QED BY <2>1, GroupsAddUp
<1>2. \A k \in K : g[k] = h[k]
  <2> SUFFICES ASSUME NEW k \in K PROVE g[k] = h[k]
    OBVIOUS
  <2>1. IsFiniteSet(Keyed(S, key, k)) /\ \A x \in Keyed(S, key, k) : f[x] = 1
    BY FS_Subset DEF Keyed
  <2> HIDE DEF f
  <2>2. SumFunctionOnSet(f, Keyed(S, key, k)) = Cardinality(Keyed(S, key, k))
    BY <2>1, OnesCount
  <2> QED BY <2>2
<1>3. SumFunctionOnSet(f, S) = Cardinality(S)
  <2>1. \A x \in S : f[x] = 1
    OBVIOUS
  <2> HIDE DEF f
  <2> QED BY <2>1, OnesCount
<1>4. ByKey(f, key, K, S) = SumFunctionOnSet(g, K)
  BY DEF ByKey
<1>5. SumFunctionOnSet(g, K) = SumFunctionOnSet(h, K)
  <2> HIDE DEF g, h
  <2> QED BY <1>2, AddsSame
<1> QED BY <1>1, <1>3, <1>4, <1>5

(* A finite set has finitely many keys.                                    *)
LEMMA ImageFinite ==
    ASSUME NEW S, IsFiniteSet(S), NEW f, DOMAIN f = S
    PROVE  IsFiniteSet({f[x] : x \in S})
<1> DEFINE T == {f[x] : x \in S}
           g == [x \in S |-> f[x]]
<1>1. g \in Surjection(S, T)
  BY DEF Surjection
<1> HIDE DEF g, T
<1>2. IsFiniteSet(T)
  BY <1>1, FS_Surjection
<1> QED BY <1>2 DEF T

(* A sequence of rows.                                                     *)
LEMMA RowsAre ==
    ASSUME NEW rows, Rows(rows)
    PROVE  /\ Len(rows) \in Nat /\ DOMAIN rows = 1..Len(rows)
           /\ \A i \in DOMAIN rows : rows[i] \in Range(rows)
           /\ IsFiniteSet(DOMAIN rows) /\ Cardinality(DOMAIN rows) = Len(rows)
<1>1. Len(rows) \in Nat /\ DOMAIN rows = 1..Len(rows)
  BY DEF Rows
<1>2. IsFiniteSet(1..Len(rows)) /\ Cardinality(1..Len(rows)) = Len(rows)
  <2>1. 1 \in Int /\ Len(rows) \in Int
    BY <1>1
  <2>2. IsFiniteSet(1..Len(rows))
        /\ Cardinality(1..Len(rows)) = IF 1 > Len(rows) THEN 0 ELSE Len(rows) - 1 + 1
    BY <2>1, FS_Interval
  <2> QED BY <1>1, <2>2
<1>3. \A i \in DOMAIN rows : rows[i] \in Range(rows)
  BY DEF Range
<1> QED BY <1>1, <1>2, <1>3

(* Concat is the fold FoldFacts speaks of.                                 *)
LEMMA ConcatIs ==
    ASSUME NEW parts
    PROVE  Concat(parts) = PartFold!Fold({}, <<>>, parts)
  BY DEF Concat, FoldLeft, MapThenFoldSet, Max, PartFold!Fold, PartFold!Folds, PartFold!Largest,
         ConcatNext

(* The parts of rows of one kind are together rows of that kind.           *)
LEMMA ConcatRows ==
    ASSUME NEW n \in Nat, NEW parts, DOMAIN parts = 1..n, NEW U,
           \A i \in 1..n : parts[i] \in Seq(U)
    PROVE  Rows(Concat(parts)) /\ Range(Concat(parts)) \subseteq U
<1>1. PICK v : PartFold!Steps(v, {}, <<>>, n, parts) /\ v[n] = PartFold!Fold({}, <<>>, parts)
  BY PartFold!FoldTrace
<1>2. v[0] = <<>> /\ \A i \in 1..n : v[i] = v[i - 1] \o parts[i]
  BY <1>1 DEF PartFold!Steps, ConcatNext
<1> DEFINE T == {i \in 0..n : v[i] \in Seq(U)}
<1>3. 0 \in T
  <2>1. <<>> \in Seq(U) /\ 0 \in 0..n
    OBVIOUS
  <2>2. v[0] \in Seq(U)
    BY <1>2, <2>1
  <2> QED BY <2>1, <2>2
<1>4. ASSUME NEW i \in 1..n, i - 1 \in T PROVE i \in T
  <2>1. v[i - 1] \in Seq(U) /\ parts[i] \in Seq(U) /\ v[i] = v[i - 1] \o parts[i]
    BY <1>2, <1>4
  <2>2. v[i] \in Seq(U)
    BY <2>1
  <2> QED BY <2>2
<1>5. \A i \in 0..n : i \in T
  <2> HIDE DEF T
  <2> QED BY <1>3, <1>4, PartFold!IntervalInduction
<1>6. Concat(parts) \in Seq(U)
  BY <1>1, <1>5, ConcatIs
<1> DEFINE s == Concat(parts)
<1> HIDE DEF s
<1>7. s \in Seq(U)
  BY <1>6 DEF s
<1>8. Range(s) \subseteq U
  BY <1>7 DEF Range
<1>9. s \in Seq(Range(s))
  <2>1. Len(s) \in Nat /\ s \in [1..Len(s) -> U]
    BY <1>7
  <2>2. s \in [1..Len(s) -> Range(s)]
    BY <2>1 DEF Range
  <2> QED BY <2>1, <2>2
<1> QED BY <1>8, <1>9 DEF Rows, s

(* Bundles that are merged are a bundle of such rows.                      *)
LEMMA MergeOK ==
    ASSUME NEW bundles \in Evidence
    PROVE  BundleOK(Merge(bundles))
<1> DEFINE n == Len(bundles)
           Part(field) == [i \in DOMAIN bundles |-> bundles[i][field]]
           All(field) == UNION {Range(bundles[i][field]) : i \in DOMAIN bundles}
<1>1. /\ n \in Nat /\ DOMAIN bundles = 1..n
      /\ \A i \in 1..n : BundleOK(bundles[i])
  <2>1. Rows(bundles) /\ \A b \in Range(bundles) : BundleOK(b)
    BY AnalysisAssumption
  <2> QED BY <2>1, RowsAre
<1>2. ASSUME NEW field, \A i \in 1..n : Rows(bundles[i][field])
      PROVE  Rows(Concat(Part(field))) /\ Range(Concat(Part(field))) \subseteq All(field)
  <2>1. DOMAIN Part(field) = 1..n
    BY <1>1
  <2>2. ASSUME NEW i \in 1..n PROVE Part(field)[i] \in Seq(All(field))
    <3>1. bundles[i][field] \in Seq(Range(bundles[i][field]))
      BY <1>2 DEF Rows
    <3>2. Range(bundles[i][field]) \subseteq All(field)
      BY <1>1
    <3> DEFINE s == bundles[i][field]
    <3>3. s \in Seq(All(field))
      <4> HIDE DEF s
      <4>1. s \in Seq(Range(s)) /\ Range(s) \subseteq All(field)
        BY <3>1, <3>2 DEF s
      <4> HIDE DEF All
      <4> QED BY <4>1
    <3> HIDE DEF All
    <3> QED BY <1>1, <3>3
  <2> HIDE DEF Part, All, n
  <2> QED BY <1>1, <2>1, <2>2, ConcatRows
<1> HIDE DEF n
<1>3. /\ Merge(bundles).configs = Concat(Part("configs"))
      /\ Merge(bundles).results = Concat(Part("results"))
      /\ Merge(bundles).usage = Concat(Part("usage"))
      /\ Merge(bundles).failures = Concat(Part("failures"))
  BY DEF Merge
<1> HIDE DEF Part
<1>4. \A i \in 1..n : Rows(bundles[i]["configs"]) /\ Rows(bundles[i]["results"])
                      /\ Rows(bundles[i]["usage"]) /\ Rows(bundles[i]["failures"])
  BY <1>1 DEF BundleOK
<1>5. Rows(Merge(bundles).configs) /\ Rows(Merge(bundles).failures)
  BY <1>2, <1>3, <1>4
<1>6. Rows(Merge(bundles).results) /\ Range(Merge(bundles).results) \subseteq All("results")
  BY <1>2, <1>3, <1>4
<1>7. Rows(Merge(bundles).usage) /\ Range(Merge(bundles).usage) \subseteq All("usage")
  BY <1>2, <1>3, <1>4
<1>8. \A r \in All("results") : r.correctness \in Nat /\ r.latency \in Nat
  BY <1>1 DEF BundleOK
<1>9. \A u \in All("usage") : u.cost \in Nat
  BY <1>1 DEF BundleOK
<1> HIDE DEF All
<1> QED BY <1>5, <1>6, <1>7, <1>8, <1>9 DEF BundleOK

(* A rounded quotient of naturals is a natural.                            *)
LEMMA DivNat ==
    ASSUME NEW a \in Nat, NEW b \in Nat, b > 0
    PROVE  a \div b \in Nat
  OBVIOUS

(* A share of what is not negative is not negative.                        *)
LEMMA QuotientNat ==
    ASSUME NEW n \in Nat, NEW d \in Nat, d > 0
    PROVE  Quotient(n, d) \in Nat
<1>1. 2 * n + d \in Nat /\ 2 * d \in Nat /\ 2 * d > 0
  OBVIOUS
<1>2. (2 * n + d) \div (2 * d) \in Nat
  BY <1>1, DivNat
<1>3. Quotient(n, d) = (2 * n + d) \div (2 * d)
  <2>1. Size(n) = n /\ ~(n < 0)
    BY DEF Size
  <2> QED BY <2>1 DEF Quotient
<1> QED BY <1>2, <1>3

(* A bundle that is accepted, of rows as they are read.                    *)
Good(bundle) == BundleOK(bundle) /\ ValidBundle(bundle) /\ bundle.results # <<>>

(* What a table counts by a key of its rows.                               *)
LEMMA CountedByKey ==
    ASSUME NEW rows, Rows(rows), NEW key, DOMAIN key = DOMAIN rows,
           NEW K, IsFiniteSet(K), \A i \in DOMAIN rows : key[i] \in K,
           NEW table, DOMAIN table = K, NEW column,
           \A k \in K : table[k][column] = Cardinality({i \in DOMAIN rows : key[i] = k})
    PROVE  SumOver(table, column) = Len(rows)
<1> DEFINE f == [k \in K |-> table[k][column]]
           g == [k \in K |-> Cardinality(Keyed(DOMAIN rows, key, k))]
<1>1. SumOver(table, column) = SumFunctionOnSet(f, K)
  BY DEF SumOver, SumFunction
<1>2. \A k \in K : f[k] = g[k]
  BY DEF Keyed
<1>3. SumFunctionOnSet(g, K) = Cardinality(DOMAIN rows)
  <2>1. IsFiniteSet(DOMAIN rows)
    BY RowsAre
  <2> QED BY <2>1, GroupsCount
<1> HIDE DEF f, g
<1>4. SumFunctionOnSet(f, K) = SumFunctionOnSet(g, K)
  BY <1>2, AddsSame
<1> QED BY <1>1, <1>3, <1>4, RowsAre

(* Every usage row is in one cost row: its call, and its cost.             *)
LEMMA CostsAddUp ==
    ASSUME NEW bundle, BundleOK(bundle), NEW vat \in Nat
    PROVE  LET costs == CostRows(bundle, vat)
           IN /\ SumOver(costs, "calls") = Len(bundle.usage)
              /\ SumOver(costs, "net") = Total(bundle.usage, DOMAIN bundle.usage, "cost")
              /\ IsFiniteSet(DOMAIN costs)
              /\ \A group \in DOMAIN costs : /\ costs[group].gross \in Nat
                                             /\ \E i \in DOMAIN bundle.usage : group[1] = bundle.usage[i].id
<1> DEFINE usage == bundle.usage
           D == DOMAIN usage
           key == [i \in D |-> CostGroup(usage[i])]
           K == {key[i] : i \in D}
           Of(group) == {i \in D : CostGroup(usage[i]) = group}
           costs == CostRows(bundle, vat)
           f == [i \in D |-> usage[i]["cost"]]
<1>1. Rows(usage) /\ \A i \in D : f[i] \in Nat
  <2>1. Rows(usage) /\ \A u \in Range(usage) : u.cost \in Nat
    BY DEF BundleOK
  <2>2. \A i \in D : usage[i] \in Range(usage)
    BY DEF Range
  <2> QED BY <2>1, <2>2
<1>2. IsFiniteSet(D) /\ IsFiniteSet(K)
  <2>1. IsFiniteSet(D) /\ DOMAIN key = D
    BY <1>1, RowsAre
  <2> HIDE DEF key
  <2> QED BY <2>1, ImageFinite
<1>3. \A group : Of(group) = Keyed(D, key, group)
  BY DEF Keyed
<1>4. DOMAIN costs = K
  BY DEF CostRows
<1>5. \A group \in K :
        /\ costs[group]["calls"] = Cardinality(Of(group))
        /\ costs[group]["net"] = Total(usage, Of(group), "cost")
        /\ costs[group]["gross"] = Quotient(Total(usage, Of(group), "cost") * vat, 100)
  BY DEF CostRows
<1>6. \A group \in K : IsFiniteSet(Of(group)) /\ Of(group) \in SUBSET D
  BY <1>2, FS_Subset
<1>7. ASSUME NEW group \in K
      PROVE  /\ Total(usage, Of(group), "cost") = SumFunctionOnSet(f, Of(group))
             /\ Total(usage, Of(group), "cost") \in Nat
  <2> DEFINE S == Of(group)
             h == [i \in S |-> usage[i]["cost"]]
  <2>1. Total(usage, S, "cost") = SumFunctionOnSet(h, S)
    BY DEF Total, SumFunction
  <2>2. \A i \in S : h[i] = f[i] /\ f[i] \in Nat
    BY <1>1
  <2>3. IsFiniteSet(S)
    BY <1>6
  <2> HIDE DEF S, h, f
  <2>4. SumFunctionOnSet(h, S) = SumFunctionOnSet(f, S) /\ SumFunctionOnSet(f, S) \in Nat
    BY <2>2, <2>3, AddsSame, AddsToNat
  <2> QED BY <2>1, <2>4 DEF S
<1>8. SumOver(costs, "calls") = Len(usage)
  <2>1. \A i \in D : key[i] \in K
    OBVIOUS
  <2>2. \A k \in K : costs[k]["calls"] = Cardinality({i \in D : key[i] = k})
    BY <1>3, <1>5 DEF Keyed
  <2>3. DOMAIN key = D
    OBVIOUS
  <2> HIDE DEF key, K, costs, usage
  <2> QED BY <1>1, <1>2, <1>4, <2>1, <2>2, <2>3, CountedByKey
<1>9. SumOver(costs, "net") = Total(usage, D, "cost")
  <2> DEFINE g == [k \in K |-> costs[k]["net"]]
             h == [k \in K |-> SumFunctionOnSet(f, Keyed(D, key, k))]
  <2>1. SumOver(costs, "net") = SumFunctionOnSet(g, K)
    BY <1>4 DEF SumOver, SumFunction
  <2>2. \A k \in K : g[k] = h[k]
    BY <1>3, <1>5, <1>7
  <2>3. ByKey(f, key, K, D) = SumFunctionOnSet(h, K)
    BY DEF ByKey
  <2>4. Total(usage, D, "cost") = SumFunctionOnSet(f, D)
    BY DEF Total, SumFunction
  <2>5. ByKey(f, key, K, D) = SumFunctionOnSet(f, D)
    <3>1. \A x \in D : key[x] \in K
      OBVIOUS
    <3> HIDE DEF f, key, K
    <3> QED BY <1>1, <1>2, <3>1, GroupsAddUp
  <2>6. SumFunctionOnSet(g, K) = SumFunctionOnSet(h, K)
    <3> HIDE DEF g, h, K
    <3> QED BY <1>2, <2>2, AddsSame
  <2> QED BY <2>1, <2>3, <2>4, <2>5, <2>6
<1>10. \A group \in K : costs[group].gross \in Nat
  <2> SUFFICES ASSUME NEW group \in K PROVE costs[group].gross \in Nat
    OBVIOUS
  <2> DEFINE t == Total(usage, Of(group), "cost")
  <2>1. t \in Nat
    BY <1>7
  <2> HIDE DEF t
  <2>2. t * vat \in Nat
    BY <2>1
  <2>3. Quotient(t * vat, 100) \in Nat
    BY <2>2, QuotientNat
  <2> QED BY <1>5, <2>3 DEF t
<1>11. ASSUME NEW group \in K PROVE \E i \in D : group[1] = usage[i].id
  <2>1. PICK i \in D : group = CostGroup(usage[i])
    OBVIOUS
  <2>2. \A u : CostGroup(u)[1] = u.id
    BY DEF CostGroup
  <2> QED BY <2>1, <2>2
<1> QED BY <1>2, <1>4, <1>8, <1>9, <1>10, <1>11

(* The board adds up what the cost rows do.                                *)
LEMMA BoardCosts ==
    ASSUME NEW bundle, NEW costs, IsFiniteSet(DOMAIN costs), IsFiniteSet(Experiments(bundle)),
           \A group \in DOMAIN costs : costs[group].gross \in Nat /\ group[1] \in Experiments(bundle)
    PROVE  /\ SumOver(Leaderboard(bundle, costs), "cost") = SumOver(costs, "gross")
           /\ SumOver(costs, "gross") \in Nat
           /\ \A id \in Experiments(bundle) : Leaderboard(bundle, costs)[id].cost \in Nat
<1> DEFINE D == DOMAIN costs
           K == Experiments(bundle)
           f == [group \in D |-> costs[group]["gross"]]
           key == [group \in D |-> group[1]]
           board == Leaderboard(bundle, costs)
           g == [id \in K |-> board[id]["cost"]]
           h == [id \in K |-> SumFunctionOnSet(f, Keyed(D, key, id))]
<1>1. \A x \in D : f[x] \in Nat /\ key[x] \in K
  OBVIOUS
<1>2. \A id \in K : IsFiniteSet(Spent(costs, id)) /\ Keyed(D, key, id) = Spent(costs, id)
  BY FS_Subset DEF Spent, Keyed
<1>3. DOMAIN board = K
  BY DEF Leaderboard
<1>4. ASSUME NEW id \in K PROVE g[id] = h[id] /\ g[id] \in Nat
  <2> DEFINE S == Spent(costs, id)
             e == [group \in S |-> costs[group].gross]
  <2>1. board[id]["cost"] = SumFunctionOnSet(e, S)
    BY DEF Leaderboard, SumFunction
  <2>2. \A x \in S : e[x] = f[x] /\ f[x] \in Nat
    BY DEF Spent
  <2>3. IsFiniteSet(S) /\ S = Keyed(D, key, id)
    BY <1>2
  <2> HIDE DEF S, e, f, key, D
  <2>4. SumFunctionOnSet(e, S) = SumFunctionOnSet(f, S) /\ SumFunctionOnSet(f, S) \in Nat
    BY <2>2, <2>3, AddsSame, AddsToNat
  <2> QED BY <2>1, <2>3, <2>4
<1>5. SumOver(board, "cost") = SumFunctionOnSet(g, K)
  BY <1>3 DEF SumOver, SumFunction
<1>6. SumFunctionOnSet(g, K) = SumFunctionOnSet(h, K)
  <2> HIDE DEF g, h, K
  <2> QED BY <1>4, AddsSame DEF K
<1>7. ByKey(f, key, K, D) = SumFunctionOnSet(h, K)
  BY DEF ByKey
<1>8. ByKey(f, key, K, D) = SumFunctionOnSet(f, D) /\ SumFunctionOnSet(f, D) \in Nat
  <2>1. IsFiniteSet(D) /\ IsFiniteSet(K)
    OBVIOUS
  <2> HIDE DEF f, key, K, D
  <2> QED BY <1>1, <2>1, GroupsAddUp, AddsToNat
<1>9. SumOver(costs, "gross") = SumFunctionOnSet(f, D)
  BY DEF SumOver, SumFunction
<1>10. \A id \in K : board[id].cost \in Nat
  BY <1>4
<1> QED BY <1>5, <1>6, <1>7, <1>8, <1>9, <1>10

(* The experiments of a bundle are those of its configurations.            *)
LEMMA ExperimentsAre ==
    ASSUME NEW bundle, Good(bundle)
    PROVE  /\ IsFiniteSet(Experiments(bundle)) /\ Experiments(bundle) # {}
           /\ \A i \in DOMAIN bundle.configs : bundle.configs[i].id \in Experiments(bundle)
           /\ \A i \in DOMAIN bundle.results : bundle.results[i].id \in Experiments(bundle)
           /\ \A i \in DOMAIN bundle.usage : bundle.usage[i].id \in Experiments(bundle)
           /\ \A j, k \in Experiments(bundle) : Cohort(bundle, j) = Cohort(bundle, k)
<1> DEFINE configs == bundle.configs
           f == [i \in DOMAIN configs |-> configs[i].id]
<1>1. Rows(configs) /\ Rows(bundle.results) /\ Rows(bundle.usage)
  BY DEF Good, BundleOK
<1>2. Len(configs) > 0
  BY DEF Good, ValidBundle
<1>3. Experiments(bundle) = {f[i] : i \in DOMAIN configs}
  BY DEF Experiments, Range
<1>4. IsFiniteSet(Experiments(bundle))
  <2>1. IsFiniteSet(DOMAIN configs) /\ DOMAIN f = DOMAIN configs
    BY <1>1, RowsAre
  <2> HIDE DEF f
  <2> QED BY <1>3, <2>1, ImageFinite
<1>5. Experiments(bundle) # {}
  <2>1. 1 \in DOMAIN configs
    BY <1>1, <1>2, RowsAre
  <2> QED BY <1>3, <2>1
<1>6. \A row \in Range(bundle.results) \cup Range(bundle.usage) : row.id \in Experiments(bundle)
  BY DEF Good, ValidBundle
<1>7. \A j, k \in Experiments(bundle) : Cohort(bundle, j) = Cohort(bundle, k)
  BY DEF Good, ValidBundle
<1>8. \A i \in DOMAIN configs : configs[i].id \in Experiments(bundle)
  BY <1>3
<1>9. /\ \A i \in DOMAIN bundle.results : bundle.results[i] \in Range(bundle.results)
      /\ \A i \in DOMAIN bundle.usage : bundle.usage[i] \in Range(bundle.usage)
  BY DEF Range
<1> QED BY <1>4, <1>5, <1>6, <1>7, <1>8, <1>9

(* Whoever has results has some, since the cohorts are one.                *)
LEMMA ResultsAre ==
    ASSUME NEW bundle, Good(bundle), NEW id \in Experiments(bundle)
    PROVE  /\ ResultsOf(bundle, id) # {} /\ ResultsOf(bundle, id) \in SUBSET DOMAIN bundle.results
           /\ IsFiniteSet(ResultsOf(bundle, id))
           /\ Cardinality(ResultsOf(bundle, id)) \in Nat /\ Cardinality(ResultsOf(bundle, id)) > 0
<1> DEFINE results == bundle.results
<1>1. Rows(results) /\ results # <<>>
  BY DEF Good, BundleOK
<1>2. 1 \in DOMAIN results /\ IsFiniteSet(DOMAIN results)
  <2>1. results \in Seq(Range(results))
    BY <1>1 DEF Rows
  <2>2. Len(results) # 0
    BY <1>1, <2>1
  <2> QED BY <1>1, <2>2, RowsAre
<1>3. results[1].question \in Cohort(bundle, results[1].id)
  BY <1>2 DEF Cohort, ResultsOf
<1>4. results[1].question \in Cohort(bundle, id)
  <2>1. results[1].id \in Experiments(bundle)
    BY <1>2, ExperimentsAre
  <2> QED BY <1>3, <2>1, ExperimentsAre
<1>5. ResultsOf(bundle, id) # {}
  BY <1>4 DEF Cohort
<1>6. ResultsOf(bundle, id) \in SUBSET DOMAIN results
  BY DEF ResultsOf
<1>7. IsFiniteSet(ResultsOf(bundle, id))
  BY <1>2, <1>6, FS_Subset
<1>8. Cardinality(ResultsOf(bundle, id)) \in Nat /\ Cardinality(ResultsOf(bundle, id)) # 0
  BY <1>5, <1>7, FS_CardinalityType, FS_EmptySet
<1> QED BY <1>5, <1>6, <1>7, <1>8

(* What the board says of an experiment is numbers.                        *)
LEMMA BoardQuality ==
    ASSUME NEW bundle, Good(bundle), NEW costs, NEW id \in Experiments(bundle)
    PROVE  Leaderboard(bundle, costs)[id].quality \in Nat
<1> DEFINE S == ResultsOf(bundle, id)
           f == [i \in S |-> bundle.results[i]["correctness"]]
<1>1. IsFiniteSet(S) /\ Cardinality(S) \in Nat /\ Cardinality(S) > 0 /\ S \in SUBSET DOMAIN bundle.results
  BY ResultsAre
<1>2. \A i \in S : f[i] \in Nat
  <2>1. \A r \in Range(bundle.results) : r.correctness \in Nat
    BY DEF Good, BundleOK
  <2>2. \A i \in S : bundle.results[i] \in Range(bundle.results)
    BY <1>1 DEF Range
  <2> QED BY <2>1, <2>2
<1>3. Total(bundle.results, S, "correctness") = SumFunctionOnSet(f, S)
  BY DEF Total, SumFunction
<1>4. SumFunctionOnSet(f, S) \in Nat
  <2> HIDE DEF f, S
  <2> QED BY <1>1, <1>2, AddsToNat
<1>5. Leaderboard(bundle, costs)[id].quality = Quotient(Total(bundle.results, S, "correctness"), Cardinality(S))
  BY DEF Leaderboard, Mean
<1> QED BY <1>1, <1>3, <1>4, <1>5, QuotientNat

(* Every result is counted once: on the board, by an axis, and every       *)
(* failure by its taxon.                                                   *)
LEMMA BoardCounts ==
    ASSUME NEW bundle, Good(bundle), NEW costs
    PROVE  SumOver(Leaderboard(bundle, costs), "count") = Len(bundle.results)
<1> DEFINE rows == bundle.results
           K == Experiments(bundle)
           key == [i \in DOMAIN rows |-> rows[i].id]
           table == Leaderboard(bundle, costs)
<1>1. Rows(rows) /\ IsFiniteSet(K) /\ \A i \in DOMAIN rows : key[i] \in K
  BY ExperimentsAre DEF Good, BundleOK
<1>2. DOMAIN table = K /\ \A k \in K : table[k]["count"] = Cardinality({i \in DOMAIN rows : key[i] = k})
  <2>1. DOMAIN table = K /\ \A k \in K : table[k]["count"] = Cardinality(ResultsOf(bundle, k))
    BY DEF Leaderboard
  <2>2. \A k : ResultsOf(bundle, k) = {i \in DOMAIN rows : key[i] = k}
    BY DEF ResultsOf
  <2> QED BY <2>1, <2>2
<1>3. DOMAIN key = DOMAIN rows
  OBVIOUS
<1> HIDE DEF key, table, K, rows
<1>4. SumOver(table, "count") = Len(rows)
  BY <1>1, <1>2, <1>3, CountedByKey
<1> QED BY <1>4 DEF table, rows

(* Every result is in one row of a table by axes.                          *)
LEMMA AxesCount ==
    ASSUME NEW bundle, Good(bundle), NEW axes
    PROVE  SumOver(AggregateAxes(bundle, axes), "count") = Len(bundle.results)
<1> DEFINE rows == bundle.results
           key == [i \in DOMAIN rows |-> AxesOf(bundle, axes, rows[i])]
           K == {key[i] : i \in DOMAIN rows}
           table == AggregateAxes(bundle, axes)
<1>1. Rows(rows) /\ DOMAIN key = DOMAIN rows /\ \A i \in DOMAIN rows : key[i] \in K
  BY DEF Good, BundleOK
<1>2. IsFiniteSet(K)
  <2>1. IsFiniteSet(DOMAIN rows)
    BY <1>1, RowsAre
  <2> HIDE DEF key
  <2> QED BY <1>1, <2>1, ImageFinite
<1>3. DOMAIN table = K /\ \A k \in K : table[k]["count"] = Cardinality({i \in DOMAIN rows : key[i] = k})
  <2>1. K = {AxesOf(bundle, axes, rows[i]) : i \in DOMAIN rows}
    OBVIOUS
  <2>2. \A k : {i \in DOMAIN rows : AxesOf(bundle, axes, rows[i]) = k} = {i \in DOMAIN rows : key[i] = k}
    OBVIOUS
  <2> HIDE DEF K, key
  <2>3. DOMAIN table = K
        /\ \A k \in K : table[k]["count"]
             = Cardinality({i \in DOMAIN rows : AxesOf(bundle, axes, rows[i]) = k})
    BY <2>1 DEF AggregateAxes
  <2> QED BY <2>2, <2>3
<1> HIDE DEF key, table, K, rows
<1>4. SumOver(table, "count") = Len(rows)
  BY <1>1, <1>2, <1>3, CountedByKey
<1> QED BY <1>4 DEF table, rows

(* Every failure is in one row of the taxonomy.                            *)
LEMMA TaxonomyCounts ==
    ASSUME NEW bundle, Good(bundle)
    PROVE  SumOver(FailureTaxonomy(bundle), "count") = Len(bundle.failures)
<1> DEFINE rows == bundle.failures
           key == [i \in DOMAIN rows |-> Taxon(rows[i])]
           K == {key[i] : i \in DOMAIN rows}
           table == FailureTaxonomy(bundle)
<1>1. Rows(rows) /\ DOMAIN key = DOMAIN rows /\ \A i \in DOMAIN rows : key[i] \in K
  BY DEF Good, BundleOK
<1>2. IsFiniteSet(K)
  <2>1. IsFiniteSet(DOMAIN rows)
    BY <1>1, RowsAre
  <2> HIDE DEF key
  <2> QED BY <1>1, <2>1, ImageFinite
<1>3. DOMAIN table = K /\ \A k \in K : table[k]["count"] = Cardinality({i \in DOMAIN rows : key[i] = k})
  <2>1. K = {Taxon(rows[i]) : i \in DOMAIN rows}
    OBVIOUS
  <2>2. \A k : {i \in DOMAIN rows : Taxon(rows[i]) = k} = {i \in DOMAIN rows : key[i] = k}
    OBVIOUS
  <2> HIDE DEF K, key
  <2>3. DOMAIN table = K
        /\ \A k \in K : table[k]["count"] = Cardinality({i \in DOMAIN rows : Taxon(rows[i]) = k})
    BY <2>1 DEF FailureTaxonomy
  <2> QED BY <2>2, <2>3
<1> HIDE DEF key, table, K, rows
<1>4. SumOver(table, "count") = Len(rows)
  BY <1>1, <1>2, <1>3, CountedByKey
<1> QED BY <1>4 DEF table, rows

(* The two of a pair are configurations of the bundle, hence of its cohort.*)
LEMMA PairsSame ==
    ASSUME NEW bundle, Good(bundle), NEW b \in DOMAIN PairedParse(bundle)
    PROVE  PairedParse(bundle)[b].same
<1> DEFINE configs == bundle.configs
           At(mode) == {i \in DOMAIN configs : Binding(configs[i]) = b /\ configs[i].mode = mode}
           Id(mode) == configs[Max(At(mode))].id
<1>1. At("standard") # {} /\ At("enhanced") # {}
  BY DEF PairedParse
<1>2. PairedParse(bundle)[b].same = (Cohort(bundle, Id("standard")) = Cohort(bundle, Id("enhanced")))
  BY DEF PairedParse
<1>3. ASSUME NEW mode, At(mode) # {} PROVE Id(mode) \in Experiments(bundle)
  <2>1. Len(configs) \in Nat /\ DOMAIN configs = 1..Len(configs)
    BY RowsAre DEF Good, BundleOK
  <2>2. At(mode) \in SUBSET (1..Len(configs))
    BY <2>1
  <2>3. PartFold!Largest(At(mode)) \in At(mode)
    <3> HIDE DEF At, configs
    <3> QED BY <1>3, <2>1, <2>2, PartFold!LargestIn
  <2>4. Max(At(mode)) \in At(mode)
    BY <2>3 DEF Max, PartFold!Largest
  <2> QED BY <2>4, ExperimentsAre
<1> HIDE DEF Id, At
<1>4. Id("standard") \in Experiments(bundle) /\ Id("enhanced") \in Experiments(bundle)
  BY <1>1, <1>3
<1> QED BY <1>2, <1>4, ExperimentsAre

(* The tables of a good bundle add up.                                     *)
LEMMA TablesSound ==
    ASSUME NEW bundle, Good(bundle)
    PROVE  LET costs == CostRows(bundle, Vat)
           IN TablesAddUp(bundle, costs, Leaderboard(bundle, costs))
<1> DEFINE costs == CostRows(bundle, Vat)
           board == Leaderboard(bundle, costs)
<1>1. /\ SumOver(costs, "calls") = Len(bundle.usage)
      /\ SumOver(costs, "net") = Total(bundle.usage, DOMAIN bundle.usage, "cost")
      /\ IsFiniteSet(DOMAIN costs)
      /\ \A group \in DOMAIN costs : /\ costs[group].gross \in Nat
                                     /\ \E i \in DOMAIN bundle.usage : group[1] = bundle.usage[i].id
  BY CostsAddUp, AnalysisAssumption DEF Good
<1> HIDE DEF costs
<1>2. \A group \in DOMAIN costs : costs[group].gross \in Nat /\ group[1] \in Experiments(bundle)
  BY <1>1, ExperimentsAre
<1>3. IsFiniteSet(Experiments(bundle))
  BY ExperimentsAre
<1>4. SumOver(board, "cost") = SumOver(costs, "gross") /\ SumOver(costs, "gross") \in Nat
  BY <1>1, <1>2, <1>3, BoardCosts
<1>5. \A console \in Consoles \ {None} :
        SumOver(costs, "gross") + Reconciliation(costs, console).delta = console
  BY <1>4, AnalysisAssumption DEF Reconciliation
<1>6. SumOver(board, "count") = Len(bundle.results)
  BY BoardCounts
<1>7. \A axes : SumOver(AggregateAxes(bundle, axes), "count") = Len(bundle.results)
  BY AxesCount
<1>8. SumOver(FailureTaxonomy(bundle), "count") = Len(bundle.failures)
  BY TaxonomyCounts
<1>9. \A b \in DOMAIN PairedParse(bundle) : PairedParse(bundle)[b].same
  BY PairsSame
<1> HIDE DEF board
<1>10. TablesAddUp(bundle, costs, board)
  BY <1>1, <1>4, <1>5, <1>6, <1>7, <1>8, <1>9 DEF TablesAddUp
<1> QED BY <1>10 DEF costs, board

(* Some measured values, by the places they were measured at.              *)
Measured(values) ==
    /\ values = [i \in DOMAIN values |-> values[i]] /\ DOMAIN values \in SUBSET Nat
    /\ IsFiniteSet(DOMAIN values) /\ Cardinality(DOMAIN values) > 0
    /\ \A i \in DOMAIN values : values[i] \in Nat

(* The order Sorted puts them in.                                          *)
LowerOrder(values) ==
    {p \in (DOMAIN values) \X (DOMAIN values) : Lower(values, p[1], p[2])}

(* Sorted gives every value a place, and lower ones lower places.          *)
LEMMA SortedWell ==
    ASSUME NEW values, Measured(values), NEW n, n = Cardinality(DOMAIN values)
    PROVE  /\ n \in Nat /\ n > 0
           /\ \A k \in 1..n : Sorted(values)[k] \in Nat /\ Sorted(values)[k] \in Range(values)
           /\ \A k, l \in 1..n : k <= l => Sorted(values)[k] <= Sorted(values)[l]
<1> DEFINE V == DOMAIN values
           R == LowerOrder(values)
           At(c) == Cardinality({j \in V : Lower(values, j, c)})
           C(k) == CHOOSE i \in V : At(i) = k - 1
<1>1. n \in Nat /\ n > 0 /\ V \in SUBSET Nat /\ \A i \in V : values[i] \in Nat
  BY FS_CardinalityType DEF Measured
<1>2. \A c, d \in V : <<c, d>> \in R <=> Lower(values, c, d)
  BY DEF LowerOrder
<1>3. PartFold!StrictOrder(R, V)
  <2>1. \A c \in V : ~Lower(values, c, c)
    BY <1>1 DEF Lower
  <2>2. \A c, d, e \in V : Lower(values, c, d) /\ Lower(values, d, e) => Lower(values, c, e)
    BY <1>1 DEF Lower
  <2>3. \A c, d \in V : c = d \/ Lower(values, c, d) \/ Lower(values, d, c)
    BY <1>1 DEF Lower
  <2> HIDE DEF R, V
  <2> QED BY <1>2, <2>1, <2>2, <2>3 DEF PartFold!StrictOrder
<1>4. \A c \in V : PartFold!Place(R, V, c) = At(c) + 1 /\ At(c) \in Nat
  <2> SUFFICES ASSUME NEW c \in V PROVE PartFold!Place(R, V, c) = At(c) + 1 /\ At(c) \in Nat
    OBVIOUS
  <2>1. PartFold!Above(R, V, c) = {j \in V : Lower(values, j, c)}
    BY <1>2 DEF PartFold!Above
  <2>2. At(c) \in Nat
    <3> DEFINE L == {j \in V : Lower(values, j, c)}
    <3>1. IsFiniteSet(V) /\ L \in SUBSET V
      BY DEF Measured
    <3> HIDE DEF L, V
    <3>2. Cardinality(L) \in Nat
      BY <3>1, FS_Subset, FS_CardinalityType
    <3> QED BY <3>2 DEF L
  <2> QED BY <2>1, <2>2, SameSets DEF PartFold!Place
<1>5. /\ \A c, d \in V : <<c, d>> \in R => PartFold!Place(R, V, c) < PartFold!Place(R, V, d)
      /\ \A i \in 1..n : \E c \in V : PartFold!Place(R, V, c) = i
  <2>1. IsFiniteSet(V)
    BY DEF Measured
  <2> HIDE DEF R, V
  <2>2. PartFold!IsFiniteSet(V) /\ PartFold!Cardinality(V) = Cardinality(V)
    BY <2>1, SameSets
  <2> QED BY <1>3, <2>2, PartFold!Placed DEF V
<1>6. ASSUME NEW k \in 1..n PROVE C(k) \in V /\ At(C(k)) = k - 1
  <2>1. PICK c \in V : PartFold!Place(R, V, c) = k
    BY <1>5
  <2>2. At(c) = k - 1
    BY <1>4, <2>1
  <2> HIDE DEF At
  <2> QED BY <2>2
<1>7. \A k \in 1..n : Sorted(values)[k] = values[C(k)]
  BY DEF Sorted
<1>8. ASSUME NEW k \in 1..n, NEW l \in 1..n, k <= l PROVE values[C(k)] <= values[C(l)]
  <2>1. C(k) \in V /\ C(l) \in V /\ At(C(k)) = k - 1 /\ At(C(l)) = l - 1
    BY <1>6
  <2> HIDE DEF C
  <2>2. ~(PartFold!Place(R, V, C(l)) < PartFold!Place(R, V, C(k)))
    BY <1>4, <1>8, <2>1
  <2>3. ~Lower(values, C(l), C(k))
    BY <1>2, <1>5, <2>1, <2>2
  <2> QED BY <1>1, <2>1, <2>3 DEF Lower
<1>9. \A k \in 1..n : values[C(k)] \in Nat /\ values[C(k)] \in Range(values)
  BY <1>1, <1>6 DEF Range
<1> HIDE DEF C
<1> QED BY <1>1, <1>7, <1>8, <1>9

(* The value at a position, in hundredths, between two ranks of s.         *)
Between(s, pos) ==
    100 * s[(pos \div 100) + 1]
      + (s[((pos + 99) \div 100) + 1] - s[(pos \div 100) + 1]) * (pos % 100)

(* A position is a rank and hundredths of the way to the next one.         *)
LEMMA Hundredths ==
    ASSUME NEW pos \in Nat
    PROVE  \E q \in Nat, r \in 0..99 :
             /\ pos = 100 * q + r /\ pos \div 100 = q /\ pos % 100 = r
             /\ r = 0 => (pos + 99) \div 100 = q
             /\ r > 0 => (pos + 99) \div 100 = q + 1
<1> DEFINE q == pos \div 100
           r == pos % 100
<1>1. q \in Nat /\ r \in 0..99 /\ pos = 100 * q + r
  OBVIOUS
<1>2. r = 0 => (pos + 99) \div 100 = q
  BY <1>1
<1>3. r > 0 => (pos + 99) \div 100 = q + 1
  BY <1>1
<1> QED BY <1>1, <1>2, <1>3

(* A larger share of a difference is no smaller.                           *)
LEMMA Share ==
    ASSUME NEW d \in Nat, NEW r \in Nat, NEW t \in Nat, r <= t
    PROVE  d * r \in Nat /\ d * r <= d * t
<1> DEFINE e == t - r
<1>1. e \in Nat /\ t = r + e
  OBVIOUS
<1> HIDE DEF e
<1>2. d * e \in Nat /\ d * r \in Nat
  BY <1>1
<1>3. d * (r + e) = d * r + d * e
  BY <1>1
<1> QED BY <1>1, <1>2, <1>3

(* A later position has no smaller value, nor do the ranks beside it       *)
(* exceed it.                                                              *)
LEMMA BetweenRanks ==
    ASSUME NEW n \in Nat, NEW s, \A k \in 1..n : s[k] \in Nat,
           \A k, l \in 1..n : k <= l => s[k] <= s[l],
           NEW pos \in Nat, pos <= 100 * (n - 1)
    PROVE  /\ Between(s, pos) \in Nat
           /\ (pos \div 100) + 1 \in 1..n /\ ((pos + 99) \div 100) + 1 \in 1..n
           /\ 100 * s[(pos \div 100) + 1] <= Between(s, pos)
           /\ Between(s, pos) <= 100 * s[((pos + 99) \div 100) + 1]
<1>1. PICK q \in Nat, r \in 0..99 :
             /\ pos = 100 * q + r /\ pos \div 100 = q /\ pos % 100 = r
             /\ r = 0 => (pos + 99) \div 100 = q
             /\ r > 0 => (pos + 99) \div 100 = q + 1
  BY Hundredths
<1> DEFINE u == (pos + 99) \div 100
<1>2. q + 1 \in 1..n /\ u + 1 \in 1..n /\ q <= u
  BY <1>1
<1> HIDE DEF u
<1> DEFINE low == s[q + 1]
           high == s[u + 1]
<1>3. low \in Nat /\ high \in Nat /\ low <= high
  <2>1. q + 1 <= u + 1
    <3>1. u \in Nat
      BY <1>1 DEF u
    <3> QED BY <1>2, <3>1
  <2> DEFINE a == q + 1
             b == u + 1
  <2>2. a \in 1..n /\ b \in 1..n /\ a <= b
    BY <1>2, <2>1
  <2> HIDE DEF a, b
  <2>3. s[a] \in Nat /\ s[b] \in Nat /\ s[a] <= s[b]
    BY <2>2
  <2> QED BY <2>3 DEF a, b
<1> HIDE DEF low, high
<1>4. (high - low) * r \in Nat /\ (high - low) * r <= (high - low) * 100
  <2>1. high - low \in Nat /\ r \in Nat /\ 100 \in Nat /\ r <= 100
    BY <1>1, <1>3
  <2> QED BY <2>1, Share
<1>5. Between(s, pos) = 100 * low + (high - low) * r
  BY <1>1 DEF Between, low, high, u
<1>6. (high - low) * 100 = 100 * high - 100 * low
  BY <1>3
<1>7. Between(s, pos) \in Nat /\ 100 * low <= Between(s, pos) /\ Between(s, pos) <= 100 * high
  <2> DEFINE x == (high - low) * r
  <2>1. x \in Nat /\ x <= 100 * high - 100 * low /\ Between(s, pos) = 100 * low + x
    BY <1>4, <1>5, <1>6
  <2> HIDE DEF x
  <2> QED BY <1>3, <2>1
<1> QED BY <1>1, <1>2, <1>7 DEF low, high, u

(* What is interpolated does not fall from one position to a later one.    *)
LEMMA BetweenGrows ==
    ASSUME NEW n \in Nat, NEW s, \A k \in 1..n : s[k] \in Nat,
           \A k, l \in 1..n : k <= l => s[k] <= s[l],
           NEW a \in Nat, NEW b \in Nat, a <= b, b <= 100 * (n - 1)
    PROVE  Between(s, a) <= Between(s, b)
<1>0. a <= 100 * (n - 1)
  OBVIOUS
<1>1. PICK q \in Nat, r \in 0..99 :
             /\ a = 100 * q + r /\ a \div 100 = q /\ a % 100 = r
             /\ r = 0 => (a + 99) \div 100 = q
             /\ r > 0 => (a + 99) \div 100 = q + 1
  BY Hundredths
<1>2. PICK p \in Nat, t \in 0..99 :
             /\ b = 100 * p + t /\ b \div 100 = p /\ b % 100 = t
             /\ t = 0 => (b + 99) \div 100 = p
             /\ t > 0 => (b + 99) \div 100 = p + 1
  BY Hundredths
<1>3. /\ Between(s, a) \in Nat /\ ((a + 99) \div 100) + 1 \in 1..n
      /\ Between(s, a) <= 100 * s[((a + 99) \div 100) + 1]
  BY <1>0, BetweenRanks
<1>4. /\ Between(s, b) \in Nat /\ (b \div 100) + 1 \in 1..n /\ ((b + 99) \div 100) + 1 \in 1..n
      /\ 100 * s[(b \div 100) + 1] <= Between(s, b)
  BY BetweenRanks
<1>5. CASE (a + 99) \div 100 <= p
  <2> DEFINE x == s[((a + 99) \div 100) + 1]
             y == s[p + 1]
  <2>1. x <= y /\ x \in Nat /\ y \in Nat
    BY <1>2, <1>3, <1>4, <1>5
  <2> HIDE DEF x, y
  <2>2. Between(s, a) <= 100 * x /\ 100 * y <= Between(s, b)
    BY <1>2, <1>3, <1>4 DEF x, y
  <2>3. 100 * x <= 100 * y
    BY <2>1
  <2> QED BY <1>3, <1>4, <2>1, <2>2, <2>3
<1>6. CASE ~((a + 99) \div 100 <= p)
  <2>1. q = p /\ r > 0 /\ r <= t
    BY <1>1, <1>2, <1>6
  <2> DEFINE x == s[q + 1]
             y == s[q + 1 + 1]
  <2>2. (a + 99) \div 100 = q + 1 /\ (b + 99) \div 100 = q + 1
    BY <1>1, <1>2, <2>1
  <2>3. q + 1 \in 1..n /\ q + 1 + 1 \in 1..n /\ q + 1 <= q + 1 + 1
    BY <1>2, <1>4, <2>1, <2>2
  <2>4. x \in Nat /\ y \in Nat /\ x <= y
    BY <2>3
  <2>5. Between(s, a) = 100 * x + (y - x) * r /\ Between(s, b) = 100 * x + (y - x) * t
    BY <1>1, <1>2, <2>1, <2>2 DEF Between
  <2> HIDE DEF x, y
  <2>6. (y - x) * r \in Nat /\ (y - x) * r <= (y - x) * t /\ (y - x) * t \in Nat
    <3>1. y - x \in Nat /\ r \in Nat /\ t \in Nat /\ r <= t
      BY <2>1, <2>4
    <3> QED BY <3>1, Share
  <2> DEFINE v == (y - x) * r
             w == (y - x) * t
  <2>7. v \in Nat /\ w \in Nat /\ v <= w /\ Between(s, a) = 100 * x + v /\ Between(s, b) = 100 * x + w
    BY <2>5, <2>6
  <2> HIDE DEF v, w
  <2> QED BY <2>4, <2>7
<1> QED BY <1>5, <1>6

(* The percentiles of measured values.                                     *)
LEMMA PercentilesInOrder ==
    ASSUME NEW values, Measured(values)
    PROVE  /\ Percentile(values, 50) <= Percentile(values, 95)
           /\ Percentile(values, 95) <= Percentile(values, 99)
           /\ \E v \in Range(values) : 100 * v <= Percentile(values, 50)
           /\ \E w \in Range(values) : Percentile(values, 99) <= 100 * w
<1> DEFINE n == Cardinality(DOMAIN values)
           s == Sorted(values)
<1>1. /\ n \in Nat /\ n > 0
      /\ \A k \in 1..n : s[k] \in Nat /\ s[k] \in Range(values)
      /\ \A k, l \in 1..n : k <= l => s[k] <= s[l]
  BY SortedWell
<1>2. \A percent : Percentile(values, percent) = Between(s, (n - 1) * percent)
  BY DEF Percentile, Between
<1> HIDE DEF n, s
<1>3. /\ (n - 1) * 50 \in Nat /\ (n - 1) * 95 \in Nat /\ (n - 1) * 99 \in Nat
      /\ (n - 1) * 50 <= (n - 1) * 95 /\ (n - 1) * 95 <= (n - 1) * 99
      /\ (n - 1) * 50 <= 100 * (n - 1) /\ (n - 1) * 95 <= 100 * (n - 1)
      /\ (n - 1) * 99 <= 100 * (n - 1)
  BY <1>1
<1>4. Between(s, (n - 1) * 50) <= Between(s, (n - 1) * 95)
  BY <1>1, <1>3, BetweenGrows
<1>5. Between(s, (n - 1) * 95) <= Between(s, (n - 1) * 99)
  BY <1>1, <1>3, BetweenGrows
<1>6. \E v \in Range(values) : 100 * v <= Between(s, (n - 1) * 50)
  <2>1. /\ (((n - 1) * 50) \div 100) + 1 \in 1..n
        /\ 100 * s[(((n - 1) * 50) \div 100) + 1] <= Between(s, (n - 1) * 50)
    BY <1>1, <1>3, BetweenRanks
  <2> QED BY <1>1, <2>1
<1>7. \E w \in Range(values) : Between(s, (n - 1) * 99) <= 100 * w
  <2>1. /\ (((n - 1) * 99 + 99) \div 100) + 1 \in 1..n
        /\ Between(s, (n - 1) * 99) <= 100 * s[(((n - 1) * 99 + 99) \div 100) + 1]
    BY <1>1, <1>3, BetweenRanks
  <2> QED BY <1>1, <2>1
<1> QED BY <1>2, <1>4, <1>5, <1>6, <1>7

(* The latency rows of a good bundle.                                      *)
LEMMA LatenciesOrdered ==
    ASSUME NEW bundle, Good(bundle)
    PROVE  PercentilesOrdered(LatencyRows(bundle))
<1> DEFINE results == bundle.results
           ids == {results[i].id : i \in DOMAIN results}
           Values(id) == [i \in ResultsOf(bundle, id) |-> results[i].latency]
<1>1. /\ Len(results) \in Nat /\ DOMAIN results = 1..Len(results)
      /\ \A i \in DOMAIN results : results[i].latency \in Nat
  <2>1. Rows(results) /\ \A r \in Range(results) : r.latency \in Nat
    BY DEF Good, BundleOK
  <2> QED BY <2>1, RowsAre
<1>2. DOMAIN LatencyRows(bundle) = ids
  BY DEF LatencyRows
<1>3. SUFFICES ASSUME NEW id \in ids
               PROVE  LET row == LatencyRows(bundle)[id] IN
                      /\ row.p50 <= row.p95 /\ row.p95 <= row.p99
                      /\ \E v, w \in Range(row.values) : 100 * v <= row.p50 /\ row.p99 <= 100 * w
  BY <1>2 DEF PercentilesOrdered, Range
<1> DEFINE values == Values(id)
<1>4. LatencyRows(bundle)[id] = [p50 |-> Percentile(values, 50), p95 |-> Percentile(values, 95),
                                 p99 |-> Percentile(values, 99), values |-> values]
  BY DEF LatencyRows
<1>5. Measured(values)
  <2>1. id \in Experiments(bundle)
    BY ExperimentsAre
  <2>2. /\ ResultsOf(bundle, id) \in SUBSET DOMAIN results /\ IsFiniteSet(ResultsOf(bundle, id))
        /\ Cardinality(ResultsOf(bundle, id)) > 0
    BY <2>1, ResultsAre
  <2>3. DOMAIN values = ResultsOf(bundle, id) /\ \A i \in DOMAIN values : values[i] \in Nat
    BY <1>1, <2>2
  <2>4. DOMAIN values \in SUBSET Nat
    BY <1>1, <2>2, <2>3
  <2>5. values = [i \in DOMAIN values |-> values[i]]
    OBVIOUS
  <2> HIDE DEF values
  <2> QED BY <2>2, <2>3, <2>4, <2>5 DEF Measured
<1> HIDE DEF values
<1>6. /\ Percentile(values, 50) <= Percentile(values, 95)
      /\ Percentile(values, 95) <= Percentile(values, 99)
      /\ \E v \in Range(values) : 100 * v <= Percentile(values, 50)
      /\ \E w \in Range(values) : Percentile(values, 99) <= 100 * w
  BY <1>5, PercentilesInOrder
<1> QED BY <1>4, <1>6

(* A finite set with less than a place before some of its members: those   *)
(* are as many as there are places.                                        *)
LEMMA FirstPlaces ==
    ASSUME NEW S, IsFiniteSet(S), NEW R, PartFold!StrictOrder(R, S),
           NEW size \in Nat, size <= Cardinality(S)
    PROVE  Cardinality({c \in S : Cardinality({d \in S : <<d, c>> \in R}) < size}) = size
<1> DEFINE N == Cardinality(S)
           At(c) == Cardinality({d \in S : <<d, c>> \in R})
           T == {c \in S : At(c) < size}
           f == [c \in T |-> At(c) + 1]
<1>1. \A c \in S : PartFold!Place(R, S, c) = At(c) + 1
  BY SameSets DEF PartFold!Place, PartFold!Above
<1>2. /\ N \in Nat
      /\ \A c \in S : PartFold!Place(R, S, c) \in 1..N
      /\ \A c, d \in S : PartFold!Place(R, S, c) = PartFold!Place(R, S, d) => c = d
      /\ \A i \in 1..N : \E c \in S : PartFold!Place(R, S, c) = i
  <2>1. PartFold!IsFiniteSet(S) /\ PartFold!Cardinality(S) = N
    BY SameSets
  <2> HIDE DEF N
  <2> QED BY <2>1, PartFold!Placed
<1>3. \A c \in S : At(c) \in Nat
  <2> SUFFICES ASSUME NEW c \in S PROVE At(c) \in Nat
    OBVIOUS
  <2> DEFINE L == {d \in S : <<d, c>> \in R}
  <2>1. L \in SUBSET S
    OBVIOUS
  <2> HIDE DEF L
  <2>2. Cardinality(L) \in Nat
    BY <2>1, FS_Subset, FS_CardinalityType
  <2> QED BY <2>2 DEF L
<1> HIDE DEF At, N
<1>4. f \in Bijection(T, 1..size)
  <2>1. \A c \in T : f[c] \in 1..size
    BY <1>3
  <2>2. \A c, d \in T : f[c] = f[d] => c = d
    BY <1>1, <1>2
  <2>3. \A i \in 1..size : \E c \in T : f[c] = i
    <3> SUFFICES ASSUME NEW i \in 1..size PROVE \E c \in T : f[c] = i
      OBVIOUS
    <3>1. i \in 1..N
      BY <1>2 DEF N
    <3>2. PICK c \in S : PartFold!Place(R, S, c) = i
      BY <1>2, <3>1
    <3>3. c \in T /\ f[c] = i
      BY <1>1, <1>3, <3>2
    <3> QED BY <3>3
  <2>4. f = [c \in T |-> f[c]] /\ DOMAIN f = T
    OBVIOUS
  <2> HIDE DEF f, T
  <2> QED BY <2>1, <2>2, <2>3, <2>4 DEF Bijection, Injection, Surjection, IsInjective
<1>5. IsFiniteSet(1..size) /\ Cardinality(1..size) = size
  <2>1. 1 \in Int /\ size \in Int
    OBVIOUS
  <2>2. IsFiniteSet(1..size) /\ Cardinality(1..size) = IF 1 > size THEN 0 ELSE size - 1 + 1
    BY <2>1, FS_Interval
  <2> QED BY <2>2
<1>6. IsFiniteSet(T)
  <2>1. T \in SUBSET S
    OBVIOUS
  <2> HIDE DEF T
  <2> QED BY <2>1, FS_Subset
<1> HIDE DEF f, T
<1>7. Cardinality(T) = size
  <2>1. ExistsBijection(T, 1..size)
    BY <1>4 DEF ExistsBijection
  <2> QED BY <1>5, <1>6, <2>1, FS_Bijection
<1> QED BY <1>7 DEF T, At

(* The order of the rounds.                                                *)
Rounds(rows) == {p \in (DOMAIN rows) \X (DOMAIN rows) : Before(rows, p[1], p[2])}

(* The round of a row is a number.                                         *)
LEMMA PriorIs ==
    ASSUME NEW rows, Rows(rows), NEW i \in DOMAIN rows
    PROVE  /\ Prior(rows, i) \in Nat
           /\ IsFiniteSet({j \in 1..(i - 1) : Stratum(rows[j]) = Stratum(rows[i])})
<1> DEFINE L == {j \in 1..(i - 1) : Stratum(rows[j]) = Stratum(rows[i])}
<1>1. i \in Nat /\ IsFiniteSet(DOMAIN rows) /\ L \in SUBSET DOMAIN rows
  BY RowsAre
<1> HIDE DEF L
<1>2. IsFiniteSet(L) /\ Cardinality(L) \in Nat
  BY <1>1, FS_Subset, FS_CardinalityType
<1> QED BY <1>2 DEF L, Prior

(* Round after round, and by place in a round, is a strict total order.    *)
LEMMA RoundsOrder ==
    ASSUME NEW rows, Rows(rows)
    PROVE  PartFold!StrictOrder(Rounds(rows), DOMAIN rows)
<1> DEFINE D == DOMAIN rows
<1>1. \A i \in D : i \in Nat /\ Prior(rows, i) \in Nat
  <2>1. \A i \in D : i \in Nat
    BY RowsAre
  <2>2. \A i \in D : Prior(rows, i) \in Nat
    BY PriorIs
  <2> QED BY <2>1, <2>2
<1>2. \A i, j \in D : <<i, j>> \in Rounds(rows) <=> Before(rows, i, j)
  BY DEF Rounds
<1> HIDE DEF D
<1>3. \A i \in D : ~Before(rows, i, i)
  BY <1>1 DEF Before
<1>4. \A i, j, k \in D : Before(rows, i, j) /\ Before(rows, j, k) => Before(rows, i, k)
  BY <1>1 DEF Before
<1>5. \A i, j \in D : i = j \/ Before(rows, i, j) \/ Before(rows, j, i)
  BY <1>1 DEF Before
<1> QED BY <1>2, <1>3, <1>4, <1>5 DEF PartFold!StrictOrder, D

(* The sample is as large as asked, and leaves nothing that is before one  *)
(* that it takes.                                                          *)
LEMMA SampleIs ==
    ASSUME NEW rows, Rows(rows), NEW size \in 1..Len(rows)
    PROVE  /\ Cardinality(FailureSample(rows, size)) = size
           /\ FailureSample(rows, size) \in SUBSET DOMAIN rows
           /\ \A i \in FailureSample(rows, size), j \in DOMAIN rows :
                Before(rows, j, i) => j \in FailureSample(rows, size)
<1> DEFINE D == DOMAIN rows
           At(i) == Cardinality({j \in D : Before(rows, j, i)})
<1>1. IsFiniteSet(D) /\ Cardinality(D) = Len(rows) /\ Len(rows) \in Nat
  BY RowsAre
<1>2. PartFold!StrictOrder(Rounds(rows), D)
  BY RoundsOrder
<1>3. \A i, j \in D : <<j, i>> \in Rounds(rows) <=> Before(rows, j, i)
  BY DEF Rounds
<1>4. \A i \in D : {j \in D : <<j, i>> \in Rounds(rows)} = {j \in D : Before(rows, j, i)}
  BY <1>3
<1>5. FailureSample(rows, size) = {i \in D : At(i) < size}
  BY DEF FailureSample
<1> HIDE DEF D
<1>6. Cardinality({i \in D : Cardinality({j \in D : <<j, i>> \in Rounds(rows)}) < size}) = size
  <2>1. size \in Nat /\ size <= Cardinality(D)
    BY <1>1
  <2> QED BY <1>1, <1>2, <2>1, FirstPlaces
<1>7. {i \in D : Cardinality({j \in D : <<j, i>> \in Rounds(rows)}) < size} = {i \in D : At(i) < size}
  BY <1>4
<1>8. ASSUME NEW i \in D, NEW j \in D, Before(rows, j, i), At(i) < size PROVE At(j) < size
  <2> DEFINE I == {k \in D : Before(rows, k, i)}
             J == {k \in D : Before(rows, k, j)}
  <2>1. J \in SUBSET I /\ I \in SUBSET D
    BY <1>2, <1>3, <1>8 DEF PartFold!StrictOrder
  <2>2. At(i) = Cardinality(I) /\ At(j) = Cardinality(J)
    OBVIOUS
  <2> HIDE DEF I, J, At
  <2>3. IsFiniteSet(I)
    BY <1>1, <2>1, FS_Subset
  <2>4. Cardinality(J) <= Cardinality(I) /\ Cardinality(I) \in Nat /\ IsFiniteSet(J)
    BY <2>1, <2>3, FS_Subset, FS_CardinalityType
  <2>5. Cardinality(J) \in Nat
    BY <2>4, FS_CardinalityType
  <2> QED BY <1>8, <2>2, <2>4, <2>5
<1> HIDE DEF At
<1> QED BY <1>5, <1>6, <1>7, <1>8 DEF D

(* The rows of a stratum that are taken are those of its first rounds.     *)
LEMMA TakenAtMost ==
    ASSUME NEW rows, Rows(rows), NEW sample \in SUBSET DOMAIN rows, NEW t,
           {i \in sample : Stratum(rows[i]) = t} # {}
    PROVE  \E y \in sample : /\ Stratum(rows[y]) = t
                             /\ Cardinality({i \in sample : Stratum(rows[i]) = t}) <= Prior(rows, y) + 1
<1> DEFINE T == {i \in sample : Stratum(rows[i]) = t}
           n == Len(rows)
<1>1. n \in Nat /\ DOMAIN rows = 1..n /\ T \in SUBSET (1..n) /\ T # {}
  BY RowsAre
<1> DEFINE y == PartFold!Largest(T)
<1> HIDE DEF T, n
<1>2. y \in T /\ \A i \in T : y >= i
  BY <1>1, PartFold!LargestIn
<1> HIDE DEF y
<1>3. y \in 1..n /\ y \in sample /\ Stratum(rows[y]) = t
  BY <1>1, <1>2 DEF T
<1> DEFINE E == {j \in 1..(y - 1) : Stratum(rows[j]) = Stratum(rows[y])}
<1>4. T \in SUBSET (E \cup {y}) /\ y \notin E
  <2>1. \A i \in T : i \in 1..n /\ i <= y /\ Stratum(rows[i]) = t
    BY <1>1, <1>2 DEF T
  <2> QED BY <1>3, <2>1
<1>5. IsFiniteSet(E) /\ Prior(rows, y) = Cardinality(E) /\ Cardinality(E) \in Nat
  <2>1. y \in DOMAIN rows
    BY <1>1, <1>3
  <2> QED BY <2>1, PriorIs DEF Prior
<1> HIDE DEF E
<1>6. IsFiniteSet(E \cup {y}) /\ Cardinality(E \cup {y}) = Cardinality(E) + 1
  BY <1>4, <1>5, FS_AddElement
<1>7. Cardinality(T) <= Cardinality(E \cup {y})
  BY <1>4, <1>6, FS_Subset
<1> QED BY <1>3, <1>5, <1>6, <1>7 DEF T

(* Some place is the first of those that are left.                         *)
LEMMA LeastOf ==
    ASSUME NEW n \in Nat, NEW X \in SUBSET (1..n), X # {}
    PROVE  \E x \in X : \A k \in X : x <= k
<1> DEFINE Y == {n + 1 - i : i \in X}
<1>1. Y \in SUBSET (1..n) /\ Y # {}
  <2>1. \A i \in X : i \in 1..n
    OBVIOUS
  <2>2. \A i \in X : n + 1 - i \in 1..n
    BY <2>1
  <2>3. \A z \in Y : z \in 1..n
    BY <2>2
  <2>4. PICK i \in X : TRUE
    BY Zenon
  <2>5. n + 1 - i \in Y
    OBVIOUS
  <2> HIDE DEF Y
  <2> QED BY <2>3, <2>5
<1>2. PICK y \in Y : \A k \in Y : y >= k
  <2> HIDE DEF Y
  <2> QED BY <1>1, PartFold!LargestIn
<1>3. PICK x \in X : y = n + 1 - x
  OBVIOUS
<1>4. \A k \in X : n + 1 - k \in Y /\ k \in 1..n
  OBVIOUS
<1> HIDE DEF Y
<1>5. ASSUME NEW k \in X PROVE x <= k
  <2>1. n + 1 - x >= n + 1 - k /\ k \in Int /\ x \in Int
    BY <1>2, <1>3, <1>4
  <2> QED BY <2>1
<1> QED BY <1>5

(* All that is before the first one left of a stratum is taken.            *)
LEMMA TakenAtLeast ==
    ASSUME NEW rows, Rows(rows), NEW sample \in SUBSET DOMAIN rows,
           NEW left \in DOMAIN rows \ sample
    PROVE  \E x \in DOMAIN rows \ sample :
             /\ Stratum(rows[x]) = Stratum(rows[left])
             /\ Prior(rows, x) <= Cardinality({i \in sample : Stratum(rows[i]) = Stratum(rows[left])})
<1> DEFINE s == Stratum(rows[left])
           X == {i \in DOMAIN rows \ sample : Stratum(rows[i]) = s}
           T == {i \in sample : Stratum(rows[i]) = s}
           n == Len(rows)
<1>1. n \in Nat /\ DOMAIN rows = 1..n /\ IsFiniteSet(DOMAIN rows) /\ left \in X
  BY RowsAre
<1>2. PICK x \in X : \A k \in X : x <= k
  <2>1. X \in SUBSET (1..n) /\ X # {}
    BY <1>1
  <2> HIDE DEF X, n
  <2> QED BY <1>1, <2>1, LeastOf
<1>3. x \in DOMAIN rows \ sample /\ Stratum(rows[x]) = s
  BY <1>2
<1> DEFINE E == {j \in 1..(x - 1) : Stratum(rows[j]) = Stratum(rows[x])}
<1>4. E \in SUBSET T
  <2> SUFFICES ASSUME NEW j \in E PROVE j \in T
    OBVIOUS
  <2>1. j \in DOMAIN rows /\ ~(x <= j) /\ Stratum(rows[j]) = s
    BY <1>1, <1>3
  <2>2. j \notin X
    BY <1>2, <2>1
  <2> QED BY <2>1, <2>2
<1>5. IsFiniteSet(T)
  <2>1. T \in SUBSET DOMAIN rows
    OBVIOUS
  <2> HIDE DEF T
  <2> QED BY <1>1, <2>1, FS_Subset
<1>6. Prior(rows, x) = Cardinality(E)
  BY DEF Prior
<1> HIDE DEF E, T
<1>7. Cardinality(E) <= Cardinality(T)
  BY <1>4, <1>5, FS_Subset
<1> QED BY <1>3, <1>6, <1>7 DEF T

(* The last one taken of a stratum is of no later round than the first one *)
(* left of another.                                                        *)
LEMMA SamplesFair ==
    ASSUME NEW rows, Rows(rows), NEW size \in 1..Len(rows)
    PROVE  SampleIsFair(rows, size)
<1> DEFINE sample == FailureSample(rows, size)
           Taken(s) == Cardinality({i \in sample : Stratum(rows[i]) = s})
           Left(s) == \E i \in DOMAIN rows \ sample : Stratum(rows[i]) = s
<1>1. /\ Cardinality(sample) = size /\ sample \in SUBSET DOMAIN rows
      /\ \A i \in sample, j \in DOMAIN rows : Before(rows, j, i) => j \in sample
  BY SampleIs
<1>2. IsFiniteSet(DOMAIN rows) /\ \A i \in DOMAIN rows : Prior(rows, i) \in Nat
  BY RowsAre, PriorIs
<1>3. SampleIsFair(rows, size) <=>
        /\ Cardinality(sample) = size
        /\ \A s, t \in {Stratum(f) : f \in Range(rows)} : Left(s) => Taken(t) <= Taken(s) + 1
  BY DEF SampleIsFair
<1> HIDE DEF sample
<1>4. ASSUME NEW s, NEW t, Left(s) PROVE Taken(t) <= Taken(s) + 1
  <2>1. PICK left \in DOMAIN rows \ sample : Stratum(rows[left]) = s
    BY <1>4
  <2>2. PICK x \in DOMAIN rows \ sample :
          Prior(rows, x) <= Cardinality({i \in sample : Stratum(rows[i]) = Stratum(rows[left])})
    BY <1>1, TakenAtLeast
  <2>3. Prior(rows, x) <= Taken(s) /\ Prior(rows, x) \in Nat
    BY <1>2, <2>1, <2>2
  <2>4. Taken(s) \in Nat
    <3> DEFINE T == {i \in sample : Stratum(rows[i]) = s}
    <3>1. T \in SUBSET DOMAIN rows
      BY <1>1
    <3> HIDE DEF T
    <3>2. Cardinality(T) \in Nat
      BY <1>2, <3>1, FS_Subset, FS_CardinalityType
    <3> QED BY <3>2 DEF T
  <2>5. CASE {i \in sample : Stratum(rows[i]) = t} = {}
    <3>1. Taken(t) = 0
      BY <2>5, FS_EmptySet
    <3> HIDE DEF Taken
    <3> QED BY <2>4, <3>1
  <2>6. CASE {i \in sample : Stratum(rows[i]) = t} # {}
    <3>1. PICK y \in sample : Cardinality({i \in sample : Stratum(rows[i]) = t}) <= Prior(rows, y) + 1
      BY <1>1, <2>6, TakenAtMost
    <3>2. ~Before(rows, x, y) /\ y \in DOMAIN rows
      BY <1>1
    <3>3. Prior(rows, y) <= Prior(rows, x) /\ Prior(rows, y) \in Nat
      BY <1>2, <2>3, <3>2 DEF Before
    <3>4. Taken(t) <= Prior(rows, y) + 1
      BY <3>1
    <3>5. Taken(t) \in Int
      <4> DEFINE T == {i \in sample : Stratum(rows[i]) = t}
      <4>1. T \in SUBSET DOMAIN rows
        BY <1>1
      <4> HIDE DEF T
      <4>2. Cardinality(T) \in Nat
        BY <1>2, <4>1, FS_Subset, FS_CardinalityType
      <4> QED BY <4>2 DEF T
    <3> HIDE DEF Taken
    <3> QED BY <2>3, <2>4, <3>3, <3>4, <3>5
  <2> QED BY <2>5, <2>6
<1> HIDE DEF Taken, Left
<1> QED BY <1>1, <1>3, <1>4

(* A board of finitely many configurations, with numbers.                  *)
Scored(board) ==
    /\ IsFiniteSet(DOMAIN board) /\ DOMAIN board # {}
    /\ \A id \in DOMAIN board : board[id].quality \in Int /\ board[id].cost \in Int

(* Those that keep a configuration off the frontier.                       *)
Beating(board, id) ==
    {other \in DOMAIN board :
       /\ board[other].quality >= board[id].quality /\ board[other].cost <= board[id].cost
       /\ board[other].quality > board[id].quality \/ board[other].cost < board[id].cost}

(* Whoever nobody beats is on the frontier.                                *)
LEMMA FrontierIs ==
    ASSUME NEW board, Scored(board)
    PROVE  \A id \in DOMAIN board : id \in Frontier(board) <=> Beating(board, id) = {}
  BY DEF Scored, Frontier, IsPareto, Beating

(* Whoever is beaten is beaten by somebody who is not.                     *)
LEMMA Beaten ==
    ASSUME NEW board, Scored(board), NEW id \in DOMAIN board
    PROVE  \E f \in Frontier(board) :
             board[f].quality >= board[id].quality /\ board[f].cost <= board[id].cost
<1> DEFINE D == DOMAIN board
           Over(d) == board[d].quality >= board[id].quality /\ board[d].cost <= board[id].cost
           Sets == {B \in SUBSET D : \E d \in D : Over(d) /\ B = Beating(board, d)}
<1>1. IsFiniteSet(D) /\ \A d \in D : board[d].quality \in Int /\ board[d].cost \in Int
  BY DEF Scored
<1>2. \A d \in D : Beating(board, d) \in SUBSET D
  BY DEF Beating
<1>3. Over(id)
  BY <1>1
<1>4. Sets \in SUBSET (SUBSET D) /\ Sets # {}
  <2>1. Beating(board, id) \in Sets
    BY <1>2, <1>3
  <2> QED BY <2>1
<1>5. PICK B \in Sets : \A U \in Sets : ~(U \subseteq B /\ U # B)
  <2> HIDE DEF Sets, D
  <2> QED BY <1>1, <1>4, SmallestOf
<1>6. PICK f \in D : Over(f) /\ B = Beating(board, f)
  OBVIOUS
<1>7. ASSUME NEW d \in Beating(board, f) PROVE FALSE
  <2>1. d \in D /\ Over(d)
    BY <1>1, <1>6, <1>7 DEF Beating
  <2>2. Beating(board, d) \in Sets
    BY <1>2, <2>1
  <2>3. d \notin Beating(board, d)
    BY <1>1, <2>1 DEF Beating
  <2>4. Beating(board, d) \subseteq Beating(board, f)
    BY <1>1, <1>6, <1>7, <2>1 DEF Beating
  <2> HIDE DEF Sets
  <2> QED BY <1>5, <1>6, <1>7, <2>2, <2>3, <2>4
<1>8. Beating(board, f) = {}
  BY <1>7
<1>9. f \in Frontier(board)
  BY <1>6, <1>8, FrontierIs
<1> QED BY <1>6, <1>9

(* The frontier can be put in order.                                       *)
InOrder(board, s) ==
    /\ IsInjective(s)
    /\ \A i, j \in 1..Cardinality(Frontier(board)) : i < j => NoBetter(board, s[i], s[j])

(* By quality, then cost, then a numbering of those that are level.        *)
LEMMA FrontierOrdered ==
    ASSUME NEW board, Scored(board)
    PROVE  \E s \in [1..Cardinality(Frontier(board)) -> Frontier(board)] : InOrder(board, s)
<1> DEFINE F == Frontier(board)
           n == Cardinality(F)
<1>1. IsFiniteSet(F) /\ \A d \in F : board[d].quality \in Int /\ board[d].cost \in Int
  <2>1. F \in SUBSET DOMAIN board
    BY DEF Frontier
  <2> HIDE DEF F
  <2> QED BY <2>1, FS_Subset DEF Scored
<1>2. PICK at : at \in Bijection(F, 1..n)
  <2>1. IsFiniteSet(1..n) /\ n \in Nat
    <3> HIDE DEF F
    <3>1. n \in Nat
      BY <1>1, FS_CardinalityType
    <3>2. 1 \in Int /\ n \in Int
      BY <3>1
    <3> QED BY <3>1, <3>2, FS_Interval
  <2>2. ExistsBijection(1..n, F)
    <3> HIDE DEF F
    <3> QED BY <1>1, FS_CardinalityType
  <2> HIDE DEF F, n
  <2> QED BY <2>2, Fun_ExistsBijSymmetric DEF ExistsBijection
<1> HIDE DEF F
<1>3. n \in Nat
  BY <1>1, FS_CardinalityType
<1>4. (\A c \in F : at[c] \in Int) /\ \A c, d \in F : at[c] = at[d] => c = d
  <2>1. \A c \in F : at[c] \in 1..n
    BY <1>2 DEF Bijection, Injection
  <2>2. \A c, d \in F : at[c] = at[d] => c = d
    BY <1>2 DEF Bijection, Injection, IsInjective
  <2> QED BY <1>3, <2>1, <2>2
<1> DEFINE Less(c, d) == \/ board[c].quality < board[d].quality
                         \/ /\ board[c].quality = board[d].quality
                            /\ \/ board[c].cost < board[d].cost
                               \/ board[c].cost = board[d].cost /\ at[c] < at[d]
           R == {p \in F \X F : Less(p[1], p[2])}
<1>5. \A c, d \in F : <<c, d>> \in R <=> Less(c, d)
  OBVIOUS
<1>6. PartFold!StrictOrder(R, F)
  <2>1. \A c \in F : ~Less(c, c)
    BY <1>1, <1>4
  <2>2. \A c, d, e \in F : Less(c, d) /\ Less(d, e) => Less(c, e)
    BY <1>1, <1>4
  <2>3. \A c, d \in F : c = d \/ Less(c, d) \/ Less(d, c)
    BY <1>1, <1>4
  <2> HIDE DEF R, Less
  <2> QED BY <1>5, <2>1, <2>2, <2>3 DEF PartFold!StrictOrder
<1>7. \A c, d \in F : Less(c, d) => NoBetter(board, c, d)
  BY <1>1 DEF NoBetter
<1> HIDE DEF R, Less
<1>8. /\ \A c, d \in F : <<c, d>> \in R => PartFold!Place(R, F, c) < PartFold!Place(R, F, d)
      /\ \A i \in 1..n : \E c \in F : PartFold!Place(R, F, c) = i
  <2>1. PartFold!IsFiniteSet(F) /\ PartFold!Cardinality(F) = n
    BY <1>1, SameSets
  <2> HIDE DEF n
  <2> QED BY <2>1, <1>6, PartFold!Placed
<1> DEFINE s == [i \in 1..n |-> CHOOSE c \in F : PartFold!Place(R, F, c) = i]
<1>9. \A i \in 1..n : s[i] \in F /\ PartFold!Place(R, F, s[i]) = i
  BY <1>8
<1>10. s \in [1..n -> F]
  BY <1>9
<1> HIDE DEF s, n
<1>11. IsInjective(s)
  <2>1. DOMAIN s = 1..n
    BY <1>10
  <2> QED BY <1>9, <2>1 DEF IsInjective
<1>12. ASSUME NEW i \in 1..n, NEW j \in 1..n, i < j PROVE NoBetter(board, s[i], s[j])
  <2>1. s[i] \in F /\ s[j] \in F /\ PartFold!Place(R, F, s[i]) = i /\ PartFold!Place(R, F, s[j]) = j
    BY <1>9
  <2>2. ~(PartFold!Place(R, F, s[j]) < PartFold!Place(R, F, s[i])) /\ i # j
    BY <1>3, <1>12, <2>1
  <2>3. <<s[j], s[i]>> \notin R /\ s[i] # s[j]
    BY <1>8, <2>1, <2>2
  <2>4. <<s[i], s[j]>> \in R
    BY <1>6, <2>1, <2>3 DEF PartFold!StrictOrder
  <2> QED BY <1>5, <1>7, <2>1, <2>4
<1> QED BY <1>10, <1>11, <1>12 DEF InOrder, F, n

(* The frontier of any board of numbers, and the steps along it.           *)
LEMMA FrontiersSound ==
    ASSUME NEW board, Scored(board)
    PROVE  FrontierIsSound(board)
<1> DEFINE F == Frontier(board)
           n == Cardinality(F)
           ordered == CHOOSE s \in [1..n -> F] : InOrder(board, s)
<1>1. F # {}
  <2>1. PICK id \in DOMAIN board : TRUE
    BY DEF Scored
  <2>2. \E f \in F : TRUE
    BY Beaten
  <2> QED BY <2>2
<1>2. \A id \in DOMAIN board \ F : \E f \in F :
        board[f].quality >= board[id].quality /\ board[f].cost <= board[id].cost
  BY Beaten
<1>3. ordered \in [1..n -> F] /\ InOrder(board, ordered)
  BY FrontierOrdered
<1>4. Marginal(board) =
        [i \in 2..n |->
          [quality |-> board[ordered[i]].quality - board[ordered[i - 1]].quality,
           cost |-> board[ordered[i]].cost - board[ordered[i - 1]].cost]]
  BY DEF Marginal, InOrder
<1>5. n \in Nat
  <2>1. F \in SUBSET DOMAIN board
    BY DEF Frontier
  <2> HIDE DEF F
  <2> QED BY <2>1, FS_Subset, FS_CardinalityType DEF Scored
<1> HIDE DEF ordered
<1>6. ASSUME NEW i \in 2..n
      PROVE  LET q == board[ordered[i]].quality - board[ordered[i - 1]].quality
                 c == board[ordered[i]].cost - board[ordered[i - 1]].cost
             IN q >= 0 /\ (q > 0 <=> c > 0)
  <2> DEFINE a == ordered[i - 1]
             b == ordered[i]
  <2>1. i \in 1..n /\ i - 1 \in 1..n /\ i - 1 < i
    BY <1>5
  <2>2. a \in F /\ b \in F /\ NoBetter(board, a, b)
    BY <1>3, <2>1 DEF InOrder
  <2> HIDE DEF a, b
  <2>3. a \in DOMAIN board /\ b \in DOMAIN board /\ Beating(board, a) = {} /\ Beating(board, b) = {}
    <3>1. a \in DOMAIN board /\ b \in DOMAIN board
      BY <2>2 DEF Frontier
    <3> QED BY <2>2, <3>1, FrontierIs
  <2>4. /\ board[a].quality \in Int /\ board[a].cost \in Int
        /\ board[b].quality \in Int /\ board[b].cost \in Int
    BY <2>3 DEF Scored
  <2>5. a \notin Beating(board, b) /\ b \notin Beating(board, a)
    BY <2>3
  <2>6. /\ board[b].quality - board[a].quality >= 0
        /\ board[b].quality - board[a].quality > 0 <=> board[b].cost - board[a].cost > 0
    BY <2>2, <2>3, <2>4, <2>5 DEF Beating, NoBetter
  <2> QED BY <2>6 DEF a, b
<1> HIDE DEF F, n
<1>7. FrontierIsSound(board) <=>
        /\ F # {}
        /\ \A id \in DOMAIN board \ F : \E f \in F :
             board[f].quality >= board[id].quality /\ board[f].cost <= board[id].cost
        /\ \A i \in DOMAIN Marginal(board) :
             /\ Marginal(board)[i].quality >= 0
             /\ Marginal(board)[i].quality > 0 <=> Marginal(board)[i].cost > 0
  BY DEF FrontierIsSound, F
<1>8. \A i \in DOMAIN Marginal(board) :
             /\ Marginal(board)[i].quality >= 0
             /\ Marginal(board)[i].quality > 0 <=> Marginal(board)[i].cost > 0
  BY <1>4, <1>6
<1> QED BY <1>1, <1>2, <1>7, <1>8

(* The leaderboard of a good bundle is such a board.                       *)
LEMMA BoardScored ==
    ASSUME NEW bundle, Good(bundle)
    PROVE  Scored(Leaderboard(bundle, CostRows(bundle, Vat)))
<1> DEFINE costs == CostRows(bundle, Vat)
           board == Leaderboard(bundle, costs)
<1>1. DOMAIN board = Experiments(bundle)
  BY DEF Leaderboard
<1>2. IsFiniteSet(DOMAIN costs) /\ \A group \in DOMAIN costs : costs[group].gross \in Nat
  BY CostsAddUp, AnalysisAssumption DEF Good
<1>3. ASSUME NEW id \in Experiments(bundle) PROVE board[id].quality \in Int /\ board[id].cost \in Int
  <2> HIDE DEF costs
  <2>1. board[id].quality \in Nat
    BY BoardQuality
  <2> DEFINE S == Spent(costs, id)
             f == [group \in S |-> costs[group].gross]
  <2>2. board[id].cost = SumFunctionOnSet(f, S)
    BY DEF Leaderboard, SumFunction
  <2>3. IsFiniteSet(S) /\ \A group \in S : f[group] \in Nat
    <3>1. S \in SUBSET DOMAIN costs
      BY DEF Spent
    <3>2. \A group \in S : f[group] \in Nat
      BY <1>2, <3>1
    <3> HIDE DEF S
    <3> QED BY <1>2, <3>1, <3>2, FS_Subset
  <2> HIDE DEF S, f
  <2>4. SumFunctionOnSet(f, S) \in Nat
    BY <2>3, AddsToNat
  <2> HIDE DEF board
  <2> QED BY <2>1, <2>2, <2>4
<1> QED BY <1>1, <1>3, ExperimentsAre DEF Scored

(* An accepted request is of one bundle that is good.                      *)
LEMMA TabulableGood ==
    ASSUME NEW bundles \in Evidence, Tabulable(bundles)
    PROVE  Good(Merge(bundles))
  BY MergeOK DEF Tabulable, Good

(* The tables of any evidence.                                             *)
LEMMA TabulatedSound ==
    ASSUME input \in Evidence
    PROVE  AnalysisSound
<1>1. SUFFICES ASSUME Tabulable(input)
               PROVE  LET bundle == Merge(input)
                          costs == CostRows(bundle, Vat)
                          board == Leaderboard(bundle, costs)
                      IN /\ TablesAddUp(bundle, costs, board)
                         /\ PercentilesOrdered(LatencyRows(bundle))
                         /\ \A size \in 1..Len(bundle.failures) : SampleIsFair(bundle.failures, size)
                         /\ FrontierIsSound(board)
  BY DEF AnalysisSound
<1> DEFINE bundle == Merge(input)
           costs == CostRows(bundle, Vat)
           board == Leaderboard(bundle, costs)
<1>2. Good(bundle)
  BY <1>1, TabulableGood
<1> HIDE DEF bundle
<1>3. TablesAddUp(bundle, costs, board)
  BY <1>2, TablesSound
<1>4. PercentilesOrdered(LatencyRows(bundle))
  BY <1>2, LatenciesOrdered
<1>5. \A size \in 1..Len(bundle.failures) : SampleIsFair(bundle.failures, size)
  BY <1>2, SamplesFair DEF Good, BundleOK
<1>6. FrontierIsSound(board)
  BY <1>2, BoardScored, FrontiersSound
<1> HIDE DEF costs, board
<1> QED BY <1>3, <1>4, <1>5, <1>6 DEF bundle, costs, board

(* The tables of an accepted request agree with its evidence and with one  *)
(* another, for any evidence, tax and amount billed: AnalysisSound of      *)
(* build_cost_rows, _build_tables, plan_failure_sample, _latency_rows and  *)
(* _marginal_rows.                                                         *)
THEOREM AnalysisSoundHolds == AnalysisSpec => []AnalysisSound
<1> DEFINE Inv == input \in Evidence \cup {Done}
<1>1. AnalysisInit => Inv
  BY DEF AnalysisInit
<1>2. Inv /\ [Tabulate]_input => Inv'
  BY DEF Tabulate
<1>3. Inv => AnalysisSound
  <2>1. CASE input \in Evidence
    BY <2>1, TabulatedSound
  <2>2. CASE input = Done
    BY <2>2 DEF AnalysisSound, Tabulable, Done
  <2> QED BY <2>1, <2>2
<1> QED BY <1>1, <1>2, <1>3, PTL DEF AnalysisSpec
==============================================================================
