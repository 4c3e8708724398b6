-------------------------- MODULE Screening_proofs --------------------------
(***************************************************************************)
(* Theorems about Screening, for any number of processes, questions,       *)
(* rankings and invocations, and about the functions the stage is made of: *)
(* GroundedAnswer, for any branches, weights, records and replies, and     *)
(* Selection, for any strategies, top_k values and outcomes.               *)
(***************************************************************************)
EXTENDS Screening, GroundedAnswer, Selection, FiniteSetTheorems, TLAPS

(* What the local variables of an active process say of the checkpoint c,  *)
(* whether it is alone or not.                                             *)
InvocationSound(r, c) ==
    /\ r \in Invocation
    /\ r.ranking # None => r.pc \in {"open", "replace"} /\ r.operation = "persist"
    /\ r.operation = "persist" /\ r.pc \in {"open", "replace"} => r.ranking # None
    /\ r.pc = "search" \/ r.operation = "persist" => r.question # None
    /\ r.pc \in {"search", "get"} => r.operation \in {"begin", "persist"}
    /\ r.pc = "replace" => r.record # None
    /\ r.operation = "finish" => r.evaluated # None
    /\ (r.pc \in {"open", "replace"} /\ r.operation = "begin") \/ c # None

ScreeningIInv ==
    /\ ScreeningTypeOK
    /\ \A p \in Processes : Active(p) => InvocationSound(run[p], checkpoint)

-----------------------------------------------------------------------------
(* A set of questions has a first one: the sets 1..x for its members x are *)
(* ordered by inclusion, which is well-founded.                            *)
LEMMA Least ==
    ASSUME NEW S \in SUBSET Questions, S # {}
    PROVE  \E x \in S : \A y \in S : x <= y
  <1> USE DEF Questions
  <1> DEFINE R == StrictSubsetOrdering(1..LastQuestion)
             T == {1..x : x \in S}
  <1>1. IsWellFoundedOn(R, SUBSET (1..LastQuestion))
    <2>1. IsFiniteSet(1..LastQuestion)
      BY ScreeningAssumption, FS_Interval
    <2>2. FiniteSubsetsOf(1..LastQuestion) = SUBSET (1..LastQuestion)
      BY <2>1, FS_FiniteSubsetsOfFinite
    <2> QED
      BY <2>2, FS_StrictSubsetOrderingWellFounded
  <1>2. T \subseteq SUBSET (1..LastQuestion) /\ T # {}
    <2>1. \A x \in S : x \in 1..LastQuestion /\ 1..x \subseteq 1..LastQuestion
      BY ScreeningAssumption
    <2> QED
      BY <2>1
  <1> HIDE DEF R, T
  <1>3. PICK t \in T : \A u \in T : <<u, t>> \notin R
    BY <1>1, <1>2, WFMin
  <1>4. PICK x \in S : t = 1..x
    BY DEF T
  <1>5. ASSUME NEW y \in S, y < x PROVE FALSE
    <2>1. 1..y \in T
      BY DEF T
    <2>2. x \in 1..LastQuestion /\ y \in 1..LastQuestion
      OBVIOUS
    <2>3. 1..y \subseteq 1..x /\ x \in 1..x /\ x \notin 1..y
      BY <1>5, <2>2, ScreeningAssumption
    <2>4. <<1..y, 1..x>> \in R
      BY <1>2, <1>4, <2>1, <2>3 DEF R, StrictSubsetOrdering
    <2> QED
      BY <1>3, <1>4, <2>1, <2>4
  <1> QED
    BY <1>5, ScreeningAssumption

(* Where the loop over the questions goes on (RetrievalScreenRunner.run).   *)
LEMMA FromSound ==
    ASSUME NEW r \in Invocation, NEW q \in Nat
    PROVE  /\ From(r, q) \in Invocation
           /\ From(r, q).operation = r.operation /\ From(r, q).known = r.known
           /\ From(r, q).ranking = None /\ From(r, q).pc \in {"get", "search"}
           /\ From(r, q).pc = "get" => From(r, q).question = r.question
           /\ From(r, q).pc = "get" => \A x \in Questions : x >= q => x \in r.known
           /\ From(r, q).pc = "search" =>
                /\ From(r, q).question \in Questions \ r.known
                /\ From(r, q).question >= q
                /\ \A x \in Questions :
                     x >= q /\ x < From(r, q).question => x \in r.known
  <1> DEFINE rest == {x \in Questions : x >= q /\ x \notin r.known}
             first == CHOOSE x \in rest : \A y \in rest : x <= y
  <1>1. CASE rest = {}
    <2>1. From(r, q) = [r EXCEPT !.pc = "get", !.ranking = None, !.record = None]
      BY <1>1 DEF From
    <2>2. \A x \in Questions : x >= q => x \in r.known
      BY <1>1
    <2> HIDE DEF rest
    <2> QED
      BY <2>1, <2>2 DEF Invocation
  <1>2. CASE rest # {}
    <2>1. From(r, q) = [r EXCEPT !.pc = "search", !.ranking = None, !.record = None,
                                 !.question = first]
      BY <1>2 DEF From
    <2>2. \E x \in rest : \A y \in rest : x <= y
      BY <1>2, Least
    <2> HIDE DEF first
    <2>3. first \in rest /\ \A y \in rest : first <= y
      BY <2>2 DEF first
    <2>4. /\ first \in Questions \ r.known /\ first >= q
          /\ \A x \in Questions : x >= q /\ x < first => x \in r.known
      BY <2>3, ScreeningAssumption DEF Questions
    <2> HIDE DEF rest
    <2>5. From(r, q) \in Invocation
      BY <2>1, <2>4 DEF Invocation
    <2>6. /\ From(r, q).operation = r.operation /\ From(r, q).known = r.known
          /\ From(r, q).ranking = None /\ From(r, q).pc = "search"
          /\ From(r, q).question = first
      BY <2>1 DEF Invocation
    <2> QED
      BY <2>4, <2>5, <2>6
  <1> QED
    BY <1>1, <1>2

LEMMA BegunSound ==
    ASSUME NEW c \in Record \cup {None}
    PROVE  /\ Begun(c) \in Record
           /\ c = None => Begun(c) = Fresh /\ Completed(Begun(c)) = {}
           /\ c # None => Begun(c).ranking = c.ranking
           /\ Begun(c).status \in {"running", "complete"}
           /\ Begun(c).status = "complete" => c # None /\ c.status = "complete"
  <1>1. Fresh \in Record /\ Completed(Fresh) = {} /\ Fresh.status = "running"
    BY DEF Fresh, Record, Completed
  <1> QED
    BY <1>1, ScreeningAssumption DEF Begun, Record

LEMMA PersistedSound ==
    ASSUME NEW c \in Record, NEW q \in Questions, NEW ranking \in Rankings
    PROVE  /\ Persisted(c, q, ranking) \in Record
           /\ Persisted(c, q, ranking).status = c.status
           /\ \A x \in Questions : Persisted(c, q, ranking).ranking[x] =
                IF x = q /\ c.ranking[q] = None THEN ranking ELSE c.ranking[x]
           /\ Completed(Persisted(c, q, ranking)) = Completed(c) \cup {q}
  <1> DEFINE d == Persisted(c, q, ranking)
  <1>1. /\ d \in Record /\ d.status = c.status
        /\ \A x \in Questions : d.ranking[x] =
             IF x = q /\ c.ranking[q] = None THEN ranking ELSE c.ranking[x]
    BY DEF Persisted, Record
  <1> HIDE DEF d
  <1>2. Completed(d) = Completed(c) \cup {q}
    BY <1>1, ScreeningAssumption DEF Completed
  <1> QED
    BY <1>1, <1>2 DEF d

LEMMA StatusSound ==
    ASSUME NEW c \in Record, NEW status \in {"interrupted", "complete"}
    PROVE  /\ [c EXCEPT !.status = status] \in Record
           /\ [c EXCEPT !.status = status].status = status
           /\ [c EXCEPT !.status = status].ranking = c.ranking
  BY DEF Record

LEMMA SoundAt ==
    ASSUME ScreeningIInv, NEW p \in Processes, Active(p)
    PROVE  InvocationSound(run[p], checkpoint)
  BY DEF ScreeningIInv

(* The record an operation writes is one. *)
LEMMA ChangedSound ==
    ASSUME ScreeningIInv, NEW p \in Processes, Active(p), run[p].pc \in {"open", "replace"}
    PROVE  Changed(p) \in Record
  <1>1. InvocationSound(run[p], checkpoint) /\ checkpoint \in Record \cup {None}
    BY SoundAt DEF ScreeningIInv, ScreeningTypeOK
  <1>2. run[p].operation \in {"begin", "persist", "mark", "finish"}
    BY <1>1 DEF InvocationSound, Invocation
  <1>3. CASE run[p].operation = "begin"
    BY <1>1, <1>3, BegunSound DEF Changed
  <1>4. CASE run[p].operation = "persist"
    <2>1. run[p].ranking \in Rankings /\ run[p].question \in Questions /\ checkpoint \in Record
      BY <1>1, <1>4 DEF InvocationSound, Invocation
    <2> QED
      BY <1>4, <2>1, PersistedSound DEF Changed
  <1>5. CASE run[p].operation \in {"mark", "finish"}
    BY <1>1, <1>5, StatusSound DEF Changed, InvocationSound
  <1> QED
    BY <1>2, <1>3, <1>4, <1>5

(* The step of one process: another keeps what it knows of the checkpoint. *)
LEMMA RunStep ==
    ASSUME ScreeningIInv, NEW p \in Processes, NEW x,
           run' = [run EXCEPT ![p] = x],
           x = Idle \/ InvocationSound(x, checkpoint'),
           checkpoint' = checkpoint \/ checkpoint' \in Record
    PROVE  /\ run' \in [Processes -> Invocation \cup {Idle}]
           /\ \A q \in Processes : Active(q)' => InvocationSound(run'[q], checkpoint')
  <1>1. run' = [q \in Processes |-> IF q = p THEN x ELSE run[q]]
    BY DEF ScreeningIInv, ScreeningTypeOK
  <1>2. x \in Invocation \cup {Idle} /\ Idle.pc = "idle"
    BY DEF InvocationSound, Idle
  <1>3. run' \in [Processes -> Invocation \cup {Idle}]
    BY <1>1, <1>2 DEF ScreeningIInv, ScreeningTypeOK
  <1>4. ASSUME NEW q \in Processes, Active(q)'
        PROVE  InvocationSound(run'[q], checkpoint')
    <2>1. CASE q = p
      BY <1>1, <1>2, <1>4, <2>1 DEF Active, At
    <2>2. CASE q # p
      <3>1. run'[q] = run[q] /\ Active(q)
        BY <1>1, <1>4, <2>2 DEF Active, At
      <3>2. InvocationSound(run[q], checkpoint)
        BY <3>1, SoundAt
      <3>3. checkpoint # None => checkpoint' # None
        BY ScreeningAssumption
      <3> QED
        BY <3>1, <3>2, <3>3 DEF InvocationSound
    <2> QED
      BY <2>1, <2>2
  <1> QED
    BY <1>3, <1>4

(* What an exception leaves (_mark_interrupted). *)
Raised(p) ==
    IF At(p, "search") \/ run[p].operation = "persist"
    THEN [run[p] EXCEPT !.pc = "open", !.operation = "mark", !.ranking = None,
                        !.record = None]
    ELSE Idle

LEMMA RaiseSound ==
    ASSUME ScreeningIInv, NEW p \in Processes, Active(p), Raise(p)
    PROVE  /\ run' = [run EXCEPT ![p] = Raised(p)]
           /\ Raised(p) = Idle \/ InvocationSound(Raised(p), checkpoint)
           /\ lost' \in [Questions -> Nat]
  <1>1. InvocationSound(run[p], checkpoint)
    BY SoundAt
  <1>2. run' = [run EXCEPT ![p] = Raised(p)]
    BY DEF Raise, Raised
  <1>3. Raised(p) = Idle \/ InvocationSound(Raised(p), checkpoint)
    BY <1>1 DEF Raised, InvocationSound, Invocation, At
  <1>4. lost' \in [Questions -> Nat]
    <2>1. lost \in [Questions -> Nat] /\ \A q \in Questions : lost[q] + 1 \in Nat
      BY DEF ScreeningIInv, ScreeningTypeOK
    <2>2. \/ lost' = lost
          \/ lost' = [lost EXCEPT ![run[p].question] = lost[run[p].question] + 1]
      BY DEF Raise
    <2> QED
      BY <2>1, <2>2
  <1> QED
    BY <1>2, <1>3, <1>4

(* Where a process goes on when its operation has replaced the checkpoint. *)
Onward(p) ==
    CASE run[p].operation = "begin" ->
           From([run[p] EXCEPT !.known = Completed(run[p].record)], 1)
      [] run[p].operation = "persist" -> From(run[p], run[p].question + 1)
      [] OTHER -> Idle

LEMMA OnwardSound ==
    ASSUME ScreeningIInv, NEW p \in Processes, Replace(p)
    PROVE  /\ run' = [run EXCEPT ![p] = Onward(p)]
           /\ checkpoint' \in Record
           /\ Onward(p) = Idle \/ InvocationSound(Onward(p), checkpoint')
  <1>1. InvocationSound(run[p], checkpoint) /\ run[p].pc = "replace"
    BY SoundAt DEF Replace, Active, At
  <1>2. run' = [run EXCEPT ![p] = Onward(p)]
    BY DEF Replace, Onward
  <1>3. checkpoint' = run[p].record /\ run[p].record \in Record
    BY <1>1 DEF Replace, InvocationSound, Invocation
  <1>4. CASE run[p].operation = "begin"
    <2> DEFINE r == [run[p] EXCEPT !.known = Completed(run[p].record)]
    <2>1. r \in Invocation /\ r.operation = "begin"
      BY <1>1, <1>4 DEF InvocationSound, Invocation, Completed
    <2> HIDE DEF r
    <2>2. InvocationSound(From(r, 1), checkpoint')
      BY <1>3, <2>1, FromSound, ScreeningAssumption DEF InvocationSound
    <2> QED
      BY <1>2, <1>3, <1>4, <2>2 DEF Onward, r
  <1>5. CASE run[p].operation = "persist"
    <2>1. run[p].question + 1 \in Nat /\ run[p].question \in Questions
      BY <1>1, <1>5, ScreeningAssumption DEF InvocationSound, Invocation, Questions
    <2> DEFINE x == From(run[p], run[p].question + 1)
    <2>2. /\ x \in Invocation /\ x.operation = "persist" /\ x.ranking = None
          /\ x.pc \in {"get", "search"} /\ x.question \in Questions
      BY <1>1, <1>5, <2>1, FromSound DEF InvocationSound
    <2> HIDE DEF x
    <2>3. InvocationSound(x, checkpoint')
      BY <1>3, <2>2, ScreeningAssumption DEF InvocationSound
    <2> QED
      BY <1>2, <1>3, <1>5, <2>3 DEF Onward, x
  <1>6. CASE run[p].operation \in {"mark", "finish"}
    BY <1>2, <1>3, <1>6 DEF Onward
  <1> QED
    BY <1>1, <1>4, <1>5, <1>6 DEF InvocationSound, Invocation
-----------------------------------------------------------------------------
LEMMA ScreeningInit == Init => ScreeningIInv
  <1> SUFFICES ASSUME Init PROVE ScreeningIInv
    OBVIOUS
  <1>1. run \in [Processes -> Invocation \cup {Idle}] /\ \A p \in Processes : ~Active(p)
    BY DEF Init, Active, At, Idle
  <1> QED
    BY <1>1 DEF Init, ScreeningIInv, ScreeningTypeOK
LEMMA HistoryStep ==
    ASSUME ScreeningTypeOK, NEW q, searched' = [searched EXCEPT ![q] = @ + 1]
    PROVE  searched' \in [Questions -> Nat]
  <1>1. \A x \in Questions : searched[x] + 1 \in Nat
    BY DEF ScreeningTypeOK
  <1> QED
    BY <1>1 DEF ScreeningTypeOK

LEMMA LostStep ==
    ASSUME ScreeningTypeOK, NEW q, lost' = [lost EXCEPT ![q] = @ + 1]
    PROVE  lost' \in [Questions -> Nat]
  <1>1. \A x \in Questions : lost[x] + 1 \in Nat
    BY DEF ScreeningTypeOK
  <1> QED
    BY <1>1 DEF ScreeningTypeOK

LEMMA ScreeningStep == ScreeningIInv /\ [Next]_vars => ScreeningIInv'
  <1> SUFFICES ASSUME ScreeningIInv, [Next]_vars PROVE ScreeningIInv'
    OBVIOUS
  <1>a. ScreeningTypeOK /\ Idle.pc = "idle"
    BY DEF ScreeningIInv, Idle
  <1>1. CASE UNCHANGED vars
    BY <1>1 DEF vars, ScreeningIInv, ScreeningTypeOK, Active, At
  <1>2. ASSUME NEW p \in Processes, Step(p) PROVE ScreeningIInv'
    <2>0. ASSUME NEW x, run' = [run EXCEPT ![p] = x],
                 x = Idle \/ InvocationSound(x, checkpoint'),
                 checkpoint' = checkpoint \/ checkpoint' \in Record,
                 leftovers' \subseteq Processes,
                 searched' \in [Questions -> Nat], lost' \in [Questions -> Nat],
                 evaluations' \subseteq Evaluation,
                 overlapped' \in BOOLEAN, broken' \in BOOLEAN, starts' \in Nat
          PROVE  ScreeningIInv'
      <3>1. /\ run' \in [Processes -> Invocation \cup {Idle}]
            /\ \A q \in Processes : Active(q)' => InvocationSound(run'[q], checkpoint')
        BY <2>0, RunStep
      <3>2. checkpoint' \in Record \cup {None}
        BY <1>a, <2>0 DEF ScreeningTypeOK
      <3>3. ScreeningTypeOK'
        BY <2>0, <3>1, <3>2 DEF ScreeningTypeOK
      <3> QED
        BY <3>1, <3>3 DEF ScreeningIInv
    <2>1. CASE Start(p)
      <3> DEFINE x == [pc |-> "open", operation |-> "begin", known |-> {}, question |-> None,
                       ranking |-> None, record |-> None, evaluated |-> None]
      <3>1. InvocationSound(x, checkpoint')
        BY DEF InvocationSound, Invocation
      <3>2. /\ run' = [run EXCEPT ![p] = x] /\ starts' \in Nat /\ overlapped' \in BOOLEAN
            /\ UNCHANGED <<checkpoint, leftovers, searched, lost, evaluations, broken>>
        BY <1>a, <2>1 DEF Start, ScreeningTypeOK
      <3> HIDE DEF x
      <3> QED
        BY <1>a, <2>0, <3>1, <3>2 DEF ScreeningTypeOK
    <2>2. CASE Open(p)
      <3>1. Active(p) /\ InvocationSound(run[p], checkpoint) /\ Changed(p) \in Record
        BY <2>2, <1>a, SoundAt, ChangedSound DEF Open, Active, At
      <3> DEFINE x == [run[p] EXCEPT !.pc = "replace", !.record = Changed(p)]
      <3>2. InvocationSound(x, checkpoint)
        BY <2>2, <3>1, ScreeningAssumption DEF InvocationSound, Invocation, Open, At
      <3>3. /\ run' = [run EXCEPT ![p] = x]
            /\ UNCHANGED <<checkpoint, leftovers, searched, lost, evaluations, overlapped,
                           broken, starts>>
        BY <2>2 DEF Open
      <3> HIDE DEF x
      <3> QED
        BY <1>a, <2>0, <3>2, <3>3 DEF ScreeningTypeOK
    <2>3. CASE Refuse(p) \/ WriteFails(p) \/ SearchFails(p)
      <3>1. Active(p) /\ Raise(p)
        BY <2>3, <1>a DEF Refuse, WriteFails, SearchFails, Active, At
      <3>2. /\ run' = [run EXCEPT ![p] = Raised(p)] /\ lost' \in [Questions -> Nat]
            /\ Raised(p) = Idle \/ InvocationSound(Raised(p), checkpoint)
        BY <3>1, RaiseSound
      <3>3. /\ leftovers' \subseteq Processes /\ broken' \in BOOLEAN
            /\ UNCHANGED <<checkpoint, searched, evaluations, overlapped, starts>>
        BY <1>a, <2>3 DEF Refuse, WriteFails, SearchFails, ScreeningTypeOK
      <3> QED
        BY <1>a, <2>0, <3>2, <3>3 DEF ScreeningTypeOK
    <2>4. CASE Replace(p)
      <3>1. /\ run' = [run EXCEPT ![p] = Onward(p)] /\ checkpoint' \in Record
            /\ Onward(p) = Idle \/ InvocationSound(Onward(p), checkpoint')
        BY <2>4, OnwardSound
      <3>2. InvocationSound(run[p], checkpoint)
        BY <2>4, SoundAt DEF Replace, Active, At
      <3>3. evaluations' \subseteq Evaluation
        BY <1>a, <2>4, <3>2 DEF Replace, ScreeningTypeOK, InvocationSound, Invocation
      <3>4. UNCHANGED <<leftovers, searched, lost, overlapped, broken, starts>>
        BY <2>4 DEF Replace
      <3> QED
        BY <1>a, <2>0, <3>1, <3>3, <3>4 DEF ScreeningTypeOK
    <2>5. CASE Search(p)
      <3>1. InvocationSound(run[p], checkpoint) /\ At(p, "search")
        BY <2>5, SoundAt DEF Search, Active, At
      <3> PICK v \in Rankings :
            run' = [run EXCEPT ![p].pc = "open", ![p].operation = "persist", ![p].ranking = v]
        BY <2>5 DEF Search
      <3> DEFINE x == [run[p] EXCEPT !.pc = "open", !.operation = "persist", !.ranking = v]
      <3>2. InvocationSound(x, checkpoint)
        BY <3>1, ScreeningAssumption DEF InvocationSound, Invocation, At
      <3>3. run' = [run EXCEPT ![p] = x]
        OBVIOUS
      <3>4. /\ searched' \in [Questions -> Nat]
            /\ UNCHANGED <<checkpoint, leftovers, lost, evaluations, overlapped, broken, starts>>
        BY <1>a, <2>5, HistoryStep DEF Search
      <3> HIDE DEF x
      <3> QED
        BY <1>a, <2>0, <3>2, <3>3, <3>4 DEF ScreeningTypeOK
    <2>6. CASE Evaluate(p)
      <3>1. /\ InvocationSound(run[p], checkpoint) /\ At(p, "get")
            /\ UNCHANGED <<checkpoint, leftovers, searched, lost, evaluations, overlapped,
                           broken, starts>>
        BY <2>6, SoundAt DEF Evaluate, Active, At
      <3> DEFINE x == IF Completed(checkpoint) = Questions
                      THEN [run[p] EXCEPT !.pc = "open", !.operation = "finish",
                                          !.evaluated = checkpoint.ranking]
                      ELSE Idle
      <3>2. run' = [run EXCEPT ![p] = x]
        BY <2>6 DEF Evaluate
      <3>3. x = Idle \/ InvocationSound(x, checkpoint)
        <4>1. checkpoint \in Record /\ run[p].ranking = None /\ run[p] \in Invocation
          BY <1>a, <3>1 DEF ScreeningTypeOK, InvocationSound, At
        <4>2. Completed(checkpoint) = Questions => checkpoint.ranking \in Evaluation
          BY <4>1 DEF Completed, Record, Evaluation
        <4> QED
          BY <3>1, <4>1, <4>2, ScreeningAssumption DEF InvocationSound, Invocation
      <3> HIDE DEF x
      <3> QED
        BY <1>a, <2>0, <3>1, <3>2, <3>3 DEF ScreeningTypeOK
    <2>7. CASE Crash(p)
      <3>1. /\ run' = [run EXCEPT ![p] = Idle] /\ leftovers' \subseteq Processes /\ broken'
            /\ UNCHANGED <<checkpoint, searched, evaluations, overlapped, starts>>
        BY <1>a, <2>7 DEF Crash, End, ScreeningTypeOK
      <3>2. lost' \in [Questions -> Nat]
        BY <1>a, <2>7, LostStep DEF Crash, ScreeningTypeOK
      <3> QED
        BY <1>a, <2>0, <3>1, <3>2 DEF ScreeningTypeOK
    <2> QED
      BY <1>2, <2>1, <2>2, <2>3, <2>4, <2>5, <2>6, <2>7 DEF Step
  <1> QED
    BY <1>1, <1>2 DEF Next

(* Every variable of a screening holds values of its type. *)
THEOREM ScreeningTypes == Spec => []ScreeningTypeOK
  <1>1. Spec => []ScreeningIInv
    BY ScreeningInit, ScreeningStep, PTL DEF Spec
  <1>2. ScreeningIInv => ScreeningTypeOK
    BY DEF ScreeningIInv
  <1> QED
    BY <1>1, <1>2, PTL
-----------------------------------------------------------------------------
(* While no two invocations overlap.                                       *)
(*                                                                         *)
(* What an operation writes, as a function of the local variables and the  *)
(* checkpoint.                                                             *)
Writes(r, c) ==
    CASE r.operation = "begin" -> Begun(c)
      [] r.operation = "persist" -> Persisted(c, r.question, r.ranking)
      [] r.operation = "mark" -> [c EXCEPT !.status = "interrupted"]
      [] r.operation = "finish" -> [c EXCEPT !.status = "complete"]

(* The loop is at the first question that is not complete: what begin()    *)
(* told it and what it has come past is.                                   *)
InLoop(r) == r.pc = "search" \/ (r.operation = "persist" /\ r.pc \in {"open", "replace"})

Progress(r, c) ==
    /\ r.pc = "replace" => r.record = Writes(r, c)
    /\ InLoop(r) => /\ r.question \notin Completed(c)
                    /\ Completed(c) = r.known \cup {x \in Questions : x < r.question}
    /\ r.pc = "get" \/ r.operation = "finish" => Completed(c) = Questions
    /\ r.operation = "finish" => r.evaluated = c.ranking

(* The checkpoint and what was returned agree. *)
Agree(c, returned) ==
    /\ c = None => returned = {}
    /\ c # None /\ c.status = "complete" => Completed(c) = Questions
    /\ \A e \in returned : c.ranking = e

InCheckpoint(c, q) == IF c # None /\ c.ranking[q] # None THEN 1 ELSE 0
Pending(r, q) == IF r.pc # "idle" /\ r.ranking # None /\ r.question = q THEN 1 ELSE 0

Stranded(c) == c # None /\ c.status = "running"

AloneIInv ==
    ~overlapped =>
        /\ \A p, q \in Processes : Active(p) /\ Active(q) => p = q
        /\ \A p \in Processes : Active(p) => Progress(run[p], checkpoint)
        /\ Agree(checkpoint, evaluations)
        /\ SearchedOnce
        /\ ~broken => /\ leftovers = {}
                      /\ (\A p \in Processes : ~Active(p)) => ~Stranded(checkpoint)

(* The same when p is the only one that may be active. *)
Lone(p) ==
    /\ \A q \in Processes \ {p} : ~Active(q)
    /\ Active(p) => Progress(run[p], checkpoint)
    /\ Agree(checkpoint, evaluations)
    /\ \A q \in Questions :
         searched[q] = lost[q] + InCheckpoint(checkpoint, q) + Pending(run[p], q)
    /\ ~broken => /\ leftovers = {}
                  /\ ~Active(p) => ~Stranded(checkpoint)

LEMMA AloneIsLone ==
    ASSUME AloneIInv, ~overlapped, NEW p \in Processes,
           \A q \in Processes \ {p} : ~Active(q)
    PROVE  Lone(p)
  <1>1. ASSUME NEW q \in Questions
        PROVE  searched[q] = lost[q] + InCheckpoint(checkpoint, q) + Pending(run[p], q)
    <2>1. searched[q] = lost[q] + (IF Kept(q) # None THEN 1 ELSE 0)
                      + (IF \E x \in Processes : Active(x) /\ run[x].ranking # None
                                                  /\ run[x].question = q
                         THEN 1 ELSE 0)
      BY DEF AloneIInv, SearchedOnce
    <2>2. (IF Kept(q) # None THEN 1 ELSE 0) = InCheckpoint(checkpoint, q)
      BY DEF Kept, InCheckpoint
    <2>3. (IF \E x \in Processes : Active(x) /\ run[x].ranking # None
                                   /\ run[x].question = q
           THEN 1 ELSE 0) = Pending(run[p], q)
      BY DEF Pending, Active, At
    <2> QED
      BY <2>1, <2>2, <2>3
  <1> QED
    BY <1>1 DEF AloneIInv, Lone

LEMMA LoneIsAlone ==
    ASSUME NEW p \in Processes, Lone(p)'
    PROVE  AloneIInv'
  <1>1. ASSUME NEW q \in Questions
        PROVE  searched'[q] = lost'[q] + (IF Kept(q)' # None THEN 1 ELSE 0)
                      + (IF \E x \in Processes : Active(x)' /\ run'[x].ranking # None
                                                  /\ run'[x].question = q
                         THEN 1 ELSE 0)
    <2>1. searched'[q] = lost'[q] + InCheckpoint(checkpoint', q) + Pending(run'[p], q)
      BY DEF Lone
    <2>2. (IF Kept(q)' # None THEN 1 ELSE 0) = InCheckpoint(checkpoint', q)
      BY DEF Kept, InCheckpoint
    <2>3. (IF \E x \in Processes : Active(x)' /\ run'[x].ranking # None
                                   /\ run'[x].question = q
           THEN 1 ELSE 0) = Pending(run'[p], q)
      BY DEF Lone, Pending, Active, At
    <2> QED
      BY <2>1, <2>2, <2>3
  <1>2. SearchedOnce'
    BY <1>1 DEF SearchedOnce
  <1>3. /\ \A x, q \in Processes : Active(x)' /\ Active(q)' => x = q
        /\ \A q \in Processes : Active(q)' => Progress(run'[q], checkpoint')
    BY DEF Lone, Active, At
  <1>4. Agree(checkpoint', evaluations')
    BY DEF Lone
  <1>5. ~broken' => /\ leftovers' = {}
                    /\ (\A q \in Processes : ~Active(q)') => ~Stranded(checkpoint')
    BY DEF Lone
  <1> QED
    BY <1>2, <1>3, <1>4, <1>5 DEF AloneIInv

(* p goes on to x, and the others stay idle. *)
LEMMA LoneGoesOn ==
    ASSUME ScreeningIInv, NEW p \in Processes, Lone(p), NEW x,
           run' = [run EXCEPT ![p] = x],
           x.pc # "idle" => Progress(x, checkpoint'),
           Agree(checkpoint', evaluations'),
           \A q \in Questions :
             searched'[q] = lost'[q] + InCheckpoint(checkpoint', q) + Pending(x, q),
           ~broken' => leftovers' = {} /\ (x.pc = "idle" => ~Stranded(checkpoint'))
    PROVE  Lone(p)'
  <1>1. run'[p] = x /\ \A q \in Processes \ {p} : run'[q] = run[q]
    BY DEF ScreeningIInv, ScreeningTypeOK
  <1>2. \A q \in Processes \ {p} : ~Active(q)'
    BY <1>1 DEF Lone, Active, At
  <1>3. Active(p)' <=> x.pc # "idle"
    BY <1>1 DEF Active, At
  <1> QED
    BY <1>1, <1>2, <1>3 DEF Lone

(* An exception or a crash loses the ranking that was not persisted. *)
LEMMA RankingLost ==
    ASSUME ScreeningIInv, NEW p \in Processes, Active(p), Lone(p), NEW x,
           x = Idle \/ x.ranking = None,
           lost' = IF run[p].ranking # None
                   THEN [lost EXCEPT ![run[p].question] = @ + 1] ELSE lost,
           UNCHANGED <<checkpoint, searched>>
    PROVE  \A q \in Questions :
             searched'[q] = lost'[q] + InCheckpoint(checkpoint', q) + Pending(x, q)
  <1> SUFFICES ASSUME NEW q \in Questions
               PROVE  searched'[q] = lost'[q] + InCheckpoint(checkpoint', q) + Pending(x, q)
    OBVIOUS
  <1>1. /\ searched[q] = lost[q] + InCheckpoint(checkpoint, q) + Pending(run[p], q)
        /\ run[p].pc # "idle"
    BY DEF Lone, Active, At
  <1>2. Pending(x, q) = 0
    BY DEF Pending, Idle
  <1>3. lost'[q] = lost[q] + Pending(run[p], q)
    BY <1>1 DEF Pending, ScreeningIInv, ScreeningTypeOK
  <1>4. lost[q] \in Nat /\ InCheckpoint(checkpoint, q) \in Nat /\ Pending(run[p], q) \in Nat
    BY DEF Pending, InCheckpoint, ScreeningIInv, ScreeningTypeOK
  <1> QED
    BY <1>1, <1>2, <1>3, <1>4

LEMMA LoneRaise ==
    ASSUME ScreeningIInv, NEW p \in Processes, Active(p), Lone(p), Raise(p),
           UNCHANGED <<checkpoint, searched, evaluations>>,
           ~broken' => leftovers' = {} /\ At(p, "search")
    PROVE  Lone(p)'
  <1>1. InvocationSound(run[p], checkpoint)
    BY SoundAt
  <1>2. run' = [run EXCEPT ![p] = Raised(p)]
    BY RaiseSound
  <1>3. Raised(p) = Idle \/ Raised(p) \in Invocation
    BY RaiseSound DEF InvocationSound
  <1>4. /\ Raised(p) = Idle \/ (/\ Raised(p).ranking = None /\ Raised(p).pc = "open"
                                /\ Raised(p).operation = "mark")
        /\ At(p, "search") => Raised(p).pc = "open"
    BY <1>1 DEF Raised, InvocationSound, Invocation
  <1>5. Raised(p).pc # "idle" => Progress(Raised(p), checkpoint')
    BY <1>4 DEF Progress, InLoop, Idle
  <1>6. \A q \in Questions : searched'[q] =
           lost'[q] + InCheckpoint(checkpoint', q) + Pending(Raised(p), q)
    BY <1>4, RankingLost DEF Raise
  <1>7. Agree(checkpoint', evaluations')
    BY DEF Lone
  <1>8. ~broken' => leftovers' = {} /\ (Raised(p).pc = "idle" => ~Stranded(checkpoint'))
    BY <1>4
  <1> QED
    BY <1>2, <1>5, <1>6, <1>7, <1>8, LoneGoesOn

LEMMA LoneReplaceBegin ==
    ASSUME ScreeningIInv, NEW p \in Processes, Lone(p), Replace(p),
           run[p].operation = "begin"
    PROVE  Lone(p)'
  <1> DEFINE r == [run[p] EXCEPT !.known = Completed(run[p].record)]
             x == From(r, 1)
  <1>1. /\ InvocationSound(run[p], checkpoint) /\ Active(p)
        /\ run[p].pc = "replace" /\ Progress(run[p], checkpoint)
    BY SoundAt DEF Replace, Active, At, Lone
  <1>2. checkpoint' = Begun(checkpoint) /\ checkpoint' = run[p].record
    BY <1>1 DEF Replace, Progress, Writes
  <1>3. /\ checkpoint' \in Record
        /\ checkpoint = None => Completed(checkpoint') = {}
        /\ checkpoint # None => checkpoint'.ranking = checkpoint.ranking
        /\ checkpoint'.status = "complete" => checkpoint # None /\ checkpoint.status = "complete"
    <2>1. checkpoint \in Record \cup {None}
      BY DEF ScreeningIInv, ScreeningTypeOK
    <2>2. /\ Begun(checkpoint) \in Record
          /\ checkpoint = None => Completed(Begun(checkpoint)) = {}
          /\ checkpoint # None => Begun(checkpoint).ranking = checkpoint.ranking
          /\ Begun(checkpoint).status = "complete" =>
               checkpoint # None /\ checkpoint.status = "complete"
      BY <2>1, BegunSound
    <2> QED
      BY <1>2, <2>2
  <1>4. r \in Invocation /\ r.operation = "begin" /\ r.known = Completed(checkpoint')
    BY <1>1, <1>2 DEF InvocationSound, Invocation, Completed
  <1>5. run' = [run EXCEPT ![p] = x]
    BY DEF Replace
  <1> HIDE DEF r
  <1>6. /\ x.operation = "begin" /\ x.known = Completed(checkpoint') /\ x.ranking = None
        /\ x.pc \in {"get", "search"}
        /\ x.pc = "get" => \A y \in Questions : y >= 1 => y \in Completed(checkpoint')
        /\ x.pc = "search" =>
             /\ x.question \in Questions \ Completed(checkpoint')
             /\ \A y \in Questions : y >= 1 /\ y < x.question => y \in Completed(checkpoint')
    BY <1>4, FromSound
  <1> HIDE DEF x
  <1>7. Progress(x, checkpoint')
    <2>1. \A y \in Questions : y \in Nat /\ y >= 1
      BY ScreeningAssumption DEF Questions
    <2>2. Completed(checkpoint') \subseteq Questions
      BY DEF Completed
    <2>3. x.pc = "get" => Completed(checkpoint') = Questions
      BY <1>6, <2>1, <2>2
    <2>4. x.pc = "search" => Completed(checkpoint') =
                               x.known \cup {y \in Questions : y < x.question}
      BY <1>6, <2>1
    <2> QED
      BY <1>6, <2>3, <2>4 DEF Progress, InLoop
  <1>8. Agree(checkpoint', evaluations')
    BY <1>3, ScreeningAssumption DEF Replace, Agree, Lone, Completed
  <1>9. \A q \in Questions : InCheckpoint(checkpoint', q) = InCheckpoint(checkpoint, q)
    BY <1>3, ScreeningAssumption DEF InCheckpoint, Completed
  <1>10. \A q \in Questions : Pending(x, q) = 0 /\ Pending(run[p], q) = 0
    BY <1>1, <1>6 DEF Pending, InvocationSound
  <1>11. \A q \in Questions :
            searched'[q] = lost'[q] + InCheckpoint(checkpoint', q) + Pending(x, q)
    BY <1>9, <1>10 DEF Lone, Replace
  <1>12. ~broken' => leftovers' = {} /\ (x.pc = "idle" => ~Stranded(checkpoint'))
    BY <1>6 DEF Lone, Replace
  <1> QED
    BY <1>5, <1>7, <1>8, <1>11, <1>12, LoneGoesOn

LEMMA LoneReplacePersist ==
    ASSUME ScreeningIInv, NEW p \in Processes, Lone(p), Replace(p),
           run[p].operation = "persist"
    PROVE  Lone(p)'
  <1> DEFINE q == run[p].question
             x == From(run[p], q + 1)
  <1>1. /\ InvocationSound(run[p], checkpoint) /\ Active(p)
        /\ run[p].pc = "replace" /\ Progress(run[p], checkpoint)
    BY SoundAt DEF Replace, Active, At, Lone
  <1>2. /\ q \in Questions /\ q \in Nat /\ q + 1 \in Nat /\ run[p] \in Invocation
        /\ run[p].ranking \in Rankings /\ checkpoint \in Record
    BY <1>1, ScreeningAssumption
       DEF InvocationSound, Invocation, ScreeningIInv, ScreeningTypeOK, Questions
  <1>3. q \notin Completed(checkpoint)
        /\ Completed(checkpoint) = run[p].known \cup {y \in Questions : y < q}
    BY <1>1 DEF Progress, InLoop
  <1>4. checkpoint' = Persisted(checkpoint, q, run[p].ranking)
    BY <1>1 DEF Replace, Progress, Writes
  <1>5. run' = [run EXCEPT ![p] = x]
    BY DEF Replace
  <1> HIDE DEF q
  <1>6. /\ checkpoint' \in Record /\ checkpoint'.status = checkpoint.status
        /\ Completed(checkpoint') = Completed(checkpoint) \cup {q}
    BY <1>2, <1>4, PersistedSound
  <1>7. /\ x.operation = "persist" /\ x.known = run[p].known /\ x.ranking = None
        /\ x.pc \in {"get", "search"}
        /\ x.pc = "get" => \A y \in Questions : y >= q + 1 => y \in run[p].known
        /\ x.pc = "search" =>
             /\ x.question \in Questions \ run[p].known /\ x.question >= q + 1
             /\ \A y \in Questions : y >= q + 1 /\ y < x.question => y \in run[p].known
    BY <1>2, FromSound
  <1> HIDE DEF x
  <1>8. Progress(x, checkpoint')
    <2>1. \A y \in Questions : y \in Nat
      BY ScreeningAssumption DEF Questions
    <2>2. run[p].known \subseteq Questions
      BY <1>2 DEF Invocation
    <2>0. q \in Nat
      BY <1>2
    <2>a. \A y \in Questions : y < q \/ y = q \/ y >= q + 1
      BY <2>0, <2>1
    <2>b. /\ Completed(checkpoint') \subseteq Questions
          /\ \A y \in Questions : y \in Completed(checkpoint') <=>
                                   y \in run[p].known \/ y < q \/ y = q
      BY <1>2, <1>3, <1>6, <2>2
    <2>3. x.pc = "get" => Completed(checkpoint') = Questions
      BY <1>7, <2>a, <2>b
    <2>4. ASSUME x.pc = "search"
          PROVE  /\ x.question \notin Completed(checkpoint')
                 /\ Completed(checkpoint') = x.known \cup {y \in Questions : y < x.question}
      <3>1. /\ x.question \in Questions \ run[p].known /\ x.question >= q + 1
            /\ x.question \in Nat /\ x.known = run[p].known
            /\ \A y \in Questions : y >= q + 1 /\ y < x.question => y \in run[p].known
        BY <1>7, <2>1, <2>4
      <3>2. x.question \notin Completed(checkpoint')
        BY <1>2, <2>b, <3>1
      <3>3. \A y \in Questions : y \in Completed(checkpoint') <=>
                                  y \in x.known \/ y < x.question
        <4>1. ASSUME NEW y \in Questions PROVE y <= q => y < x.question
          BY <2>0, <2>1, <3>1
        <4>2. ASSUME NEW y \in Questions, y < x.question
              PROVE  y \in run[p].known \/ y < q \/ y = q
          BY <2>a, <3>1, <4>2
        <4> QED
          BY <1>2, <2>1, <2>b, <3>1, <4>1, <4>2
      <3> QED
        BY <2>2, <2>b, <3>1, <3>2, <3>3
    <2> QED
      BY <1>7, <2>3, <2>4 DEF Progress, InLoop
  <1>9. evaluations = {} /\ evaluations' = evaluations
    <2>1. ASSUME NEW e \in evaluations PROVE FALSE
      <3>1. checkpoint.ranking = e /\ e \in Evaluation
        BY DEF Lone, Agree, ScreeningIInv, ScreeningTypeOK
      <3> QED
        BY <1>2, <1>3, <3>1, ScreeningAssumption DEF Completed, Evaluation
    <2> QED
      BY <2>1 DEF Replace
  <1>10. Agree(checkpoint', evaluations')
    <2>1. checkpoint'.status = "complete" => Completed(checkpoint') = Questions
      BY <1>2, <1>6, ScreeningAssumption DEF Lone, Agree
    <2> QED
      BY <1>9, <2>1 DEF Agree
  <1>11. ASSUME NEW y \in Questions
         PROVE  searched'[y] = lost'[y] + InCheckpoint(checkpoint', y) + Pending(x, y)
    <2>1. searched[y] = lost[y] + InCheckpoint(checkpoint, y) + Pending(run[p], y)
      BY DEF Lone
    <2>2. Pending(x, y) = 0 /\ Pending(run[p], y) = IF y = q THEN 1 ELSE 0
      BY <1>1, <1>7 DEF Pending, InvocationSound, q
    <2>3. \A z \in Questions : /\ z \in Completed(checkpoint) <=> checkpoint.ranking[z] # None
                               /\ z \in Completed(checkpoint') <=> checkpoint'.ranking[z] # None
      BY DEF Completed
    <2>4. /\ InCheckpoint(checkpoint, y) = IF y \in Completed(checkpoint) THEN 1 ELSE 0
          /\ InCheckpoint(checkpoint', y) = IF y \in Completed(checkpoint') THEN 1 ELSE 0
      BY <1>2, <1>6, <2>3, ScreeningAssumption DEF InCheckpoint
    <2>5. searched'[y] = searched[y] /\ lost'[y] = lost[y] /\ lost[y] \in Nat
      BY DEF Replace, ScreeningIInv, ScreeningTypeOK
    <2>6. CASE y = q
      BY <1>3, <1>6, <2>1, <2>2, <2>4, <2>5, <2>6
    <2>7. CASE y # q
      BY <1>6, <2>1, <2>2, <2>4, <2>5, <2>7
    <2> QED
      BY <2>6, <2>7
  <1>12. ~broken' => leftovers' = {} /\ (x.pc = "idle" => ~Stranded(checkpoint'))
    BY <1>7 DEF Lone, Replace
  <1> QED
    BY <1>5, <1>8, <1>10, <1>11, <1>12, LoneGoesOn

LEMMA LoneReplaceStatus ==
    ASSUME ScreeningIInv, NEW p \in Processes, Lone(p), Replace(p),
           run[p].operation \in {"mark", "finish"}
    PROVE  Lone(p)'
  <1>1. /\ InvocationSound(run[p], checkpoint) /\ Active(p)
        /\ run[p].pc = "replace" /\ Progress(run[p], checkpoint)
    BY SoundAt DEF Replace, Active, At, Lone
  <1>2. checkpoint \in Record
    BY <1>1 DEF InvocationSound, ScreeningIInv, ScreeningTypeOK
  <1>3. /\ checkpoint' = [checkpoint EXCEPT !.status =
                            IF run[p].operation = "mark" THEN "interrupted" ELSE "complete"]
        /\ run' = [run EXCEPT ![p] = Idle]
    BY <1>1 DEF Replace, Progress, Writes
  <1>4. /\ checkpoint' \in Record /\ checkpoint'.ranking = checkpoint.ranking
        /\ checkpoint'.status =
             IF run[p].operation = "mark" THEN "interrupted" ELSE "complete"
    BY <1>2, <1>3, StatusSound
  <1>5. Completed(checkpoint') = Completed(checkpoint)
    BY <1>4 DEF Completed
  <1>6. Agree(checkpoint', evaluations')
    <2>1. checkpoint'.status = "complete" => Completed(checkpoint') = Questions
      BY <1>1, <1>4, <1>5 DEF Progress
    <2>2. \A e \in evaluations' : checkpoint'.ranking = e
      BY <1>1, <1>4 DEF Progress, Replace, Lone, Agree
    <2> QED
      BY <1>4, <2>1, <2>2, ScreeningAssumption DEF Agree
  <1>7. \A q \in Questions : Pending(Idle, q) = 0 /\ Pending(run[p], q) = 0
    BY <1>1 DEF Pending, InvocationSound, Idle
  <1>8. \A q \in Questions :
           searched'[q] = lost'[q] + InCheckpoint(checkpoint', q) + Pending(Idle, q)
    BY <1>2, <1>4, <1>7, ScreeningAssumption DEF Lone, Replace, InCheckpoint
  <1>9. ~Stranded(checkpoint') /\ (~broken' => leftovers' = {}) /\ Idle.pc = "idle"
    BY <1>4 DEF Stranded, Lone, Replace, Idle
  <1> QED
    BY <1>3, <1>6, <1>8, <1>9, LoneGoesOn

LEMMA AloneStep == ScreeningIInv /\ AloneIInv /\ [Next]_vars => AloneIInv'
  <1> SUFFICES ASSUME ScreeningIInv, AloneIInv, [Next]_vars PROVE AloneIInv'
    OBVIOUS
  <1>1. CASE UNCHANGED vars
    BY <1>1 DEF vars, AloneIInv, SearchedOnce, Kept, Active, At
  <1>2. ASSUME NEW p \in Processes, Step(p) PROVE AloneIInv'
    <2> SUFFICES ASSUME ~overlapped' PROVE Lone(p)'
      <3>1. ~overlapped' => Lone(p)'
        OBVIOUS
      <3>2. overlapped' => AloneIInv'
        BY DEF AloneIInv
      <3> QED
        BY <3>1, <3>2, LoneIsAlone
    <2>1. CASE Start(p)
      <3> DEFINE x == [pc |-> "open", operation |-> "begin", known |-> {}, question |-> None,
                       ranking |-> None, record |-> None, evaluated |-> None]
      <3>1. ~overlapped /\ \A q \in Processes : ~Active(q)
        BY <2>1 DEF Start
      <3>2. Lone(p)
        BY <3>1, AloneIsLone
      <3>3. Progress(x, checkpoint') /\ x.pc = "open" /\ \A q \in Questions : Pending(x, q) = 0
        BY DEF Progress, InLoop, Pending
      <3>4. /\ run' = [run EXCEPT ![p] = x]
            /\ UNCHANGED <<checkpoint, leftovers, searched, lost, evaluations, broken>>
        BY <2>1 DEF Start
      <3> HIDE DEF x
      <3>5. \A q \in Questions : Pending(run[p], q) = 0
        BY <2>1 DEF Pending, Start, At
      <3>6. \A q \in Questions :
              searched'[q] = lost'[q] + InCheckpoint(checkpoint', q) + Pending(x, q)
        BY <3>2, <3>3, <3>4, <3>5 DEF Lone
      <3>7. Agree(checkpoint', evaluations') /\ (~broken' => leftovers' = {})
        BY <3>2, <3>4 DEF Lone
      <3> QED
        BY <3>2, <3>3, <3>4, <3>6, <3>7, LoneGoesOn
    <2>2. CASE ~Start(p)
      <3>1. Active(p) /\ ~overlapped
        BY <1>2, <2>2 DEF Step, Open, Refuse, WriteFails, Replace, Search, SearchFails,
                          Evaluate, Crash, Active, At
      <3>2. Lone(p)
        <4>1. \A q \in Processes \ {p} : ~Active(q)
          BY <3>1 DEF AloneIInv
        <4> QED
          BY <3>1, <4>1, AloneIsLone
      <3>3. InvocationSound(run[p], checkpoint) /\ Progress(run[p], checkpoint)
        BY <3>1, <3>2, SoundAt DEF Lone
      <3>4. CASE Open(p)
        <4> DEFINE x == [run[p] EXCEPT !.pc = "replace", !.record = Changed(p)]
        <4>1. /\ run' = [run EXCEPT ![p] = x]
              /\ UNCHANGED <<checkpoint, leftovers, searched, lost, evaluations, broken>>
              /\ run[p].pc = "open"
          BY <3>4 DEF Open, At
        <4>2. Changed(p) = Writes(run[p], checkpoint)
          BY DEF Changed, Writes
        <4>3. /\ x.pc = "replace" /\ x.record = Changed(p) /\ x.operation = run[p].operation
              /\ x.question = run[p].question /\ x.ranking = run[p].ranking
              /\ x.known = run[p].known /\ x.evaluated = run[p].evaluated
          BY <3>3 DEF InvocationSound, Invocation
        <4> HIDE DEF x
        <4>4. Writes(x, checkpoint) = Writes(run[p], checkpoint)
          BY <4>3 DEF Writes
        <4>5. Progress(x, checkpoint')
          BY <3>3, <4>1, <4>2, <4>3, <4>4 DEF Progress, InLoop
        <4>6. \A q \in Questions : Pending(x, q) = Pending(run[p], q)
          BY <4>1, <4>3 DEF Pending
        <4>7. \A q \in Questions :
                searched'[q] = lost'[q] + InCheckpoint(checkpoint', q) + Pending(x, q)
          BY <3>2, <4>1, <4>6 DEF Lone
        <4>8. Agree(checkpoint', evaluations') /\ (~broken' => leftovers' = {})
          BY <3>2, <4>1 DEF Lone
        <4> QED
          BY <3>2, <4>1, <4>3, <4>5, <4>7, <4>8, LoneGoesOn
      <3>5. CASE Refuse(p)
        BY <3>1, <3>2, <3>5, LoneRaise DEF Refuse, Lone
      <3>6. CASE WriteFails(p)
        BY <3>1, <3>2, <3>6, LoneRaise DEF WriteFails
      <3>7. CASE SearchFails(p)
        BY <3>1, <3>2, <3>7, LoneRaise DEF SearchFails, Lone
      <3>8. CASE Replace(p)
        <4>1. run[p].operation \in {"begin", "persist", "mark", "finish"}
          BY <3>3 DEF InvocationSound, Invocation
        <4> QED
          BY <3>2, <3>8, <4>1, LoneReplaceBegin, LoneReplacePersist, LoneReplaceStatus
      <3>9. CASE Search(p)
        <4> PICK v \in Rankings :
              run' = [run EXCEPT ![p].pc = "open", ![p].operation = "persist", ![p].ranking = v]
          BY <3>9 DEF Search
        <4> DEFINE x == [run[p] EXCEPT !.pc = "open", !.operation = "persist", !.ranking = v]
        <4>1. /\ run' = [run EXCEPT ![p] = x] /\ run[p].pc = "search"
              /\ searched' = [searched EXCEPT ![run[p].question] = @ + 1]
              /\ UNCHANGED <<checkpoint, leftovers, lost, evaluations, broken>>
          BY <3>9 DEF Search, At
        <4>2. /\ x.pc = "open" /\ x.operation = "persist" /\ x.ranking = v /\ v # None
              /\ x.question = run[p].question /\ x.known = run[p].known
          BY <3>3, ScreeningAssumption DEF InvocationSound, Invocation
        <4> HIDE DEF x
        <4>3. Progress(x, checkpoint')
          BY <3>3, <4>1, <4>2 DEF Progress, InLoop
        <4>4. ASSUME NEW q \in Questions
              PROVE  searched'[q] = lost'[q] + InCheckpoint(checkpoint', q) + Pending(x, q)
          <5>1. searched[q] = lost[q] + InCheckpoint(checkpoint, q) + Pending(run[p], q)
            BY <3>2 DEF Lone
          <5>2. Pending(run[p], q) = 0 /\ Pending(x, q) = IF q = run[p].question THEN 1 ELSE 0
            BY <3>3, <4>1, <4>2 DEF Pending, InvocationSound
          <5>3. searched'[q] = IF q = run[p].question THEN searched[q] + 1 ELSE searched[q]
            BY <4>1 DEF ScreeningIInv, ScreeningTypeOK
          <5>4. lost[q] \in Nat /\ InCheckpoint(checkpoint, q) \in Nat
            BY DEF InCheckpoint, ScreeningIInv, ScreeningTypeOK
          <5> QED
            BY <4>1, <5>1, <5>2, <5>3, <5>4
        <4>5. Agree(checkpoint', evaluations') /\ (~broken' => leftovers' = {})
          BY <3>2, <4>1 DEF Lone
        <4> QED
          BY <3>2, <4>1, <4>2, <4>3, <4>4, <4>5, LoneGoesOn
      <3>10. CASE Evaluate(p)
        <4> DEFINE x == [run[p] EXCEPT !.pc = "open", !.operation = "finish",
                                       !.evaluated = checkpoint.ranking]
        <4>1. Completed(checkpoint) = Questions
          BY <3>3, <3>10 DEF Progress, Evaluate, At
        <4>2. /\ run' = [run EXCEPT ![p] = x] /\ run[p].pc = "get"
              /\ UNCHANGED <<checkpoint, leftovers, searched, lost, evaluations, broken>>
          BY <3>10, <4>1 DEF Evaluate, At
        <4>3. /\ x.pc = "open" /\ x.operation = "finish"
              /\ x.evaluated = checkpoint.ranking /\ x.ranking = run[p].ranking
          BY <3>3 DEF InvocationSound, Invocation
        <4> HIDE DEF x
        <4>4. Progress(x, checkpoint')
          BY <4>1, <4>2, <4>3 DEF Progress, InLoop
        <4>5. \A q \in Questions : Pending(x, q) = 0 /\ Pending(run[p], q) = 0
          BY <3>3, <4>2, <4>3 DEF Pending, InvocationSound
        <4>6. \A q \in Questions :
                searched'[q] = lost'[q] + InCheckpoint(checkpoint', q) + Pending(x, q)
          BY <3>2, <4>2, <4>5 DEF Lone
        <4>7. Agree(checkpoint', evaluations') /\ (~broken' => leftovers' = {})
          BY <3>2, <4>2 DEF Lone
        <4> QED
          BY <3>2, <4>2, <4>3, <4>4, <4>6, <4>7, LoneGoesOn
      <3>11. CASE Crash(p)
        <4>1. /\ run' = [run EXCEPT ![p] = Idle] /\ broken'
              /\ UNCHANGED <<checkpoint, searched, evaluations>>
          BY <3>11 DEF Crash, End
        <4>2. \A q \in Questions :
                searched'[q] = lost'[q] + InCheckpoint(checkpoint', q) + Pending(Idle, q)
          BY <3>1, <3>2, <3>11, <4>1, RankingLost DEF Crash
        <4>3. Agree(checkpoint', evaluations') /\ Idle.pc = "idle"
          BY <3>2, <4>1 DEF Lone, Idle
        <4> QED
          BY <3>2, <4>1, <4>2, <4>3, LoneGoesOn
      <3> QED
        BY <1>2, <2>2, <3>4, <3>5, <3>6, <3>7, <3>8, <3>9, <3>10, <3>11 DEF Step
    <2> QED
      BY <2>1, <2>2
  <1> QED
    BY <1>1, <1>2 DEF Next

LEMMA AloneInit == Init => AloneIInv
  <1> SUFFICES ASSUME Init PROVE AloneIInv
    OBVIOUS
  <1>1. \A p \in Processes : ~Active(p)
    BY DEF Init, Active, At, Idle
  <1> QED
    BY <1>1 DEF Init, AloneIInv, Agree, SearchedOnce, Kept, Stranded

(* The inductive invariant of a screening nobody overlaps with. *)
THEOREM ScreeningInvariant == Spec => [](ScreeningIInv /\ AloneIInv)
  BY ScreeningInit, ScreeningStep, AloneInit, AloneStep, PTL DEF Spec

(* A resumed run never searches again what it has (persist_question,       *)
(* RetrievalScreenRunner.run).                                             *)
THEOREM SearchedOnceHolds == Spec => []SearchedOnce
  <1>1. AloneIInv => SearchedOnce
    BY DEF AloneIInv, SearchedOnce
  <1> QED
    BY <1>1, ScreeningInvariant, PTL

(* All invocations that return, return the evaluation of the checkpoint    *)
(* (finish).                                                               *)
THEOREM EvaluationsAgreeHolds == Spec => []EvaluationsAgree
  <1>1. AloneIInv => EvaluationsAgree
    BY DEF AloneIInv, EvaluationsAgree, Agree
  <1> QED
    BY <1>1, ScreeningInvariant, PTL

(* Without a fault a run nobody works on is not left running               *)
(* (mark_interrupted).                                                     *)
THEOREM StrandedOnlyByFaultHolds == Spec => []StrandedOnlyByFault
  <1>1. AloneIInv => StrandedOnlyByFault
    BY DEF AloneIInv, StrandedOnlyByFault, Stranded
  <1> QED
    BY <1>1, ScreeningInvariant, PTL

-----------------------------------------------------------------------------
(* The products and the sums of reciprocal rank fusion are folds, of which *)
(* FoldFacts says what they go through.                                    *)
TimesFold == INSTANCE FoldFacts WITH Op <- Times
PlusFold == INSTANCE FoldFacts WITH Op <- Plus

(* FoldFacts also knows the places of a finite set's members in an order;    *)
(* what is finite there, and how large, is so here.                        *)
LEMMA SameSizes ==
    /\ \A S : TimesFold!IsFiniteSet(S) = IsFiniteSet(S)
    /\ \A S : TimesFold!Cardinality(S) = Cardinality(S)
<1>1. \A S : TimesFold!IsFiniteSet(S) = IsFiniteSet(S)
  BY DEF IsFiniteSet, TimesFold!IsFiniteSet
<1>2. \A S : TimesFold!Cardinality(S) = Cardinality(S)
  BY DEF Cardinality, TimesFold!Cardinality
<1> QED BY <1>1, <1>2

(* The largest and the smallest member of a bounded set.                   *)
LEMMA MaxOf ==
    ASSUME NEW n \in Nat, NEW S \in SUBSET (0..n), S # {}
    PROVE  Max(S) \in S /\ \A y \in S : Max(S) >= y
<1> DEFINE T == {i + 1 : i \in S}
<1>1. T \in SUBSET (1..(n + 1)) /\ T # {} /\ n + 1 \in Nat
  <2>1. PICK i \in S : TRUE
    BY Zenon
  <2>2. i + 1 \in T
    BY <2>1
  <2>3. \A j \in S : j \in 0..n
    OBVIOUS
  <2> QED BY <2>2, <2>3
<1>2. PICK x \in T : \A y \in T : x >= y
  <2> HIDE DEF T
  <2> QED BY <1>1, TimesFold!LargestIn
<1>3. x - 1 \in S /\ \A y \in S : x - 1 >= y
  BY <1>1, <1>2
<1> QED BY <1>3 DEF Max

LEMMA MinOf ==
    ASSUME NEW n \in Nat, NEW S \in SUBSET (0..n), S # {}
    PROVE  Min(S) \in S /\ \A y \in S : Min(S) =< y
<1> DEFINE T == {n - i : i \in S}
<1>1. T \in SUBSET (0..n) /\ T # {}
  <2>1. PICK i \in S : TRUE
    BY Zenon
  <2>2. n - i \in T
    BY <2>1
  <2>3. \A j \in S : j \in 0..n
    OBVIOUS
  <2> QED BY <2>2, <2>3
<1>2. PICK x \in T : \A y \in T : x >= y
  <2> HIDE DEF T
  <2> QED BY <1>1, MaxOf
<1>3. n - x \in S /\ \A y \in S : n - x =< y
  <2>1. PICK i \in S : x = n - i
    BY <1>2
  <2>2. \A j \in S : j \in 0..n /\ n - j \in T
    OBVIOUS
  <2>3. n - x = i
    BY <2>1, <2>2
  <2>4. \A y \in S : x >= n - y
    BY <1>2, <2>2
  <2> QED BY <2>1, <2>2, <2>3, <2>4
<1> QED BY <1>3 DEF Min

(* A strictly increasing function of 1..n into itself is the identity.     *)
LEMMA IncreasingIsIdentity ==
    ASSUME NEW n \in Nat, NEW f \in [1..n -> 1..n],
           \A i, j \in 1..n : i < j => f[i] < f[j]
    PROVE  \A i \in 1..n : f[i] = i
<1> DEFINE Up == {i \in 0..n : i \in 1..n => f[i] >= i}
           Down == {i \in 0..n : i < n => f[n - i] <= n - i}
<1>1. \A i \in 0..n : i \in Up
  <2>1. 0 \in Up
    OBVIOUS
  <2>2. ASSUME NEW i \in 1..n, i - 1 \in Up PROVE i \in Up
    <3>1. i > 1 => f[i - 1] >= i - 1 /\ f[i - 1] < f[i] /\ f[i - 1] \in Int
      BY <2>2
    <3>2. f[i] \in 1..n
      OBVIOUS
    <3> QED BY <3>1, <3>2
  <2> HIDE DEF Up
  <2> QED BY <2>1, <2>2, TimesFold!IntervalInduction
<1>2. \A i \in 0..n : i \in Down
  <2>1. 0 \in Down
    OBVIOUS
  <2>2. ASSUME NEW i \in 1..n, i - 1 \in Down PROVE i \in Down
    <3>1. i < n => /\ f[n - (i - 1)] <= n - (i - 1) /\ f[n - i] < f[n - (i - 1)]
                   /\ f[n - (i - 1)] \in Int /\ f[n - i] \in Int
      <4>1. i < n => n - i \in 1..n /\ n - (i - 1) \in 1..n /\ n - i < n - (i - 1)
        OBVIOUS
      <4> QED BY <2>2, <4>1
    <3> QED BY <3>1
  <2> HIDE DEF Down
  <2> QED BY <2>1, <2>2, TimesFold!IntervalInduction
<1>3. ASSUME NEW i \in 1..n PROVE f[i] = i
  <2>1. i \in Up /\ n - i \in Down /\ f[i] \in Int /\ n - (n - i) = i
    BY <1>1, <1>2
  <2> QED BY <2>1
<1> QED BY <1>3

-----------------------------------------------------------------------------
(* Reciprocal ranks, over a common denominator.                            *)
(* Of two equal products the one with the smaller right factor has the     *)
(* larger left one.                                                        *)
LEMMA TimesOnRight ==
    ASSUME NEW x \in Nat \ {0}, NEW y \in Nat \ {0}, NEW a \in Nat \ {0}, NEW b \in Nat \ {0},
           x * a = y * b, a < b
    PROVE  x > y
<1>1. SUFFICES ASSUME x <= y PROVE FALSE
  OBVIOUS
<1>2. PICK u \in Nat : y = x + u
  <2>1. y - x \in Nat /\ y = x + (y - x)
    BY <1>1
  <2> QED BY <2>1
<1>3. PICK w \in Nat \ {0} : b = a + w
  <2>1. b - a \in Nat \ {0} /\ b = a + (b - a)
    OBVIOUS
  <2> QED BY <2>1
<1>4. y * b = x * a + x * w + u * b
  <2>1. y * b = x * b + u * b
    BY <1>2
  <2>2. x * b = x * a + x * w
    BY <1>3
  <2>3. x * b \in Int /\ u * b \in Int /\ x * a \in Int /\ x * w \in Int
    OBVIOUS
  <2> QED BY <2>1, <2>2, <2>3
<1>5. x * w \in Nat \ {0} /\ u * b \in Nat /\ x * a \in Nat
  OBVIOUS
<1> QED BY <1>4, <1>5

Product(k, n, rank) ==
    TimesFold!Fold([k |-> k, rank |-> rank], 1, [i \in 1..n |-> i])

(* A term is what its fold computes.                                       *)
LEMMA TermIsFold ==
    ASSUME NEW k, NEW n, NEW weight, NEW rank
    PROVE  Term(k, n, weight, rank) = IF rank = Unranked THEN 0 ELSE weight * Product(k, n, rank)
BY DEF Term, Product, FoldLeft, MapThenFoldSet, Max, TimesFold!Fold, TimesFold!Folds,
       TimesFold!Largest

(* What is left out of the product divides the whole of it.                *)
LEMMA ProductOfRest ==
    ASSUME NEW k \in Nat, NEW n \in Nat, NEW rank \in 1..n
    PROVE  /\ Product(k, n, rank) \in Nat \ {0}
           /\ Product(k, n, 0) = Product(k, n, rank) * (k + rank)
<1> DEFINE seq == [i \in 1..n |-> i]
           all == [k |-> k, rank |-> 0]
           rest == [k |-> k, rank |-> rank]
<1>1. DOMAIN seq = 1..n
  OBVIOUS
<1>2. PICK v : TimesFold!Steps(v, all, 1, n, seq) /\ v[n] = Product(k, n, 0)
  BY <1>1, TimesFold!FoldTrace DEF Product
<1>3. PICK w : TimesFold!Steps(w, rest, 1, n, seq) /\ w[n] = Product(k, n, rank)
  BY <1>1, TimesFold!FoldTrace DEF Product
<1>4. v[0] = 1 /\ \A i \in 1..n : v[i] = v[i - 1] * (k + i)
  BY <1>2 DEF TimesFold!Steps, Times
<1>5. w[0] = 1 /\ \A i \in 1..n : w[i] = IF i = rank THEN w[i - 1] ELSE w[i - 1] * (k + i)
  BY <1>3 DEF TimesFold!Steps, Times
<1> DEFINE T == {i \in 0..n : /\ w[i] \in Nat \ {0}
                              /\ v[i] = IF i < rank THEN w[i] ELSE w[i] * (k + rank)}
<1>6. \A i \in 0..n : i \in T
  <2>1. 0 \in T
    BY <1>4, <1>5
  <2>2. ASSUME NEW i \in 1..n, i - 1 \in T PROVE i \in T
    <3>1. w[i - 1] \in Nat \ {0} /\ k + i \in Nat \ {0} /\ k + rank \in Nat \ {0}
      BY <2>2
    <3>2. w[i - 1] * (k + i) \in Nat \ {0}
      BY <3>1
    <3>3. (w[i - 1] * (k + rank)) * (k + i) = (w[i - 1] * (k + i)) * (k + rank)
      <4>1. \A x, y, z \in Int : (x * y) * z = (x * z) * y
        OBVIOUS
      <4>2. w[i - 1] \in Int /\ k + i \in Int /\ k + rank \in Int
        BY <3>1
      <4> QED BY <4>1, <4>2
    <3>4. v[i - 1] = IF i - 1 < rank THEN w[i - 1] ELSE w[i - 1] * (k + rank)
      BY <2>2
    <3>5. v[i] = v[i - 1] * (k + i)
      BY <1>4
    <3>6. CASE i < rank
      <4>1. w[i] = w[i - 1] * (k + i) /\ v[i - 1] = w[i - 1]
        BY <1>5, <3>4, <3>6
      <4> QED BY <3>2, <3>5, <3>6, <4>1
    <3>7. CASE i = rank
      <4>1. w[i] = w[i - 1] /\ v[i - 1] = w[i - 1]
        BY <1>5, <3>4, <3>7
      <4> QED BY <3>1, <3>5, <3>7, <4>1
    <3>8. CASE i > rank
      <4>1. w[i] = w[i - 1] * (k + i) /\ v[i - 1] = w[i - 1] * (k + rank)
        BY <1>5, <3>4, <3>8
      <4>2. v[i] = w[i] * (k + rank)
        BY <3>3, <3>5, <4>1
      <4> QED BY <3>2, <3>8, <4>1, <4>2
    <3> QED BY <3>6, <3>7, <3>8
  <2> HIDE DEF T
  <2> QED BY <2>1, <2>2, TimesFold!IntervalInduction
<1>7. n \in T
  BY <1>6
<1> QED BY <1>2, <1>3, <1>7

(* The better the rank that is left out, the larger the product of the     *)
(* rest.                                                                   *)
LEMMA ProductDecreases ==
    ASSUME NEW k \in Nat, NEW n \in Nat, NEW r \in 1..n, NEW s \in 1..n, r < s
    PROVE  Product(k, n, r) > Product(k, n, s)
<1>1. /\ Product(k, n, r) \in Nat \ {0} /\ Product(k, n, s) \in Nat \ {0}
      /\ Product(k, n, r) * (k + r) = Product(k, n, s) * (k + s)
  BY ProductOfRest
<1>2. k + r \in Nat \ {0} /\ k + s \in Nat \ {0} /\ k + r < k + s
  OBVIOUS
<1> HIDE DEF Product
<1> QED BY <1>1, <1>2, TimesOnRight

(* A better rank has the larger term, and no rank the least.               *)
LEMMA TermsCompare ==
    ASSUME NEW k \in Nat, NEW n \in Nat, NEW weight \in Nat \ {0}
    PROVE  /\ \A r \in 0..n : Term(k, n, weight, r) \in Nat
           /\ Term(k, n, weight, 0) = 0
           /\ \A r \in 1..n : Term(k, n, weight, r) > 0
           /\ \A r, s \in 1..n : r < s => Term(k, n, weight, r) > Term(k, n, weight, s)
<1>1. Term(k, n, weight, 0) = 0
  BY TermIsFold DEF Unranked
<1>2. \A r \in 1..n : Term(k, n, weight, r) = weight * Product(k, n, r) /\ Product(k, n, r) \in Nat \ {0}
  BY TermIsFold, ProductOfRest DEF Unranked
<1>3. \A r \in 1..n : Term(k, n, weight, r) \in Nat \ {0}
  BY <1>2
<1>4. ASSUME NEW r \in 1..n, NEW s \in 1..n, r < s
      PROVE  Term(k, n, weight, r) > Term(k, n, weight, s)
  <2>1. Product(k, n, r) > Product(k, n, s)
    BY <1>4, ProductDecreases
  <2>2. \A x, y \in Nat \ {0} : x > y => weight * x > weight * y
    <3>1. SUFFICES ASSUME NEW x \in Nat \ {0}, NEW y \in Nat \ {0}, x > y
                   PROVE  weight * x > weight * y
      OBVIOUS
    <3>2. PICK u \in Nat \ {0} : x = y + u
      <4>1. x - y \in Nat \ {0} /\ x = y + (x - y)
        BY <3>1
      <4> QED BY <4>1
    <3>3. weight * x = weight * y + weight * u
      BY <3>2
    <3>4. weight * u \in Nat \ {0} /\ weight * y \in Nat
      OBVIOUS
    <3> QED BY <3>3, <3>4
  <2> QED BY <1>2, <2>1, <2>2
<1> QED BY <1>1, <1>3, <1>4

-----------------------------------------------------------------------------
(* The fused ranking.                                                      *)
(* The rank of a chunk in a ranking is the position it has there.          *)
LEMMA RankOf ==
    ASSUME NEW r, Ranking(r), NEW c
    PROVE  /\ Len(r) \in Nat /\ DOMAIN r = 1..Len(r)
           /\ Contains(r, c) <=> c \in Range(r)
           /\ c \in Range(r) => RankIn(r, c) \in 1..Len(r) /\ r[RankIn(r, c)] = c
           /\ c \notin Range(r) => RankIn(r, c) = 0
<1>1. r \in Seq(Nat) /\ Len(r) \in Nat /\ DOMAIN r = 1..Len(r)
  BY DEF Ranking
<1>2. Contains(r, c) <=> c \in Range(r)
  BY <1>1 DEF Contains, Range
<1>3. ASSUME c \in Range(r) PROVE RankIn(r, c) \in 1..Len(r) /\ r[RankIn(r, c)] = c
  <2> DEFINE I == {i \in 1..Len(r) : r[i] = c}
  <2>1. I # {}
    BY <1>1, <1>3 DEF Range
  <2>2. RankIn(r, c) = Min(I)
    BY <1>2, <1>3, <2>1 DEF RankIn, SelectInSeq
  <2>3. I \in SUBSET (0..Len(r)) /\ I \in SUBSET (1..Len(r))
    BY <1>1
  <2>4. Min(I) \in I
    <3> HIDE DEF I
    <3> QED BY <1>1, <2>1, <2>3, MinOf
  <2> QED BY <2>2, <2>4
<1>4. c \notin Range(r) => RankIn(r, c) = 0
  BY <1>2 DEF RankIn, Unranked
<1> QED BY <1>1, <1>2, <1>3, <1>4

Branches(q) == <<q.dense, q.sparse>>

(* No branch is longer than the common denominator allows for.             *)
LEMMA LongestOf ==
    ASSUME NEW q, Asked(q), NEW n, n = Longest(Branches(q))
    PROVE  n \in Nat /\ Len(q.dense) <= n /\ Len(q.sparse) <= n
<1> DEFINE S == {Len(r) : r \in Range(Branches(q))} \cup {1}
           m == Len(q.dense) + Len(q.sparse) + 1
<1>1. Len(q.dense) \in Nat /\ Len(q.sparse) \in Nat
  BY RankOf DEF Asked
<1>2. Range(Branches(q)) = {q.dense, q.sparse}
  BY DEF Range, Branches
<1>3. S = {Len(q.dense), Len(q.sparse), 1}
  BY <1>2
<1>4. S \in SUBSET (0..m) /\ S # {} /\ m \in Nat
  <2>1. m \in Nat /\ Len(q.dense) \in 0..m /\ Len(q.sparse) \in 0..m /\ 1 \in 0..m
    <3>1. \A a, b \in Nat : /\ a + b + 1 \in Nat /\ a \in 0..(a + b + 1) /\ b \in 0..(a + b + 1)
                            /\ 1 \in 0..(a + b + 1)
      OBVIOUS
    <3> QED BY <1>1, <3>1
  <2> HIDE DEF S, m
  <2> QED BY <1>3, <2>1
<1>5. n = Max(S)
  BY DEF Longest
<1>6. Max(S) \in S /\ \A y \in S : Max(S) >= y
  <2> HIDE DEF S, m
  <2> QED BY <1>4, MaxOf
<1> QED BY <1>1, <1>3, <1>4, <1>5, <1>6

(* The fused score of a chunk is the sum of its two terms.                 *)
LEMMA ScoreIs ==
    ASSUME NEW q, Asked(q), NEW c, NEW n, n = Longest(Branches(q))
    PROVE  Score(Branches(q), q.k, q.weights, c)
             = 0 + Term(q.k, n, q.weights[1], RankIn(q.dense, c))
                 + Term(q.k, n, q.weights[2], RankIn(q.sparse, c))
<1> DEFINE of == [rankings |-> Branches(q), k |-> q.k, n |-> n, weights |-> q.weights,
                  chunk |-> c]
           seq == [b \in DOMAIN Branches(q) |-> b]
<1>1. Score(Branches(q), q.k, q.weights, c) = PlusFold!Fold(of, 0, seq)
  BY DEF Score, FoldLeft, MapThenFoldSet, Max, PlusFold!Fold, PlusFold!Folds, PlusFold!Largest
<1>2. DOMAIN seq = 1..2 /\ seq[1] = 1 /\ seq[2] = 2
  BY DEF Branches
<1>3. PICK v : PlusFold!Steps(v, of, 0, 2, seq) /\ v[2] = PlusFold!Fold(of, 0, seq)
  <2> HIDE DEF seq, of
  <2>1. 2 \in Nat
    OBVIOUS
  <2> QED BY <1>2, <2>1, PlusFold!FoldTrace
<1>4. /\ v[0] = 0 /\ v[1] = Plus(of, v[0], 1) /\ v[2] = Plus(of, v[1], 2)
  <2> HIDE DEF seq, of
  <2>1. \A i \in 1..2 : v[i] = Plus(of, v[i - 1], seq[i])
    BY <1>3 DEF PlusFold!Steps
  <2>2. v[0] = 0
    BY <1>3 DEF PlusFold!Steps
  <2> QED BY <1>2, <2>1, <2>2
<1>5. \A sum : /\ Plus(of, sum, 1) = sum + Term(q.k, n, q.weights[1], RankIn(q.dense, c))
               /\ Plus(of, sum, 2) = sum + Term(q.k, n, q.weights[2], RankIn(q.sparse, c))
  BY DEF Plus, Branches
<1> QED BY <1>1, <1>3, <1>4, <1>5

Chunks(q) == Range(q.dense) \cup Range(q.sparse)
FusedScore(q) == [c \in Chunks(q) |-> Score(Branches(q), q.k, q.weights, c)]

(* What a branch gives a chunk.                                            *)
LEMMA BranchTerm ==
    ASSUME NEW k \in Nat, NEW n \in Nat, NEW weight \in Nat \ {0}, NEW r, Ranking(r),
           Len(r) <= n, NEW c
    PROVE  /\ Term(k, n, weight, RankIn(r, c)) \in Nat
           /\ c \notin Range(r) => Term(k, n, weight, RankIn(r, c)) = 0
           /\ c \in Range(r) => Term(k, n, weight, RankIn(r, c)) > 0
           /\ \A d : Contains(r, d) /\ Contains(r, c) /\ RankIn(r, c) < RankIn(r, d)
                => Term(k, n, weight, RankIn(r, c)) > Term(k, n, weight, RankIn(r, d))
<1>1. \A d : d \in Range(r) => RankIn(r, d) \in 1..n
  <2>1. Len(r) \in Nat /\ \A d : d \in Range(r) => RankIn(r, d) \in 1..Len(r)
    BY RankOf
  <2> QED BY <2>1
<1>2. \A d : d \notin Range(r) => RankIn(r, d) = 0
  BY RankOf
<1>3. RankIn(r, c) \in 0..n
  BY <1>1, <1>2
<1>4. \A d : Contains(r, d) => d \in Range(r)
  BY RankOf
<1>5. /\ \A s \in 0..n : Term(k, n, weight, s) \in Nat
      /\ Term(k, n, weight, 0) = 0
      /\ \A s \in 1..n : Term(k, n, weight, s) > 0
      /\ \A s, t \in 1..n : s < t => Term(k, n, weight, s) > Term(k, n, weight, t)
  BY TermsCompare
<1>6. c \notin Range(r) => Term(k, n, weight, RankIn(r, c)) = 0
  BY <1>2, <1>5
<1>7. \A d : Contains(r, d) /\ Contains(r, c) /\ RankIn(r, c) < RankIn(r, d)
        => Term(k, n, weight, RankIn(r, c)) > Term(k, n, weight, RankIn(r, d))
  BY <1>1, <1>4, <1>5
<1> QED BY <1>1, <1>3, <1>5, <1>6, <1>7

(* Scores are natural numbers.                                             *)
LEMMA ScoreInNat ==
    ASSUME NEW q, Asked(q), NEW c
    PROVE  Score(Branches(q), q.k, q.weights, c) \in Nat
<1> DEFINE n == Longest(Branches(q))
<1>1. n \in Nat /\ Len(q.dense) <= n /\ Len(q.sparse) <= n
  BY LongestOf
<1>2. q.k \in Nat /\ q.weights[1] \in Nat \ {0} /\ q.weights[2] \in Nat \ {0}
      /\ Ranking(q.dense) /\ Ranking(q.sparse)
  BY DEF Asked
<1> HIDE DEF n
<1>3. Term(q.k, n, q.weights[1], RankIn(q.dense, c)) \in Nat
  BY <1>1, <1>2, BranchTerm
<1>4. Term(q.k, n, q.weights[2], RankIn(q.sparse, c)) \in Nat
  BY <1>1, <1>2, BranchTerm
<1> QED BY <1>3, <1>4, ScoreIs DEF n

(* A chunk that is ahead in every branch has the higher score.             *)
LEMMA AheadScoresHigher ==
    ASSUME NEW q, Asked(q), NEW c, NEW d \in Chunks(q), Ahead(q, c, d)
    PROVE  Score(Branches(q), q.k, q.weights, c) > Score(Branches(q), q.k, q.weights, d)
<1> DEFINE n == Longest(Branches(q))
           one(e) == Term(q.k, n, q.weights[1], RankIn(q.dense, e))
           two(e) == Term(q.k, n, q.weights[2], RankIn(q.sparse, e))
<1>1. n \in Nat /\ Len(q.dense) <= n /\ Len(q.sparse) <= n
  BY LongestOf
<1>2. q.k \in Nat /\ q.weights[1] \in Nat \ {0} /\ q.weights[2] \in Nat \ {0}
      /\ Ranking(q.dense) /\ Ranking(q.sparse)
  BY DEF Asked
<1>3. \A e : Score(Branches(q), q.k, q.weights, e) = 0 + one(e) + two(e)
  BY ScoreIs
<1> HIDE DEF n
<1>4. /\ one(c) \in Nat /\ one(d) \in Nat /\ (d \notin Range(q.dense) => one(d) = 0)
      /\ d \in Range(q.dense) => one(c) > one(d)
  <2>1. /\ one(c) \in Nat /\ one(d) \in Nat /\ (d \notin Range(q.dense) => one(d) = 0)
        /\ Contains(q.dense, d) /\ Contains(q.dense, c) /\ RankIn(q.dense, c) < RankIn(q.dense, d)
             => one(c) > one(d)
    <3>1. q.weights[1] \in Nat \ {0} /\ q.k \in Nat /\ Ranking(q.dense) /\ Len(q.dense) <= n
      BY <1>1, <1>2
    <3>2. /\ Term(q.k, n, q.weights[1], RankIn(q.dense, c)) \in Nat
          /\ \A e : Contains(q.dense, e) /\ Contains(q.dense, c) /\ RankIn(q.dense, c) < RankIn(q.dense, e)
               => Term(q.k, n, q.weights[1], RankIn(q.dense, c))
                    > Term(q.k, n, q.weights[1], RankIn(q.dense, e))
      BY <1>1, <3>1, BranchTerm
    <3>3. Term(q.k, n, q.weights[1], RankIn(q.dense, d)) \in Nat
      BY <1>1, <3>1, BranchTerm
    <3>4. d \notin Range(q.dense) => Term(q.k, n, q.weights[1], RankIn(q.dense, d)) = 0
      BY <1>1, <3>1, BranchTerm
    <3> QED BY <3>2, <3>3, <3>4
  <2>2. d \in Range(q.dense) <=> Contains(q.dense, d)
    BY <1>2, RankOf
  <2>3. Contains(q.dense, d) => Contains(q.dense, c) /\ RankIn(q.dense, c) < RankIn(q.dense, d)
    BY DEF Ahead
  <2> QED BY <2>1, <2>2, <2>3
<1>5. /\ two(c) \in Nat /\ two(d) \in Nat /\ (d \notin Range(q.sparse) => two(d) = 0)
      /\ d \in Range(q.sparse) => two(c) > two(d)
  <2>1. /\ two(c) \in Nat /\ two(d) \in Nat /\ (d \notin Range(q.sparse) => two(d) = 0)
        /\ Contains(q.sparse, d) /\ Contains(q.sparse, c) /\ RankIn(q.sparse, c) < RankIn(q.sparse, d)
             => two(c) > two(d)
    <3>1. q.weights[2] \in Nat \ {0} /\ q.k \in Nat /\ Ranking(q.sparse) /\ Len(q.sparse) <= n
      BY <1>1, <1>2
    <3>2. /\ Term(q.k, n, q.weights[2], RankIn(q.sparse, c)) \in Nat
          /\ \A e : Contains(q.sparse, e) /\ Contains(q.sparse, c) /\ RankIn(q.sparse, c) < RankIn(q.sparse, e)
               => Term(q.k, n, q.weights[2], RankIn(q.sparse, c))
                    > Term(q.k, n, q.weights[2], RankIn(q.sparse, e))
      BY <1>1, <3>1, BranchTerm
    <3>3. Term(q.k, n, q.weights[2], RankIn(q.sparse, d)) \in Nat
      BY <1>1, <3>1, BranchTerm
    <3>4. d \notin Range(q.sparse) => Term(q.k, n, q.weights[2], RankIn(q.sparse, d)) = 0
      BY <1>1, <3>1, BranchTerm
    <3> QED BY <3>2, <3>3, <3>4
  <2>2. d \in Range(q.sparse) <=> Contains(q.sparse, d)
    BY <1>2, RankOf
  <2>3. Contains(q.sparse, d) => Contains(q.sparse, c) /\ RankIn(q.sparse, c) < RankIn(q.sparse, d)
    BY DEF Ahead
  <2> QED BY <2>1, <2>2, <2>3
<1>6. d \in Range(q.dense) \/ d \in Range(q.sparse)
  BY DEF Chunks
<1> HIDE DEF one, two
<1> QED BY <1>3, <1>4, <1>5, <1>6

(* The chunks found are finitely many.                                     *)
LEMMA ChunksFinite ==
    ASSUME NEW q, Asked(q)
    PROVE  IsFiniteSet(Chunks(q)) /\ Chunks(q) \in SUBSET Nat
<1>1. \A r : Ranking(r) => IsFiniteSet(Range(r)) /\ Range(r) \in SUBSET Nat
  <2>1. SUFFICES ASSUME NEW r, Ranking(r) PROVE IsFiniteSet(Range(r)) /\ Range(r) \in SUBSET Nat
    OBVIOUS
  <2>2. r \in Seq(Nat) /\ Len(r) \in Nat /\ DOMAIN r = 1..Len(r)
    BY RankOf, <2>1 DEF Ranking
  <2>3. Range(r) \in SUBSET Nat
    BY <2>2 DEF Range
  <2>4. r \in Surjection(1..Len(r), Range(r))
    BY <2>2 DEF Surjection, Range
  <2>5. IsFiniteSet(1..Len(r))
    <3>1. 1 \in Int /\ Len(r) \in Int
      BY <2>2
    <3> QED BY <3>1, FS_Interval
  <2> QED BY <2>3, <2>4, <2>5, FS_Surjection
<1>2. Ranking(q.dense) /\ Ranking(q.sparse)
  BY DEF Asked
<1>3. IsFiniteSet(Range(q.dense)) /\ IsFiniteSet(Range(q.sparse))
  BY <1>1, <1>2
<1> QED BY <1>1, <1>2, <1>3, FS_Union DEF Chunks

Fused(q) == ReciprocalRankFusion(Branches(q), q.k, q.weights)
ScoreOrder(q) == {p \in Chunks(q) \X Chunks(q) : Better(FusedScore(q), p[1], p[2])}

(* Scores, and chunk ids where they are equal, order the chunks.           *)
LEMMA ScoreOrderStrict ==
    ASSUME NEW q, Asked(q)
    PROVE  TimesFold!StrictOrder(ScoreOrder(q), Chunks(q))
<1>1. \A c \in Chunks(q) : FusedScore(q)[c] \in Nat /\ c \in Nat
  BY ScoreInNat, ChunksFinite DEF FusedScore
<1>2. \A c, d \in Chunks(q) : <<c, d>> \in ScoreOrder(q) <=> Better(FusedScore(q), c, d)
  BY DEF ScoreOrder
<1> DEFINE s == FusedScore(q)
<1> HIDE DEF s
<1>3. \A c, d \in Chunks(q) : <<c, d>> \in ScoreOrder(q) <=> s[c] > s[d] \/ (s[c] = s[d] /\ c < d)
  BY <1>2 DEF s, Better
<1>4. \A c \in Chunks(q) : s[c] \in Nat /\ c \in Nat
  BY <1>1 DEF s
<1>5. ASSUME NEW c \in Chunks(q) PROVE <<c, c>> \notin ScoreOrder(q)
  BY <1>3, <1>4
<1>6. ASSUME NEW c \in Chunks(q), NEW d \in Chunks(q)
      PROVE  c = d \/ <<c, d>> \in ScoreOrder(q) \/ <<d, c>> \in ScoreOrder(q)
  <2>1. s[c] \in Nat /\ c \in Nat /\ s[d] \in Nat /\ d \in Nat
    BY <1>4
  <2> QED BY <2>1, <1>3
<1>7. ASSUME NEW c \in Chunks(q), NEW d \in Chunks(q), NEW e \in Chunks(q),
             <<c, d>> \in ScoreOrder(q), <<d, e>> \in ScoreOrder(q)
      PROVE  <<c, e>> \in ScoreOrder(q)
  <2>1. s[c] \in Nat /\ c \in Nat /\ s[d] \in Nat /\ d \in Nat /\ s[e] \in Nat /\ e \in Nat
    BY <1>4
  <2> QED BY <2>1, <1>3, <1>7
<1> QED BY <1>5, <1>6, <1>7 DEF TimesFold!StrictOrder

(* Every chunk has its place in the fused ranking, one that is ahead of    *)
(* another an earlier one.                                                 *)
FusedWell(q) ==
    /\ Cardinality(Chunks(q)) \in Nat
    /\ DOMAIN Fused(q) = 1..Cardinality(Chunks(q)) /\ Len(Fused(q)) = Cardinality(Chunks(q))
    /\ \A i \in 1..Cardinality(Chunks(q)) : Fused(q)[i] \in Chunks(q)
    /\ \A i, j \in 1..Cardinality(Chunks(q)) : Fused(q)[i] = Fused(q)[j] => i = j
    /\ \A i \in 1..Cardinality(Chunks(q)) : \A c \in Chunks(q) :
         Ahead(q, c, Fused(q)[i]) => \E j \in 1..(i - 1) : Fused(q)[j] = c

(* Of every question the fused ranking is such.                            *)
LEMMA FusedIsWell ==
    ASSUME NEW q, Asked(q)
    PROVE  FusedWell(q)
<1> DEFINE S == Chunks(q)
           R == ScoreOrder(q)
           N == Cardinality(Chunks(q))
<1>1. IsFiniteSet(S) /\ TimesFold!StrictOrder(R, S)
  BY ChunksFinite, ScoreOrderStrict
<1>2. /\ N \in Nat
      /\ \A c \in S : TimesFold!Place(R, S, c) \in 1..N
      /\ \A c, d \in S : <<c, d>> \in R => TimesFold!Place(R, S, c) < TimesFold!Place(R, S, d)
      /\ \A c, d \in S : TimesFold!Place(R, S, c) = TimesFold!Place(R, S, d) => c = d
      /\ \A i \in 1..N : \E c \in S : TimesFold!Place(R, S, c) = i
  <2> HIDE DEF S, R
  <2>1. N = Cardinality(S)
    BY DEF S
  <2> QED BY <1>1, <2>1, SameSizes, TimesFold!Placed
<1>3. UNION {Range(r) : r \in Range(Branches(q))} = S
  <2>1. Range(Branches(q)) = {q.dense, q.sparse}
    BY DEF Range, Branches
  <2> QED BY <2>1 DEF Chunks
<1>4. \A c \in S : {d \in S : Better(FusedScore(q), d, c)} = TimesFold!Above(R, S, c)
  BY DEF TimesFold!Above, ScoreOrder
<1>5. Fused(q) = [i \in 1..N |->
                    CHOOSE c \in S : Cardinality({d \in S : Better(FusedScore(q), d, c)}) = i - 1]
  <2> DEFINE G(C) == [i \in 1..Cardinality(C) |->
           CHOOSE c \in C : Cardinality({d \in C :
             Better([e \in C |-> Score(Branches(q), q.k, q.weights, e)], d, c)}) = i - 1]
  <2>1. Fused(q) = G(UNION {Range(r) : r \in Range(Branches(q))})
    BY DEF Fused, ReciprocalRankFusion
  <2>2. G(UNION {Range(r) : r \in Range(Branches(q))}) = G(S)
    <3> HIDE DEF G, S
    <3> QED BY <1>3
  <2> QED BY <2>1, <2>2 DEF FusedScore
<1>6. \A i \in 1..N : Fused(q)[i] \in S /\ TimesFold!Place(R, S, Fused(q)[i]) = i
  <2>1. SUFFICES ASSUME NEW i \in 1..N PROVE Fused(q)[i] \in S /\ TimesFold!Place(R, S, Fused(q)[i]) = i
    OBVIOUS
  <2>2. PICK c \in S : TimesFold!Place(R, S, c) = i
    BY <1>2
  <2>3. \A e \in S : Cardinality(TimesFold!Above(R, S, e)) = i - 1 <=> TimesFold!Place(R, S, e) = i
    <3>1. \A e \in S : Cardinality(TimesFold!Above(R, S, e)) \in Nat
      <4>1. \A e \in S : TimesFold!Above(R, S, e) \in SUBSET S
        BY DEF TimesFold!Above
      <4> QED BY <1>1, <4>1, FS_Subset, FS_CardinalityType
    <3> QED BY <3>1, SameSizes DEF TimesFold!Place
  <2>4. Fused(q)[i] = CHOOSE e \in S : Cardinality({d \in S : Better(FusedScore(q), d, e)}) = i - 1
    BY <1>5
  <2>5. Cardinality({d \in S : Better(FusedScore(q), d, c)}) = i - 1
    <3> HIDE DEF S, R
    <3> QED BY <1>4, <2>2, <2>3
  <2>6. /\ Fused(q)[i] \in S
        /\ Cardinality({d \in S : Better(FusedScore(q), d, Fused(q)[i])}) = i - 1
    <3> HIDE DEF S, R
    <3> QED BY <2>4, <2>5
  <2> HIDE DEF S, R
  <2> QED BY <1>4, <2>3, <2>6
<1>7. DOMAIN Fused(q) = 1..N /\ Len(Fused(q)) = N
  BY <1>2, <1>5
<1>8. ASSUME NEW i \in 1..N, NEW c \in S, Ahead(q, c, Fused(q)[i])
      PROVE  \E j \in 1..(i - 1) : Fused(q)[j] = c
  <2>1. Score(Branches(q), q.k, q.weights, c) > Score(Branches(q), q.k, q.weights, Fused(q)[i])
    BY <1>6, <1>8, AheadScoresHigher
  <2>2. <<c, Fused(q)[i]>> \in R
    BY <1>6, <2>1 DEF ScoreOrder, Better, FusedScore
  <2> HIDE DEF S, R, N
  <2>3. TimesFold!Place(R, S, c) < TimesFold!Place(R, S, Fused(q)[i])
    BY <1>2, <1>6, <2>2
  <2>4. TimesFold!Place(R, S, c) \in 1..N /\ TimesFold!Place(R, S, c) < i
    BY <1>2, <1>6, <2>3
  <2>5. TimesFold!Place(R, S, Fused(q)[TimesFold!Place(R, S, c)]) = TimesFold!Place(R, S, c) /\ Fused(q)[TimesFold!Place(R, S, c)] \in S
    BY <1>6, <2>4
  <2>6. Fused(q)[TimesFold!Place(R, S, c)] = c
    BY <1>2, <2>5
  <2>7. TimesFold!Place(R, S, c) \in 1..(i - 1)
    BY <1>2, <2>4
  <2> QED BY <2>6, <2>7
<1>9. \A i, j \in 1..N : Fused(q)[i] = Fused(q)[j] => i = j
  <2> HIDE DEF S, R, N
  <2> QED BY <1>6
<1> HIDE DEF R
<1> QED BY <1>2, <1>6, <1>7, <1>8, <1>9 DEF FusedWell

-----------------------------------------------------------------------------
(* The search, the resolved records and the context.                       *)
SearchWell(q, hits, m) ==
    /\ m \in Nat /\ DOMAIN hits = 1..m /\ Len(hits) = m
    /\ m <= q.topK /\ m <= Cardinality(Chunks(q))
    /\ \A i \in 1..m : /\ hits[i].chunk = Fused(q)[i] /\ hits[i].rank = i
                       /\ hits[i].dense = RankIn(q.dense, Fused(q)[i])
                       /\ hits[i].sparse = RankIn(q.sparse, Fused(q)[i])

(* The hits are the first of the fused ranking.                            *)
LEMMA SearchIsWell ==
    ASSUME NEW q, Asked(q)
    PROVE  \E m : SearchWell(q, HybridSearch(q), m)
<1> DEFINE N == Cardinality(Chunks(q))
           m == Min({q.topK, N})
<1>1. N \in Nat /\ Len(Fused(q)) = N
  BY FusedIsWell DEF FusedWell
<1>2. q.topK \in Nat
  BY DEF Asked
<1> HIDE DEF N
<1>3. m \in Nat /\ m <= q.topK /\ m <= N
  <2> DEFINE S == {q.topK, N}
             t == q.topK + N
  <2>1. t \in Nat /\ S \in SUBSET (0..t) /\ S # {}
    <3>1. \A a, b \in Nat : a + b \in Nat /\ a \in 0..(a + b) /\ b \in 0..(a + b)
      OBVIOUS
    <3> QED BY <1>1, <1>2, <3>1
  <2>2. Min(S) \in S /\ \A y \in S : Min(S) =< y
    <3> HIDE DEF S, t
    <3> QED BY <2>1, MinOf
  <2> QED BY <1>1, <1>2, <2>2
<1>4. HybridSearch(q) = [i \in 1..m |->
          [chunk |-> Fused(q)[i], rank |-> i, dense |-> RankIn(q.dense, Fused(q)[i]),
           sparse |-> RankIn(q.sparse, Fused(q)[i])]]
  <2> DEFINE G(fused) == [i \in 1..Min({q.topK, Len(fused)}) |->
          [chunk |-> fused[i], rank |-> i, dense |-> RankIn(q.dense, fused[i]),
           sparse |-> RankIn(q.sparse, fused[i])]]
  <2>1. HybridSearch(q) = G(Fused(q))
    BY DEF HybridSearch, Fused, Branches
  <2> QED BY <1>1, <2>1
<1> HIDE DEF m
<1>5. SearchWell(q, HybridSearch(q), m)
  <2> DEFINE g(i) == [chunk |-> Fused(q)[i], rank |-> i, dense |-> RankIn(q.dense, Fused(q)[i]),
                      sparse |-> RankIn(q.sparse, Fused(q)[i])]
             hits == [i \in 1..m |-> g(i)]
  <2>1. DOMAIN hits = 1..m /\ \A i \in 1..m : hits[i] = g(i)
    OBVIOUS
  <2>2. Len(hits) = m
    <3> HIDE DEF g
    <3> QED BY <1>3
  <2>3. HybridSearch(q) = hits
    BY <1>4
  <2> HIDE DEF hits
  <2> QED BY <1>3, <2>1, <2>2, <2>3 DEF SearchWell, N
<1> QED BY <1>5

(* A screening run accepts them.                                           *)
LEMMA SearchPersistable ==
    ASSUME NEW q, Asked(q)
    PROVE  PersistableHits(HybridSearch(q), q.topK)
<1> DEFINE hits == HybridSearch(q)
<1>1. PICK m : SearchWell(q, hits, m)
  BY SearchIsWell
<1>2. FusedWell(q)
  BY FusedIsWell
<1> HIDE DEF hits
<1>3. \A i \in 1..m : i \in 1..Cardinality(Chunks(q))
  BY <1>1, <1>2 DEF SearchWell, FusedWell
<1>4. \A i, j \in 1..m : hits[i].chunk = hits[j].chunk => i = j
  BY <1>1, <1>2, <1>3 DEF SearchWell, FusedWell
<1>5. IsInjective([i \in DOMAIN hits |-> hits[i].chunk])
  BY <1>1, <1>4 DEF SearchWell, IsInjective
<1>6. ASSUME NEW i \in 1..m PROVE hits[i].dense # Unranked \/ hits[i].sparse # Unranked
  <2>1. Fused(q)[i] \in Range(q.dense) \/ Fused(q)[i] \in Range(q.sparse)
    BY <1>2, <1>3 DEF FusedWell, Chunks
  <2>2. Ranking(q.dense) /\ Ranking(q.sparse)
    BY DEF Asked
  <2>3. \A r : Ranking(r) /\ Fused(q)[i] \in Range(r) => RankIn(r, Fused(q)[i]) # 0
    <3>1. \A r : Ranking(r) /\ Fused(q)[i] \in Range(r) => RankIn(r, Fused(q)[i]) \in 1..Len(r)
      BY RankOf
    <3> QED BY <3>1
  <2> QED BY <1>1, <2>1, <2>2, <2>3 DEF SearchWell, Unranked
<1> QED BY <1>1, <1>4, <1>5, <1>6 DEF PersistableHits, SearchWell, hits

(* The resolved records, by rank, are those of the hits.                   *)
LEMMA OrderedByRank ==
    ASSUME NEW q, Asked(q), NEW m, SearchWell(q, HybridSearch(q), m),
           ResolvedExactly(HybridSearch(q), q.rows)
    PROVE  /\ Ordered(q.rows) \in Seq(Row) /\ Len(Ordered(q.rows)) = m
           /\ \A i \in 1..m : /\ Ordered(q.rows)[i].rank = i
                              /\ Ordered(q.rows)[i].chunk = Fused(q)[i]
<1> DEFINE hits == HybridSearch(q)
           rows == q.rows
           S == Range(rows)
<1>1. m \in Nat /\ DOMAIN hits = 1..m /\ \A i \in 1..m : hits[i].chunk = Fused(q)[i] /\ hits[i].rank = i
  BY DEF SearchWell
<1>2. rows \in Seq(Row) /\ DOMAIN rows = 1..Len(rows) /\ Len(rows) \in Nat
  BY DEF Asked
<1>3. S \in SUBSET Row
  BY <1>2 DEF Range
<1> HIDE DEF hits
<1>4. \A r \in S : r.rank \in 1..m /\ r.chunk = Fused(q)[r.rank]
  <2>1. SUFFICES ASSUME NEW r \in S PROVE r.rank \in 1..m /\ r.chunk = Fused(q)[r.rank]
    OBVIOUS
  <2>2. [chunk |-> r.chunk, rank |-> r.rank] \in {[chunk |-> h.chunk, rank |-> h.rank] : h \in Range(hits)}
    BY DEF ResolvedExactly, hits
  <2>3. PICK h \in Range(hits) : [chunk |-> r.chunk, rank |-> r.rank] = [chunk |-> h.chunk, rank |-> h.rank]
    BY <2>2
  <2>4. r.chunk = h.chunk /\ r.rank = h.rank
    BY <2>3
  <2>5. PICK i \in 1..m : h = hits[i]
    BY <1>1 DEF Range
  <2> QED BY <1>1, <2>4, <2>5
<1>5. \A i \in 1..m : \E r \in S : r.rank = i
  <2>1. SUFFICES ASSUME NEW i \in 1..m PROVE \E r \in S : r.rank = i
    OBVIOUS
  <2>2. hits[i] \in Range(hits)
    BY <1>1 DEF Range
  <2>3. [chunk |-> hits[i].chunk, rank |-> hits[i].rank] \in {[chunk |-> r.chunk, rank |-> r.rank] : r \in S}
    BY <2>2 DEF ResolvedExactly, hits
  <2>4. PICK r \in S : [chunk |-> hits[i].chunk, rank |-> hits[i].rank] = [chunk |-> r.chunk, rank |-> r.rank]
    BY <2>3
  <2>5. r.rank = hits[i].rank
    BY <2>4
  <2> QED BY <1>1, <2>5
<1>6. \A r, s \in S : r.rank = s.rank => r = s
  <2>1. SUFFICES ASSUME NEW r \in S, NEW s \in S, r.rank = s.rank PROVE r = s
    OBVIOUS
  <2>2. PICK i \in 1..Len(rows) : r = rows[i]
    BY <1>2 DEF Range
  <2>3. PICK j \in 1..Len(rows) : s = rows[j]
    BY <1>2 DEF Range
  <2>4. rows[i].chunk = rows[j].chunk
    BY <1>4, <2>1, <2>2, <2>3
  <2>5. \A a, b \in 1..Len(rows) : rows[a].chunk = rows[b].chunk => a = b
    BY <1>2 DEF ResolvedExactly, IsInjective
  <2> QED BY <2>2, <2>3, <2>4, <2>5
<1> HIDE DEF S
<1> DEFINE g == [i \in 1..m |-> CHOOSE r \in S : r.rank = i]
<1>7. \A i \in 1..m : g[i] \in S /\ g[i].rank = i
  BY <1>5
<1>8. g \in Bijection(1..m, S)
  <2>1. g \in [1..m -> S]
    BY <1>7
  <2>2. \A i, j \in 1..m : g[i] = g[j] => i = j
    BY <1>7
  <2>3. \A r \in S : \E i \in 1..m : g[i] = r
    <3>1. SUFFICES ASSUME NEW r \in S PROVE \E i \in 1..m : g[i] = r
      OBVIOUS
    <3>2. r.rank \in 1..m /\ g[r.rank] \in S /\ g[r.rank].rank = r.rank
      BY <1>4, <1>7
    <3>3. g[r.rank] = r
      BY <1>6, <3>2
    <3> QED BY <3>2, <3>3
  <2> HIDE DEF g
  <2> QED BY <2>1, <2>2, <2>3 DEF Bijection, Injection, Surjection, IsInjective
<1>9. IsFiniteSet(S) /\ Cardinality(S) = m
  <2>1. IsFiniteSet(1..m) /\ Cardinality(1..m) = m
    <3>1. 1 \in Int /\ m \in Int
      BY <1>1
    <3>2. IsFiniteSet(1..m) /\ Cardinality(1..m) = IF 1 > m THEN 0 ELSE m - 1 + 1
      BY <3>1, FS_Interval
    <3> QED BY <1>1, <3>2
  <2>2. ExistsBijection(1..m, S)
    BY <1>8 DEF ExistsBijection
  <2> QED BY <2>1, <2>2, FS_Bijection
<1> DEFINE InOrder(s) == \A i, j \in DOMAIN s : i < j => s[i].rank <= s[j].rank
<1>10. g \in SetToSeqs(S) /\ InOrder(g)
  <2>1. g \in [1..m -> S] /\ \A i, j \in 1..m : i # j => g[i] # g[j]
    BY <1>7
  <2>2. DOMAIN g = 1..m
    OBVIOUS
  <2> HIDE DEF g
  <2>3. g \in SetToSeqs(S)
    BY <1>9, <2>1 DEF SetToSeqs
  <2> QED BY <1>7, <2>2, <2>3
<1> DEFINE s == CHOOSE t \in SetToSeqs(S) : InOrder(t)
<1>11. s \in SetToSeqs(S) /\ InOrder(s)
  <2> HIDE DEF InOrder, g
  <2> QED BY <1>10
<1>12. Ordered(rows) = s
  BY DEF Ordered, S
<1> HIDE DEF s, g
<1>13. s \in [1..m -> S] /\ \A i, j \in 1..m : i # j => s[i] # s[j]
  BY <1>9, <1>11 DEF SetToSeqs
<1> DEFINE f == [i \in 1..m |-> s[i].rank]
<1>14. \A i \in 1..m : f[i] = i
  <2>1. f \in [1..m -> 1..m]
    BY <1>4, <1>13
  <2>2. ASSUME NEW i \in 1..m, NEW j \in 1..m, i < j PROVE f[i] < f[j]
    <3>1. s[i].rank <= s[j].rank
      BY <1>11, <1>13, <2>2
    <3>2. i # j
      BY <2>2
    <3>3. s[i] \in S /\ s[j] \in S /\ s[i] # s[j]
      BY <1>13, <3>2
    <3>4. s[i].rank # s[j].rank /\ s[i].rank \in 1..m /\ s[j].rank \in 1..m
      BY <1>4, <1>6, <3>3
    <3> QED BY <3>1, <3>4
  <2> HIDE DEF f
  <2> QED BY <1>1, <2>1, <2>2, IncreasingIsIdentity
<1>15. ASSUME NEW i \in 1..m PROVE s[i].rank = i /\ s[i].chunk = Fused(q)[i]
  <2>1. s[i] \in S /\ s[i].rank = i
    BY <1>13, <1>14
  <2> QED BY <1>4, <2>1
<1>16. s \in Seq(Row) /\ Len(s) = m
  <2>1. s \in [1..m -> Row]
    BY <1>3, <1>13 DEF S
  <2> QED BY <1>1, <2>1
<1> QED BY <1>12, <1>15, <1>16

(* The context is as many of the ordered records as fit, from the first    *)
(* on.                                                                     *)
LEMMA ContextIsPrefix ==
    ASSUME NEW rows, NEW budget, Ordered(rows) \in Seq(Row)
    PROVE  \E n \in 0..Len(Ordered(rows)) :
              BuildContext(rows, budget) = SubSeq(Ordered(rows), 1, n)
<1> DEFINE s == Ordered(rows)
           S == {n \in 0..Len(s) : \A m \in 1..n : Tokens(SubSeq(s, 1, m)) <= budget}
<1>1. Len(s) \in Nat
  OBVIOUS
<1>2. S \in SUBSET (0..Len(s)) /\ S # {}
  <2>1. 0 \in S
    BY <1>1
  <2> QED BY <2>1
<1>3. Max(S) \in S
  <2> HIDE DEF S, s
  <2> QED BY <1>1, <1>2, MaxOf
<1>4. BuildContext(rows, budget) = SubSeq(s, 1, Max(S))
  BY DEF BuildContext
<1> QED BY <1>2, <1>3, <1>4

(* Whatever is answered is grounded.                                       *)
LEMMA AnswerGrounded ==
    ASSUME NEW q, Asked(q)
    PROVE  Grounded(q)
<1> DEFINE context == BuildContext(q.rows, q.budget)
           generated == q.raw.answer
           a == Answer(q)
           s == Ordered(q.rows)
<1>1. SUFFICES ASSUME a # Refused
               PROVE  /\ \A i \in DOMAIN a.evidence : \A c \in Chunks(q) :
                           Ahead(q, c, a.evidence[i]) => \E j \in 1..(i - 1) : a.evidence[j] = c
                      /\ Range(a.citations) \subseteq Range(a.evidence) /\ IsInjective(a.citations)
                      /\ Range(a.evidence) \subseteq Chunks(q) /\ Len(a.evidence) <= q.topK
                      /\ q.version # "v1" => (a.abstained <=> a.citations = <<>>)
  BY DEF Grounded, Chunks
<1>2. /\ ResolvedExactly(HybridSearch(q), q.rows)
      /\ ValidateAnswerPolicy(generated, q.version)
      /\ ResolvesCitations(generated.citations, context)
      /\ a = [evidence |-> [i \in DOMAIN context |-> context[i].chunk],
              citations |-> [i \in DOMAIN generated.citations |->
                              context[generated.citations[i]].chunk],
              abstained |-> generated.abstained]
  BY <1>1 DEF Answer
<1>3. PICK m : SearchWell(q, HybridSearch(q), m)
  BY SearchIsWell
<1>4. FusedWell(q)
  BY FusedIsWell
<1>5. /\ s \in Seq(Row) /\ Len(s) = m
      /\ \A i \in 1..m : s[i].rank = i /\ s[i].chunk = Fused(q)[i]
  BY <1>2, <1>3, OrderedByRank
<1>6. PICK n \in 0..m : context = SubSeq(s, 1, n)
  BY <1>5, ContextIsPrefix
<1>7. m \in Nat /\ m <= q.topK /\ m <= Cardinality(Chunks(q)) /\ Cardinality(Chunks(q)) \in Nat
  BY <1>3, <1>4 DEF SearchWell, FusedWell
<1>8. n \in Nat /\ n <= m /\ (\A i \in 1..n : i \in 1..m /\ i \in 1..Cardinality(Chunks(q)))
  BY <1>7
<1> HIDE DEF s
<1>9. DOMAIN context = 1..n /\ \A i \in 1..n : context[i] = s[i]
  <2>1. Len(SubSeq(s, 1, n)) = n /\ DOMAIN SubSeq(s, 1, n) = 1..n
    BY <1>5, <1>7, <1>8
  <2>2. \A i \in 1..n : SubSeq(s, 1, n)[i] = s[i]
    BY <1>5, <1>7, <1>8
  <2> QED BY <1>6, <2>1, <2>2
<1> HIDE DEF context, a
<1>10. DOMAIN a.evidence = 1..n /\ \A i \in 1..n : a.evidence[i] = Fused(q)[i]
  <2>1. a.evidence = [i \in 1..n |-> context[i].chunk]
    BY <1>2, <1>9
  <2> QED BY <1>5, <1>8, <1>9, <2>1
<1>11. Len(a.evidence) = n
  <2>1. a.evidence = [i \in 1..n |-> context[i].chunk]
    BY <1>2, <1>9
  <2> QED BY <1>8, <2>1
<1>12. ASSUME NEW i \in DOMAIN a.evidence, NEW c \in Chunks(q), Ahead(q, c, a.evidence[i])
       PROVE  \E j \in 1..(i - 1) : a.evidence[j] = c
  <2>1. i \in 1..n /\ a.evidence[i] = Fused(q)[i] /\ i \in 1..Cardinality(Chunks(q))
    BY <1>8, <1>10
  <2>2. PICK j \in 1..(i - 1) : Fused(q)[j] = c
    BY <1>4, <1>12, <2>1 DEF FusedWell
  <2>3. j \in 1..n
    BY <1>8, <2>1
  <2> QED BY <1>10, <2>2, <2>3
<1>13. generated.citations \in Seq(Nat) /\ generated.abstained \in BOOLEAN /\ q.version \in {"v1", "v2", "v3"}
  BY DEF Asked, Reply
<1> DEFINE labels == generated.citations
<1>14. DOMAIN labels = 1..Len(labels) /\ Len(labels) \in Nat /\ DOMAIN a.citations = 1..Len(labels)
       /\ \A i \in 1..Len(labels) : a.citations[i] = context[labels[i]].chunk
  <2>1. DOMAIN labels = 1..Len(labels) /\ Len(labels) \in Nat
    BY <1>13
  <2>2. a.citations = [i \in DOMAIN labels |-> context[labels[i]].chunk]
    BY <1>2
  <2> HIDE DEF labels
  <2> QED BY <2>1, <2>2
<1>15. IsInjective(labels) /\ Range(labels) \subseteq 1..n
  BY <1>2, <1>9 DEF ResolvesCitations
<1> HIDE DEF labels
<1>16. \A i \in 1..Len(labels) : labels[i] \in 1..n /\ a.citations[i] = a.evidence[labels[i]]
  <2>1. \A i \in 1..Len(labels) : labels[i] \in 1..n
    BY <1>14, <1>15 DEF Range
  <2> QED BY <1>5, <1>8, <1>9, <1>10, <1>14, <2>1
<1>17. Range(a.citations) \subseteq Range(a.evidence)
  BY <1>10, <1>14, <1>16 DEF Range
<1>18. \A i, j \in 1..n : a.evidence[i] = a.evidence[j] => i = j
  BY <1>4, <1>8, <1>10 DEF FusedWell
<1>19. IsInjective(a.citations)
  <2>1. \A i, j \in 1..Len(labels) : labels[i] = labels[j] => i = j
    BY <1>14, <1>15 DEF IsInjective
  <2>2. \A i, j \in 1..Len(labels) : a.citations[i] = a.citations[j] => i = j
    BY <1>16, <1>18, <2>1
  <2> QED BY <1>14, <2>2 DEF IsInjective
<1>20. Range(a.evidence) \subseteq Chunks(q)
  BY <1>4, <1>8, <1>10 DEF Range, FusedWell
<1>21. q.version # "v1" => (a.abstained <=> a.citations = <<>>)
  <2>1. a.abstained = generated.abstained
    BY <1>2
  <2>2. a.citations = <<>> <=> labels = <<>>
    <3>1. labels \in Seq(Nat)
      BY <1>13 DEF labels
    <3>2. a.citations = [i \in 1..Len(labels) |-> context[labels[i]].chunk]
      BY <1>2, <1>14 DEF labels
    <3>3. Len(a.citations) = Len(labels)
      BY <1>14, <3>2
    <3>4. Len(labels) = 0 => a.citations = <<>>
      BY <3>2
    <3> QED BY <3>1, <3>3, <3>4
  <2>3. generated.abstained => labels = <<>>
    BY <1>2 DEF ValidateAnswerPolicy, labels
  <2>4. q.version \in {"v2", "v3"} /\ ~generated.abstained => labels # <<>>
    BY <1>2 DEF ValidateAnswerPolicy, labels
  <2> QED BY <1>13, <2>1, <2>2, <2>3, <2>4
<1>22. Len(a.evidence) <= q.topK
  <2>1. q.topK \in Nat
    BY DEF Asked
  <2> QED BY <1>7, <1>8, <1>11, <2>1
<1> QED BY <1>12, <1>17, <1>19, <1>20, <1>21, <1>22

(* Whatever the branches find, the source resolves and the model writes: a *)
(* hybrid search is something a screening run accepts, and an answer has   *)
(* the best evidence first and cites no more than it was given             *)
(* (HybridRetriever.search, RagService.answer).                            *)
THEOREM AnswersGroundedHolds == AnswerSpec => []AnswersGrounded
<1> DEFINE I == query \in Queries \cup {Answered}
<1>1. AnswerInit => I
  BY DEF AnswerInit
<1>2. I /\ [GiveAnswer]_query => I'
  BY DEF GiveAnswer
<1>3. I => AnswersGrounded
  <2>1. SUFFICES ASSUME I, query # Answered
                 PROVE  Grounded(query) /\ PersistableHits(HybridSearch(query), query.topK)
    BY DEF AnswersGrounded
  <2>2. Asked(query)
    BY <2>1, AnswerAssumption
  <2> QED BY <2>2, AnswerGrounded, SearchPersistable
<1> HIDE DEF I
<1> QED BY <1>1, <1>2, <1>3, PTL DEF AnswerSpec

-----------------------------------------------------------------------------
(* The greedy choice of families: C[k] is what is chosen of the first k of *)
(* the families F.                                                         *)
OfMode(m, X) == {f \in X : f[1] = m}
OfRetriever(r, X) == {f \in X : f[3] = r}
OfCell(m, r, X) == {f \in X : f[1] = m /\ f[3] = r}

Room(X, f, size) ==
    /\ Cardinality(X) < size
    /\ Cardinality(OfMode(f[1], X)) < Cap(size)
    /\ Cardinality(OfRetriever(f[3], X)) < Cap(size)

Greedy(C, F, n, size) ==
    /\ C[0] = {}
    /\ \A k \in 1..n : C[k] = IF Room(C[k - 1], F[k], size) THEN C[k - 1] \cup {F[k]} ELSE C[k - 1]

FamilySeq(F, n) ==
    /\ n \in Nat /\ DOMAIN F = 1..n
    /\ \A i, j \in 1..n : F[i] = F[j] => i = j
    /\ Range(F) = ParseModes \X Strategies \X Retrievers

AllFamilies == ParseModes \X Strategies \X Retrievers

(* Sets with nothing in common.                                            *)
LEMMA UnionOfTwo ==
    ASSUME NEW X, NEW Y, IsFiniteSet(X), IsFiniteSet(Y), X \cap Y = {}
    PROVE  IsFiniteSet(X \cup Y) /\ Cardinality(X \cup Y) = Cardinality(X) + Cardinality(Y)
<1>1. Cardinality(X) \in Nat /\ Cardinality(Y) \in Nat
  BY FS_CardinalityType
<1>2. Cardinality(X \cap Y) = 0
  BY FS_EmptySet
<1>3. /\ IsFiniteSet(X \cup Y)
      /\ Cardinality(X \cup Y) = Cardinality(X) + Cardinality(Y) - Cardinality(X \cap Y)
  BY FS_Union
<1> QED BY <1>1, <1>2, <1>3

(* Each parse mode and retriever has as many families as there are         *)
(* strategies.                                                             *)
LEMMA CellsFinite ==
    IsFiniteSet(AllFamilies) /\ \A m \in ParseModes, r \in Retrievers :
       Cardinality(OfCell(m, r, AllFamilies)) = Cardinality(Strategies)
<1>1. IsFiniteSet(Strategies)
  BY SelectionAssumption
<1>2. ASSUME NEW m \in ParseModes, NEW r \in Retrievers
      PROVE  /\ IsFiniteSet(OfCell(m, r, AllFamilies))
             /\ Cardinality(OfCell(m, r, AllFamilies)) = Cardinality(Strategies)
  <2> DEFINE g == [s \in Strategies |-> <<m, s, r>>]
             T == OfCell(m, r, AllFamilies)
  <2>1. \A s \in Strategies : g[s] \in T
    BY DEF OfCell, AllFamilies
  <2>2. \A f \in T : \E s \in Strategies : g[s] = f
    BY DEF OfCell, AllFamilies
  <2>3. \A s, t \in Strategies : g[s] = g[t] => s = t
    OBVIOUS
  <2>4. g \in [Strategies -> T]
    <3> HIDE DEF T
    <3> QED BY <2>1
  <2>5. g \in Bijection(Strategies, T)
    <3> HIDE DEF T
    <3>1. DOMAIN g = Strategies
      OBVIOUS
    <3> HIDE DEF g
    <3> QED BY <2>2, <2>3, <2>4, <3>1 DEF Bijection, Injection, Surjection, IsInjective
  <2>6. ExistsBijection(Strategies, T)
    BY <2>5 DEF ExistsBijection
  <2> QED BY <1>1, <2>6, FS_Bijection
<1>3. AllFamilies =
        UNION {OfCell(p[1], p[2], AllFamilies) : p \in ParseModes \X Retrievers}
  <2>1. \A f \in AllFamilies : f \in OfCell(f[1], f[3], AllFamilies) /\ f[1] \in ParseModes /\ f[3] \in Retrievers
    BY DEF AllFamilies, OfCell
  <2>2. \A f \in AllFamilies : \E p \in ParseModes \X Retrievers : f \in OfCell(p[1], p[2], AllFamilies)
    <3>1. SUFFICES ASSUME NEW f \in AllFamilies
                   PROVE  \E p \in ParseModes \X Retrievers : f \in OfCell(p[1], p[2], AllFamilies)
      OBVIOUS
    <3>2. <<f[1], f[3]>> \in ParseModes \X Retrievers
      BY <2>1
    <3> WITNESS <<f[1], f[3]>> \in ParseModes \X Retrievers
    <3> QED BY <2>1
  <2>3. \A m, r : OfCell(m, r, AllFamilies) \subseteq AllFamilies
    BY DEF OfCell
  <2> QED BY <2>2, <2>3
<1>4. IsFiniteSet(AllFamilies)
  <2> DEFINE S == {OfCell(p[1], p[2], AllFamilies) : p \in ParseModes \X Retrievers}
             D == ParseModes \X Retrievers
             g == [p \in D |-> OfCell(p[1], p[2], AllFamilies)]
  <2>1. IsFiniteSet(D)
    <3>1. IsFiniteSet(ParseModes)
      <4>1. ParseModes = {"standard"} \cup {"enhanced"}
        BY DEF ParseModes
      <4> QED BY <4>1, FS_Singleton, FS_AddElement
    <3>2. IsFiniteSet(Retrievers)
      <4>1. Retrievers = ({"dense"} \cup {"bm25"}) \cup {"hybrid"}
        BY DEF Retrievers
      <4>2. IsFiniteSet({"dense"} \cup {"bm25"})
        BY FS_Singleton, FS_AddElement
      <4> QED BY <4>1, <4>2, FS_AddElement
    <3> QED BY <3>1, <3>2, FS_Product
  <2>2. g \in Surjection(D, S)
    <3>1. \A X \in S : \E p \in D : g[p] = X
      OBVIOUS
    <3>2. g \in [D -> S]
      OBVIOUS
    <3> HIDE DEF g, S, D
    <3> QED BY <3>1, <3>2 DEF Surjection
  <2>3. IsFiniteSet(S)
    <3> HIDE DEF g, S, D
    <3> QED BY <2>1, <2>2, FS_Surjection
  <2>4. \A X \in S : IsFiniteSet(X)
    <3>1. \A p \in D : p[1] \in ParseModes /\ p[2] \in Retrievers
      OBVIOUS
    <3> QED BY <1>2, <3>1
  <2>5. IsFiniteSet(UNION S)
    <3> HIDE DEF S
    <3> QED BY <2>3, <2>4, FS_UNION
  <2> QED BY <1>3, <2>5
<1> QED BY <1>2, <1>4

(* The numbers of families of a set, by cell, by mode and by retriever.    *)
LEMMA CountedByCell ==
    ASSUME NEW X \in SUBSET AllFamilies
    PROVE  /\ IsFiniteSet(X)
           /\ \A m \in ParseModes, r \in Retrievers :
                /\ Cardinality(OfCell(m, r, X)) \in Nat
                /\ Cardinality(OfCell(m, r, X)) <= Cardinality(Strategies)
           /\ \A m \in ParseModes : Cardinality(OfMode(m, X)) =
                (Cardinality(OfCell(m, "dense", X)) + Cardinality(OfCell(m, "bm25", X)))
                   + Cardinality(OfCell(m, "hybrid", X))
           /\ \A r \in Retrievers : Cardinality(OfRetriever(r, X)) =
                Cardinality(OfCell("standard", r, X)) + Cardinality(OfCell("enhanced", r, X))
           /\ Cardinality(X) = Cardinality(OfMode("standard", X)) + Cardinality(OfMode("enhanced", X))
<1>1. IsFiniteSet(X)
  BY CellsFinite, FS_Subset
<1>2. \A m, r : /\ IsFiniteSet(OfCell(m, r, X)) /\ IsFiniteSet(OfMode(m, X))
                /\ IsFiniteSet(OfRetriever(r, X))
  <2>1. \A m, r : /\ OfCell(m, r, X) \in SUBSET X /\ OfMode(m, X) \in SUBSET X
                  /\ OfRetriever(r, X) \in SUBSET X
    BY DEF OfCell, OfMode, OfRetriever
  <2> QED BY <1>1, <2>1, FS_Subset
<1>3. \A f \in X : f[1] \in ParseModes /\ f[3] \in Retrievers
  BY DEF AllFamilies
<1>4. ASSUME NEW m \in ParseModes, NEW r \in Retrievers
      PROVE  /\ Cardinality(OfCell(m, r, X)) \in Nat
             /\ Cardinality(OfCell(m, r, X)) <= Cardinality(Strategies)
  <2>1. OfCell(m, r, X) \in SUBSET OfCell(m, r, AllFamilies)
    BY DEF OfCell
  <2>2. OfCell(m, r, AllFamilies) \in SUBSET AllFamilies
    BY DEF OfCell
  <2>3. IsFiniteSet(OfCell(m, r, AllFamilies))
    BY <2>2, CellsFinite, FS_Subset
  <2>4. Cardinality(OfCell(m, r, X)) <= Cardinality(OfCell(m, r, AllFamilies))
    BY <2>1, <2>3, FS_Subset
  <2> QED BY <1>2, <2>4, CellsFinite, FS_CardinalityType
<1>5. ASSUME NEW m \in ParseModes
      PROVE  Cardinality(OfMode(m, X)) =
                (Cardinality(OfCell(m, "dense", X)) + Cardinality(OfCell(m, "bm25", X)))
                   + Cardinality(OfCell(m, "hybrid", X))
  <2>1. OfMode(m, X) = (OfCell(m, "dense", X) \cup OfCell(m, "bm25", X)) \cup OfCell(m, "hybrid", X)
    BY <1>3 DEF OfMode, OfCell, Retrievers
  <2>2. OfCell(m, "dense", X) \cap OfCell(m, "bm25", X) = {}
    BY DEF OfCell
  <2>3. (OfCell(m, "dense", X) \cup OfCell(m, "bm25", X)) \cap OfCell(m, "hybrid", X) = {}
    BY DEF OfCell
  <2>4. /\ IsFiniteSet(OfCell(m, "dense", X) \cup OfCell(m, "bm25", X))
        /\ Cardinality(OfCell(m, "dense", X) \cup OfCell(m, "bm25", X))
             = Cardinality(OfCell(m, "dense", X)) + Cardinality(OfCell(m, "bm25", X))
    BY <1>2, <2>2, UnionOfTwo
  <2>5. Cardinality((OfCell(m, "dense", X) \cup OfCell(m, "bm25", X)) \cup OfCell(m, "hybrid", X))
          = Cardinality(OfCell(m, "dense", X) \cup OfCell(m, "bm25", X)) + Cardinality(OfCell(m, "hybrid", X))
    BY <1>2, <2>3, <2>4, UnionOfTwo
  <2> QED BY <2>1, <2>4, <2>5
<1>6. ASSUME NEW r \in Retrievers
      PROVE  Cardinality(OfRetriever(r, X)) =
                Cardinality(OfCell("standard", r, X)) + Cardinality(OfCell("enhanced", r, X))
  <2>1. OfRetriever(r, X) = OfCell("standard", r, X) \cup OfCell("enhanced", r, X)
    BY <1>3 DEF OfRetriever, OfCell, ParseModes
  <2>2. OfCell("standard", r, X) \cap OfCell("enhanced", r, X) = {}
    BY DEF OfCell
  <2> QED BY <1>2, <2>1, <2>2, UnionOfTwo
<1>7. Cardinality(X) = Cardinality(OfMode("standard", X)) + Cardinality(OfMode("enhanced", X))
  <2>1. X = OfMode("standard", X) \cup OfMode("enhanced", X)
    BY <1>3 DEF OfMode, ParseModes
  <2>2. OfMode("standard", X) \cap OfMode("enhanced", X) = {}
    BY DEF OfMode
  <2> QED BY <1>2, <2>1, <2>2, UnionOfTwo
<1> QED BY <1>1, <1>4, <1>5, <1>6, <1>7

(* The cap is half the size, rounded up.                                   *)
LEMMA CapIs ==
    ASSUME NEW size \in Nat
    PROVE  Cap(size) \in Nat /\ 2 * Cap(size) >= size /\ 2 * Cap(size) <= size + 1
BY DEF Cap

(* Six cells, each of which is full or of a mode or a retriever at its     *)
(* cap, hold enough families.                                              *)
LEMMA CellsSuffice ==
    ASSUME NEW S \in Nat, NEW size \in Nat, size <= 6 * S,
           NEW cap \in Nat, 2 * cap >= size, 2 * cap <= size + 1,
           NEW sd \in 0..S, NEW sb \in 0..S, NEW sh \in 0..S,
           NEW ed \in 0..S, NEW eb \in 0..S, NEW eh \in 0..S,
           sd + sb + sh <= cap, ed + eb + eh <= cap,
           sd + ed <= cap, sb + eb <= cap, sh + eh <= cap,
           sd = S \/ sd + sb + sh = cap \/ sd + ed = cap,
           sb = S \/ sd + sb + sh = cap \/ sb + eb = cap,
           sh = S \/ sd + sb + sh = cap \/ sh + eh = cap,
           ed = S \/ ed + eb + eh = cap \/ sd + ed = cap,
           eb = S \/ ed + eb + eh = cap \/ sb + eb = cap,
           eh = S \/ ed + eb + eh = cap \/ sh + eh = cap
    PROVE  (sd + sb + sh) + (ed + eb + eh) >= size
OBVIOUS

(* What is chosen of the first k families.                                 *)
ChosenSoFar(C, F, n, size, k) ==
    /\ C[k] \in SUBSET AllFamilies /\ IsFiniteSet(C[k]) /\ Cardinality(C[k]) <= size
    /\ \A m \in ParseModes : Cardinality(OfMode(m, C[k])) <= Cap(size)
    /\ \A r \in Retrievers : Cardinality(OfRetriever(r, C[k])) <= Cap(size)
    /\ \A j \in 0..k : C[j] \subseteq C[k]
    /\ \A j \in 1..n : F[j] \in C[k] => j <= k /\ F[j] \in C[j]

(* What one more family adds to the numbers.                               *)
LEMMA NumberWithOneMore ==
    ASSUME NEW X \in SUBSET AllFamilies, IsFiniteSet(X), NEW f \in AllFamilies, f \notin X
    PROVE  /\ IsFiniteSet(X \cup {f}) /\ Cardinality(X) \in Nat
           /\ Cardinality(X \cup {f}) = Cardinality(X) + 1
           /\ \A m : /\ Cardinality(OfMode(m, X)) \in Nat
                     /\ Cardinality(OfMode(m, X \cup {f}))
                          = IF m = f[1] THEN Cardinality(OfMode(m, X)) + 1 ELSE Cardinality(OfMode(m, X))
           /\ \A r : /\ Cardinality(OfRetriever(r, X)) \in Nat
                     /\ Cardinality(OfRetriever(r, X \cup {f}))
                          = IF r = f[3] THEN Cardinality(OfRetriever(r, X)) + 1
                            ELSE Cardinality(OfRetriever(r, X))
<1>1. /\ IsFiniteSet(X \cup {f}) /\ Cardinality(X) \in Nat
      /\ Cardinality(X \cup {f}) = Cardinality(X) + 1
  BY FS_AddElement, FS_CardinalityType
<1>2. ASSUME NEW m
      PROVE  /\ Cardinality(OfMode(m, X)) \in Nat
             /\ Cardinality(OfMode(m, X \cup {f}))
                  = IF m = f[1] THEN Cardinality(OfMode(m, X)) + 1 ELSE Cardinality(OfMode(m, X))
  <2>1. OfMode(m, X) \in SUBSET X /\ f \notin OfMode(m, X)
    BY DEF OfMode
  <2>2. IsFiniteSet(OfMode(m, X)) /\ Cardinality(OfMode(m, X)) \in Nat
    BY <2>1, FS_Subset, FS_CardinalityType
  <2>3. CASE m = f[1]
    <3>1. OfMode(m, X \cup {f}) = OfMode(m, X) \cup {f}
      BY <2>3 DEF OfMode
    <3> QED BY <2>1, <2>2, <2>3, <3>1, FS_AddElement
  <2>4. CASE m # f[1]
    <3>1. OfMode(m, X \cup {f}) = OfMode(m, X)
      BY <2>4 DEF OfMode
    <3> QED BY <2>2, <2>4, <3>1
  <2> QED BY <2>3, <2>4
<1>3. ASSUME NEW r
      PROVE  /\ Cardinality(OfRetriever(r, X)) \in Nat
             /\ Cardinality(OfRetriever(r, X \cup {f}))
                  = IF r = f[3] THEN Cardinality(OfRetriever(r, X)) + 1
                    ELSE Cardinality(OfRetriever(r, X))
  <2>1. OfRetriever(r, X) \in SUBSET X /\ f \notin OfRetriever(r, X)
    BY DEF OfRetriever
  <2>2. IsFiniteSet(OfRetriever(r, X)) /\ Cardinality(OfRetriever(r, X)) \in Nat
    BY <2>1, FS_Subset, FS_CardinalityType
  <2>3. CASE r = f[3]
    <3>1. OfRetriever(r, X \cup {f}) = OfRetriever(r, X) \cup {f}
      BY <2>3 DEF OfRetriever
    <3> QED BY <2>1, <2>2, <2>3, <3>1, FS_AddElement
  <2>4. CASE r # f[3]
    <3>1. OfRetriever(r, X \cup {f}) = OfRetriever(r, X)
      BY <2>4 DEF OfRetriever
    <3> QED BY <2>2, <2>4, <3>1
  <2> QED BY <2>3, <2>4
<1> QED BY <1>1, <1>2, <1>3

(* After every family the choice is within the size and the caps, and what *)
(* is chosen stays chosen.                                                 *)
LEMMA GreedyChooses ==
    ASSUME NEW F, NEW n, FamilySeq(F, n), NEW size \in Nat \ {0}, NEW C, Greedy(C, F, n, size)
    PROVE  \A k \in 0..n : ChosenSoFar(C, F, n, size, k)
<1> DEFINE T == {k \in 0..n : ChosenSoFar(C, F, n, size, k)}
<1>1. n \in Nat /\ \A k \in 1..n : F[k] \in AllFamilies
  BY DEF FamilySeq, Range, AllFamilies
<1>2. Cap(size) \in Nat
  BY CapIs
<1>3. 0 \in T
  <2>1. C[0] = {}
    BY DEF Greedy
  <2>2. \A m : OfMode(m, {}) = {} /\ OfRetriever(m, {}) = {}
    BY DEF OfMode, OfRetriever
  <2> QED BY <1>1, <1>2, <2>1, <2>2, FS_EmptySet DEF ChosenSoFar
<1>4. ASSUME NEW k \in 1..n, k - 1 \in T PROVE k \in T
  <2> DEFINE X == C[k - 1]
             f == F[k]
  <2>1. ChosenSoFar(C, F, n, size, k - 1) /\ k - 1 \in 0..n
    BY <1>4
  <2>2. X \in SUBSET AllFamilies /\ IsFiniteSet(X) /\ f \in AllFamilies
    BY <1>1, <2>1 DEF ChosenSoFar
  <2>3. f \notin X
    BY <2>1 DEF ChosenSoFar
  <2>4. C[k] = IF Room(X, f, size) THEN X \cup {f} ELSE X
    BY DEF Greedy
  <2>5. \A j \in 0..k : C[j] \subseteq C[k]
    <3>1. \A j \in 0..k : j \in 0..(k - 1) \/ j = k
      BY <1>1
    <3>2. \A j \in 0..(k - 1) : C[j] \subseteq X
      BY <2>1 DEF ChosenSoFar
    <3> QED BY <2>4, <3>1, <3>2
  <2>6. ASSUME NEW j \in 1..n, F[j] \in C[k] PROVE j <= k /\ F[j] \in C[j]
    <3>1. CASE F[j] \in X
      <4>1. j <= k - 1 /\ F[j] \in C[j]
        BY <2>1, <3>1 DEF ChosenSoFar
      <4> QED BY <1>1, <4>1
    <3>2. CASE F[j] \notin X
      <4>1. F[j] = F[k]
        BY <2>4, <2>6, <3>2
      <4>2. j = k
        BY <4>1 DEF FamilySeq
      <4> QED BY <1>1, <2>6, <4>2
    <3> QED BY <3>1, <3>2
  <2>7. /\ C[k] \in SUBSET AllFamilies /\ IsFiniteSet(C[k]) /\ Cardinality(C[k]) <= size
        /\ \A m \in ParseModes : Cardinality(OfMode(m, C[k])) <= Cap(size)
        /\ \A r \in Retrievers : Cardinality(OfRetriever(r, C[k])) <= Cap(size)
    <3>1. CASE ~Room(X, f, size)
      BY <2>1, <2>4, <3>1 DEF ChosenSoFar
    <3>2. CASE Room(X, f, size)
      <4>1. C[k] = X \cup {f}
        BY <2>4, <3>2
      <4>2. /\ Cardinality(X) < size /\ Cardinality(OfMode(f[1], X)) < Cap(size)
            /\ Cardinality(OfRetriever(f[3], X)) < Cap(size)
        BY <3>2 DEF Room
      <4> HIDE DEF X, f
      <4>3. /\ IsFiniteSet(X \cup {f}) /\ Cardinality(X) \in Nat
            /\ Cardinality(X \cup {f}) = Cardinality(X) + 1
            /\ \A m : /\ Cardinality(OfMode(m, X)) \in Nat
                      /\ Cardinality(OfMode(m, X \cup {f}))
                           = IF m = f[1] THEN Cardinality(OfMode(m, X)) + 1 ELSE Cardinality(OfMode(m, X))
            /\ \A r : /\ Cardinality(OfRetriever(r, X)) \in Nat
                      /\ Cardinality(OfRetriever(r, X \cup {f}))
                           = IF r = f[3] THEN Cardinality(OfRetriever(r, X)) + 1
                             ELSE Cardinality(OfRetriever(r, X))
        BY <2>2, <2>3, NumberWithOneMore
      <4>4. \A m \in ParseModes : Cardinality(OfMode(m, X)) <= Cap(size)
        BY <2>1 DEF ChosenSoFar, X
      <4>5. \A r \in Retrievers : Cardinality(OfRetriever(r, X)) <= Cap(size)
        BY <2>1 DEF ChosenSoFar, X
      <4>6. Cardinality(X \cup {f}) <= size
        BY <4>2, <4>3
      <4>7. \A m \in ParseModes : Cardinality(OfMode(m, X \cup {f})) <= Cap(size)
        BY <1>2, <4>2, <4>3, <4>4
      <4>8. \A r \in Retrievers : Cardinality(OfRetriever(r, X \cup {f})) <= Cap(size)
        BY <1>2, <4>2, <4>3, <4>5
      <4> QED BY <2>2, <4>1, <4>3, <4>6, <4>7, <4>8
    <3> QED BY <3>1, <3>2
  <2>8. ChosenSoFar(C, F, n, size, k)
    BY <2>5, <2>6, <2>7 DEF ChosenSoFar
  <2> QED BY <2>8
<1> HIDE DEF T
<1>5. \A k \in 0..n : k \in T
  BY <1>1, <1>3, <1>4, TimesFold!IntervalInduction
<1> QED BY <1>5 DEF T

(* A family that is passed over was passed over for lack of room.          *)
LEMMA PassedOver ==
    ASSUME NEW F, NEW n, FamilySeq(F, n), NEW size \in Nat \ {0}, NEW C, Greedy(C, F, n, size),
           NEW k \in 1..n, F[k] \notin C[n]
    PROVE  ~Room(C[k - 1], F[k], size)
<1>1. n \in Nat
  BY DEF FamilySeq
<1>2. ChosenSoFar(C, F, n, size, n)
  BY <1>1, GreedyChooses
<1>3. k \in 0..n
  BY <1>1
<1>4. C[k] \subseteq C[n]
  BY <1>2, <1>3 DEF ChosenSoFar
<1> QED BY <1>4 DEF Greedy

(* The greedy choice is as large as was asked for: every cell of families  *)
(* that is not exhausted is of a mode or a retriever at its cap.           *)
LEMMA GreedyEnough ==
    ASSUME NEW F, NEW n, FamilySeq(F, n), NEW size \in Nat \ {0}, size <= Cardinality(AllFamilies),
           NEW C, Greedy(C, F, n, size)
    PROVE  Cardinality(C[n]) = size
<1> DEFINE X == C[n]
           cap == Cap(size)
           S == Cardinality(Strategies)
           N(m, r) == Cardinality(OfCell(m, r, X))
<1>1. n \in Nat
  BY DEF FamilySeq
<1>2. ChosenSoFar(C, F, n, size, n)
  BY <1>1, GreedyChooses
<1>3. X \in SUBSET AllFamilies /\ IsFiniteSet(X) /\ Cardinality(X) \in Nat /\ Cardinality(X) <= size
  BY <1>2, FS_CardinalityType DEF ChosenSoFar
<1>4. SUFFICES ASSUME Cardinality(X) < size PROVE FALSE
  BY <1>3
<1> HIDE DEF X
<1>5. S \in Nat /\ cap \in Nat /\ 2 * cap >= size /\ 2 * cap <= size + 1
  BY SelectionAssumption, FS_CardinalityType, CapIs
<1>6. /\ \A m \in ParseModes, r \in Retrievers : N(m, r) \in Nat /\ N(m, r) <= S
      /\ \A m \in ParseModes :
           Cardinality(OfMode(m, X)) = (N(m, "dense") + N(m, "bm25")) + N(m, "hybrid")
      /\ \A r \in Retrievers :
           Cardinality(OfRetriever(r, X)) = N("standard", r) + N("enhanced", r)
      /\ Cardinality(X) = Cardinality(OfMode("standard", X)) + Cardinality(OfMode("enhanced", X))
  BY <1>3, CountedByCell
<1>7. /\ \A m \in ParseModes : Cardinality(OfMode(m, X)) <= cap
      /\ \A r \in Retrievers : Cardinality(OfRetriever(r, X)) <= cap
  BY <1>2 DEF ChosenSoFar, X
<1>8. ASSUME NEW m \in ParseModes, NEW r \in Retrievers
      PROVE  \/ N(m, r) = S
             \/ Cardinality(OfMode(m, X)) = cap
             \/ Cardinality(OfRetriever(r, X)) = cap
  <2>1. SUFFICES ASSUME N(m, r) # S
                 PROVE  Cardinality(OfMode(m, X)) = cap \/ Cardinality(OfRetriever(r, X)) = cap
    OBVIOUS
  <2>2. OfCell(m, r, X) # OfCell(m, r, AllFamilies)
    BY <2>1, CellsFinite
  <2>3. PICK f \in OfCell(m, r, AllFamilies) : f \notin X
    BY <1>3, <2>2 DEF OfCell
  <2>4. f \in AllFamilies /\ f[1] = m /\ f[3] = r
    BY <2>3 DEF OfCell
  <2>5. PICK k \in 1..n : F[k] = f
    BY <2>4 DEF FamilySeq, Range, AllFamilies
  <2>6. ~Room(C[k - 1], f, size)
    BY <2>3, <2>5, PassedOver DEF X
  <2>7. k - 1 \in 0..n
    BY <1>1
  <2>8. C[k - 1] \subseteq X
    BY <1>2, <2>7 DEF ChosenSoFar, X
  <2>9. Cardinality(C[k - 1]) <= Cardinality(X) /\ IsFiniteSet(C[k - 1])
    BY <1>3, <2>8, FS_Subset
  <2>10. Cardinality(C[k - 1]) < size
    <3>1. Cardinality(C[k - 1]) \in Nat
      BY <2>9, FS_CardinalityType
    <3> QED BY <1>3, <1>4, <2>9, <3>1
  <2>11. Cardinality(OfMode(m, C[k - 1])) <= Cardinality(OfMode(m, X))
         /\ Cardinality(OfMode(m, C[k - 1])) \in Nat /\ Cardinality(OfMode(m, X)) \in Nat
    <3>1. OfMode(m, C[k - 1]) \in SUBSET OfMode(m, X) /\ OfMode(m, X) \in SUBSET X
      BY <2>8 DEF OfMode
    <3>2. IsFiniteSet(OfMode(m, X))
      BY <1>3, <3>1, FS_Subset
    <3> QED BY <3>1, <3>2, FS_Subset, FS_CardinalityType
  <2>12. Cardinality(OfRetriever(r, C[k - 1])) <= Cardinality(OfRetriever(r, X))
         /\ Cardinality(OfRetriever(r, C[k - 1])) \in Nat /\ Cardinality(OfRetriever(r, X)) \in Nat
    <3>1. OfRetriever(r, C[k - 1]) \in SUBSET OfRetriever(r, X) /\ OfRetriever(r, X) \in SUBSET X
      BY <2>8 DEF OfRetriever
    <3>2. IsFiniteSet(OfRetriever(r, X))
      BY <1>3, <3>1, FS_Subset
    <3> QED BY <3>1, <3>2, FS_Subset, FS_CardinalityType
  <2>13. Cardinality(OfMode(m, C[k - 1])) >= cap \/ Cardinality(OfRetriever(r, C[k - 1])) >= cap
    BY <1>5, <2>4, <2>6, <2>10, <2>11, <2>12 DEF Room
  <2> QED BY <1>5, <1>7, <2>11, <2>12, <2>13
<1>9. size <= 6 * S
  <2>1. AllFamilies \in SUBSET AllFamilies
    OBVIOUS
  <2> DEFINE M(m, r) == Cardinality(OfCell(m, r, AllFamilies))
  <2>2. /\ \A m \in ParseModes, r \in Retrievers : M(m, r) \in Nat /\ M(m, r) <= S
        /\ \A m \in ParseModes :
             Cardinality(OfMode(m, AllFamilies)) = (M(m, "dense") + M(m, "bm25")) + M(m, "hybrid")
        /\ Cardinality(AllFamilies)
             = Cardinality(OfMode("standard", AllFamilies)) + Cardinality(OfMode("enhanced", AllFamilies))
    BY <2>1, CountedByCell
  <2> HIDE DEF M, S
  <2> QED BY <1>5, <2>2 DEF ParseModes, Retrievers
<1> DEFINE sd == N("standard", "dense")
           sb == N("standard", "bm25")
           sh == N("standard", "hybrid")
           ed == N("enhanced", "dense")
           eb == N("enhanced", "bm25")
           eh == N("enhanced", "hybrid")
<1> HIDE DEF N, S, cap
<1>10. /\ sd \in 0..S /\ sb \in 0..S /\ sh \in 0..S /\ ed \in 0..S /\ eb \in 0..S /\ eh \in 0..S
  BY <1>5, <1>6 DEF ParseModes, Retrievers
<1>11. /\ sd + sb + sh <= cap /\ ed + eb + eh <= cap
       /\ sd + ed <= cap /\ sb + eb <= cap /\ sh + eh <= cap
  BY <1>6, <1>7 DEF ParseModes, Retrievers
<1>12. /\ sd = S \/ sd + sb + sh = cap \/ sd + ed = cap
       /\ sb = S \/ sd + sb + sh = cap \/ sb + eb = cap
       /\ sh = S \/ sd + sb + sh = cap \/ sh + eh = cap
       /\ ed = S \/ ed + eb + eh = cap \/ sd + ed = cap
       /\ eb = S \/ ed + eb + eh = cap \/ sb + eb = cap
       /\ eh = S \/ ed + eb + eh = cap \/ sh + eh = cap
  BY <1>6, <1>8 DEF ParseModes, Retrievers
<1>13. Cardinality(X) = (sd + sb + sh) + (ed + eb + eh)
  BY <1>6 DEF ParseModes
<1> HIDE DEF sd, sb, sh, ed, eb, eh
<1>14. (sd + sb + sh) + (ed + eb + eh) >= size
  BY <1>5, <1>9, <1>10, <1>11, <1>12, CellsSuffice
<1> QED BY <1>3, <1>4, <1>13, <1>14

(* The best family that the chosen and another diverse set do not share is *)
(* a chosen one: there was room for it.                                    *)
LEMMA GreedyBest ==
    ASSUME NEW F, NEW n, FamilySeq(F, n), NEW size \in Nat \ {0}, NEW C, Greedy(C, F, n, size),
           NEW other \in SUBSET AllFamilies, Cardinality(other) = size,
           Diverse(other, size), other # C[n]
    PROVE  F[Min({i \in 1..n : (F[i] \in C[n]) # (F[i] \in other)})] \in C[n]
<1> DEFINE U == {i \in 1..n : (F[i] \in C[n]) # (F[i] \in other)}
           x == Min(U)
<1>1. n \in Nat /\ \A f \in AllFamilies : \E i \in 1..n : F[i] = f
  BY DEF FamilySeq, Range, AllFamilies
<1>2. ChosenSoFar(C, F, n, size, n)
  BY <1>1, GreedyChooses
<1>3. U # {} /\ U \in SUBSET (0..n)
  <2>1. C[n] \in SUBSET AllFamilies
    BY <1>2 DEF ChosenSoFar
  <2>2. PICK f \in AllFamilies : (f \in C[n]) # (f \in other)
    BY <2>1
  <2>3. PICK i \in 1..n : F[i] = f
    BY <1>1, <2>2
  <2>4. i \in U
    BY <2>2, <2>3
  <2> QED BY <1>1, <2>4
<1>4. x \in U /\ \A y \in U : x =< y
  <2> HIDE DEF U
  <2> QED BY <1>1, <1>3, MinOf
<1>5. SUFFICES ASSUME F[x] \notin C[n] PROVE FALSE
  OBVIOUS
<1>6. x \in 1..n /\ F[x] \in other /\ \A i \in 1..(x - 1) : F[i] \in C[n] <=> F[i] \in other
  <2>1. x \in 1..n /\ (F[x] \in C[n]) # (F[x] \in other)
    BY <1>4
  <2>2. ASSUME NEW i \in 1..(x - 1) PROVE F[i] \in C[n] <=> F[i] \in other
    <3>1. i \in 1..n /\ i < x
      BY <1>1, <2>1
    <3>2. i \notin U
      <4> HIDE DEF U, x
      <4> QED BY <1>1, <1>4, <2>1, <3>1
    <3> QED BY <3>1, <3>2
  <2> QED BY <1>5, <2>1, <2>2
<1> HIDE DEF x, U
<1>7. ~Room(C[x - 1], F[x], size)
  BY <1>5, <1>6, PassedOver
<1> DEFINE X == C[x - 1]
           f == F[x]
<1>8. x - 1 \in 0..n /\ n \in 0..n
  BY <1>1, <1>6
<1>9. ChosenSoFar(C, F, n, size, x - 1)
  BY <1>8, GreedyChooses
<1>10. X \in SUBSET AllFamilies /\ IsFiniteSet(X) /\ f \in AllFamilies /\ f \notin X
  <2>1. X \subseteq C[n]
    BY <1>2, <1>8 DEF ChosenSoFar
  <2> QED BY <1>5, <1>6, <1>9, <2>1 DEF ChosenSoFar
<1>11. X \cup {f} \in SUBSET other
  <2>1. ASSUME NEW g \in X PROVE g \in other
    <3>1. PICK i \in 1..n : F[i] = g
      BY <1>1, <1>10
    <3>2. i <= x - 1
      BY <1>9, <3>1 DEF ChosenSoFar
    <3>3. i \in 1..(x - 1)
      BY <1>1, <1>6, <3>1, <3>2
    <3>4. g \in C[n]
      BY <1>2, <1>8 DEF ChosenSoFar
    <3> QED BY <1>6, <3>1, <3>3, <3>4
  <2> QED BY <1>6, <2>1
<1>12. IsFiniteSet(other)
  BY CellsFinite, FS_Subset
<1> HIDE DEF X, f
<1>13. /\ IsFiniteSet(X \cup {f}) /\ Cardinality(X) \in Nat
       /\ Cardinality(X \cup {f}) = Cardinality(X) + 1
       /\ \A m : /\ Cardinality(OfMode(m, X)) \in Nat
                 /\ Cardinality(OfMode(m, X \cup {f}))
                      = IF m = f[1] THEN Cardinality(OfMode(m, X)) + 1 ELSE Cardinality(OfMode(m, X))
       /\ \A r : /\ Cardinality(OfRetriever(r, X)) \in Nat
                 /\ Cardinality(OfRetriever(r, X \cup {f}))
                      = IF r = f[3] THEN Cardinality(OfRetriever(r, X)) + 1
                        ELSE Cardinality(OfRetriever(r, X))
  BY <1>10, NumberWithOneMore
<1>14. Cardinality(X) < size
  <2>1. Cardinality(X \cup {f}) <= size
    BY <1>11, <1>12, FS_Subset
  <2> QED BY <1>13, <2>1
<1>15. Cap(size) \in Nat
  BY CapIs
<1>16. Cardinality(OfMode(f[1], X)) < Cap(size)
  <2>1. OfMode(f[1], X \cup {f}) \in SUBSET OfMode(f[1], other) /\ OfMode(f[1], other) \in SUBSET other
    BY <1>11 DEF OfMode
  <2>2. IsFiniteSet(OfMode(f[1], other))
    BY <1>12, <2>1, FS_Subset
  <2>3. Cardinality(OfMode(f[1], X \cup {f})) <= Cardinality(OfMode(f[1], other))
        /\ Cardinality(OfMode(f[1], other)) \in Nat
    BY <2>1, <2>2, FS_Subset, FS_CardinalityType
  <2>4. f[1] \in ParseModes
    BY <1>10 DEF AllFamilies
  <2>5. Cardinality(OfMode(f[1], other)) <= Cap(size)
    BY <2>4 DEF Diverse, OfMode
  <2>6. Cardinality(OfMode(f[1], X \cup {f})) = Cardinality(OfMode(f[1], X)) + 1
        /\ Cardinality(OfMode(f[1], X)) \in Nat
    BY <1>13
  <2> QED BY <1>15, <2>3, <2>5, <2>6
<1>17. Cardinality(OfRetriever(f[3], X)) < Cap(size)
  <2>1. /\ OfRetriever(f[3], X \cup {f}) \in SUBSET OfRetriever(f[3], other)
        /\ OfRetriever(f[3], other) \in SUBSET other
    BY <1>11 DEF OfRetriever
  <2>2. IsFiniteSet(OfRetriever(f[3], other))
    BY <1>12, <2>1, FS_Subset
  <2>3. Cardinality(OfRetriever(f[3], X \cup {f})) <= Cardinality(OfRetriever(f[3], other))
        /\ Cardinality(OfRetriever(f[3], other)) \in Nat
    BY <2>1, <2>2, FS_Subset, FS_CardinalityType
  <2>4. f[3] \in Retrievers
    BY <1>10 DEF AllFamilies
  <2>5. Cardinality(OfRetriever(f[3], other)) <= Cap(size)
    BY <2>4 DEF Diverse, OfRetriever
  <2>6. Cardinality(OfRetriever(f[3], X \cup {f})) = Cardinality(OfRetriever(f[3], X)) + 1
        /\ Cardinality(OfRetriever(f[3], X)) \in Nat
    BY <1>13
  <2> QED BY <1>15, <2>3, <2>5, <2>6
<1> QED BY <1>7, <1>14, <1>16, <1>17 DEF Room, X, f

(* So are the best outcome of each family and what is taken of them.       *)
RankNext(ctx, some, o) == Best(some, o)
RankFold == INSTANCE FoldFacts WITH Op <- RankNext
TakeFold == INSTANCE FoldFacts WITH Op <- Take

(* The ranked outcomes are what their fold computes.                       *)
LEMMA RankedIsFold ==
    ASSUME NEW outcomes
    PROVE  Ranked(outcomes) = RankFold!Fold(<<>>, <<>>, outcomes)
BY DEF Ranked, RankNext, FoldLeft, MapThenFoldSet, Max, RankFold!Fold, RankFold!Folds,
       RankFold!Largest

(* The selection of Shortlist.                                             *)
Selected(outcomes, size) ==
    FoldLeft(LAMBDA some, o : Take(size, some, o), <<>>, Ranked(outcomes))

LEMMA SelectedIsFold ==
    ASSUME NEW outcomes, NEW size
    PROVE  Selected(outcomes, size) = TakeFold!Fold(size, <<>>, Ranked(outcomes))
BY DEF Selected, FoldLeft, MapThenFoldSet, Max, TakeFold!Fold, TakeFold!Folds, TakeFold!Largest

(* What a sequence is with one element more.                               *)
LEMMA AppendIs ==
    ASSUME NEW S, NEW some \in Seq(S), NEW o \in S, NEW all, all = Append(some, o)
    PROVE  /\ Len(some) \in Nat /\ DOMAIN some = 1..Len(some)
           /\ all \in Seq(S) /\ Len(all) = Len(some) + 1 /\ DOMAIN all = 1..(Len(some) + 1)
           /\ \A a \in 1..Len(some) : all[a] = some[a] /\ a # Len(some) + 1
           /\ all[Len(some) + 1] = o
OBVIOUS

(* The first outcome of each family, so far.                               *)
FirstOfEach(outcomes, some, k) ==
    /\ some \in Seq(Range(outcomes))
    /\ \A a \in 1..Len(some) : some[a].topK = ScoredTopK
    /\ \A a, b \in 1..Len(some) : Family(some[a]) = Family(some[b]) => a = b
    /\ \A j \in 1..k : outcomes[j].topK = ScoredTopK =>
         \E a \in 1..Len(some) : Family(some[a]) = Family(outcomes[j])

(* The ranked outcomes have every family that was scored once.             *)
LEMMA RankedWell ==
    ASSUME NEW outcomes, NEW L \in Nat, DOMAIN outcomes = 1..L
    PROVE  FirstOfEach(outcomes, Ranked(outcomes), L)
<1>1. PICK r : RankFold!Steps(r, <<>>, <<>>, L, outcomes) /\ r[L] = RankFold!Fold(<<>>, <<>>, outcomes)
  BY RankFold!FoldTrace
<1>2. r[0] = <<>> /\ \A k \in 1..L : r[k] = Best(r[k - 1], outcomes[k])
  BY <1>1 DEF RankFold!Steps, RankNext
<1> DEFINE T == {k \in 0..L : FirstOfEach(outcomes, r[k], k)}
<1>3. 0 \in T
  <2>1. FirstOfEach(outcomes, <<>>, 0)
    BY DEF FirstOfEach
  <2> QED BY <1>2, <2>1
<1>4. ASSUME NEW k \in 1..L, k - 1 \in T PROVE k \in T
  <2> DEFINE some == r[k - 1]
             o == outcomes[k]
             S == Range(outcomes)
  <2>1. FirstOfEach(outcomes, some, k - 1)
    BY <1>4
  <2>2. o \in S
    BY DEF Range
  <2>3. some \in Seq(S) /\ Len(some) \in Nat /\ DOMAIN some = 1..Len(some)
    BY <2>1 DEF FirstOfEach
  <2>4. \A j \in 1..k : j \in 1..(k - 1) \/ j = k
    OBVIOUS
  <2>5. r[k] = IF o.topK # ScoredTopK \/ \E i \in DOMAIN some : Family(some[i]) = Family(o)
               THEN some ELSE Append(some, o)
    BY <1>2 DEF Best
  <2>6. CASE o.topK # ScoredTopK \/ \E i \in DOMAIN some : Family(some[i]) = Family(o)
    <3>1. r[k] = some
      BY <2>5, <2>6
    <3>2. o.topK = ScoredTopK => \E a \in 1..Len(some) : Family(some[a]) = Family(o)
      BY <2>3, <2>6
    <3> HIDE DEF some, S
    <3>3. FirstOfEach(outcomes, some, k)
      BY <2>1, <2>4, <3>2 DEF FirstOfEach
    <3> QED BY <3>1, <3>3
  <2>7. CASE ~(o.topK # ScoredTopK \/ \E i \in DOMAIN some : Family(some[i]) = Family(o))
    <3>1. r[k] = Append(some, o)
      BY <2>5, <2>7
    <3>2. o.topK = ScoredTopK /\ \A i \in 1..Len(some) : Family(some[i]) # Family(o)
      BY <2>3, <2>7
    <3> DEFINE all == Append(some, o)
               n == Len(some)
    <3>3. /\ all \in Seq(S) /\ Len(all) = n + 1 /\ DOMAIN all = 1..(n + 1)
          /\ \A a \in 1..n : all[a] = some[a] /\ a # n + 1
          /\ all[n + 1] = o
      <4> HIDE DEF S, some, o
      <4> QED BY <2>2, <2>3, AppendIs
    <3> HIDE DEF all, some, o
    <3>4. \A a \in 1..(n + 1) : a \in 1..n \/ a = n + 1
      BY <2>3
    <3>5. \A a \in 1..n : a \in 1..(n + 1)
      BY <2>3
    <3>6. \A a \in 1..(n + 1) : all[a].topK = ScoredTopK
      BY <2>1, <3>2, <3>3, <3>4 DEF FirstOfEach
    <3>7. \A a, b \in 1..(n + 1) : Family(all[a]) = Family(all[b]) => a = b
      BY <2>1, <3>2, <3>3, <3>4 DEF FirstOfEach
    <3>8. ASSUME NEW j \in 1..k, outcomes[j].topK = ScoredTopK
          PROVE  \E a \in 1..(n + 1) : Family(all[a]) = Family(outcomes[j])
      <4>1. CASE j = k
        <5>1. Family(all[n + 1]) = Family(outcomes[j]) /\ n + 1 \in 1..(n + 1)
          BY <2>3, <3>3, <4>1 DEF o
        <5> QED BY <5>1
      <4>2. CASE j \in 1..(k - 1)
        <5>1. PICK a \in 1..n : Family(some[a]) = Family(outcomes[j])
          BY <2>1, <3>8, <4>2 DEF FirstOfEach
        <5> QED BY <3>3, <3>5, <5>1
      <4> QED BY <2>4, <4>1, <4>2
    <3>9. FirstOfEach(outcomes, all, k)
      BY <3>3, <3>6, <3>7, <3>8 DEF FirstOfEach
    <3>10. FirstOfEach(outcomes, r[k], k)
      BY <3>1, <3>9 DEF all
    <3> QED BY <3>10
  <2> QED BY <2>6, <2>7
<1> HIDE DEF T
<1>5. \A k \in 0..L : k \in T
  BY <1>3, <1>4, RankFold!IntervalInduction
<1>6. L \in T
  BY <1>5
<1> QED BY <1>1, <1>6, RankedIsFold DEF T

FamiliesIn(some) == {Family(some[a]) : a \in DOMAIN some}

(* Outcomes of distinct families are as many as their families, and so are *)
(* those of a parse mode and of a retriever.                               *)
LEMMA CountByFamily ==
    ASSUME NEW S, NEW some \in Seq(S),
           \A a, b \in 1..Len(some) : Family(some[a]) = Family(some[b]) => a = b
    PROVE  /\ Len(some) = Cardinality(FamiliesIn(some))
           /\ \A m : Cardinality({i \in DOMAIN some : some[i].mode = m})
                       = Cardinality(OfMode(m, FamiliesIn(some)))
           /\ \A r : Cardinality({i \in DOMAIN some : some[i].retriever = r})
                       = Cardinality(OfRetriever(r, FamiliesIn(some)))
<1>1. Len(some) \in Nat /\ DOMAIN some = 1..Len(some)
  OBVIOUS
<1>2. IsFiniteSet(1..Len(some)) /\ Cardinality(1..Len(some)) = Len(some)
  <2>1. 1 \in Int /\ Len(some) \in Int
    BY <1>1
  <2>2. Cardinality(1..Len(some)) = IF 1 > Len(some) THEN 0 ELSE Len(some) - 1 + 1
    BY <2>1, FS_Interval
  <2> QED BY <1>1, <2>1, <2>2, FS_Interval
<1>3. ASSUME NEW I \in SUBSET (1..Len(some)), NEW X, X = {Family(some[i]) : i \in I}
      PROVE  Cardinality(I) = Cardinality(X)
  <2> DEFINE g == [i \in I |-> Family(some[i])]
  <2>1. g \in [I -> X] /\ \A x \in X : \E i \in I : g[i] = x
    BY <1>3
  <2>2. \A i, j \in I : g[i] = g[j] => i = j
    OBVIOUS
  <2>3. DOMAIN g = I
    OBVIOUS
  <2> HIDE DEF g
  <2>4. g \in Bijection(I, X)
    BY <2>1, <2>2, <2>3 DEF Bijection, Injection, Surjection, IsInjective
  <2>5. ExistsBijection(I, X)
    BY <2>4 DEF ExistsBijection
  <2>6. IsFiniteSet(I)
    BY <1>2, FS_Subset
  <2> QED BY <2>5, <2>6, FS_Bijection
<1>4. Len(some) = Cardinality(FamiliesIn(some))
  BY <1>1, <1>2, <1>3 DEF FamiliesIn
<1>5. ASSUME NEW m
      PROVE  Cardinality({i \in DOMAIN some : some[i].mode = m}) = Cardinality(OfMode(m, FamiliesIn(some)))
  <2> DEFINE I == {i \in DOMAIN some : some[i].mode = m}
  <2>1. I \in SUBSET (1..Len(some))
    BY <1>1
  <2>2. \A o : Family(o)[1] = o.mode
    BY DEF Family
  <2>3. OfMode(m, FamiliesIn(some)) = {Family(some[i]) : i \in I}
    BY <2>2 DEF OfMode, FamiliesIn
  <2> HIDE DEF I
  <2>4. Cardinality(I) = Cardinality(OfMode(m, FamiliesIn(some)))
    BY <1>3, <2>1, <2>3
  <2> QED BY <2>4 DEF I
<1>6. ASSUME NEW r
      PROVE  Cardinality({i \in DOMAIN some : some[i].retriever = r})
               = Cardinality(OfRetriever(r, FamiliesIn(some)))
  <2> DEFINE I == {i \in DOMAIN some : some[i].retriever = r}
  <2>1. I \in SUBSET (1..Len(some))
    BY <1>1
  <2>2. \A o : Family(o)[3] = o.retriever
    BY DEF Family
  <2>3. OfRetriever(r, FamiliesIn(some)) = {Family(some[i]) : i \in I}
    BY <2>2 DEF OfRetriever, FamiliesIn
  <2> HIDE DEF I
  <2>4. Cardinality(I) = Cardinality(OfRetriever(r, FamiliesIn(some)))
    BY <1>3, <2>1, <2>3
  <2> QED BY <2>4 DEF I
<1> QED BY <1>4, <1>5, <1>6

(* What is taken of the first k outcomes.                                  *)
TakenSoFar(ranked, some, k) ==
    /\ some \in Seq(Range(ranked))
    /\ \A a \in 1..Len(some) : \E j \in 1..k : some[a] = ranked[j]
    /\ \A a, b \in 1..Len(some) : Family(some[a]) = Family(some[b]) => a = b

(* The outcomes taken are of the families the greedy choice takes.         *)
LEMMA TakesGreedily ==
    ASSUME NEW ranked, NEW n, NEW F, F = [i \in DOMAIN ranked |-> Family(ranked[i])],
           DOMAIN ranked = 1..n, FamilySeq(F, n), NEW size \in Nat \ {0}
    PROVE  \E C : /\ Greedy(C, F, n, size)
                  /\ TakenSoFar(ranked, TakeFold!Fold(size, <<>>, ranked), n)
                  /\ C[n] = FamiliesIn(TakeFold!Fold(size, <<>>, ranked))
<1>1. n \in Nat /\ \A i \in 1..n : F[i] = Family(ranked[i])
  BY DEF FamilySeq
<1>2. PICK t : TakeFold!Steps(t, size, <<>>, n, ranked) /\ t[n] = TakeFold!Fold(size, <<>>, ranked)
  BY <1>1, TakeFold!FoldTrace
<1>3. t[0] = <<>> /\ \A k \in 1..n : t[k] = Take(size, t[k - 1], ranked[k])
  BY <1>2 DEF TakeFold!Steps
<1> DEFINE T == {k \in 0..n : TakenSoFar(ranked, t[k], k)}
           S == Range(ranked)
<1>4. 0 \in T
  <2>1. TakenSoFar(ranked, <<>>, 0)
    BY DEF TakenSoFar
  <2> QED BY <1>1, <1>3, <2>1
<1>5. ASSUME NEW k \in 1..n, k - 1 \in T
      PROVE  TakenSoFar(ranked, t[k - 1], k - 1) /\ Family(ranked[k]) \notin FamiliesIn(t[k - 1])
  <2>1. TakenSoFar(ranked, t[k - 1], k - 1)
    BY <1>5
  <2>2. ASSUME NEW a \in DOMAIN t[k - 1], Family(t[k - 1][a]) = Family(ranked[k]) PROVE FALSE
    <3>1. a \in 1..Len(t[k - 1])
      BY <2>1 DEF TakenSoFar
    <3>2. PICK j \in 1..(k - 1) : t[k - 1][a] = ranked[j]
      BY <2>1, <3>1 DEF TakenSoFar
    <3>3. j \in 1..n /\ j # k
      BY <1>1
    <3>4. F[j] = F[k]
      BY <1>1, <2>2, <3>2, <3>3
    <3> QED BY <3>3, <3>4 DEF FamilySeq
  <2> QED BY <2>1, <2>2 DEF FamiliesIn
<1>6. ASSUME NEW k \in 1..n, k - 1 \in T PROVE k \in T
  <2> DEFINE some == t[k - 1]
             o == ranked[k]
  <2>1. TakenSoFar(ranked, some, k - 1) /\ Family(o) \notin FamiliesIn(some)
    BY <1>5, <1>6
  <2>2. o \in S
    BY DEF Range
  <2>3. some \in Seq(S) /\ Len(some) \in Nat /\ DOMAIN some = 1..Len(some)
    BY <2>1 DEF TakenSoFar
  <2>4. \A j \in 1..(k - 1) : j \in 1..k
    BY <1>1
  <2>5. t[k] = IF Len(some) < size /\ BelowCaps(some, o, size) THEN Append(some, o) ELSE some
    BY <1>3 DEF Take
  <2>6. CASE ~(Len(some) < size /\ BelowCaps(some, o, size))
    <3>1. t[k] = some
      BY <2>5, <2>6
    <3> HIDE DEF some
    <3>2. TakenSoFar(ranked, some, k)
      BY <2>1, <2>4 DEF TakenSoFar
    <3> QED BY <3>1, <3>2
  <2>7. CASE Len(some) < size /\ BelowCaps(some, o, size)
    <3>1. t[k] = Append(some, o)
      BY <2>5, <2>7
    <3> DEFINE all == Append(some, o)
               l == Len(some)
    <3>2. \A i \in 1..l : Family(some[i]) # Family(o)
      BY <2>1, <2>3 DEF FamiliesIn
    <3>3. /\ all \in Seq(S) /\ Len(all) = l + 1 /\ DOMAIN all = 1..(l + 1)
          /\ \A a \in 1..l : all[a] = some[a] /\ a # l + 1
          /\ all[l + 1] = o
      <4> HIDE DEF S, some, o
      <4> QED BY <2>2, <2>3, AppendIs
    <3>4. o = ranked[k] /\ k \in 1..k
      BY <1>1
    <3> HIDE DEF all, some, o
    <3>5. \A a \in 1..(l + 1) : a \in 1..l \/ a = l + 1
      BY <2>3
    <3>6. ASSUME NEW a \in 1..(l + 1) PROVE \E j \in 1..k : all[a] = ranked[j]
      <4>1. CASE a = l + 1
        BY <3>3, <3>4, <4>1
      <4>2. CASE a \in 1..l
        <5>1. PICK j \in 1..(k - 1) : some[a] = ranked[j]
          BY <2>1, <4>2 DEF TakenSoFar
        <5> QED BY <2>4, <3>3, <4>2, <5>1
      <4> QED BY <3>5, <4>1, <4>2
    <3>7. \A a, b \in 1..(l + 1) : Family(all[a]) = Family(all[b]) => a = b
      BY <2>1, <3>2, <3>3, <3>5 DEF TakenSoFar
    <3>8. TakenSoFar(ranked, all, k)
      BY <3>3, <3>6, <3>7 DEF TakenSoFar
    <3>9. TakenSoFar(ranked, t[k], k)
      BY <3>1, <3>8 DEF all
    <3>10. k \in 0..n
      BY <1>1
    <3> QED BY <3>9, <3>10
  <2> QED BY <2>6, <2>7
<1>7. \A k \in 0..n : k \in T
  <2> HIDE DEF T
  <2> QED BY <1>1, <1>4, <1>6, TakeFold!IntervalInduction
<1> DEFINE C == [k \in 0..n |-> FamiliesIn(t[k])]
<1>8. C[0] = {}
  <2>1. FamiliesIn(<<>>) = {}
    BY DEF FamiliesIn
  <2> QED BY <1>1, <1>3, <2>1
<1>9. ASSUME NEW k \in 1..n
      PROVE  C[k] = IF Room(C[k - 1], F[k], size) THEN C[k - 1] \cup {F[k]} ELSE C[k - 1]
  <2> DEFINE some == t[k - 1]
             o == ranked[k]
  <2>1. k - 1 \in 0..n /\ k \in 0..n
    BY <1>1
  <2>2. TakenSoFar(ranked, some, k - 1)
    BY <1>7, <2>1
  <2>3. some \in Seq(S) /\ \A a, b \in 1..Len(some) : Family(some[a]) = Family(some[b]) => a = b
    BY <2>2 DEF TakenSoFar
  <2>4. C[k - 1] = FamiliesIn(some) /\ C[k] = FamiliesIn(t[k])
    BY <2>1
  <2>5. F[k] = Family(o) /\ F[k][1] = o.mode /\ F[k][3] = o.retriever
    BY <1>1 DEF Family
  <2>6. t[k] = IF Len(some) < size /\ BelowCaps(some, o, size) THEN Append(some, o) ELSE some
    BY <1>3 DEF Take
  <2>7. o \in S
    BY DEF Range
  <2> HIDE DEF C, some, o, S
  <2>8. /\ Len(some) = Cardinality(FamiliesIn(some))
        /\ Cardinality({i \in DOMAIN some : some[i].mode = o.mode})
             = Cardinality(OfMode(o.mode, FamiliesIn(some)))
        /\ Cardinality({i \in DOMAIN some : some[i].retriever = o.retriever})
             = Cardinality(OfRetriever(o.retriever, FamiliesIn(some)))
    BY <2>3, CountByFamily
  <2>9. (Len(some) < size /\ BelowCaps(some, o, size)) <=> Room(FamiliesIn(some), F[k], size)
    BY <2>5, <2>8 DEF BelowCaps, Room
  <2>10. FamiliesIn(Append(some, o)) = FamiliesIn(some) \cup {Family(o)}
    <3> DEFINE all == Append(some, o)
               l == Len(some)
    <3>1. /\ Len(some) \in Nat /\ DOMAIN some = 1..Len(some)
          /\ Len(all) = l + 1 /\ DOMAIN all = 1..(l + 1)
          /\ \A a \in 1..l : all[a] = some[a] /\ a # l + 1
          /\ all[l + 1] = o
      BY <2>3, <2>7, AppendIs
    <3> HIDE DEF all
    <3>2. \A a \in 1..(l + 1) : a \in 1..l \/ a = l + 1
      BY <3>1
    <3>3. l + 1 \in 1..(l + 1) /\ \A a \in 1..l : a \in 1..(l + 1)
      BY <3>1
    <3>4. FamiliesIn(all) = FamiliesIn(some) \cup {Family(o)}
      BY <3>1, <3>2, <3>3 DEF FamiliesIn
    <3> QED BY <3>4 DEF all
  <2> QED BY <2>4, <2>5, <2>6, <2>9, <2>10
<1>10. Greedy(C, F, n, size)
  <2> HIDE DEF C
  <2> QED BY <1>8, <1>9 DEF Greedy
<1>11. n \in 0..n /\ n \in T
  BY <1>1, <1>7
<1>12. C[n] = FamiliesIn(t[n]) /\ TakenSoFar(ranked, t[n], n)
  BY <1>11
<1> HIDE DEF C
<1> QED BY <1>2, <1>10, <1>12

(* A configuration and its outcome.                                        *)
Strip(o) == [mode |-> o.mode, strategy |-> o.strategy, snapshots |-> o.snapshots,
             retriever |-> o.retriever, topK |-> o.topK]
InCohort(c, cohort) == [mode |-> c.mode, strategy |-> c.strategy, snapshots |-> c.snapshots,
                        retriever |-> c.retriever, topK |-> c.topK, cohort |-> cohort]

(* The outcomes of a whole grid: as many as it has configurations, of one  *)
(* cohort.                                                                 *)
LEMMA OutcomesOfGrid ==
    ASSUME NEW c, Screened(c), NEW grid, grid = Grid(c.bindings),
           NEW outcomes, outcomes = c.outcomes
    PROVE  /\ Len(outcomes) \in Nat /\ DOMAIN outcomes = 1..Len(outcomes)
           /\ {Strip(o) : o \in Range(outcomes)} = grid
           /\ Len(outcomes) = Cardinality(grid)
           /\ Cardinality({o.cohort : o \in Range(outcomes)}) = 1
           /\ \A o \in Range(outcomes) : Family(o) \in AllFamilies
           /\ \A f \in AllFamilies : \E o \in Range(outcomes) : o.topK = ScoredTopK /\ Family(o) = f
<1> DEFINE All == OfGrid(grid, c.cohort)
           G == {[mode |-> b[1], strategy |-> b[2], snapshots |-> c.bindings[b],
                  retriever |-> r, topK |-> k] :
                    b \in ParseModes \X Strategies, r \in Retrievers, k \in TopKs}
<1>1. /\ DOMAIN c.bindings = ParseModes \X Strategies
      /\ c.size \in 1..Cardinality(AllFamilies)
      /\ outcomes \in Seq(All) /\ IsInjective(outcomes) /\ Range(outcomes) = All
  BY DEF Screened, AllFamilies
<1>2. grid = G
  BY <1>1 DEF Grid, CoreRetrievalConfigs
<1>3. All = {InCohort(g, c.cohort) : g \in grid}
  BY DEF OfGrid, InCohort
<1>4. \A g \in grid : Strip(InCohort(g, c.cohort)) = g
  <2>1. SUFFICES ASSUME NEW g \in G PROVE Strip(InCohort(g, c.cohort)) = g
    BY <1>2
  <2>2. PICK b \in ParseModes \X Strategies, r \in Retrievers, k \in TopKs :
          g = [mode |-> b[1], strategy |-> b[2], snapshots |-> c.bindings[b],
               retriever |-> r, topK |-> k]
    OBVIOUS
  <2> QED BY <2>2 DEF Strip, InCohort
<1> HIDE DEF All, G
<1>5. Len(outcomes) \in Nat /\ DOMAIN outcomes = 1..Len(outcomes)
  BY <1>1
<1>6. {Strip(o) : o \in Range(outcomes)} = grid
  BY <1>1, <1>3, <1>4
<1>7. Len(outcomes) = Cardinality(grid)
  <2> DEFINE g == [i \in 1..Len(outcomes) |-> Strip(outcomes[i])]
  <2>1. \A i \in 1..Len(outcomes) : outcomes[i] \in All
    BY <1>1, <1>5 DEF Range
  <2>2. \A i, j \in 1..Len(outcomes) : outcomes[i] = outcomes[j] => i = j
    BY <1>1, <1>5 DEF IsInjective
  <2>3. \A o \in All : InCohort(Strip(o), c.cohort) = o
    <3>1. SUFFICES ASSUME NEW o \in All PROVE InCohort(Strip(o), c.cohort) = o
      OBVIOUS
    <3>2. PICK d \in grid : o = InCohort(d, c.cohort)
      BY <1>3
    <3> QED BY <3>2, <1>4
  <2>4. \A i, j \in 1..Len(outcomes) : g[i] = g[j] => i = j
    <3>1. SUFFICES ASSUME NEW i \in 1..Len(outcomes), NEW j \in 1..Len(outcomes), g[i] = g[j]
                   PROVE  i = j
      OBVIOUS
    <3>2. Strip(outcomes[i]) = Strip(outcomes[j])
      BY <3>1
    <3>3. InCohort(Strip(outcomes[i]), c.cohort) = outcomes[i]
          /\ InCohort(Strip(outcomes[j]), c.cohort) = outcomes[j]
      BY <2>1, <2>3
    <3> QED BY <2>2, <3>2, <3>3
  <2>5. \A i \in 1..Len(outcomes) : g[i] \in grid
    BY <1>3, <1>4, <2>1
  <2>6. \A d \in grid : \E i \in 1..Len(outcomes) : g[i] = d
    <3>1. SUFFICES ASSUME NEW d \in grid PROVE \E i \in 1..Len(outcomes) : g[i] = d
      OBVIOUS
    <3>2. InCohort(d, c.cohort) \in Range(outcomes)
      BY <1>1, <1>3
    <3>3. PICK i \in 1..Len(outcomes) : outcomes[i] = InCohort(d, c.cohort)
      BY <1>5, <3>2 DEF Range
    <3>4. g[i] = d
      BY <1>4, <3>3
    <3> QED BY <3>4
  <2>7. DOMAIN g = 1..Len(outcomes) /\ g \in [1..Len(outcomes) -> grid]
    BY <2>5
  <2> HIDE DEF g
  <2>8. g \in Bijection(1..Len(outcomes), grid)
    BY <2>4, <2>6, <2>7 DEF Bijection, Injection, Surjection, IsInjective
  <2>9. ExistsBijection(1..Len(outcomes), grid)
    BY <2>8 DEF ExistsBijection
  <2>10. IsFiniteSet(1..Len(outcomes)) /\ Cardinality(1..Len(outcomes)) = Len(outcomes)
    <3>1. 1 \in Int /\ Len(outcomes) \in Int
      BY <1>5
    <3>2. Cardinality(1..Len(outcomes)) = IF 1 > Len(outcomes) THEN 0 ELSE Len(outcomes) - 1 + 1
      BY <3>1, FS_Interval
    <3> QED BY <1>5, <3>1, <3>2, FS_Interval
  <2> QED BY <2>9, <2>10, FS_Bijection
<1>8. \A o \in Range(outcomes) : Family(o) \in AllFamilies
  <2>1. SUFFICES ASSUME NEW d \in G PROVE Family(InCohort(d, c.cohort)) \in AllFamilies
    BY <1>1, <1>2, <1>3
  <2>2. PICK b \in ParseModes \X Strategies, r \in Retrievers, k \in TopKs :
          d = [mode |-> b[1], strategy |-> b[2], snapshots |-> c.bindings[b],
               retriever |-> r, topK |-> k]
    BY DEF G
  <2>3. Family(InCohort(d, c.cohort)) = <<b[1], b[2], r>>
    BY <2>2 DEF Family, InCohort
  <2> QED BY <2>3 DEF AllFamilies
<1>9. ASSUME NEW f \in AllFamilies
      PROVE  \E o \in Range(outcomes) : o.topK = ScoredTopK /\ Family(o) = f
  <2>1. PICK m \in ParseModes, s \in Strategies, r \in Retrievers : f = <<m, s, r>>
    BY DEF AllFamilies
  <2> DEFINE d == [mode |-> m, strategy |-> s, snapshots |-> c.bindings[<<m, s>>],
                   retriever |-> r, topK |-> ScoredTopK]
  <2>2. ScoredTopK \in TopKs
    BY SelectionAssumption
  <2>3. d \in G
    <3>1. <<m, s>> \in ParseModes \X Strategies /\ <<m, s>>[1] = m /\ <<m, s>>[2] = s
      OBVIOUS
    <3>2. d = [mode |-> <<m, s>>[1], strategy |-> <<m, s>>[2], snapshots |-> c.bindings[<<m, s>>],
               retriever |-> r, topK |-> ScoredTopK]
      OBVIOUS
    <3> HIDE DEF d
    <3> QED BY <2>2, <3>1, <3>2 DEF G
  <2>4. InCohort(d, c.cohort) \in Range(outcomes)
    BY <1>1, <1>2, <1>3, <2>3
  <2>5. InCohort(d, c.cohort).topK = ScoredTopK /\ Family(InCohort(d, c.cohort)) = f
    BY <2>1 DEF InCohort, Family
  <2> QED BY <2>4, <2>5
<1>10. Cardinality({o.cohort : o \in Range(outcomes)}) = 1
  <2>1. Range(outcomes) # {}
    <3>1. AllFamilies # {}
      <4>1. AllFamilies = {} => Cardinality(AllFamilies) = 0
        BY FS_EmptySet
      <4>2. Cardinality(AllFamilies) # 0
        BY <1>1
      <4> QED BY <4>1, <4>2
    <3> QED BY <1>9, <3>1
  <2>2. \A o \in Range(outcomes) : o.cohort = c.cohort
    <3>1. \A d : InCohort(d, c.cohort).cohort = c.cohort
      BY DEF InCohort
    <3> QED BY <1>1, <1>3, <3>1
  <2>3. {o.cohort : o \in Range(outcomes)} = {c.cohort}
    BY <2>1, <2>2
  <2> QED BY <2>3, FS_Singleton
<1> QED BY <1>5, <1>6, <1>7, <1>8, <1>9, <1>10

(* The families of a whole grid, each once, in the order of their best     *)
(* outcomes.                                                               *)
LEMMA RankedFamilies ==
    ASSUME NEW c, Screened(c), NEW ranked, ranked = Ranked(c.outcomes), NEW F, F = Families(c.outcomes)
    PROVE  /\ F = [i \in DOMAIN ranked |-> Family(ranked[i])]
           /\ FamilySeq(F, Len(ranked)) /\ DOMAIN ranked = 1..Len(ranked)
<1> DEFINE outcomes == c.outcomes
           n == Len(ranked)
<1>1. /\ Len(outcomes) \in Nat /\ DOMAIN outcomes = 1..Len(outcomes)
      /\ \A o \in Range(outcomes) : Family(o) \in AllFamilies
      /\ \A f \in AllFamilies : \E o \in Range(outcomes) : o.topK = ScoredTopK /\ Family(o) = f
  BY OutcomesOfGrid
<1>2. FirstOfEach(outcomes, ranked, Len(outcomes))
  BY <1>1, RankedWell
<1>3. F = [i \in DOMAIN ranked |-> Family(ranked[i])]
  BY DEF Families
<1>4. ranked \in Seq(Range(outcomes)) /\ DOMAIN ranked = 1..n /\ n \in Nat
  BY <1>2 DEF FirstOfEach
<1> HIDE DEF outcomes
<1>5. \A i \in 1..n : ranked[i] \in Range(outcomes)
  BY <1>4
<1> HIDE DEF n
<1>6. DOMAIN F = 1..n /\ \A i \in 1..n : F[i] = Family(ranked[i])
  BY <1>3, <1>4
<1>7. \A i, j \in 1..n : F[i] = F[j] => i = j
  BY <1>2, <1>6 DEF FirstOfEach, n
<1>8. Range(F) = AllFamilies
  <2>1. Range(F) \subseteq AllFamilies
    BY <1>1, <1>5, <1>6 DEF Range
  <2>2. ASSUME NEW f \in AllFamilies PROVE f \in Range(F)
    <3>1. PICK o \in Range(outcomes) : o.topK = ScoredTopK /\ Family(o) = f
      BY <1>1
    <3>2. PICK j \in 1..Len(outcomes) : outcomes[j] = o
      BY <1>1, <3>1 DEF Range
    <3>3. PICK a \in 1..n : Family(ranked[a]) = f
      BY <1>2, <3>1, <3>2 DEF FirstOfEach, n
    <3> QED BY <1>6, <3>3 DEF Range
  <2> QED BY <2>1, <2>2
<1>9. FamilySeq(F, n)
  BY <1>4, <1>6, <1>7, <1>8 DEF FamilySeq, AllFamilies
<1> QED BY <1>3, <1>4, <1>9 DEF n

(* The shortlist of a whole grid is what the greedy choice takes.          *)
LEMMA ShortlistBest ==
    ASSUME NEW c, Screened(c)
    PROVE  ShortlistIsBest(c.outcomes, Grid(c.bindings), c.size)
<1> DEFINE outcomes == c.outcomes
           grid == Grid(c.bindings)
           size == c.size
           ranked == Ranked(outcomes)
           n == Len(ranked)
           F == Families(outcomes)
           s == Selected(outcomes, size)
<1>1. size \in Nat \ {0} /\ size <= Cardinality(AllFamilies)
  <2>1. IsFiniteSet(AllFamilies)
    BY CellsFinite
  <2>2. Cardinality(AllFamilies) \in Nat
    BY <2>1, FS_CardinalityType
  <2>3. size \in 1..Cardinality(AllFamilies)
    BY DEF Screened, AllFamilies
  <2> QED BY <2>2, <2>3
<1>2. /\ F = [i \in DOMAIN ranked |-> Family(ranked[i])]
      /\ FamilySeq(F, n) /\ DOMAIN ranked = 1..n
  BY RankedFamilies
<1>3. s = TakeFold!Fold(size, <<>>, ranked)
  BY SelectedIsFold
<1>4. PICK C : Greedy(C, F, n, size) /\ TakenSoFar(ranked, s, n) /\ C[n] = FamiliesIn(s)
  <2> HIDE DEF F, n, ranked, size, s
  <2> QED BY <1>1, <1>2, <1>3, TakesGreedily
<1>5. Cardinality(C[n]) = size
  <2> HIDE DEF F, n, size
  <2> QED BY <1>1, <1>2, <1>4, GreedyEnough
<1>6. Len(s) = size /\ s # <<>>
  <2>1. s \in Seq(Range(ranked)) /\ \A a, b \in 1..Len(s) : Family(s[a]) = Family(s[b]) => a = b
    BY <1>4 DEF TakenSoFar
  <2> HIDE DEF s, size, ranked
  <2>2. Len(s) = Cardinality(FamiliesIn(s))
    BY <2>1, CountByFamily
  <2>3. Len(s) = size
    BY <1>4, <1>5, <2>2
  <2> QED BY <1>1, <2>1, <2>3
<1>7. Shortlist(outcomes, grid, size) = s
  <2>1. /\ {Strip(o) : o \in Range(outcomes)} = grid
        /\ Len(outcomes) = Cardinality(grid)
        /\ Cardinality({o.cohort : o \in Range(outcomes)}) = 1
    BY OutcomesOfGrid
  <2>2. ~(Len(s) < size)
    BY <1>1, <1>6
  <2> DEFINE configs == {[mode |-> o.mode, strategy |-> o.strategy, snapshots |-> o.snapshots,
                          retriever |-> o.retriever, topK |-> o.topK] : o \in Range(outcomes)}
  <2>3. configs = grid
    BY <2>1 DEF Strip
  <2>4. Shortlist(outcomes, grid, size)
          = IF configs # grid \/ Len(outcomes) # Cardinality(grid)
               \/ Cardinality({o.cohort : o \in Range(outcomes)}) # 1 \/ Len(s) < size
            THEN Unselected ELSE s
    BY DEF Shortlist, Selected
  <2> HIDE DEF s, configs, grid, outcomes, size
  <2> QED BY <2>1, <2>2, <2>3, <2>4
<1>8. {Family(o) : o \in Range(s)} = C[n]
  BY <1>4 DEF FamiliesIn, Range
<1>9. ChosenSoFar(C, F, n, size, n)
  <2>1. n \in 0..n
    BY <1>2 DEF FamilySeq
  <2> HIDE DEF F, n, size
  <2> QED BY <1>1, <1>2, <1>4, <2>1, GreedyChooses
<1>10. Diverse(C[n], size)
  BY <1>9 DEF ChosenSoFar, Diverse, OfMode, OfRetriever
<1>11. DOMAIN F = 1..n /\ Range(F) = AllFamilies
  BY <1>2 DEF FamilySeq, AllFamilies
<1>12. ASSUME NEW other \in kSubset(size, Range(F)), Diverse(other, size) /\ other # C[n]
       PROVE  F[Min({i \in DOMAIN F : (F[i] \in C[n]) # (F[i] \in other)})] \in C[n]
  <2>1. other \in SUBSET AllFamilies /\ Cardinality(other) = size
    BY <1>11 DEF kSubset
  <2> HIDE DEF F, n, size
  <2>2. Greedy(C, F, n, size) /\ FamilySeq(F, n) /\ Diverse(other, size) /\ other # C[n]
    BY <1>2, <1>4, <1>12
  <2>3. F[Min({i \in 1..n : (F[i] \in C[n]) # (F[i] \in other)})] \in C[n]
    BY <1>1, <2>1, <2>2, GreedyBest
  <2> QED BY <1>11, <2>3
<1>13. s # Unselected
  BY <1>6 DEF Unselected
<1> HIDE DEF s, F, n, size, grid, outcomes
<1>14. ShortlistIsBest(outcomes, grid, size)
  BY <1>5, <1>7, <1>8, <1>10, <1>12, <1>13 DEF ShortlistIsBest, F
<1> QED BY <1>14 DEF outcomes, grid, size

(* The three that go on are distinct, the leader and the best value among  *)
(* them.                                                                   *)
LEMMA TopThreeKeeps ==
    ASSUME NEW c, Generated(c)
    PROVE  TopThreeKeepsValue(c.outcomes)
<1> DEFINE outcomes == c.outcomes
           L == Len(outcomes)
           All == Range(outcomes)
           competitive == {o \in All : o.high >= outcomes[1].low}
           best == CHOOSE o \in competitive : \A p \in competitive : ~BetterValue(p, o)
           first == SubSeq(outcomes, 1, 3)
           three == TopThree(outcomes)
<1>1. SUFFICES ASSUME three # Unselected
               PROVE  /\ three[1] = outcomes[1] /\ IsInjective(three)
                      /\ \A o \in All :
                           o.high >= outcomes[1].low => \E t \in Range(three) :
                              t.cost <= o.cost /\ t.high >= outcomes[1].low
                      /\ \A o \in All \ Range(three) : \A i \in 1..2 : o.quality <= three[i].quality
  BY DEF TopThreeKeepsValue
<1>2. /\ L >= 3 /\ Cardinality({o.hash : o \in All}) >= L
      /\ three = IF Contains(first, best) THEN first ELSE [first EXCEPT ![3] = best]
  <2>1. /\ ~(L < 3) /\ ~(Cardinality({o.hash : o \in All}) < L)
        /\ three = IF Contains(first, best) THEN first ELSE [first EXCEPT ![3] = best]
    BY <1>1 DEF TopThree
  <2>2. L \in Nat
    BY DEF Generated
  <2>3. Cardinality({o.hash : o \in All}) \in Nat
    <3>1. All # {} /\ IsFiniteSet({o.hash : o \in All})
      <4> DEFINE g == [i \in 1..L |-> outcomes[i].hash]
      <4>1. outcomes \in Seq(Outcome(c.cohorts)) /\ DOMAIN outcomes = 1..L
        BY DEF Generated
      <4>2. g \in Surjection(1..L, {o.hash : o \in All})
        <5>1. \A h \in {o.hash : o \in All} : \E i \in 1..L : g[i] = h
          BY <4>1 DEF Range
        <5>2. g \in [1..L -> {o.hash : o \in All}]
          BY <4>1 DEF Range
        <5> HIDE DEF g
        <5> QED BY <5>1, <5>2 DEF Surjection
      <4>3. IsFiniteSet(1..L)
        <5>1. 1 \in Int /\ L \in Int
          BY <2>2
        <5> QED BY <5>1, FS_Interval
      <4>4. outcomes[1] \in All
        BY <2>1, <2>2, <4>1 DEF Range
      <4> QED BY <4>2, <4>3, <4>4, FS_Surjection
    <3> QED BY <3>1, FS_CardinalityType
  <2> QED BY <2>1, <2>2, <2>3
<1>3. /\ outcomes \in Seq(Outcome(c.cohorts)) /\ DOMAIN outcomes = 1..L /\ L \in Nat
      /\ \A o \in All : o.low <= o.high
      /\ \A i, j \in 1..L : i <= j => outcomes[i].quality >= outcomes[j].quality
  BY DEF Generated
<1> HIDE DEF three
<1>4. \A i \in 1..L : outcomes[i] \in All
  BY <1>3 DEF Range
<1>5. \A o \in All : /\ o.quality \in Int /\ o.low \in Int /\ o.high \in Int /\ o.cost \in Int
                     /\ o.hash \in Int
  <2>1. \A i \in 1..L : outcomes[i] \in Outcome(c.cohorts)
    BY <1>3
  <2>2. \A o \in Outcome(c.cohorts) : /\ o.quality \in Int /\ o.low \in Int /\ o.high \in Int
                                      /\ o.cost \in Int /\ o.hash \in Int
    BY DEF Outcome
  <2>3. \A o \in All : o \in Outcome(c.cohorts)
    BY <1>3, <2>1 DEF Range
  <2> QED BY <2>2, <2>3
<1>6. /\ IsFiniteSet(All)
      /\ \A i, j \in 1..L : outcomes[i].hash = outcomes[j].hash => i = j
  <2> DEFINE g == [i \in 1..L |-> outcomes[i].hash]
             H == {o.hash : o \in All}
  <2>1. \A h \in H : \E i \in 1..L : g[i] = h
    BY <1>3 DEF Range
  <2>2. g \in [1..L -> H] /\ DOMAIN g = 1..L
    BY <1>4
  <2>3. IsFiniteSet(1..L) /\ Cardinality(1..L) = L
    <3>1. 1 \in Int /\ L \in Int
      BY <1>3
    <3>2. Cardinality(1..L) = IF 1 > L THEN 0 ELSE L - 1 + 1
      BY <3>1, FS_Interval
    <3> QED BY <1>3, <3>1, <3>2, FS_Interval
  <2> HIDE DEF g, H
  <2>4. g \in Surjection(1..L, H)
    BY <2>1, <2>2 DEF Surjection
  <2>5. IsFiniteSet(H) /\ Cardinality(H) <= L /\ Cardinality(H) \in Nat
        /\ (Cardinality(H) = L <=> g \in Injection(1..L, H))
    BY <2>3, <2>4, FS_Surjection, FS_CardinalityType
  <2>6. Cardinality(H) >= L
    BY <1>2 DEF H
  <2>7. g \in Injection(1..L, H)
    BY <1>3, <2>5, <2>6
  <2>8. \A i, j \in 1..L : g[i] = g[j] => i = j
    BY <2>2, <2>7 DEF Injection, IsInjective
  <2>9. outcomes \in Surjection(1..L, All)
    BY <1>3 DEF Surjection, Range
  <2>10. IsFiniteSet(All)
    <3> HIDE DEF All
    <3> QED BY <2>3, <2>9, FS_Surjection
  <2> QED BY <2>8, <2>10 DEF g
<1>7. \A o, p \in All : o.hash = p.hash => o = p
  <2>1. \A o \in All : \E i \in 1..L : outcomes[i] = o
    BY <1>3 DEF Range
  <2> QED BY <1>6, <2>1
<1>8. best \in competitive /\ \A p \in competitive : ~BetterValue(p, best)
  <2> DEFINE R == {p \in competitive \X competitive : BetterValue(p[1], p[2])}
  <2>1. \A o, p \in competitive : <<o, p>> \in R <=> BetterValue(o, p)
    OBVIOUS
  <2>2. \A o \in competitive : /\ o \in All /\ o.quality \in Int /\ o.cost \in Int /\ o.hash \in Int
    BY <1>5
  <2>3. competitive # {}
    <3>1. outcomes[1] \in All
      BY <1>2, <1>3, <1>4
    <3>2. outcomes[1].high >= outcomes[1].low
      BY <1>3, <1>5, <3>1
    <3> QED BY <3>1, <3>2
  <2>4. competitive \in SUBSET All
    OBVIOUS
  <2> HIDE DEF R, competitive, best, All
  <2>5. IsFiniteSet(competitive)
    BY <1>6, <2>4, FS_Subset
  <2>6. TimesFold!StrictOrder(R, competitive)
    <3>1. \A o \in competitive : <<o, o>> \notin R
      BY <2>1, <2>2 DEF BetterValue
    <3>2. ASSUME NEW o \in competitive, NEW p \in competitive, NEW q \in competitive,
                 <<o, p>> \in R, <<p, q>> \in R
          PROVE  <<o, q>> \in R
      <4>1. BetterValue(o, p) /\ BetterValue(p, q)
        BY <2>1, <3>2
      <4>2. BetterValue(o, q)
        BY <2>2, <4>1 DEF BetterValue
      <4> QED BY <2>1, <4>2
    <3>3. ASSUME NEW o \in competitive, NEW p \in competitive
          PROVE  o = p \/ <<o, p>> \in R \/ <<p, o>> \in R
      <4>1. o.hash = p.hash => o = p
        BY <1>7, <2>2
      <4>2. o.hash = p.hash \/ BetterValue(o, p) \/ BetterValue(p, o)
        BY <2>2 DEF BetterValue
      <4> QED BY <2>1, <4>1, <4>2
    <3> QED BY <3>1, <3>2, <3>3 DEF TimesFold!StrictOrder
  <2> DEFINE N == Cardinality(competitive)
  <2>7. /\ N \in Nat /\ \A o \in competitive : TimesFold!Place(R, competitive, o) \in 1..N
        /\ \A o, p \in competitive : <<o, p>> \in R =>
             TimesFold!Place(R, competitive, o) < TimesFold!Place(R, competitive, p)
        /\ \A i \in 1..N : \E o \in competitive : TimesFold!Place(R, competitive, o) = i
    BY <2>5, <2>6, SameSizes, TimesFold!Placed
  <2> HIDE DEF N
  <2>8. PICK o \in competitive : TimesFold!Place(R, competitive, o) = 1
    <3>1. 1 \in 1..N
      BY <2>3, <2>7
    <3> QED BY <2>7, <3>1
  <2>9. \A p \in competitive : ~BetterValue(p, o)
    <3>1. SUFFICES ASSUME NEW p \in competitive, BetterValue(p, o) PROVE FALSE
      OBVIOUS
    <3>2. TimesFold!Place(R, competitive, p) < 1 /\ TimesFold!Place(R, competitive, p) \in 1..N
      BY <2>1, <2>7, <2>8, <3>1
    <3> QED BY <2>7, <3>2
  <2> QED BY <2>8, <2>9 DEF best
<1>9. best \in All /\ best.high >= outcomes[1].low /\ \A p \in competitive : best.cost <= p.cost
  <2>1. best \in All /\ best.high >= outcomes[1].low
    BY <1>8
  <2>2. ASSUME NEW p \in competitive PROVE best.cost <= p.cost
    <3>1. p \in All /\ ~BetterValue(p, best)
      BY <1>8
    <3> HIDE DEF best, All, competitive
    <3> QED BY <1>5, <2>1, <3>1 DEF BetterValue
  <2> QED BY <2>1, <2>2
<1> HIDE DEF best, competitive
<1>10. /\ first = <<outcomes[1], outcomes[2], outcomes[3]>> /\ DOMAIN first = 1..3 /\ Len(first) = 3
       /\ \A i \in 1..3 : first[i] = outcomes[i] /\ i \in 1..L
  <2>1. Len(first) = 3 /\ DOMAIN first = 1..3 /\ \A i \in 1..3 : first[i] = outcomes[i]
    BY <1>2, <1>3
  <2>2. \A i \in 1..3 : i \in 1..L
    BY <1>2, <1>3
  <2>3. first \in Seq(All)
    BY <1>2, <1>3, <1>4
  <2>4. first = <<outcomes[1], outcomes[2], outcomes[3]>>
    <3> HIDE DEF first
    <3> QED BY <2>1, <2>3
  <2> QED BY <2>1, <2>2, <2>4
<1>11. \A i, j \in 1..3 : outcomes[i] = outcomes[j] => i = j
  BY <1>6, <1>10
<1> HIDE DEF first, All, L
<1>12. /\ DOMAIN three = 1..3 /\ three[1] = outcomes[1] /\ three[2] = outcomes[2]
       /\ three[3] = outcomes[3] \/ (three[3] = best /\ ~Contains(first, best))
       /\ \E i \in 1..3 : three[i] = best
  <2>1. CASE Contains(first, best)
    <3>1. three = first
      BY <1>2, <2>1
    <3>2. \E i \in 1..3 : first[i] = best
      BY <1>10, <2>1 DEF Contains
    <3> QED BY <1>10, <3>1, <3>2
  <2>2. CASE ~Contains(first, best)
    <3>1. three = [first EXCEPT ![3] = best]
      BY <1>2, <2>2
    <3>2. DOMAIN three = 1..3 /\ three[3] = best /\ three[1] = first[1] /\ three[2] = first[2]
      BY <1>10, <3>1
    <3> QED BY <1>10, <2>2, <3>2
  <2> QED BY <2>1, <2>2
<1>13. IsInjective(three)
  <2>1. ~Contains(first, best) => best # outcomes[1] /\ best # outcomes[2]
    BY <1>10 DEF Contains
  <2>2. three[3] # three[1] /\ three[3] # three[2] /\ three[1] # three[2]
    BY <1>11, <1>12, <2>1
  <2> QED BY <1>12, <2>2 DEF IsInjective
<1>14. best \in Range(three)
  BY <1>12 DEF Range
<1>15. ASSUME NEW o \in All, o.high >= outcomes[1].low
       PROVE  \E t \in Range(three) : t.cost <= o.cost /\ t.high >= outcomes[1].low
  <2>1. o \in competitive
    BY <1>15 DEF competitive
  <2> QED BY <1>9, <1>14, <2>1
<1>16. ASSUME NEW o \in All \ Range(three), NEW i \in 1..2
       PROVE  o.quality <= three[i].quality
  <2>1. PICK j \in 1..L : o = outcomes[j]
    BY <1>3 DEF Range, All
  <2>2. outcomes[1] \in Range(three) /\ outcomes[2] \in Range(three)
    BY <1>12 DEF Range
  <2>3. j # 1 /\ j # 2
    BY <1>16, <2>1, <2>2
  <2>4. i <= j /\ i \in 1..L
    BY <1>3, <1>10, <2>1, <2>3
  <2>5. three[i] = outcomes[i]
    BY <1>12
  <2>6. outcomes[i].quality >= outcomes[j].quality
    BY <1>3, <2>1, <2>4
  <2>7. outcomes[i] \in All /\ outcomes[j] \in All
    BY <1>4, <2>1, <2>4
  <2> QED BY <1>5, <2>1, <2>5, <2>6, <2>7
<1> QED BY <1>12, <1>13, <1>15, <1>16

(* From a whole grid, of any strategies and top_k values and in any order  *)
(* of quality, a shortlist of every size up to the number of families is   *)
(* found and is the best diverse one; of any outcomes of generation the    *)
(* leader and the best value go on (select_retrieval_shortlist,            *)
(* select_generation_top_three).                                           *)
THEOREM SelectionsBestHolds == SelectionSpec => []SelectionsBest
<1> DEFINE I == contest \in Contests \cup {Decided}
<1>1. SelectionInit => I
  BY DEF SelectionInit
<1>2. I /\ [Select]_contest => I'
  BY DEF Select
<1>3. I => SelectionsBest
  <2>1. SUFFICES ASSUME I
                 PROVE  /\ contest.kind = "grid" =>
                             ShortlistIsBest(contest.outcomes, Grid(contest.bindings), contest.size)
                        /\ contest.kind = "three" => TopThreeKeepsValue(contest.outcomes)
    BY DEF SelectionsBest
  <2>2. CASE contest = Decided
    <3>1. contest.kind = "decided"
      BY <2>2 DEF Decided
    <3> QED BY <3>1
  <2>3. CASE contest \in Contests /\ Screened(contest)
    <3>1. contest.kind = "grid"
      BY <2>3 DEF Screened
    <3> QED BY <2>3, <3>1, ShortlistBest
  <2>4. CASE contest \in Contests /\ Generated(contest)
    <3>1. contest.kind = "three"
      BY <2>4 DEF Generated
    <3> QED BY <2>4, <3>1, TopThreeKeeps
  <2> QED BY <2>1, <2>2, <2>3, <2>4, SelectionAssumption
<1> HIDE DEF I
<1> QED BY <1>1, <1>2, <1>3, PTL DEF SelectionSpec
=============================================================================
