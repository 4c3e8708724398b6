------------------------ MODULE ParsePipeline_proofs ------------------------
(***************************************************************************)
(* Proofs about the parse pipeline: type correctness, and the inductive    *)
(* invariant ParseIInv, from which the safety properties of ParsePipeline  *)
(* follow for any number of documents, processes, executions and faults;  *)
(* then the collection of a corpus and the merge of a long document, each  *)
(* with an invariant of its own.                                           *)
(***************************************************************************)
EXTENDS CorpusCollection, FiniteSetTheorems, LongDocument, ParsePipeline, TLAPS

(* Who works on a document has one, and saves only what is good. *)
InWork == \A p \in Pipes :
    /\ phase[p] \in UnderFlight => mine[p].doc \in Docs
    /\ phase[p] = "save" => mine[p].raw = "good"

LEMMA FreshType == Fresh \in Local /\ NoDoc \notin Docs /\ NoPipe \notin Pipes
BY ParseAssumption DEF Fresh, Local, Modes

(* A step of a process puts it at one await, with locals that fit it. *)
LEMMA Moves ==
    ASSUME ParseTypeOK, InWork, NEW p \in Pipes,
           NEW where \in Phases, To(p, where), NEW local \in Local, Set(p, local),
           where \in UnderFlight => local.doc \in Docs,
           where = "save" => local.raw = "good"
    PROVE  mine' \in [Pipes -> Local] /\ phase' \in [Pipes -> Phases] /\ InWork'
<1>1. /\ mine' \in [Pipes -> Local] /\ mine'[p] = local
      /\ \A q \in Pipes \ {p} : mine'[q] = mine[q]
  BY DEF ParseTypeOK, Set
<1>2. /\ phase' \in [Pipes -> Phases] /\ phase'[p] = where
      /\ \A q \in Pipes \ {p} : phase'[q] = phase[q]
  BY DEF ParseTypeOK, To
<1> QED BY <1>1, <1>2 DEF InWork

LEMMA PutType ==
    ASSUME ParseTypeOK, NEW m \in Modes, NEW d \in Docs,
           NEW status \in {"absent", "failed", "reconciliation_required", "succeeded"},
           NEW raw \in {"none", "good", "malformed", "corrupt"}, Put(m, d, status, raw)
    PROVE  row' \in [Modes -> [Docs -> Row]]
BY DEF ParseTypeOK, Put, Row

LEMMA LandType ==
    ASSUME ParseTypeOK, NEW p \in Pipes, Land(p)
    PROVE  flight' \in [Modes -> [Docs -> Pipes \cup {NoPipe}]]
BY DEF ParseTypeOK, Land

(* What a planning step makes of the local variables. *)
LEMMA PlanStep ==
    ASSUME ParseTypeOK, NEW p \in Pipes, ReadPlan(p)
    PROVE  \/ To(p, "idle") /\ Set(p, Fresh)
           \/ \E where \in {"plan", "next"}, local \in Local :
                 /\ To(p, where) /\ Set(p, local)
                 /\ \A field \in {"mode", "resume", "new", "failed", "doc", "raw"} :
                        local[field] = mine[p][field]
                 /\ local.hits \subseteq mine[p].hits \cup
                                         {d \in Docs : Intact(row[mine[p].mode][d])}
                 /\ where = "plan" => local.settled = mine[p].settled
                 /\ where = "next" => /\ local.todo = Docs \ local.hits
                                      /\ Affordable(local.todo, mine[p].settled)
<1>1. PICK d \in mine[p].unread :
        LET hit == mine[p].resume /\ Intact(row[mine[p].mode][d])
            plan == [mine[p] EXCEPT !.unread = @ \ {d},
                              !.hits = IF hit THEN @ \cup {d} ELSE @,
                              !.same = /\ @
                                       /\ hit <=> d \in mine[p].plan.hits
                                       /\ source[d] = mine[p].plan.source[d]]
        IN IF plan.unread = {} THEN Authorize(p, plan) ELSE Set(p, plan) /\ UNCHANGED phase
  BY DEF ReadPlan
<1> DEFINE hit == mine[p].resume /\ Intact(row[mine[p].mode][d])
           plan == [mine[p] EXCEPT !.unread = @ \ {d},
                              !.hits = IF hit THEN @ \cup {d} ELSE @,
                              !.same = /\ @
                                       /\ hit <=> d \in mine[p].plan.hits
                                       /\ source[d] = mine[p].plan.source[d]]
           go == [plan EXCEPT !.todo = Docs \ plan.hits, !.settled = 0, !.plan = NoPlan]
<1>2. mine[p] \in Local /\ phase \in [Pipes -> Phases] /\ phase[p] = "plan"
  BY DEF ParseTypeOK, ReadPlan
<1>3. d \in Docs /\ mine[p].same \in BOOLEAN BY <1>2 DEF Local
<1>4. /\ plan \in Local /\ plan.settled = mine[p].settled
      /\ \A field \in {"mode", "resume", "new", "failed", "doc", "raw"} :
             plan[field] = mine[p][field]
      /\ plan.hits \subseteq mine[p].hits \cup {e \in Docs : Intact(row[mine[p].mode][e])}
  BY <1>1, <1>2, <1>3 DEF Local
<1> HIDE DEF plan
<1>5. /\ go \in Local /\ go.hits = plan.hits /\ go.todo = Docs \ plan.hits
      /\ \A field \in {"mode", "resume", "new", "failed", "doc", "raw"} :
             go[field] = plan[field]
  BY <1>4 DEF Local
<1>6. IF plan.unread = {} THEN Authorize(p, plan) ELSE Set(p, plan) /\ UNCHANGED phase
  BY <1>1 DEF plan
<1>7. CASE Set(p, plan) /\ UNCHANGED phase
  <2>1. To(p, "plan")
    BY <1>2, <1>7 DEF To
  <2> QED BY <1>4, <1>7, <2>1
<1>8. CASE Authorize(p, plan)
  <2> SUFFICES ASSUME To(p, "next") /\ Set(p, go) /\ Affordable(Docs \ plan.hits, plan.settled)
               PROVE  \E local \in Local :
                 /\ To(p, "next") /\ Set(p, local)
                 /\ \A field \in {"mode", "resume", "new", "failed", "doc", "raw"} :
                        local[field] = mine[p][field]
                 /\ local.hits \subseteq mine[p].hits \cup
                                         {e \in Docs : Intact(row[mine[p].mode][e])}
                 /\ local.todo = Docs \ local.hits
                 /\ Affordable(local.todo, mine[p].settled)
    BY <1>8 DEF Authorize
  <2> HIDE DEF go
  <2> QED BY <1>4, <1>5
<1> QED BY <1>6, <1>7, <1>8

(* Types, and what is in hand, of each step. *)
LEMMA TypesStep ==
    ASSUME ParseTypeOK, InWork, [Next]_vars
    PROVE  ParseTypeOK' /\ InWork'
<1> USE DEF evidence, gateway, operator, begun
<1>0. MaxExecutions \in Nat /\ MaxFaults \in Nat BY ParseAssumption
<1>i. /\ {"idle", "ready", "parity", "plan", "next", "look", "fetch", "save", "record"} \subseteq Phases
      /\ {"idle", "ready", "parity", "plan", "next"} \cap UnderFlight = {}
  BY DEF Phases, UnderFlight
<1>m. ASSUME NEW p \in Pipes
      PROVE  /\ mine[p] \in Local /\ mine[p].mode \in Modes
             /\ phase[p] \in UnderFlight => mine[p].doc \in Docs
  BY DEF ParseTypeOK, Local, InWork
<1>1. ASSUME NEW p \in Pipes, DryRun(p) PROVE ParseTypeOK' /\ InWork'
  <2>1. PICK m \in Modes, resume \in BOOLEAN :
            Set(p, [Fresh EXCEPT !.mode = m, !.plan =
                [mode |-> m, source |-> source, settled |-> settled,
                 hits |-> IF resume THEN {d \in Docs : Intact(row[m][d])} ELSE {}]])
    BY <1>1 DEF DryRun
  <2> DEFINE plan == [mode |-> m, source |-> source, settled |-> settled,
                      hits |-> IF resume THEN {d \in Docs : Intact(row[m][d])} ELSE {}]
  <2>2. plan \in Plan
    BY DEF ParseTypeOK, Plan
  <2> HIDE DEF plan
  <2>3. [Fresh EXCEPT !.mode = m, !.plan = plan] \in Local
    BY <2>2, FreshType DEF Local
  <2>4. To(p, "ready") /\ Set(p, [Fresh EXCEPT !.mode = m, !.plan = plan])
    BY <1>1, <2>1 DEF DryRun, plan
  <2>5. mine' \in [Pipes -> Local] /\ phase' \in [Pipes -> Phases] /\ InWork'
    BY <1>i, <2>3, <2>4, Moves
  <2>6. executions' \in 0..MaxExecutions
    BY <1>0, <1>1 DEF DryRun, ParseTypeOK
  <2> QED BY <1>1, <2>5, <2>6 DEF DryRun, ParseTypeOK
<1>2. ASSUME NEW p \in Pipes, Execute(p) PROVE ParseTypeOK' /\ InWork'
  <2>1. PICK resume \in BOOLEAN :
            Set(p, [mine[p] EXCEPT !.resume = resume, !.settled = settled, !.unread = Docs,
                            !.same = settled = mine[p].plan.settled])
    BY <1>2 DEF Execute
  <2>2. [mine[p] EXCEPT !.resume = resume, !.settled = settled, !.unread = Docs,
                            !.same = settled = mine[p].plan.settled] \in Local
    BY <1>m DEF Local, ParseTypeOK
  <2>3. \E where \in {"parity", "plan"} : To(p, where)
    BY <1>2 DEF Execute
  <2>4. mine' \in [Pipes -> Local] /\ phase' \in [Pipes -> Phases] /\ InWork'
    BY <1>i, <2>1, <2>2, <2>3, Moves
  <2> QED BY <1>2, <2>4 DEF Execute, ParseTypeOK
<1>3. ASSUME NEW p \in Pipes, ReadParity(p) PROVE ParseTypeOK' /\ InWork'
  <2>1. PICK d \in mine[p].unread :
            IF ~Parity(d) THEN To(p, "idle") /\ Set(p, Fresh)
            ELSE IF mine[p].unread = {d}
                 THEN To(p, "plan") /\ Set(p, [mine[p] EXCEPT !.unread = Docs])
                 ELSE Set(p, [mine[p] EXCEPT !.unread = @ \ {d}]) /\ UNCHANGED phase
    BY <1>3 DEF ReadParity
  <2>2. [mine[p] EXCEPT !.unread = Docs] \in Local /\ [mine[p] EXCEPT !.unread = @ \ {d}] \in Local
    BY <1>m DEF Local
  <2>3. \E local \in Local : Set(p, local)
    BY <2>1, <2>2, FreshType
  <2>4. \E where \in {"idle", "plan", "parity"} : To(p, where)
    BY <1>3, <2>1 DEF ReadParity, To, ParseTypeOK
  <2>5. mine' \in [Pipes -> Local] /\ phase' \in [Pipes -> Phases] /\ InWork'
    BY <1>i, <2>3, <2>4, Moves
  <2> QED BY <1>3, <2>5 DEF ReadParity, ParseTypeOK
<1>4. ASSUME NEW p \in Pipes, ReadPlan(p) PROVE ParseTypeOK' /\ InWork'
  <2>1. mine' \in [Pipes -> Local] /\ phase' \in [Pipes -> Phases] /\ InWork'
    BY <1>4, <1>i, PlanStep, FreshType, Moves
  <2> QED BY <1>4, <2>1 DEF ReadPlan, ParseTypeOK
<1>5. ASSUME NEW p \in Pipes, Take(p) PROVE ParseTypeOK' /\ InWork'
  <2>1. PICK d \in mine[p].todo :
            /\ flight' = [flight EXCEPT ![mine[p].mode][d] = p]
            /\ To(p, "look")
            /\ Set(p, [mine[p] EXCEPT !.doc = d, !.todo = @ \ {d}])
            /\ UNCHANGED <<evidence, gateway, operator, begun>>
    BY <1>5 DEF Take
  <2>2. d \in Docs /\ [mine[p] EXCEPT !.doc = d, !.todo = @ \ {d}] \in Local
        /\ [mine[p] EXCEPT !.doc = d, !.todo = @ \ {d}].doc = d
    BY <1>m DEF Local
  <2>3. mine' \in [Pipes -> Local] /\ phase' \in [Pipes -> Phases] /\ InWork'
    BY <1>i, <2>1, <2>2, Moves
  <2> QED BY <2>1, <2>2, <2>3 DEF ParseTypeOK
<1>6. ASSUME NEW p \in Pipes, Look(p) PROVE ParseTypeOK' /\ InWork'
  <2>1. phase[p] = "look" /\ mine[p].doc \in Docs
    BY <1>6, <1>m DEF Look, UnderFlight
  <2>2. CASE To(p, "next") /\ Land(p)
             /\ Set(p, [mine[p] EXCEPT !.hits = @ \cup {mine[p].doc}, !.doc = NoDoc])
    <3>1. [mine[p] EXCEPT !.hits = @ \cup {mine[p].doc}, !.doc = NoDoc] \in Local
      BY <1>m, <2>1 DEF Local
    <3>2. mine' \in [Pipes -> Local] /\ phase' \in [Pipes -> Phases] /\ InWork'
      BY <1>i, <2>2, <3>1, Moves
    <3> QED BY <1>6, <2>2, <3>2, LandType DEF Look, ParseTypeOK
  <2>3. CASE UNCHANGED <<flight, mine>> /\ \E where \in {"fetch", "record"} : To(p, where)
    <3>1. Set(p, mine[p])
      BY <2>3 DEF Set, ParseTypeOK
    <3>2. mine' \in [Pipes -> Local] /\ phase' \in [Pipes -> Phases] /\ InWork'
      BY <1>i, <1>m, <2>1, <2>3, <3>1, Moves
    <3> QED BY <1>6, <2>3, <3>2 DEF Look, ParseTypeOK
  <2> QED BY <1>6, <2>2, <2>3 DEF Look
<1>7. ASSUME NEW p \in Pipes, FetchStored(p) \/ FetchPaid(p) \/ FetchRaises(p)
      PROVE  ParseTypeOK' /\ InWork'
  <2>0. phase[p] = "fetch" /\ mine[p].doc \in Docs
    BY <1>7, <1>m DEF FetchStored, FetchPaid, FetchRaises, UnderFlight
  <2>1. PICK raw \in Kinds \cup {"none"} : Receive(p, raw)
    BY <1>7, <1>m, <2>0 DEF FetchStored, FetchPaid, FetchRaises, ParseTypeOK
  <2>2. [mine[p] EXCEPT !.raw = raw] \in Local
        /\ [mine[p] EXCEPT !.raw = raw].doc = mine[p].doc
        /\ [mine[p] EXCEPT !.raw = raw].raw = raw
    BY <1>m DEF Local
  <2>3. mine' \in [Pipes -> Local] /\ phase' \in [Pipes -> Phases] /\ InWork'
    <3>1. CASE raw = "good"
      BY <1>i, <2>0, <2>1, <2>2, <3>1, Moves DEF Receive
    <3>2. CASE raw # "good"
      BY <1>i, <2>0, <2>1, <2>2, <3>2, Moves DEF Receive
    <3> QED BY <3>1, <3>2
  <2>4. response' \in [Modes -> [Docs -> Kinds \cup {"none"}]] /\ settled' \in Nat
    <3>1. response \in [Modes -> [Docs -> Kinds \cup {"none"}]] /\ settled \in Nat
      BY DEF ParseTypeOK
    <3>2. CASE UNCHANGED gateway
      BY <3>1, <3>2
    <3>3. ASSUME NEW kind \in Kinds \cup {"none"}, settled' = settled + 1,
                 response' = [response EXCEPT ![mine[p].mode][mine[p].doc] = kind]
          PROVE  response' \in [Modes -> [Docs -> Kinds \cup {"none"}]] /\ settled' \in Nat
      BY <1>m, <2>0, <3>1, <3>3
    <3> QED BY <1>7, <3>2, <3>3 DEF FetchStored, FetchPaid, FetchRaises
  <2>5. UNCHANGED <<evidence, operator, flight, begun>>
    BY <1>7 DEF FetchStored, FetchPaid, FetchRaises
  <2> QED BY <2>3, <2>4, <2>5 DEF ParseTypeOK
<1>a. ASSUME NEW p \in Pipes, mine[p].doc \in Docs, NEW field \in {"new", "failed"},
             Account(p, field)
      PROVE  /\ mine' \in [Pipes -> Local] /\ phase' \in [Pipes -> Phases] /\ InWork'
             /\ flight' \in [Modes -> [Docs -> Pipes \cup {NoPipe}]]
  <2>1. /\ [mine[p] EXCEPT !.new = @ \cup {mine[p].doc}, !.doc = NoDoc, !.raw = "none"] \in Local
        /\ [mine[p] EXCEPT !.failed = @ \cup {mine[p].doc}, !.doc = NoDoc, !.raw = "none"] \in Local
    BY <1>m, <1>a DEF Local
  <2>2. To(p, "next") /\ Land(p) /\ \E local \in Local : Set(p, local)
    BY <1>a, <2>1 DEF Account
  <2> QED BY <1>i, <2>2, Moves, LandType
<1>8. ASSUME NEW p \in Pipes, Save(p) PROVE ParseTypeOK' /\ InWork'
  <2>1. phase[p] = "save" /\ mine[p].raw = "good" /\ mine[p].doc \in Docs
    BY <1>8, <1>m DEF Save, InWork, UnderFlight
  <2>2. /\ Put(mine[p].mode, mine[p].doc, "succeeded", mine[p].raw) /\ Account(p, "new")
        /\ UNCHANGED <<drifted, gateway, operator, begun>>
    BY <1>8 DEF Save
  <2>3. row' \in [Modes -> [Docs -> Row]]
    BY <1>m, <2>1, <2>2, PutType
  <2> QED BY <1>a, <2>1, <2>2, <2>3 DEF ParseTypeOK
<1>9. ASSUME NEW p \in Pipes, SaveRaises(p) PROVE ParseTypeOK' /\ InWork'
  <2>1. phase[p] = "save" /\ mine[p].raw = "good" /\ mine[p].doc \in Docs
    BY <1>9, <1>m DEF SaveRaises, InWork, UnderFlight
  <2>2. To(p, "record") /\ Set(p, mine[p])
    BY <1>9 DEF SaveRaises, Set, ParseTypeOK
  <2>3. mine' \in [Pipes -> Local] /\ phase' \in [Pipes -> Phases] /\ InWork'
    BY <1>m, <1>i, <2>1, <2>2, Moves
  <2>4. row' \in [Modes -> [Docs -> Row]]
    BY <1>9, <1>m, <2>1, PutType DEF SaveRaises, ParseTypeOK
  <2> QED BY <1>0, <1>9, <2>3, <2>4 DEF SaveRaises, ParseTypeOK
<1>10. ASSUME NEW p \in Pipes, RecordFailure(p) PROVE ParseTypeOK' /\ InWork'
  <2>1. mine[p].raw \in Kinds \cup {"none"} /\ mine[p].doc \in Docs /\ mine[p].mode \in Modes
    BY <1>10, <1>m DEF RecordFailure, UnderFlight, Local
  <2>2. Account(p, "failed") /\ UNCHANGED <<gateway, operator, begun>>
    BY <1>10 DEF RecordFailure
  <2>3. row' \in [Modes -> [Docs -> Row]] /\ drifted' \in SUBSET (Modes \X Docs)
    <3>1. CASE mine[p].raw = "none"
      BY <1>10, <2>1, <3>1, PutType DEF RecordFailure, ParseTypeOK
    <3>2. CASE mine[p].raw = "drifted"
      BY <1>10, <2>1, <3>2 DEF RecordFailure, ParseTypeOK
    <3>3. CASE mine[p].raw \in {"good", "malformed"}
      BY <1>10, <2>1, <3>3, PutType DEF RecordFailure, ParseTypeOK
    <3> QED BY <2>1, <3>1, <3>2, <3>3 DEF Kinds
  <2> QED BY <1>a, <2>1, <2>2, <2>3 DEF ParseTypeOK
<1>11. ASSUME NEW p \in Pipes, Finish(p) \/ Abort(p) PROVE ParseTypeOK' /\ InWork'
  <2>1. mine' \in [Pipes -> Local] /\ phase' \in [Pipes -> Phases] /\ InWork'
    BY <1>11, <1>i, FreshType, Moves DEF Finish, Abort
  <2>2. flight' \in [Modes -> [Docs -> Pipes \cup {NoPipe}]]
    BY <1>11, LandType DEF Finish, Abort, ParseTypeOK
  <2> QED BY <1>11, <2>1, <2>2 DEF Finish, Abort, ParseTypeOK
<1>12. ASSUME NEW m \in Modes, NEW d \in Docs,
              ReconcileRead(m, d) \/ ReconcileWrite(m, d) \/ Corrupt(m, d)
       PROVE  ParseTypeOK' /\ InWork'
  <2>1. UNCHANGED <<flight, phase, mine>>
    BY <1>12 DEF ReconcileRead, ReconcileWrite, Corrupt
  <2>2. row' \in [Modes -> [Docs -> Row]]
    <3>1. CASE Corrupt(m, d)
      <4>1. row[m][d] \in Row /\ row' = [row EXCEPT ![m] = [@ EXCEPT ![d] =
                                                 [row[m][d] EXCEPT !.raw = "corrupt"]]]
        BY <3>1 DEF Corrupt, ParseTypeOK
      <4>2. [row[m][d] EXCEPT !.raw = "corrupt"] \in Row
        BY <4>1 DEF Row
      <4> QED BY <4>1, <4>2 DEF ParseTypeOK
    <3> QED BY <1>12, <3>1, PutType DEF ReconcileRead, ReconcileWrite, ParseTypeOK
  <2>3. InWork'
    BY <2>1 DEF InWork
  <2>4. /\ UNCHANGED <<drifted, gateway, source, begun>>
        /\ pending' \in SUBSET (Modes \X Docs) /\ reconciled' \in BOOLEAN
        /\ faults' \in 0..MaxFaults
    <3>1. CASE ReconcileRead(m, d)
      BY <3>1 DEF ReconcileRead, ParseTypeOK
    <3>2. CASE ReconcileWrite(m, d)
      BY <3>2 DEF ReconcileWrite, ParseTypeOK
    <3>3. CASE Corrupt(m, d)
      BY <1>0, <3>3 DEF Corrupt, ParseTypeOK
    <3> QED BY <1>12, <3>1, <3>2, <3>3
  <2> QED BY <2>1, <2>2, <2>3, <2>4 DEF ParseTypeOK
<1>13. ASSUME NEW d \in Docs, Replace(d) PROVE ParseTypeOK' /\ InWork'
  BY <1>0, <1>13 DEF Replace, ParseTypeOK, InWork
<1>14. CASE UNCHANGED vars
  BY <1>14 DEF vars, ParseTypeOK, InWork
<1> QED
  BY <1>1, <1>2, <1>3, <1>4, <1>5, <1>6, <1>7, <1>8, <1>9, <1>10, <1>11, <1>12, <1>13, <1>14
  DEF Next, Step

LEMMA Typed == Spec => [](ParseTypeOK /\ InWork)
<1>1. Init => ParseTypeOK /\ InWork
  <2> SUFFICES ASSUME Init PROVE ParseTypeOK /\ InWork
    OBVIOUS
  <2>1. /\ row \in [Modes -> [Docs -> Row]] /\ mine \in [Pipes -> Local]
        /\ executions \in 0..MaxExecutions /\ faults \in 0..MaxFaults
    BY FreshType, ParseAssumption DEF Init, Row
  <2> QED BY <2>1 DEF Init, ParseTypeOK, InWork, Phases, UnderFlight
<1> QED BY <1>1, TypesStep, PTL DEF Spec

(* Every variable holds values of its type (ParseTypeOK). *)
THEOREM ParseTypes == Spec => []ParseTypeOK
BY Typed, PTL
-----------------------------------------------------------------------------
(* The inductive invariant.                                                *)

(* The local variables at an await: who is about to take a document has    *)
(* sorted all of them, who works on one has sorted all the others.         *)
Sorted(where, local) ==
    /\ where \in {"idle", "ready", "parity", "plan"} => local.new = {} /\ local.failed = {}
    /\ where \in {"idle", "ready", "parity"} => local.hits = {}
    /\ where \in {"next"} \cup UnderFlight =>
          /\ local.todo \cap (local.hits \cup local.new \cup local.failed) = {}
          /\ local.hits \cap (local.new \cup local.failed) = {}
          /\ local.new \cap local.failed = {}
    /\ where = "next" =>
          local.todo \cup local.hits \cup local.new \cup local.failed = Docs
    /\ where \in UnderFlight =>
          /\ local.doc \notin local.todo \cup local.hits \cup local.new \cup local.failed
          /\ local.todo \cup local.hits \cup local.new \cup local.failed \cup {local.doc}
             = Docs

DocsSorted == \A p \in Pipes : Sorted(phase[p], mine[p])

(* A step of a process sorts its documents again, and nobody else's. *)
LEMMA SortedAt ==
    ASSUME ParseTypeOK, DocsSorted, NEW p \in Pipes, NEW where, To(p, where),
           NEW local, Set(p, local), Sorted(where, local)
    PROVE  DocsSorted'
<1>1. \A q \in Pipes : /\ phase'[q] = IF q = p THEN where ELSE phase[q]
                       /\ mine'[q] = IF q = p THEN local ELSE mine[q]
  BY DEF ParseTypeOK, To, Set
<1>2. ASSUME NEW q \in Pipes PROVE Sorted(phase[q], mine[q])'
  <2>1. CASE q = p
    BY <1>1, <2>1 DEF Sorted
  <2>2. CASE q # p
    BY <1>1, <2>2 DEF DocsSorted, Sorted
  <2> QED BY <2>1, <2>2
<1> QED BY <1>2 DEF DocsSorted

LEMMA SortedStep ==
    ASSUME ParseTypeOK, InWork, DocsSorted, [Next]_vars
    PROVE  DocsSorted'
<1>i. {"idle", "ready", "parity", "plan", "next"} \cap UnderFlight = {}
      /\ {"look", "fetch", "save", "record"} = UnderFlight
  BY DEF UnderFlight
<1>m. ASSUME NEW p \in Pipes
      PROVE  /\ mine[p] \in Local /\ Sorted(phase[p], mine[p])
             /\ phase[p] \in UnderFlight => mine[p].doc \in Docs
  BY DEF ParseTypeOK, InWork, DocsSorted
<1>f. Sorted("idle", Fresh)
  BY <1>i DEF Sorted, Fresh
<1>1. ASSUME NEW p \in Pipes, DryRun(p) PROVE DocsSorted'
  <2>1. PICK m, plan :
            m \in Modes /\ To(p, "ready") /\ Set(p, [Fresh EXCEPT !.mode = m, !.plan = plan])
    BY <1>1 DEF DryRun
  <2>2. Sorted("ready", [Fresh EXCEPT !.mode = m, !.plan = plan])
    BY <1>i DEF Sorted, Fresh
  <2> QED BY <2>1, <2>2, SortedAt
<1>2. ASSUME NEW p \in Pipes, Execute(p) PROVE DocsSorted'
  <2>1. PICK resume, same :
            /\ To(p, IF mine[p].mode = "enhanced" THEN "parity" ELSE "plan")
            /\ Set(p, [mine[p] EXCEPT !.resume = resume, !.settled = settled, !.unread = Docs,
                                      !.same = same])
    BY <1>2 DEF Execute
  <2>2. phase[p] = "ready"
    BY <1>2 DEF Execute
  <2>3. Sorted(IF mine[p].mode = "enhanced" THEN "parity" ELSE "plan",
               [mine[p] EXCEPT !.resume = resume, !.settled = settled, !.unread = Docs,
                               !.same = same])
    BY <1>i, <1>m, <2>2 DEF Sorted, Local
  <2> QED BY <2>1, <2>3, SortedAt
<1>3. ASSUME NEW p \in Pipes, ReadParity(p) PROVE DocsSorted'
  <2>1. PICK d :
            \/ To(p, "idle") /\ Set(p, Fresh)
            \/ To(p, "plan") /\ Set(p, [mine[p] EXCEPT !.unread = Docs])
            \/ To(p, "parity") /\ Set(p, [mine[p] EXCEPT !.unread = @ \ {d}])
    BY <1>3 DEF ReadParity, To, ParseTypeOK
  <2>2. phase[p] = "parity"
    BY <1>3 DEF ReadParity
  <2>3. /\ Sorted("plan", [mine[p] EXCEPT !.unread = Docs])
        /\ Sorted("parity", [mine[p] EXCEPT !.unread = @ \ {d}])
    BY <1>i, <1>m, <2>2 DEF Sorted, Local
  <2> QED BY <1>f, <2>1, <2>3, SortedAt
<1>4. ASSUME NEW p \in Pipes, ReadPlan(p) PROVE DocsSorted'
  <2>1. CASE To(p, "idle") /\ Set(p, Fresh)
    BY <1>f, <2>1, SortedAt
  <2>2. ASSUME NEW where \in {"plan", "next"}, NEW local \in Local, To(p, where), Set(p, local),
               local.new = mine[p].new, local.failed = mine[p].failed,
               where = "next" => local.todo = Docs \ local.hits
        PROVE  DocsSorted'
    <3>1. mine[p].new = {} /\ mine[p].failed = {}
      BY <1>4, <1>m DEF ReadPlan, Sorted
    <3>2. Sorted(where, local)
      BY <1>i, <2>2, <3>1 DEF Sorted, Local
    <3> QED BY <2>2, <3>2, SortedAt
  <2> QED BY <1>4, <2>1, <2>2, PlanStep
<1>5. ASSUME NEW p \in Pipes, Take(p) PROVE DocsSorted'
  <2>1. PICK d \in mine[p].todo :
            To(p, "look") /\ Set(p, [mine[p] EXCEPT !.doc = d, !.todo = @ \ {d}])
    BY <1>5 DEF Take
  <2>2. Sorted("look", [mine[p] EXCEPT !.doc = d, !.todo = @ \ {d}])
    BY <1>5, <1>i, <1>m, <2>1 DEF Take, Sorted, Local
  <2> QED BY <2>1, <2>2, SortedAt
<1>6. ASSUME NEW p \in Pipes, Look(p) PROVE DocsSorted'
  <2>1. phase[p] = "look"
    BY <1>6 DEF Look
  <2>2. CASE To(p, "next")
             /\ Set(p, [mine[p] EXCEPT !.hits = @ \cup {mine[p].doc}, !.doc = NoDoc])
    <3>1. Sorted("next", [mine[p] EXCEPT !.hits = @ \cup {mine[p].doc}, !.doc = NoDoc])
      BY <1>i, <1>m, <2>1 DEF Sorted, Local
    <3> QED BY <2>2, <3>1, SortedAt
  <2>3. ASSUME NEW where \in {"fetch", "record"}, To(p, where), UNCHANGED mine
        PROVE  DocsSorted'
    <3>1. Set(p, mine[p])
      BY <2>3 DEF Set, ParseTypeOK
    <3>2. Sorted(where, mine[p])
      BY <1>i, <1>m, <2>1 DEF Sorted
    <3> QED BY <2>3, <3>1, <3>2, SortedAt
  <2> QED BY <1>6, <2>2, <2>3 DEF Look
<1>7. ASSUME NEW p \in Pipes, FetchStored(p) \/ FetchPaid(p) \/ FetchRaises(p) PROVE DocsSorted'
  <2>1. PICK where, raw :
            where \in {"save", "record"} /\ To(p, where) /\ Set(p, [mine[p] EXCEPT !.raw = raw])
    BY <1>7 DEF FetchStored, FetchPaid, FetchRaises, Receive
  <2>2. Sorted(where, [mine[p] EXCEPT !.raw = raw])
    BY <1>7, <1>i, <1>m, <2>1 DEF FetchStored, FetchPaid, FetchRaises, Sorted, Local
  <2> QED BY <2>1, <2>2, SortedAt
<1>8. ASSUME NEW p \in Pipes, Save(p) \/ RecordFailure(p) PROVE DocsSorted'
  <2>1. phase[p] \in UnderFlight /\ (Account(p, "new") \/ Account(p, "failed"))
    BY <1>8, <1>i DEF Save, RecordFailure
  <2>2. /\ Sorted("next", [mine[p] EXCEPT !.new = @ \cup {mine[p].doc}, !.doc = NoDoc,
                                          !.raw = "none"])
        /\ Sorted("next", [mine[p] EXCEPT !.failed = @ \cup {mine[p].doc}, !.doc = NoDoc,
                                          !.raw = "none"])
    BY <1>i, <1>m, <2>1 DEF Sorted, Local
  <2> QED BY <2>1, <2>2, SortedAt DEF Account
<1>9. ASSUME NEW p \in Pipes, SaveRaises(p) PROVE DocsSorted'
  <2>1. To(p, "record") /\ Set(p, mine[p])
    BY <1>9 DEF SaveRaises, Set, ParseTypeOK
  <2>2. Sorted("record", mine[p])
    BY <1>9, <1>i, <1>m DEF SaveRaises, Sorted
  <2> QED BY <2>1, <2>2, SortedAt
<1>10. ASSUME NEW p \in Pipes, Finish(p) \/ Abort(p) PROVE DocsSorted'
  BY <1>10, <1>f, SortedAt DEF Finish, Abort
<1>11. CASE UNCHANGED <<phase, mine>>
  BY <1>11 DEF DocsSorted, Sorted
<1> QED
  BY <1>1, <1>2, <1>3, <1>4, <1>5, <1>6, <1>7, <1>8, <1>9, <1>10, <1>11
  DEF Next, Step, vars, ReconcileRead, ReconcileWrite, Corrupt, Replace
-----------------------------------------------------------------------------
(* What a process has taken from the gateway's answers, directly or from   *)
(* the rows: the response in hand, its hits and its new documents, and for *)
(* Enhanced the documents whose Standard parse it has checked.             *)
Trusted(answer, where, local) ==
    /\ where \notin {"save", "record"} => local.raw = "none"
    /\ where \in {"save", "record"} /\ local.raw # "none" =>
          answer[local.mode][local.doc] = local.raw
    /\ \A d \in local.hits \cup local.new : answer[local.mode][d] = "good"
    /\ local.mode = "enhanced" /\ where = "parity" =>
          \A d \in Docs \ local.unread : answer["standard"][d] = "good"
    /\ local.mode = "enhanced" /\ where \in {"plan", "next"} \cup UnderFlight =>
          \A d \in Docs : answer["standard"][d] = "good"

AnswersTrusted == \A p \in Pipes : Trusted(response, phase[p], mine[p])

(* What waits to be written back by a reconciliation. *)
Reconciling ==
    /\ pending # {} => reconciled
    /\ \A m \in Modes, d \in Docs : <<m, d>> \in pending => response[m][d] = "good"

ParseIInv ==
    /\ ParseTypeOK /\ InWork /\ DocsSorted
    /\ FlightHeld /\ AnswersTrusted /\ Reconciling
    /\ RowsHoldResponses /\ EnhancedAfterStandard /\ NeverReparsesIntact

(* A stored answer stays, and only a payment for its own document adds one. *)
LEMMA AnswersStay ==
    ASSUME ParseTypeOK, InWork, [Next]_vars
    PROVE  \A m \in Modes, d \in Docs :
              response[m][d] # "none" => response'[m][d] = response[m][d]
<1>1. CASE UNCHANGED response
  BY <1>1
<1>2. ASSUME NEW p \in Pipes, FetchPaid(p) \/ FetchRaises(p), ~UNCHANGED response
      PROVE  \A m \in Modes, d \in Docs :
                response[m][d] # "none" => response'[m][d] = response[m][d]
  <2>1. PICK raw :
            /\ response[mine[p].mode][mine[p].doc] = "none"
            /\ response' = [response EXCEPT ![mine[p].mode][mine[p].doc] = raw]
    BY <1>2 DEF FetchPaid, FetchRaises, gateway
  <2> QED BY <2>1 DEF ParseTypeOK
<1> QED
  BY <1>1, <1>2 DEF Next, Step, vars, gateway, DryRun, Execute, ReadParity, ReadPlan, Take,
     Look, FetchStored, Save, SaveRaises, RecordFailure, Finish, Abort, ReconcileRead,
     ReconcileWrite, Corrupt, Replace

(* Everything trusted stays so. *)
LEMMA TrustedAt ==
    ASSUME ParseTypeOK, InWork, AnswersTrusted, [Next]_vars,
           NEW p \in Pipes, NEW where, To(p, where), NEW local, Set(p, local),
           Trusted(response', where, local)
    PROVE  AnswersTrusted'
<1>1. \A q \in Pipes : /\ phase'[q] = IF q = p THEN where ELSE phase[q]
                       /\ mine'[q] = IF q = p THEN local ELSE mine[q]
  BY DEF ParseTypeOK, To, Set
<1>2. ASSUME NEW q \in Pipes PROVE Trusted(response', phase'[q], mine'[q])
  <2>1. CASE q = p
    BY <1>1, <2>1
  <2>2. CASE q # p
    <3>1. Trusted(response, phase[q], mine[q]) /\ mine[q] \in Local
          /\ (phase[q] \in UnderFlight => mine[q].doc \in Docs)
      BY DEF AnswersTrusted, ParseTypeOK, InWork
    <3>2. \A m \in Modes, d \in Docs :
              response[m][d] # "none" => response'[m][d] = response[m][d]
      BY AnswersStay
    <3>3. Trusted(response', phase[q], mine[q])
      BY <3>1, <3>2 DEF Trusted, Local, UnderFlight, Modes
    <3> QED BY <1>1, <2>2, <3>3
  <2> QED BY <2>1, <2>2
<1> QED BY <1>2 DEF AnswersTrusted

LEMMA TrustedStep ==
    ASSUME ParseIInv, [Next]_vars
    PROVE  AnswersTrusted'
<1> USE DEF ParseIInv
<1>i. {"idle", "ready", "parity", "plan", "next"} \cap UnderFlight = {}
      /\ {"look", "fetch", "save", "record"} = UnderFlight
  BY DEF UnderFlight
<1>m. ASSUME NEW p \in Pipes
      PROVE  /\ mine[p] \in Local /\ Trusted(response, phase[p], mine[p])
             /\ phase[p] \in UnderFlight => mine[p].doc \in Docs
  BY DEF ParseTypeOK, InWork, AnswersTrusted
<1>f. \A answer : Trusted(answer, "idle", Fresh)
  BY <1>i DEF Trusted, Fresh
<1>r. \A m \in Modes, d \in Docs : Intact(row[m][d]) => response[m][d] = "good"
  BY DEF RowsHoldResponses, Intact
<1>1. ASSUME NEW p \in Pipes, DryRun(p) PROVE AnswersTrusted'
  <2>1. PICK m, plan :
            m \in Modes /\ To(p, "ready") /\ Set(p, [Fresh EXCEPT !.mode = m, !.plan = plan])
    BY <1>1 DEF DryRun
  <2>2. Trusted(response', "ready", [Fresh EXCEPT !.mode = m, !.plan = plan])
    BY <1>i DEF Trusted, Fresh
  <2> QED BY <2>1, <2>2, TrustedAt
<1>2. ASSUME NEW p \in Pipes, Execute(p) PROVE AnswersTrusted'
  <2>1. PICK resume, same :
            /\ To(p, IF mine[p].mode = "enhanced" THEN "parity" ELSE "plan")
            /\ Set(p, [mine[p] EXCEPT !.resume = resume, !.settled = settled, !.unread = Docs,
                                      !.same = same])
    BY <1>2 DEF Execute
  <2>2. phase[p] = "ready" /\ UNCHANGED response
    BY <1>2 DEF Execute, gateway
  <2> DEFINE local == [mine[p] EXCEPT !.resume = resume, !.settled = settled, !.unread = Docs,
                                      !.same = same]
  <2>3. local.mode = mine[p].mode /\ local.raw = mine[p].raw /\ local.hits = mine[p].hits
        /\ local.new = mine[p].new /\ local.unread = Docs
    BY <1>m DEF Local
  <2> HIDE DEF local
  <2>4. Trusted(response', IF mine[p].mode = "enhanced" THEN "parity" ELSE "plan", local)
    BY <1>i, <1>m, <2>2, <2>3 DEF Trusted
  <2> QED BY <2>1, <2>4, TrustedAt DEF local
<1>3. ASSUME NEW p \in Pipes, ReadParity(p) PROVE AnswersTrusted'
  <2>1. PICK d \in mine[p].unread :
            IF ~Parity(d) THEN To(p, "idle") /\ Set(p, Fresh)
            ELSE IF mine[p].unread = {d}
                 THEN To(p, "plan") /\ Set(p, [mine[p] EXCEPT !.unread = Docs])
                 ELSE Set(p, [mine[p] EXCEPT !.unread = @ \ {d}]) /\ UNCHANGED phase
    BY <1>3 DEF ReadParity
  <2>2. phase[p] = "parity" /\ UNCHANGED response
    BY <1>3 DEF ReadParity, gateway
  <2>3. Parity(d) => response["standard"][d] = "good"
    BY <1>m, <1>r DEF Parity, Local, Modes
  <2>4. CASE Parity(d) /\ mine[p].unread = {d}
    <3>1. Trusted(response', "plan", [mine[p] EXCEPT !.unread = Docs])
      BY <1>i, <1>m, <2>2, <2>3, <2>4 DEF Trusted, Local
    <3> QED BY <2>1, <2>4, <3>1, TrustedAt
  <2>5. CASE Parity(d) /\ mine[p].unread # {d}
    <3>1. Trusted(response', "parity", [mine[p] EXCEPT !.unread = @ \ {d}])
      BY <1>i, <1>m, <2>2, <2>3, <2>5 DEF Trusted, Local
    <3>2. To(p, "parity")
      BY <2>1, <2>2, <2>5 DEF To, ParseTypeOK
    <3> QED BY <2>1, <2>5, <3>1, <3>2, TrustedAt
  <2> QED BY <1>f, <2>1, <2>4, <2>5, TrustedAt
<1>4. ASSUME NEW p \in Pipes, ReadPlan(p) PROVE AnswersTrusted'
  <2>1. CASE To(p, "idle") /\ Set(p, Fresh)
    BY <1>f, <2>1, TrustedAt
  <2>2. ASSUME NEW where \in {"plan", "next"}, NEW local \in Local, To(p, where), Set(p, local),
               local.mode = mine[p].mode, local.new = mine[p].new, local.raw = mine[p].raw,
               local.hits \subseteq mine[p].hits \cup
                                    {d \in Docs : Intact(row[mine[p].mode][d])}
        PROVE  AnswersTrusted'
    <3>1. phase[p] = "plan" /\ UNCHANGED response
      BY <1>4 DEF ReadPlan, gateway
    <3>2. Trusted(response', where, local)
      BY <1>i, <1>m, <1>r, <2>2, <3>1 DEF Trusted, Local
    <3> QED BY <2>2, <3>2, TrustedAt
  <2> QED BY <1>4, <2>1, <2>2, PlanStep
<1>5. ASSUME NEW p \in Pipes, Take(p) PROVE AnswersTrusted'
  <2>1. PICK d \in mine[p].todo :
            To(p, "look") /\ Set(p, [mine[p] EXCEPT !.doc = d, !.todo = @ \ {d}])
    BY <1>5 DEF Take
  <2>2. Trusted(response', "look", [mine[p] EXCEPT !.doc = d, !.todo = @ \ {d}])
    BY <1>5, <1>i, <1>m, <2>1 DEF Take, gateway, Trusted, Local
  <2> QED BY <2>1, <2>2, TrustedAt
<1>6. ASSUME NEW p \in Pipes, Look(p) PROVE AnswersTrusted'
  <2>1. phase[p] = "look" /\ UNCHANGED response /\ mine[p].doc \in Docs
    BY <1>6, <1>i, <1>m DEF Look, gateway
  <2>2. CASE Intact(row[mine[p].mode][mine[p].doc]) /\ To(p, "next")
             /\ Set(p, [mine[p] EXCEPT !.hits = @ \cup {mine[p].doc}, !.doc = NoDoc])
    <3>1. Trusted(response', "next", [mine[p] EXCEPT !.hits = @ \cup {mine[p].doc},
                                                     !.doc = NoDoc])
      BY <1>i, <1>m, <1>r, <2>1, <2>2 DEF Trusted, Local
    <3> QED BY <2>2, <3>1, TrustedAt
  <2>3. ASSUME NEW where \in {"fetch", "record"}, To(p, where), UNCHANGED mine
        PROVE  AnswersTrusted'
    <3>1. Set(p, mine[p])
      BY <2>3 DEF Set, ParseTypeOK
    <3>2. Trusted(response', where, mine[p])
      BY <1>i, <1>m, <2>1 DEF Trusted
    <3> QED BY <2>3, <3>1, <3>2, TrustedAt
  <2> QED BY <1>6, <2>2, <2>3 DEF Look
<1>7. ASSUME NEW p \in Pipes, FetchStored(p) \/ FetchPaid(p) \/ FetchRaises(p)
      PROVE  AnswersTrusted'
  <2>1. phase[p] = "fetch" /\ mine[p].doc \in Docs /\ mine[p].mode \in Modes
    BY <1>7, <1>i, <1>m DEF FetchStored, FetchPaid, FetchRaises, Local
  <2>2. PICK raw : Receive(p, raw) /\ (raw # "none" => response'[mine[p].mode][mine[p].doc] = raw)
    <3>1. CASE FetchStored(p)
      BY <3>1 DEF FetchStored, gateway
    <3>2. CASE FetchPaid(p)
      BY <2>1, <3>2 DEF FetchPaid, ParseTypeOK
    <3>3. CASE FetchRaises(p)
      BY <3>3 DEF FetchRaises
    <3> QED BY <1>7, <3>1, <3>2, <3>3
  <2>3. PICK where \in {"save", "record"} :
            To(p, where) /\ Set(p, [mine[p] EXCEPT !.raw = raw])
    BY <2>2 DEF Receive
  <2> DEFINE local == [mine[p] EXCEPT !.raw = raw]
  <2>4. /\ local.raw = raw
        /\ \A field \in {"mode", "doc", "hits", "new", "unread"} : local[field] = mine[p][field]
    BY <1>m DEF Local
  <2>5. \A m \in Modes, d \in Docs :
            response[m][d] # "none" => response'[m][d] = response[m][d]
    BY AnswersStay
  <2>6. mine[p].hits \cup mine[p].new \subseteq Docs /\ "standard" \in Modes
    BY <1>m DEF Local, Modes
  <2> HIDE DEF local
  <2>7. Trusted(response', where, local)
    BY <1>i, <1>m, <2>1, <2>2, <2>4, <2>5, <2>6 DEF Trusted
  <2> QED BY <2>3, <2>7, TrustedAt DEF local
<1>8. ASSUME NEW p \in Pipes, Save(p) PROVE AnswersTrusted'
  <2>1. phase[p] = "save" /\ mine[p].raw = "good" /\ Account(p, "new") /\ UNCHANGED response
    BY <1>8 DEF Save, gateway, InWork
  <2>2. Trusted(response', "next", [mine[p] EXCEPT !.new = @ \cup {mine[p].doc}, !.doc = NoDoc,
                                                   !.raw = "none"])
    BY <1>i, <1>m, <2>1 DEF Trusted, Local
  <2> QED BY <2>1, <2>2, TrustedAt DEF Account
<1>9. ASSUME NEW p \in Pipes, RecordFailure(p) PROVE AnswersTrusted'
  <2>1. phase[p] = "record" /\ Account(p, "failed") /\ UNCHANGED response
    BY <1>9 DEF RecordFailure, gateway
  <2>2. Trusted(response', "next", [mine[p] EXCEPT !.failed = @ \cup {mine[p].doc},
                                                   !.doc = NoDoc, !.raw = "none"])
    BY <1>i, <1>m, <2>1 DEF Trusted, Local
  <2> QED BY <2>1, <2>2, TrustedAt DEF Account
<1>10. ASSUME NEW p \in Pipes, SaveRaises(p) PROVE AnswersTrusted'
  <2>1. To(p, "record") /\ Set(p, mine[p]) /\ phase[p] = "save" /\ UNCHANGED response
    BY <1>10 DEF SaveRaises, Set, ParseTypeOK, gateway
  <2>2. Trusted(response', "record", mine[p])
    BY <1>i, <1>m, <2>1 DEF Trusted
  <2> QED BY <2>1, <2>2, TrustedAt
<1>11. ASSUME NEW p \in Pipes, Finish(p) \/ Abort(p) PROVE AnswersTrusted'
  BY <1>11, <1>f, TrustedAt DEF Finish, Abort
<1>12. CASE UNCHANGED <<phase, mine, response>>
  BY <1>12 DEF AnswersTrusted
<1> QED
  BY <1>1, <1>2, <1>3, <1>4, <1>5, <1>6, <1>7, <1>8, <1>9, <1>10, <1>11, <1>12
  DEF Next, Step, vars, gateway, ReconcileRead, ReconcileWrite, Corrupt, Replace
-----------------------------------------------------------------------------
(* The flight is given to who takes a document, and back by nobody else. *)
LEMMA FlightStep ==
    ASSUME ParseIInv, [Next]_vars
    PROVE  FlightHeld'
<1> USE DEF ParseIInv
<1>i. {"idle", "ready", "parity", "plan", "next"} \cap UnderFlight = {}
      /\ {"look", "fetch", "save", "record"} = UnderFlight
  BY DEF UnderFlight
<1>t. /\ flight \in [Modes -> [Docs -> Pipes \cup {NoPipe}]] /\ NoPipe \notin Pipes
      /\ phase \in [Pipes -> Phases] /\ mine \in [Pipes -> Local]
      /\ \A p \in Pipes : /\ mine[p].mode \in Modes
                          /\ phase[p] \in UnderFlight => mine[p].doc \in Docs
  BY ParseAssumption DEF ParseTypeOK, InWork, Local
<1>h. \A p \in Pipes : phase[p] \in UnderFlight => flight[mine[p].mode][mine[p].doc] = p
  BY DEF FlightHeld
<1>1. ASSUME NEW p \in Pipes, NEW where \in Phases \ UnderFlight, To(p, where),
             UNCHANGED flight, \A q \in Pipes \ {p} : mine'[q] = mine[q]
      PROVE  FlightHeld'
  BY <1>1, <1>t, <1>h DEF FlightHeld, To
<1>2. ASSUME NEW p \in Pipes, NEW where \in UnderFlight, To(p, where), phase[p] \in UnderFlight,
             UNCHANGED flight, \A q \in Pipes \ {p} : mine'[q] = mine[q],
             mine'[p].mode = mine[p].mode, mine'[p].doc = mine[p].doc
      PROVE  FlightHeld'
  BY <1>2, <1>t, <1>h DEF FlightHeld, To
<1>3. ASSUME NEW p \in Pipes, phase[p] \in UnderFlight, Land(p),
             NEW where \in Phases \ UnderFlight, To(p, where),
             \A q \in Pipes \ {p} : mine'[q] = mine[q]
      PROVE  FlightHeld'
  <2> SUFFICES ASSUME NEW q \in Pipes, phase'[q] \in UnderFlight
               PROVE  flight'[mine'[q].mode][mine'[q].doc] = q
    BY DEF FlightHeld
  <2>1. q # p /\ phase[q] \in UnderFlight /\ mine'[q] = mine[q]
    BY <1>3, <1>t DEF To
  <2>2. flight[mine[q].mode][mine[q].doc] = q /\ flight[mine[p].mode][mine[p].doc] = p
    BY <1>3, <1>h, <2>1
  <2> QED BY <1>3, <1>t, <2>1, <2>2 DEF Land
<1>p. {"idle", "ready", "parity", "plan", "next"} \subseteq Phases \ UnderFlight
  BY <1>i DEF Phases
<1>s. ASSUME NEW p \in Pipes, NEW local, Set(p, local)
      PROVE  mine'[p] = local /\ \A q \in Pipes \ {p} : mine'[q] = mine[q]
  BY <1>s, <1>t DEF Set
<1>4. ASSUME NEW p \in Pipes, DryRun(p) \/ Execute(p) PROVE FlightHeld'
  BY <1>1, <1>4, <1>p, <1>s DEF DryRun, Execute
<1>5. ASSUME NEW p \in Pipes, ReadParity(p) PROVE FlightHeld'
  BY <1>1, <1>5, <1>p, <1>s, <1>t DEF ReadParity, To
<1>6. ASSUME NEW p \in Pipes, ReadPlan(p) PROVE FlightHeld'
  <2>1. UNCHANGED flight
    BY <1>6 DEF ReadPlan
  <2> QED BY <1>1, <1>6, <1>p, <1>s, <2>1, PlanStep
<1>7. ASSUME NEW p \in Pipes, Take(p) PROVE FlightHeld'
  <2>1. PICK d \in mine[p].todo :
            /\ flight[mine[p].mode][d] = NoPipe
            /\ flight' = [flight EXCEPT ![mine[p].mode][d] = p]
            /\ To(p, "look") /\ Set(p, [mine[p] EXCEPT !.doc = d, !.todo = @ \ {d}])
    BY <1>7 DEF Take
  <2>2. /\ mine'[p].mode = mine[p].mode /\ mine'[p].doc = d /\ d \in Docs
        /\ \A q \in Pipes \ {p} : mine'[q] = mine[q]
    <3> DEFINE local == [mine[p] EXCEPT !.doc = d, !.todo = @ \ {d}]
    <3>1. d \in Docs /\ local.doc = d /\ local.mode = mine[p].mode
      BY <1>t DEF Local
    <3> HIDE DEF local
    <3> QED BY <1>s, <2>1, <3>1 DEF local
  <2> SUFFICES ASSUME NEW q \in Pipes, phase'[q] \in UnderFlight
               PROVE  flight'[mine'[q].mode][mine'[q].doc] = q
    BY DEF FlightHeld
  <2>3. CASE q = p
    BY <1>t, <2>1, <2>2, <2>3
  <2>4. CASE q # p
    <3>1. phase[q] \in UnderFlight /\ mine'[q] = mine[q]
      BY <1>t, <2>1, <2>2, <2>4 DEF To
    <3>2. flight[mine[q].mode][mine[q].doc] = q
      BY <1>h, <3>1
    <3> QED BY <1>t, <2>1, <2>2, <3>1, <3>2
  <2> QED BY <2>3, <2>4
<1>8. ASSUME NEW p \in Pipes, Look(p) PROVE FlightHeld'
  <2>1. phase[p] \in UnderFlight
    BY <1>8, <1>i DEF Look
  <2>2. CASE To(p, "next") /\ Land(p)
             /\ Set(p, [mine[p] EXCEPT !.hits = @ \cup {mine[p].doc}, !.doc = NoDoc])
    BY <1>3, <1>p, <1>s, <2>1, <2>2
  <2>3. ASSUME NEW where \in {"fetch", "record"}, To(p, where), UNCHANGED <<flight, mine>>
        PROVE  FlightHeld'
    BY <1>2, <1>i, <2>1, <2>3
  <2> QED BY <1>8, <2>2, <2>3 DEF Look
<1>9. ASSUME NEW p \in Pipes, FetchStored(p) \/ FetchPaid(p) \/ FetchRaises(p) PROVE FlightHeld'
  <2>1. PICK where, raw :
            where \in {"save", "record"} /\ To(p, where) /\ Set(p, [mine[p] EXCEPT !.raw = raw])
    BY <1>9 DEF FetchStored, FetchPaid, FetchRaises, Receive
  <2>2. phase[p] \in UnderFlight /\ UNCHANGED flight
    BY <1>9, <1>i DEF FetchStored, FetchPaid, FetchRaises
  <2>3. /\ mine'[p].mode = mine[p].mode /\ mine'[p].doc = mine[p].doc
        /\ \A q \in Pipes \ {p} : mine'[q] = mine[q]
    BY <1>s, <1>t, <2>1 DEF Local
  <2> QED BY <1>2, <1>i, <2>1, <2>2, <2>3
<1>10. ASSUME NEW p \in Pipes, Save(p) \/ RecordFailure(p) PROVE FlightHeld'
  <2>1. phase[p] \in UnderFlight /\ (Account(p, "new") \/ Account(p, "failed"))
    BY <1>10, <1>i DEF Save, RecordFailure
  <2>2. To(p, "next") /\ Land(p) /\ \E local : Set(p, local)
    BY <2>1 DEF Account
  <2> QED BY <1>3, <1>p, <1>s, <2>1, <2>2
<1>11. ASSUME NEW p \in Pipes, SaveRaises(p) PROVE FlightHeld'
  BY <1>2, <1>11, <1>i DEF SaveRaises
<1>12. ASSUME NEW p \in Pipes, Finish(p) PROVE FlightHeld'
  BY <1>1, <1>12, <1>p, <1>s DEF Finish
<1>13. ASSUME NEW p \in Pipes, Abort(p) PROVE FlightHeld'
  BY <1>1, <1>3, <1>13, <1>p, <1>s DEF Abort
<1>14. CASE UNCHANGED <<flight, phase, mine>>
  BY <1>14 DEF FlightHeld
<1> QED
  BY <1>4, <1>5, <1>6, <1>7, <1>8, <1>9, <1>10, <1>11, <1>12, <1>13, <1>14
  DEF Next, Step, vars, ReconcileRead, ReconcileWrite, Corrupt, Replace
-----------------------------------------------------------------------------
(* Rows and reconciliations hold what the gateway has stored. *)
LEMMA RowsStep ==
    ASSUME ParseIInv, [Next]_vars
    PROVE  RowsHoldResponses' /\ Reconciling'
<1> USE DEF ParseIInv
<1>a. /\ \A m \in Modes, d \in Docs :
            response[m][d] # "none" => response'[m][d] = response[m][d]
      /\ row \in [Modes -> [Docs -> Row]] /\ pending \subseteq Modes \X Docs
      /\ drifted \subseteq Modes \X Docs
  BY AnswersStay DEF ParseTypeOK
<1>m. ASSUME NEW p \in Pipes
      PROVE  /\ mine[p].mode \in Modes /\ mine[p].raw \in Kinds \cup {"none"}
             /\ Trusted(response, phase[p], mine[p])
             /\ phase[p] \in {"save", "record"} => mine[p].doc \in Docs
             /\ phase[p] = "save" => mine[p].raw = "good"
  BY DEF ParseTypeOK, InWork, AnswersTrusted, Local, UnderFlight
<1>h. ASSUME NEW m \in Modes, NEW d \in Docs
      PROVE  /\ row[m][d].raw \in {"good", "malformed"} => response[m][d] = row[m][d].raw
             /\ <<m, d>> \in drifted => response[m][d] = "drifted"
             /\ row[m][d].status = "succeeded" => response[m][d] = "good"
  BY DEF RowsHoldResponses
<1>g. ASSUME NEW m \in Modes, NEW d \in Docs
      PROVE  /\ row[m][d].raw \in {"good", "malformed"} => response'[m][d] = row[m][d].raw
             /\ <<m, d>> \in drifted => response'[m][d] = "drifted"
             /\ row[m][d].status = "succeeded" => response'[m][d] = "good"
  BY <1>a, <1>h
<1>k. UNCHANGED <<pending, reconciled>> => Reconciling'
  BY <1>a DEF Reconciling
<1>1. ASSUME UNCHANGED row, UNCHANGED drifted PROVE RowsHoldResponses'
  BY <1>1, <1>g DEF RowsHoldResponses
<1>2. ASSUME NEW m \in Modes, NEW d \in Docs, NEW status, NEW raw, Put(m, d, status, raw),
             UNCHANGED drifted,
             raw \in {"good", "malformed"} => response[m][d] = raw,
             status = "succeeded" => response[m][d] = "good"
      PROVE  RowsHoldResponses'
  <2>1. \A n \in Modes, e \in Docs :
            row'[n][e] = IF n = m /\ e = d THEN [status |-> status, raw |-> raw] ELSE row[n][e]
    BY <1>2, <1>a DEF Put
  <2> SUFFICES ASSUME NEW n \in Modes, NEW e \in Docs
               PROVE  /\ row'[n][e].raw \in {"good", "malformed"} =>
                            response'[n][e] = row'[n][e].raw
                      /\ <<n, e>> \in drifted' => response'[n][e] = "drifted"
                      /\ row'[n][e].status = "succeeded" => response'[n][e] = "good"
    BY DEF RowsHoldResponses
  <2>2. <<n, e>> \in drifted' => response'[n][e] = "drifted"
    BY <1>2, <1>g
  <2>3. CASE n = m /\ e = d
    BY <1>2, <1>a, <2>1, <2>2, <2>3
  <2>4. CASE ~(n = m /\ e = d)
    BY <1>g, <2>1, <2>2, <2>4
  <2> QED BY <2>3, <2>4
<1>3. ASSUME NEW p \in Pipes, Save(p) PROVE RowsHoldResponses' /\ Reconciling'
  <2>1. response[mine[p].mode][mine[p].doc] = "good" /\ mine[p].raw = "good"
    BY <1>3, <1>m DEF Save, Trusted
  <2> QED BY <1>2, <1>3, <1>k, <1>m, <2>1 DEF Save, operator
<1>4. ASSUME NEW p \in Pipes, SaveRaises(p) PROVE RowsHoldResponses' /\ Reconciling'
  <2>1. response[mine[p].mode][mine[p].doc] = "good" /\ mine[p].raw = "good"
    BY <1>4, <1>m DEF SaveRaises, Trusted
  <2> QED BY <1>1, <1>2, <1>4, <1>k, <1>m, <2>1 DEF SaveRaises
<1>5. ASSUME NEW p \in Pipes, RecordFailure(p) PROVE RowsHoldResponses' /\ Reconciling'
  <2>1. mine[p].raw # "none" => response[mine[p].mode][mine[p].doc] = mine[p].raw
    BY <1>5, <1>m DEF RecordFailure, Trusted
  <2>2. mine[p].doc \in Docs
    BY <1>5, <1>m DEF RecordFailure
  <2>3. CASE mine[p].raw = "drifted"
    <3>1. UNCHANGED row /\ drifted' = drifted \cup {<<mine[p].mode, mine[p].doc>>}
      BY <1>5, <2>3 DEF RecordFailure
    <3>2. RowsHoldResponses'
      <4>1. response'[mine[p].mode][mine[p].doc] = "drifted"
        BY <1>a, <1>m, <2>1, <2>2, <2>3
      <4>2. \A m \in Modes, d \in Docs : <<m, d>> \in drifted' => response'[m][d] = "drifted"
        BY <1>g, <3>1, <4>1
      <4> QED BY <1>g, <3>1, <4>2 DEF RowsHoldResponses
    <3> QED BY <1>5, <1>k, <3>2 DEF RecordFailure, operator
  <2>4. CASE mine[p].raw # "drifted"
    BY <1>2, <1>5, <1>k, <1>m, <2>1, <2>2, <2>4 DEF RecordFailure, operator
  <2> QED BY <2>3, <2>4
<1>6. ASSUME NEW m \in Modes, NEW d \in Docs, ReconcileRead(m, d)
      PROVE  RowsHoldResponses' /\ Reconciling'
  <2>1. response[m][d] = "good"
    <3>1. row[m][d].raw = "good"
      BY <1>6 DEF ReconcileRead
    <3> QED BY <1>h, <3>1
  <2>2. pending' = {<<m, d>>} /\ reconciled' = TRUE /\ UNCHANGED <<row, drifted, response>>
    BY <1>6 DEF ReconcileRead, evidence, gateway
  <2> QED BY <1>1, <2>1, <2>2 DEF Reconciling
<1>7. ASSUME NEW m \in Modes, NEW d \in Docs, ReconcileWrite(m, d)
      PROVE  RowsHoldResponses' /\ Reconciling'
  <2>1. response[m][d] = "good"
    BY <1>7 DEF ReconcileWrite, Reconciling
  <2> QED BY <1>2, <1>7, <2>1 DEF ReconcileWrite, Reconciling
<1>8. ASSUME NEW m \in Modes, NEW d \in Docs, Corrupt(m, d)
      PROVE  RowsHoldResponses' /\ Reconciling'
  <2>1. /\ row'[m][d].raw = "corrupt" /\ row'[m][d].status = row[m][d].status
        /\ \A n \in Modes, e \in Docs : n # m \/ e # d => row'[n][e] = row[n][e]
    <3>1. row[m][d] \in Row /\ row' = [row EXCEPT ![m] = [@ EXCEPT ![d] =
                                               [row[m][d] EXCEPT !.raw = "corrupt"]]]
      BY <1>8, <1>a DEF Corrupt
    <3>2. /\ [row[m][d] EXCEPT !.raw = "corrupt"].raw = "corrupt"
          /\ [row[m][d] EXCEPT !.raw = "corrupt"].status = row[m][d].status
      BY <3>1 DEF Row
    <3> QED BY <1>a, <3>1, <3>2
  <2>2. UNCHANGED <<drifted, response, pending, reconciled>>
    BY <1>8 DEF Corrupt, gateway
  <2>3. RowsHoldResponses'
    <3> SUFFICES ASSUME NEW n \in Modes, NEW e \in Docs
                 PROVE  /\ row'[n][e].raw \in {"good", "malformed"} =>
                              response'[n][e] = row'[n][e].raw
                        /\ <<n, e>> \in drifted' => response'[n][e] = "drifted"
                        /\ row'[n][e].status = "succeeded" => response'[n][e] = "good"
      BY DEF RowsHoldResponses
    <3>1. CASE n = m /\ e = d
      BY <1>g, <2>1, <2>2, <3>1
    <3>2. CASE ~(n = m /\ e = d)
      BY <1>g, <2>1, <2>2, <3>2
    <3> QED BY <3>1, <3>2
  <2> QED BY <1>k, <2>2, <2>3
<1>9. CASE UNCHANGED <<row, drifted, pending, reconciled>>
  BY <1>1, <1>9, <1>k
<1> QED
  BY <1>3, <1>4, <1>5, <1>6, <1>7, <1>8, <1>9
  DEF Next, Step, vars, evidence, operator, DryRun, Execute, ReadParity, ReadPlan, Take, Look,
      FetchStored, FetchPaid, FetchRaises, Finish, Abort, Replace

(* An Enhanced request is made only by who has checked all of Standard. *)
LEMMA EnhancedStep ==
    ASSUME ParseIInv, [Next]_vars
    PROVE  EnhancedAfterStandard'
<1> USE DEF ParseIInv
<1>1. \A m \in Modes, d \in Docs :
          response[m][d] # "none" => response'[m][d] = response[m][d]
  BY AnswersStay
<1>2. CASE UNCHANGED response
  BY <1>2 DEF EnhancedAfterStandard
<1>3. ASSUME NEW p \in Pipes, FetchPaid(p) \/ FetchRaises(p), ~UNCHANGED response
      PROVE  EnhancedAfterStandard'
  <2>1. PICK raw :
            /\ response' = [response EXCEPT ![mine[p].mode][mine[p].doc] = raw]
            /\ phase[p] = "fetch"
    BY <1>3 DEF FetchPaid, FetchRaises, gateway
  <2>2. mine[p].mode = "enhanced" => \A e \in Docs : response["standard"][e] = "good"
    BY <2>1 DEF AnswersTrusted, Trusted, UnderFlight
  <2> SUFFICES ASSUME NEW d \in Docs, NEW e \in Docs, response'["enhanced"][d] # "none"
               PROVE  response'["standard"][e] = "good"
    BY DEF EnhancedAfterStandard
  <2>3. "standard" \in Modes /\ "enhanced" \in Modes
    BY DEF Modes
  <2>4. CASE response["enhanced"][d] # "none"
    BY <1>1, <2>3, <2>4 DEF EnhancedAfterStandard
  <2>5. CASE response["enhanced"][d] = "none"
    <3>1. mine[p].mode = "enhanced"
      BY <2>1, <2>3, <2>5 DEF ParseTypeOK
    <3> QED BY <1>1, <2>2, <2>3, <3>1
  <2> QED BY <2>4, <2>5
<1> QED
  BY <1>2, <1>3 DEF Next, Step, vars, gateway, DryRun, Execute, ReadParity, ReadPlan, Take,
     Look, FetchStored, Save, SaveRaises, RecordFailure, Finish, Abort, ReconcileRead,
     ReconcileWrite, Corrupt, Replace

(* A row that becomes intact while its document is worked on is written by *)
(* who works on it, or by a reconciliation.                                *)
LEMMA IntactStep ==
    ASSUME ParseIInv, [Next]_vars
    PROVE  NeverReparsesIntact'
<1> USE DEF ParseIInv
<1> SUFFICES ASSUME ~reconciled', NEW q \in Pipes, phase'[q] \in {"fetch", "save"},
                    mine'[q].resume
             PROVE  ~Intact(row'[mine'[q].mode][mine'[q].doc])
  BY DEF NeverReparsesIntact, Intact
<1>t. /\ phase \in [Pipes -> Phases] /\ mine \in [Pipes -> Local]
      /\ row \in [Modes -> [Docs -> Row]]
      /\ \A p \in Pipes : /\ mine[p] \in Local /\ mine[p].mode \in Modes
                          /\ phase[p] \in UnderFlight => mine[p].doc \in Docs
  BY DEF ParseTypeOK, InWork, Local
<1>u. {"fetch", "save", "record", "look"} = UnderFlight
  BY DEF UnderFlight
<1>h. ASSUME ~reconciled, phase[q] \in {"fetch", "save"}, mine[q].resume
      PROVE  ~Intact(row[mine[q].mode][mine[q].doc])
  BY <1>h DEF NeverReparsesIntact
<1>1. ASSUME NEW p \in Pipes, NEW where \in {"idle", "ready", "parity", "plan", "next", "look",
                                            "record"}, To(p, where),
             \A x \in Pipes \ {p} : mine'[x] = mine[x], UNCHANGED <<row, reconciled>>
      PROVE  ~Intact(row'[mine'[q].mode][mine'[q].doc])
  <2>1. q # p /\ phase[q] = phase'[q] /\ mine'[q] = mine[q]
    BY <1>1, <1>t DEF To
  <2> QED BY <1>1, <1>h, <2>1
<1>s. ASSUME NEW p \in Pipes, NEW local, Set(p, local)
      PROVE  mine'[p] = local /\ \A x \in Pipes \ {p} : mine'[x] = mine[x]
  BY <1>s, <1>t DEF Set
<1>2. ASSUME NEW p \in Pipes, Look(p) PROVE ~Intact(row'[mine'[q].mode][mine'[q].doc])
  <2>1. UNCHANGED <<row, reconciled>>
    BY <1>2 DEF Look, evidence, operator
  <2>2. CASE UNCHANGED mine /\ q = p
    BY <1>2, <1>t, <2>1, <2>2 DEF Look, To, Set
  <2>3. CASE UNCHANGED mine /\ q # p
    <3>1. phase'[q] = phase[q]
      BY <1>2, <1>t, <2>3 DEF Look, To
    <3> QED BY <1>h, <2>1, <2>3, <3>1
  <2>4. CASE To(p, "next") /\ \E local : Set(p, local)
    BY <1>1, <1>s, <2>1, <2>4
  <2> QED BY <1>2, <2>2, <2>3, <2>4 DEF Look
<1>3. ASSUME NEW p \in Pipes, FetchStored(p) \/ FetchPaid(p) \/ FetchRaises(p)
      PROVE  ~Intact(row'[mine'[q].mode][mine'[q].doc])
  <2>1. PICK where, raw :
            where \in {"save", "record"} /\ To(p, where) /\ Set(p, [mine[p] EXCEPT !.raw = raw])
    BY <1>3 DEF FetchStored, FetchPaid, FetchRaises, Receive
  <2>2. phase[p] = "fetch" /\ UNCHANGED <<row, reconciled>>
    BY <1>3 DEF FetchStored, FetchPaid, FetchRaises, evidence, operator
  <2>3. CASE q = p
    <3> DEFINE local == [mine[p] EXCEPT !.raw = raw]
    <3>1. local.mode = mine[p].mode /\ local.doc = mine[p].doc /\ local.resume = mine[p].resume
      BY <1>t DEF Local
    <3>2. mine'[p] = local
      BY <1>s, <2>1
    <3> HIDE DEF local
    <3> QED BY <1>h, <2>2, <2>3, <3>1, <3>2
  <2>4. CASE q # p
    <3>1. phase'[q] = phase[q] /\ mine'[q] = mine[q]
      BY <1>s, <1>t, <2>1, <2>4 DEF To
    <3> QED BY <1>h, <2>2, <3>1
  <2> QED BY <2>3, <2>4
<1>4. ASSUME NEW p \in Pipes, phase[p] \in UnderFlight,
             NEW where \in {"next", "record"}, To(p, where),
             \A x \in Pipes \ {p} : mine'[x] = mine[x], UNCHANGED reconciled,
             \A m \in Modes, d \in Docs :
                 m # mine[p].mode \/ d # mine[p].doc => row'[m][d] = row[m][d]
      PROVE  ~Intact(row'[mine'[q].mode][mine'[q].doc])
  <2>1. q # p /\ phase[q] = phase'[q] /\ mine'[q] = mine[q]
    BY <1>4, <1>t DEF To
  <2>2. phase[q] \in UnderFlight /\ mine[q].doc \in Docs
    BY <1>t, <1>u, <2>1
  <2>3. mine[q].mode # mine[p].mode \/ mine[q].doc # mine[p].doc
    BY <1>4, <2>1, <2>2 DEF FlightHeld
  <2> QED BY <1>4, <1>h, <1>t, <2>1, <2>2, <2>3
<1>w. ASSUME NEW m \in Modes, NEW d \in Docs, NEW status, NEW raw, Put(m, d, status, raw)
      PROVE  \A n \in Modes, e \in Docs : n # m \/ e # d => row'[n][e] = row[n][e]
  BY <1>w, <1>t DEF Put
<1>5. ASSUME NEW p \in Pipes, Save(p) \/ RecordFailure(p)
      PROVE  ~Intact(row'[mine'[q].mode][mine'[q].doc])
  <2>1. phase[p] \in UnderFlight /\ (Account(p, "new") \/ Account(p, "failed"))
        /\ UNCHANGED reconciled
    BY <1>5, <1>u DEF Save, RecordFailure, operator
  <2>2. To(p, "next") /\ \E local : Set(p, local)
    BY <2>1 DEF Account
  <2>3. (\E status, raw : Put(mine[p].mode, mine[p].doc, status, raw)) \/ UNCHANGED row
    BY <1>5 DEF Save, RecordFailure
  <2>4. \A m \in Modes, d \in Docs :
            m # mine[p].mode \/ d # mine[p].doc => row'[m][d] = row[m][d]
    BY <1>t, <1>w, <2>1, <2>3
  <2> QED BY <1>4, <1>s, <2>1, <2>2, <2>4
<1>6. ASSUME NEW p \in Pipes, SaveRaises(p)
      PROVE  ~Intact(row'[mine'[q].mode][mine'[q].doc])
  <2>1. (\E status, raw : Put(mine[p].mode, mine[p].doc, status, raw)) \/ UNCHANGED row
    BY <1>6 DEF SaveRaises
  <2>2. phase[p] \in UnderFlight
    BY <1>6, <1>u DEF SaveRaises
  <2>3. \A m \in Modes, d \in Docs :
            m # mine[p].mode \/ d # mine[p].doc => row'[m][d] = row[m][d]
    BY <1>t, <1>w, <2>1, <2>2
  <2> QED BY <1>4, <1>6, <2>2, <2>3 DEF SaveRaises
<1>7. ASSUME NEW m \in Modes, NEW d \in Docs, Corrupt(m, d)
      PROVE  ~Intact(row'[mine'[q].mode][mine'[q].doc])
  <2>1. row' = [row EXCEPT ![m] = [@ EXCEPT ![d] = [row[m][d] EXCEPT !.raw = "corrupt"]]]
        /\ UNCHANGED <<phase, mine, reconciled>>
    BY <1>7 DEF Corrupt
  <2>2. [row[m][d] EXCEPT !.raw = "corrupt"].raw = "corrupt"
    BY <1>t DEF Row
  <2>3. phase[q] \in UnderFlight /\ mine[q].doc \in Docs /\ mine[q].mode \in Modes
    BY <1>t, <1>u, <2>1
  <2>4. CASE mine[q].mode = m /\ mine[q].doc = d
    <3>1. row'[m][d].raw = "corrupt"
      BY <1>t, <2>1, <2>2
    <3> QED BY <2>1, <2>4, <3>1 DEF Intact
  <2>5. CASE ~(mine[q].mode = m /\ mine[q].doc = d)
    <3>1. row'[mine[q].mode][mine[q].doc] = row[mine[q].mode][mine[q].doc]
      BY <1>t, <2>1, <2>3, <2>5
    <3> QED BY <1>h, <2>1, <3>1
  <2> QED BY <2>4, <2>5
<1>8. ASSUME NEW m \in Modes, NEW d \in Docs, ReconcileRead(m, d) \/ ReconcileWrite(m, d)
      PROVE  FALSE
  BY <1>8 DEF ReconcileRead, ReconcileWrite, Reconciling
<1>9. ASSUME NEW p \in Pipes, DryRun(p) \/ Execute(p) \/ Take(p) \/ Finish(p) \/ Abort(p)
      PROVE  ~Intact(row'[mine'[q].mode][mine'[q].doc])
  BY <1>1, <1>9, <1>s DEF DryRun, Execute, Take, Finish, Abort, evidence, operator
<1>10. ASSUME NEW p \in Pipes, ReadParity(p) PROVE ~Intact(row'[mine'[q].mode][mine'[q].doc])
  BY <1>1, <1>10, <1>s, <1>t DEF ReadParity, To, evidence, operator
<1>11. ASSUME NEW p \in Pipes, ReadPlan(p) PROVE ~Intact(row'[mine'[q].mode][mine'[q].doc])
  <2>1. UNCHANGED <<row, reconciled>>
    BY <1>11 DEF ReadPlan, evidence, operator
  <2> QED BY <1>1, <1>11, <1>s, <2>1, PlanStep
<1>12. CASE UNCHANGED <<row, phase, mine, reconciled>>
  BY <1>12, <1>h
<1> QED
  BY <1>2, <1>3, <1>5, <1>6, <1>7, <1>8, <1>9, <1>10, <1>11, <1>12
  DEF Next, Step, vars, evidence, Replace

(* What strengthens the pipeline's safety properties is inductive. *)
THEOREM ParseInvariant == Spec => []ParseIInv
<1>1. Init => DocsSorted /\ FlightHeld /\ AnswersTrusted /\ Reconciling
              /\ RowsHoldResponses /\ EnhancedAfterStandard /\ NeverReparsesIntact
  <2> SUFFICES ASSUME Init
               PROVE  DocsSorted /\ FlightHeld /\ AnswersTrusted /\ Reconciling
                      /\ RowsHoldResponses /\ EnhancedAfterStandard /\ NeverReparsesIntact
    OBVIOUS
  <2>1. /\ \A p \in Pipes : phase[p] = "idle" /\ mine[p] = Fresh
        /\ \A m \in Modes, d \in Docs : row[m][d] = [status |-> "absent", raw |-> "none"]
        /\ \A m \in Modes, d \in Docs : response[m][d] = "none"
        /\ drifted = {} /\ pending = {}
    BY DEF Init
  <2>2. Sorted("idle", Fresh) /\ Trusted(response, "idle", Fresh) /\ "idle" \notin UnderFlight
    BY DEF Sorted, Trusted, UnderFlight, Fresh
  <2>3. EnhancedAfterStandard
    BY <2>1 DEF EnhancedAfterStandard, Modes
  <2>4. RowsHoldResponses /\ Reconciling /\ NeverReparsesIntact
    BY <2>1 DEF RowsHoldResponses, Reconciling, NeverReparsesIntact
  <2> QED BY <2>1, <2>2, <2>3, <2>4 DEF DocsSorted, AnswersTrusted, FlightHeld
<1>2. ParseIInv /\ [Next]_vars => ParseIInv'
  BY TypesStep, SortedStep, FlightStep, TrustedStep, RowsStep, EnhancedStep, IntactStep
  DEF ParseIInv
<1>3. Init /\ ParseTypeOK /\ InWork => ParseIInv
  BY <1>1 DEF ParseIInv
<1> QED BY <1>2, <1>3, Typed, PTL DEF Spec

(* An execution that resumes asks the gateway for no document whose        *)
(* checkpoint is intact (NeverReparsesIntact).                             *)
THEOREM NeverReparsesIntactHolds == Spec => []NeverReparsesIntact
BY ParseInvariant, PTL DEF ParseIInv

(* Rows hold what the gateway has stored (RowsHoldResponses). *)
THEOREM RowsHoldResponsesHolds == Spec => []RowsHoldResponses
BY ParseInvariant, PTL DEF ParseIInv

(* Enhanced is paid for only after Standard succeeded for the whole        *)
(* snapshot (EnhancedAfterStandard).                                       *)
THEOREM EnhancedAfterStandardHolds == Spec => []EnhancedAfterStandard
BY ParseInvariant, PTL DEF ParseIInv

(* Each document is counted once in a summary, and what counts as          *)
(* succeeded has a good response (SummaryAddsUp).                          *)
THEOREM SummaryAddsUpHolds == Spec => []SummaryAddsUp
<1>1. ParseIInv => SummaryAddsUp
  BY DEF ParseIInv, DocsSorted, Sorted, AnswersTrusted, Trusted, SummaryAddsUp
<1> QED BY <1>1, ParseInvariant, PTL
-----------------------------------------------------------------------------
(* The budget, while executions take turns: what a process may still pay   *)
(* for, on top of what is settled, stays below the budget.                 *)
Left(where, local) ==
    Cardinality(local.todo) + IF where \in {"look", "fetch"} THEN 1 ELSE 0

Frugal(paid, where, local) ==
    /\ where \in {"parity", "plan"} => local.settled = paid
    /\ where \in {"next"} \cup UnderFlight => paid + Left(where, local) < Budget

Resting(where) == where \in {"idle", "ready"}

Turns == ~overlap =>
    /\ \A p, q \in Pipes : p # q => Resting(phase[p]) \/ Resting(phase[q])
    /\ \A p \in Pipes : Frugal(settled, phase[p], mine[p])

BudgetIInv == ParseTypeOK /\ InWork /\ Turns /\ TurnsBelowBudget

LEMMA DocsFinite ==
    ASSUME NEW D \in SUBSET Docs
    PROVE  IsFiniteSet(D) /\ Cardinality(D) \in Nat
<1>1. IsFiniteSet(Docs)
  BY ParseAssumption
<1>2. IsFiniteSet(D)
  BY <1>1, FS_Subset
<1> QED BY <1>2, FS_CardinalityType

(* A turn is kept if its holder pays only for what was left to it.         *)
LEMMA TurnKept ==
    ASSUME BudgetIInv, NEW p \in Pipes, ~overlap', ~overlap,
           NEW where \in Phases, To(p, where), NEW local \in Local, Set(p, local),
           Resting(where) \/ ~Resting(phase[p]) \/ \A q \in Pipes : Resting(phase[q]),
           Frugal(settled', where, local), settled' = settled \/ ~Resting(phase[p]),
           settled' < Budget \/ settled' = 0
    PROVE  Turns' /\ TurnsBelowBudget'
<1> USE DEF BudgetIInv
<1>1. \A q \in Pipes : /\ phase'[q] = IF q = p THEN where ELSE phase[q]
                       /\ mine'[q] = IF q = p THEN local ELSE mine[q]
  BY DEF ParseTypeOK, To, Set
<1>2. /\ \A q, r \in Pipes : q # r => Resting(phase[q]) \/ Resting(phase[r])
      /\ \A q \in Pipes : Frugal(settled, phase[q], mine[q])
  BY DEF Turns
<1>3. \A q, r \in Pipes : q # r => Resting(phase'[q]) \/ Resting(phase'[r])
  BY <1>1, <1>2
<1>4. ASSUME NEW q \in Pipes PROVE Frugal(settled', phase'[q], mine'[q])
  <2>1. CASE q = p
    BY <1>1, <2>1
  <2>2. CASE q # p /\ settled' = settled
    BY <1>1, <1>2, <2>2
  <2>3. CASE q # p /\ ~Resting(phase[p])
    BY <1>1, <1>2, <2>3 DEF Frugal, Resting, UnderFlight
  <2> QED BY <2>1, <2>2, <2>3
<1>5. Turns'
  <2>1. Turns' <=> (~overlap' =>
            /\ \A q, r \in Pipes : q # r => Resting(phase'[q]) \/ Resting(phase'[r])
            /\ \A q \in Pipes : Frugal(settled', phase'[q], mine'[q]))
    BY DEF Turns, Resting, Frugal, Left
  <2> QED BY <1>3, <1>4, <2>1
<1> QED BY <1>5 DEF TurnsBelowBudget

LEMMA BudgetStep ==
    ASSUME BudgetIInv, [Next]_vars
    PROVE  Turns' /\ TurnsBelowBudget'
<1> USE DEF BudgetIInv
<1>0. CASE overlap'
  BY <1>0 DEF Turns, TurnsBelowBudget
<1>u. CASE UNCHANGED <<overlap, phase, mine, settled>>
  BY <1>u DEF Turns, TurnsBelowBudget, Resting, Frugal, Left
<1> SUFFICES ASSUME ~overlap' PROVE Turns' /\ TurnsBelowBudget'
  BY <1>0
<1>i. /\ {"idle", "ready", "parity", "plan", "next"} \cap UnderFlight = {}
      /\ {"look", "fetch", "save", "record"} = UnderFlight
      /\ {"idle", "ready", "parity", "plan", "next", "look", "fetch", "save", "record"} = Phases
  BY DEF UnderFlight, Phases
<1>b. Budget \in Nat /\ settled \in Nat
  BY ParseAssumption DEF ParseTypeOK
<1>o. overlap' = overlap \/ \E p \in Pipes : Execute(p)
  BY DEF Next, Step, vars, begun, DryRun, Execute, ReadParity, ReadPlan, Take, Look,
     FetchStored, FetchPaid, FetchRaises, Save, SaveRaises, RecordFailure, Finish, Abort,
     ReconcileRead, ReconcileWrite, Corrupt, Replace
<1>n. ~overlap /\ (settled < Budget \/ settled = 0)
  <2>1. overlap \in BOOLEAN /\ overlap' = FALSE
    BY TypesStep DEF ParseTypeOK
  <2>2. ~overlap
    BY <1>o, <2>1 DEF Execute
  <2> QED BY <2>2 DEF TurnsBelowBudget
<1>m. ASSUME NEW p \in Pipes
      PROVE  /\ mine[p] \in Local /\ Frugal(settled, phase[p], mine[p])
             /\ phase[p] \in UnderFlight => mine[p].doc \in Docs
             /\ phase[p] = "save" => mine[p].raw = "good"
             /\ IsFiniteSet(mine[p].todo) /\ Cardinality(mine[p].todo) \in Nat
  BY <1>n, DocsFinite DEF ParseTypeOK, InWork, Turns, Local
<1>f. \A where \in {"idle", "ready"} : \A local : Frugal(settled, where, local)
  BY <1>i DEF Frugal
<1>1. ASSUME NEW p \in Pipes, DryRun(p) PROVE Turns' /\ TurnsBelowBudget'
  <2>1. To(p, "ready") /\ settled' = settled /\ Resting("ready")
    BY <1>1 DEF DryRun, gateway, Resting
  <2>2. Set(p, mine'[p]) /\ mine'[p] \in Local
    <3>1. PICK local : Set(p, local)
      BY <1>1 DEF DryRun
    <3>2. mine'[p] = local
      BY <3>1 DEF Set, ParseTypeOK
    <3> QED BY <3>1, <3>2, TypesStep DEF ParseTypeOK
  <2> QED BY <1>f, <1>i, <1>n, <2>1, <2>2, TurnKept
<1>2. ASSUME NEW p \in Pipes, Execute(p) PROVE Turns' /\ TurnsBelowBudget'
  <2>1. PICK resume \in BOOLEAN :
            Set(p, [mine[p] EXCEPT !.resume = resume, !.settled = settled, !.unread = Docs,
                                   !.same = settled = mine[p].plan.settled])
    BY <1>2 DEF Execute
  <2> DEFINE local == [mine[p] EXCEPT !.resume = resume, !.settled = settled, !.unread = Docs,
                                      !.same = settled = mine[p].plan.settled]
  <2>2. local \in Local /\ local.settled = settled
    BY <1>b, <1>m DEF Local
  <2> HIDE DEF local
  <2>3. PICK where \in {"parity", "plan"} : To(p, where)
    BY <1>2 DEF Execute
  <2>4. settled' = settled /\ \A q \in Pipes : Resting(phase[q])
    BY <1>2 DEF Execute, gateway, Resting
  <2>5. Frugal(settled, where, local)
    BY <1>i, <2>2, <2>3 DEF Frugal
  <2> QED BY <1>i, <1>n, <2>1, <2>2, <2>3, <2>4, <2>5, TurnKept DEF local
<1>3. ASSUME NEW p \in Pipes, ReadParity(p) PROVE Turns' /\ TurnsBelowBudget'
  <2>1. PICK d :
            \/ To(p, "idle") /\ Set(p, Fresh)
            \/ To(p, "plan") /\ Set(p, [mine[p] EXCEPT !.unread = Docs])
            \/ To(p, "parity") /\ Set(p, [mine[p] EXCEPT !.unread = @ \ {d}])
    BY <1>3 DEF ReadParity, To, ParseTypeOK
  <2>2. phase[p] = "parity" /\ settled' = settled /\ Resting("idle") /\ ~Resting(phase[p])
    BY <1>3 DEF ReadParity, gateway, Resting
  <2>3. /\ [mine[p] EXCEPT !.unread = Docs] \in Local
        /\ [mine[p] EXCEPT !.unread = @ \ {d}] \in Local
        /\ Frugal(settled, "plan", [mine[p] EXCEPT !.unread = Docs])
        /\ Frugal(settled, "parity", [mine[p] EXCEPT !.unread = @ \ {d}])
    BY <1>i, <1>m, <2>2 DEF Frugal, Local
  <2> QED BY <1>f, <1>i, <1>n, <2>1, <2>2, <2>3, FreshType, TurnKept
<1>4. ASSUME NEW p \in Pipes, ReadPlan(p) PROVE Turns' /\ TurnsBelowBudget'
  <2>1. phase[p] = "plan" /\ settled' = settled /\ Resting("idle") /\ ~Resting(phase[p])
    BY <1>4 DEF ReadPlan, gateway, Resting
  <2>2. CASE To(p, "idle") /\ Set(p, Fresh)
    <3>1. Frugal(settled, "idle", Fresh) /\ Fresh \in Local
      BY <1>f, FreshType
    <3> QED BY <1>i, <1>n, <2>1, <2>2, <3>1, TurnKept
  <2>3. ASSUME NEW where \in {"plan", "next"}, NEW local \in Local, To(p, where), Set(p, local),
               where = "plan" => local.settled = mine[p].settled,
               where = "next" => Affordable(local.todo, mine[p].settled)
        PROVE  Turns' /\ TurnsBelowBudget'
    <3>1. mine[p].settled = settled
      BY <1>m, <2>1 DEF Frugal
    <3>2. Cardinality(local.todo) \in Nat
      BY <2>3, DocsFinite DEF Local
    <3>3. Frugal(settled, where, local)
      BY <1>b, <1>i, <2>3, <3>1, <3>2 DEF Frugal, Left, Affordable
    <3> QED BY <1>i, <1>n, <2>1, <2>3, <3>3, TurnKept
  <2> QED BY <1>4, <2>2, <2>3, PlanStep
<1>5. ASSUME NEW p \in Pipes, Take(p) PROVE Turns' /\ TurnsBelowBudget'
  <2>1. PICK d \in mine[p].todo :
            To(p, "look") /\ Set(p, [mine[p] EXCEPT !.doc = d, !.todo = @ \ {d}])
    BY <1>5 DEF Take
  <2> DEFINE local == [mine[p] EXCEPT !.doc = d, !.todo = @ \ {d}]
  <2>2. local \in Local /\ local.todo = mine[p].todo \ {d}
    BY <1>m, <2>1 DEF Local
  <2> HIDE DEF local
  <2>3. phase[p] = "next" /\ settled' = settled /\ ~Resting(phase[p])
    BY <1>5 DEF Take, gateway, Resting
  <2>4. Cardinality(local.todo) = Cardinality(mine[p].todo) - 1
    <3>1. IsFiniteSet(mine[p].todo) /\ d \in mine[p].todo
      BY <1>m, <2>1
    <3>2. Cardinality(mine[p].todo \ {d}) = Cardinality(mine[p].todo) - 1
      BY <3>1, FS_RemoveElement
    <3> QED BY <2>2, <3>2
  <2>5. settled + Cardinality(mine[p].todo) < Budget
    BY <1>b, <1>m, <2>3 DEF Frugal, Left
  <2>6. Left("look", local) = Cardinality(mine[p].todo)
    BY <1>m, <2>4 DEF Left
  <2>7. Frugal(settled, "look", local)
    BY <2>5, <2>6 DEF Frugal
  <2> QED BY <1>i, <1>n, <2>1, <2>2, <2>3, <2>7, TurnKept DEF local
<1>6. ASSUME NEW p \in Pipes, Look(p) PROVE Turns' /\ TurnsBelowBudget'
  <2>1. phase[p] = "look" /\ settled' = settled /\ ~Resting(phase[p])
    BY <1>6 DEF Look, gateway, Resting
  <2>2. settled + Cardinality(mine[p].todo) + 1 < Budget
    BY <1>b, <1>i, <1>m, <2>1 DEF Frugal, Left
  <2>3. CASE To(p, "next")
             /\ Set(p, [mine[p] EXCEPT !.hits = @ \cup {mine[p].doc}, !.doc = NoDoc])
    <3> DEFINE local == [mine[p] EXCEPT !.hits = @ \cup {mine[p].doc}, !.doc = NoDoc]
    <3>1. local \in Local /\ local.todo = mine[p].todo
      BY <1>i, <1>m, <2>1 DEF Local
    <3> HIDE DEF local
    <3>2. Frugal(settled, "next", local)
      BY <1>b, <1>m, <2>2, <3>1 DEF Frugal, Left
    <3> QED BY <1>i, <1>n, <2>1, <2>3, <3>1, <3>2, TurnKept DEF local
  <2>4. ASSUME NEW where \in {"fetch", "record"}, To(p, where), UNCHANGED mine
        PROVE  Turns' /\ TurnsBelowBudget'
    <3>1. Set(p, mine[p])
      BY <2>4 DEF Set, ParseTypeOK
    <3>2. Frugal(settled, where, mine[p])
      BY <1>b, <1>m, <2>2, <2>4 DEF Frugal, Left
    <3> QED BY <1>i, <1>m, <1>n, <2>1, <2>4, <3>1, <3>2, TurnKept
  <2> QED BY <1>6, <2>3, <2>4 DEF Look
<1>7. ASSUME NEW p \in Pipes, FetchStored(p) \/ FetchPaid(p) \/ FetchRaises(p)
      PROVE  Turns' /\ TurnsBelowBudget'
  <2>1. phase[p] = "fetch" /\ settled' \in {settled, settled + 1} /\ ~Resting(phase[p])
    BY <1>7 DEF FetchStored, FetchPaid, FetchRaises, gateway, Resting
  <2>2. settled + Cardinality(mine[p].todo) + 1 < Budget
    BY <1>b, <1>i, <1>m, <2>1 DEF Frugal, Left
  <2>3. PICK raw \in Kinds \cup {"none"} : Receive(p, raw)
    <3>1. mine[p].mode \in Modes /\ mine[p].doc \in Docs
      BY <1>i, <1>m, <2>1 DEF Local
    <3> QED BY <1>7, <3>1 DEF FetchStored, FetchPaid, FetchRaises, ParseTypeOK
  <2> DEFINE local == [mine[p] EXCEPT !.raw = raw]
  <2>4. local \in Local /\ local.todo = mine[p].todo
    BY <1>m DEF Local
  <2> HIDE DEF local
  <2>5. PICK where \in {"save", "record"} : To(p, where) /\ Set(p, local)
    BY <2>3 DEF Receive, local
  <2>6. Frugal(settled', where, local) /\ settled' < Budget
    BY <1>b, <1>m, <2>1, <2>2, <2>4, <2>5 DEF Frugal, Left
  <2> QED BY <1>i, <1>n, <2>1, <2>4, <2>5, <2>6, TurnKept
<1>8. ASSUME NEW p \in Pipes, Save(p) \/ RecordFailure(p) PROVE Turns' /\ TurnsBelowBudget'
  <2>1. phase[p] \in {"save", "record"} /\ (Account(p, "new") \/ Account(p, "failed"))
        /\ settled' = settled /\ ~Resting(phase[p])
    BY <1>8 DEF Save, RecordFailure, gateway, Resting
  <2>2. settled + Cardinality(mine[p].todo) < Budget
    BY <1>b, <1>i, <1>m, <2>1 DEF Frugal, Left
  <2>3. PICK local \in Local : /\ Set(p, local) /\ To(p, "next")
                               /\ local.todo = mine[p].todo
    <3> DEFINE new == [mine[p] EXCEPT !.new = @ \cup {mine[p].doc}, !.doc = NoDoc,
                                      !.raw = "none"]
               failed == [mine[p] EXCEPT !.failed = @ \cup {mine[p].doc}, !.doc = NoDoc,
                                         !.raw = "none"]
    <3>1. new \in Local /\ new.todo = mine[p].todo
      BY <1>i, <1>m, <2>1 DEF Local
    <3>2. failed \in Local /\ failed.todo = mine[p].todo
      BY <1>i, <1>m, <2>1 DEF Local
    <3>3. To(p, "next") /\ (Set(p, new) \/ Set(p, failed))
      BY <2>1 DEF Account
    <3> HIDE DEF new, failed
    <3> QED BY <3>1, <3>2, <3>3
  <2>4. Frugal(settled, "next", local)
    BY <1>b, <1>m, <2>2, <2>3 DEF Frugal, Left
  <2> QED BY <1>i, <1>n, <2>1, <2>3, <2>4, TurnKept
<1>9. ASSUME NEW p \in Pipes, SaveRaises(p) PROVE Turns' /\ TurnsBelowBudget'
  <2>1. phase[p] = "save" /\ To(p, "record") /\ Set(p, mine[p]) /\ settled' = settled
        /\ ~Resting(phase[p])
    BY <1>9 DEF SaveRaises, gateway, Resting, Set, ParseTypeOK
  <2>2. Frugal(settled, "record", mine[p])
    BY <1>b, <1>i, <1>m, <2>1 DEF Frugal, Left
  <2> QED BY <1>i, <1>m, <1>n, <2>1, <2>2, TurnKept
<1>10. ASSUME NEW p \in Pipes, Finish(p) \/ Abort(p) PROVE Turns' /\ TurnsBelowBudget'
  <2>1. To(p, "idle") /\ Set(p, Fresh) /\ settled' = settled /\ Resting("idle")
    BY <1>10 DEF Finish, Abort, gateway, Resting
  <2> QED BY <1>f, <1>i, <1>n, <2>1, FreshType, TurnKept
<1> QED
  BY <1>u, <1>1, <1>2, <1>3, <1>4, <1>5, <1>6, <1>7, <1>8, <1>9, <1>10
  DEF Next, Step, vars, gateway, begun, ReconcileRead, ReconcileWrite, Corrupt, Replace

(* Executions that take turns stay below the budget (TurnsBelowBudget).    *)
THEOREM TurnsBelowBudgetHolds == Spec => []TurnsBelowBudget
<1>1. Init => Turns /\ TurnsBelowBudget
  BY DEF Init, Turns, TurnsBelowBudget, Resting, Frugal, UnderFlight
<1>2. BudgetIInv /\ [Next]_vars => BudgetIInv'
  BY TypesStep, BudgetStep DEF BudgetIInv
<1>3. BudgetIInv <=> ParseTypeOK /\ InWork /\ Turns /\ TurnsBelowBudget
  BY DEF BudgetIInv
<1> QED BY <1>1, <1>2, <1>3, Typed, PTL DEF Spec

(***************************************************************************)
(* The collection of a corpus.  Whatever has a name keeps its bytes: a     *)
(* file is linked where there is none.  So what a collector has published  *)
(* on its way (JobSound) still stands when it links the PDF, and what a    *)
(* manifest was found valid against still stands after it.                 *)
(***************************************************************************)
CorpusFile == FragmentFiles \cup ReportFiles

CollectionStages == {"lock", "stage", "fragment", "report", "pdf", "return"}

Job == [at : CollectionStages, id : Documents, about : Abouts, dir : Dirs,
        fragment : FileNames, report : FileNames, content : Contents]

CorpusTypes ==
    /\ rawDir \in [Documents -> Contents \cup {NoFile}]
    /\ outputs \in [Dirs -> [FileNames -> CorpusFile \cup {NoFile}]]
    /\ \A c \in Collectors : job[c] = NoJob \/ job[c] \in Job
    /\ DOMAIN job = Collectors
    /\ \A r \in returned \cup frozen : r.id \in Documents /\ r.content \in Contents

(* What a collector's place says of the directories. *)
JobSound(j, files, pdfs) ==
    /\ j.at \in {"report", "pdf", "return"} => files[j.dir][j.fragment] = Fragment(j)
    /\ j.at \in {"pdf", "return"} => files[j.dir][j.report] = Report(j)
    /\ j.at = "return" => pdfs[j.id] = j.content

CorpusIInv ==
    /\ CorpusTypes
    /\ \A c \in Collectors : job[c].at # "idle" => JobSound(job[c], outputs, rawDir)
    /\ CorpusStands

(* Whatever has a name keeps its bytes. *)
WriteOnce ==
    /\ \A d \in Documents : rawDir[d] # NoFile => rawDir'[d] = rawDir[d]
    /\ \A o \in Dirs, n \in FileNames : outputs[o][n] # NoFile => outputs'[o][n] = outputs[o][n]

LEMMA JobFiles ==
    ASSUME NEW j \in Job
    PROVE  Fragment(j) \in FragmentFiles /\ Report(j) \in ReportFiles
BY DEF Job, Fragment, Report, FragmentFiles, ReportFiles

(* What one step publishes. *)
LEMMA PublishStep ==
    ASSUME CorpusTypes, NEW c \in Collectors, job[c] \in Job, NEW name \in FileNames,
           NEW staged \in CorpusFile, NEW next, PublishFile(c, name, staged, next)
    PROVE  /\ outputs' \in [Dirs -> [FileNames -> CorpusFile \cup {NoFile}]]
           /\ \A o \in Dirs, n \in FileNames :
                 outputs[o][n] # NoFile => outputs'[o][n] = outputs[o][n]
           /\ \/ Advances(c, next) /\ outputs'[job[c].dir][name] = staged
              \/ Leaves(c) /\ UNCHANGED outputs
<1> DEFINE o == job[c].dir
           existing == outputs[o][name]
<1>1. o \in Dirs /\ existing \in CorpusFile \cup {NoFile} /\ staged # NoFile
  BY CorpusAssumption DEF CorpusTypes, Job, CorpusFile
<1>2. CASE Accepts(existing, staged)
  <2> DEFINE new == IF existing = NoFile THEN staged ELSE existing
  <2>1. new = staged /\ new \in CorpusFile
    BY <1>2 DEF Accepts
  <2>2. outputs' = [outputs EXCEPT ![o][name] = new] /\ Advances(c, next)
    BY <1>2 DEF PublishFile, Publishes
  <2>3. outputs \in [Dirs -> [FileNames -> CorpusFile \cup {NoFile}]]
    BY DEF CorpusTypes
  <2> HIDE DEF new, o
  <2>4. outputs' = [outputs EXCEPT ![o] = [outputs[o] EXCEPT ![name] = new]]
    BY <1>1, <2>2, <2>3, Zenon
  <2>5. [outputs[o] EXCEPT ![name] = new] \in [FileNames -> CorpusFile \cup {NoFile}]
    BY <1>1, <2>1, <2>3
  <2>6. /\ outputs' \in [Dirs -> [FileNames -> CorpusFile \cup {NoFile}]]
        /\ outputs'[o] = [outputs[o] EXCEPT ![name] = new]
        /\ \A p \in Dirs \ {o} : outputs'[p] = outputs[p]
    BY <1>1, <2>3, <2>4, <2>5
  <2>7. outputs'[o][name] = new /\ \A n \in FileNames \ {name} : outputs'[o][n] = outputs[o][n]
    BY <1>1, <2>3, <2>6
  <2>8. ASSUME NEW p \in Dirs, NEW n \in FileNames, outputs[p][n] # NoFile
        PROVE  outputs'[p][n] = outputs[p][n]
    <3>1. CASE p = o /\ n = name
      BY <2>1, <2>7, <2>8, <3>1, <1>2 DEF Accepts
    <3> QED BY <2>6, <2>7, <3>1
  <2> QED BY <2>1, <2>2, <2>6, <2>7, <2>8 DEF o
<1>3. CASE ~Accepts(existing, staged)
  BY <1>3 DEF PublishFile, CorpusTypes
<1> QED BY <1>2, <1>3

(* A step of a collector: it moves on with the same arguments, leaves, or  *)
(* begins; what it publishes it needs next.                                *)
CollectorStep(c) ==
    \/ \E j \in Job : j.at = "lock" /\ job' = [job EXCEPT ![c] = j]
    \/ Leaves(c)
    \/ \E where \in CollectionStages :
          /\ job[c] \in Job /\ Advances(c, where)
          /\ JobSound([job[c] EXCEPT !.at = where], outputs', rawDir')

LEMMA CollectStep ==
    ASSUME CorpusIInv, NEW c \in Collectors, Collect(c)
    PROVE  /\ CollectorStep(c)
           /\ WriteOnce
           /\ rawDir' \in [Documents -> Contents \cup {NoFile}]
           /\ outputs' \in [Dirs -> [FileNames -> CorpusFile \cup {NoFile}]]
           /\ frozen' = frozen
           /\ returned' # returned =>
                /\ job[c] \in Job /\ job[c].at = "return"
                /\ returned' = returned \cup {Record(job[c])}
           /\ \A d \in Documents : rawDir'[d] # rawDir[d] =>
                /\ job[c] \in Job /\ job[c].at = "pdf"
                /\ job[c].id = d /\ rawDir'[d] = job[c].content
<1> USE DEF CorpusIInv
<1>0. job[c].at # "idle" => job[c] \in Job /\ JobSound(job[c], outputs, rawDir)
  BY DEF CorpusTypes, NoJob
<1>1. CASE BeginCollection(c)
  <2>1. PICK d \in Documents, a \in Abouts, o \in Dirs, names \in NamePairs, b \in Contents :
          job' = [job EXCEPT ![c] = [at |-> "lock", id |-> d, about |-> a, dir |-> o,
                                     fragment |-> names[1], report |-> names[2], content |-> b]]
    BY <1>1 DEF BeginCollection
  <2>2. names[1] \in FileNames /\ names[2] \in FileNames
    BY CorpusAssumption
  <2>3. [at |-> "lock", id |-> d, about |-> a, dir |-> o,
         fragment |-> names[1], report |-> names[2], content |-> b] \in Job
    BY <2>2 DEF Job, CollectionStages
  <2> QED BY <1>1, <2>1, <2>3 DEF BeginCollection, CollectorStep, WriteOnce, CorpusTypes
<1>2. CASE CollectorLock(c)
  <2>1. JobSound([job[c] EXCEPT !.at = "stage"], outputs', rawDir')
    BY <1>0, <1>2 DEF CollectorLock, JobSound, Job
  <2> QED BY <1>0, <1>2, <2>1
      DEF CollectorLock, CollectorStep, WriteOnce, CorpusTypes, CollectionStages
<1>3. CASE Stage(c)
  <2>1. Leaves(c) \/ Advances(c, "fragment")
    BY <1>3 DEF Stage
  <2>2. JobSound([job[c] EXCEPT !.at = "fragment"], outputs', rawDir')
    BY <1>0, <1>3 DEF Stage, JobSound, Job
  <2> QED BY <1>0, <1>3, <2>1, <2>2
      DEF Stage, CollectorStep, WriteOnce, CorpusTypes, CollectionStages
<1>4. CASE PublishFragment(c)
  <2> DEFINE j == [job[c] EXCEPT !.at = "report"]
  <2>1. job[c] \in Job /\ job[c].at = "fragment" /\ UNCHANGED <<rawDir, frozen, returned>>
    BY <1>0, <1>4 DEF PublishFragment
  <2>2. job[c].fragment \in FileNames /\ Fragment(job[c]) \in CorpusFile
    BY <2>1, JobFiles DEF Job, CorpusFile
  <2>3. PublishFile(c, job[c].fragment, Fragment(job[c]), "report")
    BY <1>4 DEF PublishFragment
  <2>4. /\ outputs' \in [Dirs -> [FileNames -> CorpusFile \cup {NoFile}]]
        /\ \A o \in Dirs, n \in FileNames :
              outputs[o][n] # NoFile => outputs'[o][n] = outputs[o][n]
        /\ \/ Advances(c, "report") /\ outputs'[job[c].dir][job[c].fragment] = Fragment(job[c])
           \/ Leaves(c) /\ UNCHANGED outputs
    BY <2>1, <2>2, <2>3, PublishStep
  <2>5. outputs'[job[c].dir][job[c].fragment] = Fragment(job[c]) => JobSound(j, outputs', rawDir')
    BY <2>1 DEF JobSound, Job, Fragment
  <2> QED BY <2>1, <2>4, <2>5 DEF CollectorStep, WriteOnce, CorpusTypes, CollectionStages
<1>5. CASE PublishReport(c)
  <2> DEFINE j == [job[c] EXCEPT !.at = "pdf"]
  <2>1. /\ job[c] \in Job /\ job[c].at = "report" /\ UNCHANGED <<rawDir, frozen, returned>>
        /\ outputs[job[c].dir][job[c].fragment] = Fragment(job[c])
    BY <1>0, <1>5 DEF PublishReport, JobSound
  <2>2. /\ job[c].report \in FileNames /\ Report(job[c]) \in CorpusFile
        /\ Fragment(job[c]) # NoFile
    BY <2>1, JobFiles, CorpusAssumption DEF Job, CorpusFile
  <2>3. PublishFile(c, job[c].report, Report(job[c]), "pdf")
    BY <1>5 DEF PublishReport
  <2>4. /\ outputs' \in [Dirs -> [FileNames -> CorpusFile \cup {NoFile}]]
        /\ \A o \in Dirs, n \in FileNames :
              outputs[o][n] # NoFile => outputs'[o][n] = outputs[o][n]
        /\ \/ Advances(c, "pdf") /\ outputs'[job[c].dir][job[c].report] = Report(job[c])
           \/ Leaves(c) /\ UNCHANGED outputs
    BY <2>1, <2>2, <2>3, PublishStep
  <2>5. outputs'[job[c].dir][job[c].report] = Report(job[c]) => JobSound(j, outputs', rawDir')
    <3>1. outputs'[job[c].dir][job[c].fragment] = Fragment(job[c])
      BY <2>1, <2>2, <2>4 DEF Job
    <3> QED BY <2>1, <3>1 DEF JobSound, Job, Fragment, Report
  <2> QED BY <2>1, <2>4, <2>5 DEF CollectorStep, WriteOnce, CorpusTypes, CollectionStages
<1>6. CASE PublishPdf(c)
  <2> DEFINE j == [job[c] EXCEPT !.at = "return"]
             existing == rawDir[job[c].id]
  <2>1. /\ job[c] \in Job /\ job[c].at = "pdf" /\ UNCHANGED <<outputs, frozen, returned>>
        /\ JobSound(job[c], outputs, rawDir)
    BY <1>0, <1>6 DEF PublishPdf
  <2>2. job[c].id \in Documents /\ job[c].content \in Contents /\ job[c].content # NoFile
    BY <2>1, CorpusAssumption DEF Job
  <2>3. CASE Accepts(existing, job[c].content)
    <3>1. /\ rawDir' = [rawDir EXCEPT ![job[c].id] = job[c].content] /\ Advances(c, "return")
          /\ existing \in {NoFile, job[c].content}
      BY <1>6, <2>3 DEF PublishPdf, Accepts, Publishes
    <3>2. /\ rawDir' \in [Documents -> Contents \cup {NoFile}] /\ rawDir'[job[c].id] = job[c].content
          /\ \A d \in Documents \ {job[c].id} : rawDir'[d] = rawDir[d]
      BY <2>2, <3>1 DEF CorpusTypes
    <3>3. JobSound(j, outputs', rawDir')
      BY <2>1, <3>2 DEF JobSound, Job, Fragment, Report
    <3> QED BY <2>1, <3>1, <3>2, <3>3 DEF CollectorStep, WriteOnce, CorpusTypes, CollectionStages
  <2>4. CASE ~Accepts(existing, job[c].content)
    BY <1>6, <2>1, <2>4 DEF PublishPdf, CollectorStep, WriteOnce, CorpusTypes
  <2> QED BY <2>3, <2>4
<1>7. CASE CollectionReturns(c)
  BY <1>0, <1>7 DEF CollectionReturns, CollectorStep, WriteOnce, CorpusTypes
<1>8. CASE CollectionAborts(c)
  BY <1>0, <1>8 DEF CollectionAborts, CollectorStep, WriteOnce, CorpusTypes
<1> QED BY <1>1, <1>2, <1>3, <1>4, <1>5, <1>6, <1>7, <1>8 DEF Collect

(* What a place says of the directories is true for good. *)
LEMMA SoundStays ==
    ASSUME NEW j \in Job, JobSound(j, outputs, rawDir), WriteOnce
    PROVE  JobSound(j, outputs', rawDir')
<1>1. /\ j.dir \in Dirs /\ j.fragment \in FileNames /\ j.report \in FileNames
      /\ j.id \in Documents /\ j.content # NoFile
      /\ Fragment(j) # NoFile /\ Report(j) # NoFile
  BY JobFiles, CorpusAssumption DEF Job
<1> QED BY <1>1 DEF JobSound, WriteOnce

LEMMA JobsStep ==
    ASSUME CorpusIInv, NEW c \in Collectors, CollectorStep(c), WriteOnce
    PROVE  /\ DOMAIN job' = Collectors
           /\ \A d \in Collectors : job'[d] = NoJob \/ job'[d] \in Job
           /\ \A d \in Collectors : job'[d].at # "idle" => JobSound(job'[d], outputs', rawDir')
<1>1. DOMAIN job = Collectors /\ \A d \in Collectors : job[d] = NoJob \/ job[d] \in Job
  BY DEF CorpusIInv, CorpusTypes
<1>2. PICK j : /\ job' = [job EXCEPT ![c] = j]
               /\ \/ j = NoJob
                  \/ j \in Job /\ JobSound(j, outputs', rawDir')
  <2>1. CASE \E j \in Job : j.at = "lock" /\ job' = [job EXCEPT ![c] = j]
    <3>1. \A j \in Job : j.at = "lock" => JobSound(j, outputs', rawDir')
      BY DEF JobSound
    <3> QED BY <2>1, <3>1
  <2>2. CASE Leaves(c)
    BY <2>2 DEF Leaves
  <2>3. ASSUME NEW where \in CollectionStages, job[c] \in Job, Advances(c, where),
               JobSound([job[c] EXCEPT !.at = where], outputs', rawDir')
        PROVE  \E j : /\ job' = [job EXCEPT ![c] = j]
                      /\ j \in Job /\ JobSound(j, outputs', rawDir')
    <3> DEFINE j == [job[c] EXCEPT !.at = where]
    <3>1. job' = [job EXCEPT ![c] = j]
      BY <2>3, Zenon DEF Advances
    <3>2. j \in Job
      BY <2>3 DEF Job
    <3> QED BY <2>3, <3>1, <3>2
  <2> QED BY <2>1, <2>2, <2>3 DEF CollectorStep
<1>3. /\ DOMAIN job' = Collectors /\ job'[c] = j
      /\ \A d \in Collectors \ {c} : job'[d] = job[d]
  BY <1>1, <1>2
<1>4. ASSUME NEW d \in Collectors \ {c}, job[d].at # "idle" PROVE JobSound(job[d], outputs', rawDir')
  <2>1. job[d] \in Job /\ JobSound(job[d], outputs, rawDir)
    BY <1>1, <1>4 DEF CorpusIInv, NoJob
  <2> QED BY <2>1, SoundStays
<1> QED BY <1>1, <1>2, <1>3, <1>4 DEF NoJob

(* What was collected and what was found valid stays so. *)
LEMMA StandsStep ==
    ASSUME CorpusIInv, NEW c \in Collectors, Collect(c)
    PROVE  CorpusStands' /\ \A r \in returned' : r.id \in Documents /\ r.content \in Contents
<1>1. /\ CollectorStep(c) /\ WriteOnce /\ frozen' = frozen
      /\ rawDir' \in [Documents -> Contents \cup {NoFile}]
      /\ outputs' \in [Dirs -> [FileNames -> CorpusFile \cup {NoFile}]]
      /\ returned' # returned =>
           /\ job[c] \in Job /\ job[c].at = "return"
           /\ returned' = returned \cup {Record(job[c])}
      /\ \A d \in Documents : rawDir'[d] # rawDir[d] =>
           /\ job[c] \in Job /\ job[c].at = "pdf"
           /\ job[c].id = d /\ rawDir'[d] = job[c].content
  BY CollectStep
<1>2. \A o \in Dirs, n \in FileNames : outputs[o][n] # NoFile => outputs'[o][n] = outputs[o][n]
  BY <1>1 DEF WriteOnce
<1>3. ASSUME NEW d \in Documents, rawDir'[d] # NoFile
      PROVE  \E o \in Dirs : \A kind \in {"fragment", "report"} : \E n \in FileNames :
               /\ outputs'[o][n] # NoFile /\ outputs'[o][n].kind = kind
               /\ outputs'[o][n].id = d /\ outputs'[o][n].content = rawDir'[d]
  <2>1. CASE rawDir'[d] = rawDir[d]
    <3>1. PICK o \in Dirs : \A kind \in {"fragment", "report"} : \E n \in FileNames :
            /\ outputs[o][n] # NoFile /\ outputs[o][n].kind = kind
            /\ outputs[o][n].id = d /\ outputs[o][n].content = rawDir[d]
      BY <1>3, <2>1 DEF CorpusIInv, CorpusStands
    <3> QED BY <1>2, <2>1, <3>1
  <2>2. CASE rawDir'[d] # rawDir[d]
    <3>1. /\ job[c] \in Job /\ job[c].at = "pdf"
          /\ job[c].id = d /\ rawDir'[d] = job[c].content
      BY <1>1, <2>2
    <3>2. /\ outputs[job[c].dir][job[c].fragment] = Fragment(job[c])
          /\ outputs[job[c].dir][job[c].report] = Report(job[c])
      BY <3>1 DEF CorpusIInv, JobSound
    <3>3. /\ job[c].dir \in Dirs /\ job[c].fragment \in FileNames /\ job[c].report \in FileNames
          /\ Fragment(job[c]) # NoFile /\ Report(job[c]) # NoFile
      BY <3>1, JobFiles, CorpusAssumption DEF Job
    <3>4. /\ outputs'[job[c].dir][job[c].fragment] = Fragment(job[c])
          /\ outputs'[job[c].dir][job[c].report] = Report(job[c])
      BY <1>2, <3>2, <3>3
    <3> QED BY <3>1, <3>3, <3>4 DEF Fragment, Report
  <2> QED BY <2>1, <2>2
<1>4. ASSUME NEW r \in returned'
      PROVE  /\ rawDir'[r.id] = r.content /\ r.id \in Documents /\ r.content \in Contents
             /\ \E o \in Dirs, n \in FileNames :
                   /\ outputs'[o][n] # NoFile /\ outputs'[o][n].kind = "fragment"
                   /\ Record(outputs'[o][n]) = r
  <2>1. CASE r \in returned
    <3>1. /\ rawDir[r.id] = r.content /\ r.id \in Documents /\ r.content \in Contents
          /\ r \in Fragments
      BY <2>1 DEF CorpusIInv, CorpusTypes, CorpusStands, LocalPdfValid
    <3>2. PICK o \in Dirs, n \in FileNames :
             /\ outputs[o][n] # NoFile /\ outputs[o][n].kind = "fragment"
             /\ Record(outputs[o][n]) = r
      BY <3>1 DEF Fragments, Published
    <3> QED BY <1>1, <1>2, <3>1, <3>2, CorpusAssumption DEF WriteOnce
  <2>2. CASE r \notin returned
    <3>1. job[c] \in Job /\ job[c].at = "return" /\ r = Record(job[c])
      BY <1>1, <1>4, <2>2
    <3>2. /\ outputs[job[c].dir][job[c].fragment] = Fragment(job[c])
          /\ rawDir[job[c].id] = job[c].content
      BY <3>1 DEF CorpusIInv, JobSound
    <3>3. /\ job[c].dir \in Dirs /\ job[c].fragment \in FileNames
          /\ Fragment(job[c]) # NoFile /\ job[c].id \in Documents /\ job[c].content \in Contents
          /\ job[c].content # NoFile
      BY <3>1, JobFiles, CorpusAssumption DEF Job
    <3>4. /\ outputs'[job[c].dir][job[c].fragment] = Fragment(job[c])
          /\ rawDir'[job[c].id] = job[c].content
      BY <1>1, <1>2, <3>2, <3>3 DEF WriteOnce
    <3>5. Record(Fragment(job[c])) = r /\ Fragment(job[c]).kind = "fragment"
      BY <3>1 DEF Record, Fragment
    <3>6. r.id = job[c].id /\ r.content = job[c].content
      BY <3>1 DEF Record
    <3> QED BY <3>3, <3>4, <3>5, <3>6
  <2> QED BY <2>1, <2>2
<1>5. \A r \in returned' : LocalPdfValid(r)' /\ r \in Fragments'
  BY <1>4 DEF LocalPdfValid, Fragments, Published
<1>6. ASSUME frozen # {} PROVE ManifestValid(frozen)'
  <2>1. ManifestValid(frozen)
    BY <1>6 DEF CorpusIInv, CorpusStands
  <2>2. \A r \in frozen : rawDir'[r.id] = r.content
    BY <1>1, <2>1, CorpusAssumption
    DEF ManifestValid, LocalPdfValid, CorpusIInv, CorpusTypes, WriteOnce
  <2> QED BY <1>1, <2>1, <2>2 DEF ManifestValid, LocalPdfValid
<1>7. frozen' # {} => ManifestValid(frozen)'
  <2>1. frozen' = frozen
    BY <1>1
  <2> QED BY <1>6, <2>1
<1> QED BY <1>3, <1>4, <1>5, <1>7 DEF CorpusStands

(* A manifest is frozen of fragments, which are typed, and changes nothing *)
(* else (CorpusManifest.validate).                                         *)
LEMMA FreezeStep ==
    ASSUME CorpusIInv, ValidateManifest
    PROVE  CorpusIInv'
<1>1. UNCHANGED <<rawDir, outputs, dirLock, job, returned, collections>>
  BY DEF ValidateManifest
<1>2. PICK documents \in SUBSET Fragments : ManifestValid(documents) /\ frozen' = documents
  BY DEF ValidateManifest
<1>3. \A r \in documents : r.id \in Documents /\ r.content \in Contents
  <2> SUFFICES ASSUME NEW r \in documents
               PROVE  r.id \in Documents /\ r.content \in Contents
    OBVIOUS
  <2>1. PICK o \in Dirs, n \in FileNames : outputs[o][n] # NoFile /\ r = Record(outputs[o][n])
    BY DEF Fragments, Published
  <2>2. outputs[o][n] \in CorpusFile
    BY <2>1 DEF CorpusIInv, CorpusTypes
  <2> QED BY <2>1, <2>2 DEF Record, CorpusFile, FragmentFiles, ReportFiles
<1>4. CorpusTypes'
  BY <1>1, <1>2, <1>3 DEF CorpusIInv, CorpusTypes
<1>5. \A c \in Collectors : job'[c].at # "idle" => JobSound(job'[c], outputs', rawDir')
  BY <1>1 DEF CorpusIInv
<1>6. ManifestValid(frozen)'
  <2>1. ManifestValid(frozen')
    BY <1>2
  <2> QED BY <1>1, <2>1 DEF ManifestValid, LocalPdfValid
<1>7. CorpusStands'
  BY <1>1, <1>6 DEF CorpusIInv, CorpusStands, LocalPdfValid, Fragments, Published
<1> QED BY <1>4, <1>5, <1>7 DEF CorpusIInv

(* The inductive invariant of a corpus: what every collector has published *)
(* on its way, and what its manifest rests on, stands.                     *)
THEOREM CorpusInvariant == CorpusSpec => []CorpusIInv
<1>1. CorpusInit => CorpusIInv
  <2> SUFFICES ASSUME CorpusInit PROVE CorpusIInv
    OBVIOUS
  <2>1. CorpusTypes
    BY DEF CorpusInit, CorpusTypes
  <2>2. \A c \in Collectors : job[c].at = "idle"
    BY DEF CorpusInit, NoJob
  <2>3. CorpusStands
    BY DEF CorpusInit, CorpusStands
  <2> QED BY <2>1, <2>2, <2>3 DEF CorpusIInv
<1>2. CorpusIInv /\ [CorpusNext]_corpus => CorpusIInv'
  <2> SUFFICES ASSUME CorpusIInv, [CorpusNext]_corpus PROVE CorpusIInv'
    OBVIOUS
  <2>1. CASE ValidateManifest
    BY <2>1, FreezeStep
  <2>2. ASSUME NEW c \in Collectors, Collect(c) PROVE CorpusIInv'
    <3>1. /\ CorpusStands'
          /\ \A r \in returned' : r.id \in Documents /\ r.content \in Contents
      BY <2>2, StandsStep
    <3>2. /\ CollectorStep(c) /\ WriteOnce /\ frozen' = frozen
          /\ rawDir' \in [Documents -> Contents \cup {NoFile}]
          /\ outputs' \in [Dirs -> [FileNames -> CorpusFile \cup {NoFile}]]
      BY <2>2, CollectStep
    <3>3. /\ DOMAIN job' = Collectors
          /\ \A d \in Collectors : job'[d] = NoJob \/ job'[d] \in Job
          /\ \A d \in Collectors : job'[d].at # "idle" => JobSound(job'[d], outputs', rawDir')
      BY <3>2, JobsStep
    <3> QED BY <3>1, <3>2, <3>3 DEF CorpusIInv, CorpusTypes
  <2>3. CASE UNCHANGED corpus
    <3>1. CorpusTypes'
      BY <2>3 DEF corpus, CorpusIInv, CorpusTypes
    <3>2. \A c \in Collectors : job'[c].at # "idle" => JobSound(job'[c], outputs', rawDir')
      BY <2>3 DEF corpus, CorpusIInv
    <3>3. CorpusStands'
      BY <2>3 DEF corpus, CorpusIInv, CorpusStands, LocalPdfValid, Fragments, Published,
         ManifestValid
    <3> QED BY <3>1, <3>2, <3>3 DEF CorpusIInv
  <2> QED BY <2>1, <2>2, <2>3 DEF CorpusNext
<1> QED BY <1>1, <1>2, PTL DEF CorpusSpec

(* The PDF link commits: for any number of collectors, directories and     *)
(* interruptions a raw PDF is described by a fragment and a report of one  *)
(* directory, what was collected stays, and a frozen manifest that was     *)
(* valid once stays valid (collect_corpus.py, CorpusManifest.validate).    *)
THEOREM CorpusStandsHolds == CorpusSpec => []CorpusStands
<1>1. CorpusIInv => CorpusStands
  BY DEF CorpusIInv
<1> QED BY <1>1, CorpusInvariant, PTL
-----------------------------------------------------------------------------
(* A long document: requests that cover its pages, answers that keep their *)
(* order, and the merge as a fold whose steps keep both.  FoldFacts says   *)
(* what a fold goes through; FlattenSeq is another one.                    *)

(***************************************************************************)
(* Concatenation, step by step.                                            *)
(***************************************************************************)
NextConcat(ctx, some, more) == some \o more
ConcatFold == INSTANCE FoldFacts WITH Op <- NextConcat
MergeNext(ctx, merged, r) == MergeChunk(merged, r)
MergeFold == INSTANCE FoldFacts WITH Op <- MergeNext

(* The merge of the responses is a fold.                                   *)
LEMMA MergeIsFold ==
    ASSUME NEW responses
    PROVE  MergeParseChunks(responses) =
           MergeFold!Fold({}, [elements |-> <<>>, nextId |-> 0, evidence |-> <<>>], responses)
BY DEF MergeParseChunks, FoldLeft, MapThenFoldSet, Max, MergeNext,
       MergeFold!Fold, MergeFold!Folds, MergeFold!Largest

Flats(f, n, seqs) == f = [i \in 1..n |-> IF i = 1 THEN seqs[i] ELSE f[i - 1] \o seqs[i]]

(* The equation that FlattenSeq chooses a solution of.                     *)
LEMMA FlattenIs ==
    ASSUME NEW seqs, Len(seqs) # 0
    PROVE  FlattenSeq(seqs) = (CHOOSE f : Flats(f, Len(seqs), seqs))[Len(seqs)]
BY DEF FlattenSeq, Flats

(* What FlattenSeq returns is reached by appending one sequence after the  *)
(* other.                                                                  *)
Flattening(v, n, seqs) ==
    /\ v[0] = <<>>
    /\ \A i \in 1..n : v[i] = v[i - 1] \o seqs[i]

LEMMA Flattened ==
    ASSUME NEW S, NEW n \in Nat, NEW seqs \in [1..n -> Seq(S)]
    PROVE  \E v : Flattening(v, n, seqs) /\ v[n] = FlattenSeq(seqs)
<1>1. PICK v : ConcatFold!Steps(v, {}, <<>>, n, seqs)
  BY ConcatFold!FoldTrace
<1>2. Flattening(v, n, seqs)
  BY <1>1 DEF Flattening, ConcatFold!Steps, NextConcat
<1>3. seqs \in Seq(Seq(S)) /\ Len(seqs) = n
  OBVIOUS
<1>4. CASE n = 0
  <2>1. FlattenSeq(seqs) = <<>>
    BY <1>3, <1>4 DEF FlattenSeq
  <2> QED BY <1>2, <1>4, <2>1 DEF Flattening
<1>5. CASE n # 0
  <2> DEFINE g == [i \in 1..n |-> v[i]]
  <2>1. Flats(g, n, seqs)
    <3>1. v[1] = seqs[1]
      <4>1. 1 \in 1..n /\ 1 - 1 = 0
        BY <1>5
      <4>2. v[1] = v[0] \o seqs[1] /\ v[0] = <<>>
        BY <1>2, <4>1 DEF Flattening
      <4>3. seqs[1] \in Seq(S)
        BY <4>1
      <4> QED BY <4>2, <4>3
    <3>2. ASSUME NEW i \in 1..n
          PROVE  g[i] = IF i = 1 THEN seqs[i] ELSE g[i - 1] \o seqs[i]
      <4>1. v[i] = v[i - 1] \o seqs[i] /\ g[i] = v[i]
        BY <1>2 DEF Flattening
      <4>2. i # 1 => i - 1 \in 1..n
        OBVIOUS
      <4>3. i # 1 => g[i - 1] = v[i - 1]
        BY <4>2
      <4> HIDE DEF g
      <4> QED BY <3>1, <4>1, <4>3
    <3> DEFINE h == [i \in 1..n |-> IF i = 1 THEN seqs[i] ELSE g[i - 1] \o seqs[i]]
    <3>3. g = h
      <4>1. \A i \in 1..n : g[i] = h[i]
        BY <3>2
      <4>2. g = [i \in 1..n |-> g[i]] /\ h = [i \in 1..n |-> h[i]]
        OBVIOUS
      <4> HIDE DEF g, h
      <4> QED BY <4>1, <4>2
    <3> HIDE DEF g
    <3> QED BY <3>3 DEF Flats
  <2> DEFINE f == CHOOSE f : Flats(f, n, seqs)
  <2>2. Flats(f, n, seqs)
    BY <2>1
  <2> HIDE DEF f
  <2> DEFINE T == {i \in 0..n : i # 0 => f[i] = v[i]}
  <2>3. 0 \in T
    OBVIOUS
  <2>4. ASSUME NEW i \in 1..n, i - 1 \in T PROVE i \in T
    <3>1. f[i] = IF i = 1 THEN seqs[i] ELSE f[i - 1] \o seqs[i]
      BY <2>2 DEF Flats
    <3>2. v[i] = v[i - 1] \o seqs[i]
      BY <1>2 DEF Flattening
    <3>3. CASE i = 1
      <4>1. v[0] = <<>> /\ seqs[1] \in Seq(S)
        BY <1>2, <3>3 DEF Flattening
      <4>2. f[1] = seqs[1] /\ v[1] = v[0] \o seqs[1]
        BY <3>1, <3>2, <3>3
      <4>3. f[1] = v[1]
        BY <4>1, <4>2
      <4> QED BY <3>3, <4>3
    <3>4. CASE i # 1
      <4>1. i - 1 \in T /\ i - 1 # 0
        BY <2>4, <3>4
      <4>2. f[i - 1] = v[i - 1]
        BY <4>1
      <4>3. f[i] = v[i]
        BY <3>1, <3>2, <3>4, <4>2
      <4> QED BY <4>3
    <3> QED BY <3>3, <3>4
  <2>5. n \in T
    <3>1. \A i \in 0..n : i \in T
      <4> HIDE DEF T
      <4> QED BY <2>3, <2>4, ConcatFold!IntervalInduction
    <3> QED BY <3>1
  <2>6. FlattenSeq(seqs) = f[n]
    BY <1>3, <1>5, FlattenIs DEF f
  <2> QED BY <1>2, <1>5, <2>5, <2>6
<1> QED BY <1>4, <1>5

Requests == [start : Nat, count : Nat \ {0}]
EndOf(q) == q.start + q.count

(* A sequence of requests that covers the pages from a up to b, one after  *)
(* the other.                                                              *)
Tiles(rs, a, b) ==
    /\ rs \in Seq(Requests)
    /\ rs = <<>> => a = b
    /\ rs # <<>> => rs[1].start = a /\ EndOf(rs[Len(rs)]) = b
    /\ \A i \in 1..Len(rs) : i + 1 \in 1..Len(rs) => rs[i + 1].start = EndOf(rs[i])

(* What covers a to b and then b to c covers a to c.                       *)
LEMMA TilesConcat ==
    ASSUME NEW r, NEW s, NEW a, NEW b, NEW c, Tiles(r, a, b), Tiles(s, b, c)
    PROVE  Tiles(r \o s, a, c)
<1> DEFINE m == Len(r)  n == Len(s)  t == r \o s
<1>1. r \in Seq(Requests) /\ s \in Seq(Requests) /\ m \in Nat /\ n \in Nat
  BY DEF Tiles
<1>2. t \in Seq(Requests) /\ Len(t) = m + n
  BY <1>1
<1>3. /\ \A i \in 1..m : t[i] = r[i]
      /\ \A i \in 1..n : t[m + i] = s[i]
  BY <1>1
<1>4. CASE r = <<>>
  <2>1. <<>> \o s = s
    BY <1>1
  <2>2. a = b
    BY <1>4 DEF Tiles
  <2> QED BY <1>4, <2>1, <2>2
<1>5. CASE s = <<>>
  <2>1. r \o <<>> = r
    BY <1>1
  <2>2. c = b
    BY <1>5 DEF Tiles
  <2> QED BY <1>5, <2>1, <2>2
<1>6. CASE r # <<>> /\ s # <<>>
  <2>1. m >= 1 /\ n >= 1
    BY <1>1, <1>6
  <2>2. /\ r[1].start = a /\ EndOf(r[m]) = b /\ s[1].start = b /\ EndOf(s[n]) = c
        /\ \A i \in 1..m : i + 1 \in 1..m => r[i + 1].start = EndOf(r[i])
        /\ \A i \in 1..n : i + 1 \in 1..n => s[i + 1].start = EndOf(s[i])
    BY <1>6 DEF Tiles
  <2> HIDE DEF m, n, t
  <2>3. t[1] = r[1] /\ t[m + n] = s[n] /\ m + n # 0
    BY <1>1, <1>3, <2>1
  <2>4. ASSUME NEW i \in 1..(m + n), i + 1 \in 1..(m + n)
        PROVE  t[i + 1].start = EndOf(t[i])
    <3>1. CASE i + 1 <= m
      <4>1. i \in 1..m /\ i + 1 \in 1..m
        BY <1>1, <3>1
      <4> QED BY <1>3, <2>2, <4>1
    <3>2. CASE i = m
      <4>1. m \in 1..m /\ 1 \in 1..n
        BY <1>1, <2>1
      <4>2. t[i] = r[m] /\ t[i + 1] = s[1]
        BY <1>3, <3>2, <4>1
      <4> QED BY <2>2, <4>2
    <3>3. CASE i > m
      <4> DEFINE j == i - m
      <4>1. j \in 1..n /\ j + 1 \in 1..n /\ i = m + j /\ i + 1 = m + (j + 1)
        BY <1>1, <2>4, <3>3
      <4> HIDE DEF j
      <4>2. t[i] = s[j] /\ t[i + 1] = s[j + 1]
        BY <1>3, <4>1
      <4> QED BY <2>2, <4>1, <4>2
    <3> QED BY <1>1, <3>1, <3>2, <3>3
  <2>5. t # <<>>
    BY <1>1, <1>2, <2>1
  <2> QED BY <1>1, <1>2, <2>2, <2>3, <2>4, <2>5 DEF Tiles, t
<1> QED BY <1>4, <1>5, <1>6

(* How many chunks of some limit there are.                                *)
LEMMA ChunkCount ==
    ASSUME NEW pages \in Nat, NEW limit \in Nat \ {0}
    PROVE  LET n == (pages + limit - 1) \div limit
           IN  /\ n \in Nat /\ n * limit >= pages
               /\ pages > 0 => n >= 1 /\ (n - 1) * limit < pages
               /\ pages = 0 => n = 0
<1> DEFINE x == pages + limit - 1
           n == x \div limit
<1>1. x \in Nat
  OBVIOUS
<1> HIDE DEF x
<1>2. n \in Int /\ n * limit <= x /\ x < n * limit + limit
  BY <1>1
<1> HIDE DEF n
<1>3. n >= 0
  BY <1>1, <1>2
<1>4. n * limit >= pages
  BY <1>2 DEF x
<1>5. (n - 1) * limit = n * limit - limit
  BY <1>2
<1>6. pages > 0 => n >= 1
  BY <1>2, <1>3, <1>4
<1>7. pages > 0 => (n - 1) * limit < pages
  BY <1>2, <1>5 DEF x
<1>8. pages = 0 => n = 0
  BY <1>2, <1>3 DEF x
<1> QED BY <1>2, <1>3, <1>4, <1>6, <1>7, <1>8 DEF n, x

(* A multiple grows with its factor.                                       *)
LEMMA Multiples ==
    ASSUME NEW i \in Nat, NEW j \in Nat, i <= j, NEW limit \in Nat
    PROVE  i * limit <= j * limit
<1>1. j * limit = i * limit + (j - i) * limit
  OBVIOUS
<1>2. (j - i) * limit >= 0
  OBVIOUS
<1>3. i * limit \in Nat /\ j * limit \in Nat /\ (j - i) * limit \in Int
  OBVIOUS
<1> QED BY <1>1, <1>2, <1>3

(* The chunks of some pages cover them, none above the limit: _pdf_chunks. *)
LEMMA PdfTiles ==
    ASSUME NEW start \in Nat, NEW pages \in Nat, NEW limit \in Nat \ {0}
    PROVE  /\ Tiles(PdfChunks(start, pages, limit), start, start + pages)
           /\ \A i \in 1..Len(PdfChunks(start, pages, limit)) :
                PdfChunks(start, pages, limit)[i].count <= limit
           /\ pages > 0 => PdfChunks(start, pages, limit) # <<>>
<1> DEFINE n == (pages + limit - 1) \div limit
           cs == PdfChunks(start, pages, limit)
<1>1. /\ n \in Nat /\ n * limit >= pages
      /\ pages > 0 => n >= 1 /\ (n - 1) * limit < pages
      /\ pages = 0 => n = 0
  BY ChunkCount
<1>2. cs = [i \in 1..n |-> [start |-> start + (i - 1) * limit,
                            count |-> Min({limit, pages - (i - 1) * limit})]]
  BY DEF PdfChunks
<1> HIDE DEF n, cs
<1>3. ASSUME NEW i \in 1..n
      PROVE  /\ (i - 1) * limit \in Nat /\ (i - 1) * limit < pages
             /\ cs[i].start = start + (i - 1) * limit
             /\ i < n => cs[i].count = limit /\ i * limit < pages
             /\ i = n => cs[i].count = pages - (i - 1) * limit
             /\ cs[i].count \in 1..limit
             /\ cs[i] = [start |-> cs[i].start, count |-> cs[i].count]
  <2>1. (i - 1) * limit <= (n - 1) * limit
    <3>1. i - 1 \in Nat /\ n - 1 \in Nat /\ i - 1 <= n - 1
      BY <1>1
    <3> QED BY <3>1, Multiples
  <2>2. (i - 1) * limit \in Nat /\ (n - 1) * limit \in Int /\ i - 1 \in Nat
    BY <1>1
  <2>3. pages > 0
    BY <1>1
  <2>4. (i - 1) * limit < pages
    BY <1>1, <2>1, <2>2, <2>3
  <2>5. i * limit = (i - 1) * limit + limit
    OBVIOUS
  <2>6. i < n => i * limit < pages
    <3> SUFFICES ASSUME i < n PROVE i * limit < pages
      OBVIOUS
    <3>1. i \in Nat /\ n - 1 \in Nat /\ i <= n - 1
      BY <1>1
    <3>2. i * limit <= (n - 1) * limit
      BY <3>1, Multiples
    <3>3. i * limit \in Int
      OBVIOUS
    <3> QED BY <1>1, <2>2, <2>3, <3>2, <3>3
  <2>7. i = n => pages - (i - 1) * limit <= limit
    BY <1>1, <2>2, <2>5
  <2> DEFINE rest == pages - (i - 1) * limit
  <2>8. rest \in Nat /\ rest >= 1
    BY <2>2, <2>4
  <2>9. cs[i] = [start |-> start + (i - 1) * limit, count |-> Min({limit, rest})]
    BY <1>2
  <2>10. /\ Min({limit, rest}) \in {limit, rest}
         /\ Min({limit, rest}) <= limit /\ Min({limit, rest}) <= rest
    <3> HIDE DEF rest
    <3>1. \E x \in {limit, rest} : \A y \in {limit, rest} : x <= y
      BY <2>8
    <3> QED BY <3>1 DEF Min
  <2>11. i < n => rest > limit
    <3>1. i < n => (i - 1) * limit + limit < pages
      BY <2>5, <2>6
    <3> QED BY <2>2, <3>1
  <2>12. i < n => Min({limit, rest}) = limit
    <3> HIDE DEF rest
    <3> QED BY <2>8, <2>10, <2>11
  <2>13. i = n => Min({limit, rest}) = rest
    <3>1. i = n => rest <= limit
      BY <2>7
    <3> HIDE DEF rest
    <3> QED BY <2>8, <2>10, <3>1
  <2>14. Min({limit, rest}) \in 1..limit
    <3> HIDE DEF rest
    <3> QED BY <2>8, <2>10
  <2> DEFINE m == Min({limit, rest})
  <2>15. cs[i] = [start |-> start + (i - 1) * limit, count |-> m]
    BY <2>9
  <2>16. (i < n => m = limit) /\ (i = n => m = rest) /\ m \in 1..limit
    BY <2>12, <2>13, <2>14
  <2> HIDE DEF m
  <2> QED BY <2>2, <2>4, <2>6, <2>15, <2>16
<1>4. Len(cs) = n
  BY <1>1, <1>2
<1>5. cs \in Seq(Requests)
  <2>1. \A i \in 1..n : cs[i] \in Requests
    <3> SUFFICES ASSUME NEW i \in 1..n PROVE cs[i] \in Requests
      OBVIOUS
    <3>1. /\ cs[i].start \in Nat /\ cs[i].count \in Nat \ {0}
          /\ cs[i] = [start |-> cs[i].start, count |-> cs[i].count]
      BY <1>3
    <3> DEFINE q == cs[i]
    <3> HIDE DEF q
    <3> QED BY <3>1 DEF Requests, q
  <2> HIDE DEF cs
  <2>2. cs = [i \in 1..n |-> cs[i]]
    BY <1>2
  <2> QED BY <1>1, <2>1, <2>2
<1>6. \A i \in 1..n : i + 1 \in 1..n => cs[i + 1].start = EndOf(cs[i])
  <2> SUFFICES ASSUME NEW i \in 1..n, i + 1 \in 1..n PROVE cs[i + 1].start = EndOf(cs[i])
    OBVIOUS
  <2>1. i < n /\ (i + 1) - 1 = i
    BY <1>1
  <2>2. cs[i + 1].start = start + i * limit
    BY <1>3, <2>1
  <2>3. cs[i].start = start + (i - 1) * limit /\ cs[i].count = limit
    BY <1>3, <2>1
  <2>4. i * limit = (i - 1) * limit + limit /\ (i - 1) * limit \in Nat
    OBVIOUS
  <2>5. EndOf(cs[i]) = start + ((i - 1) * limit + limit)
    BY <2>3, <2>4 DEF EndOf
  <2> QED BY <2>2, <2>4, <2>5
<1>7. n >= 1 => cs[1].start = start /\ EndOf(cs[n]) = start + pages
  <2> SUFFICES ASSUME n >= 1 PROVE cs[1].start = start /\ EndOf(cs[n]) = start + pages
    OBVIOUS
  <2>1. 1 \in 1..n /\ n \in 1..n /\ (1 - 1) * limit = 0
    BY <1>1
  <2>2. cs[1].start = start + (1 - 1) * limit
    BY <1>3, <2>1
  <2>6. cs[1].start = start
    BY <2>1, <2>2
  <2>3. /\ cs[n].start = start + (n - 1) * limit /\ (n - 1) * limit \in Nat
        /\ cs[n].count = pages - (n - 1) * limit
    BY <1>3, <2>1
  <2>4. start + (n - 1) * limit + (pages - (n - 1) * limit) = start + pages
    BY <2>3
  <2>5. EndOf(cs[n]) = start + pages
    BY <2>3, <2>4 DEF EndOf
  <2> QED BY <2>5, <2>6
<1>8. pages > 0 => cs # <<>>
  BY <1>1, <1>4
<1>9. cs = <<>> => start = start + pages
  BY <1>8
<1>10. cs # <<>> => n >= 1
  BY <1>1, <1>4, <1>5
<1>11. \A i \in 1..Len(cs) : cs[i].count <= limit
  BY <1>3, <1>4
<1> HIDE DEF cs
<1>12. Tiles(cs, start, start + pages)
  BY <1>4, <1>5, <1>6, <1>7, <1>9, <1>10 DEF Tiles
<1> QED BY <1>8, <1>11, <1>12 DEF cs

(* What covers pages in turn lies in order and within them.                *)
LEMMA TilesOrder ==
    ASSUME NEW rs, NEW a, NEW b, Tiles(rs, a, b)
    PROVE  /\ \A i \in 1..Len(rs), j \in 1..Len(rs) : i < j => EndOf(rs[i]) <= rs[j].start
           /\ \A i \in 1..Len(rs) : a <= rs[i].start /\ EndOf(rs[i]) <= b
<1> DEFINE n == Len(rs)
           T == {j \in 0..n : \A i \in 1..n : i < j => EndOf(rs[i]) <= rs[j].start}
<1>1. n \in Nat /\ rs \in Seq(Requests)
  BY DEF Tiles
<1>2. \A i \in 1..n : /\ rs[i] \in Requests /\ rs[i].start \in Nat /\ rs[i].count \in Nat \ {0}
                      /\ EndOf(rs[i]) \in Nat /\ rs[i].start < EndOf(rs[i])
  <2> SUFFICES ASSUME NEW i \in 1..n
               PROVE  /\ rs[i] \in Requests /\ rs[i].start \in Nat /\ rs[i].count \in Nat \ {0}
                      /\ EndOf(rs[i]) \in Nat /\ rs[i].start < EndOf(rs[i])
    OBVIOUS
  <2>1. rs[i] \in Requests
    BY <1>1
  <2>2. rs[i].start \in Nat /\ rs[i].count \in Nat \ {0}
    BY <2>1 DEF Requests
  <2> QED BY <2>1, <2>2 DEF EndOf
<1>3. \A i \in 1..n : i + 1 \in 1..n => rs[i + 1].start = EndOf(rs[i])
  BY DEF Tiles
<1> HIDE DEF n
<1>4. 0 \in T
  BY <1>1
<1>5. ASSUME NEW j \in 1..n, j - 1 \in T PROVE j \in T
  <2>1. j \in 0..n
    OBVIOUS
  <2>2. ASSUME NEW i \in 1..n, i < j PROVE EndOf(rs[i]) <= rs[j].start
    <3>1. j - 1 \in 1..n /\ (j - 1) + 1 = j
      BY <1>1, <2>2
    <3>2. rs[j].start = EndOf(rs[j - 1])
      BY <1>3, <3>1
    <3>3. CASE i = j - 1
      BY <1>2, <3>1, <3>2, <3>3
    <3>4. CASE i # j - 1
      <4>1. i < j - 1
        BY <1>1, <2>2, <3>4
      <4>2. EndOf(rs[i]) <= rs[j - 1].start
        BY <1>5, <4>1
      <4>3. rs[j - 1].start < EndOf(rs[j - 1]) /\ EndOf(rs[i]) \in Nat
            /\ rs[j - 1].start \in Nat /\ EndOf(rs[j - 1]) \in Nat
        BY <1>2, <3>1
      <4> QED BY <3>2, <4>2, <4>3
    <3> QED BY <3>3, <3>4
  <2> QED BY <2>1, <2>2
<1>6. \A j \in 0..n : j \in T
  <2> HIDE DEF T
  <2> QED BY <1>1, <1>4, <1>5, ConcatFold!IntervalInduction
<1>7. \A i, j \in 1..n : i < j => EndOf(rs[i]) <= rs[j].start
  <2> SUFFICES ASSUME NEW i \in 1..n, NEW j \in 1..n, i < j
               PROVE  EndOf(rs[i]) <= rs[j].start
    OBVIOUS
  <2>1. j \in T
    BY <1>1, <1>6
  <2> QED BY <2>1
<1>8. ASSUME NEW i \in 1..n PROVE a <= rs[i].start /\ EndOf(rs[i]) <= b
  <2>1. n >= 1 /\ 1 \in 1..n /\ n \in 1..n
    BY <1>1
  <2>2. rs # <<>>
    BY <1>1, <2>1 DEF n
  <2>3. rs[1].start = a /\ EndOf(rs[n]) = b
    BY <2>2 DEF Tiles, n
  <2>4. a <= rs[i].start
    <3>1. CASE i = 1
      BY <1>2, <2>3, <3>1
    <3>2. CASE i # 1
      <4>1. EndOf(rs[1]) <= rs[i].start
        BY <1>7, <2>1, <3>2
      <4> QED BY <1>2, <2>1, <2>3, <4>1
    <3> QED BY <3>1, <3>2
  <2>5. EndOf(rs[i]) <= b
    <3>1. CASE i = n
      BY <1>2, <2>3, <3>1
    <3>2. CASE i # n
      <4>1. EndOf(rs[i]) <= rs[n].start
        BY <1>7, <2>1, <3>2
      <4> QED BY <1>2, <2>1, <2>3, <4>1
    <3> QED BY <3>1, <3>2
  <2> QED BY <2>4, <2>5
<1> QED BY <1>7, <1>8 DEF n

(* What is asked for in place of a chunk: itself, or its pages.            *)
PageOf(q, chunk) ==
    /\ q.count = 1 /\ chunk.count > 1
    /\ chunk.start <= q.start /\ EndOf(q) <= EndOf(chunk)
Wanted(q, mode, chunk, stored) ==
    \/ q = chunk /\ (mode = "enhanced" /\ chunk.count > 1 => chunk \in stored)
    \/ mode = "enhanced" /\ chunk \notin stored /\ PageOf(q, chunk)

(* The requests for a chunk cover it.                                      *)
LEMMA ChunkTiles ==
    ASSUME NEW mode, NEW chunk \in Requests, NEW stored
    PROVE  /\ Tiles(ChunkRequests(mode, chunk, stored), chunk.start, EndOf(chunk))
           /\ \A k \in 1..Len(ChunkRequests(mode, chunk, stored)) :
                Wanted(ChunkRequests(mode, chunk, stored)[k], mode, chunk, stored)
<1> DEFINE rs == ChunkRequests(mode, chunk, stored)
<1>0. chunk.start \in Nat /\ chunk.count \in Nat \ {0}
  BY DEF Requests
<1>1. CASE mode = "enhanced" /\ chunk.count > 1 /\ chunk \notin stored
  <2> DEFINE ps == PdfChunks(chunk.start, chunk.count, 1)
  <2>1. rs = ps
    BY <1>1 DEF ChunkRequests
  <2>2. /\ Tiles(ps, chunk.start, chunk.start + chunk.count)
        /\ \A i \in 1..Len(ps) : ps[i].count <= 1
    <3>1. 1 \in Nat \ {0} /\ chunk.count \in Nat
      BY <1>0
    <3> QED BY <1>0, <3>1, PdfTiles
  <2> HIDE DEF ps
  <2>3. \A k \in 1..Len(ps) : PageOf(ps[k], chunk)
    <3> SUFFICES ASSUME NEW k \in 1..Len(ps) PROVE PageOf(ps[k], chunk)
      OBVIOUS
    <3>1. ps[k] \in Requests
      BY <2>2 DEF Tiles
    <3>2. ps[k].count = 1
      BY <2>2, <3>1 DEF Requests
    <3>3. chunk.start <= ps[k].start /\ EndOf(ps[k]) <= chunk.start + chunk.count
      BY <2>2, TilesOrder
    <3> QED BY <1>1, <3>2, <3>3 DEF PageOf, EndOf
  <2>4. Tiles(ps, chunk.start, EndOf(chunk))
    BY <2>2 DEF EndOf
  <2> QED BY <1>1, <2>1, <2>3, <2>4 DEF Wanted
<1>2. CASE ~(mode = "enhanced" /\ chunk.count > 1 /\ chunk \notin stored)
  <2>1. rs = <<chunk>>
    BY <1>2 DEF ChunkRequests
  <2>2. /\ <<chunk>> \in Seq(Requests) /\ Len(<<chunk>>) = 1 /\ <<chunk>>[1] = chunk
        /\ <<chunk>> # <<>>
    OBVIOUS
  <2>3. Tiles(<<chunk>>, chunk.start, EndOf(chunk))
    BY <2>2 DEF Tiles
  <2>4. \A k \in 1..1 : k = 1
    OBVIOUS
  <2>5. Wanted(chunk, mode, chunk, stored)
    BY <1>2 DEF Wanted
  <2> QED BY <2>1, <2>2, <2>3, <2>4, <2>5
<1> QED BY <1>1, <1>2

ChunksOf(mode, pages) == PdfChunks(0, pages, SyncPages[mode])

(* The requests for a document cover its pages, each wanted by a chunk.    *)
LEMMA LongTiles ==
    ASSUME NEW mode \in DOMAIN SyncPages, NEW pages \in Nat, NEW stored
    PROVE  /\ Tiles(LongRequests(mode, pages, stored), 0, pages)
           /\ \A k \in 1..Len(LongRequests(mode, pages, stored)) :
                \E i \in 1..Len(ChunksOf(mode, pages)) :
                   Wanted(LongRequests(mode, pages, stored)[k], mode,
                          ChunksOf(mode, pages)[i], stored)
<1> DEFINE cs == ChunksOf(mode, pages)
           n == Len(cs)
           seqs == [i \in 1..n |-> ChunkRequests(mode, cs[i], stored)]
           bound(i) == IF i = 0 THEN 0 ELSE EndOf(cs[i])
           Good(rs) == \A k \in 1..Len(rs) : \E i \in 1..n : Wanted(rs[k], mode, cs[i], stored)
<1>1. Tiles(cs, 0, pages)
  <2>1. 0 \in Nat /\ SyncPages[mode] \in Nat \ {0} /\ 0 + pages = pages
    BY LongAssumption
  <2>2. Tiles(PdfChunks(0, pages, SyncPages[mode]), 0, 0 + pages)
    BY <2>1, PdfTiles
  <2> QED BY <2>1, <2>2 DEF ChunksOf
<1> HIDE DEF cs
<1>2. n \in Nat /\ cs \in Seq(Requests) /\ DOMAIN cs = 1..n
  BY <1>1 DEF Tiles
<1>3. LongRequests(mode, pages, stored) = FlattenSeq(seqs)
  BY <1>2 DEF LongRequests, cs, ChunksOf
<1> HIDE DEF n
<1>4. ASSUME NEW i \in 1..n
      PROVE  /\ Tiles(seqs[i], cs[i].start, EndOf(cs[i])) /\ seqs[i] \in Seq(Requests)
             /\ Good(seqs[i])
  <2>1. cs[i] \in Requests /\ seqs[i] = ChunkRequests(mode, cs[i], stored)
    BY <1>2
  <2>2. /\ Tiles(seqs[i], cs[i].start, EndOf(cs[i]))
        /\ \A k \in 1..Len(seqs[i]) : Wanted(seqs[i][k], mode, cs[i], stored)
    BY <2>1, ChunkTiles
  <2> HIDE DEF seqs
  <2> QED BY <2>2 DEF Tiles
<1>5. seqs \in [1..n -> Seq(Requests)]
  <2>1. \A i \in 1..n : seqs[i] \in Seq(Requests)
    BY <1>4
  <2> QED BY <2>1
<1> HIDE DEF seqs
<1>6. PICK v : Flattening(v, n, seqs) /\ v[n] = FlattenSeq(seqs)
  BY <1>2, <1>5, Flattened
<1> DEFINE T == {i \in 0..n : Tiles(v[i], 0, bound(i)) /\ Good(v[i])}
<1>7. 0 \in T
  <2>1. v[0] = <<>>
    BY <1>6 DEF Flattening
  <2>2. Tiles(<<>>, 0, 0)
    <3>1. <<>> \in Seq(Requests) /\ Len(<<>>) = 0
      OBVIOUS
    <3> QED BY <3>1 DEF Tiles
  <2>3. 0 \in 0..n
    BY <1>2
  <2> QED BY <2>1, <2>2, <2>3
<1>8. ASSUME NEW i \in 1..n, i - 1 \in T PROVE i \in T
  <2>1. v[i] = v[i - 1] \o seqs[i]
    BY <1>6 DEF Flattening
  <2>2. Tiles(v[i - 1], 0, bound(i - 1)) /\ Good(v[i - 1])
    BY <1>8
  <2>3. bound(i - 1) = cs[i].start
    <3>1. CASE i = 1
      <4>1. cs # <<>> /\ i - 1 = 0
        BY <1>2, <3>1 DEF n
      <4> QED BY <1>1, <3>1, <4>1 DEF Tiles
    <3>2. CASE i # 1
      <4>1. i - 1 \in 1..Len(cs) /\ (i - 1) + 1 = i /\ i \in 1..Len(cs) /\ i - 1 # 0
        BY <1>2, <3>2 DEF n
      <4>2. cs[i].start = EndOf(cs[i - 1])
        BY <1>1, <4>1 DEF Tiles
      <4> QED BY <4>1, <4>2
    <3> QED BY <3>1, <3>2
  <2>4. Tiles(seqs[i], bound(i - 1), bound(i))
    BY <1>4, <2>3
  <2> HIDE DEF bound, Good
  <2>5. Tiles(v[i], 0, bound(i))
    BY <2>1, <2>2, <2>4, TilesConcat
  <2>6. Good(v[i])
    <3>1. v[i - 1] \in Seq(Requests) /\ seqs[i] \in Seq(Requests) /\ Good(seqs[i])
      BY <1>4, <2>2 DEF Tiles
    <3> DEFINE a == v[i - 1]  b == seqs[i]
    <3>2. a \in Seq(Requests) /\ b \in Seq(Requests) /\ Good(a) /\ Good(b) /\ v[i] = a \o b
      BY <2>1, <2>2, <3>1
    <3> HIDE DEF a, b
    <3>3. \A k \in 1..Len(a \o b) :
             \/ k \in 1..Len(a) /\ (a \o b)[k] = a[k]
             \/ k - Len(a) \in 1..Len(b) /\ (a \o b)[k] = b[k - Len(a)]
      BY <3>2
    <3> DEFINE W(q) == \E l \in 1..n : Wanted(q, mode, cs[l], stored)
    <3>4. (\A k \in 1..Len(a) : W(a[k])) /\ (\A k \in 1..Len(b) : W(b[k]))
      BY <3>2 DEF Good
    <3> HIDE DEF W
    <3> DEFINE c == a \o b
    <3> HIDE DEF c
    <3>5. \A k \in 1..Len(c) : W(c[k])
      BY <3>3, <3>4 DEF c
    <3>6. v[i] = c
      BY <3>2 DEF c
    <3> QED BY <3>5, <3>6 DEF Good, W
  <2> QED BY <2>5, <2>6
<1>9. n \in T
  <2>1. \A i \in 0..n : i \in T
    <3> HIDE DEF T
    <3> QED BY <1>2, <1>7, <1>8, ConcatFold!IntervalInduction
  <2> QED BY <1>2, <2>1
<1>10. bound(n) = pages
  <2>1. CASE n = 0
    <3>1. cs = <<>>
      BY <1>2, <2>1 DEF n
    <3> QED BY <1>1, <2>1, <3>1 DEF Tiles
  <2>2. CASE n # 0
    <3>1. cs # <<>>
      BY <1>2, <2>2 DEF n
    <3> QED BY <1>1, <2>2, <3>1 DEF Tiles, n
  <2> QED BY <2>1, <2>2
<1> QED BY <1>3, <1>6, <1>9, <1>10 DEF n, cs

Found == [page : Nat, place : Nat \X Nat]
Element == [id : Nat, html : Nat, page : Nat, place : Nat \X Nat]
Precedes(x, y) == \/ x.place[1] < y.place[1]
                  \/ x.place[1] = y.place[1] /\ x.place[2] < y.place[2]
InOrder(e) == \A i, j \in 1..Len(e) : i < j => Precedes(e[i], e[j])

(* What the provider finds on the pages of a request.                      *)
Answering(e, request, base) ==
    /\ e \in Seq(Element) /\ InOrder(e)
    /\ \A i \in 1..Len(e) :
         /\ e[i].id = base + i - 1 /\ e[i].html = e[i].id
         /\ e[i].page \in 1..request.count /\ e[i].place[1] = request.start + e[i].page

(* Two sequences in order, the second on later pages, are one in order.    *)
LEMMA OrderConcat ==
    ASSUME NEW a, NEW b, NEW S, a \in Seq(S), b \in Seq(S), InOrder(a), InOrder(b),
           \A i \in 1..Len(a), j \in 1..Len(b) : Precedes(a[i], b[j])
    PROVE  InOrder(a \o b)
<1> DEFINE c == a \o b  m == Len(a)  n == Len(b)
<1>1. /\ m \in Nat /\ n \in Nat /\ Len(c) = m + n
      /\ \A i \in 1..(m + n) : \/ i \in 1..m /\ c[i] = a[i]
                               \/ i - m \in 1..n /\ c[i] = b[i - m]
  OBVIOUS
<1> HIDE DEF c
<1>2. SUFFICES ASSUME NEW i \in 1..(m + n), NEW j \in 1..(m + n), i < j
               PROVE  Precedes(c[i], c[j])
  BY <1>1 DEF InOrder, c
<1>3. CASE i \in 1..m /\ c[i] = a[i] /\ j \in 1..m /\ c[j] = a[j]
  BY <1>2, <1>3 DEF InOrder
<1>4. CASE i \in 1..m /\ c[i] = a[i] /\ j - m \in 1..n /\ c[j] = b[j - m]
  BY <1>4
<1>5. CASE i - m \in 1..n /\ c[i] = b[i - m] /\ j - m \in 1..n /\ c[j] = b[j - m]
  <2>1. i - m < j - m
    BY <1>1, <1>2
  <2> QED BY <1>5, <2>1 DEF InOrder
<1>6. ~(i - m \in 1..n /\ j \in 1..m)
  BY <1>1, <1>2
<1> QED BY <1>1, <1>3, <1>4, <1>5, <1>6

(* What the provider finds answers its request.                            *)
LEMMA ElementsAnswer ==
    ASSUME NEW request \in Requests, NEW perPage, NEW base \in Nat,
           \A k \in 1..request.count : perPage[k] \in Nat
    PROVE  Answering(Elements(request, perPage, base), request, base)
<1> DEFINE start == request.start  n == request.count
           onPage(k) == [m \in 1..perPage[k] |-> [page |-> k, place |-> <<start + k, m>>]]
           seqs == [k \in 1..n |-> onPage(k)]
           found == FlattenSeq(seqs)
           On(f, k) == \A i \in 1..Len(f) : /\ f[i].page \in 1..k
                                            /\ f[i].place[1] = start + f[i].page
<1>1. start \in Nat /\ n \in Nat
  BY DEF Requests
<1>2. Elements(request, perPage, base) =
        [i \in DOMAIN found |-> [id |-> base + i - 1, html |-> base + i - 1,
                                 page |-> found[i].page, place |-> found[i].place]]
  BY DEF Elements
<1> HIDE DEF start, n
<1>3. ASSUME NEW k \in 1..n
      PROVE  /\ seqs[k] \in Seq(Found) /\ InOrder(seqs[k])
             /\ \A i \in 1..Len(seqs[k]) : /\ seqs[k][i].page = k
                                           /\ seqs[k][i].place[1] = start + k
  <2> DEFINE s == [m \in 1..perPage[k] |-> [page |-> k, place |-> <<start + k, m>>]]
  <2>1. perPage[k] \in Nat /\ k \in Nat
    BY <1>1 DEF n
  <2>2. seqs[k] = s
    OBVIOUS
  <2>3. s \in Seq(Found) /\ Len(s) = perPage[k]
    <3>1. \A m \in 1..perPage[k] : [page |-> k, place |-> <<start + k, m>>] \in Found
      BY <1>1, <2>1 DEF Found
    <3> QED BY <2>1, <3>1
  <2>4. \A m \in 1..perPage[k] : s[m].page = k /\ s[m].place[1] = start + k /\ s[m].place[2] = m
    OBVIOUS
  <2> HIDE DEF s, seqs
  <2>5. InOrder(s)
    BY <2>3, <2>4 DEF InOrder, Precedes
  <2> QED BY <2>2, <2>3, <2>4, <2>5
<1>4. seqs \in [1..n -> Seq(Found)]
  <2>1. \A k \in 1..n : seqs[k] \in Seq(Found)
    BY <1>3
  <2> QED BY <2>1
<1> HIDE DEF seqs
<1>5. PICK v : Flattening(v, n, seqs) /\ v[n] = found
  BY <1>1, <1>4, Flattened
<1> DEFINE T == {k \in 0..n : v[k] \in Seq(Found) /\ InOrder(v[k]) /\ On(v[k], k)}
<1>6. 0 \in T
  <2>1. v[0] = <<>> /\ 0 \in 0..n
    BY <1>1, <1>5 DEF Flattening
  <2>2. <<>> \in Seq(Found) /\ \A i \in 1..Len(<<>>) : FALSE
    OBVIOUS
  <2>3. InOrder(<<>>) /\ On(<<>>, 0)
    BY <2>2 DEF InOrder
  <2> HIDE DEF On
  <2> QED BY <2>1, <2>2, <2>3
<1>7. ASSUME NEW k \in 1..n, k - 1 \in T PROVE k \in T
  <2> DEFINE a == v[k - 1]  b == seqs[k]  c == a \o b
  <2>1. a \in Seq(Found) /\ InOrder(a) /\ On(a, k - 1)
    BY <1>7
  <2>2. b \in Seq(Found) /\ InOrder(b)
        /\ \A i \in 1..Len(b) : b[i].page = k /\ b[i].place[1] = start + k
    BY <1>3
  <2>3. v[k] = c
    BY <1>5 DEF Flattening
  <2> HIDE DEF a, b
  <2>4. \A i \in 1..Len(a), j \in 1..Len(b) : Precedes(a[i], b[j])
    <3> SUFFICES ASSUME NEW i \in 1..Len(a), NEW j \in 1..Len(b) PROVE Precedes(a[i], b[j])
      OBVIOUS
    <3>1. a[i].page \in 1..(k - 1) /\ a[i].place[1] = start + a[i].page
      BY <2>1
    <3>2. b[j].place[1] = start + k
      BY <2>2
    <3>3. a[i].place[1] < b[j].place[1]
      BY <1>1, <3>1, <3>2
    <3> QED BY <3>3 DEF Precedes
  <2>5. InOrder(c)
    BY <2>1, <2>2, <2>4, OrderConcat
  <2>6. c \in Seq(Found)
    BY <2>1, <2>2
  <2>7. \A i \in 1..Len(c) : \/ i \in 1..Len(a) /\ c[i] = a[i]
                             \/ i - Len(a) \in 1..Len(b) /\ c[i] = b[i - Len(a)]
    BY <2>1, <2>2
  <2> HIDE DEF c
  <2>8. On(c, k)
    <3> SUFFICES ASSUME NEW i \in 1..Len(c)
                 PROVE  c[i].page \in 1..k /\ c[i].place[1] = start + c[i].page
      OBVIOUS
    <3>1. CASE i \in 1..Len(a) /\ c[i] = a[i]
      <4>1. a[i].page \in 1..(k - 1) /\ a[i].place[1] = start + a[i].page
        BY <2>1, <3>1
      <4>2. \A x \in 1..(k - 1) : x \in 1..k
        BY <1>1
      <4> QED BY <3>1, <4>1, <4>2
    <3>2. CASE i - Len(a) \in 1..Len(b) /\ c[i] = b[i - Len(a)]
      <4>1. c[i].page = k /\ c[i].place[1] = start + k
        BY <2>2, <3>2
      <4>2. k \in 1..k
        BY <1>1
      <4> QED BY <4>1, <4>2
    <3> QED BY <2>7, <3>1, <3>2
  <2>9. k \in 0..n
    BY <1>1
  <2> HIDE DEF On
  <2> QED BY <2>3, <2>5, <2>6, <2>8, <2>9
<1>8. n \in T
  <2>1. \A k \in 0..n : k \in T
    <3> HIDE DEF T
    <3> QED BY <1>1, <1>6, <1>7, ConcatFold!IntervalInduction
  <2> QED BY <1>1, <2>1
<1>9. found \in Seq(Found) /\ InOrder(found) /\ On(found, n)
  BY <1>5, <1>8
<1> DEFINE e == Elements(request, perPage, base)
<1> HIDE DEF found, e
<1>10. e = [i \in 1..Len(found) |-> [id |-> base + i - 1, html |-> base + i - 1,
                                     page |-> found[i].page, place |-> found[i].place]]
  BY <1>2, <1>9 DEF e
<1>11. ASSUME NEW i \in 1..Len(found)
       PROVE  /\ e[i] \in Element /\ e[i].id = base + i - 1 /\ e[i].html = e[i].id
              /\ e[i].page = found[i].page /\ e[i].place = found[i].place
  <2>1. found[i] \in Found
    BY <1>9
  <2>2. found[i].page \in Nat /\ found[i].place \in Nat \X Nat /\ base + i - 1 \in Nat
    BY <1>9, <2>1 DEF Found
  <2>3. e[i] = [id |-> base + i - 1, html |-> base + i - 1,
                page |-> found[i].page, place |-> found[i].place]
    BY <1>10
  <2> QED BY <2>2, <2>3 DEF Element
<1>12. e \in Seq(Element) /\ Len(e) = Len(found)
  <2>1. \A i \in 1..Len(found) : e[i] \in Element
    BY <1>11
  <2>2. Len(found) \in Nat /\ e = [i \in 1..Len(found) |-> e[i]]
    BY <1>9, <1>10
  <2> QED BY <2>1, <2>2
<1>13. InOrder(e)
  <2>1. \A i, j \in 1..Len(e) : i < j =>
          Precedes(found[i], found[j]) /\ e[i].place = found[i].place /\ e[j].place = found[j].place
    BY <1>9, <1>11, <1>12 DEF InOrder
  <2> QED BY <2>1 DEF InOrder, Precedes
<1>14. \A i \in 1..Len(e) :
         /\ e[i].id = base + i - 1 /\ e[i].html = e[i].id
         /\ e[i].page \in 1..n /\ e[i].place[1] = start + e[i].page
  BY <1>9, <1>11, <1>12
<1> QED BY <1>12, <1>13, <1>14 DEF Answering, e, n, start

Response(base) ==
    {r \in [request : Requests, model : Models, elements : Seq(Element)] :
       Answering(r.elements, r.request, base)}

(* So every answer to a request is a response to it.                       *)
LEMMA AnswersRespond ==
    ASSUME NEW request \in Requests, NEW base \in Nat
    PROVE  \A r \in Answers(request, base) : r \in Response(base) /\ r.request = request
<1> SUFFICES ASSUME NEW r \in Answers(request, base)
             PROVE  r \in Response(base) /\ r.request = request
  OBVIOUS
<1>1. PICK m \in Models, perPage \in [1..request.count -> 0..MaxOnPage] :
        r = [request |-> request, model |-> m, elements |-> Elements(request, perPage, base)]
  BY DEF Answers
<1>2. \A k \in 1..request.count : perPage[k] \in Nat
  BY LongAssumption
<1>3. Answering(Elements(request, perPage, base), request, base)
  BY <1>2, ElementsAnswer
<1> DEFINE e == Elements(request, perPage, base)
<1>4. e \in Seq(Element)
  BY <1>3 DEF Answering
<1> HIDE DEF e
<1>5. r = [request |-> request, model |-> m, elements |-> e]
  BY <1>1 DEF e
<1>6. Answering(e, request, base)
  BY <1>3 DEF e
<1>7. /\ r \in [request : Requests, model : Models, elements : Seq(Element)]
      /\ r.request = request /\ r.elements = e
  BY <1>4, <1>5
<1> QED BY <1>6, <1>7 DEF Response

PlacesOf(e) == {e[i].place : i \in 1..Len(e)}
Numbered(e, limit) ==
    /\ \A i, j \in 1..Len(e) : i < j => e[i].id < e[j].id
    /\ \A i \in 1..Len(e) : e[i].id < limit
Placed(e, limit) ==
    \A i \in 1..Len(e) : /\ e[i].html = e[i].id /\ e[i].page = e[i].place[1]
                         /\ e[i].page <= limit
Whole(m, limit) ==
    /\ m.elements \in Seq(Element) /\ m.nextId \in Nat
    /\ Numbered(m.elements, m.nextId) /\ InOrder(m.elements) /\ Placed(m.elements, limit)

(* The elements of a response as the merge appends them.                   *)
MovedAll(e, offset, start) == [i \in DOMAIN e |-> Moved(e[i], offset, start)]

MovedWell(s, e, first, request) ==
    /\ s \in Seq(Element) /\ Len(s) = Len(e) /\ InOrder(s)
    /\ \A i \in 1..Len(s) :
         /\ s[i].id = first + i - 1 /\ s[i].html = s[i].id
         /\ s[i].page = s[i].place[1]
         /\ request.start < s[i].page /\ s[i].page <= EndOf(request)
         /\ s[i].place = e[i].place

(* Moved up, the elements have the pages and numbers of the document.      *)
LEMMA MovedElements ==
    ASSUME NEW base \in Nat, NEW r \in Response(base), NEW offset \in Nat
    PROVE  MovedWell(MovedAll(r.elements, offset, r.request.start), r.elements,
                     offset + base, r.request)
<1> DEFINE e == r.elements  q == r.request  n == Len(e)
           s == MovedAll(e, offset, q.start)
<1>1. /\ q \in Requests /\ e \in Seq(Element) /\ Answering(e, q, base)
  BY DEF Response
<1> HIDE DEF e, q
<1>2. q.start \in Nat /\ q.count \in Nat \ {0} /\ n \in Nat /\ DOMAIN e = 1..n
  BY <1>1 DEF Requests
<1>3. InOrder(e) /\ \A i \in 1..n :
         /\ e[i].id = base + i - 1 /\ e[i].html = e[i].id
         /\ e[i].page \in 1..q.count /\ e[i].place[1] = q.start + e[i].page
  BY <1>1 DEF Answering
<1> HIDE DEF n
<1>4. s = [i \in 1..n |-> Moved(e[i], offset, q.start)]
  BY <1>2 DEF MovedAll
<1> HIDE DEF s
<1>5. ASSUME NEW i \in 1..n
      PROVE  /\ s[i] \in Element
             /\ s[i].id = offset + base + i - 1 /\ s[i].html = s[i].id
             /\ s[i].page = s[i].place[1]
             /\ q.start < s[i].page /\ s[i].page <= EndOf(q)
             /\ s[i].place = e[i].place
  <2> DEFINE x == e[i]
  <2>1. x \in Element
    BY <1>1, <1>2
  <2>2. /\ x.id = base + i - 1 /\ x.html = x.id /\ x.page \in 1..q.count
        /\ x.place[1] = q.start + x.page
    BY <1>3
  <2>3. s[i] = [id |-> x.id + offset, html |-> x.html + offset, page |-> x.page + q.start,
                place |-> x.place]
    BY <1>4 DEF Moved
  <2> HIDE DEF x
  <2>4. x.id \in Nat /\ x.html \in Nat /\ x.page \in Nat /\ x.place \in Nat \X Nat
    BY <2>1 DEF Element
  <2> DEFINE y == s[i]
  <2>5. /\ y = [id |-> y.id, html |-> y.html, page |-> y.page, place |-> y.place]
        /\ y.id = x.id + offset /\ y.html = x.html + offset /\ y.page = x.page + q.start
        /\ y.place = x.place
    BY <2>3
  <2> HIDE DEF y
  <2>6. y \in Element
    <3>0. x.id \in Nat /\ x.html \in Nat /\ x.page \in Nat /\ q.start \in Nat
      BY <1>2, <2>4
    <3>1. x.id + offset \in Nat /\ x.html + offset \in Nat /\ x.page + q.start \in Nat
      BY <3>0
    <3>2. y.id \in Nat /\ y.html \in Nat /\ y.page \in Nat
      BY <2>5, <3>1
    <3>3. y.place \in Nat \X Nat
      BY <2>4, <2>5
    <3> QED BY <2>5, <3>2, <3>3 DEF Element
  <2>7. /\ y.id = offset + base + i - 1 /\ y.html = y.id /\ y.page = y.place[1]
        /\ q.start < y.page /\ y.page <= q.start + q.count
    <3>1. y.place[1] = q.start + x.page
      BY <2>2, <2>5
    <3> QED BY <1>2, <2>2, <2>4, <2>5, <3>1
  <2> QED BY <2>5, <2>6, <2>7 DEF x, y, EndOf
<1>6. s \in Seq(Element) /\ Len(s) = n
  <2>1. \A i \in 1..n : s[i] \in Element
    BY <1>5
  <2>2. s = [i \in 1..n |-> s[i]]
    BY <1>4
  <2> QED BY <1>2, <2>1, <2>2
<1>7. InOrder(s)
  <2>1. \A i, j \in 1..n : i < j =>
          Precedes(e[i], e[j]) /\ s[i].place = e[i].place /\ s[j].place = e[j].place
    BY <1>3, <1>5 DEF InOrder, n
  <2> QED BY <1>6, <2>1 DEF InOrder, Precedes
<1> QED BY <1>5, <1>6, <1>7 DEF MovedWell, s, e, n, q

(* One more response.                                                      *)
LEMMA MergeStep ==
    ASSUME NEW base \in Nat, NEW r \in Response(base), NEW m, NEW limit \in Nat,
           Whole(m, limit), limit <= r.request.start
    PROVE  /\ Whole(MergeChunk(m, r), EndOf(r.request))
           /\ PlacesOf(MergeChunk(m, r).elements) = PlacesOf(m.elements) \cup PlacesOf(r.elements)
           /\ MergeChunk(m, r).evidence =
                Append(m.evidence, [first |-> r.request.start + 1, last |-> EndOf(r.request)])
<1> DEFINE q == r.request  a == m.elements
           b == MovedAll(r.elements, m.nextId, q.start)
           e == a \o b  w == MergeChunk(m, r)
<1>1. /\ w.elements = e /\ w.nextId = NextElementId(m, e)
      /\ w.evidence = Append(m.evidence, [first |-> q.start + 1, last |-> EndOf(q)])
  BY DEF MergeChunk, MovedAll, EndOf
<1>2. /\ a \in Seq(Element) /\ m.nextId \in Nat /\ Numbered(a, m.nextId) /\ InOrder(a)
      /\ Placed(a, limit)
  BY DEF Whole
<1>3. MovedWell(b, r.elements, m.nextId + base, q)
  BY <1>2, MovedElements
<1> HIDE DEF b, w
<1>4. b \in Seq(Element) /\ Len(b) = Len(r.elements) /\ InOrder(b)
  BY <1>3 DEF MovedWell
<1>5. \A i \in 1..Len(b) :
         /\ b[i].id = m.nextId + base + i - 1 /\ b[i].html = b[i].id
         /\ b[i].page = b[i].place[1]
         /\ q.start < b[i].page /\ b[i].page <= EndOf(q)
         /\ b[i].place = r.elements[i].place
  BY <1>3 DEF MovedWell
<1>6. q.start \in Nat /\ EndOf(q) \in Nat /\ q.start < EndOf(q) /\ limit <= q.start
  <2>1. q \in Requests
    BY DEF Response
  <2>2. q.start \in Nat /\ q.count \in Nat \ {0}
    BY <2>1 DEF Requests
  <2> QED BY <2>2 DEF EndOf
<1> HIDE DEF q, a
<1> DEFINE la == Len(a)  lb == Len(b)
<1>7. la \in Nat /\ lb \in Nat /\ Len(e) = la + lb /\ e \in Seq(Element)
  BY <1>2, <1>4
<1>8. \A i \in 1..(la + lb) : \/ i \in 1..la /\ e[i] = a[i]
                              \/ i - la \in 1..lb /\ e[i] = b[i - la]
  BY <1>2, <1>4
<1>9. /\ \A i \in 1..la : i \in 1..(la + lb) /\ e[i] = a[i]
      /\ \A i \in 1..lb : la + i \in 1..(la + lb) /\ e[la + i] = b[i]
  BY <1>2, <1>4
<1>10. /\ \A i \in 1..la : a[i] \in Element /\ a[i].id \in Nat /\ a[i].page \in Nat
       /\ \A i \in 1..lb : b[i] \in Element /\ b[i].id \in Nat /\ b[i].page \in Nat
  <2>1. /\ \A i \in 1..la : a[i] \in Element
        /\ \A i \in 1..lb : b[i] \in Element
    BY <1>2, <1>4
  <2> QED BY <2>1 DEF Element
<1>11. /\ \A i, j \in 1..la : i < j => a[i].id < a[j].id
       /\ \A i \in 1..la : a[i].id < m.nextId
  BY <1>2 DEF Numbered
<1>12. \A i \in 1..la : /\ a[i].html = a[i].id /\ a[i].page = a[i].place[1]
                        /\ a[i].page <= limit
  BY <1>2 DEF Placed
<1> HIDE DEF e, la, lb
<1>13. InOrder(e)
  <2>1. ASSUME NEW i \in 1..la, NEW j \in 1..lb PROVE Precedes(a[i], b[j])
    <3>1. a[i].place[1] = a[i].page /\ a[i].page <= limit /\ a[i].page \in Nat
      BY <1>10, <1>12
    <3>2. b[j].place[1] = b[j].page /\ q.start < b[j].page /\ b[j].page \in Nat
      BY <1>5, <1>10 DEF lb
    <3>3. a[i].place[1] < b[j].place[1]
      BY <1>6, <3>1, <3>2
    <3> QED BY <3>3 DEF Precedes
  <2>2. InOrder(a \o b)
    BY <1>2, <1>4, <2>1, OrderConcat DEF la, lb
  <2> QED BY <2>2 DEF e
<1>14. Placed(e, EndOf(q))
  <2> SUFFICES ASSUME NEW i \in 1..(la + lb)
               PROVE  e[i].html = e[i].id /\ e[i].page = e[i].place[1] /\ e[i].page <= EndOf(q)
    BY <1>7 DEF Placed
  <2>1. CASE i \in 1..la /\ e[i] = a[i]
    <3>1. a[i].page <= EndOf(q)
      BY <1>6, <1>10, <1>12, <2>1
    <3> QED BY <1>12, <2>1, <3>1
  <2>2. CASE i - la \in 1..lb /\ e[i] = b[i - la]
    BY <1>5, <2>2 DEF lb
  <2> QED BY <1>8, <2>1, <2>2
<1>15. \A i, j \in 1..(la + lb) : i < j => e[i].id < e[j].id
  <2> SUFFICES ASSUME NEW i \in 1..(la + lb), NEW j \in 1..(la + lb), i < j
               PROVE  e[i].id < e[j].id
    OBVIOUS
  <2>1. CASE i \in 1..la /\ e[i] = a[i] /\ j \in 1..la /\ e[j] = a[j]
    BY <1>11, <2>1
  <2>2. CASE i \in 1..la /\ e[i] = a[i] /\ j - la \in 1..lb /\ e[j] = b[j - la]
    <3>1. a[i].id < m.nextId /\ a[i].id \in Nat
      BY <1>10, <1>11, <2>2
    <3>2. b[j - la].id = m.nextId + base + (j - la) - 1
      BY <1>5, <2>2 DEF lb
    <3> QED BY <1>2, <1>7, <2>2, <3>1, <3>2
  <2>3. CASE i - la \in 1..lb /\ e[i] = b[i - la] /\ j - la \in 1..lb /\ e[j] = b[j - la]
    <3>1. /\ b[i - la].id = m.nextId + base + (i - la) - 1
          /\ b[j - la].id = m.nextId + base + (j - la) - 1
      BY <1>5, <2>3 DEF lb
    <3> QED BY <1>2, <1>7, <2>3, <3>1
  <2>4. ~(i - la \in 1..lb /\ j \in 1..la)
    BY <1>7
  <2> QED BY <1>8, <2>1, <2>2, <2>3, <2>4
<1>16. \A i \in 1..(la + lb) : e[i].id \in Nat
  BY <1>8, <1>10
<1>17. w.nextId \in Nat /\ \A i \in 1..(la + lb) : e[i].id < w.nextId
  <2>1. CASE e = <<>>
    <3>1. w.nextId = m.nextId
      BY <1>1, <2>1 DEF NextElementId
    <3>2. la + lb = 0
      BY <1>7, <2>1
    <3> QED BY <1>2, <1>7, <3>1, <3>2
  <2>2. CASE e # <<>>
    <3> DEFINE n == la + lb  ids == {x.id : x \in ToSet(e)}
    <3>1. n >= 1 /\ n \in 1..n
      BY <1>7, <2>2
    <3>2. ids = {e[i].id : i \in 1..n}
      BY <1>7 DEF ToSet
    <3> HIDE DEF ids, n
    <3>3. \A y \in ids : y <= e[n].id
      <4> SUFFICES ASSUME NEW i \in 1..n PROVE e[i].id <= e[n].id
        BY <3>2
      <4>1. i = n \/ i < n
        BY <1>7 DEF n
      <4> QED BY <1>15, <1>16, <3>1, <4>1 DEF n
    <3>4. e[n].id \in ids /\ \A y \in ids : y \in Nat
      BY <1>16, <3>1, <3>2 DEF n
    <3>5. Max(ids) \in ids /\ \A y \in ids : Max(ids) >= y
      BY <3>3, <3>4 DEF Max
    <3>6. w.nextId = Max(ids) + 1
      BY <1>1, <2>2 DEF NextElementId, ids
    <3>7. \A i \in 1..n : e[i].id \in ids
      BY <3>2
    <3> DEFINE top == Max(ids)
    <3>8. top \in Nat /\ (\A y \in ids : top >= y) /\ w.nextId = top + 1
      BY <3>4, <3>5, <3>6
    <3> HIDE DEF top
    <3> QED BY <3>4, <3>7, <3>8 DEF n
  <2> QED BY <2>1, <2>2
<1>18. Whole(w, EndOf(q))
  <2>1. Numbered(e, w.nextId)
    BY <1>7, <1>15, <1>17 DEF Numbered
  <2> QED BY <1>1, <1>7, <1>13, <1>14, <1>17, <2>1 DEF Whole
<1>19. PlacesOf(e) = PlacesOf(a) \cup PlacesOf(r.elements)
  <2>1. \A i \in 1..lb : e[la + i].place = r.elements[i].place
    BY <1>5, <1>9 DEF lb
  <2>2. \A i \in 1..(la + lb) : \/ i \in 1..la /\ e[i].place = a[i].place
                                \/ i - la \in 1..lb /\ e[i].place = r.elements[i - la].place
    BY <1>5, <1>8 DEF lb
  <2>3. PlacesOf(e) = {e[i].place : i \in 1..(la + lb)}
    BY <1>7 DEF PlacesOf
  <2>4. PlacesOf(a) = {a[i].place : i \in 1..la}
    BY DEF PlacesOf, la
  <2>5. PlacesOf(r.elements) = {r.elements[i].place : i \in 1..lb}
    BY <1>4 DEF PlacesOf, lb
  <2>6. PlacesOf(e) \subseteq PlacesOf(a) \cup PlacesOf(r.elements)
    BY <2>2, <2>3, <2>4, <2>5
  <2>7. PlacesOf(a) \subseteq PlacesOf(e)
    BY <1>9, <2>3, <2>4
  <2>8. PlacesOf(r.elements) \subseteq PlacesOf(e)
    BY <1>9, <2>1, <2>3, <2>5
  <2> QED BY <2>6, <2>7, <2>8
<1> QED BY <1>1, <1>18, <1>19 DEF w, q, a

RequestsOf(rs) == [i \in 1..Len(rs) |-> rs[i].request]
NothingMerged == [elements |-> <<>>, nextId |-> 0, evidence |-> <<>>]

(* What the merge returns, of responses that cover the pages.              *)
MergedWell(m, rs, pages) ==
    /\ Whole(m, pages)
    /\ PlacesOf(m.elements) = UNION {PlacesOf(rs[i].elements) : i \in 1..Len(rs)}
    /\ Len(m.evidence) = Len(rs)
    /\ \A i \in 1..Len(rs) : /\ m.evidence[i].first = rs[i].request.start + 1
                             /\ m.evidence[i].last = EndOf(rs[i].request)

(* The merge of responses that cover the pages, response by response.      *)
LEMMA MergeResponses ==
    ASSUME NEW base \in Nat, NEW rs \in Seq(Response(base)), NEW pages \in Nat,
           Tiles(RequestsOf(rs), 0, pages)
    PROVE  MergedWell(MergeParseChunks(rs), rs, pages)
<1> DEFINE n == Len(rs)  R(k) == IF k = 0 THEN 0 ELSE EndOf(rs[k].request)
<1>1. n \in Nat /\ DOMAIN rs = 1..n /\ \A i \in 1..n : rs[i] \in Response(base)
  OBVIOUS
<1>2. \A i \in 1..n : /\ rs[i].request \in Requests /\ rs[i].request.start \in Nat
                      /\ EndOf(rs[i].request) \in Nat
  <2> SUFFICES ASSUME NEW i \in 1..n
               PROVE  /\ rs[i].request \in Requests /\ rs[i].request.start \in Nat
                      /\ EndOf(rs[i].request) \in Nat
    OBVIOUS
  <2>1. rs[i].request \in Requests
    BY <1>1 DEF Response
  <2> QED BY <2>1 DEF Requests, EndOf
<1>3. RequestsOf(rs) = [i \in 1..n |-> rs[i].request]
  BY DEF RequestsOf
<1> HIDE DEF n
<1>4. Len(RequestsOf(rs)) = n /\ \A i \in 1..n : RequestsOf(rs)[i] = rs[i].request
  BY <1>1, <1>3
<1>5. ASSUME NEW k \in 1..n PROVE R(k - 1) = rs[k].request.start
  <2>1. CASE k = 1
    <3>1. RequestsOf(rs) # <<>>
      BY <1>1, <1>4, <2>1
    <3>2. RequestsOf(rs)[1].start = 0
      BY <3>1 DEF Tiles
    <3> QED BY <1>4, <2>1, <3>2
  <2>2. CASE k # 1
    <3>1. k - 1 \in 1..n /\ (k - 1) + 1 = k /\ k - 1 # 0
      BY <1>1, <2>2
    <3>2. RequestsOf(rs)[k].start = EndOf(RequestsOf(rs)[k - 1])
      BY <1>4, <3>1 DEF Tiles
    <3> QED BY <1>4, <3>1, <3>2
  <2> QED BY <2>1, <2>2
<1>6. \A k \in 0..n : R(k) \in Nat
  BY <1>1, <1>2
<1>7. R(n) = pages
  <2>1. CASE n = 0
    <3>1. RequestsOf(rs) = <<>>
      BY <1>3, <1>4, <2>1
    <3> QED BY <2>1, <3>1 DEF Tiles
  <2>2. CASE n # 0
    <3>1. RequestsOf(rs) # <<>> /\ n \in 1..n
      BY <1>1, <1>4, <2>2
    <3>2. EndOf(RequestsOf(rs)[n]) = pages
      BY <1>4, <3>1 DEF Tiles
    <3> QED BY <1>4, <2>2, <3>1, <3>2
  <2> QED BY <2>1, <2>2
<1> HIDE DEF R
<1>8. PICK v : MergeFold!Steps(v, {}, NothingMerged, n, rs) /\ v[n] = MergeFold!Fold({}, NothingMerged, rs)
  BY <1>1, MergeFold!FoldTrace
<1>9. v[0] = NothingMerged /\ \A i \in 1..n : v[i] = MergeChunk(v[i - 1], rs[i])
  BY <1>8 DEF MergeFold!Steps, MergeNext
<1>10. v[n] = MergeParseChunks(rs)
  BY <1>8, MergeIsFold DEF NothingMerged
<1> DEFINE P(k) == UNION {PlacesOf(rs[i].elements) : i \in 1..k}
           Ev(m, k) == /\ m.evidence \in Seq([first : Nat, last : Nat]) /\ Len(m.evidence) = k
                       /\ \A i \in 1..k : /\ m.evidence[i].first = rs[i].request.start + 1
                                          /\ m.evidence[i].last = EndOf(rs[i].request)
           T == {k \in 0..n : /\ Whole(v[k], R(k)) /\ PlacesOf(v[k].elements) = P(k)
                              /\ Ev(v[k], k)}
<1>11. 0 \in T
  <2>1. /\ NothingMerged.elements = <<>> /\ NothingMerged.nextId = 0 /\ NothingMerged.evidence = <<>>
        /\ <<>> \in Seq(Element) /\ Len(<<>>) = 0 /\ <<>> \in Seq([first : Nat, last : Nat])
        /\ 0 \in 0..n
    BY <1>1 DEF NothingMerged
  <2>2. \A i \in 1..Len(<<>>) : FALSE
    OBVIOUS
  <2>3. Whole(NothingMerged, R(0))
    BY <2>1, <2>2 DEF Whole, Numbered, InOrder, Placed
  <2>4. PlacesOf(NothingMerged.elements) = {} /\ P(0) = {}
    BY <2>1 DEF PlacesOf
  <2>5. Ev(NothingMerged, 0)
    BY <2>1
  <2> QED BY <1>9, <2>1, <2>3, <2>4, <2>5
<1>12. ASSUME NEW k \in 1..n, k - 1 \in T PROVE k \in T
  <2> DEFINE m == v[k - 1]  r == rs[k]  w == MergeChunk(m, r)
  <2>1. k \in 0..n /\ k - 1 \in 0..n /\ v[k] = w /\ r \in Response(base)
    BY <1>1, <1>9
  <2>2. Whole(m, R(k - 1)) /\ PlacesOf(m.elements) = P(k - 1) /\ Ev(m, k - 1)
    BY <1>12
  <2>3. R(k - 1) \in Nat /\ R(k - 1) <= r.request.start /\ R(k) = EndOf(r.request)
    BY <1>2, <1>5, <1>6, <2>1 DEF R
  <2> HIDE DEF m, r, Ev, P
  <2>4. /\ Whole(w, EndOf(r.request))
        /\ PlacesOf(w.elements) = PlacesOf(m.elements) \cup PlacesOf(r.elements)
        /\ w.evidence = Append(m.evidence, [first |-> r.request.start + 1, last |-> EndOf(r.request)])
    BY <2>1, <2>2, <2>3, MergeStep
  <2> HIDE DEF w
  <2>5. P(k) = P(k - 1) \cup PlacesOf(r.elements)
    <3>1. 1..k = (1..(k - 1)) \cup {k}
      BY <1>1
    <3> QED BY <3>1 DEF P, r
  <2>6. Ev(w, k)
    <3> DEFINE q == r.request  x == [first |-> q.start + 1, last |-> EndOf(q)]
               ev == m.evidence
    <3>1. q.start \in Nat /\ EndOf(q) \in Nat
      BY <1>2 DEF r
    <3>2. x \in [first : Nat, last : Nat] /\ x.first = q.start + 1 /\ x.last = EndOf(q)
      BY <3>1
    <3>3. /\ ev \in Seq([first : Nat, last : Nat]) /\ Len(ev) = k - 1
          /\ \A i \in 1..(k - 1) : /\ ev[i].first = rs[i].request.start + 1
                                   /\ ev[i].last = EndOf(rs[i].request)
      BY <2>2 DEF Ev
    <3> HIDE DEF x, ev
    <3>4. /\ Append(ev, x) \in Seq([first : Nat, last : Nat]) /\ Len(Append(ev, x)) = k
          /\ Append(ev, x)[k] = x /\ \A i \in 1..(k - 1) : Append(ev, x)[i] = ev[i]
      BY <1>1, <3>2, <3>3
    <3>5. w.evidence = Append(ev, x)
      BY <2>4 DEF ev, x
    <3>6. \A i \in 1..k : i = k \/ i \in 1..(k - 1)
      BY <1>1
    <3>7. x.first = rs[k].request.start + 1 /\ x.last = EndOf(rs[k].request)
      BY <3>2 DEF r
    <3> HIDE DEF q
    <3> QED BY <3>3, <3>4, <3>5, <3>6, <3>7 DEF Ev
  <2> QED BY <2>1, <2>2, <2>3, <2>4, <2>5, <2>6
<1>13. n \in T
  <2>1. \A k \in 0..n : k \in T
    <3> HIDE DEF T
    <3> QED BY <1>1, <1>11, <1>12, MergeFold!IntervalInduction
  <2>2. n \in 0..n
    BY <1>1
  <2> HIDE DEF T
  <2> QED BY <2>1, <2>2
<1>14. Whole(v[n], pages) /\ PlacesOf(v[n].elements) = P(n) /\ Ev(v[n], n)
  BY <1>7, <1>13
<1> QED BY <1>10, <1>14 DEF MergedWell, n

Apart(q, p) == EndOf(q) <= p.start \/ EndOf(p) <= q.start

(* A request that was made: a chunk, or a page of one that was not.        *)
Kept(q, mode, cs, made) ==
    \E i \in 1..Len(cs) :
       \/ q = cs[i]
       \/ mode = "enhanced" /\ cs[i] \notin made /\ PageOf(q, cs[i])
AllKept(mode, cs, made) == \A q \in made : q \in Requests /\ Kept(q, mode, cs, made)
AllWanted(todo, mode, cs, made) ==
    \A k \in 1..Len(todo) : \E i \in 1..Len(cs) : Wanted(todo[k], mode, cs[i], made)

(* The chunks of a document cover it.                                      *)
LEMMA ChunksTile ==
    ASSUME NEW mode \in DOMAIN SyncPages, NEW pages \in Nat
    PROVE  /\ Tiles(ChunksOf(mode, pages), 0, pages)
           /\ \A i \in 1..Len(ChunksOf(mode, pages)) :
                ChunksOf(mode, pages)[i].count <= SyncPages[mode]
<1>1. 0 \in Nat /\ SyncPages[mode] \in Nat \ {0} /\ 0 + pages = pages
  BY LongAssumption
<1>2. /\ Tiles(PdfChunks(0, pages, SyncPages[mode]), 0, 0 + pages)
      /\ \A i \in 1..Len(PdfChunks(0, pages, SyncPages[mode])) :
           PdfChunks(0, pages, SyncPages[mode])[i].count <= SyncPages[mode]
  BY <1>1, PdfTiles
<1> QED BY <1>1, <1>2 DEF ChunksOf

(* Nothing is asked for twice: no page is in two requests that were made.  *)
LEMMA KeptApart ==
    ASSUME NEW mode, NEW cs, NEW pages, Tiles(cs, 0, pages),
           NEW made, AllKept(mode, cs, made), NEW q \in made, NEW p \in made, q # p
    PROVE  Apart(q, p)
<1> DEFINE n == Len(cs)
<1>1. n \in Nat /\ \A i \in 1..n : cs[i] \in Requests
  BY DEF Tiles
<1>2. \A i, j \in 1..n : i < j => EndOf(cs[i]) <= cs[j].start
  BY TilesOrder
<1> HIDE DEF n
<1>3. q \in Requests /\ p \in Requests
  BY DEF AllKept
<1>4. PICK i \in 1..n : \/ q = cs[i]
                        \/ mode = "enhanced" /\ cs[i] \notin made /\ PageOf(q, cs[i])
  BY DEF AllKept, Kept, n
<1>5. PICK j \in 1..n : \/ p = cs[j]
                        \/ mode = "enhanced" /\ cs[j] \notin made /\ PageOf(p, cs[j])
  BY DEF AllKept, Kept, n
<1> DEFINE c == cs[i]  d == cs[j]
<1>6. /\ c \in Requests /\ d \in Requests
      /\ i < j => EndOf(c) <= d.start
      /\ j < i => EndOf(d) <= c.start
      /\ i = j => c = d
  BY <1>1, <1>2
<1> DEFINE Num(x) == x.start \in Nat /\ EndOf(x) \in Nat /\ x.count \in Nat /\ EndOf(x) = x.start + x.count
<1>7. Num(q) /\ Num(p) /\ Num(c) /\ Num(d)
  <2>1. \A x \in Requests : Num(x)
    BY DEF Requests, EndOf
  <2> HIDE DEF Num, c, d
  <2> QED BY <1>3, <1>6, <2>1
<1>8. /\ c.start <= q.start /\ EndOf(q) <= EndOf(c)
      /\ d.start <= p.start /\ EndOf(p) <= EndOf(d)
  BY <1>4, <1>5, <1>7 DEF PageOf
<1>9. i \in Nat /\ j \in Nat
  BY <1>1
<1>10. CASE i # j
  <2> HIDE DEF c, d
  <2>1. EndOf(c) <= d.start \/ EndOf(d) <= c.start
    BY <1>6, <1>9, <1>10
  <2> QED BY <1>7, <1>8, <2>1 DEF Apart
<1>11. CASE i = j
  <2>1. q.count = 1 /\ p.count = 1
    BY <1>4, <1>5, <1>11 DEF PageOf
  <2>2. q.start # p.start
    BY <1>3, <2>1 DEF Requests
  <2> QED BY <1>7, <2>1, <2>2 DEF Apart
<1> QED BY <1>10, <1>11

(* None is larger than the provider takes.                                 *)
LEMMA KeptFits ==
    ASSUME NEW mode \in DOMAIN SyncPages, NEW pages \in Nat, NEW made,
           AllKept(mode, ChunksOf(mode, pages), made), NEW q \in made
    PROVE  q.count \in 1..SyncPages[mode]
<1> DEFINE cs == ChunksOf(mode, pages)
<1>1. PICK i \in 1..Len(cs) : q = cs[i] \/ PageOf(q, cs[i])
  BY DEF AllKept, Kept
<1>2. cs[i].count <= SyncPages[mode]
  BY ChunksTile
<1>3. SyncPages[mode] \in Nat \ {0}
  BY LongAssumption
<1>4. q.count \in Nat \ {0}
  BY DEF AllKept, Requests
<1> QED BY <1>1, <1>2, <1>3, <1>4 DEF PageOf

(* Making a wanted request leaves the others wanted and kept.              *)
LEMMA WantedMade ==
    ASSUME NEW mode, NEW cs, NEW pages, Tiles(cs, 0, pages), NEW made, AllKept(mode, cs, made),
           NEW q \in Requests, q \notin made,
           \E i \in 1..Len(cs) : Wanted(q, mode, cs[i], made),
           NEW todo, AllWanted(todo, mode, cs, made)
    PROVE  AllKept(mode, cs, made \cup {q}) /\ AllWanted(todo, mode, cs, made \cup {q})
<1>1. \A c : mode = "enhanced" /\ c.count > 1 => q # c
  BY DEF Wanted, PageOf
<1>2. Kept(q, mode, cs, made \cup {q})
  <2>1. PICK i \in 1..Len(cs) : Wanted(q, mode, cs[i], made)
    OBVIOUS
  <2>2. CASE q = cs[i]
    BY <2>2 DEF Kept
  <2>3. CASE mode = "enhanced" /\ cs[i] \notin made /\ PageOf(q, cs[i])
    <3>1. cs[i] # q
      BY <1>1, <2>3 DEF PageOf
    <3> QED BY <2>3, <3>1 DEF Kept
  <2> QED BY <2>1, <2>2, <2>3 DEF Wanted
<1>3. \A p \in made : Kept(p, mode, cs, made \cup {q})
  <2> SUFFICES ASSUME NEW p \in made PROVE Kept(p, mode, cs, made \cup {q})
    OBVIOUS
  <2>1. PICK i \in 1..Len(cs) :
          \/ p = cs[i]
          \/ mode = "enhanced" /\ cs[i] \notin made /\ PageOf(p, cs[i])
    BY DEF AllKept, Kept
  <2>2. CASE p = cs[i]
    BY <2>2 DEF Kept
  <2>3. CASE mode = "enhanced" /\ cs[i] \notin made /\ PageOf(p, cs[i])
    <3>1. cs[i] # q
      BY <1>1, <2>3 DEF PageOf
    <3> QED BY <2>3, <3>1 DEF Kept
  <2> QED BY <2>1, <2>2, <2>3
<1>4. \A p \in made : p \in Requests
  BY DEF AllKept
<1>5. AllKept(mode, cs, made \cup {q})
  BY <1>2, <1>3, <1>4 DEF AllKept
<1>6. ASSUME NEW k \in 1..Len(todo)
      PROVE  \E i \in 1..Len(cs) : Wanted(todo[k], mode, cs[i], made \cup {q})
  <2>1. PICK i \in 1..Len(cs) : Wanted(todo[k], mode, cs[i], made)
    BY DEF AllWanted
  <2>2. CASE todo[k] = cs[i] /\ (mode = "enhanced" /\ cs[i].count > 1 => cs[i] \in made)
    BY <2>2 DEF Wanted
  <2>3. CASE mode = "enhanced" /\ cs[i] \notin made /\ PageOf(todo[k], cs[i])
    <3>1. cs[i] # q
      BY <1>1, <2>3 DEF PageOf
    <3> QED BY <2>3, <3>1 DEF Wanted
  <2> QED BY <2>1, <2>2, <2>3 DEF Wanted
<1> QED BY <1>5, <1>6 DEF AllWanted

(* Taking the head of what is left to the answers.                         *)
(* A function on 1..n is a sequence.                                       *)
LEMMA MadeSeq ==
    ASSUME NEW S, NEW n \in Nat, NEW f \in [1..n -> S]
    PROVE  f \in Seq(S) /\ Len(f) = n
OBVIOUS

(* The elements of a concatenation.                                        *)
LEMMA ConcatSeq ==
    ASSUME NEW S, NEW a \in Seq(S), NEW b \in Seq(S)
    PROVE  /\ a \o b \in Seq(S) /\ Len(a \o b) = Len(a) + Len(b)
           /\ \A i \in 1..Len(a) : (a \o b)[i] = a[i]
           /\ \A i \in 1..Len(b) : (a \o b)[Len(a) + i] = b[i]
OBVIOUS

LEMMA NextTiled ==
    ASSUME NEW S, NEW rs \in Seq(S), NEW todo \in Seq(Requests), todo # <<>>,
           NEW r \in S, r.request = Head(todo), \A x \in S : x.request \in Requests
    PROVE  RequestsOf(Append(rs, r)) \o Tail(todo) = RequestsOf(rs) \o todo
<1> DEFINE n == Len(rs)  m == Len(todo)  t == Tail(todo)  rq == RequestsOf(rs)
           a == RequestsOf(Append(rs, r))
<1>1. /\ n \in Nat /\ m \in Nat /\ m >= 1 /\ t \in Seq(Requests) /\ Len(t) = m - 1
      /\ \A i \in 1..(m - 1) : t[i] = todo[i + 1]
      /\ todo[1] = r.request
  OBVIOUS
<1>2. /\ Len(Append(rs, r)) = n + 1 /\ Append(rs, r)[n + 1] = r
      /\ \A i \in 1..n : Append(rs, r)[i] = rs[i] /\ rs[i] \in S
  OBVIOUS
<1>3. rq = [i \in 1..n |-> rs[i].request] /\ rq \in Seq(Requests) /\ Len(rq) = n
  BY <1>1 DEF RequestsOf
<1>4. a = [i \in 1..(n + 1) |-> Append(rs, r)[i].request]
  BY <1>2 DEF RequestsOf
<1>5. \A i \in 1..(n + 1) : a[i] \in Requests
  <2>1. \A i \in 1..(n + 1) : i = n + 1 \/ i \in 1..n
    BY <1>1
  <2> QED BY <1>2, <1>4, <2>1
<1> HIDE DEF n, m, t, rq, a
<1>6. a \in Seq(Requests) /\ Len(a) = n + 1
  <2> DEFINE N == n + 1
  <2>1. N \in Nat
    BY <1>1
  <2>2. a = [i \in 1..N |-> Append(rs, r)[i].request] /\ \A i \in 1..N : a[i] \in Requests
    BY <1>4, <1>5
  <2> HIDE DEF N
  <2>3. a \in [1..N -> Requests]
    BY <2>2
  <2>4. a \in Seq(Requests) /\ Len(a) = N
    BY <2>1, <2>3, MadeSeq
  <2> QED BY <2>4 DEF N
<1>7. /\ \A i \in 1..n : a[i] = rq[i]
      /\ a[n + 1] = todo[1]
  <2>1. \A i \in 1..n : i \in 1..(n + 1)
    BY <1>1
  <2>2. n + 1 \in 1..(n + 1)
    BY <1>1
  <2> QED BY <1>1, <1>2, <1>3, <1>4, <2>1, <2>2
<1> DEFINE u == a \o t  w == rq \o todo
<1>8. /\ u \in Seq(Requests) /\ Len(u) = n + m
      /\ \A i \in 1..(n + 1) : u[i] = a[i]
      /\ \A i \in 1..(m - 1) : u[n + 1 + i] = t[i]
  <2>1. /\ u \in Seq(Requests) /\ Len(u) = Len(a) + Len(t)
        /\ \A i \in 1..Len(a) : u[i] = a[i]
        /\ \A i \in 1..Len(t) : u[Len(a) + i] = t[i]
    <3>1. a \in Seq(Requests) /\ t \in Seq(Requests)
      BY <1>1, <1>6
    <3> QED BY <3>1, ConcatSeq
  <2>2. n + 1 + (m - 1) = n + m
    BY <1>1
  <2> HIDE DEF u
  <2> QED BY <1>1, <1>6, <2>1, <2>2
<1>9. /\ w \in Seq(Requests) /\ Len(w) = n + m
      /\ \A i \in 1..n : w[i] = rq[i]
      /\ \A i \in 1..m : w[n + i] = todo[i]
  BY <1>1, <1>3 DEF m
<1> HIDE DEF u, w
<1>10. \A i \in 1..(n + m) : u[i] = w[i]
  <2> SUFFICES ASSUME NEW i \in 1..(n + m) PROVE u[i] = w[i]
    OBVIOUS
  <2>1. CASE i \in 1..n
    <3>1. i \in 1..(n + 1)
      BY <1>1, <2>1
    <3> QED BY <1>7, <1>8, <1>9, <2>1, <3>1
  <2>2. CASE i = n + 1
    <3>1. i \in 1..(n + 1) /\ 1 \in 1..m
      BY <1>1, <2>2
    <3> QED BY <1>7, <1>8, <1>9, <2>2, <3>1
  <2>3. CASE i > n + 1
    <3> DEFINE k == i - (n + 1)
    <3>1. k \in 1..(m - 1) /\ i = n + 1 + k /\ k + 1 \in 1..m /\ i = n + (k + 1)
      BY <1>1, <2>3
    <3> HIDE DEF k
    <3>2. u[n + 1 + k] = t[k]
      BY <1>8, <3>1
    <3>3. w[n + (k + 1)] = todo[k + 1]
      BY <1>9, <3>1
    <3> QED BY <1>1, <3>1, <3>2, <3>3
  <2> QED BY <1>1, <2>1, <2>2, <2>3
<1>11. u = w
  BY <1>8, <1>9, <1>10
<1> QED BY <1>11 DEF u, w, a, t, rq

(* Elements in order stand at as many places as there are elements.        *)
LEMMA PlacesCounted ==
    ASSUME NEW e \in Seq(Element), InOrder(e)
    PROVE  Len(e) = Cardinality(PlacesOf(e))
<1> DEFINE n == Len(e)  f == [i \in 1..n |-> e[i].place]
<1>1. n \in Nat /\ \A i \in 1..n : e[i].place[1] \in Nat /\ e[i].place[2] \in Nat
  <2>1. \A i \in 1..n : e[i] \in Element
    OBVIOUS
  <2> QED BY <2>1 DEF Element
<1>2. PlacesOf(e) = {f[i] : i \in 1..n}
  BY DEF PlacesOf
<1> HIDE DEF n
<1>3. \A i, j \in 1..n : i # j => f[i] # f[j]
  <2> SUFFICES ASSUME NEW i \in 1..n, NEW j \in 1..n, i < j PROVE e[i].place # e[j].place
    BY <1>1
  <2>1. Precedes(e[i], e[j])
    BY DEF InOrder, n
  <2> QED BY <1>1, <2>1 DEF Precedes
<1>4. f \in Bijection(1..n, PlacesOf(e))
  <2>1. f \in [1..n -> PlacesOf(e)]
    BY <1>2
  <2>2. \A p \in PlacesOf(e) : \E i \in 1..n : f[i] = p
    BY <1>2
  <2>3. \A i, j \in 1..n : f[i] = f[j] => i = j
    BY <1>3
  <2> HIDE DEF f
  <2> QED BY <2>1, <2>2, <2>3 DEF Bijection, Injection, Surjection, IsInjective
<1>5. ExistsBijection(1..n, PlacesOf(e))
  BY <1>4 DEF ExistsBijection
<1>6. IsFiniteSet(1..n) /\ Cardinality(1..n) = n
  <2>1. 1 \in Int /\ n \in Int
    BY <1>1
  <2>2. IsFiniteSet(1..n) /\ Cardinality(1..n) = IF 1 > n THEN 0 ELSE n - 1 + 1
    BY <2>1, FS_Interval
  <2> QED BY <1>1, <2>2
<1>7. Cardinality(PlacesOf(e)) = Cardinality(1..n)
  BY <1>5, <1>6, FS_Bijection
<1> QED BY <1>6, <1>7 DEF n

LongStates ==
    [at : {"idle", "requests", "merged", "refused"}, mode : DOMAIN SyncPages, pages : Nat,
     base : Nat, stored : SUBSET [request : Requests, model : Models, elements : Seq(Element)],
     todo : Seq(Requests),
     responses : Seq([request : Requests, model : Models, elements : Seq(Element)]),
     attempts : Nat]

(* What is stored of a document.                                           *)
StoredWell(s) ==
    /\ s.stored \subseteq Response(s.base)
    /\ \A r, t \in s.stored : r.request = t.request => r = t
    /\ AllKept(s.mode, ChunksOf(s.mode, s.pages), Requested(s.stored))

(* Where an attempt at it stands.                                          *)
AttemptWell(s) ==
    /\ s.at \in {"requests", "merged"} =>
         /\ \A i \in 1..Len(s.responses) : s.responses[i] \in s.stored
         /\ Tiles(RequestsOf(s.responses) \o s.todo, 0, s.pages)
    /\ s.at = "requests" =>
         AllWanted(s.todo, s.mode, ChunksOf(s.mode, s.pages), Requested(s.stored))
    /\ s.at = "merged" => s.todo = <<>>

LongWell(s) == s \in LongStates /\ s.pages > 0 /\ StoredWell(s) /\ AttemptWell(s)

(* A document may have chunks stored before, each by an answer to it.      *)
LEMMA LongInitWell == LongInit => LongWell(long)
<1> SUFFICES ASSUME LongInit PROVE LongWell(long)
  OBVIOUS
<1>1. PICK mode \in DOMAIN SyncPages, pages \in LongPages, base \in {0, 1} :
        /\ pages > SyncPages[mode]
        /\ \E before \in SUBSET ToSet(PdfChunks(0, pages, SyncPages[mode])) :
             \E perPage \in [1..SyncPages[mode] -> 0..MaxOnPage], m \in Models :
               long = [at |-> "idle", mode |-> mode, pages |-> pages, base |-> base,
                       stored |-> {[request |-> c, model |-> m,
                                    elements |-> Elements(c, perPage, base)] : c \in before},
                       todo |-> <<>>, responses |-> <<>>, attempts |-> 0]
  BY DEF LongInit
<1>2. PICK before \in SUBSET ToSet(PdfChunks(0, pages, SyncPages[mode])),
           perPage \in [1..SyncPages[mode] -> 0..MaxOnPage], m \in Models :
        long = [at |-> "idle", mode |-> mode, pages |-> pages, base |-> base,
                stored |-> {[request |-> c, model |-> m,
                             elements |-> Elements(c, perPage, base)] : c \in before},
                todo |-> <<>>, responses |-> <<>>, attempts |-> 0]
  BY <1>1
<1> DEFINE limit == SyncPages[mode]  cs == ChunksOf(mode, pages)
           answer(c) == [request |-> c, model |-> m, elements |-> Elements(c, perPage, base)]
           stored == {answer(c) : c \in before}
<1>3. pages \in Nat /\ base \in Nat /\ limit \in Nat \ {0} /\ pages > 0
      /\ \A k \in 1..limit : perPage[k] \in Nat
  BY <1>1, LongAssumption
<1>4. Tiles(cs, 0, pages) /\ \A i \in 1..Len(cs) : cs[i].count <= limit
  BY <1>3, ChunksTile
<1>5. \A c \in before : c \in Requests /\ c.count <= limit /\ \E i \in 1..Len(cs) : c = cs[i]
  <2>1. cs \in Seq(Requests) /\ cs = PdfChunks(0, pages, limit)
    BY <1>4 DEF Tiles, ChunksOf
  <2> HIDE DEF cs
  <2>2. ToSet(cs) = {cs[i] : i \in 1..Len(cs)} /\ \A i \in 1..Len(cs) : cs[i] \in Requests
    BY <2>1 DEF ToSet
  <2> QED BY <1>4, <2>1, <2>2
<1>6. ASSUME NEW c \in before
      PROVE  /\ answer(c) \in Response(base) /\ answer(c).request = c
             /\ answer(c) \in [request : Requests, model : Models, elements : Seq(Element)]
  <2>1. c \in Requests /\ \A k \in 1..c.count : perPage[k] \in Nat
    <3>1. c \in Requests /\ c.count \in Nat /\ c.count <= limit
      BY <1>5 DEF Requests
    <3>2. \A k \in 1..c.count : k \in 1..limit
      BY <1>3, <3>1
    <3> QED BY <1>3, <3>1, <3>2
  <2>2. Answering(Elements(c, perPage, base), c, base)
    BY <1>3, <2>1, ElementsAnswer
  <2> DEFINE e == Elements(c, perPage, base)
  <2>3. e \in Seq(Element)
    BY <2>2 DEF Answering
  <2>4. answer(c) = [request |-> c, model |-> m, elements |-> e]
    OBVIOUS
  <2> HIDE DEF e, answer
  <2> QED BY <2>1, <2>2, <2>3, <2>4 DEF Response, e
<1>7. /\ long.at = "idle" /\ long.mode = mode /\ long.pages = pages /\ long.base = base
      /\ long.stored = stored
      /\ long = [at |-> "idle", mode |-> mode, pages |-> pages, base |-> base,
                 stored |-> stored, todo |-> <<>>, responses |-> <<>>, attempts |-> 0]
  BY <1>2
<1>8. \A r \in stored : \E c \in before : r = answer(c)
  OBVIOUS
<1> HIDE DEF answer, stored, limit
<1>9. /\ \A r \in stored : /\ r \in Response(base) /\ r.request \in before
                           /\ r \in [request : Requests, model : Models, elements : Seq(Element)]
      /\ \A r, t \in stored : r.request = t.request => r = t
  BY <1>6, <1>8
<1>10. AllKept(mode, cs, Requested(stored))
  <2>1. \A q \in Requested(stored) : q \in before
    BY <1>9 DEF Requested
  <2> QED BY <1>5, <2>1 DEF AllKept, Kept
<1>11. StoredWell(long)
  BY <1>7, <1>9, <1>10 DEF StoredWell
<1>12. AttemptWell(long)
  BY <1>7 DEF AttemptWell
<1>13. long \in LongStates
  <2>1. <<>> \in Seq(Requests)
        /\ <<>> \in Seq([request : Requests, model : Models, elements : Seq(Element)])
    OBVIOUS
  <2>2. stored \in SUBSET [request : Requests, model : Models, elements : Seq(Element)]
    BY <1>9
  <2> QED BY <1>3, <1>7, <2>1, <2>2 DEF LongStates
<1> QED BY <1>3, <1>7, <1>11, <1>12, <1>13 DEF LongWell

(* The fields of a document that is well.                                  *)
LEMMA LongTyped ==
    ASSUME LongWell(long)
    PROVE  /\ long.at \in {"idle", "requests", "merged", "refused"}
           /\ long.mode \in DOMAIN SyncPages /\ long.pages \in Nat /\ long.base \in Nat
           /\ long.stored \in SUBSET [request : Requests, model : Models, elements : Seq(Element)]
           /\ long.todo \in Seq(Requests)
           /\ long.responses \in Seq([request : Requests, model : Models, elements : Seq(Element)])
           /\ long.attempts \in Nat
<1>1. long \in LongStates
  BY DEF LongWell
<1> QED BY <1>1 DEF LongStates

(* Every step of an attempt keeps a document well.                         *)
LEMMA LongStep == LongWell(long) /\ LongNext => LongWell(long')
<1> SUFFICES ASSUME LongWell(long), LongNext PROVE LongWell(long')
  OBVIOUS
<1> DEFINE Answered == [request : Requests, model : Models, elements : Seq(Element)]
           mode == long.mode  pages == long.pages  base == long.base  stored == long.stored
           todo == long.todo  responses == long.responses  attempts == long.attempts
           cs == ChunksOf(mode, pages)  s == long'
           State(at, st, td, rs, n) ==
             [at |-> at, mode |-> mode, pages |-> pages, base |-> base, stored |-> st,
              todo |-> td, responses |-> rs, attempts |-> n]
<1>1. /\ mode \in DOMAIN SyncPages /\ pages \in Nat /\ base \in Nat
      /\ stored \in SUBSET Answered /\ todo \in Seq(Requests) /\ responses \in Seq(Answered)
      /\ attempts \in Nat
  BY LongTyped
<1>2. \A at, st, td, rs, n :
        /\ State(at, st, td, rs, n).at = at /\ State(at, st, td, rs, n).mode = mode
        /\ State(at, st, td, rs, n).pages = pages /\ State(at, st, td, rs, n).base = base
        /\ State(at, st, td, rs, n).stored = st /\ State(at, st, td, rs, n).todo = td
        /\ State(at, st, td, rs, n).responses = rs
        /\ at \in {"idle", "requests", "merged", "refused"} /\ st \in SUBSET Answered
           /\ td \in Seq(Requests) /\ rs \in Seq(Answered) /\ n \in Nat
           => State(at, st, td, rs, n) \in LongStates
  BY <1>1 DEF LongStates
<1>3. long = State(long.at, stored, todo, responses, attempts)
  BY DEF LongWell, LongStates
<1>4. pages > 0 /\ StoredWell(long) /\ AttemptWell(long)
  BY DEF LongWell
<1>5. Tiles(cs, 0, pages)
  BY <1>1, ChunksTile
<1>6. /\ stored \subseteq Response(base)
      /\ \A r, t \in stored : r.request = t.request => r = t
      /\ AllKept(mode, cs, Requested(stored))
  BY <1>4 DEF StoredWell
<1>7. CASE LargeBegin
  <2> DEFINE td == LongRequests(mode, pages, Requested(stored))
  <2>1. s = State("requests", stored, td, <<>>, attempts + 1)
    BY <1>3, <1>7 DEF LargeBegin
  <2>2. Tiles(td, 0, pages) /\ AllWanted(td, mode, cs, Requested(stored))
    BY <1>1, LongTiles DEF AllWanted
  <2> HIDE DEF td, cs
  <2>3. td \in Seq(Requests) /\ attempts + 1 \in Nat /\ <<>> \in Seq(Answered)
    BY <1>1, <2>2 DEF Tiles
  <2>4. RequestsOf(<<>>) \o td = td
    <3>1. RequestsOf(<<>>) = <<>>
      BY DEF RequestsOf
    <3> QED BY <2>3, <3>1
  <2>5. /\ s.at = "requests" /\ s.mode = mode /\ s.pages = pages /\ s.base = base
        /\ s.stored = stored /\ s.todo = td /\ s.responses = <<>> /\ s \in LongStates
    BY <1>1, <1>2, <2>1, <2>3
  <2> HIDE DEF State, s
  <2>6. StoredWell(s)
    BY <1>6, <2>5 DEF StoredWell, cs
  <2>7. AttemptWell(s)
    <3>1. \A i \in 1..Len(<<>>) : <<>>[i] \in stored
      OBVIOUS
    <3> QED BY <2>2, <2>4, <2>5, <3>1 DEF AttemptWell, cs
  <2> QED BY <1>4, <2>5, <2>6, <2>7 DEF LongWell, s
<1>8. CASE LargeRequest
  <2> DEFINE q == Head(todo)  made == Requested(stored)
  <2>1. long.at = "requests" /\ todo # <<>>
    BY <1>8 DEF LargeRequest
  <2>2. PICK answer \in IF q \in made THEN {r \in stored : r.request = q} ELSE Answers(q, base) :
          s = State("requests", stored \cup {answer}, Tail(todo), Append(responses, answer),
                    attempts)
    BY <1>3, <1>8 DEF LargeRequest
  <2> DEFINE st == stored \cup {answer}  rs == Append(responses, answer)  t == Tail(todo)
  <2>3. /\ q \in Requests /\ t \in Seq(Requests) /\ q = todo[1] /\ 1 \in 1..Len(todo)
        /\ Len(t) = Len(todo) - 1 /\ \A i \in 1..Len(t) : t[i] = todo[i + 1] /\ i + 1 \in 1..Len(todo)
    BY <1>1, <2>1
  <2>4. answer \in Response(base) /\ answer.request = q /\ (q \in made => answer \in stored)
    <3>1. q \in made => answer \in stored /\ answer.request = q
      BY <2>2
    <3>2. q \notin made => answer \in Answers(q, base)
      BY <2>2
    <3> HIDE DEF q, made
    <3> QED BY <1>1, <1>6, <2>3, <3>1, <3>2, AnswersRespond
  <2>5. answer \in Answered
    BY <2>4 DEF Response
  <2>6. /\ \A i \in 1..Len(responses) : responses[i] \in stored
        /\ Tiles(RequestsOf(responses) \o todo, 0, pages)
        /\ AllWanted(todo, mode, cs, made)
    BY <1>4, <2>1 DEF AttemptWell
  <2> HIDE DEF q, made, t, cs
  <2>7. AllWanted(t, mode, cs, made)
    BY <2>3, <2>6 DEF AllWanted
  <2>8. Requested(st) = made \cup {q}
    BY <2>4 DEF Requested, made
  <2>9. AllKept(mode, cs, made \cup {q}) /\ AllWanted(t, mode, cs, made \cup {q})
    <3>1. CASE q \in made
      <4>1. made \cup {q} = made
        BY <3>1
      <4> QED BY <1>6, <2>7, <4>1 DEF made
    <3>2. CASE q \notin made
      <4>1. \E i \in 1..Len(cs) : Wanted(q, mode, cs[i], made)
        BY <2>3, <2>6 DEF AllWanted
      <4>2. AllKept(mode, cs, made)
        BY <1>6 DEF made
      <4> QED BY <1>5, <2>3, <2>7, <3>2, <4>1, <4>2, WantedMade
    <3> QED BY <3>1, <3>2
  <2>10. \A r, u \in st : r.request = u.request => r = u
    <3> SUFFICES ASSUME NEW r \in st, NEW u \in st, r.request = u.request PROVE r = u
      OBVIOUS
    <3>1. \A x \in stored : x.request \in made
      BY DEF Requested, made
    <3> QED BY <1>6, <2>4, <3>1
  <2>11. RequestsOf(rs) \o t = RequestsOf(responses) \o todo
    <3>1. \A x \in Answered : x.request \in Requests
      OBVIOUS
    <3>2. answer.request = Head(todo)
      BY <2>4 DEF q
    <3> HIDE DEF Answered
    <3>3. RequestsOf(Append(responses, answer)) \o Tail(todo) = RequestsOf(responses) \o todo
      BY <1>1, <2>1, <2>5, <3>1, <3>2, NextTiled
    <3> QED BY <3>3 DEF t
  <2>12. rs \in Seq(Answered) /\ \A i \in 1..Len(rs) : rs[i] \in st
    <3> HIDE DEF Answered
    <3>1. /\ rs \in Seq(Answered) /\ Len(rs) = Len(responses) + 1 /\ rs[Len(responses) + 1] = answer
          /\ \A i \in 1..Len(responses) : rs[i] = responses[i]
      BY <1>1, <2>5
    <3>2. \A i \in 1..Len(rs) : i = Len(responses) + 1 \/ i \in 1..Len(responses)
      BY <1>1, <3>1
    <3> HIDE DEF rs
    <3> QED BY <2>6, <3>1, <3>2
  <2> HIDE DEF rs
  <2>13. st \in SUBSET Answered /\ st \subseteq Response(base)
    BY <1>1, <1>6, <2>4, <2>5
  <2> HIDE DEF st
  <2>14. /\ s.at = "requests" /\ s.mode = mode /\ s.pages = pages /\ s.base = base
         /\ s.stored = st /\ s.todo = t /\ s.responses = rs /\ s \in LongStates
    <3>1. s = State("requests", st, t, rs, attempts)
      BY <2>2 DEF st, t, rs
    <3> HIDE DEF State, s, Answered
    <3> QED BY <1>1, <1>2, <2>3, <2>12, <2>13, <3>1
  <2> HIDE DEF State, s
  <2>15. StoredWell(s)
    BY <2>8, <2>9, <2>10, <2>13, <2>14 DEF StoredWell, cs
  <2>16. AttemptWell(s)
    BY <2>6, <2>8, <2>9, <2>11, <2>12, <2>14 DEF AttemptWell, cs
  <2> QED BY <1>4, <2>14, <2>15, <2>16 DEF LongWell, s
<1>9. CASE LargeRaises
  <2>1. s = State("idle", stored, <<>>, <<>>, attempts)
    BY <1>3, <1>9 DEF LargeRaises
  <2>2. <<>> \in Seq(Requests) /\ <<>> \in Seq(Answered)
    OBVIOUS
  <2> HIDE DEF cs
  <2>3. /\ s.at = "idle" /\ s.mode = mode /\ s.pages = pages /\ s.base = base
        /\ s.stored = stored /\ s \in LongStates
    BY <1>1, <1>2, <2>1, <2>2
  <2> HIDE DEF State, s
  <2>4. StoredWell(s)
    BY <1>6, <2>3 DEF StoredWell, cs
  <2>5. AttemptWell(s)
    BY <2>3 DEF AttemptWell
  <2> QED BY <1>4, <2>3, <2>4, <2>5 DEF LongWell, s
<1>10. CASE LargeMerge
  <2>1. long.at = "requests" /\ todo = <<>>
    BY <1>10 DEF LargeMerge
  <2>2. PICK at \in {"merged", "refused"} : s = State(at, stored, todo, responses, attempts)
    BY <1>3, <1>10 DEF LargeMerge
  <2>3. /\ \A i \in 1..Len(responses) : responses[i] \in stored
        /\ Tiles(RequestsOf(responses) \o todo, 0, pages)
    BY <1>4, <2>1 DEF AttemptWell
  <2> HIDE DEF cs
  <2>4. /\ s.at \in {"merged", "refused"} /\ s.mode = mode /\ s.pages = pages /\ s.base = base
        /\ s.stored = stored /\ s.todo = todo /\ s.responses = responses /\ s \in LongStates
    BY <1>1, <1>2, <2>2
  <2> HIDE DEF State, s
  <2>5. StoredWell(s)
    BY <1>6, <2>4 DEF StoredWell, cs
  <2>6. AttemptWell(s)
    BY <2>1, <2>3, <2>4 DEF AttemptWell
  <2> QED BY <1>4, <2>4, <2>5, <2>6 DEF LongWell, s
<1> QED BY <1>7, <1>8, <1>9, <1>10 DEF LongNext

(* The merge of a document's responses is the document.                    *)
LEMMA LongWellWhole == LongWell(long) => LongDocumentsWhole
<1> SUFFICES ASSUME LongWell(long) PROVE LongDocumentsWhole
  OBVIOUS
<1> DEFINE stored == long.stored  responses == long.responses  mode == long.mode
           pages == long.pages  base == long.base  made == Requested(stored)
<1>1. /\ mode \in DOMAIN SyncPages /\ pages \in Nat /\ base \in Nat /\ pages > 0
      /\ long.todo \in Seq(Requests)
      /\ responses \in Seq([request : Requests, model : Models, elements : Seq(Element)])
  BY LongTyped DEF LongWell
<1>2. /\ stored \subseteq Response(base)
      /\ \A r, t \in stored : r.request = t.request => r = t
      /\ AllKept(mode, ChunksOf(mode, pages), made)
  BY DEF LongWell, StoredWell
<1>3. \A r \in stored : r.request \in made
  BY DEF Requested
<1> HIDE DEF made
<1>4. \A r, s \in stored : r # s =>
        r.request.start + r.request.count <= s.request.start
        \/ s.request.start + s.request.count <= r.request.start
  <2> SUFFICES ASSUME NEW r \in stored, NEW s \in stored, r # s
               PROVE  Apart(r.request, s.request)
    BY DEF Apart, EndOf
  <2>1. Tiles(ChunksOf(mode, pages), 0, pages)
    BY <1>1, ChunksTile
  <2>2. r.request # s.request /\ r.request \in made /\ s.request \in made
    BY <1>2, <1>3
  <2> QED BY <1>2, <2>1, <2>2, KeptApart
<1>5. \A r \in stored : r.request.count \in 1..SyncPages[mode]
  BY <1>1, <1>2, <1>3, KeptFits
<1>6. ASSUME long.at = "merged"
      PROVE  LET merged == MergeParseChunks(responses)
                 e == merged.elements  v == merged.evidence
                 places == UNION {{x.place : x \in ToSet(r.elements)} : r \in ToSet(responses)}
             IN /\ {x.place : x \in ToSet(e)} = places /\ Len(e) = Cardinality(places)
                /\ \A i, j \in DOMAIN e : i < j =>
                     /\ e[i].id # e[j].id
                     /\ \/ e[i].place[1] < e[j].place[1]
                        \/ e[i].place[1] = e[j].place[1] /\ e[i].place[2] < e[j].place[2]
                /\ \A x \in ToSet(e) : x.page = x.place[1] /\ x.html = x.id
                /\ v[1].first = 1 /\ v[Len(v)].last = pages
                /\ \A i \in 2..Len(v) : v[i].first = v[i - 1].last + 1
  <2> DEFINE merged == MergeParseChunks(responses)  e == merged.elements  v == merged.evidence
             places == UNION {{x.place : x \in ToSet(r.elements)} : r \in ToSet(responses)}
             n == Len(responses)  rq == RequestsOf(responses)
  <2>1. /\ \A i \in 1..n : responses[i] \in stored
        /\ Tiles(RequestsOf(responses) \o long.todo, 0, pages) /\ long.todo = <<>>
    BY <1>6 DEF LongWell, AttemptWell
  <2>2. /\ n \in Nat /\ DOMAIN responses = 1..n
        /\ ToSet(responses) = {responses[i] : i \in 1..n}
    <3>1. n \in Nat /\ DOMAIN responses = 1..n
      BY <1>1
    <3> HIDE DEF n, responses
    <3> QED BY <3>1 DEF ToSet
  <2>3. rq = [i \in 1..n |-> responses[i].request]
    BY DEF RequestsOf
  <2>4. \A i \in 1..n : /\ responses[i] \in Response(base) /\ responses[i].request \in Requests
                        /\ responses[i].elements \in Seq(Element)
    BY <1>2, <2>1 DEF Response
  <2> HIDE DEF n, rq
  <2>5. rq \in Seq(Requests) /\ Len(rq) = n /\ \A i \in 1..n : rq[i] = responses[i].request
    <3>1. rq \in [1..n -> Requests]
      BY <2>3, <2>4
    <3>2. rq \in Seq(Requests) /\ Len(rq) = n
      BY <2>2, <3>1, MadeSeq
    <3> QED BY <2>3, <3>2
  <2>6. Tiles(rq, 0, pages)
    <3>1. rq \o <<>> = rq
      BY <2>5
    <3> QED BY <2>1, <3>1 DEF rq
  <2>7. responses \in Seq(Response(base))
    <3>1. responses \in [1..n -> Response(base)]
      <4>1. responses = [i \in 1..n |-> responses[i]]
        BY <1>1, <2>2
      <4> QED BY <2>4, <4>1
    <3> QED BY <2>2, <3>1, MadeSeq
  <2>8. MergedWell(merged, responses, pages)
    BY <1>1, <2>6, <2>7, MergeResponses DEF rq
  <2> HIDE DEF merged
  <2>9. /\ e \in Seq(Element) /\ InOrder(e) /\ Numbered(e, merged.nextId) /\ Placed(e, pages)
        /\ PlacesOf(e) = UNION {PlacesOf(responses[i].elements) : i \in 1..n}
        /\ Len(v) = n
        /\ \A i \in 1..n : /\ v[i].first = responses[i].request.start + 1
                           /\ v[i].last = EndOf(responses[i].request)
    BY <2>8 DEF MergedWell, Whole, n
  <2>10. \A f \in Seq(Element) : {x.place : x \in ToSet(f)} = PlacesOf(f)
    <3> SUFFICES ASSUME NEW f \in Seq(Element)
                 PROVE  {x.place : x \in ToSet(f)} = PlacesOf(f)
      OBVIOUS
    <3>1. ToSet(f) = {f[i] : i \in 1..Len(f)}
      BY DEF ToSet
    <3> QED BY <3>1 DEF PlacesOf
  <2>11. {x.place : x \in ToSet(e)} = places
    <3> DEFINE P(r) == {x.place : x \in ToSet(r.elements)}
    <3>1. places = UNION {P(responses[i]) : i \in 1..n}
      BY <2>2
    <3>2. \A i \in 1..n : P(responses[i]) = PlacesOf(responses[i].elements)
      BY <2>4, <2>10
    <3> HIDE DEF P, places
    <3>3. places = UNION {PlacesOf(responses[i].elements) : i \in 1..n}
      BY <3>1, <3>2
    <3> QED BY <2>9, <2>10, <3>3
  <2>12. Len(e) = Cardinality(places)
    BY <2>9, <2>10, <2>11, PlacesCounted
  <2> HIDE DEF places, e, v
  <2>13. DOMAIN e = 1..Len(e) /\ Len(e) \in Nat
    BY <2>9
  <2>14. \A i, j \in DOMAIN e : i < j =>
           /\ e[i].id # e[j].id
           /\ \/ e[i].place[1] < e[j].place[1]
              \/ e[i].place[1] = e[j].place[1] /\ e[i].place[2] < e[j].place[2]
    <3> SUFFICES ASSUME NEW i \in 1..Len(e), NEW j \in 1..Len(e), i < j
                 PROVE  /\ e[i].id # e[j].id
                        /\ \/ e[i].place[1] < e[j].place[1]
                           \/ e[i].place[1] = e[j].place[1] /\ e[i].place[2] < e[j].place[2]
      BY <2>13
    <3>1. e[i].id < e[j].id
      BY <2>9 DEF Numbered
    <3>2. Precedes(e[i], e[j])
      BY <2>9 DEF InOrder
    <3>3. e[i].id \in Nat /\ e[j].id \in Nat
      <4>1. e[i] \in Element /\ e[j] \in Element
        BY <2>9
      <4> QED BY <4>1 DEF Element
    <3> QED BY <3>1, <3>2, <3>3 DEF Precedes
  <2>15. \A x \in ToSet(e) : x.page = x.place[1] /\ x.html = x.id
    <3>1. ToSet(e) = {e[i] : i \in 1..Len(e)}
      BY <2>13 DEF ToSet
    <3> QED BY <2>9, <3>1 DEF Placed
  <2>16. rq # <<>> /\ n >= 1 /\ 1 \in 1..n /\ n \in 1..n
    <3>1. rq # <<>>
      BY <1>1, <2>6 DEF Tiles
    <3> QED BY <2>2, <2>5, <3>1
  <2>17. v[1].first = 1 /\ v[Len(v)].last = pages
    <3>1. rq[1].start = 0 /\ EndOf(rq[n]) = pages
      BY <2>5, <2>6, <2>16 DEF Tiles
    <3>2. responses[1].request.start = 0 /\ EndOf(responses[n].request) = pages
      BY <2>5, <2>16, <3>1
    <3>3. 0 + 1 = 1
      OBVIOUS
    <3> QED BY <2>9, <2>16, <3>2, <3>3
  <2>18. \A i \in 2..Len(v) : v[i].first = v[i - 1].last + 1
    <3> SUFFICES ASSUME NEW i \in 2..n PROVE v[i].first = v[i - 1].last + 1
      BY <2>9
    <3>1. i - 1 \in 1..n /\ (i - 1) + 1 = i /\ i \in 1..n
      BY <2>2
    <3>2. rq[i].start = EndOf(rq[i - 1])
      BY <2>5, <2>6, <3>1 DEF Tiles
    <3>3. responses[i].request.start = EndOf(responses[i - 1].request)
      BY <2>5, <3>1, <3>2
    <3>4. v[i].first = responses[i].request.start + 1
      BY <2>9, <3>1
    <3>5. v[i - 1].last = EndOf(responses[i - 1].request)
      BY <2>9, <3>1
    <3> QED BY <3>3, <3>4, <3>5
  <2> QED BY <2>11, <2>12, <2>14, <2>15, <2>17, <2>18 DEF merged, e, v, places
<1> QED BY <1>4, <1>5, <1>6 DEF LongDocumentsWhole

(* The inductive invariant of the attempts at a document.                  *)
LongInv == LongWell(long)

(* For any limit of pages and any document: what is stored answers chunks, *)
(* or pages of chunks that were never asked for whole, each at most once,  *)
(* and the requests of an attempt, answered and to be made, cover the      *)
(* pages in turn - however often an attempt raised and another began.      *)
THEOREM LongInvariant == LongSpec => []LongInv
<1>1. LongInit => LongInv
  BY LongInitWell DEF LongInv
<1>2. LongInv /\ [LongNext]_long => LongInv'
  <2>1. LongInv /\ UNCHANGED long => LongInv'
    BY DEF LongInv
  <2>2. LongInv /\ LongNext => LongInv'
    BY LongStep DEF LongInv
  <2> QED BY <2>1, <2>2
<1> QED BY <1>1, <1>2, PTL DEF LongSpec

(* Of a document with any number of pages the merge returns the elements   *)
(* in reading order, each once, under numbers of its own and the pages of  *)
(* the document, with evidence for every page (_merge_parse_chunks).       *)
THEOREM LongDocumentsWholeHolds == LongSpec => []LongDocumentsWhole
<1>1. LongInv => LongDocumentsWhole
  BY LongWellWhole DEF LongInv
<1> QED BY <1>1, LongInvariant, PTL
============================================================================
