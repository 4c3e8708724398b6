---------------------------- MODULE ParsePipeline ----------------------------
(***************************************************************************)
(* ParserPipeline and its checkpoint repository, ingestion/parser.py, as   *)
(* scripts/parse_corpus.py wires them: an operator prints a plan (dry run) *)
(* and executes it under its hash, in one of several processes that share  *)
(* the database.  One checkpoint row per document and mode holds what is   *)
(* known about its parse; a response whose model version is not the        *)
(* approved one is kept in a row of its own, which nothing reads.          *)
(*                                                                         *)
(* The gateway is here what ProviderGateway promises: a response it has    *)
(* stored is returned for nothing, any other is paid for; it may fail      *)
(* before or after it paid.  Every await is an action boundary.            *)
(***************************************************************************)
EXTENDS Integers, FiniteSets

CONSTANTS Docs,           \* the documents of the snapshot
          Pipes,          \* operator processes
          NoPipe, NoDoc,  \* no process, no document
          Budget,         \* _hard_budget_usd, in prices of one document
          MaxExecutions,  \* bound: executions started
          MaxFaults       \* bound: files replaced, rows corrupted, commits failed

ASSUME ParseAssumption ==
    /\ IsFiniteSet(Docs) /\ NoPipe \notin Pipes /\ NoDoc \notin Docs
    /\ Budget \in Nat /\ MaxExecutions \in Nat /\ MaxFaults \in Nat

Modes == {"standard", "enhanced"}

(* What _normalize makes of a provider response: a checkpoint, a complaint *)
(* about its contents, a complaint about its model version.                *)
Kinds == {"good", "malformed", "drifted"}

VARIABLES row,        \* parse_run under the approved model version
          drifted,    \* parse_run rows under another version
          response,   \* what the gateway has stored for a mode and document
          settled,    \* requests settled so far
          source,     \* the file of a document: as approved, or replaced
          flight,     \* who holds the single flight of a mode and document
          phase,      \* the await a process is at
          mine,       \* the local variables of its plan_corpus and parse_corpus
          pending,    \* reconcile_paid_checkpoint between its get and its put
          overlap,    \* history: two executions were active at once
          reconciled, \* history: a reconciliation ran
          executions, faults

vars == <<row, drifted, response, settled, source, flight, phase, mine,
          pending, overlap, reconciled, executions, faults>>

evidence == <<row, drifted>>
gateway == <<response, settled>>
operator == <<source, pending, reconciled, faults>>
begun == <<overlap, executions>>

Row == [status : {"absent", "failed", "reconciliation_required", "succeeded"},
        raw : {"none", "good", "malformed", "corrupt"}]
Plan == [mode : Modes, hits : SUBSET Docs, source : [Docs -> {"approved", "replaced"}],
         settled : Nat]
NoPlan == [mode |-> "none"]

Local == [mode : Modes, resume : BOOLEAN, settled : Nat,
          unread : SUBSET Docs, hits : SUBSET Docs, todo : SUBSET Docs,
          new : SUBSET Docs, failed : SUBSET Docs,
          doc : Docs \cup {NoDoc}, raw : Kinds \cup {"none"}, plan : Plan \cup {NoPlan},
          same : BOOLEAN]
Fresh == [mode |-> "standard", resume |-> TRUE, settled |-> 0, unread |-> {},
          hits |-> {}, todo |-> {}, new |-> {}, failed |-> {}, doc |-> NoDoc,
          raw |-> "none", plan |-> NoPlan, same |-> TRUE]
Phases == {"idle", "ready", "parity", "plan", "next", "look", "fetch", "save",
           "record"}
UnderFlight == {"look", "fetch", "save", "record"}

(* cache_integrity_ok: every stored field agrees with the stored response. *)
Intact(r) == r.status = "succeeded" /\ r.raw = "good"

Init ==
    /\ row = [m \in Modes |-> [d \in Docs |-> [status |-> "absent", raw |-> "none"]]]
    /\ drifted = {}
    /\ response = [m \in Modes |-> [d \in Docs |-> "none"]]
    /\ settled = 0
    /\ source = [d \in Docs |-> "approved"]
    /\ flight = [m \in Modes |-> [d \in Docs |-> NoPipe]]
    /\ phase = [p \in Pipes |-> "idle"]
    /\ mine = [p \in Pipes |-> Fresh]
    /\ pending = {}
    /\ overlap = FALSE /\ reconciled = FALSE
    /\ executions = 0 /\ faults = 0

To(p, where) == phase' = [phase EXCEPT ![p] = where]
Set(p, local) == mine' = [mine EXCEPT ![p] = local]
Put(m, d, status, raw) ==
    row' = [row EXCEPT ![m][d] = [status |-> status, raw |-> raw]]
Land(p) == flight' = [flight EXCEPT ![mine[p].mode][mine[p].doc] = NoPipe]
-----------------------------------------------------------------------------
(* Planning. *)

\* Mutant: only that Standard was tried is asked for.
Parity_Tried(d) == row["standard"][d].status # "absent"

(* _require_standard_parity, for one document: the complete page set and   *)
(* integrity both amount to an intact Standard checkpoint.                 *)
Parity(d) == Intact(row["standard"][d])

(* A dry run prints the plan and its hash for the operator to confirm.  It *)
(* changes nothing, and what it read is only compared: one step.           *)
DryRun(p) == \E m \in Modes, resume \in BOOLEAN :
    /\ phase[p] = "idle" /\ executions < MaxExecutions
    /\ m = "enhanced" => \A d \in Docs : Parity(d)
    /\ executions' = executions + 1
    /\ To(p, "ready")
    /\ Set(p, [Fresh EXCEPT !.mode = m, !.plan =
           [mode |-> m, source |-> source, settled |-> settled,
            hits |-> IF resume THEN {d \in Docs : Intact(row[m][d])} ELSE {}]])
    /\ UNCHANGED <<evidence, gateway, operator, flight, overlap>>

(* --execute --confirm-plan, for the mode that was planned (any other is   *)
(* refused): the settled cost is read first, once.                         *)
Execute(p) == \E resume \in BOOLEAN :
    /\ phase[p] = "ready"
    /\ To(p, IF mine[p].mode = "enhanced" THEN "parity" ELSE "plan")
    /\ Set(p, [mine[p] EXCEPT !.resume = resume, !.settled = settled, !.unread = Docs,
                            !.same = settled = mine[p].plan.settled])
    /\ overlap' = (overlap \/ \E q \in Pipes : phase[q] \notin {"idle", "ready"})
    /\ UNCHANGED <<evidence, gateway, operator, flight, executions>>

ReadParity(p) == \E d \in mine[p].unread :
    /\ phase[p] = "parity"
    /\ IF ~Parity(d) THEN To(p, "idle") /\ Set(p, Fresh)
       ELSE IF mine[p].unread = {d}
            THEN To(p, "plan") /\ Set(p, [mine[p] EXCEPT !.unread = Docs])
            ELSE Set(p, [mine[p] EXCEPT !.unread = @ \ {d}]) /\ UNCHANGED phase
    /\ UNCHANGED <<evidence, gateway, operator, flight, begun>>

\* Mutant: the limit may be reached.
Affordable_AtLimit(new, seen) == Budget - seen - Cardinality(new) >= 0

Affordable(new, seen) == Budget - seen - Cardinality(new) > 0

(* The plan in hand must be the confirmed one and stay below the budget;   *)
(* anything else raises before the first request.                          *)
Authorize(p, plan) ==
    LET new == Docs \ plan.hits
    IN IF plan.same /\ Affordable(new, plan.settled)
       THEN To(p, "next") /\ Set(p, [plan EXCEPT !.todo = new, !.settled = 0, !.plan = NoPlan])
       ELSE To(p, "idle") /\ Set(p, Fresh)

(* One document's checkpoint and file; after the last one the hash.        *)
ReadPlan(p) == \E d \in mine[p].unread :
    LET hit == mine[p].resume /\ Intact(row[mine[p].mode][d])
        plan == [mine[p] EXCEPT !.unread = @ \ {d},
                                !.hits = IF hit THEN @ \cup {d} ELSE @,
                                !.same = /\ @
                                         /\ hit <=> d \in mine[p].plan.hits
                                         /\ source[d] = mine[p].plan.source[d]]
    IN /\ phase[p] = "plan"
       /\ IF plan.unread = {} THEN Authorize(p, plan) ELSE Set(p, plan) /\ UNCHANGED phase
       /\ UNCHANGED <<evidence, gateway, operator, flight, begun>>
-----------------------------------------------------------------------------
(* Executing, one document after the other. *)

Take(p) == \E d \in mine[p].todo :
    /\ phase[p] = "next" /\ flight[mine[p].mode][d] = NoPipe
    /\ flight' = [flight EXCEPT ![mine[p].mode][d] = p]
    /\ To(p, "look")
    /\ Set(p, [mine[p] EXCEPT !.doc = d, !.todo = @ \ {d}])
    /\ UNCHANGED <<evidence, gateway, operator, begun>>

(* The second get, and without an await the source: bytes that are not the *)
(* approved ones raise, and the gateway is never called.                   *)

\* Mutant: the plan's look is trusted.
Look_Once(p) == LET d == mine[p].doc IN
    /\ phase[p] = "look"
    /\ To(p, IF source[d] = "approved" THEN "fetch" ELSE "record")
    /\ UNCHANGED <<evidence, gateway, operator, flight, mine, begun>>

Look(p) == LET d == mine[p].doc IN
    /\ phase[p] = "look"
    /\ IF mine[p].resume /\ Intact(row[mine[p].mode][d])
       THEN /\ To(p, "next") /\ Land(p)
            /\ Set(p, [mine[p] EXCEPT !.hits = @ \cup {d}, !.doc = NoDoc])
       ELSE /\ To(p, IF source[d] = "approved" THEN "fetch" ELSE "record")
            /\ UNCHANGED <<flight, mine>>
    /\ UNCHANGED <<evidence, gateway, operator, begun>>

\* Mutant: what the gateway returns is taken as it is.
Receive_Unchecked(p, raw) ==
    /\ To(p, IF raw = "none" THEN "record" ELSE "save")
    /\ Set(p, [mine[p] EXCEPT !.raw = raw])

Receive(p, raw) ==
    /\ To(p, IF raw = "good" THEN "save" ELSE "record")
    /\ Set(p, [mine[p] EXCEPT !.raw = raw])

(* gateway.parse and, without an await, _normalize. *)
FetchStored(p) == LET m == mine[p].mode  d == mine[p].doc IN
    /\ phase[p] = "fetch" /\ response[m][d] # "none"
    /\ Receive(p, response[m][d])
    /\ UNCHANGED <<evidence, gateway, operator, flight, begun>>

FetchPaid(p) == LET m == mine[p].mode  d == mine[p].doc IN
    /\ phase[p] = "fetch" /\ response[m][d] = "none"
    /\ settled' = settled + 1
    /\ \E raw \in Kinds : /\ response' = [response EXCEPT ![m][d] = raw]
                          /\ Receive(p, raw)
    /\ UNCHANGED <<evidence, operator, flight, begun>>

(* The gateway raises: refused, unreachable, cut off; or it has paid, for  *)
(* an answer nobody can read, or one it stored or failed to store.         *)
FetchRaises(p) == LET m == mine[p].mode  d == mine[p].doc IN
    /\ phase[p] = "fetch"
    /\ Receive(p, "none")
    /\ \/ UNCHANGED gateway
       \/ /\ response[m][d] = "none" /\ settled' = settled + 1
          /\ \E raw \in Kinds \cup {"none"} : response' = [response EXCEPT ![m][d] = raw]
    /\ UNCHANGED <<evidence, operator, flight, begun>>

Account(p, field) ==
    /\ To(p, "next") /\ Land(p)
    /\ Set(p, IF field = "new"
              THEN [mine[p] EXCEPT !.new = @ \cup {mine[p].doc}, !.doc = NoDoc, !.raw = "none"]
              ELSE [mine[p] EXCEPT !.failed = @ \cup {mine[p].doc}, !.doc = NoDoc,
                                   !.raw = "none"])

Save(p) ==
    /\ phase[p] = "save"
    /\ Put(mine[p].mode, mine[p].doc, "succeeded", mine[p].raw)
    /\ Account(p, "new")
    /\ UNCHANGED <<drifted, gateway, operator, begun>>

(* A put that raises lands in the same handler as a response that is not   *)
(* understood, whether or not its transaction was committed.               *)
SaveRaises(p) ==
    /\ phase[p] = "save" /\ faults < MaxFaults
    /\ faults' = faults + 1
    /\ To(p, "record")
    /\ \/ Put(mine[p].mode, mine[p].doc, "succeeded", mine[p].raw)
       \/ UNCHANGED row
    /\ UNCHANGED <<drifted, gateway, source, pending, reconciled, flight, mine,
                   begun>>

(* except Exception: an unconditional upsert of what is known, under the   *)
(* version the response names.                                             *)
RecordFailure(p) == LET m == mine[p].mode  d == mine[p].doc IN
    /\ phase[p] = "record"
    /\ CASE mine[p].raw = "none" -> Put(m, d, "failed", "none") /\ UNCHANGED drifted
         [] mine[p].raw = "drifted" -> drifted' = drifted \cup {<<m, d>>} /\ UNCHANGED row
         [] OTHER -> Put(m, d, "reconciliation_required", mine[p].raw) /\ UNCHANGED drifted
    /\ Account(p, "failed")
    /\ UNCHANGED <<gateway, operator, begun>>

(* The summary is returned. *)
Finish(p) ==
    /\ phase[p] = "next" /\ mine[p].todo = {}
    /\ To(p, "idle") /\ Set(p, Fresh)
    /\ UNCHANGED <<evidence, gateway, operator, flight, begun>>

(* A crash, a cancellation, or a database error no handler is left for: no *)
(* summary, and the flight is free again.                                  *)
Abort(p) ==
    /\ phase[p] # "idle"
    /\ To(p, "idle") /\ Set(p, Fresh)
    /\ IF phase[p] \in UnderFlight THEN Land(p) ELSE UNCHANGED flight
    /\ UNCHANGED <<evidence, gateway, operator, begun>>
-----------------------------------------------------------------------------
(* reconcile_paid_checkpoint: a get and a put with an await in between,    *)
(* outside the single flight.                                              *)

ReconcileRead(m, d) ==
    /\ pending = {}
    /\ row[m][d] = [status |-> "reconciliation_required", raw |-> "good"]
    /\ pending' = {<<m, d>>} /\ reconciled' = TRUE
    /\ UNCHANGED <<evidence, gateway, source, faults, flight, phase, mine, begun>>

ReconcileWrite(m, d) ==
    /\ <<m, d>> \in pending
    /\ pending' = {}
    /\ Put(m, d, "succeeded", "good")
    /\ UNCHANGED <<drifted, gateway, source, reconciled, faults, flight, phase,
                   mine, begun>>

(* The environment: a file is replaced or put back, a row goes bad.        *)
Replace(d) ==
    /\ faults < MaxFaults /\ faults' = faults + 1
    /\ source' = [source EXCEPT ![d] = IF @ = "approved" THEN "replaced" ELSE "approved"]
    /\ UNCHANGED <<evidence, gateway, pending, reconciled, flight, phase, mine,
                   begun>>

Corrupt(m, d) ==
    /\ faults < MaxFaults /\ faults' = faults + 1
    /\ row[m][d].raw \in {"good", "malformed"}
    /\ row' = [row EXCEPT ![m][d].raw = "corrupt"]
    /\ UNCHANGED <<drifted, gateway, source, pending, reconciled, flight, phase,
                   mine, begun>>

Step(p) ==
    \/ ReadParity(p) \/ ReadPlan(p) \/ Take(p) \/ Look(p)
    \/ FetchStored(p) \/ FetchPaid(p) \/ FetchRaises(p) \/ Save(p) \/ SaveRaises(p)
    \/ RecordFailure(p) \/ Finish(p)

Next ==
    \/ \E p \in Pipes : DryRun(p) \/ Execute(p) \/ Step(p) \/ Abort(p)
    \/ \E m \in Modes, d \in Docs : ReconcileRead(m, d) \/ ReconcileWrite(m, d) \/ Corrupt(m, d)
    \/ \E d \in Docs : Replace(d)

Spec == Init /\ [][Next]_vars

(* A started execution goes on: the event loop runs it, PostgreSQL's lock  *)
(* queue is first in, first out, and every request ends by its timeout.    *)
FairSpec == Spec /\ \A p \in Pipes : WF_vars(Step(p))
-----------------------------------------------------------------------------
(* Every variable holds values of its type. *)
ParseTypeOK ==
    /\ row \in [Modes -> [Docs -> Row]]
    /\ drifted \in SUBSET (Modes \X Docs)
    /\ response \in [Modes -> [Docs -> Kinds \cup {"none"}]]
    /\ settled \in Nat
    /\ source \in [Docs -> {"approved", "replaced"}]
    /\ flight \in [Modes -> [Docs -> Pipes \cup {NoPipe}]]
    /\ phase \in [Pipes -> Phases]
    /\ mine \in [Pipes -> Local]
    /\ pending \in SUBSET (Modes \X Docs)
    /\ overlap \in BOOLEAN /\ reconciled \in BOOLEAN
    /\ executions \in 0..MaxExecutions /\ faults \in 0..MaxFaults

(* Resuming never works on what is done: an execution that resumes asks    *)
(* the gateway for no document whose checkpoint is intact, whoever else    *)
(* finished it in the meantime (reconciliation, which takes no flight,     *)
(* aside).                                                                 *)
NeverReparsesIntact == ~reconciled => \A p \in Pipes :
    phase[p] \in {"fetch", "save"} /\ mine[p].resume
    => ~Intact(row[mine[p].mode][mine[p].doc])

(* Enhanced is paid for only after Standard succeeded for the whole        *)
(* snapshot, with other executions failing and overwriting meanwhile.      *)
EnhancedAfterStandard == \A d, e \in Docs :
    response["enhanced"][d] # "none" => response["standard"][e] = "good"

(* What the rows claim is what the provider said: an intact or recoverable *)
(* row, and a row under another version, holds the response the gateway    *)
(* stored, whatever failed between receiving and storing it.               *)
RowsHoldResponses == \A m \in Modes, d \in Docs :
    /\ row[m][d].raw \in {"good", "malformed"} => response[m][d] = row[m][d].raw
    /\ <<m, d>> \in drifted => response[m][d] = "drifted"
    /\ row[m][d].status = "succeeded" => response[m][d] = "good"

(* The summary adds up: each document is counted once, as cached, new or   *)
(* failed, and those that count as succeeded have a good response.         *)
SummaryAddsUp == \A p \in Pipes : phase[p] = "next" /\ mine[p].todo = {} =>
    /\ mine[p].hits \cup mine[p].new \cup mine[p].failed = Docs
    /\ mine[p].hits \cap (mine[p].new \cup mine[p].failed) = {}
    /\ mine[p].new \cap mine[p].failed = {}
    /\ \A d \in mine[p].hits \cup mine[p].new : response[mine[p].mode][d] = "good"

(* Executions that take turns stay below the budget, by the plan check     *)
(* alone and whatever the gateway charges for (the ledger's cap aside).    *)
TurnsBelowBudget == ~overlap => settled < Budget \/ settled = 0

(* A document's flight is held by who works on it. *)
FlightHeld == \A p \in Pipes : phase[p] \in UnderFlight =>
    flight[mine[p].mode][mine[p].doc] = p

(* parse_corpus returns. *)
ExecutionEnds == \A p \in Pipes : phase[p] # "idle" ~> phase[p] = "idle"

(* "Paid normalization/model/page failures now persist the untouched       *)
(* response ... instead of replacing already-billed evidence with          *)
(* nulls/zeros" (task 6 report): a row that awaits reconciliation keeps a  *)
(* response.  The handler's upsert is unconditional, so a later attempt    *)
(* that fails before it has a response replaces the evidence.              *)
EvidenceRetained ==
    [][\A m \in Modes, d \in Docs :
           row[m][d].status = "reconciliation_required" => row'[m][d].raw # "none"]_vars
==============================================================================
