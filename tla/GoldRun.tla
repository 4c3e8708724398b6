------------------------------- MODULE GoldRun -------------------------------
(***************************************************************************)
(* The sealed-gold evaluation: seal_gold and load_sealed_gold of           *)
(* benchmark/splits.py, GoldResultRepository, GoldRunner, the invalidation *)
(* and aggregation of evaluation/gold.py, as scripts/run_gold_test.py      *)
(* wires them, over one protected output directory.                        *)
(*                                                                         *)
(* Processes share nothing but files.  Every file is written to a          *)
(* temporary name and linked, so that it appears whole or the link fails   *)
(* because its name is taken.  A process checks first and links later, and *)
(* anything may happen in between.                                         *)
(*                                                                         *)
(* A slot is one (configuration, item) pair, numbered in the order the     *)
(* runner visits them.  A preregistration is known by its hash and fixes   *)
(* the cohort; a cohort stands for the content of the sealed file.         *)
(***************************************************************************)
EXTENDS Naturals, Sequences

CONSTANTS Processes,
          Preregs, CohortOf,  \* preregistrations and the cohorts they bind
          LastSlot,           \* configurations times items
          Scores,             \* what an execution of one item may score
          Reports,            \* paths given as --public-report
          None,
          MaxStarts,          \* bound: invocations of the script
          MaxInvalidations    \* bound: invalidations operators number

Slots == 1..LastSlot
Cohorts == {CohortOf[e] : e \in Preregs}

\* A result names the preregistration it was executed for.
Result == [prereg : Preregs, score : Scores]
Report == [prereg : Preregs, scores : [Slots -> Scores]]

ASSUME GoldAssumption ==
    /\ LastSlot \in Nat
    /\ MaxStarts \in Nat /\ MaxInvalidations \in Nat
    /\ None \notin Preregs /\ None \notin Cohorts
    /\ None \notin Scores /\ None \notin Reports
    /\ None \notin Result /\ None \notin Report

VARIABLES sealed,        \* the cohort in the sealed file
          registered,    \* the preregistrations on disk
          manifest,      \* manifest.json: the preregistration it names
          results,       \* results/: one file a slot
          invalidations, \* invalidations/0001.json, 0002.json, ...
          reports,       \* the public reports
          run,           \* the local variables of each process
          executed,      \* history: how often each slot was executed
          overlapped,    \* history: two invocations were active at once
          interrupted,   \* history: an invocation ended inside an execution
          starts

disk == <<sealed, registered, manifest, results, invalidations, reports>>
history == <<executed, overlapped, interrupted, starts>>
vars == <<disk, run, history>>

Idle == [pc |-> "idle"]

\* An invocation: its arguments, the slot it has come to, the score it
\* holds and the scores it has collected.
Invocation ==
    [pc : {"initialize", "create", "look", "execute", "save", "check",
           "collect", "publish"},
     prereg : Preregs, resume : BOOLEAN, report : Reports \cup {None},
     slot : 1..(LastSlot + 1), score : Scores \cup {None},
     scores : [Slots -> Scores] \cup {None}]
Invalidator == [pc : {"invalidate"}, sequence : Nat]

Active(p) == run[p].pc \notin {"idle", "invalidate"}
At(p, pc) == run[p].pc = pc
Goto(p, pc) == run' = [run EXCEPT ![p].pc = pc]

\* An exception ends the process; so does a return.
End(p) == run' = [run EXCEPT ![p] = Idle]

Init ==
    /\ sealed = None /\ registered = {} /\ manifest = None
    /\ results = [s \in Slots |-> None]
    /\ invalidations = <<>>
    /\ reports = [r \in Reports |-> None]
    /\ run = [p \in Processes |-> Idle]
    /\ executed = [s \in Slots |-> 0]
    /\ overlapped = FALSE /\ interrupted = FALSE /\ starts = 0

\* A file is written under a temporary name and linked: the link fails when
\* the name is taken.
Link(file, content) == IF file = None THEN content ELSE file

\* seal_gold: the count and the identities are checked, the file is linked.
Seal(c) ==
    /\ sealed = None
    /\ sealed' = c
    /\ UNCHANGED <<registered, manifest, results, invalidations, reports, run, history>>

\* write_preregistration, which looks at no other file.
Register(e) ==
    /\ e \notin registered
    /\ registered' = registered \cup {e}
    /\ UNCHANGED <<sealed, manifest, results, invalidations, reports, run, history>>

\* The metadata given must be that of the cohort the preregistration binds ...
VerifyFrozenInputs(e, metadata) == metadata = CohortOf[e]

\* ... and the sealed file must hash to what the metadata says.
LoadSealedGold(metadata) == sealed = metadata

\* The invocation; one that is refused here has done nothing.
Start(p) ==
    /\ At(p, "idle") /\ starts < MaxStarts
    /\ \E e \in registered, metadata \in Cohorts,
          resume \in BOOLEAN, r \in Reports \cup {None} :
        /\ VerifyFrozenInputs(e, metadata) /\ LoadSealedGold(metadata)
        /\ run' = [run EXCEPT ![p] =
             [pc |-> "initialize", prereg |-> e, resume |-> resume, report |-> r,
              slot |-> 1, score |-> None, scores |-> None]]
    /\ starts' = starts + 1
    /\ overlapped' = (overlapped \/ \E q \in Processes : Active(q))
    /\ UNCHANGED <<disk, executed, interrupted>>

\* GoldResultRepository.initialize looks for a manifest ...
Initialize(p) ==
    /\ At(p, "initialize")
    /\ IF manifest = None THEN Goto(p, "create")
       ELSE IF manifest = run[p].prereg THEN Goto(p, "look")
       ELSE End(p)
    /\ UNCHANGED <<disk, history>>

\* ... and links its own if there was none.
CreateManifest(p) ==
    /\ At(p, "create")
    /\ manifest' = Link(manifest, run[p].prereg)
    /\ IF manifest = None THEN Goto(p, "look") ELSE End(p)
    /\ UNCHANGED <<sealed, registered, results, invalidations, reports, history>>

\* Mutant: a resumed invocation executes everything again.
Look_Forgetful(p) ==
    /\ At(p, "look")
    /\ LET s == run[p].slot IN
       IF s > LastSlot
       THEN IF run[p].report = None THEN End(p) ELSE Goto(p, "check")
       ELSE Goto(p, "execute")
    /\ UNCHANGED <<disk, history>>

\* GoldResultRepository.load.  After the last slot run() returns, and the
\* script aggregates if it was given a path to publish at.
Look(p) ==
    /\ At(p, "look")
    /\ LET s == run[p].slot IN
       IF s > LastSlot
       THEN IF run[p].report = None THEN End(p) ELSE Goto(p, "check")
       ELSE IF results[s] = None THEN Goto(p, "execute")
       ELSE IF run[p].resume THEN run' = [run EXCEPT ![p].slot = s + 1]
       ELSE End(p)
    /\ UNCHANGED <<disk, history>>

\* The preregistered executor answers for the item it was asked about ...
Execute(p) ==
    /\ At(p, "execute")
    /\ \E v \in Scores : run' = [run EXCEPT ![p].pc = "save", ![p].score = v]
    /\ executed' = [executed EXCEPT ![run[p].slot] = @ + 1]
    /\ UNCHANGED <<disk, overlapped, interrupted, starts>>

\* ... or raises, or answers for another item or stratum, which raises.
ExecuteFails(p) ==
    /\ At(p, "execute")
    /\ End(p)
    /\ executed' = [executed EXCEPT ![run[p].slot] = @ + 1]
    /\ interrupted' = TRUE
    /\ UNCHANGED <<disk, overlapped, starts>>

\* Mutant: the checkpoint replaces what is there.
Save_Replacing(p) ==
    /\ At(p, "save")
    /\ LET s == run[p].slot IN
       /\ results' = [results EXCEPT ![s] = [prereg |-> run[p].prereg, score |-> run[p].score]]
       /\ run' = [run EXCEPT ![p].pc = "look", ![p].slot = s + 1, ![p].score = None]
    /\ UNCHANGED <<sealed, registered, manifest, invalidations, reports, history>>

\* GoldResultRepository.save: the link fails when the slot is taken, and
\* what was executed for it is lost.
Save(p) ==
    /\ At(p, "save")
    /\ LET s == run[p].slot IN
       /\ results' = [results EXCEPT ![s] =
                        Link(@, [prereg |-> run[p].prereg, score |-> run[p].score])]
       /\ IF results[s] = None
          THEN run' = [run EXCEPT ![p].pc = "look", ![p].slot = s + 1, ![p].score = None]
          ELSE End(p)
    /\ UNCHANGED <<sealed, registered, manifest, invalidations, reports, history>>

\* Mutant: an invalidated run is aggregated like any other.
CheckInvalidations_Skipped(p) ==
    /\ At(p, "check")
    /\ Goto(p, "collect")
    /\ UNCHANGED <<disk, history>>

Bound(p) == manifest = run[p].prereg

\* aggregate_gold_results: the binding and the invalidations ...
CheckInvalidations(p) ==
    /\ At(p, "check")
    /\ IF Bound(p) /\ invalidations = <<>>
       THEN Goto(p, "collect") ELSE End(p)
    /\ UNCHANGED <<disk, history>>

AllResults == [s \in {t \in Slots : results[t] # None} |-> results[s].score]

\* ... and then the results, all of which must be there.
Collect(p) ==
    /\ At(p, "collect")
    /\ IF DOMAIN AllResults = Slots
       THEN run' = [run EXCEPT ![p].pc = "publish", ![p].scores = AllResults]
       ELSE End(p)
    /\ UNCHANGED <<disk, history>>

\* write_public_gold_report, which does not look at the directory again.
Publish(p) ==
    /\ At(p, "publish")
    /\ reports' = [reports EXCEPT ![run[p].report] =
                     Link(@, [prereg |-> run[p].prereg, scores |-> run[p].scores])]
    /\ End(p)
    /\ UNCHANGED <<sealed, registered, manifest, results, invalidations, history>>

\* append_invalidation: an operator numbers the record ...
NumberInvalidation(p) ==
    /\ At(p, "idle")
    /\ manifest # None /\ Len(invalidations) < MaxInvalidations
    /\ run' = [run EXCEPT ![p] =
         [pc |-> "invalidate", sequence |-> Len(invalidations) + 1]]
    /\ UNCHANGED <<disk, history>>

\* Mutant: the number is counted again when the record is written.
WriteInvalidation_Overwriting(p) ==
    /\ At(p, "invalidate")
    /\ invalidations' = IF run[p].sequence <= Len(invalidations)
                        THEN [invalidations EXCEPT ![run[p].sequence] = None]
                        ELSE Append(invalidations, manifest)
    /\ End(p)
    /\ UNCHANGED <<sealed, registered, manifest, results, reports, history>>

\* ... and writes it if no other record has taken the number.
WriteInvalidation(p) ==
    /\ At(p, "invalidate")
    /\ invalidations' = IF run[p].sequence = Len(invalidations) + 1
                        THEN Append(invalidations, manifest) ELSE invalidations
    /\ End(p)
    /\ UNCHANGED <<sealed, registered, manifest, results, reports, history>>

\* The process dies; what it linked stays.
Crash(p) ==
    /\ ~At(p, "idle")
    /\ End(p)
    /\ interrupted' = (interrupted \/ At(p, "save") \/ At(p, "execute"))
    /\ UNCHANGED <<disk, executed, overlapped, starts>>

Step(p) ==
    \/ Start(p) \/ Initialize(p) \/ CreateManifest(p)
    \/ Look(p) \/ Execute(p) \/ ExecuteFails(p) \/ Save(p)
    \/ CheckInvalidations(p) \/ Collect(p) \/ Publish(p)
    \/ NumberInvalidation(p) \/ WriteInvalidation(p)
    \/ Crash(p)

Next ==
    \/ \E c \in Cohorts : Seal(c)
    \/ \E e \in Preregs : Register(e)
    \/ \E p \in Processes : Step(p)

Spec == Init /\ [][Next]_vars

-----------------------------------------------------------------------------
(* Properties *)

GoldTypeOK ==
    /\ sealed \in Cohorts \cup {None}
    /\ registered \subseteq Preregs
    /\ manifest \in Preregs \cup {None}
    /\ results \in [Slots -> Result \cup {None}]
    /\ invalidations \in Seq(Preregs)
    /\ reports \in [Reports -> Report \cup {None}]
    /\ run \in [Processes -> Invocation \cup Invalidator \cup {Idle}]
    /\ executed \in [Slots -> Nat]
    /\ overlapped \in BOOLEAN /\ interrupted \in BOOLEAN /\ starts \in Nat

\* A public report stays true: whatever is started, resumed, killed or
\* invalidated before and after it, every score in it is the stored result of
\* its slot, executed under the report's own preregistration and on the cohort
\* that binds, and no slot is missing.  In particular two reports of one
\* directory agree (GoldResultRepository.save, all_results,
\* aggregate_gold_results, write_public_gold_report).
ReportsStayTrue ==
    \A r \in Reports : reports[r] # None =>
        /\ sealed = CohortOf[reports[r].prereg]
        /\ \A s \in Slots :
             results[s] = [prereg |-> reports[r].prereg, score |-> reports[r].scores[s]]

\* An item is executed a second time only if two invocations overlapped or one
\* ended between asking the executor and saving (GoldRunner.run).
ExecutedOnce ==
    (~overlapped /\ ~interrupted) => \A s \in Slots : executed[s] <= 1

Aggregating(p) == run[p].pc \in {"collect", "publish"}

\* Once a run is invalidated and nobody is past the check any more, nobody gets
\* past it again and no report of the directory is published, whoever resumes
\* the run (aggregate_gold_results).  Someone past the check still publishes.
InvalidationIsFinal ==
    [][invalidations # <<>> /\ (\A p \in Processes : ~Aggregating(p))
         => /\ invalidations' # <<>>
            /\ \A p \in Processes : ~Aggregating(p)'
            /\ reports' = reports]_vars

\* Every file of the evaluation is published once and never changed.
FileNames == {<<"sealed", 0>>, <<"manifest", 0>>}
             \cup {<<"result", s>> : s \in Slots}
             \cup {<<"invalidation", n>> : n \in 1..MaxInvalidations}
             \cup {<<"report", r>> : r \in Reports}

FileContents == Cohorts \cup Preregs \cup Result \cup Report

Published(n) ==
    CASE n[1] = "sealed" -> sealed
      [] n[1] = "manifest" -> manifest
      [] n[1] = "result" -> results[n[2]]
      [] n[1] = "invalidation" ->
           IF n[2] <= Len(invalidations) THEN invalidations[n[2]] ELSE None
      [] OTHER -> reports[n[2]]

Files == INSTANCE WriteOnceFiles
    WITH Names <- FileNames, Contents <- FileContents,
         content <- [n \in FileNames |-> Published(n)]

\* The directory, the sealed file and the reports implement write-once files.
ImplementsFiles == Files!Spec
=============================================================================
