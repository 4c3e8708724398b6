---------------------------- MODULE AnalysisExport ----------------------------
(***************************************************************************)
(* export_analysis: exporters of one output directory. Everything is       *)
(* written to a staging directory, which is renamed when its manifest is   *)
(* in it; an advisory lock on the parent keeps exporters apart.            *)
(*                                                                         *)
(* A file is its name and the request it was made from; the walk to the    *)
(* parent and the identity checks against links are left out.              *)
(***************************************************************************)
EXTENDS Analysis

CONSTANTS
    Exporters, Requests,    \* the processes, and what they may be asked for
    SampleSize, MaxStarts   \* how many failures to sample; bound on attempts

\* The tables in the order they are written; the figures are drawn in it too.
Tables == <<"leaderboard", "parse_paired_difference", "chunk_heatmap", "retriever_by_type",
            "top_k_tradeoff", "prompt_abstention", "pareto_frontier", "latency_distribution",
            "failure_taxonomy", "failure_sample_plan", "cost_breakdown", "marginal_cost_quality",
            "reconciliation">>
Figures == SubSeq(Tables, 1, 9)

\* A table is a csv and a parquet file; they are written together here.
File(kind, name, r) == [kind |-> kind, name |-> name, request |-> r]
TablesOf(r) == {File("table", Tables[i], r) : i \in DOMAIN Tables}
FiguresOf(r) == {File("figure", Figures[i], r) : i \in DOMAIN Figures}
FilesOf(r) == TablesOf(r) \cup FiguresOf(r)
Manifest(files, r) == [files |-> files, experiments |-> Experiments(Merge(r))]

ASSUME ExportAssumption ==
    /\ None \notin Exporters /\ MaxStarts \in Nat
    /\ \A r \in Requests : [files |-> FilesOf(r), manifest |-> Manifest(FilesOf(r), r)] # None

VARIABLES
    pc, starts,             \* of an exporter: its place, and its attempts
    request,                \* what it was asked for
    staging,                \* its directory: None, or its files and manifest
    lock,                   \* .ragbench-analysis-export.lock: its holder
    output,                 \* the published directory
    answer                  \* the manifest an exporter returned

export == <<pc, starts, request, staging, lock, output, answer>>

ExportInit ==
    /\ pc = [p \in Exporters |-> "idle"] /\ starts = [p \in Exporters |-> 0]
    /\ request = [p \in Exporters |-> None] /\ staging = [p \in Exporters |-> None]
    /\ lock = None /\ output = None /\ answer = [p \in Exporters |-> None]

Goto(p, label) == pc' = [pc EXCEPT ![p] = label]

\* What is asked for: bundles that are valid, of one lineage (ExportRequest).
Ask(p) ==
    /\ pc[p] \in {"idle", "failed"} /\ starts[p] < MaxStarts
    /\ \E r \in Requests :
         /\ SameLineage(r) /\ \A b \in Range(r) : ValidBundle(b)
         /\ request' = [request EXCEPT ![p] = r]
    /\ starts' = [starts EXCEPT ![p] = @ + 1] /\ Goto(p, "asked")
    /\ UNCHANGED <<staging, lock, output, answer>>

\* _export_lock waits for whoever holds it.
Lock(p) ==
    /\ pc[p] = "asked" /\ lock = None
    /\ lock' = p /\ Goto(p, "locked")
    /\ UNCHANGED <<starts, request, staging, output, answer>>

\* _require_absent: an output is immutable.
Refuse(p) ==
    /\ pc[p] = "locked" /\ output # None
    /\ lock' = None /\ Goto(p, "failed")
    /\ UNCHANGED <<starts, request, staging, output, answer>>

Stage(p) ==
    /\ pc[p] = "locked" /\ output = None
    /\ staging' = [staging EXCEPT ![p] = [files |-> {}, manifest |-> None]]
    /\ Goto(p, "building")
    /\ UNCHANGED <<starts, request, lock, output, answer>>

\* An error on the way: a write, the merge of the bundles, or a check. What is
\* staged is removed (the finally clause).
Fail(p) ==
    /\ pc[p] \in {"building", "writing", "described"}
    /\ staging' = [staging EXCEPT ![p] = None] /\ lock' = None /\ Goto(p, "failed")
    /\ UNCHANGED <<starts, request, output, answer>>

\* _build_tables, of a merged bundle that is valid, with enough failures for
\* the sample and a result to average.
Build(p) ==
    /\ pc[p] = "building"
    /\ ValidBundle(Merge(request[p]))
    /\ Len(Merge(request[p]).failures) >= SampleSize
    /\ Goto(p, "writing")
    /\ UNCHANGED <<starts, request, staging, lock, output, answer>>

\* The next of the files, created exclusively and synced.
WriteNext(p, kind, names) ==
    /\ pc[p] = "writing"
    /\ \E i \in DOMAIN names :
         LET file(k) == File(kind, names[k], request[p]) IN
         /\ file(i) \notin staging[p].files /\ \A k \in 1..(i - 1) : file(k) \in staging[p].files
         /\ names[i] = "cost_breakdown" => Merge(request[p]).usage # <<>>
         /\ staging' = [staging EXCEPT ![p].files = @ \cup {file(i)}]
    /\ UNCHANGED <<pc, starts, request, lock, output, answer>>

\* _write_csv_at refuses a table without rows: the costs of no usage.
WriteTable(p) == WriteNext(p, "table", Tables)

WriteFigure(p) ==
    /\ pc[p] = "writing" /\ TablesOf(request[p]) \subseteq staging[p].files
    /\ WriteNext(p, "figure", Figures)

\* Mutant: the manifest is written once the tables are.
Describe_Early(p) ==
    /\ pc[p] = "writing" /\ TablesOf(request[p]) \subseteq staging[p].files
    /\ staging' = [staging EXCEPT ![p].manifest = Manifest(staging[p].files, request[p])]
    /\ Goto(p, "described")
    /\ UNCHANGED <<starts, request, lock, output, answer>>

\* The files that are there are hashed, and the manifest is written last.
Describe(p) ==
    /\ pc[p] = "writing" /\ staging[p].files = FilesOf(request[p])
    /\ staging' = [staging EXCEPT ![p].manifest = Manifest(staging[p].files, request[p])]
    /\ Goto(p, "described")
    /\ UNCHANGED <<starts, request, lock, output, answer>>

\* The rename; the output must still be absent.
Publish(p) ==
    /\ pc[p] = "described" /\ output = None
    /\ output' = staging[p] /\ staging' = [staging EXCEPT ![p] = None]
    /\ Goto(p, "published")
    /\ UNCHANGED <<starts, request, lock, answer>>

Return(p) ==
    /\ pc[p] = "published"
    /\ answer' = [answer EXCEPT ![p] = output.manifest]
    /\ lock' = None /\ Goto(p, "returned")
    /\ UNCHANGED <<starts, request, staging, output>>

\* The sync of the parent fails: an error, and yet an output.
SyncFails(p) ==
    /\ pc[p] = "published"
    /\ lock' = None /\ Goto(p, "failed")
    /\ UNCHANGED <<starts, request, staging, output, answer>>

\* A process dies. The kernel frees its lock; its staging directory stays, under
\* a name nobody looks at again.
ExporterCrash(p) ==
    /\ pc[p] \notin {"idle", "failed", "returned"}
    /\ lock' = IF lock = p THEN None ELSE lock
    /\ staging' = [staging EXCEPT ![p] = None]
    /\ Goto(p, "idle")
    /\ UNCHANGED <<starts, request, output, answer>>

ExportNext == \E p \in Exporters :
    \/ Ask(p) \/ Lock(p) \/ Refuse(p) \/ Stage(p) \/ Fail(p) \/ Build(p) \/ WriteTable(p)
    \/ WriteFigure(p) \/ Describe(p) \/ Publish(p) \/ Return(p) \/ SyncFails(p) \/ ExporterCrash(p)

ExportSpec == ExportInit /\ [][ExportNext]_export

\* What is published is one request's, whole, and its manifest lists what is
\* there; whoever was given a manifest was given the published one, and a
\* staging directory belongs to the exporter that holds the lock
\* (export_analysis publishes its manifest last).
PublishedWhole ==
    /\ output # None => \E r \in Requests :
         output.files = FilesOf(r) /\ output.manifest = Manifest(FilesOf(r), r)
    /\ \A p \in Exporters : answer[p] # None => output # None /\ answer[p] = output.manifest
    /\ \A p \in Exporters : staging[p] # None => lock = p
================================================================================
