--------------------------- MODULE CorpusCollection ---------------------------
(***************************************************************************)
(* How a corpus comes about: scripts/collect_corpus.py puts one approved   *)
(* PDF at a time into the raw directory, with a manifest fragment and a    *)
(* report in a private output directory; CorpusManifest.validate of        *)
(* ingestion/manifest.py is the gate a frozen manifest passes.             *)
(*                                                                         *)
(* Collectors serialize on a lock file in their output directory; those    *)
(* with different directories share the raw directory without one.  Files  *)
(* are staged under unpredictable names nobody else ever uses and linked   *)
(* to their names, which fails if the name is taken.  The temporaries are  *)
(* left out.  The path of a source is that of its content.                 *)
(***************************************************************************)
EXTENDS Naturals, FiniteSets
LOCAL INSTANCE FiniteSetsExt

CONSTANTS Collectors,
          Documents,       \* document ids: a PDF is linked as <id>.pdf
          Contents,        \* the bytes of a source
          PagesOf,         \* the page count the PDF reader finds in them
          Abouts,          \* what the operator says of a document
          Dirs, FileNames, \* output directories and names of files in them
          NamePairs,       \* the names given for a fragment and a report
          Targets,         \* CorpusTargets
          NoCollector, NoFile,
          MaxCollections,  \* bound: invocations of the collector
          MaxLater         \* bound: further ones once a manifest is frozen

\* What a fragment and a report are made of, for the files of outputs.
FragmentFiles == [kind : {"fragment"}, id : Documents, content : Contents, about : Abouts]
ReportFiles ==
    [kind : {"report"}, id : Documents, content : Contents,
     about : {[redistribution |-> a.redistribution] : a \in Abouts}]

ASSUME CorpusAssumption ==
    /\ NamePairs \subseteq FileNames \X FileNames
    /\ NoFile \notin Contents \cup FragmentFiles \cup ReportFiles

VARIABLES rawDir,   \* the raw directory
          outputs,  \* the output directories
          dirLock,  \* who holds the lock of an output directory
          job,      \* the arguments and the place of each collector
          frozen,   \* a frozen manifest that was found valid: its records
          returned, \* history: the records whose collection returned 0
          collections

corpus == <<rawDir, outputs, dirLock, job, frozen, returned, collections>>

NoJob == [at |-> "idle"]

CorpusInit ==
    /\ rawDir = [d \in Documents |-> NoFile]
    /\ outputs = [o \in Dirs |-> [n \in FileNames |-> NoFile]]
    /\ dirLock = [o \in Dirs |-> NoCollector]
    /\ job = [c \in Collectors |-> NoJob]
    /\ frozen = {} /\ returned = {} /\ collections = 0

\* The record, in the fragment; the report says less: nothing of the title or
\* the organization, so that two records can have the same report.
Record(j) == [id |-> j.id, content |-> j.content, about |-> j.about]
Fragment(j) == [kind |-> "fragment", id |-> j.id, content |-> j.content, about |-> j.about]
Report(j) == [kind |-> "report", id |-> j.id, content |-> j.content,
              about |-> [redistribution |-> j.about.redistribution]]

Advances(c, where) == job' = [job EXCEPT ![c].at = where]

\* Returning and raising both end the process, and its lock is free.
Leaves(c) ==
    /\ job' = [job EXCEPT ![c] = NoJob]
    /\ dirLock' = [o \in Dirs |-> IF dirLock[o] = c THEN NoCollector ELSE dirLock[o]]

\* The arguments are validated before the source is read.
BeginCollection(c) ==
    /\ job[c].at = "idle"
    /\ collections < MaxCollections + IF frozen = {} THEN 0 ELSE MaxLater
    /\ \E d \in Documents, a \in Abouts, o \in Dirs, names \in NamePairs, b \in Contents :
         job' = [job EXCEPT ![c] = [at |-> "lock", id |-> d, about |-> a, dir |-> o,
                                    fragment |-> names[1], report |-> names[2], content |-> b]]
    /\ collections' = collections + 1
    /\ UNCHANGED <<rawDir, outputs, dirLock, frozen, returned>>

CollectorLock(c) ==
    /\ job[c].at = "lock" /\ dirLock[job[c].dir] = NoCollector
    /\ dirLock' = [dirLock EXCEPT ![job[c].dir] = c]
    /\ Advances(c, "stage")
    /\ UNCHANGED <<rawDir, outputs, frozen, returned, collections>>

\* A source that is no PDF, or has no page, is refused.
Stage(c) ==
    /\ job[c].at = "stage"
    /\ IF PagesOf[job[c].content] > 0 THEN Advances(c, "fragment") /\ UNCHANGED dirLock
                                      ELSE Leaves(c)
    /\ UNCHANGED <<rawDir, outputs, frozen, returned, collections>>

\* Mutant: any file that is there already will do.
Accepts_Any(existing, staged) == TRUE

\* _publish_staged: the link, or a file with the same bytes.
Accepts(existing, staged) == existing \in {NoFile, staged}

Publishes(existing, staged) == IF existing = NoFile THEN staged ELSE existing

PublishFile(c, name, staged, next) ==
    LET existing == outputs[job[c].dir][name]
    IN IF Accepts(existing, staged)
       THEN /\ outputs' = [outputs EXCEPT ![job[c].dir][name] = Publishes(@, staged)]
            /\ Advances(c, next) /\ UNCHANGED dirLock
       ELSE Leaves(c) /\ UNCHANGED outputs

\* The metadata first; the PDF link is the commit marker.
PublishFragment(c) ==
    /\ job[c].at = "fragment"
    /\ PublishFile(c, job[c].fragment, Fragment(job[c]), "report")
    /\ UNCHANGED <<rawDir, frozen, returned, collections>>

PublishReport(c) ==
    /\ job[c].at = "report"
    /\ PublishFile(c, job[c].report, Report(job[c]), "pdf")
    /\ UNCHANGED <<rawDir, frozen, returned, collections>>

PublishPdf(c) ==
    LET existing == rawDir[job[c].id]  staged == job[c].content IN
    /\ job[c].at = "pdf"
    /\ IF Accepts(existing, staged)
       THEN /\ rawDir' = [rawDir EXCEPT ![job[c].id] = Publishes(@, staged)]
            /\ Advances(c, "return") /\ UNCHANGED dirLock
       ELSE Leaves(c) /\ UNCHANGED rawDir
    /\ UNCHANGED <<outputs, frozen, returned, collections>>

CollectionReturns(c) ==
    /\ job[c].at = "return"
    /\ returned' = returned \cup {Record(job[c])}
    /\ Leaves(c)
    /\ UNCHANGED <<rawDir, outputs, frozen, collections>>

\* The process dies, or a write or an fsync fails.
CollectionAborts(c) ==
    /\ job[c].at # "idle"
    /\ Leaves(c)
    /\ UNCHANGED <<rawDir, outputs, frozen, returned, collections>>

-----------------------------------------------------------------------------
(* The manifest: records, which an operator takes from the fragments. *)

\* Whatever is not a fragment cannot be loaded as one.
Published == {outputs[o][n] : o \in Dirs, n \in FileNames} \ {NoFile}
Fragments == {Record(f) : f \in {g \in Published : g.kind = "fragment"}}

\* _validate_local_pdf: the file is there, with the bytes of the record.
LocalPdfValid(record) == rawDir[record.id] = record.content

\* The largest group of documents that agree on something is at most this share
\* (in percent) of them all.
ShareAtMost(share, documents, Key(_)) ==
    \A r \in documents :
        100 * Cardinality({s \in documents : Key(s) = Key(r)}) <= share * Cardinality(documents)

\* _validate_freeze_provenance
ProvenanceComplete(record) ==
    record.about.sourced /\ record.about.redistribution # "unknown"

\* _validate_freeze_targets
MeetsTargets(documents) ==
    LET pages == MapThenSumSet(LAMBDA r : PagesOf[r.content], documents)
        sectors == {r.about.sector : r \in documents}
        strata == {r.about.stratum : r \in documents}
    IN /\ Cardinality(documents) \in Targets.documents /\ pages \in Targets.pages
       /\ ShareAtMost(Targets.organizationShare, documents, LAMBDA r : r.about.organization)
       /\ ShareAtMost(Targets.familyShare, documents, LAMBDA r : r.about.family)
       /\ {"corporate", "public"} \subseteq sectors
       /\ {"table_heavy", "text_heavy"} \subseteq strata

\* CorpusManifest.validate of a manifest whose status is frozen.
ManifestValid(documents) ==
    /\ \A r, s \in documents : r # s => r.id # s.id /\ r.content # s.content
    /\ \A r \in documents : LocalPdfValid(r) /\ ProvenanceComplete(r)
    /\ MeetsTargets(documents)

ValidateManifest ==
    /\ frozen = {}
    /\ \E documents \in SUBSET Fragments : ManifestValid(documents) /\ frozen' = documents
    /\ UNCHANGED <<rawDir, outputs, dirLock, job, returned, collections>>

Collect(c) ==
    \/ BeginCollection(c) \/ CollectorLock(c) \/ Stage(c)
    \/ PublishFragment(c) \/ PublishReport(c) \/ PublishPdf(c)
    \/ CollectionReturns(c) \/ CollectionAborts(c)

CorpusNext == ValidateManifest \/ \E c \in Collectors : Collect(c)

CorpusSpec == CorpusInit /\ [][CorpusNext]_corpus

-----------------------------------------------------------------------------
(* Properties *)

\* "The PDF link is the transaction commit marker" (collect_corpus.py): a raw
\* PDF, from whatever mixture of interrupted, repeated and simultaneous
\* collections, is described by a fragment and a report of one output directory;
\* what a collection returned for stays as it was collected; and a frozen
\* manifest that was valid once is valid for good, whatever is collected later.
CorpusStands ==
    /\ \A d \in Documents : rawDir[d] # NoFile =>
         \E o \in Dirs : \A kind \in {"fragment", "report"} : \E n \in FileNames :
            /\ outputs[o][n] # NoFile /\ outputs[o][n].kind = kind
            /\ outputs[o][n].id = d /\ outputs[o][n].content = rawDir[d]
    /\ \A r \in returned : LocalPdfValid(r) /\ r \in Fragments
    /\ frozen # {} => ManifestValid(frozen)
===============================================================================
