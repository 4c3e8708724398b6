------------------------------ MODULE Screening ------------------------------
(***************************************************************************)
(* One retrieval screening run: FileScreeningStore and                     *)
(* RetrievalScreenRunner.run, experiments/screening.py, in any number of   *)
(* processes over one checkpoint file.                                     *)
(*                                                                         *)
(* Every operation of the store reads the file, changes the record and     *)
(* replaces the file as a whole.  Nothing is awaited on the way, so within *)
(* a process an operation is indivisible; between processes it is not:     *)
(* here it is two actions, the first of which opens the temporary file.    *)
(* The name of that file is the process's id, and it is opened to be       *)
(* created: one that was left behind refuses every operation of the next   *)
(* process of that id.                                                     *)
(*                                                                         *)
(* A ranking stands for what is kept of one search: hits and latency.  An  *)
(* invocation that _validate_inputs refuses does nothing.                  *)
(***************************************************************************)
EXTENDS Naturals

CONSTANTS Processes,   \* process ids
          LastQuestion, \* the number of questions
          Rankings,    \* what a search may find
          None,
          MaxStarts    \* bound: invocations of run()

Questions == 1..LastQuestion

Evaluation == [Questions -> Rankings]

\* ScreeningRunRecord: the completed questions are those with a ranking.
Record == [status : {"running", "interrupted", "complete"},
           ranking : [Questions -> Rankings \cup {None}]]

ASSUME ScreeningAssumption ==
    /\ LastQuestion \in Nat /\ MaxStarts \in Nat
    /\ None \notin Questions /\ None \notin Rankings
    /\ None \notin Record /\ None \notin Evaluation

VARIABLES checkpoint,   \* the file: its record, or None
          leftovers,    \* process ids whose temporary file lies about
          run,          \* the local variables of each process
          searched,     \* history: how often each question was searched
          lost,         \* history: how many of these were not persisted
          evaluations,  \* history: what invocations returned
          overlapped,   \* history: two invocations were active at once
          broken,       \* history: a process died or could not write
          starts

vars == <<checkpoint, leftovers, run, searched, lost, evaluations, overlapped,
          broken, starts>>

Fresh == [status |-> "running", ranking |-> [q \in Questions |-> None]]
Completed(record) == {q \in Questions : record.ranking[q] # None}

\* Where a process is, the operation it is in, the questions begin() told it
\* are complete, the question and the ranking it is about, the record it is
\* writing and the rankings it evaluated.
Invocation ==
    [pc : {"open", "replace", "search", "get"},
     operation : {"begin", "persist", "mark", "finish"},
     known : SUBSET Questions, question : Questions \cup {None},
     ranking : Rankings \cup {None}, record : Record \cup {None},
     evaluated : Evaluation \cup {None}]

Idle == [pc |-> "idle"]

At(p, pc) == run[p].pc = pc
In(p, pc, operation) == At(p, pc) /\ run[p].operation = operation
Active(p) == ~At(p, "idle")
End(p) == run' = [run EXCEPT ![p] = Idle]

Init ==
    /\ checkpoint = None /\ leftovers = {}
    /\ run = [p \in Processes |-> Idle]
    /\ searched = [q \in Questions |-> 0] /\ lost = [q \in Questions |-> 0]
    /\ evaluations = {} /\ overlapped = FALSE /\ broken = FALSE /\ starts = 0

Start(p) ==
    /\ At(p, "idle") /\ starts < MaxStarts
    /\ run' = [run EXCEPT ![p] =
         [pc |-> "open", operation |-> "begin", known |-> {}, question |-> None,
          ranking |-> None, record |-> None, evaluated |-> None]]
    /\ starts' = starts + 1
    /\ overlapped' = (overlapped \/ \E q \in Processes : Active(q))
    /\ UNCHANGED <<checkpoint, leftovers, searched, lost, evaluations, broken>>

\* Mutants: what an interrupted run has is not read; nothing is.
Begun_Afresh(record) ==
    IF record = None \/ record.status = "interrupted" THEN Fresh ELSE record
Begun_Reset(record) == Fresh

\* begin(): a run that is complete stays so.
Begun(record) ==
    IF record = None THEN Fresh
    ELSE IF record.status = "complete" THEN record
    ELSE [record EXCEPT !.status = "running"]

\* persist_question(): the first one to persist a question has it.
Persisted(record, q, ranking) ==
    [record EXCEPT !.ranking[q] = IF @ = None THEN ranking ELSE @]

Changed(p) ==
    CASE run[p].operation = "begin" -> Begun(checkpoint)
      [] run[p].operation = "persist" ->
           Persisted(checkpoint, run[p].question, run[p].ranking)
      [] run[p].operation = "mark" -> [checkpoint EXCEPT !.status = "interrupted"]
      [] run[p].operation = "finish" -> [checkpoint EXCEPT !.status = "complete"]

\* get() or _load, the operation's change, and _flush as far as the open.
Open(p) ==
    /\ At(p, "open") /\ p \notin leftovers
    /\ run' = [run EXCEPT ![p].pc = "replace", ![p].record = Changed(p)]
    /\ UNCHANGED <<checkpoint, leftovers, searched, lost, evaluations, overlapped,
                   broken, starts>>

\* Mutant: what was raised in the loop is not marked.
Raise_Unmarked(p) ==
    /\ lost' = IF run[p].ranking # None
               THEN [lost EXCEPT ![run[p].question] = @ + 1] ELSE lost
    /\ run' = [run EXCEPT ![p] = Idle]

\* An exception in the loop over the questions marks the run; one anywhere
\* else, the marking included, ends the process.
Raise(p) ==
    /\ lost' = IF run[p].ranking # None
               THEN [lost EXCEPT ![run[p].question] = @ + 1] ELSE lost
    /\ run' = [run EXCEPT ![p] =
         IF At(p, "search") \/ run[p].operation = "persist"
         THEN [@ EXCEPT !.pc = "open", !.operation = "mark", !.ranking = None,
                        !.record = None]
         ELSE Idle]

\* The temporary file of an earlier process of this id is still there.
Refuse(p) ==
    /\ At(p, "open") /\ p \in leftovers
    /\ Raise(p)
    /\ UNCHANGED <<checkpoint, leftovers, searched, evaluations, overlapped,
                   broken, starts>>

\* The disk is full: the temporary file stays.
WriteFails(p) ==
    /\ At(p, "replace")
    /\ Raise(p)
    /\ leftovers' = leftovers \cup {p}
    /\ broken' = TRUE
    /\ UNCHANGED <<checkpoint, searched, evaluations, overlapped, starts>>

\* The loop goes on with the first question from q on that begin() did not
\* tell was complete.
From(local, q) ==
    LET rest == {x \in Questions : x >= q /\ x \notin local.known}
    IN IF rest = {} THEN [local EXCEPT !.pc = "get", !.ranking = None, !.record = None]
       ELSE [local EXCEPT !.pc = "search", !.ranking = None, !.record = None,
                          !.question = CHOOSE x \in rest : \A y \in rest : x <= y]

\* os.replace, and where the runner goes on.
Replace(p) ==
    /\ At(p, "replace")
    /\ checkpoint' = run[p].record
    /\ run' = [run EXCEPT ![p] =
         CASE @.operation = "begin" -> From([@ EXCEPT !.known = Completed(run[p].record)], 1)
           [] @.operation = "persist" -> From(@, @.question + 1)
           [] OTHER -> Idle]
    /\ evaluations' = IF run[p].operation = "finish"
                      THEN evaluations \cup {run[p].evaluated} ELSE evaluations
    /\ UNCHANGED <<leftovers, searched, lost, overlapped, broken, starts>>

\* The retriever finds something that _persistable_hits accepts ...
Search(p) ==
    /\ At(p, "search")
    /\ \E ranking \in Rankings :
         run' = [run EXCEPT ![p].pc = "open", ![p].operation = "persist",
                            ![p].ranking = ranking]
    /\ searched' = [searched EXCEPT ![run[p].question] = @ + 1]
    /\ UNCHANGED <<checkpoint, leftovers, lost, evaluations, overlapped, broken, starts>>

\* ... or it raises, is cancelled, or what it found is refused.
SearchFails(p) ==
    /\ At(p, "search")
    /\ Raise(p)
    /\ UNCHANGED <<checkpoint, leftovers, searched, evaluations, overlapped, broken, starts>>

\* After the loop the record is read again and evaluated; a question without a
\* latency raises.
Evaluate(p) ==
    /\ At(p, "get")
    /\ run' = [run EXCEPT ![p] =
         IF Completed(checkpoint) = Questions
         THEN [@ EXCEPT !.pc = "open", !.operation = "finish",
                        !.evaluated = checkpoint.ranking]
         ELSE Idle]
    /\ UNCHANGED <<checkpoint, leftovers, searched, lost, evaluations, overlapped,
                   broken, starts>>

\* The process dies; a temporary file it has open stays.
Crash(p) ==
    /\ Active(p)
    /\ End(p)
    /\ leftovers' = IF At(p, "replace") THEN leftovers \cup {p} ELSE leftovers
    /\ lost' = IF run[p].ranking # None
               THEN [lost EXCEPT ![run[p].question] = @ + 1] ELSE lost
    /\ broken' = TRUE
    /\ UNCHANGED <<checkpoint, searched, evaluations, overlapped, starts>>

Step(p) ==
    \/ Start(p) \/ Open(p) \/ Refuse(p) \/ WriteFails(p) \/ Replace(p)
    \/ Search(p) \/ SearchFails(p) \/ Evaluate(p)
    \/ Crash(p)

Next == \E p \in Processes : Step(p)

Spec == Init /\ [][Next]_vars

-----------------------------------------------------------------------------
(* Properties *)

ScreeningTypeOK ==
    /\ checkpoint \in Record \cup {None}
    /\ leftovers \subseteq Processes
    /\ run \in [Processes -> Invocation \cup {Idle}]
    /\ searched \in [Questions -> Nat] /\ lost \in [Questions -> Nat]
    /\ evaluations \subseteq Evaluation
    /\ overlapped \in BOOLEAN /\ broken \in BOOLEAN /\ starts \in Nat

Kept(q) == IF checkpoint = None THEN None ELSE checkpoint.ranking[q]

\* Unless two invocations overlapped, every search is in the checkpoint, on its
\* way there, or was lost with the process that made it: a resumed run never
\* searches again what it has, whatever failed, died or was refused before
\* (persist_question, RetrievalScreenRunner.run).
SearchedOnce ==
    ~overlapped => \A q \in Questions :
        searched[q] = lost[q] + (IF Kept(q) # None THEN 1 ELSE 0)
                      + (IF \E p \in Processes : Active(p) /\ run[p].ranking # None
                                                  /\ run[p].question = q
                         THEN 1 ELSE 0)

\* Unless two invocations overlapped, a complete run has every question, and
\* all invocations that ever return, before and after crashes and resumes,
\* return the same evaluation, the one of the checkpoint.
EvaluationsAgree ==
    ~overlapped =>
        /\ checkpoint # None /\ checkpoint.status = "complete"
             => Completed(checkpoint) = Questions
        /\ \A e \in evaluations : checkpoint.ranking = e

\* A run that nobody works on is marked interrupted or complete, unless a
\* process died, could not write, or overlapped with another (mark_interrupted).
StrandedOnlyByFault ==
    (~overlapped /\ ~broken /\ \A p \in Processes : ~Active(p))
        => checkpoint = None \/ checkpoint.status # "running"
==============================================================================
