-------------------------- MODULE EmbeddingSnapshot --------------------------
(***************************************************************************)
(* EmbeddingService.embed_chunks over SqlAlchemyEmbeddingRepository, as    *)
(* scripts/build_embeddings.py wires them: operators build one snapshot    *)
(* from one chunk dataset, in processes that share the database, each with *)
(* the batch limits of its command line; DenseRetriever searches it.       *)
(*                                                                         *)
(* The chunks are numbered in the order of the dataset; their contents are *)
(* distinct, so that a request's cache key is its set of chunks.  A vector *)
(* is known by the response it came in.  The gateway is what               *)
(* ProviderGateway promises: a stored response is returned for nothing.    *)
(*                                                                         *)
(* Every transaction of the repository holds the advisory lock of the      *)
(* snapshot from its first read to its commit: one action.  An exception   *)
(* ends the process like a crash does, with or without the commit, which   *)
(* is Abort before or after the action.                                    *)
(***************************************************************************)
EXTENDS Integers, Sequences, FiniteSetsExt

CONSTANTS Builders,
          Tokens,         \* the token count of each chunk
          Limits,         \* choices of --max-batch-items and --max-batch-tokens
          Versions,       \* what the provider may answer
          None, Rejected, \* no vector; an answer _validate_response refuses
          MaxExecutions,  \* bound: executions started
          MaxTouches      \* bound: times the dataset file is written again

Chunks == 1..Len(Tokens)

ASSUME EmbeddingAssumption ==
    /\ Tokens \in Seq(Nat \ {0}) /\ Tokens # <<>>
    /\ Limits \subseteq [items : Nat \ {0}, tokens : Nat \ {0}]
    /\ None \notin Versions /\ Rejected \notin Versions
    /\ MaxExecutions \in Nat /\ MaxTouches \in Nat

VARIABLES row,        \* embedding_snapshot: its state and its created_at
          vectors,    \* chunk_embedding
          answers,    \* the gateway's stored responses to document requests
          mtime,      \* the modification time of the dataset file
          phase,      \* the await a builder is at
          mine,       \* the local variables of its embed_chunks
          used,       \* history: limits builders were started with
          overlap,    \* history: two executions were active at once
          errors,     \* history: what the repository refused
          seen,       \* history: the tables searches have read
          executions

vars == <<row, vectors, answers, mtime, phase, mine, used, overlap, errors, seen,
          executions>>

begun == <<used, overlap, executions>>

Row == [status : {"absent", "incomplete", "complete"}, created_at : Nat]
Answers == [batch : SUBSET Chunks, version : Versions \cup {Rejected}]
Idle == [limit |-> None]
Local == [limit : Limits, created_at : Nat, missing : SUBSET Chunks,
          batch : SUBSET Chunks, version : Versions \cup {None}]
Phases == {"idle", "create", "look", "embed", "persist", "finalize"}

Init ==
    /\ row = [status |-> "absent", created_at |-> 0]
    /\ vectors = [c \in Chunks |-> None]
    /\ answers = {}
    /\ mtime = 0
    /\ phase = [b \in Builders |-> "idle"]
    /\ mine = [b \in Builders |-> Idle]
    /\ used = {} /\ overlap = FALSE /\ errors = {} /\ seen = {}
    /\ executions = 0

To(b, where) == phase' = [phase EXCEPT ![b] = where]
Set(b, local) == mine' = [mine EXCEPT ![b] = local]
Return(b) == To(b, "idle") /\ Set(b, Idle)
Raise(b, error) == Return(b) /\ errors' = errors \cup {error}
-----------------------------------------------------------------------------
(* Batching. *)

Missing == {c \in Chunks : vectors[c] = None}
Front(S, c) == {d \in S : d <= c}
Fits(B, limit) ==
    /\ Cardinality(B) <= limit.items
    /\ MapThenSumSet(LAMBDA c : Tokens[c], B) <= limit.tokens
Oversized(S, limit) == \E c \in S : Tokens[c] > limit.tokens

(* The first of _batches: the longest front within both limits. *)
Batch(S, limit) ==
    UNION {Front(S, c) : c \in {d \in S : Fits(Front(S, d), limit)}}
-----------------------------------------------------------------------------
(* Building. *)

(* build_plan stamps the snapshot with the file's time of modification. *)
Start(b) == \E limit \in Limits :
    /\ phase[b] = "idle" /\ executions < MaxExecutions
    /\ executions' = executions + 1
    /\ used' = used \cup {limit}
    /\ overlap' = (overlap \/ \E a \in Builders : phase[a] # "idle")
    /\ To(b, "create")
    /\ Set(b, [limit |-> limit, created_at |-> mtime, missing |-> {}, batch |-> {},
               version |-> None])
    /\ UNCHANGED <<row, vectors, answers, mtime, errors, seen>>

(* create_snapshot: insert, or return what is there if it is the same.     *)
CreateSnapshot(b) ==
    /\ phase[b] = "create"
    /\ \/ /\ row.status = "absent"
          /\ row' = [status |-> "incomplete", created_at |-> mine[b].created_at]
          /\ To(b, "look") /\ UNCHANGED <<mine, errors>>
       \/ /\ row.status # "absent" /\ row.created_at # mine[b].created_at
          /\ Raise(b, "metadata") /\ UNCHANGED row
       \/ /\ row.status = "incomplete" /\ row.created_at = mine[b].created_at
          /\ To(b, "look") /\ UNCHANGED <<row, mine, errors>>
       \/ /\ row.status = "complete" /\ row.created_at = mine[b].created_at
          /\ Return(b) /\ UNCHANGED <<row, errors>>
    /\ UNCHANGED <<vectors, answers, mtime, begun, seen>>

(* The next batch of those that _batches has cut, or none.                 *)
Advance(b, missing) ==
    /\ To(b, IF missing = {} THEN "finalize" ELSE "embed")
    /\ Set(b, [mine[b] EXCEPT !.missing = missing, !.version = None,
                              !.batch = Batch(missing, mine[b].limit)])

(* completed_chunk_ids, read once; then all batches are cut, and a chunk   *)
(* no request may hold raises before the first one is sent.                *)
Look(b) ==
    /\ phase[b] = "look"
    /\ IF Oversized(Missing, mine[b].limit) THEN Return(b) ELSE Advance(b, Missing)
    /\ UNCHANGED <<row, vectors, answers, mtime, errors, begun, seen>>

(* _validate_response: a refused answer raises. *)
Receive(b, version) ==
    IF version = Rejected THEN Return(b)
    ELSE To(b, "persist") /\ Set(b, [mine[b] EXCEPT !.version = version])

EmbedStored(b) == \E a \in answers :
    /\ phase[b] = "embed" /\ a.batch = mine[b].batch
    /\ Receive(b, a.version)
    /\ UNCHANGED <<row, vectors, answers, mtime, errors, begun, seen>>

EmbedPaid(b) == \E version \in Versions \cup {Rejected} :
    /\ phase[b] = "embed" /\ \A a \in answers : a.batch # mine[b].batch
    /\ answers' = answers \cup {[batch |-> mine[b].batch, version |-> version]}
    /\ Receive(b, version)
    /\ UNCHANGED <<row, vectors, mtime, errors, begun, seen>>

Filled(B, version) == [c \in Chunks |-> IF c \in B THEN version ELSE vectors[c]]
Clashes(B, version) == \E c \in B : vectors[c] \notin {None, version}

\* Mutant: a vector that is there already is an error.
PersistBatch_NoSkip(b) == LET batch == mine[b].batch  version == mine[b].version IN
    /\ phase[b] = "persist"
    /\ IF row.status = "complete" THEN Raise(b, "immutable") /\ UNCHANGED vectors
       ELSE IF ~(batch \subseteq Missing) THEN Raise(b, "conflict") /\ UNCHANGED vectors
       ELSE /\ vectors' = Filled(batch, version)
            /\ Advance(b, mine[b].missing \ batch) /\ UNCHANGED errors
    /\ UNCHANGED <<row, answers, mtime, begun, seen>>

\* Mutant: a vector that is there already is written over.
PersistBatch_Upsert(b) == LET batch == mine[b].batch  version == mine[b].version IN
    /\ phase[b] = "persist"
    /\ IF row.status = "complete" THEN Raise(b, "immutable") /\ UNCHANGED vectors
       ELSE /\ vectors' = Filled(batch, version)
            /\ Advance(b, mine[b].missing \ batch) /\ UNCHANGED errors
    /\ UNCHANGED <<row, answers, mtime, begun, seen>>

\* Mutant: one transaction for each vector, the first of them cut off.
PersistBatch_Piecemeal(b) == LET batch == mine[b].batch  version == mine[b].version IN
    /\ phase[b] = "persist"
    /\ IF row.status = "complete" THEN Raise(b, "immutable") /\ UNCHANGED vectors
       ELSE IF Clashes(batch, version) THEN Raise(b, "conflict") /\ UNCHANGED vectors
       ELSE /\ \E c \in batch : vectors' = Filled(Front(batch, c), version)
            /\ Advance(b, mine[b].missing \ batch) /\ UNCHANGED errors
    /\ UNCHANGED <<row, answers, mtime, begun, seen>>

(* persist_batch: all of the batch or, if one vector differs, nothing.     *)
PersistBatch(b) == LET batch == mine[b].batch  version == mine[b].version IN
    /\ phase[b] = "persist"
    /\ IF row.status = "complete" THEN Raise(b, "immutable") /\ UNCHANGED vectors
       ELSE IF Clashes(batch, version) THEN Raise(b, "conflict") /\ UNCHANGED vectors
       ELSE /\ vectors' = Filled(batch, version)
            /\ Advance(b, mine[b].missing \ batch) /\ UNCHANGED errors
    /\ UNCHANGED <<row, answers, mtime, begun, seen>>

(* finalize_snapshot: the exact set of vectors, the index, complete.       *)
FinalizeSnapshot(b) ==
    /\ phase[b] = "finalize"
    /\ IF Missing = {} THEN row' = [row EXCEPT !.status = "complete"] /\ Return(b)
                            /\ UNCHANGED errors
       ELSE Raise(b, "inexact") /\ UNCHANGED row
    /\ UNCHANGED <<vectors, answers, mtime, begun, seen>>

(* A crash, a cancellation, a gateway or a database that raises. *)
Abort(b) ==
    /\ phase[b] # "idle"
    /\ Return(b)
    /\ UNCHANGED <<row, vectors, answers, mtime, errors, begun, seen>>
-----------------------------------------------------------------------------
(* search refuses what is not complete; embed_query has asked the same     *)
(* before, in a transaction of its own, and paid for the query.            *)
Search ==
    /\ row.status = "complete"
    /\ seen' = seen \cup {vectors}
    /\ UNCHANGED <<row, vectors, answers, mtime, phase, mine, errors, begun>>

(* The environment: the dataset is copied or exported again, with the same *)
(* bytes.                                                                  *)
Touch ==
    /\ mtime < MaxTouches /\ mtime' = mtime + 1
    /\ UNCHANGED <<row, vectors, answers, phase, mine, errors, begun, seen>>

Step(b) ==
    \/ CreateSnapshot(b) \/ Look(b) \/ EmbedStored(b) \/ EmbedPaid(b)
    \/ PersistBatch(b) \/ FinalizeSnapshot(b)

Next == (\E b \in Builders : Start(b) \/ Step(b) \/ Abort(b)) \/ Search \/ Touch

Spec == Init /\ [][Next]_vars
-----------------------------------------------------------------------------
(* Every variable holds values of its type. *)
SnapshotTypeOK ==
    /\ row \in Row
    /\ vectors \in [Chunks -> Versions \cup {None}]
    /\ answers \in SUBSET Answers
    /\ mtime \in Nat
    /\ phase \in [Builders -> Phases]
    /\ mine \in [Builders -> Local \cup {Idle}]
    /\ used \in SUBSET Limits
    /\ overlap \in BOOLEAN
    /\ errors \in SUBSET {"metadata", "immutable", "conflict", "inexact"}
    /\ seen \in SUBSET [Chunks -> Versions \cup {None}]
    /\ executions \in Nat

(* As long as every builder is given the same limits, no chunk is embedded *)
(* in two requests: crashed, resumed and concurrent builds all cut what is *)
(* missing at the same places, because persist_batch stores whole batches, *)
(* so the gateway's cache answers what was paid for once.                  *)
ChunksPaidOnce ==
    Cardinality(used) <= 1 =>
        \A a1, a2 \in answers : a1.batch \cap a2.batch # {} => a1 = a2

(* The repository refuses a builder only for what another one, or another  *)
(* file, has done: a different vector needs other limits and a concurrent  *)
(* build, a write to a complete snapshot a concurrent build, foreign       *)
(* metadata a file that was written again.  Whoever reaches finalize has   *)
(* stored all there is to store.                                           *)
RefusalsExplained ==
    /\ "conflict" \in errors => overlap /\ Cardinality(used) > 1
    /\ "immutable" \in errors => overlap
    /\ "metadata" \in errors => mtime > 0
    /\ "inexact" \notin errors

(* All searches, however they fall between the steps of builders, read one *)
(* and the same table, and it has a vector for every chunk.                *)
SearchesAgree ==
    /\ Cardinality(seen) <= 1
    /\ \A t \in seen, c \in Chunks : t[c] # None

(* The repository is a write-once table: a vector is never replaced, and   *)
(* a complete snapshot never changes.                                      *)
Store == INSTANCE SnapshotStore WITH
    Vectors <- Versions, table <- vectors, sealed <- row.status = "complete"
ImplementsStore == Store!Spec
==============================================================================
