---------------------- MODULE EmbeddingSnapshot_proofs ----------------------
(***************************************************************************)
(* Theorems about EmbeddingSnapshot, for any chunks and token counts, any  *)
(* number of builders, any choices of limits and any bounds.               *)
(***************************************************************************)
EXTENDS EmbeddingSnapshot, FiniteSetTheorems, TLAPS

(* Past the look: the rest of the missing chunks and the next batch of it. *)
Building == {"embed", "persist", "finalize"}

(* A builder at work has its local variables, its limits are on record and *)
(* its plan is not younger than the file.                                  *)
Held ==
    \A b \in Builders : phase[b] # "idle" =>
        /\ mine[b] \in Local
        /\ mine[b].limit \in used
        /\ mine[b].created_at <= mtime
        /\ phase[b] = "persist" => mine[b].version \in Versions

TypeInv == SnapshotTypeOK /\ Held /\ row.created_at <= mtime /\ IsFiniteSet(used)

LEMMA TypeInit == Init => TypeInv
  <1> SUFFICES ASSUME Init PROVE TypeInv
    OBVIOUS
  <1>1. row \in Row /\ row.created_at <= mtime /\ mtime \in Nat /\ executions \in Nat
    BY DEF Init, Row
  <1>2. /\ vectors \in [Chunks -> Versions \cup {None}]
        /\ phase \in [Builders -> Phases] /\ mine \in [Builders -> Local \cup {Idle}]
    BY DEF Init, Phases
  <1>3. /\ answers \in SUBSET Answers /\ used \in SUBSET Limits /\ overlap \in BOOLEAN
        /\ errors \in SUBSET {"metadata", "immutable", "conflict", "inexact"}
        /\ seen \in SUBSET [Chunks -> Versions \cup {None}] /\ IsFiniteSet(used)
    BY FS_EmptySet DEF Init
  <1>4. Held
    BY DEF Init, Held
  <1> QED
    BY <1>1, <1>2, <1>3, <1>4 DEF TypeInv, SnapshotTypeOK

(* The first batch is part of what is missing. *)
LEMMA BatchPart ==
    ASSUME NEW S, NEW limit
    PROVE  Batch(S, limit) \subseteq S
  BY DEF Batch, Front

(* A builder that ends leaves the others and their variables alone. *)
LEMMA ReturnTypes ==
    ASSUME SnapshotTypeOK, NEW b \in Builders, Return(b)
    PROVE  /\ phase' \in [Builders -> Phases] /\ mine' \in [Builders -> Local \cup {Idle}]
           /\ phase'[b] = "idle"
           /\ \A a \in Builders \ {b} : phase'[a] = phase[a] /\ mine'[a] = mine[a]
  BY DEF Return, To, Set, SnapshotTypeOK, Phases

LEMMA AdvanceTypes ==
    ASSUME SnapshotTypeOK, NEW b \in Builders, mine[b] \in Local,
           NEW S \in SUBSET Chunks, Advance(b, S)
    PROVE  /\ phase' \in [Builders -> Phases] /\ mine' \in [Builders -> Local \cup {Idle}]
           /\ phase'[b] = (IF S = {} THEN "finalize" ELSE "embed")
           /\ mine'[b] \in Local
           /\ mine'[b].limit = mine[b].limit /\ mine'[b].created_at = mine[b].created_at
           /\ mine'[b].missing = S /\ mine'[b].batch = Batch(S, mine[b].limit)
           /\ \A a \in Builders \ {b} : phase'[a] = phase[a] /\ mine'[a] = mine[a]
  <1> DEFINE next == [mine[b] EXCEPT !.missing = S, !.version = None,
                                     !.batch = Batch(S, mine[b].limit)]
  <1>1. Batch(S, mine[b].limit) \in SUBSET Chunks
    BY BatchPart
  <1>2. /\ next \in Local /\ next.limit = mine[b].limit
        /\ next.created_at = mine[b].created_at
        /\ next.missing = S /\ next.batch = Batch(S, mine[b].limit)
    BY <1>1 DEF Local
  <1>3. mine' = [mine EXCEPT ![b] = next]
    BY DEF Advance, Set
  <1> HIDE DEF next
  <1> QED
    BY <1>2, <1>3 DEF Advance, To, SnapshotTypeOK, Phases

LEMMA ReceiveTypes ==
    ASSUME SnapshotTypeOK, NEW b \in Builders, mine[b] \in Local,
           NEW version \in Versions \cup {Rejected}, Receive(b, version)
    PROVE  /\ phase' \in [Builders -> Phases] /\ mine' \in [Builders -> Local \cup {Idle}]
           /\ version = Rejected => phase'[b] = "idle"
           /\ version # Rejected =>
                /\ phase'[b] = "persist" /\ mine'[b] \in Local
                /\ mine'[b].limit = mine[b].limit /\ mine'[b].created_at = mine[b].created_at
                /\ mine'[b].missing = mine[b].missing /\ mine'[b].batch = mine[b].batch
                /\ mine'[b].version = version
           /\ \A a \in Builders \ {b} : phase'[a] = phase[a] /\ mine'[a] = mine[a]
  <1> DEFINE next == [mine[b] EXCEPT !.version = version]
  <1>1. CASE version = Rejected
    BY <1>1, ReturnTypes DEF Receive
  <1>2. CASE version # Rejected
    <2>1. /\ next \in Local /\ next.limit = mine[b].limit
          /\ next.created_at = mine[b].created_at
          /\ next.missing = mine[b].missing /\ next.batch = mine[b].batch
          /\ next.version = version
      BY <1>2 DEF Local
    <2>2. mine' = [mine EXCEPT ![b] = next] /\ To(b, "persist")
      BY <1>2 DEF Receive, Set
    <2> HIDE DEF next
    <2> QED
      BY <1>2, <2>1, <2>2 DEF To, SnapshotTypeOK, Phases
  <1> QED
    BY <1>1, <1>2
(* What a step of a builder needs to know of the next state to keep Held. *)
LEMMA HeldKept ==
    ASSUME Held, NEW b \in Builders,
           \A a \in Builders \ {b} : phase'[a] = phase[a] /\ mine'[a] = mine[a],
           used \subseteq used', mtime' = mtime,
           phase'[b] # "idle" =>
               /\ mine'[b] \in Local /\ mine'[b].limit \in used'
               /\ mine'[b].created_at <= mtime
               /\ phase'[b] = "persist" => mine'[b].version \in Versions
    PROVE  Held'
  BY DEF Held

LEMMA TypeStep == TypeInv /\ [Next]_vars => TypeInv'
  <1> SUFFICES ASSUME TypeInv, [Next]_vars PROVE TypeInv'
    OBVIOUS
  <1> USE DEF TypeInv
  <1> USE EmbeddingAssumption
  <1>1. ASSUME NEW b \in Builders, Start(b) PROVE TypeInv'
    <2> PICK limit \in Limits :
          /\ phase[b] = "idle" /\ executions' = executions + 1
          /\ used' = used \cup {limit}
          /\ overlap' = (overlap \/ \E a \in Builders : phase[a] # "idle")
          /\ phase' = [phase EXCEPT ![b] = "create"]
          /\ mine' = [mine EXCEPT ![b] =
                [limit |-> limit, created_at |-> mtime, missing |-> {}, batch |-> {},
                 version |-> None]]
          /\ UNCHANGED <<row, vectors, answers, mtime, errors, seen>>
      BY <1>1 DEF Start, To, Set
    <2> DEFINE local == [limit |-> limit, created_at |-> mtime, missing |-> {},
                         batch |-> {}, version |-> None]
    <2>1. local \in Local /\ local.limit = limit /\ local.created_at = mtime
      BY DEF Local, SnapshotTypeOK
    <2>2. IsFiniteSet(used')
      BY FS_AddElement
    <2>3. mine' = [mine EXCEPT ![b] = local]
      OBVIOUS
    <2> HIDE DEF local
    <2>4. Held'
      <3>1. mine'[b] = local /\ phase'[b] = "create"
        BY <2>3 DEF SnapshotTypeOK
      <3>2. \A a \in Builders \ {b} : phase'[a] = phase[a] /\ mine'[a] = mine[a]
        BY <2>3 DEF SnapshotTypeOK
      <3>3. mine'[b].created_at <= mtime
        BY <2>1, <3>1 DEF SnapshotTypeOK
      <3>4. mine'[b] \in Local /\ mine'[b].limit \in used' /\ used \subseteq used'
        <4>1. mine'[b] \in Local /\ mine'[b].limit = limit
          BY <2>1, <3>1, Zenon
        <4>2. limit \in used' /\ used \subseteq used'
          OBVIOUS
        <4> QED
          BY <4>1, <4>2, Zenon
      <3>5. phase'[b] # "persist" /\ mtime' = mtime
        BY <3>1
      <3> QED
        BY <3>2, <3>3, <3>4, <3>5, HeldKept
    <2>5. SnapshotTypeOK'
      <3>1. phase' \in [Builders -> Phases]
        BY DEF SnapshotTypeOK, Phases
      <3>2. mine' \in [Builders -> Local \cup {Idle}]
        BY <2>1, <2>3 DEF SnapshotTypeOK
      <3>3. used' \in SUBSET Limits /\ overlap' \in BOOLEAN /\ executions' \in Nat
        BY DEF SnapshotTypeOK
      <3> QED
        BY <3>1, <3>2, <3>3 DEF SnapshotTypeOK
    <2> QED
      BY <2>2, <2>4, <2>5
  <1>2. ASSUME NEW b \in Builders, CreateSnapshot(b) PROVE TypeInv'
    <2>0. /\ mine[b] \in Local /\ mine[b].limit \in used /\ mine[b].created_at <= mtime
          /\ mine[b].created_at \in Nat
      BY <1>2 DEF CreateSnapshot, Held, Local
    <2>1. CASE Return(b)
      <3>1. /\ phase' \in [Builders -> Phases] /\ mine' \in [Builders -> Local \cup {Idle}]
            /\ phase'[b] = "idle"
            /\ \A a \in Builders \ {b} : phase'[a] = phase[a] /\ mine'[a] = mine[a]
        BY <2>1, ReturnTypes
      <3>2. Held'
        BY <1>2, <3>1, HeldKept DEF CreateSnapshot, begun
      <3>3. /\ row' = row \/ row' = [status |-> "incomplete", created_at |-> mine[b].created_at]
            /\ errors' = errors \/ errors' = errors \cup {"metadata"}
            /\ UNCHANGED <<vectors, answers, mtime, used, overlap, executions, seen>>
        BY <1>2 DEF CreateSnapshot, Raise, begun
      <3>4. row' \in Row /\ row'.created_at <= mtime'
        BY <2>0, <3>3 DEF SnapshotTypeOK, Row
      <3> QED
        BY <3>1, <3>2, <3>3, <3>4 DEF SnapshotTypeOK
    <2>2. CASE To(b, "look") /\ UNCHANGED mine /\ UNCHANGED errors
      <3>1. /\ phase' \in [Builders -> Phases] /\ phase'[b] = "look"
            /\ \A a \in Builders \ {b} : phase'[a] = phase[a]
        BY <2>2 DEF To, SnapshotTypeOK, Phases
      <3>2. Held'
        BY <1>2, <2>0, <2>2, <3>1, HeldKept DEF CreateSnapshot, begun
      <3>3. /\ row' = row \/ row' = [status |-> "incomplete", created_at |-> mine[b].created_at]
            /\ UNCHANGED <<vectors, answers, mtime, used, overlap, executions, seen>>
        BY <1>2 DEF CreateSnapshot, begun
      <3>4. row' \in Row /\ row'.created_at <= mtime'
        BY <2>0, <3>3 DEF SnapshotTypeOK, Row
      <3> QED
        BY <2>2, <3>1, <3>2, <3>3, <3>4 DEF SnapshotTypeOK
    <2> QED
      BY <1>2, <2>1, <2>2 DEF CreateSnapshot, Raise
  <1>3. ASSUME NEW b \in Builders, Look(b) PROVE TypeInv'
    <2>0. mine[b] \in Local /\ mine[b].limit \in used /\ mine[b].created_at <= mtime
      BY <1>3 DEF Look, Held
    <2>1. /\ phase' \in [Builders -> Phases] /\ mine' \in [Builders -> Local \cup {Idle}]
          /\ \/ phase'[b] = "idle"
             \/ /\ phase'[b] # "persist" /\ mine'[b] \in Local
                /\ mine'[b].limit = mine[b].limit /\ mine'[b].created_at = mine[b].created_at
          /\ \A a \in Builders \ {b} : phase'[a] = phase[a] /\ mine'[a] = mine[a]
      <3>1. CASE Return(b)
        BY <3>1, ReturnTypes
      <3>2. CASE Advance(b, Missing)
        BY <2>0, <3>2, AdvanceTypes DEF Missing
      <3> QED
        BY <1>3, <3>1, <3>2 DEF Look
    <2>2. UNCHANGED <<row, vectors, answers, mtime, errors, used, overlap, executions, seen>>
      BY <1>3 DEF Look, begun
    <2>3. Held'
      BY <2>0, <2>1, <2>2, HeldKept
    <2> QED
      BY <2>1, <2>2, <2>3 DEF SnapshotTypeOK
  <1>4. ASSUME NEW b \in Builders, EmbedStored(b) \/ EmbedPaid(b) PROVE TypeInv'
    <2>0. mine[b] \in Local /\ mine[b].limit \in used /\ mine[b].created_at <= mtime
      BY <1>4 DEF EmbedStored, EmbedPaid, Held
    <2>1. PICK version \in Versions \cup {Rejected} : Receive(b, version)
      BY <1>4 DEF EmbedStored, EmbedPaid, SnapshotTypeOK, Answers
    <2>2. answers' \in SUBSET Answers
      <3>1. mine[b].batch \in SUBSET Chunks
        BY <2>0 DEF Local
      <3> QED
        BY <1>4, <3>1 DEF EmbedStored, EmbedPaid, SnapshotTypeOK, Answers
    <2>3. UNCHANGED <<row, vectors, mtime, errors, used, overlap, executions, seen>>
      BY <1>4 DEF EmbedStored, EmbedPaid, begun
    <2>4. Held'
      BY <2>0, <2>1, <2>3, ReceiveTypes, HeldKept
    <2>5. phase' \in [Builders -> Phases] /\ mine' \in [Builders -> Local \cup {Idle}]
      BY <2>0, <2>1, ReceiveTypes
    <2> QED
      BY <2>2, <2>3, <2>4, <2>5 DEF SnapshotTypeOK
  <1>5. ASSUME NEW b \in Builders, PersistBatch(b) PROVE TypeInv'
    <2>0. /\ mine[b] \in Local /\ mine[b].limit \in used /\ mine[b].created_at <= mtime
          /\ mine[b].version \in Versions /\ mine[b].missing \in SUBSET Chunks
      BY <1>5 DEF PersistBatch, Held, Local
    <2>1. /\ phase' \in [Builders -> Phases] /\ mine' \in [Builders -> Local \cup {Idle}]
          /\ \/ phase'[b] = "idle"
             \/ /\ phase'[b] # "persist" /\ mine'[b] \in Local
                /\ mine'[b].limit = mine[b].limit /\ mine'[b].created_at = mine[b].created_at
          /\ \A a \in Builders \ {b} : phase'[a] = phase[a] /\ mine'[a] = mine[a]
      <3>1. CASE Return(b)
        BY <3>1, ReturnTypes
      <3>2. CASE Advance(b, mine[b].missing \ mine[b].batch)
        <4>1. mine[b].missing \ mine[b].batch \in SUBSET Chunks
          BY <2>0
        <4> QED
          BY <2>0, <3>2, <4>1, AdvanceTypes
      <3> QED
        BY <1>5, <3>1, <3>2 DEF PersistBatch, Raise
    <2>2. UNCHANGED <<row, answers, mtime, used, overlap, executions, seen>>
      BY <1>5 DEF PersistBatch, begun
    <2>3. /\ vectors' \in [Chunks -> Versions \cup {None}]
          /\ errors' \in SUBSET {"metadata", "immutable", "conflict", "inexact"}
      BY <1>5, <2>0 DEF PersistBatch, Filled, Raise, SnapshotTypeOK
    <2>4. Held'
      BY <2>0, <2>1, <2>2, HeldKept
    <2> QED
      BY <2>1, <2>2, <2>3, <2>4 DEF SnapshotTypeOK
  <1>6. ASSUME NEW b \in Builders, FinalizeSnapshot(b) \/ Abort(b) PROVE TypeInv'
    <2>1. Return(b)
      BY <1>6 DEF FinalizeSnapshot, Abort, Raise
    <2>2. /\ phase' \in [Builders -> Phases] /\ mine' \in [Builders -> Local \cup {Idle}]
          /\ phase'[b] = "idle"
          /\ \A a \in Builders \ {b} : phase'[a] = phase[a] /\ mine'[a] = mine[a]
      BY <2>1, ReturnTypes
    <2>3. /\ row' = row \/ row' = [row EXCEPT !.status = "complete"]
          /\ errors' = errors \/ errors' = errors \cup {"inexact"}
          /\ UNCHANGED <<vectors, answers, mtime, used, overlap, executions, seen>>
      BY <1>6 DEF FinalizeSnapshot, Abort, Raise, begun
    <2>4. row' \in Row /\ row'.created_at = row.created_at
      BY <2>3 DEF SnapshotTypeOK, Row
    <2>5. Held'
      BY <2>2, <2>3, HeldKept
    <2> QED
      BY <2>2, <2>3, <2>4, <2>5 DEF SnapshotTypeOK
  <1>7. CASE Search
    BY <1>7 DEF Search, SnapshotTypeOK, Held, begun
  <1>8. CASE Touch
    <2>1. /\ mtime' = mtime + 1
          /\ UNCHANGED <<row, vectors, answers, phase, mine, errors, used, overlap,
                         executions, seen>>
      BY <1>8 DEF Touch, begun
    <2>2. Held'
      <3> SUFFICES ASSUME NEW b \in Builders, phase[b] # "idle"
                   PROVE  mine[b].created_at <= mtime + 1
        BY <2>1 DEF Held
      <3>1. mine[b].created_at \in Nat /\ mine[b].created_at <= mtime
        BY DEF Held, Local
      <3> QED
        BY <3>1 DEF SnapshotTypeOK
    <2>3. row.created_at \in Nat
      BY DEF SnapshotTypeOK, Row
    <2> QED
      BY <2>1, <2>2, <2>3 DEF SnapshotTypeOK
  <1>9. CASE UNCHANGED vars
    BY <1>9 DEF vars, SnapshotTypeOK, Held
  <1> QED
    BY <1>1, <1>2, <1>3, <1>4, <1>5, <1>6, <1>7, <1>8, <1>9 DEF Next, Step

(* Every variable keeps its type, whatever builders, searches and the      *)
(* environment do.                                                         *)
THEOREM SnapshotTypes == Spec => []SnapshotTypeOK
  <1>1. TypeInv => SnapshotTypeOK
    BY DEF TypeInv
  <1> QED
    BY <1>1, TypeInit, TypeStep, PTL DEF Spec
-----------------------------------------------------------------------------
(* The table of vectors only grows, and is whole when it is sealed.        *)

(* What a builder believes to be missing can only be more than what is:    *)
(* others may have stored some of it since.  So at finalize nothing is     *)
(* missing.                                                                *)
Behind ==
    \A b \in Builders : phase[b] \in Building =>
        /\ Missing \subseteq mine[b].missing
        /\ mine[b].batch = Batch(mine[b].missing, mine[b].limit)
        /\ phase[b] = "finalize" => mine[b].missing = {}

Sealed == row.status = "complete" => Missing = {}

Searched == \A t \in seen : row.status = "complete" /\ t = vectors

TableInv == Behind /\ Sealed /\ Searched

LEMMA TableInit == Init => TableInv
  BY DEF Init, TableInv, Behind, Building, Sealed, Searched

(* Either the whole batch is stored and nothing else is changed, or it is  *)
(* an error and nothing is.                                                *)
LEMMA PersistEffect ==
    ASSUME TypeInv, NEW b \in Builders, PersistBatch(b)
    PROVE  /\ mine[b] \in Local /\ mine[b].version \in Versions /\ phase[b] = "persist"
           /\ UNCHANGED <<row, answers, mtime, used, overlap, seen>>
           /\ \/ /\ Return(b) /\ UNCHANGED vectors
                 /\ \/ row.status = "complete" /\ errors' = errors \cup {"immutable"}
                    \/ /\ Clashes(mine[b].batch, mine[b].version)
                       /\ errors' = errors \cup {"conflict"}
              \/ /\ Advance(b, mine[b].missing \ mine[b].batch)
                 /\ row.status # "complete" /\ UNCHANGED errors
                 /\ ~Clashes(mine[b].batch, mine[b].version)
                 /\ Missing' = Missing \ mine[b].batch
                 /\ \A c \in Chunks : vectors'[c] = vectors[c] \/
                        (vectors[c] = None /\ c \in mine[b].batch
                                           /\ vectors'[c] = mine[b].version)
  <1>1. /\ mine[b] \in Local /\ mine[b].version \in Versions /\ phase[b] = "persist"
        /\ UNCHANGED <<row, answers, mtime, used, overlap, seen>>
    BY DEF PersistBatch, begun, TypeInv, Held
  <1>2. CASE Return(b) /\ UNCHANGED vectors
              /\ \/ row.status = "complete" /\ errors' = errors \cup {"immutable"}
                 \/ /\ Clashes(mine[b].batch, mine[b].version)
                    /\ errors' = errors \cup {"conflict"}
    BY <1>1, <1>2
  <1>3. CASE /\ row.status # "complete" /\ ~Clashes(mine[b].batch, mine[b].version)
             /\ vectors' = Filled(mine[b].batch, mine[b].version)
             /\ Advance(b, mine[b].missing \ mine[b].batch) /\ UNCHANGED errors
    <2>1. \A c \in Chunks : vectors'[c] = IF c \in mine[b].batch THEN mine[b].version
                                         ELSE vectors[c]
      BY <1>3 DEF Filled
    <2>2. \A c \in mine[b].batch : c \in Chunks /\ vectors[c] \in {None, mine[b].version}
      BY <1>1, <1>3 DEF Clashes, Local
    <2>3. Missing' = Missing \ mine[b].batch
      BY <1>1, <2>1, EmbeddingAssumption DEF Missing
    <2> QED
      BY <1>1, <1>3, <2>1, <2>2, <2>3
  <1> QED
    BY <1>2, <1>3 DEF PersistBatch, Raise

(* A vector is never replaced. *)
LEMMA VectorsGrow ==
    ASSUME TypeInv, [Next]_vars
    PROVE  /\ Missing' \subseteq Missing
           /\ vectors' \in [Chunks -> Versions \cup {None}]
           /\ \A c \in Chunks : vectors[c] # None => vectors'[c] = vectors[c]
           /\ row.status = "complete" => vectors' = vectors
  <1>0. vectors' \in [Chunks -> Versions \cup {None}]
    BY TypeStep DEF TypeInv, SnapshotTypeOK
  <1>1. CASE UNCHANGED vectors
    BY <1>0, <1>1 DEF Missing
  <1>2. ASSUME NEW b \in Builders, PersistBatch(b), vectors' # vectors
        PROVE  /\ row.status # "complete" /\ Missing' = Missing \ mine[b].batch
               /\ \A c \in Chunks : vectors[c] # None => vectors'[c] = vectors[c]
    BY <1>2, PersistEffect
  <1>3. vectors' # vectors => \E b \in Builders : PersistBatch(b)
    BY DEF Next, vars, Start, Step, CreateSnapshot, Look, EmbedStored, EmbedPaid,
           FinalizeSnapshot, Abort, Search, Touch
  <1> QED
    BY <1>0, <1>1, <1>2, <1>3

(* To keep Behind a step has to show it only of the builder that moves.    *)
LEMMA BehindKept ==
    ASSUME Behind, NEW b \in Builders, Missing' \subseteq Missing,
           \A a \in Builders \ {b} : phase'[a] = phase[a] /\ mine'[a] = mine[a],
           phase'[b] \in Building =>
               /\ Missing' \subseteq mine'[b].missing
               /\ mine'[b].batch = Batch(mine'[b].missing, mine'[b].limit)
               /\ phase'[b] = "finalize" => mine'[b].missing = {}
    PROVE  Behind'
  <1> SUFFICES ASSUME NEW a \in Builders, phase'[a] \in Building
               PROVE  /\ Missing' \subseteq mine'[a].missing
                      /\ mine'[a].batch = Batch(mine'[a].missing, mine'[a].limit)
                      /\ phase'[a] = "finalize" => mine'[a].missing = {}
    BY DEF Behind, Building
  <1>1. CASE a = b
    BY <1>1
  <1>2. CASE a # b
    BY <1>2 DEF Behind
  <1> QED
    BY <1>1, <1>2

LEMMA BehindStep == TypeInv /\ Behind /\ [Next]_vars => Behind'
  <1> SUFFICES ASSUME TypeInv, Behind, [Next]_vars PROVE Behind'
    OBVIOUS
  <1>0. Missing' \subseteq Missing
    BY VectorsGrow
  <1>T. SnapshotTypeOK
    BY DEF TypeInv
  <1>1. ASSUME NEW b \in Builders, Return(b) PROVE Behind'
    BY <1>0, <1>1, <1>T, ReturnTypes, BehindKept DEF Building
  <1>2. ASSUME NEW b \in Builders, Start(b) \/ CreateSnapshot(b), ~Return(b) PROVE Behind'
    <2>1. /\ phase'[b] \notin Building
          /\ \A a \in Builders \ {b} : phase'[a] = phase[a] /\ mine'[a] = mine[a]
      BY <1>2, <1>T DEF Start, CreateSnapshot, Raise, To, Set, SnapshotTypeOK, Building
    <2> QED
      BY <1>0, <2>1, BehindKept
  <1>3. ASSUME NEW b \in Builders, NEW S \in SUBSET Chunks, Missing' \subseteq S,
               Advance(b, S), phase[b] # "idle"
        PROVE  Behind'
    <2>1. mine[b] \in Local
      BY <1>3 DEF TypeInv, Held
    <2> QED
      BY <1>0, <1>3, <1>T, <2>1, AdvanceTypes, BehindKept
  <1>4. ASSUME NEW b \in Builders, Look(b), ~Return(b) PROVE Behind'
    <2>1. Advance(b, Missing) /\ Missing \in SUBSET Chunks /\ phase[b] # "idle"
      BY <1>4 DEF Look, Missing
    <2> QED
      BY <1>0, <1>3, <2>1
  <1>5. ASSUME NEW b \in Builders, EmbedStored(b) \/ EmbedPaid(b), ~Return(b) PROVE Behind'
    <2>0. mine[b] \in Local /\ phase[b] = "embed"
      BY <1>5 DEF TypeInv, Held, EmbedStored, EmbedPaid
    <2>1. PICK version \in Versions \cup {Rejected} : Receive(b, version)
      BY <1>5, <1>T DEF EmbedStored, EmbedPaid, SnapshotTypeOK, Answers
    <2>2. /\ phase'[b] = "persist" /\ mine'[b].limit = mine[b].limit
          /\ mine'[b].missing = mine[b].missing /\ mine'[b].batch = mine[b].batch
          /\ \A a \in Builders \ {b} : phase'[a] = phase[a] /\ mine'[a] = mine[a]
      BY <1>5, <1>T, <2>0, <2>1, ReceiveTypes DEF Receive
    <2>3. Missing \subseteq mine[b].missing
          /\ mine[b].batch = Batch(mine[b].missing, mine[b].limit)
      BY <2>0 DEF Behind, Building
    <2> QED
      BY <1>0, <2>2, <2>3, BehindKept
  <1>6. ASSUME NEW b \in Builders, PersistBatch(b), ~Return(b) PROVE Behind'
    <2>1. /\ mine[b] \in Local /\ phase[b] = "persist" /\ Missing' = Missing \ mine[b].batch
          /\ Advance(b, mine[b].missing \ mine[b].batch)
      BY <1>6, PersistEffect
    <2>2. Missing \subseteq mine[b].missing
      BY <2>1 DEF Behind, Building
    <2>3. mine[b].missing \ mine[b].batch \in SUBSET Chunks
      BY <2>1 DEF Local
    <2> QED
      BY <1>3, <2>1, <2>2, <2>3
  <1>7. CASE Search \/ Touch \/ UNCHANGED vars
    <2>1. UNCHANGED <<phase, mine, vectors>>
      BY <1>7 DEF Search, Touch, vars
    <2> QED
      BY <2>1 DEF Behind, Missing, Building
  <1>8. ASSUME NEW b \in Builders, FinalizeSnapshot(b) \/ Abort(b) PROVE Return(b)
    BY <1>8 DEF FinalizeSnapshot, Abort, Raise
  <1> QED
    BY <1>1, <1>2, <1>4, <1>5, <1>6, <1>7, <1>8 DEF Next, Step

LEMMA TableStep == TypeInv /\ TableInv /\ [Next]_vars => TableInv'
  <1> SUFFICES ASSUME TypeInv, TableInv, [Next]_vars PROVE TableInv'
    OBVIOUS
  <1>1. Behind'
    BY BehindStep DEF TableInv
  <1>2. /\ Missing' \subseteq Missing
        /\ row.status = "complete" => vectors' = vectors
    BY VectorsGrow
  <1>3. /\ row.status = "complete" => row'.status = "complete"
        /\ row'.status = "complete" => row.status = "complete" \/ Missing = {}
    <2>1. row' # row => \E b \in Builders : CreateSnapshot(b) \/ FinalizeSnapshot(b)
      BY DEF Next, vars, Start, Step, Look, EmbedStored, EmbedPaid, PersistBatch, Abort,
             Search, Touch
    <2>2. ASSUME NEW b \in Builders, CreateSnapshot(b), row' # row
          PROVE  row.status = "absent" /\ row'.status = "incomplete"
      BY <2>2 DEF CreateSnapshot
    <2>3. ASSUME NEW b \in Builders, FinalizeSnapshot(b), row' # row
          PROVE  Missing = {} /\ row'.status = "complete"
      BY <2>3 DEF FinalizeSnapshot, TypeInv, SnapshotTypeOK, Row
    <2> QED
      BY <2>1, <2>2, <2>3
  <1>4. Sealed'
    BY <1>2, <1>3 DEF TableInv, Sealed
  <1>5. seen' # seen => seen' = seen \cup {vectors} /\ row.status = "complete"
    BY DEF Next, vars, Start, Step, CreateSnapshot, Look, EmbedStored, EmbedPaid,
           PersistBatch, FinalizeSnapshot, Abort, Search, Touch
  <1>6. Searched'
    BY <1>2, <1>3, <1>5 DEF TableInv, Searched
  <1> QED
    BY <1>1, <1>4, <1>6 DEF TableInv

THEOREM TableInvariant == Spec => [](TypeInv /\ TableInv)
  BY TypeInit, TypeStep, TableInit, TableStep, PTL DEF Spec

(* Searches read one whole table: FinalizeSnapshot seals only what has no  *)
(* vector missing, and PersistBatch writes to nothing that is sealed.      *)
THEOREM SearchesAgreeHolds == Spec => []SearchesAgree
  <1>1. TypeInv /\ TableInv => SearchesAgree
    <2> SUFFICES ASSUME TypeInv, TableInv PROVE SearchesAgree
      OBVIOUS
    <2>1. \A t \in seen, c \in Chunks : t[c] # None
      BY DEF TableInv, Searched, Sealed, Missing
    <2>2. seen = {} \/ seen = {vectors}
      BY DEF TableInv, Searched
    <2>3. Cardinality(seen) <= 1
      <3>1. Cardinality({}) = 0 /\ Cardinality({vectors}) = 1
        BY FS_EmptySet, FS_Singleton, Zenon
      <3> QED
        BY <2>2, <3>1
    <2> QED
      BY <2>1, <2>3 DEF SearchesAgree
  <1> QED
    BY <1>1, TableInvariant, PTL

(* The tables and transactions of the repository implement the write-once  *)
(* table of SnapshotStore.                                                 *)
THEOREM ImplementsStoreHolds == Spec => ImplementsStore
  <1>1. Init => Store!Init
    BY DEF Init, Store!Init
  <1>2. TypeInv /\ TableInv /\ [Next]_vars
          => [Store!Grow \/ Store!Seal]_<<vectors, row.status = "complete">>
    <2> SUFFICES ASSUME TypeInv, TableInv, [Next]_vars
                 PROVE  \/ Store!Grow \/ Store!Seal
                        \/ UNCHANGED <<vectors, row.status = "complete">>
      OBVIOUS
    <2>1. /\ vectors' \in [Chunks -> Versions \cup {None}]
          /\ \A c \in Chunks : vectors[c] # None => vectors'[c] = vectors[c]
          /\ row.status = "complete" => vectors' = vectors
      BY VectorsGrow
    <2>2. CASE row'.status = "complete" /\ row.status # "complete"
      <3>1. row' # row
        BY <2>2
      <3>2. \E b \in Builders : CreateSnapshot(b) \/ FinalizeSnapshot(b)
        BY <3>1 DEF Next, vars, Start, Step, Look, EmbedStored, EmbedPaid, PersistBatch,
                    Abort, Search, Touch
      <3>3. ASSUME NEW b \in Builders, CreateSnapshot(b) PROVE FALSE
        BY <2>2, <3>1, <3>3 DEF CreateSnapshot
      <3>4. ASSUME NEW b \in Builders, FinalizeSnapshot(b)
            PROVE  Missing = {} /\ UNCHANGED vectors
        BY <3>1, <3>4 DEF FinalizeSnapshot
      <3>5. Missing = {} /\ UNCHANGED vectors
        BY <3>2, <3>3, <3>4
      <3> QED
        BY <2>2, <3>5 DEF Store!Seal, Store!Whole, Missing
    <2>3. CASE (row'.status = "complete") <=> (row.status = "complete")
      <3>1. CASE vectors' = vectors
        BY <2>3, <3>1
      <3>2. CASE vectors' # vectors
        BY <2>1, <2>3, <3>2 DEF Store!Grow, Store!Tables
      <3> QED
        BY <3>1, <3>2
    <2>4. row.status = "complete" => row'.status = "complete"
      BY DEF TypeInv, SnapshotTypeOK, Row, Next, vars, Start, Step, CreateSnapshot, Look,
             EmbedStored, EmbedPaid, PersistBatch, FinalizeSnapshot, Abort, Search, Touch
    <2> QED
      BY <2>2, <2>3, <2>4
  <1> QED
    BY <1>1, <1>2, TableInvariant, PTL DEF Spec, ImplementsStore, Store!Spec
-----------------------------------------------------------------------------
(* What is stored comes from the gateway.                                  *)

(* The vectors a builder is about to persist are those of the response     *)
(* that the gateway has stored for its batch.                              *)
HandBacked ==
    \A b \in Builders : phase[b] = "persist" =>
        [batch |-> mine[b].batch, version |-> mine[b].version] \in answers

VectorsBacked ==
    \A c \in Chunks : vectors[c] # None =>
        \E a \in answers : c \in a.batch /\ a.version = vectors[c]

OneAnswer == \A a1, a2 \in answers : a1.batch = a2.batch => a1 = a2

AnswersInv == HandBacked /\ VectorsBacked /\ OneAnswer

LEMMA AnswersInit == Init => AnswersInv
  BY DEF Init, AnswersInv, HandBacked, VectorsBacked, OneAnswer

LEMMA HandKept ==
    ASSUME HandBacked, NEW b \in Builders, answers \subseteq answers',
           \A a \in Builders \ {b} : phase'[a] = phase[a] /\ mine'[a] = mine[a],
           phase'[b] = "persist" =>
               [batch |-> mine'[b].batch, version |-> mine'[b].version] \in answers'
    PROVE  HandBacked'
  BY DEF HandBacked

(* A request is sent only for a batch that has no stored response.         *)
LEMMA AnswersGrow ==
    ASSUME TypeInv, [Next]_vars
    PROVE  /\ answers \subseteq answers'
           /\ answers' # answers => \E b \in Builders : EmbedPaid(b)
  BY DEF Next, vars, Start, Step, CreateSnapshot, Look, EmbedStored, EmbedPaid,
         PersistBatch, FinalizeSnapshot, Abort, Search, Touch

LEMMA EmbedEffect ==
    ASSUME TypeInv, NEW b \in Builders, EmbedStored(b) \/ EmbedPaid(b)
    PROVE  /\ mine[b] \in Local /\ phase[b] = "embed"
           /\ UNCHANGED <<row, vectors, mtime, errors, used, overlap, seen>>
           /\ \A a \in Builders \ {b} : phase'[a] = phase[a] /\ mine'[a] = mine[a]
           /\ \/ Return(b)
              \/ /\ phase'[b] = "persist"
                 /\ mine'[b].limit = mine[b].limit /\ mine'[b].created_at = mine[b].created_at
                 /\ mine'[b].missing = mine[b].missing /\ mine'[b].batch = mine[b].batch
                 /\ [batch |-> mine'[b].batch, version |-> mine'[b].version] \in answers'
  <1>1. /\ mine[b] \in Local /\ phase[b] = "embed" /\ SnapshotTypeOK
        /\ UNCHANGED <<row, vectors, mtime, errors, used, overlap, seen>>
    BY DEF EmbedStored, EmbedPaid, begun, TypeInv, Held
  <1>2. PICK version \in Versions \cup {Rejected} :
            Receive(b, version) /\ [batch |-> mine[b].batch, version |-> version] \in answers'
    <2>1. CASE EmbedPaid(b)
      BY <2>1 DEF EmbedPaid
    <2>2. CASE EmbedStored(b)
      <3>1. PICK a \in answers : a.batch = mine[b].batch /\ Receive(b, a.version)
        BY <2>2 DEF EmbedStored
      <3>2. a.version \in Versions \cup {Rejected}
            /\ a = [batch |-> mine[b].batch, version |-> a.version]
        BY <1>1, <3>1 DEF SnapshotTypeOK, Answers
      <3> QED
        BY <2>2, <3>1, <3>2 DEF EmbedStored
    <2> QED
      BY <2>1, <2>2
  <1>3. CASE version = Rejected
    BY <1>1, <1>2, <1>3, ReturnTypes DEF Receive
  <1>4. CASE version # Rejected
    BY <1>1, <1>2, <1>4, ReceiveTypes
  <1> QED
    BY <1>3, <1>4

LEMMA AnswersStep == TypeInv /\ AnswersInv /\ [Next]_vars => AnswersInv'
  <1> SUFFICES ASSUME TypeInv, AnswersInv, [Next]_vars PROVE AnswersInv'
    OBVIOUS
  <1>0. answers \subseteq answers' /\ SnapshotTypeOK
    BY AnswersGrow DEF TypeInv
  <1>1. OneAnswer'
    <2>1. ASSUME NEW b \in Builders, EmbedPaid(b) PROVE OneAnswer'
      BY <2>1 DEF EmbedPaid, AnswersInv, OneAnswer
    <2> QED
      BY <2>1, AnswersGrow DEF AnswersInv, OneAnswer
  <1>2. VectorsBacked'
    <2>1. CASE UNCHANGED vectors
      BY <1>0, <2>1 DEF AnswersInv, VectorsBacked
    <2>2. ASSUME NEW b \in Builders, PersistBatch(b) PROVE VectorsBacked'
      <3> SUFFICES ASSUME NEW c \in Chunks, vectors'[c] # None
                   PROVE  \E a \in answers' : c \in a.batch /\ a.version = vectors'[c]
        BY DEF VectorsBacked
      <3>1. phase[b] = "persist" /\ UNCHANGED answers
            /\ \/ vectors'[c] = vectors[c]
               \/ c \in mine[b].batch /\ vectors'[c] = mine[b].version
        BY <2>2, PersistEffect
      <3>2. CASE vectors'[c] = vectors[c]
        BY <3>1, <3>2 DEF AnswersInv, VectorsBacked
      <3>3. CASE c \in mine[b].batch /\ vectors'[c] = mine[b].version
        <4>1. [batch |-> mine[b].batch, version |-> mine[b].version] \in answers'
          BY <3>1 DEF AnswersInv, HandBacked
        <4> QED
          BY <3>3, <4>1
      <3> QED
        BY <3>1, <3>2, <3>3
    <2>3. vectors' # vectors => \E b \in Builders : PersistBatch(b)
      BY DEF Next, vars, Start, Step, CreateSnapshot, Look, EmbedStored, EmbedPaid,
             FinalizeSnapshot, Abort, Search, Touch
    <2> QED
      BY <2>1, <2>2, <2>3
  <1>3. HandBacked'
    <2>0. HandBacked
      BY DEF AnswersInv
    <2>1. ASSUME NEW b \in Builders, Return(b) PROVE HandBacked'
      BY <1>0, <2>0, <2>1, ReturnTypes, HandKept
    <2>2. ASSUME NEW b \in Builders, Start(b) \/ CreateSnapshot(b), ~Return(b)
          PROVE  HandBacked'
      <3>1. /\ phase'[b] # "persist"
            /\ \A a \in Builders \ {b} : phase'[a] = phase[a] /\ mine'[a] = mine[a]
        BY <1>0, <2>2 DEF Start, CreateSnapshot, Raise, To, Set, SnapshotTypeOK
      <3> QED
        BY <1>0, <2>0, <3>1, HandKept
    <2>3. ASSUME NEW b \in Builders, NEW S \in SUBSET Chunks, Advance(b, S),
                 phase[b] # "idle"
          PROVE  HandBacked'
      <3>1. mine[b] \in Local
        BY <2>3 DEF TypeInv, Held
      <3>2. phase'[b] # "persist"
            /\ \A a \in Builders \ {b} : phase'[a] = phase[a] /\ mine'[a] = mine[a]
        BY <1>0, <2>3, <3>1, AdvanceTypes
      <3> QED
        BY <1>0, <2>0, <3>2, HandKept
    <2>4. ASSUME NEW b \in Builders, Look(b) PROVE HandBacked'
      <3>1. phase[b] # "idle" /\ Missing \in SUBSET Chunks
        BY <2>4 DEF Look, Missing
      <3> QED
        BY <2>1, <2>3, <2>4, <3>1 DEF Look
    <2>5. ASSUME NEW b \in Builders, PersistBatch(b) PROVE HandBacked'
      <3>1. phase[b] # "idle" /\ mine[b].missing \ mine[b].batch \in SUBSET Chunks
        BY <2>5, PersistEffect DEF Local
      <3> QED
        BY <2>1, <2>3, <2>5, <3>1, PersistEffect
    <2>6. ASSUME NEW b \in Builders, EmbedStored(b) \/ EmbedPaid(b) PROVE HandBacked'
      BY <1>0, <2>0, <2>1, <2>6, EmbedEffect, HandKept
    <2>7. ASSUME NEW b \in Builders, FinalizeSnapshot(b) \/ Abort(b) PROVE HandBacked'
      BY <2>1, <2>7 DEF FinalizeSnapshot, Abort, Raise
    <2>8. CASE Search \/ Touch \/ UNCHANGED vars
      BY <2>0, <2>8 DEF Search, Touch, vars, HandBacked
    <2> QED
      BY <2>1, <2>2, <2>4, <2>5, <2>6, <2>7, <2>8 DEF Next, Step
  <1> QED
    BY <1>1, <1>2, <1>3 DEF AnswersInv
-----------------------------------------------------------------------------
(* A builder that has the snapshot to itself.                              *)

Alone ==
    ~overlap =>
        /\ \A a, b \in Builders : phase[a] # "idle" /\ phase[b] # "idle" => a = b
        /\ \A b \in Builders : phase[b] \in Building \cup {"look"} => row.status = "incomplete"
        /\ \A b \in Builders : phase[b] \in Building => mine[b].missing = Missing

LEMMA AloneInit == Init => Alone
  BY DEF Init, Alone, Building

(* Nobody but the builder that moves is at work: what has to hold after    *)
(* its step has to hold of it alone.                                       *)
LEMMA AloneKept ==
    ASSUME Alone, NEW b \in Builders,
           \A a \in Builders \ {b} : phase'[a] = phase[a] /\ mine'[a] = mine[a],
           ~overlap' => ~overlap /\ (phase[b] = "idle" => \A a \in Builders : phase[a] = "idle"),
           phase'[b] \in Building \cup {"look"} => row'.status = "incomplete",
           ~overlap' /\ phase'[b] \in Building => mine'[b].missing = Missing'
    PROVE  Alone'
  <1> SUFFICES ASSUME ~overlap'
               PROVE  /\ \A a, c \in Builders : phase'[a] # "idle" /\ phase'[c] # "idle" => a = c
                      /\ \A a \in Builders : phase'[a] \in Building \cup {"look"} =>
                             row'.status = "incomplete"
                      /\ \A a \in Builders : phase'[a] \in Building =>
                             mine'[a].missing = Missing'
    BY DEF Alone, Building
  <1>1. \A a \in Builders \ {b} : phase'[a] = "idle"
    BY DEF Alone
  <1> QED
    BY <1>1 DEF Building

LEMMA AloneStep == TypeInv /\ Alone /\ [Next]_vars => Alone'
  <1> SUFFICES ASSUME TypeInv, Alone, [Next]_vars PROVE Alone'
    OBVIOUS
  <1>0. SnapshotTypeOK
    BY DEF TypeInv
  <1>1. ASSUME NEW b \in Builders, Return(b), UNCHANGED overlap, phase[b] # "idle"
        PROVE  Alone'
    BY <1>0, <1>1, ReturnTypes, AloneKept DEF Building
  <1>2. ASSUME NEW b \in Builders, Start(b) PROVE Alone'
    <2>1. /\ phase'[b] = "create"
          /\ overlap' = (overlap \/ \E a \in Builders : phase[a] # "idle")
          /\ \A a \in Builders \ {b} : phase'[a] = phase[a] /\ mine'[a] = mine[a]
      BY <1>0, <1>2 DEF Start, To, Set, SnapshotTypeOK
    <2> QED
      BY <1>0, <2>1, AloneKept DEF Building, SnapshotTypeOK
  <1>3. ASSUME NEW b \in Builders, CreateSnapshot(b) PROVE Alone'
    <2>1. CASE Return(b)
      BY <1>1, <1>3, <2>1 DEF CreateSnapshot, begun
    <2>2. CASE To(b, "look") /\ UNCHANGED mine /\ row'.status = "incomplete"
      <3>1. /\ phase'[b] = "look" /\ UNCHANGED overlap /\ phase[b] # "idle"
            /\ \A a \in Builders \ {b} : phase'[a] = phase[a] /\ mine'[a] = mine[a]
        BY <1>0, <1>3, <2>2 DEF CreateSnapshot, To, SnapshotTypeOK, begun
      <3> QED
        BY <2>2, <3>1, AloneKept DEF Building
    <2> QED
      BY <1>3, <2>1, <2>2 DEF CreateSnapshot, Raise
  <1>4. ASSUME NEW b \in Builders, NEW S \in SUBSET Chunks, Advance(b, S),
               UNCHANGED <<overlap, row>>, ~overlap => S = Missing',
               phase[b] \in Building \cup {"look"}
        PROVE  Alone'
    <2>1. mine[b] \in Local /\ phase[b] # "idle"
      BY <1>4 DEF TypeInv, Held, Building
    <2>2. mine'[b].missing = S
          /\ \A a \in Builders \ {b} : phase'[a] = phase[a] /\ mine'[a] = mine[a]
      BY <1>0, <1>4, <2>1, AdvanceTypes
    <2>3. CASE overlap
      BY <1>4, <2>3 DEF Alone
    <2>4. CASE ~overlap
      <3>1. row'.status = "incomplete"
        BY <1>4, <2>4 DEF Alone
      <3> QED
        BY <1>4, <2>1, <2>2, <2>4, <3>1, AloneKept
    <2> QED
      BY <2>3, <2>4
  <1>5. ASSUME NEW b \in Builders, Look(b) PROVE Alone'
    <2>1. /\ phase[b] = "look" /\ Missing \in SUBSET Chunks /\ Missing' = Missing
          /\ UNCHANGED <<overlap, row>>
      BY <1>5 DEF Look, Missing, begun
    <2> QED
      BY <1>1, <1>4, <1>5, <2>1 DEF Look
  <1>6. ASSUME NEW b \in Builders, PersistBatch(b) PROVE Alone'
    <2>1. /\ phase[b] = "persist" /\ mine[b].missing \ mine[b].batch \in SUBSET Chunks
          /\ UNCHANGED <<overlap, row>>
      BY <1>6, PersistEffect DEF Local
    <2>2. ~overlap => mine[b].missing = Missing
      BY <2>1 DEF Alone, Building
    <2>3. CASE Return(b)
      BY <1>1, <2>1, <2>3
    <2>4. CASE Advance(b, mine[b].missing \ mine[b].batch)
               /\ Missing' = Missing \ mine[b].batch
      BY <1>4, <2>1, <2>2, <2>4 DEF Building
    <2> QED
      BY <1>6, <2>3, <2>4, PersistEffect
  <1>7. ASSUME NEW b \in Builders, EmbedStored(b) \/ EmbedPaid(b) PROVE Alone'
    <2>1. /\ phase[b] = "embed" /\ UNCHANGED <<overlap, row>> /\ Missing' = Missing
          /\ \A a \in Builders \ {b} : phase'[a] = phase[a] /\ mine'[a] = mine[a]
      BY <1>7, EmbedEffect DEF Missing
    <2>2. CASE Return(b)
      BY <1>1, <2>1, <2>2
    <2>3. CASE phase'[b] = "persist" /\ mine'[b].missing = mine[b].missing
      <3>1. CASE overlap
        BY <2>1, <3>1 DEF Alone
      <3>2. CASE ~overlap
        <4>1. row.status = "incomplete" /\ mine[b].missing = Missing
          BY <2>1, <3>2 DEF Alone, Building
        <4> QED
          BY <2>1, <2>3, <3>2, <4>1, AloneKept
      <3> QED
        BY <3>1, <3>2
    <2> QED
      BY <1>7, <2>2, <2>3, EmbedEffect
  <1>8. ASSUME NEW b \in Builders, FinalizeSnapshot(b) \/ Abort(b) PROVE Alone'
    BY <1>1, <1>8 DEF FinalizeSnapshot, Abort, Raise, begun
  <1>9. CASE Search \/ Touch \/ UNCHANGED vars
    BY <1>9 DEF Search, Touch, vars, begun, Alone, Missing, Building
  <1> QED
    BY <1>2, <1>3, <1>5, <1>6, <1>7, <1>8, <1>9 DEF Next, Step
-----------------------------------------------------------------------------
(* Where builders cut.  What a batch leaves of a set is its Rest; the sets *)
(* that one gets from all chunks by taking rests are the Cuts, the least   *)
(* family of sets that is closed under it.  They are a chain: of two of    *)
(* them, one is what is left after batches of the other.  Nothing of this  *)
(* depends on where _batches cuts, only on its being a function of what is *)
(* missing and of the limits.                                              *)

Rest(S, limit) == S \ Batch(S, limit)

Closed(F, limit) == Chunks \in F /\ \A S \in F : Rest(S, limit) \in F

Cuts(limit) ==
    {S \in SUBSET Chunks :
        \A F \in SUBSET SUBSET Chunks : Closed(F, limit) => S \in F}

LEMMA CutsClosed ==
    ASSUME NEW limit
    PROVE  Closed(Cuts(limit), limit)
  <1>1. Chunks \in Cuts(limit)
    BY DEF Cuts, Closed
  <1>2. ASSUME NEW S \in Cuts(limit) PROVE Rest(S, limit) \in Cuts(limit)
    <2>1. Rest(S, limit) \in SUBSET Chunks
      BY <1>2 DEF Cuts, Rest
    <2>2. ASSUME NEW F \in SUBSET SUBSET Chunks, Closed(F, limit)
          PROVE  Rest(S, limit) \in F
      BY <1>2, <2>2 DEF Cuts, Closed
    <2> QED
      BY <2>1, <2>2 DEF Cuts
  <1> QED
    BY <1>1, <1>2 DEF Closed

LEMMA CutsLeast ==
    ASSUME NEW limit, NEW F \in SUBSET SUBSET Chunks, Closed(F, limit)
    PROVE  Cuts(limit) \subseteq F
  BY DEF Cuts

Ordered(S, T, limit) ==
    S = T \/ S \subseteq Rest(T, limit) \/ T \subseteq Rest(S, limit)

LEMMA CutsChain ==
    ASSUME NEW limit, NEW S \in Cuts(limit), NEW T \in Cuts(limit)
    PROVE  Ordered(S, T, limit)
  <1> DEFINE C == Cuts(limit)
             R(U) == Rest(U, limit)
             F == {U \in C : \A V \in C : Ordered(U, V, limit)}
  <1>1. /\ C \subseteq SUBSET Chunks /\ Chunks \in C
        /\ \A U \in C : R(U) \in C /\ R(U) \subseteq U
    BY CutsClosed DEF Cuts, Closed, Rest
  <1>2. Chunks \in F
    <2> DEFINE G == {V \in C : Chunks = V \/ V \subseteq R(Chunks)}
    <2>1. \A V \in G : R(V) \in G
      BY <1>1
    <2>2. C \subseteq G
      BY <1>1, <2>1, CutsLeast DEF Closed
    <2> QED
      BY <1>1, <2>2 DEF Ordered
  <1>3. ASSUME NEW U \in F PROVE R(U) \in F
    <2> DEFINE G == {V \in C : Ordered(R(U), V, limit)}
    <2>0. /\ U \in C /\ \A V \in C : U = V \/ U \subseteq R(V) \/ V \subseteq R(U)
      BY <1>3 DEF Ordered
    <2>1. Chunks \in G
      <3>1. R(U) = Chunks \/ R(U) \subseteq R(Chunks)
        BY <1>1, <2>0
      <3> QED
        BY <1>1, <3>1 DEF Ordered
    <2>2. ASSUME NEW V \in G PROVE R(V) \in G
      <3>1. /\ V \in C /\ R(V) \in C
            /\ R(U) = V \/ R(U) \subseteq R(V) \/ V \subseteq R(R(U))
        BY <1>1, <2>2 DEF Ordered
      <3>2. CASE R(U) = V
        BY <3>1, <3>2 DEF Ordered
      <3>3. CASE V \subseteq R(R(U))
        BY <1>1, <3>1, <3>3 DEF Ordered
      <3>4. CASE R(U) \subseteq R(V)
        <4>1. U = R(V) \/ U \subseteq R(R(V)) \/ R(V) \subseteq R(U)
          BY <2>0, <3>1
        <4>2. R(U) = R(V) \/ R(U) \subseteq R(R(V))
          BY <1>1, <2>0, <3>4, <4>1
        <4> QED
          BY <3>1, <4>2 DEF Ordered
      <3> QED
        BY <3>1, <3>2, <3>3, <3>4
    <2>3. C \subseteq G
      <3>1. Closed(G, limit) /\ G \in SUBSET SUBSET Chunks
        BY <1>1, <2>1, <2>2 DEF Closed
      <3> HIDE DEF G
      <3> QED
        BY <3>1, CutsLeast
    <2> QED
      BY <1>1, <2>0, <2>3
  <1>4. C \subseteq F
    <2>1. Closed(F, limit) /\ F \in SUBSET SUBSET Chunks
      BY <1>1, <1>2, <1>3 DEF Closed
    <2> HIDE DEF F
    <2> QED
      BY <2>1, CutsLeast
  <1> QED
    BY <1>4

(* As long as all builders have the same limits, what is missing, what     *)
(* they take to be missing, and what they ask for lies at the cuts.        *)
CutInv ==
    /\ used = {} => answers = {}
    /\ \A limit \in Limits : used \subseteq {limit} =>
          /\ Missing \in Cuts(limit)
          /\ \A b \in Builders : phase[b] \in Building => mine[b].missing \in Cuts(limit)
          /\ \A a \in answers : \E S \in Cuts(limit) : a.batch = Batch(S, limit)

LEMMA CutInit == Init => CutInv
  <1> SUFFICES ASSUME Init PROVE CutInv
    OBVIOUS
  <1>1. Missing = Chunks
    BY DEF Init, Missing
  <1>2. \A limit \in Limits : Chunks \in Cuts(limit)
    BY CutsClosed DEF Closed
  <1> QED
    BY <1>1, <1>2 DEF Init, CutInv, Building

(* One of the limits at a time. *)
CutAt(limit) ==
    /\ Missing \in Cuts(limit)
    /\ \A b \in Builders : phase[b] \in Building => mine[b].missing \in Cuts(limit)
    /\ \A a \in answers : \E S \in Cuts(limit) : a.batch = Batch(S, limit)

LEMMA CutKept ==
    ASSUME NEW limit \in Limits, CutAt(limit), NEW b \in Builders,
           Missing' \in Cuts(limit),
           \A a \in Builders \ {b} : phase'[a] = phase[a] /\ mine'[a] = mine[a],
           phase'[b] \in Building => mine'[b].missing \in Cuts(limit),
           answers' = answers \/ \E S \in Cuts(limit), version \in Versions \cup {Rejected} :
               answers' = answers \cup {[batch |-> Batch(S, limit), version |-> version]}
    PROVE  CutAt(limit)'
  <1>1. \A a \in Builders : phase'[a] \in Building => mine'[a].missing \in Cuts(limit)
    BY DEF CutAt
  <1>2. \A a \in answers' : \E S \in Cuts(limit) : a.batch = Batch(S, limit)
    BY DEF CutAt
  <1> QED
    BY <1>1, <1>2 DEF CutAt, Building

LEMMA CutAtStep ==
    ASSUME TypeInv, Behind, [Next]_vars, NEW limit \in Limits, used' \subseteq {limit},
           CutAt(limit)
    PROVE  CutAt(limit)'
  <1>0. SnapshotTypeOK /\ Missing \in Cuts(limit)
    BY DEF TypeInv, CutAt
  <1>1. ASSUME NEW b \in Builders, Return(b), UNCHANGED <<vectors, answers>>
        PROVE  CutAt(limit)'
    <2>1. Missing' = Missing
      BY <1>1 DEF Missing
    <2> QED
      BY <1>0, <1>1, <2>1, ReturnTypes, CutKept DEF Building
  <1>2. ASSUME NEW b \in Builders, Start(b) \/ CreateSnapshot(b), ~Return(b)
        PROVE  CutAt(limit)'
    <2>1. /\ phase'[b] \notin Building /\ UNCHANGED answers /\ Missing' = Missing
          /\ \A a \in Builders \ {b} : phase'[a] = phase[a] /\ mine'[a] = mine[a]
      BY <1>0, <1>2 DEF Start, CreateSnapshot, Raise, To, Set, SnapshotTypeOK, Building,
                        Missing
    <2> QED
      BY <1>0, <2>1, CutKept
  <1>3. ASSUME NEW b \in Builders, NEW S \in Cuts(limit), Advance(b, S),
               UNCHANGED answers, Missing' \in Cuts(limit), phase[b] # "idle"
        PROVE  CutAt(limit)'
    <2>1. mine[b] \in Local /\ S \in SUBSET Chunks
      BY <1>3 DEF TypeInv, Held, Cuts
    <2> QED
      BY <1>0, <1>3, <2>1, AdvanceTypes, CutKept
  <1>4. ASSUME NEW b \in Builders, Look(b) PROVE CutAt(limit)'
    <2>1. phase[b] # "idle" /\ Missing' = Missing /\ UNCHANGED <<vectors, answers>>
      BY <1>4 DEF Look, Missing
    <2> QED
      BY <1>0, <1>1, <1>3, <1>4, <2>1 DEF Look
  <1>5. ASSUME NEW b \in Builders, EmbedStored(b) \/ EmbedPaid(b) PROVE CutAt(limit)'
    <2>1. /\ phase[b] = "embed" /\ mine[b].limit = limit /\ Missing' = Missing
      <3>1. mine[b].limit \in used /\ used' = used
        BY <1>5, EmbedEffect DEF TypeInv, Held
      <3> QED
        BY <1>5, <3>1, EmbedEffect DEF Missing
    <2>2. mine[b].missing \in Cuts(limit) /\ mine[b].batch = Batch(mine[b].missing, limit)
      BY <2>1 DEF CutAt, Behind, Building
    <2>3. answers' = answers \/ \E S \in Cuts(limit), version \in Versions \cup {Rejected} :
               answers' = answers \cup {[batch |-> Batch(S, limit), version |-> version]}
      BY <1>5, <2>2 DEF EmbedStored, EmbedPaid
    <2>4. /\ \A a \in Builders \ {b} : phase'[a] = phase[a] /\ mine'[a] = mine[a]
          /\ phase'[b] \in Building => mine'[b].missing \in Cuts(limit)
      BY <1>0, <1>5, <2>2, EmbedEffect, ReturnTypes DEF Building
    <2> QED
      BY <1>0, <2>1, <2>3, <2>4, CutKept
  <1>6. ASSUME NEW b \in Builders, PersistBatch(b) PROVE CutAt(limit)'
    <2> DEFINE S == mine[b].missing
    <2>1. /\ phase[b] = "persist" /\ UNCHANGED <<answers, used>> /\ mine[b].limit \in used
          /\ mine[b] \in Local
      BY <1>6, PersistEffect DEF TypeInv, Held
    <2>2. /\ S \in Cuts(limit) /\ Missing \subseteq S
          /\ mine[b].batch = Batch(S, limit)
      BY <2>1 DEF CutAt, Behind, Building
    <2>3. CASE Return(b) /\ UNCHANGED vectors
      BY <1>1, <2>1, <2>3
    <2>4. CASE Advance(b, S \ mine[b].batch) /\ Missing' = Missing \ mine[b].batch
      <3>1. Rest(S, limit) \in Cuts(limit) /\ S \ mine[b].batch = Rest(S, limit)
        BY <2>2, CutsClosed DEF Closed, Rest
      <3>2. Missing' \in Cuts(limit)
        <4>1. Missing = S \/ Missing \subseteq Rest(S, limit) \/ S \subseteq Rest(Missing, limit)
          BY <1>0, <2>2, CutsChain DEF Ordered
        <4>2. CASE Missing \subseteq Rest(S, limit)
          <5>1. Missing' = Missing
            BY <2>2, <2>4, <4>2 DEF Rest
          <5> QED
            BY <1>0, <5>1
        <4>3. CASE Missing = S
          BY <2>4, <3>1, <4>3
        <4>4. CASE S \subseteq Rest(Missing, limit)
          <5>1. Missing = S
            BY <2>2, <4>4 DEF Rest
          <5> QED
            BY <4>3, <5>1
        <4> QED
          BY <4>1, <4>2, <4>3, <4>4
      <3> QED
        BY <1>3, <2>1, <2>4, <3>1, <3>2
    <2> QED
      BY <1>6, <2>3, <2>4, PersistEffect
  <1>7. ASSUME NEW b \in Builders, FinalizeSnapshot(b) \/ Abort(b) PROVE CutAt(limit)'
    BY <1>1, <1>7 DEF FinalizeSnapshot, Abort, Raise
  <1>8. CASE Search \/ Touch \/ UNCHANGED vars
    BY <1>8 DEF Search, Touch, vars, CutAt, Missing
  <1>9. ASSUME NEW b \in Builders, CreateSnapshot(b) PROVE UNCHANGED <<vectors, answers>>
    BY <1>9 DEF CreateSnapshot
  <1>10. ASSUME NEW b \in Builders, Start(b) PROVE UNCHANGED <<vectors, answers>>
    BY <1>10 DEF Start
  <1> QED
    BY <1>1, <1>2, <1>4, <1>5, <1>6, <1>7, <1>8, <1>9, <1>10 DEF Next, Step

LEMMA CutStep == TypeInv /\ Behind /\ CutInv /\ [Next]_vars => CutInv'
  <1> SUFFICES ASSUME TypeInv, Behind, CutInv, [Next]_vars PROVE CutInv'
    OBVIOUS
  <1>1. used \subseteq used'
    BY DEF Next, vars, Start, Step, CreateSnapshot, Look, EmbedStored, EmbedPaid,
           PersistBatch, FinalizeSnapshot, Abort, Search, Touch, begun
  <1>2. used' = {} => answers' = {}
    <2>1. ASSUME NEW b \in Builders, EmbedPaid(b) PROVE used # {}
      BY <2>1, EmbedEffect DEF TypeInv, Held
    <2> QED
      BY <1>1, <2>1, AnswersGrow DEF CutInv
  <1>3. \A limit \in Limits : used \subseteq {limit} => CutAt(limit)
    BY DEF CutInv, CutAt
  <1>4. \A limit \in Limits : used' \subseteq {limit} => CutAt(limit)'
    BY <1>1, <1>3, CutAtStep
  <1> QED
    BY <1>2, <1>4 DEF CutInv, CutAt
SnapIInv == TypeInv /\ TableInv /\ AnswersInv /\ Alone /\ CutInv

(* The inductive invariant of the builders and the repository.             *)
THEOREM SnapshotInvariant == Spec => []SnapIInv
  <1>1. Init => SnapIInv
    BY TypeInit, TableInit, AnswersInit, AloneInit, CutInit DEF SnapIInv
  <1>2. SnapIInv /\ [Next]_vars => SnapIInv'
    BY TypeStep, TableStep, AnswersStep, AloneStep, CutStep DEF SnapIInv, TableInv
  <1> QED
    BY <1>1, <1>2, PTL DEF Spec

(* With one choice of limits two stored responses share no chunk: their    *)
(* batches were cut off two sets of the chain.                             *)
LEMMA AnswersDisjoint ==
    ASSUME SnapIInv, NEW limit \in Limits, used \subseteq {limit},
           NEW a1 \in answers, NEW a2 \in answers, a1.batch \cap a2.batch # {}
    PROVE  a1 = a2
  <1>1. PICK S \in Cuts(limit), T \in Cuts(limit) :
            a1.batch = Batch(S, limit) /\ a2.batch = Batch(T, limit)
    BY DEF SnapIInv, CutInv
  <1>2. Batch(S, limit) \subseteq S /\ Batch(T, limit) \subseteq T
    BY BatchPart
  <1>3. S = T
    BY <1>1, <1>2, CutsChain DEF Ordered, Rest
  <1> QED
    BY <1>1, <1>3 DEF SnapIInv, AnswersInv, OneAnswer

(* No chunk is embedded in two requests as long as --max-batch-items and   *)
(* --max-batch-tokens stay the same, whoever crashes, resumes or overlaps. *)
THEOREM ChunksPaidOnceHolds == Spec => []ChunksPaidOnce
  <1>1. SnapIInv => ChunksPaidOnce
    <2> SUFFICES ASSUME SnapIInv, Cardinality(used) <= 1,
                        NEW a1 \in answers, NEW a2 \in answers,
                        a1.batch \cap a2.batch # {}
                 PROVE  a1 = a2
      BY DEF ChunksPaidOnce
    <2>1. used \subseteq Limits /\ IsFiniteSet(used) /\ used # {}
      BY DEF SnapIInv, TypeInv, SnapshotTypeOK, CutInv
    <2>2. Cardinality(used) \in Nat /\ Cardinality(used) # 0
      BY <2>1, FS_CardinalityType, FS_EmptySet
    <2>3. Cardinality(used) = 1
      BY <2>2
    <2>4. PICK limit : used = {limit}
      BY <2>1, <2>3, FS_Singleton
    <2> QED
      BY <2>1, <2>4, AnswersDisjoint
  <1> QED
    BY <1>1, SnapshotInvariant, PTL
-----------------------------------------------------------------------------
(* Why the repository refuses.                                             *)

Refusals ==
    /\ "conflict" \in errors =>
          overlap /\ used # {} /\ \A limit \in Limits : ~(used \subseteq {limit})
    /\ "immutable" \in errors => overlap
    /\ "metadata" \in errors => mtime > 0
    /\ "inexact" \notin errors

LEMMA RefusalsStep == SnapIInv /\ Refusals /\ [Next]_vars => Refusals'
  <1> SUFFICES ASSUME SnapIInv, Refusals, [Next]_vars PROVE Refusals'
    OBVIOUS
  <1>0. TypeInv /\ SnapshotTypeOK /\ Behind /\ Alone
    BY DEF SnapIInv, TypeInv, TableInv
  <1>1. used \subseteq used' /\ (overlap => overlap') /\ mtime' \in Nat /\ mtime' >= mtime
    <2>1. CASE UNCHANGED <<used, overlap, mtime>>
      BY <1>0, <2>1 DEF SnapshotTypeOK
    <2>2. ASSUME NEW b \in Builders, Start(b)
          PROVE  UNCHANGED mtime /\ used \subseteq used' /\ (overlap => overlap')
      BY <2>2 DEF Start
    <2>3. CASE Touch
      BY <1>0, <2>3 DEF Touch, SnapshotTypeOK, begun
    <2>4. UNCHANGED <<used, overlap, mtime>> \/ Touch \/ \E b \in Builders : Start(b)
      BY DEF Next, vars, Step, CreateSnapshot, Look, EmbedStored, EmbedPaid, PersistBatch,
             FinalizeSnapshot, Abort, Search, begun
    <2>5. ASSUME NEW b \in Builders, Start(b)
          PROVE  mtime' \in Nat /\ mtime' >= mtime
      BY <1>0, <2>2, <2>5 DEF SnapshotTypeOK
    <2> QED
      BY <2>1, <2>2, <2>3, <2>4, <2>5
  <1>2. CASE UNCHANGED errors
    BY <1>0, <1>1, <1>2 DEF Refusals, SnapshotTypeOK
  <1>3. ASSUME NEW b \in Builders, CreateSnapshot(b), errors' # errors PROVE Refusals'
    <2>1. /\ row.created_at # mine[b].created_at /\ errors' = errors \cup {"metadata"}
          /\ phase[b] # "idle" /\ UNCHANGED <<used, overlap, mtime>>
      BY <1>3 DEF CreateSnapshot, Raise, begun
    <2>2. /\ row.created_at \in Nat /\ row.created_at <= mtime
          /\ mine[b].created_at \in Nat /\ mine[b].created_at <= mtime /\ mtime \in Nat
      BY <1>0, <2>1 DEF TypeInv, Held, Local, SnapshotTypeOK, Row
    <2>3. mtime > 0
      BY <2>1, <2>2
    <2> QED
      BY <2>1, <2>3 DEF Refusals
  <1>4. ASSUME NEW b \in Builders, PersistBatch(b), errors' # errors PROVE Refusals'
    <2> DEFINE hand == [batch |-> mine[b].batch, version |-> mine[b].version]
    <2>1. /\ phase[b] = "persist" /\ mine[b] \in Local
          /\ UNCHANGED <<used, overlap, mtime>>
      BY <1>0, <1>4, PersistEffect
    <2>2. CASE row.status = "complete" /\ errors' = errors \cup {"immutable"}
      <3>1. overlap
        BY <1>0, <2>1, <2>2 DEF Alone, Building
      <3> QED
        BY <2>1, <2>2, <3>1 DEF Refusals
    <2>3. CASE /\ Clashes(mine[b].batch, mine[b].version)
               /\ errors' = errors \cup {"conflict"}
      <3>1. PICK c \in mine[b].batch : vectors[c] \notin {None, mine[b].version}
        BY <2>3 DEF Clashes
      <3>2. c \in Chunks /\ vectors[c] # None
        BY <2>1, <3>1 DEF Local
      <3>3. overlap
        <4>1. mine[b].batch \subseteq mine[b].missing
          BY <1>0, <2>1, BatchPart DEF Behind, Building
        <4>2. c \notin Missing
          BY <3>2 DEF Missing
        <4> QED
          BY <1>0, <2>1, <3>1, <4>1, <4>2 DEF Alone, Building
      <3>4. ASSUME NEW limit \in Limits, used \subseteq {limit} PROVE FALSE
        <4>1. PICK a \in answers : c \in a.batch /\ a.version = vectors[c]
          BY <3>2 DEF SnapIInv, AnswersInv, VectorsBacked
        <4>2. hand \in answers
          BY <2>1 DEF SnapIInv, AnswersInv, HandBacked
        <4>3. a.batch \cap hand.batch # {}
          BY <3>1, <4>1
        <4>4. a = hand
          BY <3>4, <4>2, <4>3, AnswersDisjoint
        <4> QED
          BY <3>1, <4>1, <4>4
      <3>5. used # {}
        BY <1>0, <2>1 DEF TypeInv, Held
      <3> QED
        BY <2>1, <2>3, <3>3, <3>4, <3>5 DEF Refusals
    <2> QED
      BY <1>0, <1>4, <2>2, <2>3, PersistEffect
  <1>5. ASSUME NEW b \in Builders, FinalizeSnapshot(b) PROVE UNCHANGED errors
    <2>1. Missing = {}
      BY <1>0, <1>5 DEF FinalizeSnapshot, Behind, Building
    <2> QED
      BY <1>5, <2>1 DEF FinalizeSnapshot
  <1> QED
    BY <1>2, <1>3, <1>4, <1>5
    DEF Next, vars, Start, Step, Look, EmbedStored, EmbedPaid, Abort, Search, Touch

(* A builder that has the snapshot to itself, an unchanged file and the    *)
(* limits of those before it is never refused by the repository.           *)
THEOREM RefusalsExplainedHolds == Spec => []RefusalsExplained
  <1>1. Init => Refusals
    BY DEF Init, Refusals
  <1>2. Spec => []Refusals
    BY <1>1, RefusalsStep, SnapshotInvariant, PTL DEF Spec
  <1>3. SnapIInv /\ Refusals => RefusalsExplained
    <2> SUFFICES ASSUME SnapIInv, Refusals, "conflict" \in errors
                 PROVE  Cardinality(used) > 1
      BY DEF Refusals, RefusalsExplained
    <2>1. used \subseteq Limits /\ IsFiniteSet(used)
          /\ \A limit \in Limits : ~(used \subseteq {limit})
      BY DEF SnapIInv, TypeInv, SnapshotTypeOK, Refusals
    <2>2. Cardinality(used) # 1
      <3>1. ASSUME Cardinality(used) = 1 PROVE FALSE
        <4>1. PICK limit : used = {limit}
          BY <2>1, <3>1, FS_Singleton
        <4> QED
          BY <2>1, <4>1
      <3> QED
        BY <3>1
    <2>3. Cardinality(used) \in Nat /\ Cardinality(used) # 0
      BY <2>1, FS_CardinalityType, FS_EmptySet DEF Refusals
    <2> QED
      BY <2>2, <2>3
  <1> QED
    BY <1>2, <1>3, SnapshotInvariant, PTL
==============================================================================
