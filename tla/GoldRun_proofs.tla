---------------------------- MODULE GoldRun_proofs ----------------------------
(***************************************************************************)
(* Theorems about GoldRun, for any number of processes, preregistrations,  *)
(* slots, scores, reports, invocations and invalidations, and about the    *)
(* splits the sealed items come from, for benchmarks of any size.          *)
(***************************************************************************)
EXTENDS GoldRun, Splits, FiniteSetTheorems, SequenceTheorems, TLAPS

(* What the local variables of a process say of the sealed file sl, the    *)
(* manifest mf and the results rs.                                         *)
InvalidatorSound(r, mf) ==
    r \in Invalidator /\ mf # None /\ r.sequence \in 1..MaxInvalidations

InvocationSound(r, sl, mf, rs) ==
    /\ r \in Invocation
    /\ sl = CohortOf[r.prereg]
    /\ r.pc \notin {"initialize", "create"} => mf = r.prereg
    /\ r.pc \in {"execute", "save"} => r.slot \in Slots
    /\ r.pc = "save" => r.score \in Scores
    /\ r.pc \in {"check", "collect", "publish"} => r.report \in Reports
    /\ r.pc = "publish" =>
         /\ r.scores \in [Slots -> Scores]
         /\ \A s \in Slots : rs[s] = [prereg |-> r.prereg, score |-> r.scores[s]]

Sound(r, sl, mf, rs) ==
    r = Idle \/ InvalidatorSound(r, mf) \/ InvocationSound(r, sl, mf, rs)

RunsSound ==
    /\ run = [p \in Processes |-> run[p]]
    /\ \A p \in Processes : Sound(run[p], sealed, manifest, results)

(* The files in themselves: one preregistration, one cohort. *)
FilesTypeOK ==
    /\ sealed \in Cohorts \cup {None}
    /\ registered \subseteq Preregs
    /\ manifest \in Preregs \cup {None}
    /\ results \in [Slots -> Result \cup {None}]
    /\ invalidations \in Seq(Preregs)
    /\ reports \in [Reports -> Report \cup {None}]

HistoryTypeOK ==
    /\ executed \in [Slots -> Nat]
    /\ overlapped \in BOOLEAN /\ interrupted \in BOOLEAN /\ starts \in Nat

FilesBound ==
    /\ manifest # None => sealed = CohortOf[manifest]
    /\ \A s \in Slots : results[s] # None => results[s].prereg = manifest
    /\ Len(invalidations) <= MaxInvalidations

GoldIInv ==
    FilesTypeOK /\ HistoryTypeOK /\ RunsSound /\ FilesBound /\ ReportsStayTrue

(* What is published stays. *)
Grows(sl, mf, rs, sl2, mf2, rs2) ==
    /\ sl # None => sl2 = sl
    /\ mf # None => mf2 = mf
    /\ \A s \in Slots : rs[s] # None => rs2[s] = rs[s]

LEMMA GrowsSelf == ASSUME NEW sl, NEW mf, NEW rs PROVE Grows(sl, mf, rs, sl, mf, rs)
  BY DEF Grows

LEMMA SoundGrows ==
    ASSUME NEW r, NEW sl, NEW mf, NEW rs, NEW sl2, NEW mf2, NEW rs2,
           Sound(r, sl, mf, rs), Grows(sl, mf, rs, sl2, mf2, rs2)
    PROVE  Sound(r, sl2, mf2, rs2)
  <1>1. CASE InvalidatorSound(r, mf)
    BY <1>1 DEF Sound, InvalidatorSound, Grows
  <1>2. CASE InvocationSound(r, sl, mf, rs)
    <2>1. r.prereg \in Preregs /\ CohortOf[r.prereg] # None /\ r.prereg # None
      BY <1>2, GoldAssumption DEF InvocationSound, Invocation, Cohorts
    <2>2. sl2 = CohortOf[r.prereg]
      BY <1>2, <2>1 DEF InvocationSound, Grows
    <2>3. r.pc \notin {"initialize", "create"} => mf2 = r.prereg
      BY <1>2, <2>1 DEF InvocationSound, Grows
    <2>4. ASSUME r.pc = "publish", NEW s \in Slots
          PROVE  rs2[s] = [prereg |-> r.prereg, score |-> r.scores[s]]
      <3>1. rs[s] = [prereg |-> r.prereg, score |-> r.scores[s]] /\ r.scores[s] \in Scores
        BY <1>2, <2>4 DEF InvocationSound
      <3>2. rs[s] \in Result
        BY <2>1, <3>1 DEF Result
      <3> QED
        BY <3>1, <3>2, GoldAssumption DEF Grows
    <2> QED
      BY <1>2, <2>2, <2>3, <2>4 DEF InvocationSound, Sound
  <1> QED
    BY <1>1, <1>2 DEF Sound

(* A step of one process, seen from the others. *)
LEMMA RunsSoundKept ==
    ASSUME RunsSound, NEW p \in Processes, NEW x,
           run' = [run EXCEPT ![p] = x],
           Grows(sealed, manifest, results, sealed', manifest', results'),
           Sound(x, sealed', manifest', results')
    PROVE  RunsSound'
  <1>1. ASSUME NEW q \in Processes PROVE Sound(run'[q], sealed', manifest', results')
    BY <1>1, SoundGrows DEF RunsSound
  <1> QED
    BY <1>1 DEF RunsSound

LEMMA EndKept ==
    ASSUME RunsSound, NEW p \in Processes, End(p),
           Grows(sealed, manifest, results, sealed', manifest', results')
    PROVE  RunsSound'
  <1>1. Sound(Idle, sealed', manifest', results')
    BY DEF Sound
  <1> QED
    BY <1>1, RunsSoundKept DEF End

(* What a process that is somewhere knows. *)
LEMMA InvocationAt ==
    ASSUME RunsSound, NEW p \in Processes, Active(p)
    PROVE  InvocationSound(run[p], sealed, manifest, results)
  BY DEF RunsSound, Sound, InvalidatorSound, Invalidator, Active, Idle

LEMMA InvalidatorAt ==
    ASSUME RunsSound, NEW p \in Processes, At(p, "invalidate")
    PROVE  InvalidatorSound(run[p], manifest)
  BY DEF RunsSound, Sound, InvocationSound, Invocation, At, Idle

LEMMA TypesFollow == GoldIInv => GoldTypeOK
  BY DEF GoldIInv, GoldTypeOK, FilesTypeOK, HistoryTypeOK, RunsSound, Sound,
         InvalidatorSound, InvocationSound

LEMMA GoldInit == Init => GoldIInv
  <1> SUFFICES ASSUME Init PROVE GoldIInv
    OBVIOUS
  <1>1. FilesTypeOK
    BY DEF Init, FilesTypeOK
  <1>2. HistoryTypeOK
    BY DEF Init, HistoryTypeOK
  <1>3. RunsSound
    BY DEF Init, RunsSound, Sound
  <1>4. FilesBound
    BY GoldAssumption DEF Init, FilesBound
  <1>5. ReportsStayTrue
    BY DEF Init, ReportsStayTrue
  <1> QED
    BY <1>1, <1>2, <1>3, <1>4, <1>5 DEF GoldIInv

(* A step that leaves the files alone. *)
LEMMA DiskKept ==
    ASSUME FilesTypeOK, FilesBound, ReportsStayTrue, UNCHANGED disk
    PROVE  FilesTypeOK' /\ FilesBound' /\ ReportsStayTrue'
           /\ Grows(sealed, manifest, results, sealed', manifest', results')
  BY GrowsSelf DEF FilesTypeOK, FilesBound, ReportsStayTrue, disk

LEMMA HistoryKept == ASSUME HistoryTypeOK, UNCHANGED history PROVE HistoryTypeOK'
  BY DEF HistoryTypeOK, history

LEMMA ExecutedTypes ==
    ASSUME HistoryTypeOK, NEW s, executed' = [executed EXCEPT ![s] = @ + 1]
    PROVE  /\ executed' \in [Slots -> Nat]
           /\ executed' = [t \in Slots |-> IF t = s THEN executed[t] + 1 ELSE executed[t]]
  <1>1. \A t \in Slots : executed[t] \in Nat /\ executed[t] + 1 \in Nat
    BY DEF HistoryTypeOK
  <1>2. executed' = [t \in Slots |-> IF t = s THEN executed[t] + 1 ELSE executed[t]]
    BY DEF HistoryTypeOK
  <1> QED
    BY <1>1, <1>2

LEMMA GoldStep == GoldIInv /\ [Next]_vars => GoldIInv'
  <1> SUFFICES ASSUME GoldIInv, [Next]_vars PROVE GoldIInv'
    OBVIOUS
  <1>a. FilesTypeOK /\ HistoryTypeOK /\ RunsSound /\ FilesBound /\ ReportsStayTrue
    BY DEF GoldIInv
  <1>1. ASSUME NEW c \in Cohorts, Seal(c) PROVE GoldIInv'
    <2>1. Grows(sealed, manifest, results, sealed', manifest', results')
      BY <1>1 DEF Seal, Grows
    <2>2. FilesTypeOK' /\ FilesBound'
      BY <1>1, <1>a, GoldAssumption DEF Seal, FilesTypeOK, FilesBound, Cohorts
    <2>3. ReportsStayTrue'
      BY <1>1, <1>a, GoldAssumption DEF Seal, ReportsStayTrue, FilesTypeOK, Report, Cohorts
    <2>4. RunsSound'
      BY <1>1, <1>a, <2>1, SoundGrows DEF Seal, RunsSound
    <2> QED
      BY <1>1, <1>a, <2>2, <2>3, <2>4, HistoryKept DEF GoldIInv, Seal
  <1>2. ASSUME NEW e \in Preregs, Register(e) PROVE GoldIInv'
    BY <1>2, <1>a, HistoryKept
       DEF Register, GoldIInv, FilesTypeOK, FilesBound, ReportsStayTrue, RunsSound
  <1>3. ASSUME NEW p \in Processes, Step(p) PROVE GoldIInv'
    <2>1. CASE Start(p)
      <3> PICK e \in registered, metadata \in Cohorts, resume \in BOOLEAN,
               r \in Reports \cup {None} :
            /\ VerifyFrozenInputs(e, metadata) /\ LoadSealedGold(metadata)
            /\ run' = [run EXCEPT ![p] =
                 [pc |-> "initialize", prereg |-> e, resume |-> resume, report |-> r,
                  slot |-> 1, score |-> None, scores |-> None]]
        BY <2>1 DEF Start
      <3> DEFINE x == [pc |-> "initialize", prereg |-> e, resume |-> resume, report |-> r,
                       slot |-> 1, score |-> None, scores |-> None]
      <3>1. UNCHANGED disk
        BY <2>1 DEF Start
      <3>2. InvocationSound(x, sealed, manifest, results)
        BY <1>a, GoldAssumption
           DEF InvocationSound, Invocation, FilesTypeOK, VerifyFrozenInputs, LoadSealedGold
      <3>3. Sound(x, sealed', manifest', results')
        BY <3>1, <3>2 DEF Sound, disk
      <3>4. run' = [run EXCEPT ![p] = x]
        OBVIOUS
      <3> HIDE DEF x
      <3>5. RunsSound'
        BY <1>a, <3>1, <3>3, <3>4, DiskKept, RunsSoundKept
      <3>6. HistoryTypeOK'
        BY <2>1, <1>a DEF Start, HistoryTypeOK
      <3> QED
        BY <1>a, <3>1, <3>5, <3>6, DiskKept DEF GoldIInv
    <2>2. CASE Initialize(p)
      <3>1. UNCHANGED disk /\ UNCHANGED history
        BY <2>2 DEF Initialize
      <3>2. InvocationSound(run[p], sealed, manifest, results) /\ run[p].pc = "initialize"
        BY <2>2, <1>a, InvocationAt DEF Initialize, At, Active
      <3>3. CASE End(p)
        BY <1>a, <3>1, <3>3, DiskKept, HistoryKept, EndKept DEF GoldIInv
      <3>4. CASE Goto(p, "create") \/ (manifest = run[p].prereg /\ Goto(p, "look"))
        <4> PICK pc \in {"create", "look"} :
              Goto(p, pc) /\ (pc = "look" => manifest = run[p].prereg)
          BY <3>4
        <4> DEFINE x == [run[p] EXCEPT !.pc = pc]
        <4>1. InvocationSound(x, sealed, manifest, results)
          BY <3>2 DEF InvocationSound, Invocation
        <4>2. run' = [run EXCEPT ![p] = x]
          BY DEF Goto
        <4>3. Sound(x, sealed', manifest', results')
          BY <3>1, <4>1 DEF Sound, disk
        <4> HIDE DEF x
        <4>4. RunsSound'
          BY <1>a, <3>1, <4>2, <4>3, DiskKept, RunsSoundKept
        <4> QED
          BY <1>a, <3>1, <4>4, DiskKept, HistoryKept DEF GoldIInv
      <3> QED
        BY <2>2, <3>3, <3>4 DEF Initialize
    <2>3. CASE CreateManifest(p)
      <3>1. /\ InvocationSound(run[p], sealed, manifest, results) /\ run[p].pc = "create"
            /\ run[p].prereg \in Preregs
        BY <2>3, <1>a, InvocationAt DEF CreateManifest, At, Active, InvocationSound, Invocation
      <3>2. /\ manifest' = IF manifest = None THEN run[p].prereg ELSE manifest
            /\ UNCHANGED <<sealed, registered, results, invalidations, reports, history>>
        BY <2>3 DEF CreateManifest, Link
      <3>3. Grows(sealed, manifest, results, sealed', manifest', results')
        BY <3>2 DEF Grows
      <3>4. FilesTypeOK'
        BY <1>a, <3>1, <3>2 DEF FilesTypeOK
      <3>5. FilesBound'
        <4>1. manifest' # None => sealed' = CohortOf[manifest']
          BY <1>a, <3>1, <3>2 DEF FilesBound, InvocationSound
        <4>2. ASSUME NEW s \in Slots, results'[s] # None PROVE results'[s].prereg = manifest'
          <5>1. results[s].prereg = manifest /\ results[s] \in Result
            BY <1>a, <3>2, <4>2 DEF FilesBound, FilesTypeOK
          <5>2. manifest # None
            BY <5>1, GoldAssumption DEF Result
          <5> QED
            BY <3>2, <5>1, <5>2
        <4> QED
          BY <1>a, <3>2, <4>1, <4>2 DEF FilesBound
      <3>6. ReportsStayTrue'
        BY <1>a, <3>2 DEF ReportsStayTrue
      <3>7. RunsSound'
        <4>1. CASE End(p)
          BY <1>a, <3>3, <4>1, EndKept
        <4>2. CASE manifest = None /\ Goto(p, "look")
          <5> DEFINE x == [run[p] EXCEPT !.pc = "look"]
          <5>1. InvocationSound(x, sealed', manifest', results')
            BY <3>1, <3>2, <4>2 DEF InvocationSound, Invocation
          <5>2. Sound(x, sealed', manifest', results') /\ run' = [run EXCEPT ![p] = x]
            BY <4>2, <5>1 DEF Sound, Goto
          <5> HIDE DEF x
          <5> QED
            BY <1>a, <3>3, <5>2, RunsSoundKept
        <4> QED
          BY <2>3, <4>1, <4>2 DEF CreateManifest
      <3> QED
        BY <1>a, <3>2, <3>4, <3>5, <3>6, <3>7, HistoryKept DEF GoldIInv
    <2>4. CASE Look(p)
      <3>1. UNCHANGED disk /\ UNCHANGED history
        BY <2>4 DEF Look
      <3>2. /\ InvocationSound(run[p], sealed, manifest, results) /\ run[p].pc = "look"
            /\ run[p].slot \in 1..(LastSlot + 1)
        BY <2>4, <1>a, InvocationAt DEF Look, At, Active, InvocationSound, Invocation
      <3>3. CASE End(p)
        BY <1>a, <3>1, <3>3, DiskKept, HistoryKept, EndKept DEF GoldIInv
      <3>4. ASSUME NEW x, run' = [run EXCEPT ![p] = x],
                   InvocationSound(x, sealed, manifest, results)
            PROVE  GoldIInv'
        <4>1. Sound(x, sealed', manifest', results')
          BY <3>1, <3>4 DEF Sound, disk
        <4>2. RunsSound'
          BY <1>a, <3>1, <3>4, <4>1, DiskKept, RunsSoundKept
        <4> QED
          BY <1>a, <3>1, <4>2, DiskKept, HistoryKept DEF GoldIInv
      <3>5. CASE run[p].report # None /\ Goto(p, "check")
        <4> DEFINE x == [run[p] EXCEPT !.pc = "check"]
        <4>1. InvocationSound(x, sealed, manifest, results)
          BY <3>2, <3>5 DEF InvocationSound, Invocation
        <4>2. run' = [run EXCEPT ![p] = x]
          BY <3>5 DEF Goto
        <4> HIDE DEF x
        <4> QED
          BY <3>4, <4>1, <4>2
      <3>6. CASE run[p].slot <= LastSlot /\ Goto(p, "execute")
        <4> DEFINE x == [run[p] EXCEPT !.pc = "execute"]
        <4>1. InvocationSound(x, sealed, manifest, results)
          BY <3>2, <3>6, GoldAssumption DEF InvocationSound, Invocation, Slots
        <4>2. run' = [run EXCEPT ![p] = x]
          BY <3>6 DEF Goto
        <4> HIDE DEF x
        <4> QED
          BY <3>4, <4>1, <4>2
      <3>7. CASE run[p].slot <= LastSlot /\ run' = [run EXCEPT ![p].slot = run[p].slot + 1]
        <4> DEFINE x == [run[p] EXCEPT !.slot = run[p].slot + 1]
        <4>1. run[p].slot + 1 \in 1..(LastSlot + 1)
          BY <3>2, <3>7, GoldAssumption
        <4>2. InvocationSound(x, sealed, manifest, results)
          BY <3>2, <4>1 DEF InvocationSound, Invocation
        <4>3. run' = [run EXCEPT ![p] = x]
          BY <3>7
        <4> HIDE DEF x
        <4> QED
          BY <3>4, <4>2, <4>3
      <3> QED
        BY <2>4, <3>2, <3>3, <3>5, <3>6, <3>7, GoldAssumption DEF Look
    <2>5. CASE Execute(p)
      <3>a. executed' \in [Slots -> Nat]
        BY <2>5, <1>a, ExecutedTypes DEF Execute
      <3>1. UNCHANGED disk /\ HistoryTypeOK'
        BY <2>5, <1>a, <3>a DEF Execute, HistoryTypeOK
      <3>2. InvocationSound(run[p], sealed, manifest, results) /\ run[p].pc = "execute"
        BY <2>5, <1>a, InvocationAt DEF Execute, At, Active
      <3> PICK v \in Scores : run' = [run EXCEPT ![p].pc = "save", ![p].score = v]
        BY <2>5 DEF Execute
      <3> DEFINE x == [run[p] EXCEPT !.pc = "save", !.score = v]
      <3>3. InvocationSound(x, sealed, manifest, results)
        BY <3>2 DEF InvocationSound, Invocation
      <3>4. Sound(x, sealed', manifest', results') /\ run' = [run EXCEPT ![p] = x]
        BY <3>1, <3>3 DEF Sound, disk
      <3> HIDE DEF x
      <3>5. RunsSound'
        BY <1>a, <3>1, <3>4, DiskKept, RunsSoundKept
      <3> QED
        BY <1>a, <3>1, <3>5, DiskKept DEF GoldIInv
    <2>6. CASE ExecuteFails(p)
      <3>a. executed' \in [Slots -> Nat]
        BY <2>6, <1>a, ExecutedTypes DEF ExecuteFails
      <3>1. UNCHANGED disk /\ HistoryTypeOK' /\ End(p)
        BY <2>6, <1>a, <3>a DEF ExecuteFails, HistoryTypeOK
      <3> QED
        BY <1>a, <3>1, DiskKept, EndKept DEF GoldIInv
    <2>7. CASE Save(p)
      <3> DEFINE s == run[p].slot
                 file == [prereg |-> run[p].prereg, score |-> run[p].score]
      <3>1. /\ InvocationSound(run[p], sealed, manifest, results) /\ run[p].pc = "save"
            /\ s \in Slots /\ run[p].score \in Scores /\ run[p].prereg \in Preregs
            /\ manifest = run[p].prereg /\ file \in Result
        BY <2>7, <1>a, InvocationAt
           DEF Save, At, Active, InvocationSound, Invocation, Result
      <3>2. /\ results' = [results EXCEPT ![s] = IF results[s] = None THEN file ELSE results[s]]
            /\ UNCHANGED <<sealed, registered, manifest, invalidations, reports, history>>
        BY <2>7 DEF Save, Link
      <3>3. Grows(sealed, manifest, results, sealed', manifest', results')
        BY <1>a, <3>1, <3>2 DEF Grows, FilesTypeOK
      <3>4. FilesTypeOK'
        BY <1>a, <3>1, <3>2 DEF FilesTypeOK
      <3>5. FilesBound'
        BY <1>a, <3>1, <3>2 DEF FilesBound, FilesTypeOK
      <3>6. ReportsStayTrue'
        <4> SUFFICES ASSUME NEW r \in Reports, reports[r] # None
                     PROVE  /\ sealed = CohortOf[reports[r].prereg]
                            /\ \A t \in Slots : results'[t] =
                                 [prereg |-> reports[r].prereg, score |-> reports[r].scores[t]]
          BY <3>2 DEF ReportsStayTrue
        <4>1. /\ sealed = CohortOf[reports[r].prereg]
              /\ \A t \in Slots : results[t] =
                   [prereg |-> reports[r].prereg, score |-> reports[r].scores[t]]
          BY <1>a DEF ReportsStayTrue
        <4>2. \A t \in Slots :
                [prereg |-> reports[r].prereg, score |-> reports[r].scores[t]] \in Result
          BY <1>a DEF FilesTypeOK, Report, Result
        <4> HIDE DEF s, file
        <4> QED
          BY <3>3, <4>1, <4>2, GoldAssumption DEF Grows
      <3>7. RunsSound'
        <4>1. CASE End(p)
          BY <1>a, <3>3, <4>1, EndKept
        <4>2. CASE run' = [run EXCEPT ![p].pc = "look", ![p].slot = s + 1, ![p].score = None]
          <5> DEFINE x == [run[p] EXCEPT !.pc = "look", !.slot = s + 1, !.score = None]
          <5>1. s + 1 \in 1..(LastSlot + 1)
            BY <3>1, GoldAssumption DEF Slots
          <5>2. InvocationSound(x, sealed', manifest', results')
            BY <3>1, <3>2, <5>1 DEF InvocationSound, Invocation
          <5>3. Sound(x, sealed', manifest', results') /\ run' = [run EXCEPT ![p] = x]
            BY <4>2, <5>2 DEF Sound
          <5> HIDE DEF x
          <5> QED
            BY <1>a, <3>3, <5>3, RunsSoundKept
        <4> QED
          BY <2>7, <4>1, <4>2 DEF Save
      <3> QED
        BY <1>a, <3>2, <3>4, <3>5, <3>6, <3>7, HistoryKept DEF GoldIInv
    <2>8. CASE CheckInvalidations(p)
      <3>1. UNCHANGED disk /\ UNCHANGED history
        BY <2>8 DEF CheckInvalidations
      <3>2. InvocationSound(run[p], sealed, manifest, results) /\ run[p].pc = "check"
        BY <2>8, <1>a, InvocationAt DEF CheckInvalidations, At, Active
      <3>3. CASE End(p)
        BY <1>a, <3>1, <3>3, DiskKept, HistoryKept, EndKept DEF GoldIInv
      <3>4. CASE Goto(p, "collect")
        <4> DEFINE x == [run[p] EXCEPT !.pc = "collect"]
        <4>1. InvocationSound(x, sealed, manifest, results)
          BY <3>2 DEF InvocationSound, Invocation
        <4>2. Sound(x, sealed', manifest', results') /\ run' = [run EXCEPT ![p] = x]
          BY <3>1, <3>4, <4>1 DEF Sound, disk, Goto
        <4> HIDE DEF x
        <4>3. RunsSound'
          BY <1>a, <3>1, <4>2, DiskKept, RunsSoundKept
        <4> QED
          BY <1>a, <3>1, <4>3, DiskKept, HistoryKept DEF GoldIInv
      <3> QED
        BY <2>8, <3>3, <3>4 DEF CheckInvalidations
    <2>9. CASE Collect(p)
      <3>1. UNCHANGED disk /\ UNCHANGED history
        BY <2>9 DEF Collect
      <3>2. InvocationSound(run[p], sealed, manifest, results) /\ run[p].pc = "collect"
        BY <2>9, <1>a, InvocationAt DEF Collect, At, Active
      <3>3. CASE End(p)
        BY <1>a, <3>1, <3>3, DiskKept, HistoryKept, EndKept DEF GoldIInv
      <3>4. CASE /\ DOMAIN AllResults = Slots
                 /\ run' = [run EXCEPT ![p].pc = "publish", ![p].scores = AllResults]
        <4> DEFINE x == [run[p] EXCEPT !.pc = "publish", !.scores = AllResults]
        <4>1. /\ AllResults = [s \in Slots |-> results[s].score]
              /\ \A s \in Slots : results[s] # None
          BY <3>4 DEF AllResults
        <4>2. \A s \in Slots : results[s] \in Result /\ results[s].prereg = run[p].prereg
          BY <1>a, <3>2, <4>1 DEF FilesTypeOK, FilesBound, InvocationSound
        <4>3. AllResults \in [Slots -> Scores]
          BY <4>1, <4>2 DEF Result
        <4>4. \A s \in Slots : results[s] =
                [prereg |-> run[p].prereg, score |-> AllResults[s]]
          BY <4>1, <4>2 DEF Result
        <4> HIDE DEF AllResults
        <4>5. InvocationSound(x, sealed, manifest, results)
          BY <3>2, <4>3, <4>4 DEF InvocationSound, Invocation
        <4>6. Sound(x, sealed', manifest', results') /\ run' = [run EXCEPT ![p] = x]
          BY <3>1, <3>4, <4>5 DEF Sound, disk
        <4> HIDE DEF x
        <4>7. RunsSound'
          BY <1>a, <3>1, <4>6, DiskKept, RunsSoundKept
        <4> QED
          BY <1>a, <3>1, <4>7, DiskKept, HistoryKept DEF GoldIInv
      <3> QED
        BY <2>9, <3>3, <3>4 DEF Collect
    <2>10. CASE Publish(p)
      <3> DEFINE file == [prereg |-> run[p].prereg, scores |-> run[p].scores]
      <3>1. /\ InvocationSound(run[p], sealed, manifest, results) /\ run[p].pc = "publish"
            /\ run[p].report \in Reports /\ run[p].prereg \in Preregs
        BY <2>10, <1>a, InvocationAt
           DEF Publish, At, Active, InvocationSound, Invocation
      <3>2. /\ reports' = [reports EXCEPT ![run[p].report] =
                             IF @ = None THEN file ELSE @]
            /\ UNCHANGED <<sealed, registered, manifest, results, invalidations, history>>
            /\ End(p)
        BY <2>10 DEF Publish, Link
      <3>3. file \in Report
        BY <3>1 DEF Report, InvocationSound
      <3>4. FilesTypeOK' /\ FilesBound'
        BY <1>a, <3>1, <3>2, <3>3 DEF FilesTypeOK, FilesBound
      <3>5. ReportsStayTrue'
        <4> SUFFICES ASSUME NEW r \in Reports, reports'[r] # None
                     PROVE  /\ sealed = CohortOf[reports'[r].prereg]
                            /\ \A s \in Slots : results[s] =
                                 [prereg |-> reports'[r].prereg, score |-> reports'[r].scores[s]]
          BY <3>2 DEF ReportsStayTrue
        <4>1. CASE reports'[r] = reports[r]
          BY <1>a, <4>1 DEF ReportsStayTrue
        <4>2. CASE reports'[r] = file
          BY <3>1, <4>2 DEF InvocationSound
        <4> QED
          BY <1>a, <3>1, <3>2, <4>1, <4>2 DEF FilesTypeOK
      <3>6. RunsSound'
        BY <1>a, <3>2, GrowsSelf, EndKept
      <3> QED
        BY <1>a, <3>2, <3>4, <3>5, <3>6, HistoryKept DEF GoldIInv
    <2>11. CASE NumberInvalidation(p)
      <3> DEFINE x == [pc |-> "invalidate", sequence |-> Len(invalidations) + 1]
      <3>1. UNCHANGED disk /\ UNCHANGED history /\ run' = [run EXCEPT ![p] = x]
        BY <2>11 DEF NumberInvalidation
      <3>2. InvalidatorSound(x, manifest)
        <4>1. Len(invalidations) \in Nat /\ Len(invalidations) < MaxInvalidations
          BY <2>11, <1>a, LenProperties DEF NumberInvalidation, FilesTypeOK
        <4> QED
          BY <2>11, <4>1, GoldAssumption DEF NumberInvalidation, InvalidatorSound, Invalidator
      <3>3. Sound(x, sealed', manifest', results')
        BY <3>1, <3>2 DEF Sound, disk
      <3> HIDE DEF x
      <3>4. RunsSound'
        BY <1>a, <3>1, <3>3, DiskKept, RunsSoundKept
      <3> QED
        BY <1>a, <3>1, <3>4, DiskKept, HistoryKept DEF GoldIInv
    <2>12. CASE WriteInvalidation(p)
      <3>1. InvalidatorSound(run[p], manifest)
        BY <2>12, <1>a, InvalidatorAt DEF WriteInvalidation
      <3>2. /\ invalidations' = IF run[p].sequence = Len(invalidations) + 1
                                THEN Append(invalidations, manifest) ELSE invalidations
            /\ UNCHANGED <<sealed, registered, manifest, results, reports, history>>
            /\ End(p)
        BY <2>12 DEF WriteInvalidation
      <3>3. invalidations' \in Seq(Preregs) /\ Len(invalidations') <= MaxInvalidations
        <4>1. manifest \in Preregs
          BY <1>a, <3>1 DEF FilesTypeOK, InvalidatorSound
        <4>2. CASE run[p].sequence = Len(invalidations) + 1
          BY <1>a, <3>1, <3>2, <4>1, <4>2, AppendProperties, LenProperties
             DEF FilesTypeOK, InvalidatorSound
        <4> QED
          BY <1>a, <3>2, <4>2 DEF FilesTypeOK, FilesBound
      <3>4. FilesTypeOK' /\ FilesBound' /\ ReportsStayTrue'
        BY <1>a, <3>2, <3>3 DEF FilesTypeOK, FilesBound, ReportsStayTrue
      <3>5. RunsSound'
        BY <1>a, <3>2, GrowsSelf, EndKept
      <3> QED
        BY <1>a, <3>2, <3>4, <3>5, HistoryKept DEF GoldIInv
    <2>13. CASE Crash(p)
      <3>1. UNCHANGED disk /\ HistoryTypeOK' /\ End(p)
        BY <2>13, <1>a DEF Crash, HistoryTypeOK, At
      <3> QED
        BY <1>a, <3>1, DiskKept, EndKept DEF GoldIInv
    <2> QED
      BY <1>3, <2>1, <2>2, <2>3, <2>4, <2>5, <2>6, <2>7, <2>8, <2>9, <2>10, <2>11, <2>12,
         <2>13 DEF Step
  <1>4. CASE UNCHANGED vars
    <2>1. UNCHANGED disk /\ UNCHANGED history /\ run' = run
      BY <1>4 DEF vars
    <2>2. RunsSound'
      BY <1>a, <2>1 DEF RunsSound, disk
    <2> QED
      BY <1>a, <2>1, <2>2, DiskKept, HistoryKept DEF GoldIInv
  <1> QED
    BY <1>1, <1>2, <1>3, <1>4 DEF Next

(* The inductive invariant of the sealed-gold evaluation: files that are   *)
(* bound to one preregistration and cohort, and processes that know it.    *)
THEOREM GoldInvariant == Spec => []GoldIInv
  BY GoldInit, GoldStep, PTL DEF Spec

(* Every variable of the evaluation holds values of its type. *)
THEOREM GoldTypes == Spec => []GoldTypeOK
  BY GoldInvariant, TypesFollow, PTL

(* Published reports stay true (aggregate_gold_results): every score in    *)
(* one is the stored result of its slot, under its own preregistration and *)
(* on the cohort that binds.                                               *)
THEOREM ReportsStayTrueHolds == Spec => []ReportsStayTrue
  <1>1. GoldIInv => ReportsStayTrue
    BY DEF GoldIInv
  <1> QED
    BY <1>1, GoldInvariant, PTL
-----------------------------------------------------------------------------
(* Once invalidated, nobody gets past the check again (append_invalidation, *)
(* aggregate_gold_results).                                                *)
THEOREM InvalidationIsFinalHolds == Spec => InvalidationIsFinal
  <1> DEFINE Quiet == invalidations # <<>> /\ \A p \in Processes : ~Aggregating(p)
  <1>1. ASSUME GoldIInv, [Next]_vars, Quiet
        PROVE  invalidations' # <<>> /\ (\A p \in Processes : ~Aggregating(p)') /\ reports' = reports
    <2>a. /\ \A p \in Processes : run[p].pc \notin {"collect", "publish"}
          /\ invalidations \in Seq(Preregs) /\ RunsSound /\ FilesTypeOK
          /\ invalidations # <<>>
      BY <1>1 DEF GoldIInv, FilesTypeOK, Aggregating
    <2> SUFFICES /\ invalidations' # <<>> /\ reports' = reports
                 /\ \A p \in Processes : run'[p].pc \notin {"collect", "publish"}
      BY DEF Aggregating
    <2>b. run = [p \in Processes |-> run[p]]
      BY <2>a DEF RunsSound
    <2>1. CASE UNCHANGED vars
      BY <2>1, <2>a DEF vars, disk
    <2>2. CASE \E c \in Cohorts : Seal(c)
      BY <2>2, <2>a DEF Seal
    <2>3. CASE \E e \in Preregs : Register(e)
      BY <2>3, <2>a DEF Register
    <2>4. ASSUME NEW p \in Processes, NEW x, run' = [run EXCEPT ![p] = x],
                 x.pc \notin {"collect", "publish"}
          PROVE  \A q \in Processes : run'[q].pc \notin {"collect", "publish"}
      BY <2>4, <2>a, <2>b
    <2>5. ASSUME NEW p \in Processes, Step(p)
          PROVE  /\ invalidations' # <<>> /\ reports' = reports
                 /\ \A q \in Processes : run'[q].pc \notin {"collect", "publish"}
      <3>a. End(p) => \A q \in Processes : run'[q].pc \notin {"collect", "publish"}
        BY <2>4 DEF End, Idle
      <3>b. ASSUME NEW pc \in {"create", "look", "check", "execute"}, Goto(p, pc), Active(p)
            PROVE  \A q \in Processes : run'[q].pc \notin {"collect", "publish"}
        <4> DEFINE x == [run[p] EXCEPT !.pc = pc]
        <4>1. run[p] \in Invocation
          BY <2>a, <3>b, InvocationAt DEF InvocationSound
        <4>2. run' = [run EXCEPT ![p] = x] /\ x.pc = pc
          BY <3>b, <4>1 DEF Goto, Invocation
        <4> HIDE DEF x
        <4> QED
          BY <2>4, <4>2
      <3>1. CASE Start(p)
        <4> PICK e \in registered, metadata \in Cohorts, resume \in BOOLEAN,
                 r \in Reports \cup {None} :
              run' = [run EXCEPT ![p] =
                   [pc |-> "initialize", prereg |-> e, resume |-> resume, report |-> r,
                    slot |-> 1, score |-> None, scores |-> None]]
          BY <3>1 DEF Start
        <4> QED
          BY <2>4, <3>1, <2>a DEF Start, disk
      <3>2. CASE Initialize(p)
        BY <3>2, <3>a, <3>b, <2>a DEF Initialize, disk, Active, At
      <3>3. CASE CreateManifest(p)
        BY <3>3, <3>a, <3>b, <2>a DEF CreateManifest, Active, At
      <3>4. CASE Look(p)
        <4>1. ASSUME NEW s, run' = [run EXCEPT ![p].slot = s]
              PROVE  \A q \in Processes : run'[q].pc \notin {"collect", "publish"}
          <5> DEFINE x == [run[p] EXCEPT !.slot = s]
          <5>1. run[p] \in Invocation /\ run[p].pc = "look"
            BY <2>a, <3>4, InvocationAt DEF InvocationSound, Look, Active, At
          <5>2. run' = [run EXCEPT ![p] = x] /\ x.pc = "look"
            BY <4>1, <5>1 DEF Invocation
          <5> HIDE DEF x
          <5> QED
            BY <2>4, <5>2
        <4> QED
          BY <3>4, <3>a, <3>b, <4>1, <2>a DEF Look, disk, Active, At
      <3>5. CASE Execute(p)
        <4> PICK v \in Scores : run' = [run EXCEPT ![p].pc = "save", ![p].score = v]
          BY <3>5 DEF Execute
        <4> DEFINE x == [run[p] EXCEPT !.pc = "save", !.score = v]
        <4>1. run[p] \in Invocation
          BY <2>a, <3>5, InvocationAt DEF InvocationSound, Execute, Active, At
        <4>2. run' = [run EXCEPT ![p] = x] /\ x.pc = "save"
          BY <4>1 DEF Invocation
        <4> HIDE DEF x
        <4> QED
          BY <2>4, <3>5, <4>2, <2>a DEF Execute, disk
      <3>6. CASE ExecuteFails(p)
        BY <3>6, <3>a, <2>a DEF ExecuteFails, disk
      <3>7. CASE Save(p)
        <4>1. ASSUME NEW s, run' = [run EXCEPT ![p].pc = "look", ![p].slot = s, ![p].score = None]
              PROVE  \A q \in Processes : run'[q].pc \notin {"collect", "publish"}
          <5> DEFINE x == [run[p] EXCEPT !.pc = "look", !.slot = s, !.score = None]
          <5>1. run[p] \in Invocation
            BY <2>a, <3>7, InvocationAt DEF InvocationSound, Save, Active, At
          <5>2. run' = [run EXCEPT ![p] = x] /\ x.pc = "look"
            BY <4>1, <5>1 DEF Invocation
          <5> HIDE DEF x
          <5> QED
            BY <2>4, <5>2
        <4> QED
          BY <3>7, <3>a, <4>1, <2>a DEF Save
      <3>8. CASE CheckInvalidations(p)
        BY <3>8, <3>a, <2>a DEF CheckInvalidations, disk
      <3>9. CASE Collect(p) \/ Publish(p)
        BY <3>9, <2>a DEF Collect, Publish, At
      <3>10. CASE NumberInvalidation(p)
        BY <3>10, <2>4, <2>a DEF NumberInvalidation, disk
      <3>11. CASE WriteInvalidation(p)
        <4>1. manifest \in Preregs
          BY <2>a, <3>11, InvalidatorAt DEF FilesTypeOK, InvalidatorSound, WriteInvalidation
        <4>2. Append(invalidations, manifest) # <<>>
          BY <2>a, <4>1, AppendProperties
        <4> QED
          BY <3>11, <3>a, <4>2, <2>a DEF WriteInvalidation
      <3>12. CASE Crash(p)
        BY <3>12, <3>a, <2>a DEF Crash, disk
      <3> QED
        BY <2>5, <3>1, <3>2, <3>3, <3>4, <3>5, <3>6, <3>7, <3>8, <3>9, <3>10, <3>11, <3>12
           DEF Step
    <2> QED
      BY <1>1, <2>1, <2>2, <2>3, <2>5 DEF Next
  <1> QED
    BY <1>1, GoldInvariant, PTL DEF InvalidationIsFinal, Spec
-----------------------------------------------------------------------------
(* While invocations take turns. *)
Alone == \A p, q \in Processes : Active(p) /\ Active(q) => p = q

SlotFree ==
    \A p \in Processes : run[p].pc \in {"execute", "save"} => results[run[p].slot] = None

\* What was executed is stored or about to be.
Accounted ==
    \A s \in Slots :
        /\ executed[s] <= 1
        /\ executed[s] = 1 =>
             results[s] # None \/ \E p \in Processes : At(p, "save") /\ run[p].slot = s

ExecutedIInv ==
    ~overlapped => Alone /\ SlotFree /\ (~interrupted => Accounted)

(* A step of p that leaves the results and what was executed alone, and p  *)
(* not waiting to save anything new.                                       *)
LEMMA ExecutedKept ==
    ASSUME GoldIInv, ExecutedIInv, NEW p \in Processes, NEW x,
           run' = [run EXCEPT ![p] = x], x.pc # "save",
           ~(~interrupted' /\ At(p, "save")),
           x.pc \notin {"idle", "invalidate"} => Active(p),
           x.pc = "execute" => results[x.slot] = None,
           UNCHANGED <<results, executed, overlapped>>, interrupted => interrupted'
    PROVE  ExecutedIInv'
  <1> SUFFICES ASSUME ~overlapped' PROVE Alone' /\ SlotFree' /\ (~interrupted' => Accounted')
    BY DEF ExecutedIInv
  <1>1. /\ run = [q \in Processes |-> run[q]] /\ ~overlapped
        /\ run' = [q \in Processes |-> IF q = p THEN x ELSE run[q]]
    BY DEF GoldIInv, RunsSound
  <1>2. Alone'
    BY <1>1 DEF Alone, Active, ExecutedIInv
  <1>3. SlotFree'
    BY <1>1 DEF SlotFree, ExecutedIInv
  <1>4. ASSUME ~interrupted' PROVE Accounted'
    BY <1>1, <1>4 DEF Accounted, ExecutedIInv, At
  <1> QED
    BY <1>2, <1>3, <1>4

LEMMA ExecutedStep == GoldIInv /\ ExecutedIInv /\ [Next]_vars => ExecutedIInv'
  <1> SUFFICES ASSUME GoldIInv, ExecutedIInv, [Next]_vars PROVE ExecutedIInv'
    OBVIOUS
  <1>a. /\ RunsSound /\ FilesTypeOK /\ HistoryTypeOK /\ run = [p \in Processes |-> run[p]]
        /\ RunsSound'
    BY GoldStep DEF GoldIInv, RunsSound
  <1>1. CASE \/ UNCHANGED vars
             \/ \E c \in Cohorts : Seal(c)
             \/ \E e \in Preregs : Register(e)
    BY <1>1 DEF vars, disk, history, Seal, Register, ExecutedIInv, Alone, SlotFree, Accounted,
                Active, At
  <1>2. ASSUME NEW p \in Processes, Step(p) PROVE ExecutedIInv'
    <2>1. CASE Start(p)
      <3> PICK x : x.pc = "initialize" /\ run' = [run EXCEPT ![p] = x]
        BY <2>1 DEF Start
      <3>1. /\ overlapped' = (overlapped \/ \E q \in Processes : Active(q))
            /\ ~Active(p) /\ UNCHANGED <<results, executed, interrupted>>
        BY <2>1 DEF Start, disk, Active, At
      <3> SUFFICES ASSUME ~overlapped'
                   PROVE  Alone' /\ SlotFree' /\ (~interrupted' => Accounted')
        BY DEF ExecutedIInv
      <3>2. /\ ~overlapped /\ \A q \in Processes : ~Active(q)
            /\ run' = [q \in Processes |-> IF q = p THEN x ELSE run[q]]
        BY <1>a, <3>1
      <3>3. Alone'
        BY <3>2 DEF Alone, Active
      <3>4. SlotFree'
        BY <3>1, <3>2 DEF SlotFree, Active
      <3>5. ~interrupted' => Accounted'
        BY <3>1, <3>2 DEF Accounted, ExecutedIInv, Active, At
      <3> QED
        BY <3>3, <3>4, <3>5
    <2>2. ASSUME End(p), ~At(p, "save") \/ interrupted',
                 UNCHANGED <<results, executed, overlapped>>, interrupted => interrupted'
          PROVE  ExecutedIInv'
      <3>1. Idle.pc = "idle" /\ run' = [run EXCEPT ![p] = Idle]
        BY <2>2 DEF Idle, End
      <3> QED
        BY <2>2, <3>1, ExecutedKept
    <2>3. ASSUME NEW pc \in {"create", "look", "check", "execute", "collect"}, Goto(p, pc), Active(p),
                 ~At(p, "save"), pc = "execute" => results[run[p].slot] = None,
                 UNCHANGED <<results, executed, overlapped, interrupted>>
          PROVE  ExecutedIInv'
      <3> DEFINE x == [run[p] EXCEPT !.pc = pc]
      <3>1. run[p] \in Invocation
        BY <1>a, <2>3, InvocationAt DEF InvocationSound
      <3>2. run' = [run EXCEPT ![p] = x] /\ x.pc = pc /\ x.slot = run[p].slot
        BY <2>3, <3>1 DEF Goto, Invocation
      <3> HIDE DEF x
      <3> QED
        BY <2>3, <3>2, ExecutedKept
    <2>4. CASE Initialize(p)
      BY <2>4, <2>2, <2>3 DEF Initialize, disk, history, At, Active
    <2>5. CASE CreateManifest(p)
      BY <2>5, <2>2, <2>3 DEF CreateManifest, history, At, Active
    <2>6. CASE Look(p)
      <3>1. ASSUME NEW s, run' = [run EXCEPT ![p].slot = s] PROVE ExecutedIInv'
        <4> DEFINE x == [run[p] EXCEPT !.slot = s]
        <4>1. run[p] \in Invocation /\ run[p].pc = "look"
          BY <1>a, <2>6, InvocationAt DEF InvocationSound, Look, Active, At
        <4>2. run' = [run EXCEPT ![p] = x] /\ x.pc = "look"
          BY <3>1, <4>1 DEF Invocation
        <4>3. Active(p) /\ ~At(p, "save") /\ UNCHANGED <<results, executed, overlapped, interrupted>>
          BY <2>6, <4>1 DEF Look, disk, history, Active, At
        <4> HIDE DEF x
        <4> QED
          BY <4>2, <4>3, ExecutedKept
      <3> QED
        BY <2>6, <2>2, <2>3, <3>1 DEF Look, disk, history, At, Active
    <2>7. CASE Execute(p)
      <3> DEFINE s == run[p].slot
      <3>1. run[p] \in Invocation /\ run[p].pc = "execute" /\ s \in Slots /\ Active(p)
        BY <1>a, <2>7, InvocationAt DEF InvocationSound, Execute, Active, At
      <3> PICK v \in Scores : run' = [run EXCEPT ![p].pc = "save", ![p].score = v]
        BY <2>7 DEF Execute
      <3> DEFINE x == [run[p] EXCEPT !.pc = "save", !.score = v]
      <3>2. run' = [run EXCEPT ![p] = x] /\ x.pc = "save" /\ x.slot = s
        BY <3>1 DEF Invocation
      <3> HIDE DEF x, s
      <3>3. /\ executed' = [executed EXCEPT ![s] = @ + 1]
            /\ UNCHANGED <<results, overlapped, interrupted>>
        BY <2>7 DEF Execute, disk, s
      <3> SUFFICES ASSUME ~overlapped'
                   PROVE  Alone' /\ SlotFree' /\ (~interrupted' => Accounted')
        BY DEF ExecutedIInv
      <3>4. run' = [q \in Processes |-> IF q = p THEN x ELSE run[q]] /\ ~overlapped
        BY <1>a, <3>2, <3>3
      <3>5. Alone'
        BY <3>1, <3>2, <3>4 DEF Alone, ExecutedIInv, Active
      <3>6. results[s] = None
        BY <3>1, <3>4 DEF SlotFree, ExecutedIInv, s
      <3>7. SlotFree'
        BY <3>2, <3>3, <3>4, <3>6 DEF SlotFree, ExecutedIInv
      <3>8. ASSUME ~interrupted', NEW t \in Slots
            PROVE  /\ executed'[t] <= 1
                   /\ executed'[t] = 1 =>
                        results'[t] # None \/ \E q \in Processes : At(q, "save")' /\ run'[q].slot = t
        <4>a. Accounted /\ executed[t] \in Nat
          BY <1>a, <3>3, <3>4, <3>8 DEF ExecutedIInv, HistoryTypeOK
        <4>1. CASE t = s
          <5>1. executed[s] # 1
            <6> SUFFICES ASSUME executed[s] = 1 PROVE FALSE
              OBVIOUS
            <6> PICK q \in Processes : At(q, "save") /\ run[q].slot = s
              BY <3>1, <3>6, <4>a DEF Accounted
            <6>1. Active(q)
              BY DEF Active, At
            <6> QED
              BY <3>1, <3>4, <6>1 DEF Alone, ExecutedIInv, At
          <5>a. executed[t] <= 1 /\ executed[t] # 1
            BY <3>4, <3>8, <4>a, <4>1, <5>1 DEF Accounted
          <5>b. executed'[t] = executed[t] + 1
            BY <1>a, <3>3, <4>1, ExecutedTypes
          <5>2. executed'[t] = 1
            BY <4>a, <5>a, <5>b
          <5>3. At(p, "save")' /\ run'[p].slot = t
            BY <3>2, <3>4, <4>1 DEF At
          <5>4. executed'[t] <= 1
            BY <5>2
          <5>5. \E q \in Processes : At(q, "save")' /\ run'[q].slot = t
            BY <5>3 DEF At
          <5> QED
            BY <5>4, <5>5
        <4>2. CASE t # s
          <5>1. executed'[t] = executed[t]
            BY <1>a, <3>3, <4>2, ExecutedTypes
          <5>2. ASSUME NEW q \in Processes, At(q, "save"), run[q].slot = t
                PROVE  At(q, "save")' /\ run'[q].slot = t
            BY <3>1, <3>4, <5>2 DEF At
          <5> QED
            BY <3>3, <4>a, <5>1, <5>2 DEF Accounted
        <4> QED
          BY <4>1, <4>2
      <3> QED
        BY <3>5, <3>7, <3>8 DEF Accounted
    <2>8. CASE ExecuteFails(p)
      <3>1. /\ interrupted' /\ UNCHANGED <<results, overlapped>>
            /\ run' = [q \in Processes |-> IF q = p THEN Idle ELSE run[q]]
        BY <1>a, <2>8 DEF ExecuteFails, disk, End
      <3> SUFFICES ASSUME ~overlapped' PROVE Alone' /\ SlotFree'
        BY <3>1 DEF ExecutedIInv
      <3>2. Alone'
        BY <3>1 DEF Alone, ExecutedIInv, Active, Idle
      <3>3. SlotFree'
        BY <3>1 DEF SlotFree, ExecutedIInv, Idle
      <3> QED
        BY <3>2, <3>3
    <2>9. CASE Save(p)
      <3> DEFINE s == run[p].slot
                 file == [prereg |-> run[p].prereg, score |-> run[p].score]
      <3>1. /\ run[p] \in Invocation /\ run[p].pc = "save" /\ s \in Slots /\ Active(p)
            /\ file \in Result /\ file # None
        BY <1>a, <2>9, InvocationAt, GoldAssumption
           DEF InvocationSound, Invocation, Result, Save, Active, At
      <3>2. /\ results' = [results EXCEPT ![s] = IF results[s] = None THEN file ELSE results[s]]
            /\ UNCHANGED <<executed, overlapped, interrupted>>
        BY <2>9 DEF Save, Link, history
      <3> SUFFICES ASSUME ~overlapped'
                   PROVE  Alone' /\ SlotFree' /\ (~interrupted' => Accounted')
        BY DEF ExecutedIInv
      <3>3. results[s] = None /\ ~overlapped
        BY <3>1, <3>2 DEF ExecutedIInv, SlotFree
      <3> DEFINE x == [run[p] EXCEPT !.pc = "look", !.slot = s + 1, !.score = None]
      <3>4. run' = [run EXCEPT ![p] = x] /\ x.pc = "look"
        BY <2>9, <3>1, <3>3 DEF Save, Invocation
      <3> HIDE DEF x
      <3>5. run' = [q \in Processes |-> IF q = p THEN x ELSE run[q]]
        BY <1>a, <3>4
      <3>6. \A q \in Processes \ {p} : ~Active(q)
        BY <3>1, <3>3 DEF ExecutedIInv, Alone
      <3>7. Alone'
        BY <3>5, <3>6 DEF Alone, Active
      <3>8. SlotFree'
        BY <3>4, <3>5, <3>6 DEF SlotFree, Active
      <3>9. ASSUME ~interrupted', NEW t \in Slots
            PROVE  /\ executed'[t] <= 1
                   /\ executed'[t] = 1 =>
                        results'[t] # None \/ \E q \in Processes : At(q, "save")' /\ run'[q].slot = t
        <4>a. Accounted
          BY <3>2, <3>3, <3>9 DEF ExecutedIInv
        <4>b. \A q \in Processes : At(q, "save") => q = p
          BY <3>6 DEF Active, At
        <4>1. CASE t = s
          <5>1. results'[t] = file
            BY <1>a, <3>1, <3>2, <3>3, <4>1 DEF FilesTypeOK
          <5> QED
            BY <3>1, <3>2, <4>a, <5>1 DEF Accounted
        <4>2. CASE t # s
          <5>1. results'[t] = results[t]
            BY <1>a, <3>2, <4>2 DEF FilesTypeOK
          <5> QED
            BY <3>2, <4>a, <4>b, <4>2, <5>1 DEF Accounted
        <4> QED
          BY <4>1, <4>2
      <3> QED
        BY <3>7, <3>8, <3>9 DEF Accounted
    <2>10. CASE CheckInvalidations(p)
      <3>1. /\ Active(p) /\ ~At(p, "save")
            /\ UNCHANGED <<results, executed, overlapped, interrupted>>
            /\ End(p) \/ Goto(p, "collect")
        BY <2>10 DEF CheckInvalidations, disk, history, At, Active
      <3> QED
        BY <3>1, <2>2, <2>3
    <2>11. CASE Collect(p)
      <3>1. CASE End(p)
        BY <2>11, <2>2, <3>1 DEF Collect, disk, history, At
      <3>2. CASE run' = [run EXCEPT ![p].pc = "publish", ![p].scores = AllResults]
        <4> DEFINE x == [run[p] EXCEPT !.pc = "publish", !.scores = AllResults]
        <4>1. run[p] \in Invocation /\ run[p].pc = "collect"
          BY <1>a, <2>11, InvocationAt DEF InvocationSound, Collect, Active, At
        <4> HIDE DEF AllResults
        <4>2. run' = [run EXCEPT ![p] = x] /\ x.pc = "publish"
          BY <3>2, <4>1 DEF Invocation
        <4>3. Active(p) /\ ~At(p, "save") /\ UNCHANGED <<results, executed, overlapped, interrupted>>
          BY <2>11, <4>1 DEF Collect, disk, history, Active, At
        <4> HIDE DEF x
        <4> QED
          BY <4>2, <4>3, ExecutedKept
      <3> QED
        BY <2>11, <3>1, <3>2 DEF Collect
    <2>12. CASE Publish(p)
      BY <2>12, <2>2 DEF Publish, history, At
    <2>13. CASE NumberInvalidation(p)
      <3> PICK x : x.pc = "invalidate" /\ run' = [run EXCEPT ![p] = x]
        BY <2>13 DEF NumberInvalidation
      <3>1. ~At(p, "save") /\ UNCHANGED <<results, executed, overlapped, interrupted>>
        BY <2>13 DEF NumberInvalidation, disk, history, At
      <3> QED
        BY <3>1, ExecutedKept
    <2>14. CASE WriteInvalidation(p)
      BY <2>14, <2>2 DEF WriteInvalidation, history, At
    <2>15. CASE Crash(p)
      <3>1. /\ interrupted' = (interrupted \/ At(p, "save") \/ At(p, "execute"))
            /\ UNCHANGED <<results, executed, overlapped>> /\ End(p)
        BY <2>15 DEF Crash, disk
      <3> QED
        BY <3>1, <2>2
    <2> QED
      BY <1>2, <2>1, <2>4, <2>5, <2>6, <2>7, <2>8, <2>9, <2>10, <2>11, <2>12, <2>13, <2>14,
         <2>15 DEF Step
  <1> QED
    BY <1>1, <1>2 DEF Next

(* Without overlap and interruption an item is executed at most once       *)
(* (GoldRunner.run).                                                       *)
THEOREM ExecutedOnceHolds == Spec => []ExecutedOnce
  <1>1. Init => ExecutedIInv
    BY DEF Init, ExecutedIInv, Alone, SlotFree, Accounted, Active, At, Idle
  <1>2. ExecutedIInv => ExecutedOnce
    BY DEF ExecutedIInv, Accounted, ExecutedOnce
  <1> QED
    BY <1>1, <1>2, GoldInvariant, ExecutedStep, PTL DEF Spec
-----------------------------------------------------------------------------
(* The names of the files and what is published under them. *)
LEMMA FileCases ==
    ASSUME NEW m \in FileNames
    PROVE  \/ m = <<"sealed", 0>> \/ m = <<"manifest", 0>>
           \/ \E s \in Slots : m = <<"result", s>>
           \/ \E k \in 1..MaxInvalidations : m = <<"invalidation", k>>
           \/ \E r \in Reports : m = <<"report", r>>
  BY DEF FileNames

LEMMA PublishedAre ==
    /\ Published(<<"sealed", 0>>) = sealed
    /\ Published(<<"manifest", 0>>) = manifest
    /\ \A s \in Slots : Published(<<"result", s>>) = results[s]
    /\ \A k \in 1..MaxInvalidations : Published(<<"invalidation", k>>) =
         IF k <= Len(invalidations) THEN invalidations[k] ELSE None
    /\ \A r \in Reports : Published(<<"report", r>>) = reports[r]
  BY DEF Published

LEMMA PublishedWillBe ==
    /\ Published(<<"sealed", 0>>)' = sealed'
    /\ Published(<<"manifest", 0>>)' = manifest'
    /\ \A s \in Slots : Published(<<"result", s>>)' = results'[s]
    /\ \A k \in 1..MaxInvalidations : Published(<<"invalidation", k>>)' =
         IF k <= Len(invalidations') THEN invalidations'[k] ELSE None
    /\ \A r \in Reports : Published(<<"report", r>>)' = reports'[r]
  BY DEF Published

(* One file is published, the others stay. *)
LEMMA PublishOne ==
    ASSUME NEW n \in FileNames, Published(n) = None, Published(n)' \in FileContents,
           \A m \in FileNames \ {n} : Published(m)' = Published(m)
    PROVE  Files!Publish(n)
  BY DEF Files!Publish

LEMMA NothingPublished ==
    ASSUME UNCHANGED disk
    PROVE  \A n \in FileNames : Published(n)' = Published(n)
  BY DEF disk, Published

(* The step of each action that links a file. *)
LEMMA FilesStep ==
    ASSUME GoldIInv, [Next]_vars
    PROVE  \/ \E n \in FileNames : Files!Publish(n)
           \/ \A n \in FileNames : Published(n)' = Published(n)
  <1>a. FilesTypeOK /\ RunsSound /\ FilesBound
    BY DEF GoldIInv
  <1>1. ASSUME NEW c \in Cohorts, Seal(c) PROVE \E n \in FileNames : Files!Publish(n)
    <2> DEFINE n == <<"sealed", 0>>
    <2>1. n \in FileNames /\ Published(n) = None /\ Published(n)' \in FileContents
      BY <1>1, PublishedAre, PublishedWillBe DEF Seal, FileNames, FileContents
    <2>2. \A m \in FileNames \ {n} : Published(m)' = Published(m)
      BY <1>1, FileCases, PublishedAre, PublishedWillBe DEF Seal
    <2> QED
      BY <2>1, <2>2, PublishOne
  <1>2. ASSUME NEW e \in Preregs, Register(e)
        PROVE  \A n \in FileNames : Published(n)' = Published(n)
    BY <1>2 DEF Register, Published
  <1>3. ASSUME NEW p \in Processes, CreateManifest(p)
        PROVE  \/ \E n \in FileNames : Files!Publish(n)
               \/ \A n \in FileNames : Published(n)' = Published(n)
    <2>1. CASE manifest # None
      BY <1>3, <2>1 DEF CreateManifest, Link, Published
    <2>2. CASE manifest = None
      <3> DEFINE n == <<"manifest", 0>>
      <3>1. run[p].prereg \in Preregs
        BY <1>3, <1>a, InvocationAt DEF CreateManifest, At, Active, InvocationSound, Invocation
      <3>2. n \in FileNames /\ Published(n) = None /\ Published(n)' \in FileContents
        BY <1>3, <2>2, <3>1, PublishedAre, PublishedWillBe
           DEF CreateManifest, Link, FileNames, FileContents
      <3>3. \A m \in FileNames \ {n} : Published(m)' = Published(m)
        BY <1>3, FileCases, PublishedAre, PublishedWillBe DEF CreateManifest
      <3> QED
        BY <3>2, <3>3, PublishOne
    <2> QED
      BY <2>1, <2>2
  <1>4. ASSUME NEW p \in Processes, Save(p)
        PROVE  \/ \E n \in FileNames : Files!Publish(n)
               \/ \A n \in FileNames : Published(n)' = Published(n)
    <2>0. run[p].slot \in Slots
      BY <1>4, <1>a, InvocationAt DEF Save, At, Active, InvocationSound, Invocation
    <2> PICK s \in Slots : s = run[p].slot
      BY <2>0
    <2> DEFINE file == [prereg |-> run[p].prereg, score |-> run[p].score]
               n == <<"result", s>>
    <2>1. s \in Slots /\ file \in Result
      BY <1>4, <1>a, InvocationAt DEF Save, At, Active, InvocationSound, Invocation, Result
    <2>2. /\ results' = [results EXCEPT ![s] = IF results[s] = None THEN file ELSE results[s]]
          /\ UNCHANGED <<sealed, manifest, invalidations, reports>>
      BY <1>4 DEF Save, Link
    <2>3. \A t \in Slots : results'[t] = IF t = s /\ results[s] = None THEN file ELSE results[t]
      BY <1>a, <2>1, <2>2 DEF FilesTypeOK
    <2> HIDE DEF file
    <2>4. \A m \in FileNames \ {n} : Published(m)' = Published(m)
      BY <2>2, <2>3, FileCases, PublishedAre, PublishedWillBe
    <2>5. n \in FileNames
      BY <2>1 DEF FileNames
    <2>6. CASE results[s] # None
      <3>1. Published(n)' = Published(n)
        BY <2>1, <2>3, <2>6, PublishedAre, PublishedWillBe
      <3> QED
        BY <2>4, <3>1
    <2>7. CASE results[s] = None
      <3>1. Published(n) = None /\ Published(n)' = file
        BY <2>1, <2>3, <2>7, PublishedAre, PublishedWillBe
      <3>2. Published(n)' \in FileContents
        BY <2>1, <3>1 DEF FileContents
      <3> QED
        BY <2>4, <2>5, <3>1, <3>2, PublishOne
    <2> QED
      BY <2>6, <2>7
  <1>5. ASSUME NEW p \in Processes, Publish(p)
        PROVE  \/ \E n \in FileNames : Files!Publish(n)
               \/ \A n \in FileNames : Published(n)' = Published(n)
    <2>0. run[p].report \in Reports
      BY <1>5, <1>a, InvocationAt DEF Publish, At, Active, InvocationSound, Invocation
    <2> PICK r \in Reports : r = run[p].report
      BY <2>0
    <2> DEFINE file == [prereg |-> run[p].prereg, scores |-> run[p].scores]
               n == <<"report", r>>
    <2>1. r \in Reports /\ file \in Report
      BY <1>5, <1>a, InvocationAt DEF Publish, At, Active, InvocationSound, Invocation, Report
    <2>2. /\ reports' = [reports EXCEPT ![r] = IF reports[r] = None THEN file ELSE reports[r]]
          /\ UNCHANGED <<sealed, manifest, results, invalidations>>
      BY <1>5 DEF Publish, Link
    <2>3. \A q \in Reports : reports'[q] = IF q = r /\ reports[r] = None THEN file ELSE reports[q]
      BY <1>a, <2>1, <2>2 DEF FilesTypeOK
    <2> HIDE DEF file
    <2>4. \A m \in FileNames \ {n} : Published(m)' = Published(m)
      BY <2>2, <2>3, FileCases, PublishedAre, PublishedWillBe
    <2>5. n \in FileNames
      BY <2>1 DEF FileNames
    <2>6. CASE reports[r] # None
      <3>1. Published(n)' = Published(n)
        BY <2>1, <2>3, <2>6, PublishedAre, PublishedWillBe
      <3> QED
        BY <2>4, <3>1
    <2>7. CASE reports[r] = None
      <3>1. Published(n) = None /\ Published(n)' = file
        BY <2>1, <2>3, <2>7, PublishedAre, PublishedWillBe
      <3>2. Published(n)' \in FileContents
        BY <2>1, <3>1 DEF FileContents
      <3> QED
        BY <2>4, <2>5, <3>1, <3>2, PublishOne
    <2> QED
      BY <2>6, <2>7
  <1>6. ASSUME NEW p \in Processes, WriteInvalidation(p)
        PROVE  \/ \E n \in FileNames : Files!Publish(n)
               \/ \A n \in FileNames : Published(n)' = Published(n)
    <2>0. run[p].sequence \in 1..MaxInvalidations
      BY <1>6, <1>a, InvalidatorAt DEF WriteInvalidation, InvalidatorSound
    <2> PICK k \in 1..MaxInvalidations : k = run[p].sequence
      BY <2>0
    <2> DEFINE n == <<"invalidation", k>>
    <2>1. k \in 1..MaxInvalidations /\ manifest \in Preregs
      BY <1>6, <1>a, InvalidatorAt DEF WriteInvalidation, InvalidatorSound, FilesTypeOK
    <2>2. /\ invalidations' = IF k = Len(invalidations) + 1
                              THEN Append(invalidations, manifest) ELSE invalidations
          /\ UNCHANGED <<sealed, manifest, results, reports>>
      BY <1>6 DEF WriteInvalidation
    <2>3. CASE k # Len(invalidations) + 1
      BY <2>2, <2>3 DEF Published
    <2>4. CASE k = Len(invalidations) + 1
      <3>1. /\ Len(invalidations) \in Nat /\ Len(invalidations') = k /\ invalidations'[k] = manifest
            /\ \A j \in 1..Len(invalidations) : invalidations'[j] = invalidations[j]
        BY <1>a, <2>1, <2>2, <2>4, AppendProperties, LenProperties DEF FilesTypeOK
      <3>2. \A m \in FileNames \ {n} : Published(m)' = Published(m)
        <4>1. ASSUME NEW j \in 1..MaxInvalidations, j # k
              PROVE  Published(<<"invalidation", j>>)' = Published(<<"invalidation", j>>)
          <5>1. j <= Len(invalidations') <=> j <= Len(invalidations)
            BY <2>1, <2>4, <3>1, <4>1, GoldAssumption
          <5>2. j <= Len(invalidations) => invalidations'[j] = invalidations[j]
            BY <3>1
          <5> QED
            BY <5>1, <5>2, PublishedAre, PublishedWillBe
        <4> QED
          BY <2>2, <4>1, FileCases, PublishedAre, PublishedWillBe
      <3>3. Published(n) = None
        BY <2>1, <2>4, <3>1, PublishedAre
      <3>4. Published(n)' = manifest
        BY <2>1, <2>4, <3>1, PublishedWillBe
      <3>5. n \in FileNames /\ Published(n)' \in FileContents
        BY <2>1, <3>4 DEF FileNames, FileContents
      <3> QED
        BY <3>2, <3>3, <3>5, PublishOne
    <2> QED
      BY <2>3, <2>4
  <1>7. ASSUME NEW p \in Processes,
               \/ Start(p) \/ Initialize(p) \/ Look(p) \/ Execute(p) \/ ExecuteFails(p)
               \/ CheckInvalidations(p) \/ Collect(p) \/ NumberInvalidation(p) \/ Crash(p)
        PROVE  UNCHANGED disk
    BY <1>7 DEF Start, Initialize, Look, Execute, ExecuteFails, CheckInvalidations, Collect,
                NumberInvalidation, Crash
  <1>8. CASE UNCHANGED vars
    BY <1>8, NothingPublished DEF vars
  <1> QED
    BY <1>1, <1>2, <1>3, <1>4, <1>5, <1>6, <1>7, <1>8, NothingPublished DEF Next, Step

(* The gold evaluation implements write-once files: every file of it       *)
(* appears once, whole, and stays (GoldResultRepository, seal_gold).       *)
THEOREM ImplementsFilesHolds == Spec => ImplementsFiles
  <1>1. Init => Files!Init
    <2> SUFFICES ASSUME Init PROVE \A n \in FileNames : Published(n) = None
      BY DEF Files!Init
    <2> QED
      BY FileCases, PublishedAre, LenProperties DEF Init
  <1>2. GoldIInv /\ [Next]_vars
          => [\E n \in FileNames : Files!Publish(n)]_[n \in FileNames |-> Published(n)]
    BY FilesStep
  <1> QED
    BY <1>1, <1>2, GoldInvariant, PTL DEF Spec, ImplementsFiles, Files!Spec
-------------------------------------------------------------------------------
(* The splits (Splits).                                                    *)

TokenFold == INSTANCE FoldFacts WITH Op <- JoinToken
ItemFold == INSTANCE FoldFacts WITH Op <- JoinItem

(* What is joined for one item, and for all items, is a fold.              *)
LEMMA JoinItemIsFold ==
    ASSUME NEW tokens, NEW parent, NEW item
    PROVE  JoinItem(tokens, parent, item) =
           TokenFold!Fold([tokens |-> tokens, item |-> item], parent, tokens[item])
BY DEF JoinItem, FoldLeft, MapThenFoldSet, Max,
       TokenFold!Fold, TokenFold!Folds, TokenFold!Largest

LEMMA JoinedIsFold ==
    ASSUME NEW tokens
    PROVE  Joined(tokens) = ItemFold!Fold(tokens, [i \in DOMAIN tokens |-> i],
                                          [i \in DOMAIN tokens |-> i])
BY DEF Joined, FoldLeft, MapThenFoldSet, Max,
       ItemFold!Fold, ItemFold!Folds, ItemFold!Largest

(* A parent table in which roads lead down.                                *)
Forest(p, n) == p \in [1..n -> 1..n] /\ \A i \in 1..n : p[i] <= i

Finds(f, p, n) == f = [i \in 1..n |-> IF p[i] = i THEN i ELSE f[p[i]]]

(* The function that Root chooses finds the end of each road.              *)
LEMMA RootChosen ==
    ASSUME NEW p, NEW n, DOMAIN p = 1..n, NEW i
    PROVE  Root(p, i) = (CHOOSE f : Finds(f, p, n))[i]
BY DEF Root, Finds

(* It exists: were it there for the items below one, it is there for that one. *)
LEMMA RootFound ==
    ASSUME NEW n \in Nat, NEW p, Forest(p, n)
    PROVE  \E f : Finds(f, p, n)
<1> DEFINE T == {k \in 0..n : \E f : Finds(f, p, k)}
<1>0. p \in [1..n -> 1..n] /\ \A i \in 1..n : p[i] <= i
  BY DEF Forest
<1>1. 0 \in T
  <2>1. Finds([i \in 1..0 |-> 0], p, 0)
    BY DEF Finds
  <2> QED BY <2>1
<1>2. ASSUME NEW k \in 1..n, k - 1 \in T PROVE k \in T
  <2>1. PICK f : Finds(f, p, k - 1)
    BY <1>2
  <2> DEFINE g == [i \in 1..k |-> IF i = k THEN (IF p[k] = k THEN k ELSE f[p[k]]) ELSE f[i]]
  <2>2. \A i \in 1..(k - 1) : /\ i \in 1..k /\ i # k /\ i \in 1..n /\ g[i] = f[i]
                              /\ f[i] = IF p[i] = i THEN i ELSE f[p[i]]
    BY <2>1 DEF Finds
  <2>3. ASSUME NEW i \in 1..k PROVE g[i] = IF p[i] = i THEN i ELSE g[p[i]]
    <3>1. CASE p[i] = i
      <4>1. CASE i = k
        BY <3>1, <4>1
      <4>2. CASE i # k
        <5>1. i \in 1..(k - 1)
          BY <4>2
        <5> QED BY <2>2, <3>1, <5>1
      <4> QED BY <4>1, <4>2
    <3>2. CASE p[i] # i
      <4>1. p[i] \in 1..n /\ p[i] < i
        <5>1. i \in 1..n
          OBVIOUS
        <5>2. p[i] \in 1..n /\ p[i] <= i
          BY <1>0, <5>1
        <5> QED BY <3>2, <5>2
      <4>2. p[i] \in 1..(k - 1)
        BY <4>1
      <4>3. g[p[i]] = f[p[i]]
        BY <2>2, <4>2
      <4>4. CASE i = k
        BY <3>2, <4>3, <4>4
      <4>5. CASE i # k
        <5>1. i \in 1..(k - 1)
          BY <4>5
        <5> QED BY <2>2, <3>2, <4>3, <5>1
      <4> QED BY <4>4, <4>5
    <3> QED BY <3>1, <3>2
  <2>4. g = [i \in 1..k |-> IF p[i] = i THEN i ELSE g[p[i]]]
    <3> DEFINE h == [i \in 1..k |-> IF p[i] = i THEN i ELSE g[p[i]]]
    <3>1. \A i \in 1..k : h[i] = g[i]
      BY <2>3
    <3>2. g = [i \in 1..k |-> g[i]]
      OBVIOUS
    <3> HIDE DEF g
    <3> QED BY <3>1, <3>2
  <2> HIDE DEF g
  <2> QED BY <2>4 DEF Finds
<1>3. n \in T
  <2>1. \A k \in 0..n : k \in T
    <3> HIDE DEF T
    <3> QED BY <1>1, <1>2, ItemFold!IntervalInduction
  <2>2. n \in 0..n
    OBVIOUS
  <2> HIDE DEF T
  <2> QED BY <2>1, <2>2
<1> QED BY <1>3

(* The root of an item is the root of its parent.                          *)
LEMMA RootIs ==
    ASSUME NEW n \in Nat, NEW p, Forest(p, n), NEW i \in 1..n
    PROVE  Root(p, i) = IF p[i] = i THEN i ELSE Root(p, p[i])
<1>1. p \in [1..n -> 1..n]
  BY DEF Forest
<1>2. Finds(CHOOSE f : Finds(f, p, n), p, n)
  BY RootFound
<1> DEFINE f == CHOOSE f : Finds(f, p, n)
<1>3. \A j : Root(p, j) = f[j]
  BY <1>1, RootChosen
<1>4. Finds(f, p, n)
  BY <1>2
<1> HIDE DEF f
<1>5. f[i] = IF p[i] = i THEN i ELSE f[p[i]]
  BY <1>4 DEF Finds
<1> QED BY <1>3, <1>5

(* It is an item at or below, and its own parent and root.                 *)
LEMMA RootWell ==
    ASSUME NEW n \in Nat, NEW p, Forest(p, n)
    PROVE  \A i \in 1..n : /\ Root(p, i) \in 1..n /\ Root(p, i) <= i
                           /\ p[Root(p, i)] = Root(p, i)
                           /\ Root(p, Root(p, i)) = Root(p, i)
<1> DEFINE Good(i) == /\ Root(p, i) \in 1..n /\ Root(p, i) <= i
                      /\ p[Root(p, i)] = Root(p, i)
                      /\ Root(p, Root(p, i)) = Root(p, i)
           T == {k \in 0..n : \A i \in 1..k : Good(i)}
<1>0. p \in [1..n -> 1..n] /\ \A i \in 1..n : p[i] <= i
  BY DEF Forest
<1>1. 0 \in T
  OBVIOUS
<1>2. ASSUME NEW k \in 1..n, k - 1 \in T PROVE k \in T
  <2>1. \A i \in 1..(k - 1) : Good(i)
    BY <1>2
  <2>2. Good(k)
    <3>1. CASE p[k] = k
      <4>1. Root(p, k) = k
        BY <3>1, RootIs
      <4> QED BY <3>1, <4>1
    <3>2. CASE p[k] # k
      <4>1. p[k] \in 1..n /\ p[k] <= k
        BY <1>0
      <4>2. p[k] \in 1..(k - 1)
        BY <3>2, <4>1
      <4>3. Good(p[k])
        BY <2>1, <4>2
      <4>4. Root(p, k) = Root(p, p[k])
        BY <3>2, RootIs
      <4>5. Root(p, k) <= k
        BY <4>1, <4>3, <4>4
      <4> QED BY <4>3, <4>4, <4>5
    <3> QED BY <3>1, <3>2
  <2>3. \A i \in 1..k : i = k \/ i \in 1..(k - 1)
    OBVIOUS
  <2> HIDE DEF Good
  <2> QED BY <2>1, <2>2, <2>3
<1>3. n \in T
  <2>1. \A k \in 0..n : k \in T
    <3> HIDE DEF T
    <3> QED BY <1>1, <1>2, ItemFold!IntervalInduction
  <2>2. n \in 0..n
    OBVIOUS
  <2> HIDE DEF T
  <2> QED BY <2>1, <2>2
<1> QED BY <1>3

(* A forest in which the root of one of two items was put under the other. *)
Merged(p, q, l, r, n) ==
    \E hi, lo \in 1..n :
       /\ \/ hi = Root(p, l) /\ lo = Root(p, r)
          \/ hi = Root(p, r) /\ lo = Root(p, l)
       /\ \A x \in 1..n : Root(q, x) = IF Root(p, x) = hi THEN lo ELSE Root(p, x)

(* One merge: the higher root goes under the lower one.                    *)
LEMMA UnionRoots ==
    ASSUME NEW n \in Nat, NEW p, Forest(p, n), NEW l \in 1..n, NEW r \in 1..n
    PROVE  /\ Forest(Union(p, l, r), n)
           /\ Merged(p, Union(p, l, r), l, r, n)
<1> DEFINE a == Root(p, l)  b == Root(p, r)
           hi == IF a < b THEN b ELSE a  lo == IF a < b THEN a ELSE b
           q == Union(p, l, r)
<1>0. p \in [1..n -> 1..n] /\ \A i \in 1..n : p[i] <= i
  BY DEF Forest
<1>1. a \in 1..n /\ b \in 1..n /\ p[a] = a /\ p[b] = b /\ Root(p, a) = a /\ Root(p, b) = b
  BY RootWell
<1>2. q = IF a = b THEN p ELSE [p EXCEPT ![hi] = lo]
  BY DEF Union
<1>3. /\ hi \in 1..n /\ lo \in 1..n /\ lo <= hi /\ {hi, lo} = {a, b}
      /\ p[hi] = hi /\ p[lo] = lo /\ Root(p, hi) = hi /\ Root(p, lo) = lo
      /\ a # b => lo < hi
  BY <1>1
<1> HIDE DEF a, b, hi, lo, q
<1>4. CASE a = b
  <2>1. q = p /\ hi = lo
    BY <1>2, <1>3, <1>4
  <2>2. \A x \in 1..n : Root(q, x) = IF Root(p, x) = hi THEN lo ELSE Root(p, x)
    BY <2>1
  <2>3. Forest(q, n)
    BY <2>1
  <2> QED BY <1>3, <2>2, <2>3 DEF Merged, q, a, b
<1>5. CASE a # b
  <2>1. /\ q \in [1..n -> 1..n] /\ q[hi] = lo
        /\ \A x \in 1..n : x # hi => q[x] = p[x]
    BY <1>0, <1>2, <1>3, <1>5
  <2>2. Forest(q, n)
    BY <1>0, <1>3, <2>1 DEF Forest
  <2> DEFINE Good(x) == Root(q, x) = IF Root(p, x) = hi THEN lo ELSE Root(p, x)
             T == {k \in 0..n : \A x \in 1..k : Good(x)}
  <2>3. 0 \in T
    OBVIOUS
  <2>4. ASSUME NEW k \in 1..n, k - 1 \in T PROVE k \in T
    <3>1. \A x \in 1..(k - 1) : Good(x)
      BY <2>4
    <3>2. Good(k)
      <4>1. CASE k = hi
        <5>1. lo # hi /\ q[hi] = lo /\ q[lo] = lo
          BY <1>3, <1>5, <2>1
        <5>2. Root(q, hi) = Root(q, lo) /\ Root(q, lo) = lo
          BY <1>3, <2>2, <5>1, RootIs
        <5> QED BY <1>3, <4>1, <5>2
      <4>2. CASE k # hi /\ p[k] = k
        <5>1. q[k] = k
          BY <2>1, <4>2
        <5>2. Root(q, k) = k /\ Root(p, k) = k
          BY <2>2, <4>2, <5>1, RootIs
        <5> QED BY <4>2, <5>2
      <4>3. CASE k # hi /\ p[k] # k
        <5>1. q[k] = p[k] /\ p[k] \in 1..n /\ p[k] <= k
          BY <1>0, <2>1, <4>3
        <5>2. p[k] \in 1..(k - 1)
          BY <4>3, <5>1
        <5>3. Root(q, k) = Root(q, p[k]) /\ Root(p, k) = Root(p, p[k])
          BY <2>2, <4>3, <5>1, RootIs
        <5> QED BY <3>1, <5>2, <5>3
      <4> QED BY <4>1, <4>2, <4>3
    <3>3. \A i \in 1..k : i = k \/ i \in 1..(k - 1)
      OBVIOUS
    <3> HIDE DEF Good
    <3> QED BY <3>1, <3>2, <3>3
  <2>5. \A x \in 1..n : Good(x)
    <3>1. \A k \in 0..n : k \in T
      <4> HIDE DEF T
      <4> QED BY <2>3, <2>4, ItemFold!IntervalInduction
    <3>2. n \in 0..n
      OBVIOUS
    <3> HIDE DEF Good
    <3> QED BY <3>1, <3>2
  <2>6. /\ \/ hi = a /\ lo = b
           \/ hi = b /\ lo = a
        /\ \A x \in 1..n : Root(q, x) = IF Root(p, x) = hi THEN lo ELSE Root(p, x)
    BY <1>3, <2>5
  <2> QED BY <1>3, <2>2, <2>6 DEF Merged, q, a, b
<1> QED BY <1>4, <1>5

(* Which items one merge brings together.                                  *)
LEMMA UnionJoins ==
    ASSUME NEW n \in Nat, NEW p, Forest(p, n), NEW l \in 1..n, NEW r \in 1..n
    PROVE  /\ Forest(Union(p, l, r), n)
           /\ Root(Union(p, l, r), l) = Root(Union(p, l, r), r)
           /\ \A x, y \in 1..n : Root(p, x) = Root(p, y)
                => Root(Union(p, l, r), x) = Root(Union(p, l, r), y)
           /\ \A x, y \in 1..n : Root(Union(p, l, r), x) = Root(Union(p, l, r), y)
                => \/ Root(p, x) = Root(p, y)
                   \/ Root(p, x) = Root(p, l) /\ Root(p, y) = Root(p, r)
                   \/ Root(p, x) = Root(p, r) /\ Root(p, y) = Root(p, l)
<1> DEFINE q == Union(p, l, r)
<1>1. Forest(q, n) /\ Merged(p, q, l, r, n)
  BY UnionRoots
<1> HIDE DEF q
<1>2. PICK hi \in 1..n, lo \in 1..n :
        /\ \/ hi = Root(p, l) /\ lo = Root(p, r)
           \/ hi = Root(p, r) /\ lo = Root(p, l)
        /\ \A x \in 1..n : Root(q, x) = IF Root(p, x) = hi THEN lo ELSE Root(p, x)
  BY <1>1 DEF Merged
<1>3. \/ hi = Root(p, l) /\ lo = Root(p, r)
      \/ hi = Root(p, r) /\ lo = Root(p, l)
  BY <1>2
<1>4. Root(q, l) = lo /\ Root(q, r) = lo
  BY <1>2, <1>3
<1>5. \A x, y \in 1..n : Root(p, x) = Root(p, y) => Root(q, x) = Root(q, y)
  BY <1>2
<1>6. \A x, y \in 1..n : Root(q, x) = Root(q, y)
        => \/ Root(p, x) = Root(p, y)
           \/ Root(p, x) = Root(p, l) /\ Root(p, y) = Root(p, r)
           \/ Root(p, x) = Root(p, r) /\ Root(p, y) = Root(p, l)
  BY <1>2, <1>3
<1> QED BY <1>1, <1>4, <1>5, <1>6 DEF q

(* A benchmark of n items.                                                 *)
Of(tokens, n) == tokens \in Seq(Seq(Tokens)) /\ Len(tokens) = n

Has(tokens, i, t) == t \in Range(tokens[i])

(* Nothing is joined that does not leak.                                   *)
JoinSound(tokens, n, p) ==
    /\ Forest(p, n)
    /\ \A c \in SUBSET (1..n) : Closed(tokens, c) =>
         \A x \in c, y \in 1..n : Root(p, x) = Root(p, y) => y \in c

LEMMA UnionSound ==
    ASSUME NEW n \in Nat, NEW tokens, Of(tokens, n), NEW p, JoinSound(tokens, n, p),
           NEW l \in 1..n, NEW r \in 1..n, NEW t, Has(tokens, l, t), Has(tokens, r, t)
    PROVE  JoinSound(tokens, n, Union(p, l, r))
<1> DEFINE q == Union(p, l, r)
<1>1. Forest(p, n) /\ DOMAIN tokens = 1..n
  BY DEF JoinSound, Of
<1>2. Shares(tokens, l, r) /\ Shares(tokens, r, l)
  BY DEF Shares, Has
<1>3. Forest(q, n)
  BY <1>1, UnionJoins
<1>4. ASSUME NEW c \in SUBSET (1..n), Closed(tokens, c), NEW x \in c, NEW y \in 1..n,
             Root(q, x) = Root(q, y)
      PROVE  y \in c
  <2>1. x \in 1..n
    OBVIOUS
  <2>2. \/ Root(p, x) = Root(p, y)
        \/ Root(p, x) = Root(p, l) /\ Root(p, y) = Root(p, r)
        \/ Root(p, x) = Root(p, r) /\ Root(p, y) = Root(p, l)
    BY <1>1, <1>4, <2>1, UnionJoins
  <2>3. \A z \in c, w \in 1..n : Root(p, z) = Root(p, w) => w \in c
    BY <1>4 DEF JoinSound
  <2>4. l \in c <=> r \in c
    BY <1>1, <1>2, <1>4 DEF Closed
  <2>5. CASE Root(p, x) = Root(p, y)
    BY <2>3, <2>5
  <2>6. CASE Root(p, x) = Root(p, l) /\ Root(p, y) = Root(p, r)
    <3>1. r \in c
      BY <2>3, <2>4, <2>6
    <3> QED BY <2>3, <2>6, <3>1
  <2>7. CASE Root(p, x) = Root(p, r) /\ Root(p, y) = Root(p, l)
    <3>1. l \in c
      BY <2>3, <2>4, <2>7
    <3> QED BY <2>3, <2>7, <3>1
  <2> QED BY <2>2, <2>5, <2>6, <2>7
<1> HIDE DEF q
<1>5. \A c \in SUBSET (1..n) : Closed(tokens, c) =>
        \A x \in c, y \in 1..n : Root(q, x) = Root(q, y) => y \in c
  BY <1>4
<1> QED BY <1>3, <1>5 DEF JoinSound, q

(* setdefault: the first item that has the token.                          *)
LEMMA FirstIs ==
    ASSUME NEW n \in Nat, NEW tokens, Of(tokens, n), NEW i \in 1..n, NEW t, Has(tokens, i, t)
    PROVE  First(tokens, t) \in 1..n /\ Has(tokens, First(tokens, t), t)
<1> DEFINE S == {j \in 1..n : t \in Range(tokens[j])}
<1>1. DOMAIN tokens = 1..n
  BY DEF Of
<1>2. \E j \in S : \A k \in S : j <= k
  <2> DEFINE Least(j) == j \in S /\ \A k \in S : j <= k
             T == {m \in 0..n : (\E j \in S : j <= m) => \E j \in S : Least(j)}
  <2>1. 0 \in T
    OBVIOUS
  <2>2. ASSUME NEW m \in 1..n, m - 1 \in T PROVE m \in T
    <3>1. CASE \E j \in S : j <= m - 1
      BY <2>2, <3>1
    <3>2. CASE ~ \E j \in S : j <= m - 1
      <4>1. \A k \in S : k >= m
        BY <3>2
      <4>2. m \in S => Least(m)
        BY <4>1
      <4>3. (\E j \in S : j <= m) => m \in S
        BY <4>1
      <4> HIDE DEF Least
      <4> QED BY <4>2, <4>3
    <3> QED BY <3>1, <3>2
  <2>3. \A m \in 0..n : m \in T
    <3> HIDE DEF T
    <3> QED BY <2>1, <2>2, ItemFold!IntervalInduction
  <2>4. n \in 0..n /\ i \in S /\ i <= n
    BY DEF Has
  <2>5. n \in T
    BY <2>3, <2>4
  <2>6. \E j \in S : Least(j)
    BY <2>4, <2>5
  <2> QED BY <2>6
<1>3. \E j \in 1..n : /\ t \in Range(tokens[j])
                      /\ \A k \in 1..n : t \in Range(tokens[k]) => j <= k
  BY <1>2
<1> QED BY <1>1, <1>3 DEF First, Has

(* What the items up to i have in common is joined.                        *)
JoinedTo(tokens, p, i) ==
    \A j \in 1..i : \A t \in Range(tokens[j]) : Root(p, First(tokens, t)) = Root(p, j)

(* One item and all its tokens.                                            *)
LEMMA JoinItemWell ==
    ASSUME NEW n \in Nat, NEW tokens, Of(tokens, n), NEW p, JoinSound(tokens, n, p),
           NEW i \in 1..n, JoinedTo(tokens, p, i - 1)
    PROVE  JoinSound(tokens, n, JoinItem(tokens, p, i)) /\ JoinedTo(tokens, JoinItem(tokens, p, i), i)
<1> DEFINE ts == tokens[i]  m == Len(ts)  at == [tokens |-> tokens, item |-> i]
<1>1. /\ ts \in Seq(Tokens) /\ m \in Nat /\ DOMAIN ts = 1..m
      /\ Range(ts) = {ts[k] : k \in 1..m}
  <2>1. ts \in Seq(Tokens)
    BY DEF Of
  <2>2. m \in Nat /\ DOMAIN ts = 1..m
    BY <2>1
  <2> HIDE DEF ts, m
  <2> QED BY <2>1, <2>2 DEF Range
<1> HIDE DEF m
<1>2. \A some, token : JoinToken(at, some, token) = Union(some, First(tokens, token), i)
  BY DEF JoinToken
<1>3. PICK v : /\ TokenFold!Steps(v, at, p, m, ts)
               /\ v[m] = TokenFold!Fold(at, p, ts)
  BY <1>1, TokenFold!FoldTrace
<1>4. v[m] = JoinItem(tokens, p, i)
  BY <1>3, JoinItemIsFold
<1> HIDE DEF at
<1>5. /\ v[0] = p
      /\ \A k \in 1..m : v[k] = Union(v[k - 1], First(tokens, ts[k]), i)
  BY <1>2, <1>3 DEF TokenFold!Steps
<1> DEFINE Keeps(q) == /\ JoinSound(tokens, n, q)
                       /\ \A x, y \in 1..n : Root(p, x) = Root(p, y) => Root(q, x) = Root(q, y)
           Meets(q, k) == \A l \in 1..k : Root(q, First(tokens, ts[l])) = Root(q, i)
           T == {k \in 0..m : Keeps(v[k]) /\ Meets(v[k], k)}
<1>6. \A k \in 1..m : /\ Has(tokens, i, ts[k]) /\ First(tokens, ts[k]) \in 1..n
                      /\ Has(tokens, First(tokens, ts[k]), ts[k])
  <2>1. \A k \in 1..m : Has(tokens, i, ts[k])
    BY <1>1 DEF Has
  <2> HIDE DEF ts
  <2> QED BY <2>1, FirstIs
<1> HIDE DEF ts
<1>7. 0 \in T
  BY <1>1, <1>5
<1>8. ASSUME NEW k \in 1..m, k - 1 \in T PROVE k \in T
  <2> DEFINE q == v[k - 1]  f == First(tokens, ts[k])  w == Union(q, f, i)
  <2>1. v[k] = w /\ Keeps(q) /\ Meets(q, k - 1) /\ k \in 0..m
    BY <1>1, <1>5, <1>8
  <2>2. f \in 1..n /\ Has(tokens, f, ts[k]) /\ Has(tokens, i, ts[k])
    BY <1>6
  <2> HIDE DEF q, f
  <2>3. JoinSound(tokens, n, w)
    BY <2>1, <2>2, UnionSound
  <2>4. Forest(q, n)
    BY <2>1 DEF JoinSound
  <2>5. /\ Root(w, f) = Root(w, i)
        /\ \A x, y \in 1..n : Root(q, x) = Root(q, y) => Root(w, x) = Root(w, y)
    BY <2>2, <2>4, UnionJoins
  <2> HIDE DEF w
  <2>6. Keeps(w)
    BY <2>1, <2>3, <2>5
  <2>7. Meets(w, k)
    <3> SUFFICES ASSUME NEW l \in 1..k PROVE Root(w, First(tokens, ts[l])) = Root(w, i)
      OBVIOUS
    <3>1. CASE l = k
      BY <2>5, <3>1 DEF f
    <3>2. CASE l # k
      <4>1. l \in 1..(k - 1) /\ l \in 1..m
        BY <1>1, <3>2
      <4> QED BY <1>6, <2>1, <2>5, <4>1
    <3> QED BY <3>1, <3>2
  <2> HIDE DEF Keeps, Meets
  <2> QED BY <2>1, <2>6, <2>7
<1>9. Keeps(v[m]) /\ Meets(v[m], m)
  <2>1. \A k \in 0..m : k \in T
    <3> HIDE DEF T
    <3> QED BY <1>1, <1>7, <1>8, ItemFold!IntervalInduction
  <2>2. m \in 0..m
    BY <1>1
  <2> HIDE DEF Keeps, Meets
  <2> QED BY <2>1, <2>2
<1> DEFINE z == v[m]
<1>10. JoinedTo(tokens, z, i)
  <2> SUFFICES ASSUME NEW j \in 1..i, NEW t \in Range(tokens[j])
               PROVE  Root(z, First(tokens, t)) = Root(z, j)
    BY DEF JoinedTo
  <2>1. CASE j = i
    <3>1. PICK k \in 1..m : t = ts[k]
      BY <1>1, <2>1 DEF ts
    <3> QED BY <1>9, <2>1, <3>1
  <2>2. CASE j # i
    <3>1. j \in 1..(i - 1) /\ j \in 1..n
      BY <2>2
    <3>2. Root(p, First(tokens, t)) = Root(p, j)
      BY <3>1 DEF JoinedTo
    <3>3. First(tokens, t) \in 1..n
      BY <3>1, FirstIs DEF Has
    <3> QED BY <1>9, <3>1, <3>2, <3>3
  <2> QED BY <2>1, <2>2
<1> QED BY <1>4, <1>9, <1>10

(* All items: what leaks is joined, and nothing else.                      *)
LEMMA JoinedWell ==
    ASSUME NEW n \in Nat, NEW tokens, Of(tokens, n)
    PROVE  JoinSound(tokens, n, Joined(tokens)) /\ JoinedTo(tokens, Joined(tokens), n)
<1> DEFINE apart == [i \in 1..n |-> i]
<1>1. DOMAIN tokens = 1..n
  BY DEF Of
<1>2. DOMAIN apart = 1..n /\ \A i \in 1..n : apart[i] = i
  OBVIOUS
<1>3. Joined(tokens) = ItemFold!Fold(tokens, apart, apart)
  BY <1>1, JoinedIsFold
<1> HIDE DEF apart
<1>4. PICK v : ItemFold!Steps(v, tokens, apart, n, apart) /\ v[n] = Joined(tokens)
  BY <1>2, <1>3, ItemFold!FoldTrace
<1>5. /\ v[0] = apart
      /\ \A i \in 1..n : v[i] = JoinItem(tokens, v[i - 1], i)
  BY <1>2, <1>4 DEF ItemFold!Steps
<1> DEFINE T == {k \in 0..n : JoinSound(tokens, n, v[k]) /\ JoinedTo(tokens, v[k], k)}
<1>6. 0 \in T
  <2>1. Forest(apart, n)
    BY <1>2 DEF Forest, apart
  <2>2. \A x \in 1..n : Root(apart, x) = x
    BY <1>2, <2>1, RootIs
  <2>3. JoinSound(tokens, n, apart)
    BY <2>1, <2>2 DEF JoinSound
  <2>4. JoinedTo(tokens, apart, 0)
    BY DEF JoinedTo
  <2> QED BY <1>5, <2>3, <2>4
<1>7. ASSUME NEW k \in 1..n, k - 1 \in T PROVE k \in T
  <2>1. JoinSound(tokens, n, v[k - 1]) /\ JoinedTo(tokens, v[k - 1], k - 1)
    BY <1>7
  <2>2. JoinSound(tokens, n, v[k]) /\ JoinedTo(tokens, v[k], k)
    BY <1>5, <2>1, JoinItemWell
  <2>3. k \in 0..n
    OBVIOUS
  <2> QED BY <2>2, <2>3
<1>8. \A k \in 0..n : k \in T
  <2> HIDE DEF T
  <2> QED BY <1>6, <1>7, ItemFold!IntervalInduction
<1>9. n \in 0..n
  OBVIOUS
<1> QED BY <1>4, <1>8, <1>9

(* Disjoint nonempty sets that hold the items between them.                *)
Partition(C, n) ==
    /\ \A c \in C : c \in SUBSET (1..n) /\ c # {}
    /\ \A c, d \in C : c # d => c \cap d = {}
    /\ \A x \in 1..n : \E c \in C : x \in c

(* The components are the chains of leakage.                               *)
LEMMA ComponentsLeak ==
    ASSUME NEW n \in Nat, NEW tokens, Of(tokens, n)
    PROVE  /\ Components(tokens) = {Leakage(tokens, i) : i \in DOMAIN tokens}
           /\ Partition(Components(tokens), n)
<1> DEFINE p == Joined(tokens)
           comp(i) == {j \in 1..n : Root(p, j) = Root(p, i)}
<1>0. DOMAIN tokens = 1..n
  BY DEF Of
<1>1. JoinSound(tokens, n, p) /\ JoinedTo(tokens, p, n)
  BY JoinedWell
<1> HIDE DEF p
<1>2. Components(tokens) = {comp(i) : i \in 1..n}
  <2>1. Components(tokens) = {{j \in 1..n : Root(p, j) = r} : r \in {Root(p, i) : i \in 1..n}}
    BY <1>0 DEF Components, p
  <2> QED BY <2>1
<1>3. ASSUME NEW i \in 1..n PROVE Leakage(tokens, i) = comp(i)
  <2> DEFINE closed == {c \in SUBSET (1..n) : i \in c /\ Closed(tokens, c)}
             C == comp(i)
  <2>1. C \in SUBSET (1..n) /\ i \in C
    OBVIOUS
  <2>2. Closed(tokens, C)
    <3> SUFFICES ASSUME NEW j \in C, NEW k \in 1..n, Shares(tokens, j, k)
                 PROVE  k \in C
      BY <1>0 DEF Closed
    <3>1. j \in 1..n /\ Root(p, j) = Root(p, i)
      OBVIOUS
    <3>2. PICK t : t \in Range(tokens[j]) /\ t \in Range(tokens[k])
      BY DEF Shares
    <3>3. Root(p, First(tokens, t)) = Root(p, j) /\ Root(p, First(tokens, t)) = Root(p, k)
      BY <1>1, <3>1, <3>2 DEF JoinedTo
    <3> QED BY <3>1, <3>3
  <2>3. \A d \in closed : C \subseteq d
    <3> SUFFICES ASSUME NEW d \in closed, NEW y \in C PROVE y \in d
      OBVIOUS
    <3>1. y \in 1..n /\ Root(p, i) = Root(p, y)
      OBVIOUS
    <3>2. \A x \in d, z \in 1..n : Root(p, x) = Root(p, z) => z \in d
      BY <1>1 DEF JoinSound
    <3> QED BY <3>1, <3>2
  <2>4. Leakage(tokens, i) = CHOOSE c \in closed : \A d \in closed : c \subseteq d
    BY <1>0 DEF Leakage
  <2>5. C \in closed
    BY <2>1, <2>2
  <2> HIDE DEF C, closed
  <2>6. \A c \in closed : (\A d \in closed : c \subseteq d) => c = C
    BY <2>3, <2>5
  <2>7. Leakage(tokens, i) = C
    BY <2>3, <2>4, <2>5, <2>6
  <2> QED BY <2>7 DEF C
<1>4. Components(tokens) = {Leakage(tokens, i) : i \in DOMAIN tokens}
  <2> HIDE DEF comp
  <2>1. {comp(i) : i \in 1..n} = {Leakage(tokens, i) : i \in 1..n}
    BY <1>3
  <2> QED BY <1>0, <1>2, <2>1
<1>5. Partition(Components(tokens), n)
  <2>1. \A i \in 1..n : comp(i) \in SUBSET (1..n) /\ i \in comp(i)
    OBVIOUS
  <2>2. \A i, j \in 1..n : comp(i) \cap comp(j) # {} => comp(i) = comp(j)
    OBVIOUS
  <2> HIDE DEF comp
  <2>3. \A c \in Components(tokens) : c \in SUBSET (1..n) /\ c # {}
    BY <1>2, <2>1
  <2>4. \A c, d \in Components(tokens) : c # d => c \cap d = {}
    BY <1>2, <2>2
  <2>5. \A x \in 1..n : \E c \in Components(tokens) : x \in c
    BY <1>2, <2>1
  <2> QED BY <2>3, <2>4, <2>5 DEF Partition
<1> QED BY <1>4, <1>5

(* Components are finite and not empty.                                    *)
LEMMA PartitionFinite ==
    ASSUME NEW n \in Nat, NEW C, Partition(C, n)
    PROVE  /\ IsFiniteSet(C) /\ Cardinality(C) \in Nat
           /\ \A c \in C : IsFiniteSet(c) /\ Cardinality(c) \in 1..n
<1>1. IsFiniteSet(1..n) /\ Cardinality(1..n) = n
  <2>1. 1 \in Int /\ n \in Int
    OBVIOUS
  <2>2. IsFiniteSet(1..n) /\ Cardinality(1..n) = IF 1 > n THEN 0 ELSE n - 1 + 1
    BY <2>1, FS_Interval
  <2> QED BY <2>2
<1>2. IsFiniteSet(SUBSET (1..n))
  BY <1>1, FS_SUBSET
<1>3. C \in SUBSET (SUBSET (1..n))
  BY DEF Partition
<1>4. IsFiniteSet(C) /\ Cardinality(C) \in Nat
  BY <1>2, <1>3, FS_Subset, FS_CardinalityType
<1>5. ASSUME NEW c \in C PROVE IsFiniteSet(c) /\ Cardinality(c) \in 1..n
  <2>1. c \in SUBSET (1..n) /\ c # {}
    BY DEF Partition
  <2>2. IsFiniteSet(c) /\ Cardinality(c) <= n
    BY <1>1, <2>1, FS_Subset
  <2>3. Cardinality(c) \in Nat /\ Cardinality(c) # 0
    BY <2>1, <2>2, FS_CardinalityType, FS_EmptySet
  <2> QED BY <2>2, <2>3
<1> QED BY <1>4, <1>5

(* Of finitely many components one is smallest.                            *)
LEMMA SmallestComponent ==
    ASSUME NEW n \in Nat, NEW C, C # {}, \A c \in C : Cardinality(c) \in 1..n
    PROVE  \E g \in C : \A c \in C : Cardinality(g) <= Cardinality(c)
<1> DEFINE Least(g) == g \in C /\ \A c \in C : Cardinality(g) <= Cardinality(c)
           T == {m \in 0..n : (\E c \in C : Cardinality(c) <= m) => \E g : Least(g)}
<1>1. 0 \in T
  <2>1. ~ \E c \in C : Cardinality(c) <= 0
    OBVIOUS
  <2> QED BY <2>1
<1>2. ASSUME NEW m \in 1..n, m - 1 \in T PROVE m \in T
  <2>1. CASE \E c \in C : Cardinality(c) <= m - 1
    BY <1>2, <2>1
  <2>2. CASE ~ \E c \in C : Cardinality(c) <= m - 1
    <3>1. \A c \in C : Cardinality(c) >= m /\ Cardinality(c) \in Nat
      BY <2>2
    <3>2. \A c \in C : Cardinality(c) <= m => Least(c)
      BY <3>1
    <3> HIDE DEF Least
    <3> QED BY <3>2
  <2> QED BY <2>1, <2>2
<1>3. \A m \in 0..n : m \in T
  <2> HIDE DEF T
  <2> QED BY <1>1, <1>2, ItemFold!IntervalInduction
<1>4. n \in 0..n /\ \E c \in C : Cardinality(c) <= n
  OBVIOUS
<1>5. \E g : Least(g)
  <2>1. n \in T
    BY <1>3, <1>4
  <2> HIDE DEF Least
  <2> QED BY <1>4, <2>1
<1> QED BY <1>5

(* The components can be put in an order of falling size.                  *)
Ordered(o, C, k) ==
    /\ Cardinality(C) = k /\ o \in [1..k -> C]
    /\ \A i, j \in 1..k : i # j => o[i] # o[j]
    /\ \A i \in 1..(k - 1) : Cardinality(o[i]) >= Cardinality(o[i + 1])

(* The orders of the components are the ones Ordered describes.            *)
LEMMA OrdersAre ==
    ASSUME NEW C, NEW k \in Nat, Cardinality(C) = k, NEW o
    PROVE  o \in Orders(C) <=> Ordered(o, C, k)
<1>1. o \in SetToSeqs(C) <=> o \in [1..k -> C] /\ \A i, j \in 1..k : i # j => o[i] # o[j]
  BY DEF SetToSeqs
<1>2. o \in [1..k -> C] => Len(o) = k
  OBVIOUS
<1> QED BY <1>1, <1>2 DEF Orders, Ordered

(* There is one: the smallest component goes behind an order of the others. *)
LEMMA OrderExists ==
    ASSUME NEW n \in Nat, NEW C, Partition(C, n)
    PROVE  \E o : Ordered(o, C, Cardinality(C))
<1> DEFINE Bad == {T \in SUBSET C : ~ \E o : Ordered(o, T, Cardinality(T))}
<1>0. IsFiniteSet(C) /\ \A c \in C : Cardinality(c) \in 1..n
  BY PartitionFinite
<1>1. SUFFICES ASSUME ~ \E o : Ordered(o, C, Cardinality(C)) PROVE FALSE
  OBVIOUS
<1>2. PICK T \in Bad : \A U \in Bad : ~(U \subseteq T /\ U # T)
  <2>1. Bad \in SUBSET (SUBSET C) /\ C \in Bad
    BY <1>1
  <2> HIDE DEF Bad
  <2>2. Bad # {}
    BY <2>1
  <2>3. ItemFold!IsFiniteSet(C)
    BY <1>0 DEF IsFiniteSet, ItemFold!IsFiniteSet
  <2>4. \E T \in Bad : \A U \in Bad : ~(U \subseteq T /\ U # T)
    BY <2>1, <2>2, <2>3, ItemFold!Smallest
  <2> QED BY <2>4
<1>3. T \in SUBSET C /\ ~ \E o : Ordered(o, T, Cardinality(T))
  OBVIOUS
<1>4. IsFiniteSet(T) /\ Cardinality(T) \in Nat
  BY <1>0, <1>3, FS_Subset, FS_CardinalityType
<1>5. T # {}
  <2>1. SUFFICES ASSUME T = {} PROVE FALSE
    OBVIOUS
  <2>2. Cardinality(T) = 0
    BY <2>1, FS_EmptySet
  <2> DEFINE o == [i \in 1..0 |-> T]
  <2>3. o \in [1..0 -> T]
    OBVIOUS
  <2>4. Ordered(o, T, 0)
    BY <2>2, <2>3 DEF Ordered
  <2> QED BY <1>3, <2>2, <2>4
<1>6. PICK g \in T : \A c \in T : Cardinality(g) <= Cardinality(c)
  <2>1. \A c \in T : Cardinality(c) \in 1..n
    BY <1>0, <1>3
  <2> QED BY <1>5, <2>1, SmallestComponent
<1> DEFINE U == T \ {g}  k == Cardinality(T)
<1>7. Cardinality(U) = k - 1 /\ k - 1 \in Nat
  <2>1. IsFiniteSet(U) /\ Cardinality(U) = k - 1
    BY <1>4, FS_RemoveElement
  <2> QED BY <2>1, FS_CardinalityType
<1>8. PICK o : Ordered(o, U, k - 1)
  <2>1. U \in SUBSET C /\ U \subseteq T /\ U # T
    BY <1>3
  <2>2. U \notin Bad
    BY <1>2, <2>1
  <2>3. \E q : Ordered(q, U, Cardinality(U))
    BY <2>1, <2>2
  <2> QED BY <1>7, <2>3
<1> HIDE DEF k
<1> DEFINE q == [i \in 1..k |-> IF i = k THEN g ELSE o[i]]
<1>9. \A i \in 1..(k - 1) : i \in 1..k /\ i # k /\ q[i] = o[i] /\ o[i] \in U
  BY <1>4, <1>7, <1>8 DEF k, Ordered
<1>10. k \in 1..k /\ q[k] = g /\ \A i \in 1..k : i = k \/ i \in 1..(k - 1)
  BY <1>4, <1>7 DEF k
<1> HIDE DEF q
<1>11. q \in [1..k -> T]
  <2>1. \A i \in 1..k : q[i] \in T
    BY <1>9, <1>10
  <2>2. q = [i \in 1..k |-> IF i = k THEN g ELSE o[i]]
    BY DEF q
  <2> QED BY <2>1, <2>2
<1>12. \A i, j \in 1..k : i # j => q[i] # q[j]
  <2>1. \A i, j \in 1..(k - 1) : i # j => o[i] # o[j]
    BY <1>8 DEF Ordered
  <2> QED BY <1>9, <1>10, <2>1
<1>13. \A i \in 1..(k - 1) : Cardinality(q[i]) >= Cardinality(q[i + 1])
  <2> SUFFICES ASSUME NEW i \in 1..(k - 1) PROVE Cardinality(q[i]) >= Cardinality(q[i + 1])
    OBVIOUS
  <2>1. CASE i + 1 = k
    <3>1. q[i] \in T /\ q[i + 1] = g
      BY <1>9, <1>10, <2>1
    <3>2. Cardinality(g) \in Nat /\ Cardinality(q[i]) \in Nat
      BY <1>0, <1>3, <3>1
    <3> QED BY <1>6, <3>1, <3>2
  <2>2. CASE i + 1 # k
    <3>1. i + 1 \in 1..(k - 1) /\ i \in 1..((k - 1) - 1)
      BY <1>4, <2>2 DEF k
    <3>2. Cardinality(o[i]) >= Cardinality(o[i + 1])
      BY <1>8, <3>1 DEF Ordered
    <3> QED BY <1>9, <3>1, <3>2
  <2> QED BY <2>1, <2>2
<1>14. Ordered(q, T, k)
  BY <1>11, <1>12, <1>13 DEF Ordered, k
<1> QED BY <1>3, <1>14 DEF k

(* An order names every component.                                         *)
LEMMA OrderedAll ==
    ASSUME NEW n \in Nat, NEW C, Partition(C, n), NEW k \in Nat, NEW o, Ordered(o, C, k)
    PROVE  \A c \in C : \E i \in 1..k : o[i] = c
<1>1. IsFiniteSet(C) /\ Cardinality(C) = k /\ o \in [1..k -> C]
  BY PartitionFinite DEF Ordered
<1>2. o \in Injection(1..k, C)
  BY <1>1 DEF Ordered, Injection, IsInjective
<1>3. Cardinality(1..k) = k
  <2>1. 1 \in Int /\ k \in Int
    OBVIOUS
  <2>2. Cardinality(1..k) = IF 1 > k THEN 0 ELSE k - 1 + 1
    BY <2>1, FS_Interval
  <2> QED BY <2>2
<1>4. o \in Surjection(1..k, C)
  BY <1>1, <1>2, <1>3, FS_Injection
<1> QED BY <1>4 DEF Surjection

DealNext(ctx, some, group) == DealAll(some, group)
DealFold == INSTANCE FoldFacts WITH Op <- DealNext

Nothing == [name \in Names |-> {}]

(* Dealing one order is a fold.                                            *)
LEMMA DealtIsFold ==
    ASSUME NEW o
    PROVE  FoldLeft(DealAll, {Nothing}, o) = DealFold!Fold(<<>>, {Nothing}, o)
BY DEF FoldLeft, MapThenFoldSet, Max, DealNext,
       DealFold!Fold, DealFold!Folds, DealFold!Largest

(* The snapshots that have been dealt something.                           *)
Filled(a, j) ==
    /\ j = 0 => \A name \in Names : a[name] = {}
    /\ j = 1 => \E last \in Names : \A name \in Names : a[name] = {} <=> name # last
    /\ j = 2 => \E last \in Names : \A name \in Names : a[name] = {} <=> name = last
    /\ j >= 3 => \A name \in Names : a[name] # {}

(* The first j components have been dealt.                                 *)
Fair(a, o, j, n, M) ==
    /\ a \in [Names -> SUBSET (1..n)]
    /\ \A name \in Names : \A x \in a[name] : \E l \in 1..j : x \in o[l]
    /\ \A l \in 1..j : \E name \in Names : o[l] \subseteq a[name]
    /\ \A name, other \in Names : name # other => a[name] \cap a[other] = {}
    /\ \A name, other \in Names : Cardinality(a[name]) - Cardinality(a[other]) <= M
    /\ Filled(a, j)

(* A snapshot with the fewest items.                                       *)
Least(a, t) == t \in Names /\ \A m \in Names : Cardinality(a[t]) <= Cardinality(a[m])

(* One of three snapshots has the fewest items.                            *)
LEMMA LeastExists ==
    ASSUME NEW a, \A name \in Names : Cardinality(a[name]) \in Nat
    PROVE  \E t : Least(a, t)
<1> DEFINE x == Cardinality(a["dev_auto"]) y == Cardinality(a["test_gold"])
           z == Cardinality(a["stress"])
<1>1. x \in Nat /\ y \in Nat /\ z \in Nat
  BY DEF Names
<1>2. \/ x <= y /\ x <= z
      \/ y <= x /\ y <= z
      \/ z <= x /\ z <= y
  <2> HIDE DEF x, y, z
  <2> QED BY <1>1
<1>3. CASE x <= y /\ x <= z
  <2>1. Least(a, "dev_auto")
    BY <1>1, <1>3 DEF Least, Names
  <2> QED BY <2>1
<1>4. CASE y <= x /\ y <= z
  <2>1. Least(a, "test_gold")
    BY <1>1, <1>4 DEF Least, Names
  <2> QED BY <2>1
<1>5. CASE z <= x /\ z <= y
  <2>1. Least(a, "stress")
    BY <1>1, <1>5 DEF Least, Names
  <2> QED BY <2>1
<1> QED BY <1>2, <1>3, <1>4, <1>5

(* Sets of items are finite.                                               *)
LEMMA ItemsFinite ==
    ASSUME NEW n \in Nat, NEW S \in SUBSET (1..n)
    PROVE  IsFiniteSet(S) /\ Cardinality(S) \in Nat
<1>1. 1 \in Int /\ n \in Int
  OBVIOUS
<1>2. IsFiniteSet(1..n)
  BY <1>1, FS_Interval
<1> QED BY <1>2, FS_Subset, FS_CardinalityType

(* What is dealt to a snapshot adds to its size.                           *)
LEMMA DisjointUnion ==
    ASSUME NEW n \in Nat, NEW S \in SUBSET (1..n), NEW T \in SUBSET (1..n), S \cap T = {}
    PROVE  Cardinality(S \cup T) = Cardinality(S) + Cardinality(T)
<1>1. IsFiniteSet(S) /\ IsFiniteSet(T) /\ Cardinality(S) \in Nat /\ Cardinality(T) \in Nat
  BY ItemsFinite
<1>2. Cardinality(S \cup T) = Cardinality(S) + Cardinality(T) - Cardinality(S \cap T)
  BY <1>1, FS_Union
<1>3. Cardinality(S \cap T) = 0
  BY FS_EmptySet
<1> QED BY <1>1, <1>2, <1>3

(* One more snapshot is filled while one is empty: it has the fewest.      *)
LEMMA FilledNext ==
    ASSUME NEW j \in Nat, NEW a, NEW b, NEW t \in Names, Filled(a, j),
           b[t] # {}, \A name \in Names : name # t => b[name] = a[name],
           (\E name \in Names : a[name] = {}) => a[t] = {}
    PROVE  Filled(b, j + 1)
<1>1. \A name \in Names : b[name] = {} <=> name # t /\ a[name] = {}
  OBVIOUS
<1>2. CASE j = 0
  BY <1>1, <1>2 DEF Filled
<1>3. CASE j = 1
  <2>1. PICK last \in Names : \A name \in Names : a[name] = {} <=> name # last
    BY <1>3 DEF Filled
  <2>2. a[t] = {}
    <3>1. \E name \in Names : name # last
      BY DEF Names
    <3> QED BY <2>1, <3>1
  <2>3. t # last
    BY <2>1, <2>2
  <2>4. \E r \in Names : \A name \in Names : name # last /\ name # t <=> name = r
    BY <2>3 DEF Names
  <2>5. \E r \in Names : \A name \in Names : b[name] = {} <=> name = r
    BY <1>1, <2>1, <2>4
  <2> QED BY <1>3, <2>5 DEF Filled
<1>4. CASE j = 2
  <2>1. PICK last \in Names : \A name \in Names : a[name] = {} <=> name = last
    BY <1>4 DEF Filled
  <2>2. \A name \in Names : b[name] # {}
    BY <1>1, <2>1
  <2> QED BY <1>4, <2>2 DEF Filled
<1>5. CASE j >= 3
  <2>1. \A name \in Names : b[name] # {}
    BY <1>1, <1>5 DEF Filled
  <2> QED BY <1>5, <2>1 DEF Filled
<1> QED BY <1>2, <1>3, <1>4, <1>5

(* One component is dealt.                                                 *)
LEMMA DealFair ==
    ASSUME NEW n \in Nat, NEW C, Partition(C, n), NEW k \in Nat, NEW o, Ordered(o, C, k),
           NEW M \in Nat, \A c \in C : Cardinality(c) <= M,
           NEW j \in 1..k, NEW a, Fair(a, o, j - 1, n, M), NEW t, Least(a, t)
    PROVE  Fair([a EXCEPT ![t] = @ \cup o[j]], o, j, n, M)
<1> DEFINE g == o[j]  b == [a EXCEPT ![t] = @ \cup g]
<1>1. g \in C /\ \A l \in 1..(j - 1) : o[l] \in C /\ o[l] # g
  <2>1. \A l \in 1..(j - 1) : l \in 1..k /\ l # j
    OBVIOUS
  <2> QED BY <2>1 DEF Ordered
<1>2. /\ g \in SUBSET (1..n) /\ g # {} /\ \A l \in 1..(j - 1) : o[l] \cap g = {}
  BY <1>1 DEF Partition
<1>3. Cardinality(g) \in Nat /\ Cardinality(g) <= M
  BY <1>1, <1>2, ItemsFinite
<1>4. a \in [Names -> SUBSET (1..n)] /\ t \in Names
  BY DEF Fair, Least
<1>5. /\ b[t] = a[t] \cup g
      /\ \A name \in Names : name # t => b[name] = a[name]
      /\ b \in [Names -> SUBSET (1..n)]
  BY <1>2, <1>4
<1> HIDE DEF g, b
<1>6. \A name \in Names : a[name] \cap g = {}
  BY <1>2 DEF Fair
<1>7. \A name \in Names : Cardinality(a[name]) \in Nat
  BY <1>4, ItemsFinite
<1>8. Cardinality(b[t]) = Cardinality(a[t]) + Cardinality(g)
  <2>1. a[t] \in SUBSET (1..n) /\ a[t] \cap g = {} /\ g \in SUBSET (1..n)
    BY <1>2, <1>4, <1>6
  <2>2. Cardinality(a[t] \cup g) = Cardinality(a[t]) + Cardinality(g)
    BY <2>1, DisjointUnion
  <2> QED BY <1>5, <2>2
<1>9. j \in Nat /\ j - 1 \in Nat /\ j \in 1..j /\ \A l \in 1..j : l = j \/ l \in 1..(j - 1)
  OBVIOUS
<1>10. \A name \in Names : \A x \in b[name] : \E l \in 1..j : x \in o[l]
  <2> SUFFICES ASSUME NEW name \in Names, NEW x \in b[name] PROVE \E l \in 1..j : x \in o[l]
    OBVIOUS
  <2>1. CASE x \in g
    BY <1>9, <2>1 DEF g
  <2>2. CASE x \notin g
    <3>1. x \in a[name]
      BY <1>5, <2>2
    <3>2. PICK l \in 1..(j - 1) : x \in o[l]
      BY <3>1 DEF Fair
    <3> QED BY <3>2
  <2> QED BY <2>1, <2>2
<1>11. \A l \in 1..j : \E name \in Names : o[l] \subseteq b[name]
  <2> SUFFICES ASSUME NEW l \in 1..j PROVE \E name \in Names : o[l] \subseteq b[name]
    OBVIOUS
  <2>1. CASE l = j
    BY <1>4, <1>5, <2>1 DEF g
  <2>2. CASE l \in 1..(j - 1)
    <3>1. PICK name \in Names : o[l] \subseteq a[name]
      BY <2>2 DEF Fair
    <3>2. a[name] \subseteq b[name]
      BY <1>5
    <3> QED BY <3>1, <3>2
  <2> QED BY <1>9, <2>1, <2>2
<1>12. \A name, other \in Names : name # other => b[name] \cap b[other] = {}
  <2>1. \A name, other \in Names : name # other => a[name] \cap a[other] = {}
    BY DEF Fair
  <2> QED BY <1>5, <1>6, <2>1
<1>13. \A name, other \in Names : Cardinality(b[name]) - Cardinality(b[other]) <= M
  <2> SUFFICES ASSUME NEW name \in Names, NEW other \in Names
               PROVE  Cardinality(b[name]) - Cardinality(b[other]) <= M
    OBVIOUS
  <2>1. Cardinality(a[name]) - Cardinality(a[other]) <= M
    BY DEF Fair
  <2>2. Cardinality(a[t]) <= Cardinality(a[other]) /\ Cardinality(a[t]) <= Cardinality(a[name])
    BY DEF Least
  <2>3. /\ Cardinality(a[name]) \in Nat /\ Cardinality(a[other]) \in Nat
        /\ Cardinality(a[t]) \in Nat
    BY <1>4, <1>7
  <2>4. CASE name = t /\ other = t
    BY <1>3, <1>8, <2>3, <2>4
  <2>5. CASE name = t /\ other # t
    <3>1. Cardinality(b[other]) = Cardinality(a[other])
      BY <1>5, <2>5
    <3> QED BY <1>3, <1>8, <2>2, <2>3, <2>5, <3>1
  <2>6. CASE name # t /\ other = t
    <3>1. Cardinality(b[name]) = Cardinality(a[name])
      BY <1>5, <2>6
    <3>2. Cardinality(a[name]) - Cardinality(a[t]) <= M
      BY <2>1, <2>6
    <3> QED BY <1>3, <1>8, <2>3, <2>6, <3>1, <3>2
  <2>7. CASE name # t /\ other # t
    BY <1>5, <2>1, <2>7
  <2> QED BY <2>4, <2>5, <2>6, <2>7
<1>14. Filled(b, j)
  <2>1. (\E name \in Names : a[name] = {}) => a[t] = {}
    <3> SUFFICES ASSUME NEW name \in Names, a[name] = {} PROVE a[t] = {}
      OBVIOUS
    <3>1. Cardinality(a[name]) = 0
      BY FS_EmptySet
    <3>2. Cardinality(a[t]) <= 0 /\ Cardinality(a[t]) \in Nat
      BY <1>4, <1>7, <3>1 DEF Least
    <3>3. IsFiniteSet(a[t]) /\ Cardinality(a[t]) = 0
      <4>1. a[t] \in SUBSET (1..n)
        BY <1>4
      <4>2. IsFiniteSet(a[t])
        BY <4>1, ItemsFinite
      <4>3. \A m \in Nat : m <= 0 => m = 0
        OBVIOUS
      <4> QED BY <3>2, <4>2, <4>3
    <3> QED BY <3>3, FS_EmptySet
  <2>2. b[t] # {}
    BY <1>2, <1>5
  <2>3. Filled(a, j - 1)
    BY DEF Fair
  <2>4. Filled(b, (j - 1) + 1)
    BY <1>4, <1>5, <1>9, <2>1, <2>2, <2>3, FilledNext
  <2>5. (j - 1) + 1 = j
    BY <1>9
  <2> QED BY <2>4, <2>5
<1>15. Fair(b, o, j, n, M)
  BY <1>5, <1>10, <1>11, <1>12, <1>13, <1>14 DEF Fair
<1> QED BY <1>15 DEF b, g

(* All components, in one order.                                           *)
LEMMA AllFair ==
    ASSUME NEW n \in Nat, NEW C, Partition(C, n), NEW k \in Nat, NEW o, Ordered(o, C, k),
           NEW M \in Nat, \A c \in C : Cardinality(c) <= M
    PROVE  /\ FoldLeft(DealAll, {Nothing}, o) # {}
           /\ \A a \in FoldLeft(DealAll, {Nothing}, o) : Fair(a, o, k, n, M)
<1>1. DOMAIN o = 1..k
  BY DEF Ordered
<1>2. PICK v : /\ DealFold!Steps(v, <<>>, {Nothing}, k, o)
               /\ v[k] = DealFold!Fold(<<>>, {Nothing}, o)
  BY <1>1, DealFold!FoldTrace
<1>3. v[k] = FoldLeft(DealAll, {Nothing}, o)
  BY <1>2, DealtIsFold
<1>4. v[0] = {Nothing} /\ \A j \in 1..k : v[j] = DealAll(v[j - 1], o[j])
  BY <1>2 DEF DealFold!Steps, DealNext
<1> DEFINE T == {j \in 0..k : v[j] # {} /\ \A a \in v[j] : Fair(a, o, j, n, M)}
<1>5. 0 \in T
  <2>1. /\ Nothing \in [Names -> SUBSET (1..n)]
        /\ \A name \in Names : Nothing[name] = {}
    BY DEF Nothing
  <2>2. Filled(Nothing, 0)
    BY <2>1 DEF Filled
  <2>3. \A name, other \in Names : Cardinality(Nothing[name]) - Cardinality(Nothing[other]) <= M
    <3>1. Cardinality({}) = 0
      BY FS_EmptySet
    <3> QED BY <2>1, <3>1
  <2>4. Fair(Nothing, o, 0, n, M)
    BY <2>1, <2>2, <2>3 DEF Fair
  <2> QED BY <1>4, <2>4
<1>6. ASSUME NEW j \in 1..k, j - 1 \in T PROVE j \in T
  <2>1. v[j - 1] # {} /\ \A a \in v[j - 1] : Fair(a, o, j - 1, n, M)
    BY <1>6
  <2>2. ASSUME NEW b \in v[j] PROVE Fair(b, o, j, n, M)
    <3>1. PICK a \in v[j - 1] : b \in Deal(a, o[j])
      BY <1>4 DEF DealAll
    <3>2. PICK t : Least(a, t) /\ b = [a EXCEPT ![t] = @ \cup o[j]]
      BY <3>1 DEF Deal, Least
    <3>3. Fair(a, o, j - 1, n, M)
      BY <2>1
    <3> QED BY <3>2, <3>3, DealFair
  <2>3. v[j] # {}
    <3>1. PICK a \in v[j - 1] : Fair(a, o, j - 1, n, M)
      BY <2>1
    <3>2. \A name \in Names : Cardinality(a[name]) \in Nat
      <4>1. a \in [Names -> SUBSET (1..n)]
        BY <3>1 DEF Fair
      <4> QED BY <4>1, ItemsFinite
    <3>3. PICK t : Least(a, t)
      BY <3>2, LeastExists
    <3>4. [a EXCEPT ![t] = @ \cup o[j]] \in Deal(a, o[j])
      BY <3>3 DEF Deal, Least
    <3>5. Deal(a, o[j]) \subseteq v[j]
      BY <1>4 DEF DealAll
    <3> QED BY <3>4, <3>5
  <2>4. j \in 0..k
    OBVIOUS
  <2> QED BY <2>2, <2>3, <2>4
<1>7. \A j \in 0..k : j \in T
  <2> HIDE DEF T
  <2> QED BY <1>5, <1>6, ItemFold!IntervalInduction
<1>8. k \in 0..k
  OBVIOUS
<1>9. k \in T
  <2> HIDE DEF T
  <2> QED BY <1>7, <1>8
<1> QED BY <1>3, <1>9

(* The size of the largest component.                                      *)
LEMMA LargestSize ==
    ASSUME NEW n \in Nat, NEW C, Partition(C, n), C # {}
    PROVE  /\ Max({Cardinality(c) : c \in C}) \in Nat
           /\ \A d \in C : Cardinality(d) <= Max({Cardinality(c) : c \in C})
<1> DEFINE S == {Cardinality(c) : c \in C}
<1>1. \A c \in C : Cardinality(c) \in 1..n
  BY PartitionFinite
<1>2. S \in SUBSET (1..n) /\ S # {}
  BY <1>1
<1>3. Max(S) = ItemFold!Largest(S)
  BY DEF Max, ItemFold!Largest
<1> HIDE DEF S
<1>4. Max(S) \in S /\ \A y \in S : Max(S) >= y
  BY <1>2, <1>3, ItemFold!LargestIn
<1>5. Max(S) \in Nat
  <2>1. Max(S) \in 1..n
    BY <1>2, <1>4
  <2>2. \A x \in 1..n : x \in Nat
    OBVIOUS
  <2> QED BY <2>1, <2>2
<1>6. \A c \in C : Cardinality(c) \in S
  BY DEF S
<1>7. \A c \in C : Cardinality(c) <= Max(S)
  BY <1>1, <1>4, <1>5, <1>6
<1> QED BY <1>5, <1>7 DEF S

(* Whatever benchmark is split, its chains stay apart.                     *)
LEMMA BuildIsolates ==
    ASSUME NEW tokens \in Seq(Seq(Tokens))
    PROVE  Isolates(tokens)
<1> DEFINE n == Len(tokens)
           C == Components(tokens)
           k == Cardinality(C)
           built == BuildSplitSnapshots(tokens)
           M == IF C = {} THEN 0 ELSE Max({Cardinality(c) : c \in C})
<1>1. n \in Nat /\ Of(tokens, n) /\ DOMAIN tokens = 1..n
  BY DEF Of
<1>2. C = {Leakage(tokens, i) : i \in DOMAIN tokens} /\ Partition(C, n)
  BY <1>1, ComponentsLeak
<1>3. built = {a \in Dealt(C) : \A name \in Names : a[name] # {}}
  BY DEF BuildSplitSnapshots
<1>i. Isolates(tokens) <=>
        LET chains == {Leakage(tokens, i) : i \in DOMAIN tokens}
        IN /\ built = {} <=> Cardinality(chains) < 3
           /\ \A a \in built :
                /\ UNION {a[name] : name \in Names} = DOMAIN tokens
                /\ \A name, m \in Names :
                     /\ name # m => a[name] \cap a[m] = {}
                     /\ Cardinality(a[name]) - Cardinality(a[m])
                          <= Max({Cardinality(c) : c \in chains})
                /\ \A c \in chains : \E name \in Names : c \subseteq a[name]
  BY DEF Isolates
<1> HIDE DEF n, C, built
<1>4. IsFiniteSet(C) /\ k \in Nat
  BY <1>1, <1>2, PartitionFinite
<1>5. M \in Nat /\ \A c \in C : Cardinality(c) <= M
  BY <1>1, <1>2, LargestSize
<1> HIDE DEF k, M
<1>6. \A o : o \in Orders(C) <=> Ordered(o, C, k)
  BY <1>4, OrdersAre DEF k
<1>7. ASSUME NEW a \in Dealt(C)
      PROVE  \E o : Ordered(o, C, k) /\ Fair(a, o, k, n, M)
  <2>1. PICK o \in Orders(C) : a \in FoldLeft(DealAll, {Nothing}, o)
    BY DEF Dealt, Nothing
  <2>2. Ordered(o, C, k)
    BY <1>6, <2>1
  <2>3. Fair(a, o, k, n, M)
    BY <1>1, <1>2, <1>4, <1>5, <2>1, <2>2, AllFair
  <2> QED BY <2>2, <2>3
<1>8. Dealt(C) # {}
  <2>1. PICK o : Ordered(o, C, k)
    BY <1>1, <1>2, OrderExists DEF k
  <2>2. o \in Orders(C)
    BY <1>6, <2>1
  <2>3. FoldLeft(DealAll, {Nothing}, o) # {}
    BY <1>1, <1>2, <1>4, <1>5, <2>1, AllFair
  <2> QED BY <2>2, <2>3 DEF Dealt, Nothing
<1>9. built = {} <=> k < 3
  <2>1. \A a \in Dealt(C) : Filled(a, k)
    BY <1>7 DEF Fair
  <2>2. CASE k < 3
    <3>1. k = 0 \/ k = 1 \/ k = 2
      BY <1>4, <2>2
    <3>2. \A a \in Dealt(C) : \E name \in Names : a[name] = {}
      BY <2>1, <3>1 DEF Filled, Names
    <3> QED BY <1>3, <2>2, <3>2
  <2>3. CASE k >= 3
    <3>1. \A a \in Dealt(C) : \A name \in Names : a[name] # {}
      BY <2>1, <2>3 DEF Filled
    <3>2. ~(k < 3)
      BY <1>4, <2>3
    <3> QED BY <1>3, <1>8, <3>1, <3>2
  <2> QED BY <1>4, <2>2, <2>3
<1>10. ASSUME NEW a \in built
       PROVE  /\ UNION {a[name] : name \in Names} = 1..n
              /\ \A name, m \in Names :
                   /\ name # m => a[name] \cap a[m] = {}
                   /\ Cardinality(a[name]) - Cardinality(a[m])
                        <= Max({Cardinality(c) : c \in C})
              /\ \A c \in C : \E name \in Names : c \subseteq a[name]
  <2>1. PICK o : Ordered(o, C, k) /\ Fair(a, o, k, n, M)
    BY <1>3, <1>7
  <2>2. \A c \in C : \E l \in 1..k : o[l] = c
    <3>1. n \in Nat /\ Partition(C, n) /\ k \in Nat /\ Ordered(o, C, k)
      BY <1>1, <1>2, <1>4, <2>1
    <3> QED BY <3>1, OrderedAll
  <2>3. \A c \in C : \E name \in Names : c \subseteq a[name]
    BY <2>1, <2>2 DEF Fair
  <2>4. UNION {a[name] : name \in Names} \subseteq 1..n
    BY <2>1 DEF Fair
  <2>5. \A x \in 1..n : \E name \in Names : x \in a[name]
    <3>1. \A x \in 1..n : \E c \in C : x \in c
      BY <1>2 DEF Partition
    <3> QED BY <2>3, <3>1
  <2>6. UNION {a[name] : name \in Names} = 1..n
    BY <2>4, <2>5
  <2>7. C # {}
    <3>1. k # 0
      BY <1>4, <1>9
    <3> QED BY <3>1, FS_EmptySet DEF k
  <2>8. M = Max({Cardinality(c) : c \in C})
    BY <2>7 DEF M
  <2>9. \A name, m \in Names : name # m => a[name] \cap a[m] = {}
    BY <2>1 DEF Fair
  <2>10. \A name, m \in Names : Cardinality(a[name]) - Cardinality(a[m]) <= M
    BY <2>1 DEF Fair
  <2> QED BY <2>3, <2>6, <2>8, <2>9, <2>10
<1>11. C = {Leakage(tokens, i) : i \in DOMAIN tokens} /\ DOMAIN tokens = 1..n
  BY <1>1, <1>2
<1> QED BY <1>9, <1>10, <1>11, <1>i DEF k

(* No chain of shared documents, families or paraphrases leads from one    *)
(* snapshot into another, every item is in exactly one, the sizes differ   *)
(* by at most one chain, and a split is refused exactly if there are fewer *)
(* than three chains: for benchmarks of any size and whatever the          *)
(* generator draws (build_split_snapshots).                                *)
THEOREM SplitsIsolateHolds == SplitsSpec => []SplitsIsolate
<1> DEFINE Legal == items \in Benchmarks \cup {<<>>}
<1>1. SplitsInit => Legal
  BY DEF SplitsInit
<1>2. Legal /\ [Cut]_items => Legal'
  BY DEF Cut
<1>3. Legal => SplitsIsolate
  BY SplitsAssumption, BuildIsolates DEF SplitsIsolate
<1> QED BY <1>1, <1>2, <1>3, PTL DEF SplitsSpec
=============================================================================
