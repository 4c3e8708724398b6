----------------------- MODULE ProviderGateway_proofs -----------------------
(***************************************************************************)
(* Safety of the provider gateway for any calls, processes, keys, prices,  *)
(* limits and permits.  The argument: whoever works on a key holds the     *)
(* key's advisory lock (LockHeld), so nobody else can store its response   *)
(* meanwhile (NeverPaysForCached), so a second understood settlement needs *)
(* a first whose response was never stored (PaidTwiceOnlyAfterLoss); and   *)
(* where a call stands determines what it has reserved and what the        *)
(* provider did for it (Phase).  Each lemma <X>Step shows that a step      *)
(* keeps one of these, one proof step per action.                          *)
(***************************************************************************)
EXTENDS ProviderGateway, FiniteSetTheorems, TLAPS

(* Each method of the ledger leaves values of the columns' types in its    *)
(* tables (core/money.py).                                                 *)
LEMMA LedgerStepTypes ==
    ASSUME LedgerTypeOK, NEW c \in Calls, NEW cost \in Amount, NEW flag \in BOOLEAN
    PROVE  /\ ReserveAtomic(c, cost) => LedgerTypeOK'
           /\ Settle(c, cost, flag) => LedgerTypeOK'
           /\ Release(c) => LedgerTypeOK'
           /\ RecordCacheHit(c) => LedgerTypeOK'
<1> USE DEF LedgerTypeOK, Status
<1>0. 0 \in Amount
  BY LedgerAssumption DEF Amount
<1>1. ReserveAtomic(c, cost) => LedgerTypeOK'
  BY DEF ReserveAtomic
<1>2. Settle(c, cost, flag) => LedgerTypeOK'
  <2>1. [call |-> c, cost |-> cost, hit |-> FALSE] \in UsageRow
    BY DEF UsageRow
  <2> QED BY <2>1 DEF Settle
<1>3. Release(c) => LedgerTypeOK'
  BY DEF Release
<1>4. RecordCacheHit(c) => LedgerTypeOK'
  <2>1. [call |-> c, cost |-> 0, hit |-> TRUE] \in UsageRow
    BY <1>0 DEF UsageRow
  <2> QED BY <2>1 DEF RecordCacheHit
<1> QED BY <1>1, <1>2, <1>3, <1>4

(* Every cost a gateway call may settle is an amount.                      *)
LEMMA CostsAreAmounts ==
    ASSUME NEW k \in Keys
    PROVE  /\ Costs(k) \subseteq Amount
           /\ Projected[k] \in Amount
BY GatewayAssumption DEF Costs

(* A step keeps the types of the cache, the locks and the semaphores.      *)
LEMMA LockStepTypes == GatewayTypeOK /\ [GatewayNext]_vars => LockTypeOK'
<1> SUFFICES ASSUME GatewayTypeOK, [GatewayNext]_vars PROVE LockTypeOK'
  OBVIOUS
<1> USE DEF GatewayTypeOK, LockTypeOK, TaskTypeOK, locks, request, origin, ledger,
   Goto, End
<1>1. ASSUME NEW c \in Calls, Start(c) PROVE LockTypeOK'
  BY <1>1 DEF Start
<1>2. ASSUME NEW c \in Calls, LookupHit(c) PROVE LockTypeOK'
  BY <1>2 DEF LookupHit
<1>3. ASSUME NEW c \in Calls, LookupMiss(c) PROVE LockTypeOK'
  BY <1>3 DEF LookupMiss
<1>4. ASSUME NEW c \in Calls, AcquireLocal(c) PROVE LockTypeOK'
  BY <1>4 DEF AcquireLocal
<1>5. ASSUME NEW c \in Calls, AcquirePermit(c) PROVE LockTypeOK'
  BY <1>5 DEF AcquirePermit
<1>6. ASSUME NEW c \in Calls, AcquireAdvisory(c) PROVE LockTypeOK'
  BY <1>6 DEF AcquireAdvisory
<1>7. ASSUME NEW c \in Calls, Recheck(c) PROVE LockTypeOK'
  BY <1>7 DEF Recheck
<1>8. ASSUME NEW c \in Calls, ServeHit(c) PROVE LockTypeOK'
  BY <1>8 DEF ServeHit, RecordCacheHit, Unwind
<1>9. ASSUME NEW c \in Calls, Reserve(c) PROVE LockTypeOK'
  BY <1>9 DEF Reserve, ReserveAtomic
<1>10. ASSUME NEW c \in Calls, ReserveRefused(c) PROVE LockTypeOK'
  BY <1>10 DEF ReserveRefused
<1>11. ASSUME NEW c \in Calls, TakeSlot(c) PROVE LockTypeOK'
  BY <1>11 DEF TakeSlot
<1>12. ASSUME NEW c \in Calls, Answered(c) PROVE LockTypeOK'
  BY <1>12 DEF Answered, EndRequest
<1>13. ASSUME NEW c \in Calls, Transient(c) PROVE LockTypeOK'
  BY <1>13 DEF Transient, EndRequest, RetryLimit
<1>14. ASSUME NEW c \in Calls, Rejected(c) PROVE LockTypeOK'
  BY <1>14 DEF Rejected, EndRequest
<1>15. ASSUME NEW c \in Calls, ReleaseReservation(c) PROVE LockTypeOK'
  BY <1>15 DEF ReleaseReservation, Release
<1>16. ASSUME NEW c \in Calls, SettleUsage(c) PROVE LockTypeOK'
  BY <1>16 DEF SettleUsage, Settle, Costs
<1>17. ASSUME NEW c \in Calls, ReconcileUsage(c) PROVE LockTypeOK'
  BY <1>17 DEF ReconcileUsage, Settle, Costs
<1>18. ASSUME NEW c \in Calls, Put(c) PROVE LockTypeOK'
  BY <1>18 DEF Put
<1>19. ASSUME NEW c \in Calls, CloseLockSession(c) PROVE LockTypeOK'
  BY <1>19 DEF CloseLockSession
<1>20. ASSUME NEW c \in Calls, LeaveRegistry(c) PROVE LockTypeOK'
  <2>1. CASE entry[c] = NoCall
    BY <1>20, <2>1 DEF LeaveRegistry
  <2>2. CASE entry[c] \in Calls
    <3> DEFINE e == entry[c]
               left == IF LastUser(e) /\ registry[proc[c]][key[c]] = e
                       THEN NoCall ELSE registry[proc[c]][key[c]]
    <3>1. proc[c] \in Procs /\ key[c] \in Keys
      OBVIOUS
    <3>2. left \in Calls \cup {NoCall}
      BY <3>1
    <3>3. registry' = [registry EXCEPT ![proc[c]][key[c]] = left]
      BY <1>20, <2>2, GatewayAssumption DEF LeaveRegistry
    <3>4. registry' \in [Procs -> [Keys -> Calls \cup {NoCall}]]
      <4> HIDE DEF left
      <4>1. [registry[proc[c]] EXCEPT ![key[c]] = left] \in [Keys -> Calls \cup {NoCall}]
        BY <3>1, <3>2
      <4>2. registry' = [registry EXCEPT ![proc[c]] =
                           [registry[proc[c]] EXCEPT ![key[c]] = left]]
        BY <3>1, <3>3
      <4> QED BY <3>1, <4>1, <4>2
    <3>5. users' \in [Calls -> Int]
      BY <1>20, <2>2, GatewayAssumption DEF LeaveRegistry
    <3>6. holder' \in [Calls -> Calls \cup {NoCall}]
      <4>1. holder' = [holder EXCEPT ![e] = IF holder[e] = c THEN NoCall ELSE holder[e]]
        BY <1>20, <2>2, GatewayAssumption DEF LeaveRegistry
      <4> QED BY <2>2, <4>1
    <3>8. entry' \in [Calls -> Calls \cup {NoCall}]
      <4>1. entry' = [entry EXCEPT ![c] = NoCall]
        BY <1>20, <2>2, GatewayAssumption DEF LeaveRegistry
      <4> QED BY <4>1
    <3>7. UNCHANGED <<cached, advisory, permits, posting>>
      BY <1>20 DEF LeaveRegistry
    <3> QED BY <3>4, <3>5, <3>6, <3>7, <3>8
  <2> QED BY <2>1, <2>2
<1>21. ASSUME NEW c \in Calls, InterruptBefore(c) PROVE LockTypeOK'
  BY <1>21 DEF InterruptBefore, EndRequest, Unwind
<1>22. ASSUME NEW c \in Calls, InterruptAfter(c) PROVE LockTypeOK'
  BY <1>22 DEF InterruptAfter, Unwind, RecordCacheHit, ReserveAtomic, Release,
     Settle, Costs
<1>23. ASSUME NEW p \in Procs, Crash(p) PROVE LockTypeOK'
  BY <1>23 DEF Crash
<1>24. CASE UNCHANGED vars
  BY <1>24 DEF vars, gateway
<1> QED
  BY <1>1, <1>2, <1>3, <1>4, <1>5, <1>6, <1>7, <1>8, <1>9, <1>10, <1>11, <1>12,
     <1>13, <1>14, <1>15, <1>16, <1>17, <1>18, <1>19, <1>20, <1>21, <1>22, <1>23,
     <1>24
  DEF GatewayNext, Progress, Finished

(* A step keeps the types of what belongs to a task: where it stands, its  *)
(* retries, its result.                                                    *)
LEMMA TaskStepTypes == GatewayTypeOK /\ [GatewayNext]_vars => TaskTypeOK'
<1> SUFFICES ASSUME GatewayTypeOK, [GatewayNext]_vars PROVE TaskTypeOK'
  OBVIOUS
<1> USE GatewayAssumption DEF GatewayTypeOK, TaskTypeOK, Steps, Results, Live,
   locks, request, origin, ledger, Goto, End
<1>1. ASSUME NEW c \in Calls, Start(c) PROVE TaskTypeOK'
  BY <1>1 DEF Start
<1>2. ASSUME NEW c \in Calls, LookupHit(c) PROVE TaskTypeOK'
  BY <1>2 DEF LookupHit
<1>3. ASSUME NEW c \in Calls, LookupMiss(c) PROVE TaskTypeOK'
  BY <1>3 DEF LookupMiss
<1>4. ASSUME NEW c \in Calls, AcquireLocal(c) PROVE TaskTypeOK'
  BY <1>4 DEF AcquireLocal
<1>5. ASSUME NEW c \in Calls, AcquirePermit(c) PROVE TaskTypeOK'
  BY <1>5 DEF AcquirePermit
<1>6. ASSUME NEW c \in Calls, AcquireAdvisory(c) PROVE TaskTypeOK'
  BY <1>6 DEF AcquireAdvisory
<1>7. ASSUME NEW c \in Calls, Recheck(c) PROVE TaskTypeOK'
  BY <1>7 DEF Recheck
<1>8. ASSUME NEW c \in Calls, ServeHit(c) PROVE TaskTypeOK'
  BY <1>8 DEF ServeHit, RecordCacheHit, Unwind
<1>9. ASSUME NEW c \in Calls, Reserve(c) PROVE TaskTypeOK'
  BY <1>9 DEF Reserve, ReserveAtomic
<1>10. ASSUME NEW c \in Calls, ReserveRefused(c) PROVE TaskTypeOK'
  BY <1>10 DEF ReserveRefused
<1>11. ASSUME NEW c \in Calls, TakeSlot(c) PROVE TaskTypeOK'
  BY <1>11 DEF TakeSlot
<1>12. ASSUME NEW c \in Calls, Answered(c) PROVE TaskTypeOK'
  BY <1>12 DEF Answered, EndRequest
<1>13. ASSUME NEW c \in Calls, Transient(c) PROVE TaskTypeOK'
  BY <1>13 DEF Transient, EndRequest, RetryLimit
<1>14. ASSUME NEW c \in Calls, Rejected(c) PROVE TaskTypeOK'
  BY <1>14 DEF Rejected, EndRequest
<1>15. ASSUME NEW c \in Calls, ReleaseReservation(c) PROVE TaskTypeOK'
  BY <1>15 DEF ReleaseReservation, Release
<1>16. ASSUME NEW c \in Calls, SettleUsage(c) PROVE TaskTypeOK'
  BY <1>16 DEF SettleUsage, Settle, Costs
<1>17. ASSUME NEW c \in Calls, ReconcileUsage(c) PROVE TaskTypeOK'
  BY <1>17 DEF ReconcileUsage, Settle, Costs
<1>18. ASSUME NEW c \in Calls, Put(c) PROVE TaskTypeOK'
  BY <1>18 DEF Put
<1>19. ASSUME NEW c \in Calls, CloseLockSession(c) PROVE TaskTypeOK'
  BY <1>19 DEF CloseLockSession
<1>20. ASSUME NEW c \in Calls, LeaveRegistry(c) PROVE TaskTypeOK'
  BY <1>20 DEF LeaveRegistry
<1>21. ASSUME NEW c \in Calls, InterruptBefore(c) PROVE TaskTypeOK'
  BY <1>21 DEF InterruptBefore, EndRequest, Unwind
<1>22. ASSUME NEW c \in Calls, InterruptAfter(c) PROVE TaskTypeOK'
  BY <1>22 DEF InterruptAfter, Unwind, RecordCacheHit, ReserveAtomic, Release,
     Settle, Costs
<1>23. ASSUME NEW p \in Procs, Crash(p) PROVE TaskTypeOK'
  BY <1>23 DEF Crash
<1>24. CASE UNCHANGED vars
  BY <1>24 DEF vars, gateway
<1> QED
  BY <1>1, <1>2, <1>3, <1>4, <1>5, <1>6, <1>7, <1>8, <1>9, <1>10, <1>11, <1>12,
     <1>13, <1>14, <1>15, <1>16, <1>17, <1>18, <1>19, <1>20, <1>21, <1>22, <1>23,
     <1>24
  DEF GatewayNext, Progress, Finished

(* A gateway step changes the ledger through its methods only, so it keeps *)
(* its types.                                                              *)
LedgerMethod(c) ==
    \/ RecordCacheHit(c) \/ Release(c)
    \/ \E cost \in Amount : ReserveAtomic(c, cost)
    \/ \E cost \in Amount, flag \in BOOLEAN : Settle(c, cost, flag)

LEMMA LedgerOperation ==
    ASSUME GatewayTypeOK, [GatewayNext]_vars
    PROVE  UNCHANGED ledger \/ \E c \in Calls : LedgerMethod(c)
<1> USE DEF LedgerMethod
<1>1. \A c \in Calls : key[c] \in Keys
  BY DEF GatewayTypeOK, TaskTypeOK
<1>2. ASSUME NEW c \in Calls, ReserveAtomic(c, Projected[key[c]]) PROVE LedgerMethod(c)
  BY <1>1, <1>2, CostsAreAmounts
<1>3. ASSUME NEW c \in Calls, NEW flag \in BOOLEAN,
             NEW cost \in Costs(key[c]) \cup {Projected[key[c]]}, Settle(c, cost, flag)
      PROVE  LedgerMethod(c)
  BY <1>1, <1>3, CostsAreAmounts
<1>4. ASSUME NEW c \in Calls, Progress(c) PROVE UNCHANGED ledger \/ LedgerMethod(c)
  <2>1. CASE ServeHit(c) \/ Reserve(c) \/ ReleaseReservation(c)
    BY <1>2, <2>1 DEF ServeHit, Reserve, ReleaseReservation
  <2>2. CASE SettleUsage(c) \/ ReconcileUsage(c)
    BY <1>3, <2>2 DEF SettleUsage, ReconcileUsage
  <2>3. CASE \/ LookupHit(c) \/ LookupMiss(c) \/ AcquireLocal(c) \/ AcquirePermit(c)
             \/ AcquireAdvisory(c) \/ Recheck(c) \/ ReserveRefused(c) \/ TakeSlot(c)
             \/ Answered(c) \/ Transient(c) \/ Rejected(c) \/ Put(c)
             \/ CloseLockSession(c) \/ LeaveRegistry(c)
    BY <2>3 DEF LookupHit, LookupMiss, AcquireLocal, AcquirePermit,
       AcquireAdvisory,
       Recheck, ReserveRefused, TakeSlot, Answered, Transient, Rejected, Put,
       CloseLockSession, LeaveRegistry
  <2> QED BY <1>4, <2>1, <2>2, <2>3 DEF Progress
<1>5. ASSUME NEW c \in Calls, Start(c) \/ InterruptBefore(c) PROVE UNCHANGED ledger
  BY <1>5 DEF Start, InterruptBefore
<1>6. ASSUME NEW c \in Calls, InterruptAfter(c) PROVE UNCHANGED ledger \/ LedgerMethod(c)
  BY <1>2, <1>3, <1>6 DEF InterruptAfter
<1>7. ASSUME NEW p \in Procs, Crash(p) PROVE UNCHANGED ledger
  BY <1>7 DEF Crash
<1>8. CASE UNCHANGED vars
  BY <1>8 DEF vars
<1> HIDE DEF LedgerMethod
<1> QED BY <1>4, <1>5, <1>6, <1>7, <1>8 DEF GatewayNext, Finished

LEMMA LedgerTypesKept == GatewayTypeOK /\ [GatewayNext]_vars => LedgerTypeOK'
<1> SUFFICES ASSUME GatewayTypeOK, [GatewayNext]_vars PROVE LedgerTypeOK'
  OBVIOUS
<1>1. LedgerTypeOK /\ 0 \in Amount
  BY LedgerAssumption DEF GatewayTypeOK, Amount
<1>2. CASE UNCHANGED ledger
  BY <1>1, <1>2 DEF ledger, LedgerTypeOK
<1>3. ASSUME NEW c \in Calls, RecordCacheHit(c) \/ Release(c) PROVE LedgerTypeOK'
  BY <1>1, <1>3, LedgerStepTypes
<1>4. ASSUME NEW c \in Calls, NEW cost \in Amount, NEW flag \in BOOLEAN,
             ReserveAtomic(c, cost) \/ Settle(c, cost, flag)
      PROVE  LedgerTypeOK'
  BY <1>1, <1>4, LedgerStepTypes
<1> QED BY <1>2, <1>3, <1>4, LedgerOperation DEF LedgerMethod

(* A paid row is written exactly when a reservation is closed by settling  *)
(* it (reserve_atomic, settle, release, record_cache_hit of core/money.py). *)
LEMMA ChargedStep ==
    LedgerTypeOK /\ GatewayTypeOK /\ ChargedExactlyOnce /\ [GatewayNext]_vars
      => ChargedExactlyOnce'
<1> SUFFICES ASSUME LedgerTypeOK, GatewayTypeOK, ChargedExactlyOnce, [GatewayNext]_vars
             PROVE  ChargedExactlyOnce'
  OBVIOUS
<1>1. CASE UNCHANGED ledger
  BY <1>1 DEF ledger, ChargedExactlyOnce, PaidRows
<1>2. ASSUME NEW c \in Calls, RecordCacheHit(c) PROVE ChargedExactlyOnce'
  <2>1. \A d \in Calls : PaidRows(d)' = PaidRows(d)
    BY <1>2 DEF RecordCacheHit, PaidRows
  <2>2. UNCHANGED <<status, reserved>>
    BY <1>2 DEF RecordCacheHit
  <2> QED BY <2>1, <2>2 DEF ChargedExactlyOnce
<1>3. ASSUME NEW c \in Calls, Release(c) PROVE ChargedExactlyOnce'
  <2>1. \A d \in Calls : PaidRows(d)' = PaidRows(d)
    BY <1>3 DEF Release, PaidRows
  <2>2. /\ UNCHANGED reserved
        /\ \A d \in Calls : /\ status'[d] \in Closed <=> status[d] \in Closed
                            /\ status'[d] = "settled" <=> status[d] = "settled"
    BY <1>3 DEF Release, LedgerTypeOK, Closed
  <2> QED BY <2>1, <2>2 DEF ChargedExactlyOnce
<1>4. ASSUME NEW c \in Calls, NEW cost \in Amount, ReserveAtomic(c, cost)
      PROVE  ChargedExactlyOnce'
  <2>1. \A d \in Calls : PaidRows(d)' = PaidRows(d)
    BY <1>4 DEF ReserveAtomic, PaidRows
  <2>2. /\ \A d \in Calls \ {c} : status'[d] = status[d] /\ reserved'[d] = reserved[d]
        /\ status[c] \notin Closed /\ status'[c] \notin Closed /\ status'[c] # "settled"
    BY <1>4 DEF ReserveAtomic, LedgerTypeOK, Closed
  <2> QED BY <2>1, <2>2 DEF ChargedExactlyOnce
<1>5. ASSUME NEW c \in Calls, NEW cost \in Amount, NEW flag \in BOOLEAN,
             Settle(c, cost, flag)
      PROVE  ChargedExactlyOnce'
  <2> DEFINE row == [call |-> c, cost |-> cost, hit |-> FALSE]
  <2>1. /\ usage' = usage \cup {row} /\ UNCHANGED reserved /\ status[c] = "open"
        /\ \A d \in Calls \ {c} : status'[d] = status[d]
        /\ status'[c] \in Closed /\ (status'[c] = "settled" => ~(cost > reserved[c]))
    BY <1>5 DEF Settle, LedgerTypeOK, Closed
  <2>2. PaidRows(c) = {}
    BY <2>1 DEF ChargedExactlyOnce, Closed
  <2>3. PaidRows(c)' = {row} /\ \A d \in Calls \ {c} : PaidRows(d)' = PaidRows(d)
    BY <2>1, <2>2 DEF PaidRows
  <2>4. cost \in Nat /\ reserved[c] \in Nat
    BY LedgerAssumption DEF LedgerTypeOK, Amount
  <2>5. /\ status'[c] \in Closed <=> PaidRows(c)' # {}
        /\ \A r1, r2 \in PaidRows(c)' : r1 = r2
        /\ status'[c] = "settled" => \A r \in PaidRows(c)' : r.cost <= reserved'[c]
    BY <2>1, <2>3, <2>4
  <2>6. ASSUME NEW d \in Calls \ {c}
        PROVE  /\ status'[d] \in Closed <=> PaidRows(d)' # {}
               /\ \A r1, r2 \in PaidRows(d)' : r1 = r2
               /\ status'[d] = "settled" => \A r \in PaidRows(d)' : r.cost <= reserved'[d]
    BY <2>1, <2>3 DEF ChargedExactlyOnce
  <2> QED BY <2>5, <2>6 DEF ChargedExactlyOnce
<1> QED BY <1>1, <1>2, <1>3, <1>4, <1>5, LedgerOperation DEF LedgerMethod

(* Every reachable state of the gateway is well typed: in particular the   *)
(* retry counter of _request never passes max_retries and nothing but      *)
(* amounts is settled.                                                     *)
THEOREM GatewayTypes == GatewaySpec => []GatewayTypeOK
<1>1. GatewayInit => GatewayTypeOK
  BY GatewayAssumption, LedgerAssumption
  DEF GatewayInit, LedgerInit, GatewayTypeOK, LedgerTypeOK, LockTypeOK, TaskTypeOK,
      Amount, Status, Steps, Results, NoEntry
<1>2. GatewayTypeOK /\ [GatewayNext]_vars => GatewayTypeOK'
  BY LedgerTypesKept, LockStepTypes, TaskStepTypes DEF GatewayTypeOK
<1> QED BY <1>1, <1>2, PTL DEF GatewaySpec

(* A step leaves every call that works on a key in possession of the key's *)
(* advisory lock.                                                          *)
LEMMA LockHeldStep == GatewayTypeOK /\ LockHeld /\ [GatewayNext]_vars => LockHeld'
<1> SUFFICES ASSUME GatewayTypeOK /\ LockHeld, [GatewayNext]_vars PROVE LockHeld'
  OBVIOUS
<1> USE GatewayAssumption DEF GatewayTypeOK, LockTypeOK, TaskTypeOK, LockHeld,
   Locked, Live, locks, request, origin, ledger, Goto, End
<1>1. ASSUME NEW c \in Calls, Start(c) PROVE LockHeld'
  BY <1>1 DEF Start
<1>2. ASSUME NEW c \in Calls, LookupHit(c) PROVE LockHeld'
  BY <1>2 DEF LookupHit
<1>3. ASSUME NEW c \in Calls, LookupMiss(c) PROVE LockHeld'
  BY <1>3 DEF LookupMiss
<1>4. ASSUME NEW c \in Calls, AcquireLocal(c) PROVE LockHeld'
  BY <1>4 DEF AcquireLocal
<1>5. ASSUME NEW c \in Calls, AcquirePermit(c) PROVE LockHeld'
  BY <1>5 DEF AcquirePermit
<1>6. ASSUME NEW c \in Calls, AcquireAdvisory(c) PROVE LockHeld'
  BY <1>6 DEF AcquireAdvisory
<1>7. ASSUME NEW c \in Calls, Recheck(c) PROVE LockHeld'
  BY <1>7 DEF Recheck
<1>8. ASSUME NEW c \in Calls, ServeHit(c) PROVE LockHeld'
  BY <1>8 DEF ServeHit, RecordCacheHit, Unwind
<1>9. ASSUME NEW c \in Calls, Reserve(c) PROVE LockHeld'
  BY <1>9 DEF Reserve, ReserveAtomic
<1>10. ASSUME NEW c \in Calls, ReserveRefused(c) PROVE LockHeld'
  BY <1>10 DEF ReserveRefused
<1>11. ASSUME NEW c \in Calls, TakeSlot(c) PROVE LockHeld'
  BY <1>11 DEF TakeSlot
<1>12. ASSUME NEW c \in Calls, Answered(c) PROVE LockHeld'
  BY <1>12 DEF Answered, EndRequest
<1>13. ASSUME NEW c \in Calls, Transient(c) PROVE LockHeld'
  BY <1>13 DEF Transient, EndRequest, RetryLimit
<1>14. ASSUME NEW c \in Calls, Rejected(c) PROVE LockHeld'
  BY <1>14 DEF Rejected, EndRequest
<1>15. ASSUME NEW c \in Calls, ReleaseReservation(c) PROVE LockHeld'
  BY <1>15 DEF ReleaseReservation, Release
<1>16. ASSUME NEW c \in Calls, SettleUsage(c) PROVE LockHeld'
  BY <1>16 DEF SettleUsage, Settle, Costs
<1>17. ASSUME NEW c \in Calls, ReconcileUsage(c) PROVE LockHeld'
  BY <1>17 DEF ReconcileUsage, Settle, Costs
<1>18. ASSUME NEW c \in Calls, Put(c) PROVE LockHeld'
  BY <1>18 DEF Put
<1>19. ASSUME NEW c \in Calls, CloseLockSession(c) PROVE LockHeld'
  BY <1>19 DEF CloseLockSession
<1>20. ASSUME NEW c \in Calls, LeaveRegistry(c) PROVE LockHeld'
  BY <1>20 DEF LeaveRegistry
<1>21. ASSUME NEW c \in Calls, InterruptBefore(c) PROVE LockHeld'
  BY <1>21 DEF InterruptBefore, EndRequest, Unwind
<1>22. ASSUME NEW c \in Calls, InterruptAfter(c) PROVE LockHeld'
  BY <1>22 DEF InterruptAfter, Unwind, RecordCacheHit, ReserveAtomic, Release,
     Settle, Costs
<1>23. ASSUME NEW p \in Procs, Crash(p) PROVE LockHeld'
  BY <1>23 DEF Crash
<1>24. CASE UNCHANGED vars
  BY <1>24 DEF vars, gateway
<1> QED
  BY <1>1, <1>2, <1>3, <1>4, <1>5, <1>6, <1>7, <1>8, <1>9, <1>10, <1>11, <1>12,
     <1>13, <1>14, <1>15, <1>16, <1>17, <1>18, <1>19, <1>20, <1>21, <1>22, <1>23,
     <1>24
  DEF GatewayNext, Progress, Finished

(* A step never puts into the cache the key of a call that is paying for   *)
(* it: only the holder of the key's advisory lock stores, and the second   *)
(* look came after the lock.                                               *)
LEMMA NeverPaysStep ==
    GatewayTypeOK /\ LockHeld /\ NeverPaysForCached /\ [GatewayNext]_vars
    => NeverPaysForCached'
<1> SUFFICES ASSUME GatewayTypeOK /\ LockHeld /\ NeverPaysForCached,
                    [GatewayNext]_vars
             PROVE  NeverPaysForCached'
  OBVIOUS
<1> USE GatewayAssumption DEF GatewayTypeOK, LockTypeOK, TaskTypeOK, LockHeld,
   NeverPaysForCached, Locked, Live, locks, request, origin, ledger, Goto, End
<1>1. ASSUME NEW c \in Calls, Start(c) PROVE NeverPaysForCached'
  BY <1>1 DEF Start
<1>2. ASSUME NEW c \in Calls, LookupHit(c) PROVE NeverPaysForCached'
  BY <1>2 DEF LookupHit
<1>3. ASSUME NEW c \in Calls, LookupMiss(c) PROVE NeverPaysForCached'
  BY <1>3 DEF LookupMiss
<1>4. ASSUME NEW c \in Calls, AcquireLocal(c) PROVE NeverPaysForCached'
  BY <1>4 DEF AcquireLocal
<1>5. ASSUME NEW c \in Calls, AcquirePermit(c) PROVE NeverPaysForCached'
  BY <1>5 DEF AcquirePermit
<1>6. ASSUME NEW c \in Calls, AcquireAdvisory(c) PROVE NeverPaysForCached'
  BY <1>6 DEF AcquireAdvisory
<1>7. ASSUME NEW c \in Calls, Recheck(c) PROVE NeverPaysForCached'
  BY <1>7 DEF Recheck
<1>8. ASSUME NEW c \in Calls, ServeHit(c) PROVE NeverPaysForCached'
  BY <1>8 DEF ServeHit, RecordCacheHit, Unwind
<1>9. ASSUME NEW c \in Calls, Reserve(c) PROVE NeverPaysForCached'
  BY <1>9 DEF Reserve, ReserveAtomic
<1>10. ASSUME NEW c \in Calls, ReserveRefused(c) PROVE NeverPaysForCached'
  BY <1>10 DEF ReserveRefused
<1>11. ASSUME NEW c \in Calls, TakeSlot(c) PROVE NeverPaysForCached'
  BY <1>11 DEF TakeSlot
<1>12. ASSUME NEW c \in Calls, Answered(c) PROVE NeverPaysForCached'
  BY <1>12 DEF Answered, EndRequest
<1>13. ASSUME NEW c \in Calls, Transient(c) PROVE NeverPaysForCached'
  BY <1>13 DEF Transient, EndRequest, RetryLimit
<1>14. ASSUME NEW c \in Calls, Rejected(c) PROVE NeverPaysForCached'
  BY <1>14 DEF Rejected, EndRequest
<1>15. ASSUME NEW c \in Calls, ReleaseReservation(c) PROVE NeverPaysForCached'
  BY <1>15 DEF ReleaseReservation, Release
<1>16. ASSUME NEW c \in Calls, SettleUsage(c) PROVE NeverPaysForCached'
  BY <1>16 DEF SettleUsage, Settle, Costs
<1>17. ASSUME NEW c \in Calls, ReconcileUsage(c) PROVE NeverPaysForCached'
  BY <1>17 DEF ReconcileUsage, Settle, Costs
<1>18. ASSUME NEW c \in Calls, Put(c) PROVE NeverPaysForCached'
  BY <1>18 DEF Put
<1>19. ASSUME NEW c \in Calls, CloseLockSession(c) PROVE NeverPaysForCached'
  BY <1>19 DEF CloseLockSession
<1>20. ASSUME NEW c \in Calls, LeaveRegistry(c) PROVE NeverPaysForCached'
  BY <1>20 DEF LeaveRegistry
<1>21. ASSUME NEW c \in Calls, InterruptBefore(c) PROVE NeverPaysForCached'
  BY <1>21 DEF InterruptBefore, EndRequest, Unwind
<1>22. ASSUME NEW c \in Calls, InterruptAfter(c) PROVE NeverPaysForCached'
  BY <1>22 DEF InterruptAfter, Unwind, RecordCacheHit, ReserveAtomic, Release,
     Settle, Costs
<1>23. ASSUME NEW p \in Procs, Crash(p) PROVE NeverPaysForCached'
  BY <1>23 DEF Crash
<1>24. CASE UNCHANGED vars
  BY <1>24 DEF vars, gateway
<1> QED
  BY <1>1, <1>2, <1>3, <1>4, <1>5, <1>6, <1>7, <1>8, <1>9, <1>10, <1>11, <1>12,
     <1>13, <1>14, <1>15, <1>16, <1>17, <1>18, <1>19, <1>20, <1>21, <1>22, <1>23,
     <1>24
  DEF GatewayNext, Progress, Finished

(* A step keeps what a call has reserved, and what the provider did for    *)
(* it, in accordance with where the call stands.                           *)
LEMMA PhaseStep == GatewayTypeOK /\ Phase /\ [GatewayNext]_vars => Phase'
<1> SUFFICES ASSUME GatewayTypeOK /\ Phase, [GatewayNext]_vars PROVE Phase'
  OBVIOUS
<1> USE GatewayAssumption DEF GatewayTypeOK, LedgerTypeOK, TaskTypeOK, Phase,
   Unreserved, Leaving, Closed, Cut, Live, Steps, locks, request, origin, ledger,
   Goto, End
<1>1. ASSUME NEW c \in Calls, Start(c) PROVE Phase'
  BY <1>1 DEF Start
<1>2. ASSUME NEW c \in Calls, LookupHit(c) PROVE Phase'
  BY <1>2 DEF LookupHit
<1>3. ASSUME NEW c \in Calls, LookupMiss(c) PROVE Phase'
  BY <1>3 DEF LookupMiss
<1>4. ASSUME NEW c \in Calls, AcquireLocal(c) PROVE Phase'
  BY <1>4 DEF AcquireLocal
<1>5. ASSUME NEW c \in Calls, AcquirePermit(c) PROVE Phase'
  BY <1>5 DEF AcquirePermit
<1>6. ASSUME NEW c \in Calls, AcquireAdvisory(c) PROVE Phase'
  BY <1>6 DEF AcquireAdvisory
<1>7. ASSUME NEW c \in Calls, Recheck(c) PROVE Phase'
  BY <1>7 DEF Recheck
<1>8. ASSUME NEW c \in Calls, ServeHit(c) PROVE Phase'
  BY <1>8 DEF ServeHit, RecordCacheHit, Unwind
<1>9. ASSUME NEW c \in Calls, Reserve(c) PROVE Phase'
  BY <1>9 DEF Reserve, ReserveAtomic
<1>10. ASSUME NEW c \in Calls, ReserveRefused(c) PROVE Phase'
  BY <1>10 DEF ReserveRefused
<1>11. ASSUME NEW c \in Calls, TakeSlot(c) PROVE Phase'
  BY <1>11 DEF TakeSlot
<1>12. ASSUME NEW c \in Calls, Answered(c) PROVE Phase'
  BY <1>12 DEF Answered, EndRequest
<1>13. ASSUME NEW c \in Calls, Transient(c) PROVE Phase'
  BY <1>13 DEF Transient, EndRequest, RetryLimit
<1>14. ASSUME NEW c \in Calls, Rejected(c) PROVE Phase'
  BY <1>14 DEF Rejected, EndRequest
<1>15. ASSUME NEW c \in Calls, ReleaseReservation(c) PROVE Phase'
  BY <1>15 DEF ReleaseReservation, Release
<1>16. ASSUME NEW c \in Calls, SettleUsage(c) PROVE Phase'
  BY <1>16 DEF SettleUsage, Settle, Costs
<1>17. ASSUME NEW c \in Calls, ReconcileUsage(c) PROVE Phase'
  BY <1>17 DEF ReconcileUsage, Settle, Costs
<1>18. ASSUME NEW c \in Calls, Put(c) PROVE Phase'
  BY <1>18 DEF Put
<1>19. ASSUME NEW c \in Calls, CloseLockSession(c) PROVE Phase'
  BY <1>19 DEF CloseLockSession
<1>20. ASSUME NEW c \in Calls, LeaveRegistry(c) PROVE Phase'
  BY <1>20 DEF LeaveRegistry
<1>21. ASSUME NEW c \in Calls, InterruptBefore(c) PROVE Phase'
  BY <1>21 DEF InterruptBefore, EndRequest, Unwind
<1>22. ASSUME NEW c \in Calls, InterruptAfter(c) PROVE Phase'
  BY <1>22 DEF InterruptAfter, Unwind, RecordCacheHit, ReserveAtomic, Release,
     Settle, Costs
<1>23. ASSUME NEW p \in Procs, Crash(p) PROVE Phase'
  BY <1>23 DEF Crash
<1>24. CASE UNCHANGED vars
  BY <1>24 DEF vars, gateway
<1> QED
  BY <1>1, <1>2, <1>3, <1>4, <1>5, <1>6, <1>7, <1>8, <1>9, <1>10, <1>11, <1>12,
     <1>13, <1>14, <1>15, <1>16, <1>17, <1>18, <1>19, <1>20, <1>21, <1>22, <1>23,
     <1>24
  DEF GatewayNext, Progress, Finished

(* A step leaves what was settled as understood, and not cut off, stored   *)
(* or about to be.                                                         *)
LEMMA StoredStep ==
    GatewayTypeOK /\ Phase /\ SettledIsStored /\ [GatewayNext]_vars
    => SettledIsStored'
<1> SUFFICES ASSUME GatewayTypeOK /\ Phase /\ SettledIsStored,
                    [GatewayNext]_vars
             PROVE  SettledIsStored'
  OBVIOUS
<1> USE GatewayAssumption DEF GatewayTypeOK, LedgerTypeOK, TaskTypeOK, Phase,
   Unreserved, Leaving, Closed, Cut, Live, Steps, SettledIsStored, locks, request,
   origin, ledger, Goto, End
<1>1. ASSUME NEW c \in Calls, Start(c) PROVE SettledIsStored'
  BY <1>1 DEF Start
<1>2. ASSUME NEW c \in Calls, LookupHit(c) PROVE SettledIsStored'
  BY <1>2 DEF LookupHit
<1>3. ASSUME NEW c \in Calls, LookupMiss(c) PROVE SettledIsStored'
  BY <1>3 DEF LookupMiss
<1>4. ASSUME NEW c \in Calls, AcquireLocal(c) PROVE SettledIsStored'
  BY <1>4 DEF AcquireLocal
<1>5. ASSUME NEW c \in Calls, AcquirePermit(c) PROVE SettledIsStored'
  BY <1>5 DEF AcquirePermit
<1>6. ASSUME NEW c \in Calls, AcquireAdvisory(c) PROVE SettledIsStored'
  BY <1>6 DEF AcquireAdvisory
<1>7. ASSUME NEW c \in Calls, Recheck(c) PROVE SettledIsStored'
  BY <1>7 DEF Recheck
<1>8. ASSUME NEW c \in Calls, ServeHit(c) PROVE SettledIsStored'
  BY <1>8 DEF ServeHit, RecordCacheHit, Unwind
<1>9. ASSUME NEW c \in Calls, Reserve(c) PROVE SettledIsStored'
  BY <1>9 DEF Reserve, ReserveAtomic
<1>10. ASSUME NEW c \in Calls, ReserveRefused(c) PROVE SettledIsStored'
  BY <1>10 DEF ReserveRefused
<1>11. ASSUME NEW c \in Calls, TakeSlot(c) PROVE SettledIsStored'
  BY <1>11 DEF TakeSlot
<1>12. ASSUME NEW c \in Calls, Answered(c) PROVE SettledIsStored'
  BY <1>12 DEF Answered, EndRequest
<1>13. ASSUME NEW c \in Calls, Transient(c) PROVE SettledIsStored'
  BY <1>13 DEF Transient, EndRequest, RetryLimit
<1>14. ASSUME NEW c \in Calls, Rejected(c) PROVE SettledIsStored'
  BY <1>14 DEF Rejected, EndRequest
<1>15. ASSUME NEW c \in Calls, ReleaseReservation(c) PROVE SettledIsStored'
  BY <1>15 DEF ReleaseReservation, Release
<1>16. ASSUME NEW c \in Calls, SettleUsage(c) PROVE SettledIsStored'
  BY <1>16 DEF SettleUsage, Settle, Costs
<1>17. ASSUME NEW c \in Calls, ReconcileUsage(c) PROVE SettledIsStored'
  BY <1>17 DEF ReconcileUsage, Settle, Costs
<1>18. ASSUME NEW c \in Calls, Put(c) PROVE SettledIsStored'
  BY <1>18 DEF Put
<1>19. ASSUME NEW c \in Calls, CloseLockSession(c) PROVE SettledIsStored'
  BY <1>19 DEF CloseLockSession
<1>20. ASSUME NEW c \in Calls, LeaveRegistry(c) PROVE SettledIsStored'
  BY <1>20 DEF LeaveRegistry
<1>21. ASSUME NEW c \in Calls, InterruptBefore(c) PROVE SettledIsStored'
  BY <1>21 DEF InterruptBefore, EndRequest, Unwind
<1>22. ASSUME NEW c \in Calls, InterruptAfter(c) PROVE SettledIsStored'
  BY <1>22 DEF InterruptAfter, Unwind, RecordCacheHit, ReserveAtomic, Release,
     Settle, Costs
<1>23. ASSUME NEW p \in Procs, Crash(p) PROVE SettledIsStored'
  BY <1>23 DEF Crash
<1>24. CASE UNCHANGED vars
  BY <1>24 DEF vars, gateway
<1> QED
  BY <1>1, <1>2, <1>3, <1>4, <1>5, <1>6, <1>7, <1>8, <1>9, <1>10, <1>11, <1>12,
     <1>13, <1>14, <1>15, <1>16, <1>17, <1>18, <1>19, <1>20, <1>21, <1>22, <1>23,
     <1>24
  DEF GatewayNext, Progress, Finished

(* A step settles a key a second time only if an earlier settlement was    *)
(* cut off before its response was stored.                                 *)
LEMMA PaidTwiceStep ==
    GatewayTypeOK /\ LockHeld /\ NeverPaysForCached /\ Phase /\ SettledIsStored /\
    PaidTwiceOnlyAfterLoss /\ [GatewayNext]_vars
    => PaidTwiceOnlyAfterLoss'
<1> SUFFICES ASSUME GatewayTypeOK /\ LockHeld /\ NeverPaysForCached /\ Phase /\
                    SettledIsStored /\ PaidTwiceOnlyAfterLoss,
                    [GatewayNext]_vars
             PROVE  PaidTwiceOnlyAfterLoss'
  OBVIOUS
<1> USE GatewayAssumption DEF GatewayTypeOK, LedgerTypeOK, TaskTypeOK, Phase,
   Unreserved, Leaving, Closed, Cut, Live, Steps, LockHeld, NeverPaysForCached,
   SettledIsStored, PaidTwiceOnlyAfterLoss, Locked, locks, request, origin, ledger,
   Goto, End
<1>0. ASSUME NEW c \in Calls, NEW d \in Calls, c # d, key[c] = key[d],
             pc[c] = "settle", status[d] = "settled"
      PROVE  result[d] \in Cut
  <2>1. key[d] \notin cached /\ pc[d] # "put"
    BY <1>0
  <2> QED BY <1>0, <2>1
<1>1. ASSUME NEW c \in Calls, Start(c) PROVE PaidTwiceOnlyAfterLoss'
  BY <1>1 DEF Start
<1>2. ASSUME NEW c \in Calls, LookupHit(c) PROVE PaidTwiceOnlyAfterLoss'
  BY <1>2 DEF LookupHit
<1>3. ASSUME NEW c \in Calls, LookupMiss(c) PROVE PaidTwiceOnlyAfterLoss'
  BY <1>3 DEF LookupMiss
<1>4. ASSUME NEW c \in Calls, AcquireLocal(c) PROVE PaidTwiceOnlyAfterLoss'
  BY <1>4 DEF AcquireLocal
<1>5. ASSUME NEW c \in Calls, AcquirePermit(c) PROVE PaidTwiceOnlyAfterLoss'
  BY <1>5 DEF AcquirePermit
<1>6. ASSUME NEW c \in Calls, AcquireAdvisory(c) PROVE PaidTwiceOnlyAfterLoss'
  BY <1>6 DEF AcquireAdvisory
<1>7. ASSUME NEW c \in Calls, Recheck(c) PROVE PaidTwiceOnlyAfterLoss'
  BY <1>7 DEF Recheck
<1>8. ASSUME NEW c \in Calls, ServeHit(c) PROVE PaidTwiceOnlyAfterLoss'
  BY <1>8 DEF ServeHit, RecordCacheHit, Unwind
<1>9. ASSUME NEW c \in Calls, Reserve(c) PROVE PaidTwiceOnlyAfterLoss'
  BY <1>9 DEF Reserve, ReserveAtomic
<1>10. ASSUME NEW c \in Calls, ReserveRefused(c) PROVE PaidTwiceOnlyAfterLoss'
  BY <1>10 DEF ReserveRefused
<1>11. ASSUME NEW c \in Calls, TakeSlot(c) PROVE PaidTwiceOnlyAfterLoss'
  BY <1>11 DEF TakeSlot
<1>12. ASSUME NEW c \in Calls, Answered(c) PROVE PaidTwiceOnlyAfterLoss'
  BY <1>12 DEF Answered, EndRequest
<1>13. ASSUME NEW c \in Calls, Transient(c) PROVE PaidTwiceOnlyAfterLoss'
  BY <1>13 DEF Transient, EndRequest, RetryLimit
<1>14. ASSUME NEW c \in Calls, Rejected(c) PROVE PaidTwiceOnlyAfterLoss'
  BY <1>14 DEF Rejected, EndRequest
<1>15. ASSUME NEW c \in Calls, ReleaseReservation(c) PROVE PaidTwiceOnlyAfterLoss'
  BY <1>15 DEF ReleaseReservation, Release
<1>16. ASSUME NEW c \in Calls, SettleUsage(c) PROVE PaidTwiceOnlyAfterLoss'
  <2>1. /\ pc[c] = "settle" /\ UNCHANGED <<key, result>>
        /\ \A d \in Calls : d # c => status'[d] = status[d]
    BY <1>16 DEF SettleUsage, Settle
  <2> SUFFICES ASSUME NEW a \in Calls, NEW b \in Calls, a # b, key[a] = key[b],
                      status'[a] = "settled", status'[b] = "settled"
               PROVE  {result[a], result[b]} \cap Cut # {}
    BY <2>1
  <2>2. CASE a = c
    BY <1>0, <2>1, <2>2
  <2>3. CASE b = c
    BY <1>0, <2>1, <2>3
  <2>4. CASE a # c /\ b # c
    BY <2>1, <2>4
  <2> QED BY <2>2, <2>3, <2>4
<1>17. ASSUME NEW c \in Calls, ReconcileUsage(c) PROVE PaidTwiceOnlyAfterLoss'
  BY <1>17 DEF ReconcileUsage, Settle, Costs
<1>18. ASSUME NEW c \in Calls, Put(c) PROVE PaidTwiceOnlyAfterLoss'
  BY <1>18 DEF Put
<1>19. ASSUME NEW c \in Calls, CloseLockSession(c) PROVE PaidTwiceOnlyAfterLoss'
  BY <1>19 DEF CloseLockSession
<1>20. ASSUME NEW c \in Calls, LeaveRegistry(c) PROVE PaidTwiceOnlyAfterLoss'
  BY <1>20 DEF LeaveRegistry
<1>21. ASSUME NEW c \in Calls, InterruptBefore(c) PROVE PaidTwiceOnlyAfterLoss'
  BY <1>21 DEF InterruptBefore, EndRequest, Unwind
<1>22. ASSUME NEW c \in Calls, InterruptAfter(c) PROVE PaidTwiceOnlyAfterLoss'
  <2>1. /\ UNCHANGED key /\ result' = [result EXCEPT ![c] = "interrupted"]
        /\ \A d \in Calls : d # c => status'[d] = status[d]
    BY <1>22 DEF InterruptAfter, RecordCacheHit, ReserveAtomic, Release, Settle
  <2> SUFFICES ASSUME NEW a \in Calls, NEW b \in Calls, a # b, key[a] = key[b],
                      status'[a] = "settled", status'[b] = "settled"
               PROVE  {result'[a], result'[b]} \cap Cut # {}
    BY <2>1
  <2>2. CASE a = c \/ b = c
    BY <2>1, <2>2
  <2>3. CASE a # c /\ b # c
    BY <2>1, <2>3
  <2> QED BY <2>2, <2>3
<1>23. ASSUME NEW p \in Procs, Crash(p) PROVE PaidTwiceOnlyAfterLoss'
  BY <1>23 DEF Crash
<1>24. CASE UNCHANGED vars
  BY <1>24 DEF vars, gateway
<1> QED
  BY <1>1, <1>2, <1>3, <1>4, <1>5, <1>6, <1>7, <1>8, <1>9, <1>10, <1>11, <1>12,
     <1>13, <1>14, <1>15, <1>16, <1>17, <1>18, <1>19, <1>20, <1>21, <1>22, <1>23,
     <1>24
  DEF GatewayNext, Progress, Finished

(* The inductive invariant holds in every reachable state.                 *)
THEOREM GatewayInvariant == GatewaySpec => []GatewayIInv
<1>1. GatewayInit => GatewayIInv
  <2> SUFFICES ASSUME GatewayInit PROVE GatewayIInv
    OBVIOUS
  <2>1. GatewayTypeOK
    BY GatewayAssumption, LedgerAssumption
    DEF GatewayInit, LedgerInit, GatewayTypeOK, LedgerTypeOK, LockTypeOK, TaskTypeOK,
        Amount, Status, Steps, Results, NoEntry
  <2>2. \A c \in Calls : /\ pc[c] = "idle" /\ status[c] = "none"
                         /\ billing[c] = "none" /\ result[c] = "none"
    BY DEF GatewayInit, LedgerInit
  <2>3. LockHeld /\ NeverPaysForCached /\ Phase
    BY <2>2 DEF LockHeld, NeverPaysForCached, Phase, Locked, Unreserved, Leaving,
       Closed
  <2>4. SettledIsStored /\ PaidTwiceOnlyAfterLoss
    BY <2>2 DEF SettledIsStored, PaidTwiceOnlyAfterLoss
  <2> QED BY <2>1, <2>3, <2>4 DEF GatewayIInv
<1>2. GatewayIInv /\ [GatewayNext]_vars => GatewayIInv'
  BY LedgerTypesKept, LockStepTypes, TaskStepTypes, LockHeldStep, NeverPaysStep,
     PhaseStep, StoredStep, PaidTwiceStep DEF GatewayIInv, GatewayTypeOK
<1> QED BY <1>1, <1>2, PTL DEF GatewaySpec

(* Single flight: of all tasks in all processes at most one is between its *)
(* second look at the cache and the storing of its response, for one key   *)
(* (UpstageGateway.generate, embed, parse).                                *)
THEOREM SingleFlightHolds == GatewaySpec => []SingleFlight
<1>1. GatewayIInv => SingleFlight
  BY DEF GatewayIInv, LockHeld, SingleFlight
<1> QED BY <1>1, GatewayInvariant, PTL

(* No call reserves, posts or settles for a key whose response is stored.  *)
THEOREM NeverPaysForCachedHolds == GatewaySpec => []NeverPaysForCached
<1>1. GatewayIInv => NeverPaysForCached
  BY DEF GatewayIInv
<1> QED BY <1>1, GatewayInvariant, PTL

(* A key is settled as understood twice only after a call was cut off      *)
(* between its settlement and the storing of its response.                 *)
THEOREM PaidTwiceHolds == GatewaySpec => []PaidTwiceOnlyAfterLoss
<1>1. GatewayIInv => PaidTwiceOnlyAfterLoss
  BY DEF GatewayIInv
<1> QED BY <1>1, GatewayInvariant, PTL

(* A reservation stays open only while its call is going to close it or    *)
(* because that call was cut off: no error path of generate, embed or      *)
(* parse leaks one.                                                        *)
THEOREM OpenReservationOwnedHolds == GatewaySpec => []OpenReservationOwned
<1>1. GatewayIInv => OpenReservationOwned
  BY DEF GatewayIInv, GatewayTypeOK, TaskTypeOK, Steps, Phase, OpenReservationOwned,
         Unreserved, Leaving, Closed, Cut
<1> QED BY <1>1, GatewayInvariant, PTL

(* An answered request is never released, and its usage is recorded when   *)
(* its call returns: the except branches of generate, embed and parse      *)
(* settle whatever was answered.                                           *)
THEOREM AnswerAccountedHolds == GatewaySpec => []AnswerAccounted
<1>1. GatewayIInv => AnswerAccounted
  BY DEF GatewayIInv, GatewayTypeOK, TaskTypeOK, Steps, Phase, AnswerAccounted,
         Unreserved, Leaving, Closed, Cut
<1> QED BY <1>1, GatewayInvariant, PTL

(* Provider work is paid for exactly once: a reservation has a paid usage  *)
(* row exactly when it is settled or flagged, and never two (settle).      *)
THEOREM ChargedExactlyOnceHolds == GatewaySpec => []ChargedExactlyOnce
<1>1. GatewayInit => ChargedExactlyOnce
  BY DEF GatewayInit, LedgerInit, ChargedExactlyOnce, PaidRows, Closed
<1>2. GatewayIInv /\ ChargedExactlyOnce /\ [GatewayNext]_vars => ChargedExactlyOnce'
  BY ChargedStep DEF GatewayIInv, GatewayTypeOK
<1> QED BY <1>1, <1>2, GatewayInvariant, PTL DEF GatewaySpec

-----------------------------------------------------------------------------
(***************************************************************************)
(* The hard cap of the ledger.  Its totals are sums over finite sets; each *)
(* method of the ledger is one step of the account its totals are mapped   *)
(* to, or none; then the account's cap is the ledger's.                    *)
(***************************************************************************)

(* FoldFacts knows sums over finite sets; its sets and sums are these.      *)
Added(none, sum, amount) == sum + amount
Sums == INSTANCE FoldFacts WITH Op <- Added

LEMMA SumsAreSums ==
    /\ \A f, S : Sums!SumFunctionOnSet(f, S) = SumFunctionOnSet(f, S)
    /\ \A S : Sums!IsFiniteSet(S) = IsFiniteSet(S)
<1>1. \A f, S : Sums!SumFunctionOnSet(f, S) = SumFunctionOnSet(f, S)
  BY DEF SumFunctionOnSet, FoldFunctionOnSet, MapThenFoldSet, Sums!SumFunctionOnSet,
         Sums!FoldFunctionOnSet, Sums!MapThenFoldSet
<1>2. \A S : Sums!IsFiniteSet(S) = IsFiniteSet(S)
  BY DEF IsFiniteSet, Sums!IsFiniteSet
<1> QED BY <1>1, <1>2

LEMMA SumEmpty == \A f : SumFunctionOnSet(f, {}) = 0
  BY SumsAreSums, Sums!SumEmpty

LEMMA SumNat ==
    ASSUME NEW f, NEW S, IsFiniteSet(S), \A x \in S : f[x] \in Nat
    PROVE  SumFunctionOnSet(f, S) \in Nat
  BY SumsAreSums, Sums!SumNat

LEMMA SumSplit ==
    ASSUME NEW f, NEW S, IsFiniteSet(S), \A x \in S : f[x] \in Nat, NEW y \in S
    PROVE  SumFunctionOnSet(f, S) = f[y] + SumFunctionOnSet(f, S \ {y})
  BY SumsAreSums, Sums!SumSplit

LEMMA SumSame ==
    ASSUME NEW f, NEW g, NEW S, IsFiniteSet(S), \A x \in S : f[x] = g[x]
    PROVE  SumFunctionOnSet(f, S) = SumFunctionOnSet(g, S)
  BY SumsAreSums, Sums!SumSame

LEMMA SumZero ==
    ASSUME NEW S, IsFiniteSet(S)
    PROVE  SumFunctionOnSet([x \in S |-> 0], S) = 0
  BY SumsAreSums, Sums!SumZero

(* The total cost of a set of usage rows.                                  *)
Cost(rows) == SumFunction([row \in rows |-> row.cost])

(* A row that is new adds its cost.                                        *)
LEMMA CostAdds ==
    ASSUME NEW rows, IsFiniteSet(rows), NEW row, row \notin rows,
           \A r \in rows \cup {row} : r.cost \in Nat
    PROVE  /\ Cost(rows) \in Nat
           /\ Cost(rows \cup {row}) = row.cost + Cost(rows)
<1> DEFINE f == [r \in rows |-> r.cost]
           all == rows \cup {row}
           g == [r \in all |-> r.cost]
<1>1. Cost(rows) = SumFunctionOnSet(f, rows) /\ Cost(all) = SumFunctionOnSet(g, all)
  BY DEF Cost, SumFunction
<1>2. IsFiniteSet(all)
  BY FS_AddElement
<1>3. \A r \in rows : f[r] \in Nat /\ g[r] = f[r]
  OBVIOUS
<1>4. (\A r \in all : g[r] \in Nat) /\ g[row] = row.cost /\ row \in all /\ all \ {row} = rows
  OBVIOUS
<1> HIDE DEF f, g, all
<1>5. SumFunctionOnSet(g, all) = g[row] + SumFunctionOnSet(g, rows)
  BY <1>2, <1>4, SumSplit
<1>6. SumFunctionOnSet(g, rows) = SumFunctionOnSet(f, rows)
  BY <1>3, SumSame
<1>7. SumFunctionOnSet(f, rows) \in Nat
  BY <1>3, SumNat
<1> QED BY <1>1, <1>4, <1>5, <1>6, <1>7 DEF all

LEMMA CostNone == Cost({}) = 0
<1>1. Cost({}) = SumFunctionOnSet([row \in {} |-> row.cost], {})
  BY DEF Cost, SumFunction
<1> QED BY <1>1, SumEmpty

(* Changing one summand changes the sum by as much.                        *)
LEMMA SumChanges ==
    ASSUME NEW f, NEW g, NEW S, IsFiniteSet(S), NEW y \in S,
           \A x \in S : f[x] \in Nat /\ g[x] \in Nat,
           \A x \in S \ {y} : g[x] = f[x]
    PROVE  SumFunctionOnSet(g, S) + f[y] = SumFunctionOnSet(f, S) + g[y]
<1> DEFINE R == S \ {y}
<1>1. IsFiniteSet(R)
  BY FS_Subset
<1>2. SumFunctionOnSet(f, S) = f[y] + SumFunctionOnSet(f, R)
  BY SumSplit
<1>3. SumFunctionOnSet(g, S) = g[y] + SumFunctionOnSet(g, R)
  BY SumSplit
<1>4. SumFunctionOnSet(g, R) = SumFunctionOnSet(f, R)
  <2>1. \A x \in R : g[x] = f[x]
    OBVIOUS
  <2> HIDE DEF R
  <2> QED BY <1>1, <2>1, SumSame
<1>5. SumFunctionOnSet(f, R) \in Nat
  <2>1. \A x \in R : f[x] \in Nat
    OBVIOUS
  <2> HIDE DEF R
  <2> QED BY <1>1, <2>1, SumNat
<1> QED BY <1>2, <1>3, <1>4, <1>5

(* What the tables satisfy between the ledger's methods.                   *)
LedgerSound ==
    /\ LedgerTypeOK
    /\ IsFiniteSet(usage)
    /\ ChargedExactlyOnce

(* A call whose reservation is not closed has cost nothing yet.            *)
LEMMA OpenUnpaid ==
    ASSUME LedgerSound, NEW c \in Calls, status[c] \notin Closed
    PROVE  PaidRows(c) = {} /\ Excess(c) = 0
<1>1. PaidRows(c) = {}
  BY DEF LedgerSound, ChargedExactlyOnce
<1>2. reserved[c] \in Nat
  BY LedgerAssumption DEF LedgerSound, LedgerTypeOK, Amount
<1>3. Excess(c) = IF Cost(PaidRows(c)) > reserved[c]
                  THEN Cost(PaidRows(c)) - reserved[c] ELSE 0
  BY DEF Excess, Cost
<1> QED BY <1>1, <1>2, <1>3, CostNone

(* Rows of natural costs cost a natural.                                   *)
LEMMA CostNat ==
    ASSUME NEW rows, IsFiniteSet(rows), \A r \in rows : r.cost \in Nat
    PROVE  Cost(rows) \in Nat
<1> DEFINE f == [r \in rows |-> r.cost]
<1>1. Cost(rows) = SumFunctionOnSet(f, rows)
  BY DEF Cost, SumFunction
<1>2. \A r \in rows : f[r] \in Nat
  OBVIOUS
<1> HIDE DEF f
<1> QED BY <1>1, <1>2, SumNat

(* The totals the account is mapped to are naturals.                       *)
LEMMA TotalsNat ==
    ASSUME LedgerSound
    PROVE  /\ SettledTotal \in Nat /\ OpenTotal \in Nat /\ ExcessTotal \in Nat
           /\ \A c \in Calls : Excess(c) \in Nat
<1>1. \A r \in usage : r.cost \in Nat
  BY LedgerAssumption DEF LedgerSound, LedgerTypeOK, UsageRow, Amount
<1>2. SettledTotal \in Nat
  BY <1>1, CostNat DEF LedgerSound, SettledTotal, Cost
<1>3. \A c \in Calls : reserved[c] \in Nat
  BY LedgerAssumption DEF LedgerSound, LedgerTypeOK, Amount
<1>4. OpenTotal \in Nat
  <2>1. OpenCalls \subseteq Calls /\ IsFiniteSet(OpenCalls)
    BY LedgerAssumption, FS_Subset DEF OpenCalls
  <2> QED BY <1>3, <2>1, SumNat DEF OpenTotal
<1>5. ASSUME NEW c \in Calls PROVE Excess(c) \in Nat
  <2>1. PaidRows(c) \subseteq usage
    BY DEF PaidRows
  <2>2. IsFiniteSet(PaidRows(c))
    BY <2>1, FS_Subset DEF LedgerSound
  <2>3. Cost(PaidRows(c)) \in Nat
    BY <1>1, <2>1, <2>2, CostNat
  <2>4. Excess(c) = IF Cost(PaidRows(c)) > reserved[c]
                    THEN Cost(PaidRows(c)) - reserved[c] ELSE 0
    BY DEF Excess, Cost
  <2> QED BY <1>3, <2>3, <2>4
<1>6. ExcessTotal \in Nat
  <2> DEFINE f == [c \in Calls |-> Excess(c)]
  <2>1. ExcessTotal = SumFunctionOnSet(f, Calls)
    BY DEF ExcessTotal, SumFunction
  <2>2. \A c \in Calls : f[c] \in Nat
    BY <1>5
  <2> HIDE DEF f
  <2> QED BY <2>1, <2>2, LedgerAssumption, SumNat
<1> QED BY <1>2, <1>4, <1>5, <1>6

(* The total excess changes only with some call's.                         *)
LEMMA ExcessKept ==
    ASSUME \A c \in Calls : Excess(c)' = Excess(c)
    PROVE  ExcessTotal' = ExcessTotal
<1>1. [c \in Calls |-> Excess(c)'] = [c \in Calls |-> Excess(c)]
  OBVIOUS
<1> QED BY <1>1 DEF ExcessTotal

(* Reserving: the account holds the projected cost.                        *)
LEMMA ReserveHolds ==
    ASSUME LedgerSound, NEW c \in Calls, NEW cost \in Amount, ReserveAtomic(c, cost)
    PROVE  Account!Hold(cost)
<1>1. /\ status[c] = "none" /\ Admits(cost) /\ UNCHANGED usage
      /\ status' = [status EXCEPT ![c] = "open"]
      /\ reserved' = [reserved EXCEPT ![c] = cost]
      /\ status \in [Calls -> Status] /\ reserved \in [Calls -> Amount]
  BY DEF ReserveAtomic, LedgerSound, LedgerTypeOK
<1>2. /\ c \notin OpenCalls /\ OpenCalls' = OpenCalls \cup {c}
      /\ OpenCalls \subseteq Calls
      /\ reserved'[c] = cost /\ \A d \in Calls \ {c} : reserved'[d] = reserved[d]
      /\ \A d \in Calls : reserved[d] \in Nat /\ reserved'[d] \in Nat
  BY <1>1, LedgerAssumption DEF OpenCalls, Amount
<1>3. IsFiniteSet(OpenCalls) /\ IsFiniteSet(OpenCalls')
  BY <1>2, LedgerAssumption, FS_Subset, FS_AddElement
<1>4. OpenTotal' = OpenTotal + cost
  <2>1. SumFunctionOnSet(reserved', OpenCalls')
          = reserved'[c] + SumFunctionOnSet(reserved', OpenCalls' \ {c})
    <3>1. c \in OpenCalls' /\ \A d \in OpenCalls' : reserved'[d] \in Nat
      BY <1>2
    <3> QED BY <1>3, <3>1, SumSplit
  <2>2. OpenCalls' \ {c} = OpenCalls
    BY <1>2
  <2>3. SumFunctionOnSet(reserved', OpenCalls) = SumFunctionOnSet(reserved, OpenCalls)
    <3>1. \A d \in OpenCalls : reserved'[d] = reserved[d]
      BY <1>2
    <3> QED BY <1>3, <3>1, SumSame
  <2>4. OpenTotal \in Nat /\ cost \in Nat
    BY TotalsNat, LedgerAssumption DEF Amount
  <2> QED BY <1>2, <2>1, <2>2, <2>3, <2>4 DEF OpenTotal
<1>5. SettledTotal' = SettledTotal
  BY <1>1 DEF SettledTotal
<1>6. ExcessTotal' = ExcessTotal
  <2>1. PaidRows(c) = {}
    BY <1>1, OpenUnpaid DEF Closed
  <2>2. \A d \in Calls : PaidRows(d)' = PaidRows(d)
    BY <1>1 DEF PaidRows
  <2>3. \A d \in Calls \ {c} : Excess(d)' = Excess(d)
    BY <1>2, <2>2 DEF Excess
  <2>4. Excess(c)' = IF Cost({}) > cost THEN Cost({}) - cost ELSE 0
    BY <1>2, <2>1, <2>2 DEF Excess, Cost
  <2>5. Excess(c)' = Excess(c)
    BY <1>1, <2>4, OpenUnpaid, CostNone, LedgerAssumption DEF Amount, Closed
  <2> QED BY <2>3, <2>5, ExcessKept
<1> QED BY <1>1, <1>4, <1>5, <1>6 DEF Admits, Account!Hold

(* What leaves the open reservations when one of them is closed.           *)
LEMMA OpenCloses ==
    ASSUME LedgerSound, NEW c \in Calls, status[c] = "open",
           OpenCalls' = OpenCalls \ {c}, UNCHANGED reserved
    PROVE  reserved[c] <= OpenTotal /\ OpenTotal' = OpenTotal - reserved[c]
<1>1. c \in OpenCalls /\ OpenCalls \subseteq Calls
  BY DEF OpenCalls
<1>2. \A d \in Calls : reserved[d] \in Nat
  BY LedgerAssumption DEF LedgerSound, LedgerTypeOK, Amount
<1>3. IsFiniteSet(OpenCalls) /\ IsFiniteSet(OpenCalls \ {c})
  BY <1>1, LedgerAssumption, FS_Subset
<1>4. SumFunctionOnSet(reserved, OpenCalls)
        = reserved[c] + SumFunctionOnSet(reserved, OpenCalls \ {c})
  BY <1>1, <1>2, <1>3, SumSplit
<1>5. SumFunctionOnSet(reserved, OpenCalls \ {c}) \in Nat
  BY <1>1, <1>2, <1>3, SumNat
<1> QED BY <1>2, <1>4, <1>5 DEF OpenTotal

(* Settling: one hold becomes one charge, whatever it cost.                *)
LEMMA SettleCharges ==
    ASSUME LedgerSound, NEW c \in Calls, NEW cost \in Amount, NEW flag \in BOOLEAN,
           Settle(c, cost, flag)
    PROVE  Account!Charge(reserved[c], cost)
<1> DEFINE row == [call |-> c, cost |-> cost, hit |-> FALSE]
<1>1. /\ status[c] = "open" /\ UNCHANGED reserved /\ usage' = usage \cup {row}
      /\ status'[c] # "open" /\ \A d \in Calls \ {c} : status'[d] = status[d]
  BY DEF Settle, LedgerSound, LedgerTypeOK
<1>2. PaidRows(c) = {} /\ Excess(c) = 0
  BY <1>1, OpenUnpaid DEF Closed
<1>3. PaidRows(c)' = {row} /\ \A d \in Calls \ {c} : PaidRows(d)' = PaidRows(d)
  BY <1>1, <1>2 DEF PaidRows
<1>4. cost \in Nat /\ reserved[c] \in Nat /\ \A r \in usage : r.cost \in Nat
  BY LedgerAssumption DEF LedgerSound, LedgerTypeOK, UsageRow, Amount
<1>5. row \notin usage
  BY <1>2 DEF PaidRows
<1>6. reserved[c] <= OpenTotal /\ OpenTotal' = OpenTotal - reserved[c]
  <2>1. OpenCalls' = OpenCalls \ {c}
    BY <1>1 DEF OpenCalls
  <2> QED BY <1>1, <2>1, OpenCloses
<1>7. SettledTotal' = SettledTotal + cost
  <2>1. \A r \in usage \cup {row} : r.cost \in Nat
    BY <1>4
  <2>2. row.cost = cost
    OBVIOUS
  <2>3. IsFiniteSet(usage) /\ Cost(usage) = SettledTotal /\ Cost(usage') = SettledTotal'
    BY DEF LedgerSound, Cost, SettledTotal
  <2> HIDE DEF row
  <2>4. Cost(usage \cup {row}) = row.cost + Cost(usage) /\ Cost(usage) \in Nat
    BY <1>5, <2>1, <2>3, CostAdds
  <2> QED BY <1>1, <1>4, <2>2, <2>3, <2>4
<1>8. Excess(c)' = IF cost > reserved[c] THEN cost - reserved[c] ELSE 0
  <2>1. Cost({row}) = cost
    <3>1. \A r \in {} \cup {row} : r.cost \in Nat
      BY <1>4
    <3>2. row.cost = cost /\ row \notin {} /\ IsFiniteSet({})
      BY FS_EmptySet
    <3> HIDE DEF row
    <3>3. Cost({} \cup {row}) = row.cost + Cost({})
      BY <3>1, <3>2, CostAdds
    <3>4. {} \cup {row} = {row}
      OBVIOUS
    <3> QED BY <1>4, <3>2, <3>3, <3>4, CostNone
  <2>2. Excess(c)' = IF Cost(PaidRows(c)') > reserved'[c]
                     THEN Cost(PaidRows(c)') - reserved'[c] ELSE 0
    BY DEF Excess, Cost
  <2> QED BY <1>1, <1>3, <2>1, <2>2
<1>9. ExcessTotal' = ExcessTotal + Excess(c)'
  <2> DEFINE f == [d \in Calls |-> Excess(d)]
             g == [d \in Calls |-> Excess(d)']
  <2>1. ExcessTotal = SumFunctionOnSet(f, Calls) /\ ExcessTotal' = SumFunctionOnSet(g, Calls)
    BY DEF ExcessTotal, SumFunction
  <2>2. f[c] = 0 /\ g[c] = Excess(c)'
    BY <1>2
  <2>3. \A d \in Calls \ {c} : g[d] = f[d]
    BY <1>1, <1>3 DEF Excess
  <2>4. \A d \in Calls : f[d] \in Nat
    BY TotalsNat
  <2>5. g[c] \in Nat
    BY <1>4, <1>8, <2>2
  <2>6. \A d \in Calls : f[d] \in Nat /\ g[d] \in Nat
    BY <2>3, <2>4, <2>5
  <2>7. IsFiniteSet(Calls) /\ ExcessTotal \in Nat
    BY LedgerAssumption, TotalsNat
  <2> HIDE DEF f, g
  <2>8. SumFunctionOnSet(g, Calls) + f[c] = SumFunctionOnSet(f, Calls) + g[c]
    BY <2>3, <2>6, <2>7, SumChanges
  <2>9. SumFunctionOnSet(g, Calls) \in Nat
    BY <2>6, <2>7, SumNat
  <2> QED BY <2>1, <2>2, <2>5, <2>7, <2>8, <2>9
<1> QED BY <1>6, <1>7, <1>8, <1>9 DEF Account!Charge

(* Releasing an open reservation gives the hold back.                      *)
LEMMA ReleaseGivesBack ==
    ASSUME LedgerSound, NEW c \in Calls, Release(c)
    PROVE  Account!GiveBack(reserved[c]) \/ UNCHANGED Account!avars
<1>1. UNCHANGED <<reserved, usage>> /\ SettledTotal' = SettledTotal
  BY DEF Release, SettledTotal
<1>2. ExcessTotal' = ExcessTotal
  <2>1. \A d \in Calls : Excess(d)' = Excess(d)
    BY <1>1 DEF Excess, PaidRows
  <2> QED BY <2>1, ExcessKept
<1>3. CASE status[c] = "open"
  <2>1. OpenCalls' = OpenCalls \ {c}
    BY <1>3 DEF Release, OpenCalls, LedgerSound, LedgerTypeOK
  <2> QED BY <1>1, <1>2, <1>3, <2>1, OpenCloses DEF Account!GiveBack
<1>4. CASE status[c] # "open"
  <2>1. status' = status
    BY <1>4 DEF Release, LedgerSound, LedgerTypeOK
  <2>2. OpenTotal' = OpenTotal
    BY <1>1, <2>1 DEF OpenTotal, OpenCalls
  <2> QED BY <1>1, <1>2, <2>2 DEF Account!avars
<1> QED BY <1>3, <1>4

(* A cache hit is a row at no cost.                                        *)
LEMMA CacheHitIsFree ==
    ASSUME LedgerSound, NEW c \in Calls, RecordCacheHit(c)
    PROVE  UNCHANGED Account!avars
<1> DEFINE row == [call |-> c, cost |-> 0, hit |-> TRUE]
<1>1. usage' = usage \cup {row} /\ UNCHANGED <<status, reserved>>
  BY DEF RecordCacheHit
<1>2. OpenTotal' = OpenTotal
  BY <1>1 DEF OpenTotal, OpenCalls
<1>3. ExcessTotal' = ExcessTotal
  <2>1. \A d \in Calls : PaidRows(d)' = PaidRows(d)
    BY <1>1 DEF PaidRows
  <2>2. \A d \in Calls : Excess(d)' = Excess(d)
    BY <1>1, <2>1 DEF Excess
  <2> QED BY <2>2, ExcessKept
<1>4. SettledTotal' = SettledTotal
  <2>1. CASE row \in usage
    <3>1. usage' = usage
      BY <1>1, <2>1
    <3> QED BY <3>1 DEF SettledTotal
  <2>2. CASE row \notin usage
    <3>1. \A r \in usage \cup {row} : r.cost \in Nat
      BY LedgerAssumption DEF LedgerSound, LedgerTypeOK, UsageRow, Amount
    <3>2. row.cost = 0
      OBVIOUS
    <3>3. IsFiniteSet(usage) /\ Cost(usage) = SettledTotal /\ Cost(usage') = SettledTotal'
      BY DEF LedgerSound, Cost, SettledTotal
    <3> HIDE DEF row
    <3>4. Cost(usage \cup {row}) = row.cost + Cost(usage) /\ Cost(usage) \in Nat
      BY <2>2, <3>1, <3>3, CostAdds
    <3> QED BY <1>1, <3>2, <3>3, <3>4
  <2> QED BY <2>1, <2>2
<1> QED BY <1>2, <1>3, <1>4 DEF Account!avars

(* A step of the gateway is a step of the account, or leaves it alone.     *)
LEMMA AccountStep ==
    GatewayTypeOK /\ LedgerSound /\ [GatewayNext]_vars => [Account!AccountNext]_(Account!avars)
<1> SUFFICES ASSUME GatewayTypeOK, LedgerSound, [GatewayNext]_vars
             PROVE  [Account!AccountNext]_(Account!avars)
  OBVIOUS
<1>1. CASE UNCHANGED ledger
  <2>1. SettledTotal' = SettledTotal /\ OpenTotal' = OpenTotal
    BY <1>1 DEF ledger, SettledTotal, OpenTotal, OpenCalls
  <2>2. \A c \in Calls : Excess(c)' = Excess(c)
    BY <1>1 DEF ledger, Excess, PaidRows
  <2> QED BY <2>1, <2>2, ExcessKept DEF Account!avars
<1>2. \A c \in Calls : reserved[c] \in 0..MaxCost
  BY DEF LedgerSound, LedgerTypeOK, Amount
<1>3. ASSUME NEW c \in Calls, RecordCacheHit(c) PROVE UNCHANGED Account!avars
  BY <1>3, CacheHitIsFree
<1>4. ASSUME NEW c \in Calls, Release(c)
      PROVE  Account!AccountNext \/ UNCHANGED Account!avars
  <2>1. CASE Account!GiveBack(reserved[c])
    BY <1>2, <2>1 DEF Account!AccountNext
  <2> QED BY <1>4, <2>1, ReleaseGivesBack
<1>5. ASSUME NEW c \in Calls, NEW cost \in Amount, ReserveAtomic(c, cost)
      PROVE  Account!AccountNext
  <2>1. Account!Hold(cost)
    BY <1>5, ReserveHolds
  <2> QED BY <2>1 DEF Account!AccountNext, Amount
<1>6. ASSUME NEW c \in Calls, NEW cost \in Amount, NEW flag \in BOOLEAN,
             Settle(c, cost, flag)
      PROVE  Account!AccountNext
  <2>1. Account!Charge(reserved[c], cost)
    BY <1>6, SettleCharges
  <2> QED BY <1>2, <2>1 DEF Account!AccountNext, Amount
<1> QED BY <1>1, <1>3, <1>4, <1>5, <1>6, LedgerOperation DEF LedgerMethod

(* What the refinement rests on: the types, the single charge and the      *)
(* finitely many rows written so far.                                      *)
LEMMA LedgerStaysSound == GatewaySpec => []LedgerSound
<1>1. GatewayInit => IsFiniteSet(usage)
  BY FS_EmptySet DEF GatewayInit, LedgerInit
<1>2. GatewayTypeOK /\ IsFiniteSet(usage) /\ [GatewayNext]_vars => IsFiniteSet(usage)'
  <2> SUFFICES ASSUME GatewayTypeOK, IsFiniteSet(usage), [GatewayNext]_vars
               PROVE  IsFiniteSet(usage')
    OBVIOUS
  <2>1. \A row : IsFiniteSet(usage \cup {row})
    BY FS_AddElement
  <2>2. ASSUME NEW c \in Calls, LedgerMethod(c)
        PROVE  usage' = usage \/ \E row : usage' = usage \cup {row}
    BY <2>2 DEF LedgerMethod, RecordCacheHit, Release, ReserveAtomic, Settle
  <2> QED BY <2>1, <2>2, LedgerOperation DEF ledger
<1>3. GatewaySpec => []IsFiniteSet(usage)
  BY <1>1, <1>2, GatewayTypes, PTL DEF GatewaySpec
<1>4. GatewayTypeOK /\ ChargedExactlyOnce /\ IsFiniteSet(usage) => LedgerSound
  BY DEF LedgerSound, GatewayTypeOK
<1> QED BY <1>3, <1>4, GatewayTypes, ChargedExactlyOnceHolds, PTL

(* The ledger implements the account: whatever the calls of all processes  *)
(* do, reserve_atomic is a hold, settle turns one hold into one charge,    *)
(* release gives one hold back, and nothing else moves money.              *)
THEOREM LedgerImplementsAccount == GatewaySpec => ImplementsAccount
<1>1. GatewayInit => Account!AccountInit
  <2> SUFFICES ASSUME GatewayInit PROVE Account!AccountInit
    OBVIOUS
  <2>1. usage = {} /\ \A c \in Calls : status[c] = "none" /\ reserved[c] = 0
    BY DEF GatewayInit, LedgerInit
  <2>2. SettledTotal = 0
    BY <2>1, CostNone DEF SettledTotal, Cost
  <2>3. OpenTotal = 0
    <3>1. OpenCalls = {}
      BY <2>1 DEF OpenCalls
    <3> QED BY <3>1, SumEmpty DEF OpenTotal
  <2>4. \A c \in Calls : Excess(c) = 0
    <3> SUFFICES ASSUME NEW c \in Calls PROVE Excess(c) = 0
      OBVIOUS
    <3>1. PaidRows(c) = {}
      BY <2>1 DEF PaidRows
    <3>2. Excess(c) = IF Cost({}) > reserved[c] THEN Cost({}) - reserved[c] ELSE 0
      BY <3>1 DEF Excess, Cost
    <3> QED BY <2>1, <3>2, CostNone
  <2>5. ExcessTotal = 0
    <3> DEFINE f == [c \in Calls |-> Excess(c)]
               zero == [c \in Calls |-> 0]
    <3>1. f = zero
      BY <2>4
    <3>2. ExcessTotal = SumFunctionOnSet(f, Calls)
      BY DEF ExcessTotal, SumFunction
    <3> HIDE DEF f
    <3> QED BY <3>1, <3>2, LedgerAssumption, SumZero
  <2> QED BY <2>2, <2>3, <2>5 DEF Account!AccountInit
<1> QED
  BY <1>1, AccountStep, LedgerStaysSound, GatewayTypes, PTL
  DEF GatewaySpec, ImplementsAccount, Account!AccountSpec

(* For every limit and every cost, whatever the order of holds, charges    *)
(* and returns: reserve_atomic's comparison and settle's bookkeeping keep  *)
(* the committed money below the hard limit plus the reported excess.      *)
THEOREM AccountCapHolds ==
    Account!AccountSpec => [](Account!AccountTypeOK /\ Account!AccountCap)
<1> USE LedgerAssumption
<1> DEFINE Inv == Account!AccountTypeOK /\ Account!AccountCap
<1>1. Account!AccountInit => Inv
  BY DEF Account!AccountInit, Account!AccountTypeOK, Account!AccountCap
<1>2. Inv /\ [Account!AccountNext]_(Account!avars) => Inv'
  <2> SUFFICES ASSUME Inv, [Account!AccountNext]_(Account!avars) PROVE Inv'
    OBVIOUS
  <2>1. ASSUME NEW amount \in 0..MaxCost, Account!Hold(amount) PROVE Inv'
    BY <2>1 DEF Account!Hold, Account!AccountTypeOK, Account!AccountCap
  <2>2. ASSUME NEW amount \in 0..MaxCost, NEW cost \in 0..MaxCost, Account!Charge(amount, cost)
        PROVE  Inv'
    <3>1. CASE cost > amount
      BY <2>2, <3>1 DEF Account!Charge, Account!AccountTypeOK, Account!AccountCap
    <3>2. CASE ~(cost > amount)
      BY <2>2, <3>2 DEF Account!Charge, Account!AccountTypeOK, Account!AccountCap
    <3> QED BY <3>1, <3>2
  <2>3. ASSUME NEW amount \in 0..MaxCost, Account!GiveBack(amount) PROVE Inv'
    BY <2>3 DEF Account!GiveBack, Account!AccountTypeOK, Account!AccountCap
  <2>4. CASE UNCHANGED Account!avars
    BY <2>4 DEF Account!avars, Account!AccountTypeOK, Account!AccountCap
  <2> QED BY <2>1, <2>2, <2>3, <2>4 DEF Account!AccountNext
<1> QED BY <1>1, <1>2, PTL DEF Account!AccountSpec

(* The hard cap: whatever calls run in however many processes, whatever    *)
(* they are charged and wherever they are cut off, settled and open cost   *)
(* stay below the limit but for what the provider reported beyond its      *)
(* reservations (reserve_atomic).                                          *)
THEOREM CapHolds == GatewaySpec => []CapUnlessOverrun
<1>1. Account!AccountCap => CapUnlessOverrun
  BY DEF Account!AccountCap, CapUnlessOverrun
<1>2. ImplementsAccount => [](Account!AccountTypeOK /\ Account!AccountCap)
  BY AccountCapHolds DEF ImplementsAccount
<1> QED BY <1>1, <1>2, LedgerImplementsAccount, PTL
-----------------------------------------------------------------------------
(***************************************************************************)
(* The reference counting of _LocalSingleflightRegistry, for any tasks,    *)
(* processes and keys.  Only three steps change it: a lookup that misses   *)
(* joins an entry, leaving counts down and removes an entry nobody uses,   *)
(* a crash drops a process's.  An entry is shared by the tasks of one      *)
(* process and key (EntryShared), so the last user of an entry is the last *)
(* for that key, and an entry that was removed and made again has no user  *)
(* left in its earlier life.                                               *)
(***************************************************************************)

(* The calls that count themselves users of an entry.                      *)
UsersOf(e) == {c \in Calls : entry[c] = e}

(* All but four kinds of steps leave the registry and its locks alone, and *)
(* no step moves a task to another process or key.                         *)
LEMMA RegistryUntouched ==
    ASSUME [GatewayNext]_vars
    PROVE  /\ UNCHANGED <<proc, key>>
           /\ \/ \E c \in Calls : LookupMiss(c) \/ AcquireLocal(c) \/ LeaveRegistry(c)
              \/ \E p \in Procs : Crash(p)
              \/ UNCHANGED <<registry, users, holder, entry>>
<1> USE DEF locks, request, origin, ledger
<1> DEFINE Fixed == UNCHANGED <<proc, key>>
           Quiet == Fixed /\ UNCHANGED <<registry, users, holder, entry>>
<1>21. ASSUME NEW c \in Calls, LookupMiss(c) \/ AcquireLocal(c) \/ LeaveRegistry(c)
       PROVE  Fixed
  BY <1>21 DEF LookupMiss, AcquireLocal, LeaveRegistry
<1>22. ASSUME NEW p \in Procs, Crash(p) PROVE Fixed
  BY <1>22 DEF Crash
<1>23. CASE UNCHANGED vars
  BY <1>23 DEF vars, gateway
<1>1. ASSUME NEW c \in Calls, Start(c) PROVE Quiet
  BY <1>1 DEF Start
<1>2. ASSUME NEW c \in Calls, LookupHit(c) PROVE Quiet
  BY <1>2 DEF LookupHit
<1>3. ASSUME NEW c \in Calls, AcquirePermit(c) PROVE Quiet
  BY <1>3 DEF AcquirePermit
<1>4. ASSUME NEW c \in Calls, AcquireAdvisory(c) PROVE Quiet
  BY <1>4 DEF AcquireAdvisory
<1>5. ASSUME NEW c \in Calls, Recheck(c) PROVE Quiet
  BY <1>5 DEF Recheck
<1>6. ASSUME NEW c \in Calls, ServeHit(c) PROVE Quiet
  BY <1>6 DEF ServeHit, RecordCacheHit, Unwind
<1>7. ASSUME NEW c \in Calls, Reserve(c) PROVE Quiet
  BY <1>7 DEF Reserve, ReserveAtomic
<1>8. ASSUME NEW c \in Calls, ReserveRefused(c) PROVE Quiet
  BY <1>8 DEF ReserveRefused
<1>9. ASSUME NEW c \in Calls, TakeSlot(c) PROVE Quiet
  BY <1>9 DEF TakeSlot
<1>10. ASSUME NEW c \in Calls, Answered(c) PROVE Quiet
  BY <1>10 DEF Answered, EndRequest
<1>11. ASSUME NEW c \in Calls, Transient(c) PROVE Quiet
  BY <1>11 DEF Transient, EndRequest, RetryLimit
<1>12. ASSUME NEW c \in Calls, Rejected(c) PROVE Quiet
  BY <1>12 DEF Rejected, EndRequest
<1>13. ASSUME NEW c \in Calls, ReleaseReservation(c) PROVE Quiet
  BY <1>13 DEF ReleaseReservation, Release
<1>14. ASSUME NEW c \in Calls, SettleUsage(c) PROVE Quiet
  BY <1>14 DEF SettleUsage, Settle, Costs
<1>15. ASSUME NEW c \in Calls, ReconcileUsage(c) PROVE Quiet
  BY <1>15 DEF ReconcileUsage, Settle, Costs
<1>16. ASSUME NEW c \in Calls, Put(c) PROVE Quiet
  BY <1>16 DEF Put
<1>17. ASSUME NEW c \in Calls, CloseLockSession(c) PROVE Quiet
  BY <1>17 DEF CloseLockSession
<1>18. ASSUME NEW c \in Calls, InterruptBefore(c) PROVE Quiet
  BY <1>18 DEF InterruptBefore, EndRequest, Unwind
<1>19. ASSUME NEW c \in Calls, InterruptAfter(c) PROVE Quiet
  BY <1>19 DEF InterruptAfter, Unwind
<1> QED
  BY <1>1, <1>2, <1>3, <1>4, <1>5, <1>6, <1>7, <1>8, <1>9, <1>10, <1>11, <1>12,
     <1>13, <1>14, <1>15, <1>16, <1>17, <1>18, <1>19, <1>21, <1>22, <1>23
  DEF GatewayNext, Progress, Finished

(* Calls are finitely many, so the users of an entry can be counted.       *)
LEMMA UsersFinite == \A e : IsFiniteSet(UsersOf(e))
BY LedgerAssumption, FS_Subset DEF UsersOf

(* A miss joins the entry of its process and key, which is in use exactly  *)
(* if the registry holds it: the count, the sharing and the use survive.   *)
LEMMA JoinKeeps ==
    ASSUME GatewayTypeOK, RegistryIInv, NEW c \in Calls, LookupMiss(c)
    PROVE  UsersCounted' /\ EntryShared' /\ EntryUsed'
<1> DEFINE p == proc[c]
           k == key[c]
           e == IF registry[p][k] = NoCall THEN c ELSE registry[p][k]
<1> USE GatewayAssumption
<1>1. p \in Procs /\ k \in Keys /\ e \in Calls /\ e # NoCall /\ entry[c] = NoCall
  BY DEF GatewayTypeOK, LockTypeOK, TaskTypeOK, RegistryIInv, EntryByStep, LookupMiss
<1>2. /\ registry' = [registry EXCEPT ![p][k] = e]
      /\ users' = [users EXCEPT ![e] = @ + 1]
      /\ entry' = [entry EXCEPT ![c] = e]
      /\ UNCHANGED <<proc, key>>
  BY DEF LookupMiss, origin
<1>3. /\ entry \in [Calls -> Calls \cup {NoCall}] /\ users \in [Calls -> Int]
      /\ registry \in [Procs -> [Keys -> Calls \cup {NoCall}]]
      /\ proc \in [Calls -> Procs] /\ key \in [Calls -> Keys]
  BY DEF GatewayTypeOK, LockTypeOK, TaskTypeOK
<1>4. /\ UsersCounted
      /\ \A d \in Calls : entry[d] # NoCall =>
            /\ proc[entry[d]] = proc[d] /\ key[entry[d]] = key[d]
            /\ registry[proc[d]][key[d]] = entry[d]
      /\ \A q \in Procs, m \in Keys : registry[q][m] # NoCall =>
            \E d \in Calls : entry[d] = registry[q][m] /\ proc[d] = q /\ key[d] = m
  BY DEF RegistryIInv, EntryShared, EntryUsed
<1>5. proc[e] = p /\ key[e] = k
  BY <1>1, <1>3, <1>4
<1>6. /\ \A d \in Calls : entry'[d] = IF d = c THEN e ELSE entry[d]
      /\ \A q \in Procs, m \in Keys :
            registry'[q][m] = IF q = p /\ m = k THEN e ELSE registry[q][m]
      /\ \A d \in Calls : users'[d] = IF d = e THEN users[d] + 1 ELSE users[d]
  BY <1>1, <1>2, <1>3
<1> HIDE DEF p, k, e
<1>7. UsersCounted'
  <2> SUFFICES ASSUME NEW d \in Calls PROVE users'[d] = Cardinality(UsersOf(d)')
    BY DEF UsersCounted, UsersOf
  <2>1. users[d] = Cardinality(UsersOf(d)) /\ IsFiniteSet(UsersOf(d))
    BY <1>4, UsersFinite DEF UsersCounted, UsersOf
  <2>2. CASE d = e
    <3>1. UsersOf(d)' = UsersOf(d) \cup {c} /\ c \notin UsersOf(d)
      BY <1>1, <1>6, <2>2 DEF UsersOf
    <3>2. Cardinality(UsersOf(d) \cup {c}) = Cardinality(UsersOf(d)) + 1
      BY <2>1, <3>1, FS_AddElement
    <3> QED BY <1>6, <2>1, <2>2, <3>1, <3>2
  <2>3. CASE d # e
    <3>1. UsersOf(d)' = UsersOf(d)
      BY <1>1, <1>6, <2>3 DEF UsersOf
    <3> QED BY <1>6, <2>1, <2>3, <3>1
  <2> QED BY <2>2, <2>3
<1>8. EntryShared'
  <2> SUFFICES ASSUME NEW d \in Calls, entry'[d] # NoCall
               PROVE  /\ proc[entry'[d]] = proc[d] /\ key[entry'[d]] = key[d]
                      /\ registry'[proc[d]][key[d]] = entry'[d]
    BY <1>2 DEF EntryShared
  <2>1. CASE d = c
    BY <1>1, <1>5, <1>6, <2>1 DEF p, k
  <2>2. CASE d # c
    <3>1. entry'[d] = entry[d] /\ proc[d] \in Procs /\ key[d] \in Keys
      BY <1>3, <1>6, <2>2
    <3>2. proc[d] = p /\ key[d] = k => entry[d] = e
      BY <1>4, <3>1 DEF e
    <3> QED BY <1>4, <1>6, <3>1, <3>2
  <2> QED BY <2>1, <2>2
<1>9. EntryUsed'
  <2> SUFFICES ASSUME NEW q \in Procs, NEW m \in Keys, registry'[q][m] # NoCall
               PROVE  \E d \in Calls : entry'[d] = registry'[q][m] /\ proc[d] = q
                                       /\ key[d] = m
    BY <1>2 DEF EntryUsed
  <2>1. CASE q = p /\ m = k
    BY <1>6, <2>1 DEF p, k
  <2>2. CASE ~(q = p /\ m = k)
    <3>1. PICK d \in Calls : entry[d] = registry[q][m] /\ proc[d] = q /\ key[d] = m
      BY <1>4, <1>6, <2>2
    <3>2. d # c
      BY <2>2, <3>1 DEF p, k
    <3> QED BY <1>6, <2>2, <3>1, <3>2
  <2> QED BY <2>1, <2>2
<1> QED BY <1>7, <1>8, <1>9

(* Leaving counts one user down; the entry is dropped exactly when the     *)
(* leaver was alone, so nobody keeps an entry the registry has forgotten.  *)
LEMMA LeaveKeeps ==
    ASSUME GatewayTypeOK, RegistryIInv, NEW c \in Calls, LeaveRegistry(c)
    PROVE  UsersCounted' /\ EntryShared' /\ EntryUsed'
<1> DEFINE p == proc[c]
           k == key[c]
           e == entry[c]
<1> USE GatewayAssumption
<1>1. p \in Procs /\ k \in Keys /\ e \in Calls \cup {NoCall}
  BY DEF GatewayTypeOK, LockTypeOK, TaskTypeOK
<1>2. /\ entry \in [Calls -> Calls \cup {NoCall}] /\ users \in [Calls -> Int]
      /\ registry \in [Procs -> [Keys -> Calls \cup {NoCall}]]
      /\ proc \in [Calls -> Procs] /\ key \in [Calls -> Keys]
  BY DEF GatewayTypeOK, LockTypeOK, TaskTypeOK
<1>3. /\ UsersCounted
      /\ \A d \in Calls : entry[d] # NoCall =>
            /\ proc[entry[d]] = proc[d] /\ key[entry[d]] = key[d]
            /\ registry[proc[d]][key[d]] = entry[d]
      /\ \A q \in Procs, m \in Keys : registry[q][m] # NoCall =>
            \E d \in Calls : entry[d] = registry[q][m] /\ proc[d] = q /\ key[d] = m
  BY DEF RegistryIInv, EntryShared, EntryUsed
<1>4. UNCHANGED <<proc, key>>
  BY DEF LeaveRegistry, origin
<1>5. CASE e = NoCall
  <2>1. UNCHANGED <<registry, users, entry>>
    BY <1>5 DEF LeaveRegistry
  <2> QED BY <1>4, <2>1 DEF RegistryIInv, UsersCounted, EntryShared, EntryUsed
<1>6. CASE e \in Calls
  <2>1. e # NoCall /\ registry[p][k] = e /\ proc[e] = p /\ key[e] = k
    BY <1>3, <1>6
  <2>2. /\ registry' = [registry EXCEPT ![p][k] =
                           IF LastUser(e) /\ @ = e THEN NoCall ELSE @]
        /\ users' = [users EXCEPT ![e] = @ - 1]
        /\ entry' = [entry EXCEPT ![c] = NoCall]
    BY <2>1 DEF LeaveRegistry
  <2>3. /\ \A d \in Calls : entry'[d] = IF d = c THEN NoCall ELSE entry[d]
        /\ \A q \in Procs, m \in Keys : registry'[q][m] =
              IF q = p /\ m = k /\ users[e] = 1 THEN NoCall ELSE registry[q][m]
        /\ \A d \in Calls : users'[d] = IF d = e THEN users[d] - 1 ELSE users[d]
    BY <1>1, <1>2, <1>6, <2>1, <2>2 DEF LastUser
  <2>4. users[e] = Cardinality(UsersOf(e)) /\ IsFiniteSet(UsersOf(e)) /\ c \in UsersOf(e)
    <3>1. users[e] = Cardinality(UsersOf(e))
      BY <1>3, <1>6 DEF UsersCounted, UsersOf
    <3>2. c \in UsersOf(e)
      BY DEF UsersOf
    <3> QED BY <3>1, <3>2, UsersFinite
  <2>5. users[e] = 1 <=> UsersOf(e) = {c}
    BY <2>4, FS_Singleton
  <2> HIDE DEF p, k, e
  <2>6. UsersCounted'
    <3> SUFFICES ASSUME NEW d \in Calls PROVE users'[d] = Cardinality(UsersOf(d)')
      BY DEF UsersCounted, UsersOf
    <3>1. users[d] = Cardinality(UsersOf(d)) /\ IsFiniteSet(UsersOf(d))
      BY <1>3, UsersFinite DEF UsersCounted, UsersOf
    <3>2. CASE d = e
      <4>1. UsersOf(d)' = UsersOf(d) \ {c}
        BY <1>6, <2>1, <2>3, <3>2 DEF UsersOf
      <4>2. Cardinality(UsersOf(d) \ {c}) = Cardinality(UsersOf(d)) - 1
        BY <2>4, <3>1, <3>2, FS_RemoveElement
      <4> QED BY <2>3, <3>1, <3>2, <4>1, <4>2
    <3>3. CASE d # e
      <4>1. UsersOf(d)' = UsersOf(d)
        BY <2>3, <3>3 DEF UsersOf, e
      <4> QED BY <2>3, <3>1, <3>3, <4>1
    <3> QED BY <3>2, <3>3
  <2>7. EntryShared'
    <3> SUFFICES ASSUME NEW d \in Calls, entry'[d] # NoCall
                 PROVE  /\ proc[entry'[d]] = proc[d] /\ key[entry'[d]] = key[d]
                        /\ registry'[proc[d]][key[d]] = entry'[d]
      BY <1>4 DEF EntryShared
    <3>1. d # c /\ entry'[d] = entry[d] /\ proc[d] \in Procs /\ key[d] \in Keys
      BY <1>2, <2>3
    <3>2. proc[d] = p /\ key[d] = k => d \in UsersOf(e)
      BY <1>3, <2>1, <3>1 DEF UsersOf
    <3>3. proc[d] = p /\ key[d] = k => users[e] # 1
      BY <2>5, <3>1, <3>2
    <3> QED BY <1>3, <2>3, <3>1, <3>3
  <2>8. EntryUsed'
    <3> SUFFICES ASSUME NEW q \in Procs, NEW m \in Keys, registry'[q][m] # NoCall
                 PROVE  \E d \in Calls : entry'[d] = registry'[q][m] /\ proc[d] = q
                                         /\ key[d] = m
      BY <1>4 DEF EntryUsed
    <3>1. registry'[q][m] = registry[q][m]
      BY <2>3
    <3>2. CASE q = p /\ m = k
      <4>1. UsersOf(e) # {c}
        BY <2>3, <2>5, <3>2
      <4>2. PICK d \in Calls : d # c /\ entry[d] = e
        BY <2>4, <4>1 DEF UsersOf
      <4> QED BY <1>3, <2>1, <2>3, <3>1, <3>2, <4>2
    <3>3. CASE ~(q = p /\ m = k)
      <4>1. PICK d \in Calls : entry[d] = registry[q][m] /\ proc[d] = q /\ key[d] = m
        BY <1>3, <3>1
      <4>2. d # c
        BY <3>3, <4>1 DEF p, k
      <4> QED BY <2>3, <3>1, <4>1, <4>2
    <3> QED BY <3>2, <3>3
  <2> QED BY <2>6, <2>7, <2>8
<1> QED BY <1>1, <1>5, <1>6

(* A crash drops the entries of its process together with all their users, *)
(* since an entry is used within one process only.                         *)
LEMMA CrashKeeps ==
    ASSUME GatewayTypeOK, RegistryIInv, NEW p \in Procs, Crash(p)
    PROVE  UsersCounted' /\ EntryShared' /\ EntryUsed'
<1> USE GatewayAssumption
<1>1. /\ entry \in [Calls -> Calls \cup {NoCall}] /\ users \in [Calls -> Int]
      /\ registry \in [Procs -> [Keys -> Calls \cup {NoCall}]]
      /\ proc \in [Calls -> Procs] /\ key \in [Calls -> Keys]
  BY DEF GatewayTypeOK, LockTypeOK, TaskTypeOK
<1>2. /\ UsersCounted
      /\ \A d \in Calls : entry[d] # NoCall =>
            /\ proc[entry[d]] = proc[d] /\ key[entry[d]] = key[d]
            /\ registry[proc[d]][key[d]] = entry[d]
      /\ \A q \in Procs, m \in Keys : registry[q][m] # NoCall =>
            \E d \in Calls : entry[d] = registry[q][m] /\ proc[d] = q /\ key[d] = m
  BY DEF RegistryIInv, EntryShared, EntryUsed
<1>3. UNCHANGED <<proc, key>>
  BY DEF Crash
<1>4. /\ \A d \in Calls : entry'[d] = IF proc[d] = p THEN NoCall ELSE entry[d]
      /\ \A d \in Calls : users'[d] = IF proc[d] = p THEN 0 ELSE users[d]
      /\ \A q \in Procs, m \in Keys :
            registry'[q][m] = IF q = p THEN NoCall ELSE registry[q][m]
  BY <1>1 DEF Crash
<1>5. UsersCounted'
  <2> SUFFICES ASSUME NEW d \in Calls PROVE users'[d] = Cardinality(UsersOf(d)')
    BY DEF UsersCounted, UsersOf
  <2>1. users[d] = Cardinality(UsersOf(d))
    BY <1>2 DEF UsersCounted, UsersOf
  <2>2. UsersOf(d)' = IF proc[d] = p THEN {} ELSE UsersOf(d)
    BY <1>2, <1>4 DEF UsersOf
  <2> QED BY <1>4, <2>1, <2>2, FS_EmptySet
<1>6. EntryShared'
  BY <1>1, <1>2, <1>3, <1>4 DEF EntryShared
<1>7. EntryUsed'
  <2> SUFFICES ASSUME NEW q \in Procs, NEW m \in Keys, registry'[q][m] # NoCall
               PROVE  \E d \in Calls : entry'[d] = registry'[q][m] /\ proc[d] = q
                                       /\ key[d] = m
    BY <1>3 DEF EntryUsed
  <2>1. q # p /\ registry'[q][m] = registry[q][m]
    BY <1>4
  <2>2. PICK d \in Calls : entry[d] = registry[q][m] /\ proc[d] = q /\ key[d] = m
    BY <1>2, <2>1
  <2> QED BY <1>4, <2>1, <2>2
<1> QED BY <1>5, <1>6, <1>7

(* Every step keeps the counts, the sharing and the use of entries.        *)
LEMMA RegistryStep ==
    ASSUME GatewayTypeOK, RegistryIInv, [GatewayNext]_vars
    PROVE  UsersCounted' /\ EntryShared' /\ EntryUsed'
<1>1. UNCHANGED <<proc, key>>
  BY RegistryUntouched
<1>2. CASE UNCHANGED <<registry, users, entry>>
  BY <1>1, <1>2 DEF RegistryIInv, UsersCounted, EntryShared, EntryUsed
<1>3. ASSUME NEW c \in Calls, AcquireLocal(c)
      PROVE  UNCHANGED <<registry, users, entry>>
  BY <1>3 DEF AcquireLocal
<1> QED
  BY <1>2, <1>3, RegistryUntouched, JoinKeeps, LeaveKeeps, CrashKeeps

(* Where a call stands tells whether it uses an entry.                     *)
LEMMA EntryByStepStep ==
    ASSUME GatewayTypeOK, RegistryIInv, [GatewayNext]_vars
    PROVE  EntryByStep'
<1> USE GatewayAssumption DEF GatewayTypeOK, LockTypeOK, TaskTypeOK, RegistryIInv,
   EntryByStep, Queued, Locked, Live, locks, request, origin, ledger, Goto, End
<1>1. ASSUME NEW c \in Calls, Start(c) PROVE EntryByStep'
  BY <1>1 DEF Start
<1>2. ASSUME NEW c \in Calls, LookupHit(c) PROVE EntryByStep'
  BY <1>2 DEF LookupHit
<1>3. ASSUME NEW c \in Calls, LookupMiss(c) PROVE EntryByStep'
  BY <1>3 DEF LookupMiss
<1>4. ASSUME NEW c \in Calls, AcquireLocal(c) PROVE EntryByStep'
  BY <1>4 DEF AcquireLocal
<1>5. ASSUME NEW c \in Calls, AcquirePermit(c) PROVE EntryByStep'
  BY <1>5 DEF AcquirePermit
<1>6. ASSUME NEW c \in Calls, AcquireAdvisory(c) PROVE EntryByStep'
  BY <1>6 DEF AcquireAdvisory
<1>7. ASSUME NEW c \in Calls, Recheck(c) PROVE EntryByStep'
  BY <1>7 DEF Recheck
<1>8. ASSUME NEW c \in Calls, ServeHit(c) PROVE EntryByStep'
  BY <1>8 DEF ServeHit, RecordCacheHit, Unwind
<1>9. ASSUME NEW c \in Calls, Reserve(c) PROVE EntryByStep'
  BY <1>9 DEF Reserve, ReserveAtomic
<1>10. ASSUME NEW c \in Calls, ReserveRefused(c) PROVE EntryByStep'
  BY <1>10 DEF ReserveRefused
<1>11. ASSUME NEW c \in Calls, TakeSlot(c) PROVE EntryByStep'
  BY <1>11 DEF TakeSlot
<1>12. ASSUME NEW c \in Calls, Answered(c) PROVE EntryByStep'
  BY <1>12 DEF Answered, EndRequest
<1>13. ASSUME NEW c \in Calls, Transient(c) PROVE EntryByStep'
  BY <1>13 DEF Transient, EndRequest, RetryLimit
<1>14. ASSUME NEW c \in Calls, Rejected(c) PROVE EntryByStep'
  BY <1>14 DEF Rejected, EndRequest
<1>15. ASSUME NEW c \in Calls, ReleaseReservation(c) PROVE EntryByStep'
  BY <1>15 DEF ReleaseReservation, Release
<1>16. ASSUME NEW c \in Calls, SettleUsage(c) PROVE EntryByStep'
  BY <1>16 DEF SettleUsage, Settle, Costs
<1>17. ASSUME NEW c \in Calls, ReconcileUsage(c) PROVE EntryByStep'
  BY <1>17 DEF ReconcileUsage, Settle, Costs
<1>18. ASSUME NEW c \in Calls, Put(c) PROVE EntryByStep'
  BY <1>18 DEF Put
<1>19. ASSUME NEW c \in Calls, CloseLockSession(c) PROVE EntryByStep'
  BY <1>19 DEF CloseLockSession
<1>20. ASSUME NEW c \in Calls, LeaveRegistry(c) PROVE EntryByStep'
  BY <1>20 DEF LeaveRegistry
<1>21. ASSUME NEW c \in Calls, InterruptBefore(c) PROVE EntryByStep'
  BY <1>21 DEF InterruptBefore, EndRequest, Unwind
<1>22. ASSUME NEW c \in Calls, InterruptAfter(c) PROVE EntryByStep'
  BY <1>22 DEF InterruptAfter, Unwind
<1>23. ASSUME NEW p \in Procs, Crash(p) PROVE EntryByStep'
  BY <1>23 DEF Crash, Steps
<1>24. CASE UNCHANGED vars
  BY <1>24 DEF vars, gateway
<1> QED
  BY <1>1, <1>2, <1>3, <1>4, <1>5, <1>6, <1>7, <1>8, <1>9, <1>10, <1>11, <1>12,
     <1>13, <1>14, <1>15, <1>16, <1>17, <1>18, <1>19, <1>20, <1>21, <1>22, <1>23,
     <1>24
  DEF GatewayNext, Progress, Finished

(* Whoever got past the entry's lock holds it until it leaves the entry.   *)
LEMMA LocalLockStep ==
    ASSUME GatewayTypeOK, RegistryIInv, [GatewayNext]_vars
    PROVE  LocalLockHeld'
<1> USE GatewayAssumption DEF GatewayTypeOK, LockTypeOK, TaskTypeOK, RegistryIInv,
   EntryShared, EntryByStep, LocalLockHeld, Queued, Locked, Live, locks, request, origin, ledger, Goto, End
<1>1. ASSUME NEW c \in Calls, Start(c) PROVE LocalLockHeld'
  BY <1>1 DEF Start
<1>2. ASSUME NEW c \in Calls, LookupHit(c) PROVE LocalLockHeld'
  BY <1>2 DEF LookupHit
<1>3. ASSUME NEW c \in Calls, LookupMiss(c) PROVE LocalLockHeld'
  BY <1>3 DEF LookupMiss
<1>4. ASSUME NEW c \in Calls, AcquireLocal(c) PROVE LocalLockHeld'
  BY <1>4 DEF AcquireLocal
<1>5. ASSUME NEW c \in Calls, AcquirePermit(c) PROVE LocalLockHeld'
  BY <1>5 DEF AcquirePermit
<1>6. ASSUME NEW c \in Calls, AcquireAdvisory(c) PROVE LocalLockHeld'
  BY <1>6 DEF AcquireAdvisory
<1>7. ASSUME NEW c \in Calls, Recheck(c) PROVE LocalLockHeld'
  BY <1>7 DEF Recheck
<1>8. ASSUME NEW c \in Calls, ServeHit(c) PROVE LocalLockHeld'
  BY <1>8 DEF ServeHit, RecordCacheHit, Unwind
<1>9. ASSUME NEW c \in Calls, Reserve(c) PROVE LocalLockHeld'
  BY <1>9 DEF Reserve, ReserveAtomic
<1>10. ASSUME NEW c \in Calls, ReserveRefused(c) PROVE LocalLockHeld'
  BY <1>10 DEF ReserveRefused
<1>11. ASSUME NEW c \in Calls, TakeSlot(c) PROVE LocalLockHeld'
  BY <1>11 DEF TakeSlot
<1>12. ASSUME NEW c \in Calls, Answered(c) PROVE LocalLockHeld'
  BY <1>12 DEF Answered, EndRequest
<1>13. ASSUME NEW c \in Calls, Transient(c) PROVE LocalLockHeld'
  BY <1>13 DEF Transient, EndRequest, RetryLimit
<1>14. ASSUME NEW c \in Calls, Rejected(c) PROVE LocalLockHeld'
  BY <1>14 DEF Rejected, EndRequest
<1>15. ASSUME NEW c \in Calls, ReleaseReservation(c) PROVE LocalLockHeld'
  BY <1>15 DEF ReleaseReservation, Release
<1>16. ASSUME NEW c \in Calls, SettleUsage(c) PROVE LocalLockHeld'
  BY <1>16 DEF SettleUsage, Settle, Costs
<1>17. ASSUME NEW c \in Calls, ReconcileUsage(c) PROVE LocalLockHeld'
  BY <1>17 DEF ReconcileUsage, Settle, Costs
<1>18. ASSUME NEW c \in Calls, Put(c) PROVE LocalLockHeld'
  BY <1>18 DEF Put
<1>19. ASSUME NEW c \in Calls, CloseLockSession(c) PROVE LocalLockHeld'
  BY <1>19 DEF CloseLockSession
<1>20. ASSUME NEW c \in Calls, LeaveRegistry(c) PROVE LocalLockHeld'
  BY <1>20 DEF LeaveRegistry
<1>21. ASSUME NEW c \in Calls, InterruptBefore(c) PROVE LocalLockHeld'
  BY <1>21 DEF InterruptBefore, EndRequest, Unwind
<1>22. ASSUME NEW c \in Calls, InterruptAfter(c) PROVE LocalLockHeld'
  BY <1>22 DEF InterruptAfter, Unwind
<1>23. ASSUME NEW p \in Procs, Crash(p) PROVE LocalLockHeld'
  BY <1>23 DEF Crash, Steps
<1>24. CASE UNCHANGED vars
  BY <1>24 DEF vars, gateway
<1> QED
  BY <1>1, <1>2, <1>3, <1>4, <1>5, <1>6, <1>7, <1>8, <1>9, <1>10, <1>11, <1>12,
     <1>13, <1>14, <1>15, <1>16, <1>17, <1>18, <1>19, <1>20, <1>21, <1>22, <1>23,
     <1>24
  DEF GatewayNext, Progress, Finished

(* The registry's bookkeeping is right in every reachable state, for any   *)
(* number of tasks and processes, whatever is cancelled and crashes.       *)
THEOREM RegistryInvariant == GatewaySpec => []RegistryIInv
<1>1. GatewayInit => RegistryIInv
  <2> SUFFICES ASSUME GatewayInit PROVE RegistryIInv
    OBVIOUS
  <2>1. UsersCounted
    <3> SUFFICES ASSUME NEW e \in Calls PROVE users[e] = Cardinality(UsersOf(e))
      BY DEF UsersCounted, UsersOf
    <3>1. UsersOf(e) = {} /\ users[e] = 0
      BY GatewayAssumption DEF GatewayInit, UsersOf
    <3> QED BY <3>1, FS_EmptySet
  <2>2. EntryShared /\ EntryUsed /\ EntryByStep /\ LocalLockHeld
    BY GatewayAssumption DEF GatewayInit, NoEntry, EntryShared, EntryUsed, EntryByStep,
       LocalLockHeld, Queued, Locked
  <2> QED BY <2>1, <2>2 DEF RegistryIInv
<1>2. GatewayTypeOK /\ RegistryIInv /\ [GatewayNext]_vars => RegistryIInv'
  BY RegistryStep, EntryByStepStep, LocalLockStep DEF RegistryIInv
<1> QED BY <1>1, <1>2, GatewayTypes, PTL DEF GatewaySpec

(* Tasks of one process queue for a key on the process's lock              *)
(* (_LocalSingleflightRegistry.hold): at most one of them waits for, or    *)
(* holds, a database connection for that key.                              *)
THEOREM CoalescedHolds == GatewaySpec => []CoalescedPerProcess
<1>1. GatewayTypeOK /\ RegistryIInv => CoalescedPerProcess
  <2> SUFFICES ASSUME GatewayTypeOK, RegistryIInv, NEW c \in Calls, NEW d \in Calls,
                      c # d, proc[c] = proc[d], key[c] = key[d],
                      pc[c] \in Queued, pc[d] \in Queued
               PROVE  FALSE
    BY DEF CoalescedPerProcess, Queued
  <2>1. entry[c] # NoCall /\ entry[d] # NoCall
    BY DEF RegistryIInv, EntryByStep
  <2>2. entry[c] = entry[d]
    BY <2>1 DEF RegistryIInv, EntryShared
  <2>3. holder[entry[c]] = c /\ holder[entry[d]] = d
    BY DEF RegistryIInv, LocalLockHeld
  <2> QED BY <2>2, <2>3
<1> QED BY <1>1, GatewayTypes, RegistryInvariant, PTL

(* The registry counts its users exactly and keeps an entry as long as,    *)
(* and no longer than, somebody uses it: it never leaks an entry and never *)
(* removes one under its users.                                            *)
THEOREM RegistryReclaimedHolds == GatewaySpec => []RegistryReclaimed
<1>1. GatewayTypeOK /\ RegistryIInv => RegistryReclaimed
  <2> SUFFICES ASSUME GatewayTypeOK, RegistryIInv, NEW p \in Procs, NEW k \in Keys
               PROVE  registry[p][k] = NoCall <=>
                        \A c \in Calls : proc[c] = p /\ key[c] = k => entry[c] = NoCall
    BY DEF RegistryReclaimed, RegistryIInv, UsersCounted
  <2>1. ASSUME registry[p][k] = NoCall, NEW c \in Calls, proc[c] = p, key[c] = k
        PROVE  entry[c] = NoCall
    BY <2>1 DEF RegistryIInv, EntryShared
  <2>2. ASSUME registry[p][k] # NoCall
        PROVE  \E c \in Calls : proc[c] = p /\ key[c] = k /\ entry[c] # NoCall
    BY <2>2 DEF RegistryIInv, EntryUsed
  <2> QED BY <2>1, <2>2
<1> QED BY <1>1, GatewayTypes, RegistryInvariant, PTL
==============================================================================
