---------------------------- MODULE BudgetLedger ----------------------------
(***************************************************************************)
(* The budget ledger, core/money.py: the tables budget_reservations and    *)
(* api_usage behind SqlAlchemyBudgetRepository.  Every method is one       *)
(* transaction under the ledger's advisory lock (one critical section of   *)
(* MemoryBudgetRepository's asyncio lock), hence one action here.          *)
(*                                                                         *)
(* A reservation is made with a fresh correlation id and a provider call   *)
(* makes at most one, so the call's name stands for both ids.  Amounts are *)
(* naturals: the code's Decimal amounts are multiples of 1e-6.             *)
(***************************************************************************)
EXTENDS Naturals, FiniteSets, Functions

CONSTANTS Calls,       \* correlation ids; each names at most one reservation
          HardLimit,   \* BudgetGuard.hard_limit
          MaxCost      \* bound: no projected or reported cost is larger

ASSUME LedgerAssumption ==
    /\ IsFiniteSet(Calls)
    /\ HardLimit \in Nat \ {0}
    /\ MaxCost \in Nat

VARIABLES status,     \* budget_reservations.status, "none" before the row exists
          reserved,   \* budget_reservations.reserved_cost_usd
          usage       \* the rows of api_usage

ledger == <<status, reserved, usage>>

Status == {"none", "open", "settled", "released", "reconciliation_required"}
Amount == 0..MaxCost
UsageRow == [call : Calls, cost : Amount, hit : BOOLEAN]

-----------------------------------------------------------------------------
(* The two sums reserve_atomic compares with the cap. *)
OpenCalls == {c \in Calls : status[c] = "open"}
SettledTotal == SumFunction([row \in usage |-> row.cost])
OpenTotal == SumFunctionOnSet(reserved, OpenCalls)
\* Mutants: open reservations are not counted; the boundary is admitted.
Admits_SettledOnly(cost) == SettledTotal + cost < HardLimit
Admits_Boundary(cost) == SettledTotal + OpenTotal + cost <= HardLimit

Admits(cost) == SettledTotal + OpenTotal + cost < HardLimit

LedgerInit ==
    /\ status = [c \in Calls |-> "none"]
    /\ reserved = [c \in Calls |-> 0]
    /\ usage = {}

(* reserve_atomic: a projection that reaches the cap raises               *)
(* BudgetExceededError and writes nothing (see ~Admits in the callers).    *)
ReserveAtomic(c, cost) ==
    /\ status[c] = "none"
    /\ Admits(cost)
    /\ status' = [status EXCEPT ![c] = "open"]
    /\ reserved' = [reserved EXCEPT ![c] = cost]
    /\ UNCHANGED usage

(* settle: only an open reservation; a cost above the reservation, or a    *)
(* response that was not understood, is flagged for reconciliation, and    *)
(* the cost is recorded either way.                                        *)
\* Mutant: an overrun goes unflagged.
Settle_Unflagged(c, cost, reconcile) ==
    /\ status[c] = "open"
    /\ status' = [status EXCEPT ![c] =
           IF reconcile THEN "reconciliation_required" ELSE "settled"]
    /\ usage' = usage \cup {[call |-> c, cost |-> cost, hit |-> FALSE]}
    /\ UNCHANGED reserved

Settle(c, cost, reconcile) ==
    /\ status[c] = "open"
    /\ status' = [status EXCEPT ![c] =
           IF reconcile \/ cost > reserved[c] THEN "reconciliation_required"
                                              ELSE "settled"]
    /\ usage' = usage \cup {[call |-> c, cost |-> cost, hit |-> FALSE]}
    /\ UNCHANGED reserved

(* release: an open reservation is closed without a cost; releasing one    *)
(* that is no longer open changes nothing.                                 *)
Release(c) ==
    /\ status[c] # "none"
    /\ status' = [status EXCEPT ![c] = IF @ = "open" THEN "released" ELSE @]
    /\ UNCHANGED <<reserved, usage>>

(* record_cache_hit: a usage row at no cost, and no reservation. *)
RecordCacheHit(c) ==
    /\ status[c] = "none"
    /\ usage' = usage \cup {[call |-> c, cost |-> 0, hit |-> TRUE]}
    /\ UNCHANGED <<status, reserved>>

-----------------------------------------------------------------------------
Closed == {"settled", "reconciliation_required"}
PaidRows(c) == {row \in usage : row.call = c /\ ~row.hit}
Excess(c) == LET paid == SumFunction([row \in PaidRows(c) |-> row.cost])
             IN IF paid > reserved[c] THEN paid - reserved[c] ELSE 0
ExcessTotal == SumFunction([c \in Calls |-> Excess(c)])

(* Every table holds values of its columns' types. *)
LedgerTypeOK ==
    /\ status \in [Calls -> Status]
    /\ reserved \in [Calls -> Amount]
    /\ usage \in SUBSET UsageRow

(* Provider work is paid for exactly once: a reservation is settled or     *)
(* flagged exactly when api_usage has its one paid row, and a row flagged  *)
(* neither way never cost more than was reserved.                          *)
ChargedExactlyOnce == \A c \in Calls :
    /\ status[c] \in Closed <=> PaidRows(c) # {}
    /\ \A r1, r2 \in PaidRows(c) : r1 = r2
    /\ status[c] = "settled" => \A row \in PaidRows(c) : row.cost <= reserved[c]

(* The hard cap: whatever clients run concurrently, settled and open cost  *)
(* stay below it but for what the provider reported beyond the             *)
(* reservations.                                                           *)
CapUnlessOverrun == SettledTotal + OpenTotal < HardLimit + ExcessTotal

(* The ledger implements the account: the refinement mapping reads the     *)
(* account's totals off the tables.                                        *)
Account == INSTANCE BudgetAccount WITH
    charged <- SettledTotal, held <- OpenTotal, excess <- ExcessTotal

ImplementsAccount == Account!AccountSpec
==============================================================================
