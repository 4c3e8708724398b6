---------------------------- MODULE BudgetAccount ----------------------------
(***************************************************************************)
(* What the budget ledger of ragbench promises, without its tables: an     *)
(* account that holds money before a provider call and turns each hold     *)
(* into a charge, or gives it back, exactly once.  A hold is admitted only *)
(* strictly below the hard limit; a charge may exceed its hold, because    *)
(* the provider reports the tokens after it has served them, and then the  *)
(* excess is the only way past the limit.                                  *)
(***************************************************************************)
EXTENDS Naturals

CONSTANTS HardLimit,   \* the immutable cap of BudgetGuard
          MaxCost      \* bound: no hold and no charge is larger

VARIABLES charged,   \* total of the settled charges
          held,      \* total of the holds not settled or released yet
          excess     \* total by which charges exceeded their holds

avars == <<charged, held, excess>>

AccountInit == charged = 0 /\ held = 0 /\ excess = 0

(* A hold is admitted while everything committed stays below the cap. *)
Hold(amount) ==
    /\ charged + held + amount < HardLimit
    /\ held' = held + amount
    /\ UNCHANGED <<charged, excess>>

(* One hold becomes one charge. *)
Charge(amount, cost) ==
    /\ amount <= held
    /\ held' = held - amount
    /\ charged' = charged + cost
    /\ excess' = excess + (IF cost > amount THEN cost - amount ELSE 0)

(* One hold is given back. *)
GiveBack(amount) ==
    /\ amount <= held
    /\ held' = held - amount
    /\ UNCHANGED <<charged, excess>>

AccountNext == \E amount, cost \in 0..MaxCost :
    Hold(amount) \/ Charge(amount, cost) \/ GiveBack(amount)

AccountSpec == AccountInit /\ [][AccountNext]_avars

(* The account is over its cap by no more than the reported excess. *)
AccountCap == charged + held < HardLimit + excess

AccountTypeOK == charged \in Nat /\ held \in Nat /\ excess \in Nat
==============================================================================
