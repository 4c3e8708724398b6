--------------------------- MODULE ProviderGateway ---------------------------
(***************************************************************************)
(* UpstageGateway and its PostgreSQL store, providers/upstage/client.py:   *)
(* the one path every paid provider request takes.  generate, embed and    *)
(* parse share one shape (look the key up, take the key's single flight,   *)
(* look again, reserve, post with retries, settle, store), so one set of   *)
(* actions models the three; Operation tells them apart where they differ  *)
(* (parse never retries, only generate's cost is reported by the provider).*)
(*                                                                         *)
(* A call is one asyncio task running one of them in one process.  Each    *)
(* await is an action boundary: other tasks, other processes, a task       *)
(* cancellation, a failing transaction or a process crash may come in      *)
(* between.  The ledger is BudgetLedger's.                                 *)
(***************************************************************************)
EXTENDS BudgetLedger, Integers

CONSTANTS Procs,              \* processes, each with its own gateway
          Keys,               \* cache keys (the digests of CacheKeyParts)
          NoCall,             \* no task
          Operation,          \* the operation a key is for
          Projected,          \* the gross worst-case price of a key's request
          Reported,           \* the gross costs the provider may report
          MaxRetries,         \* UpstageGateway.max_retries
          MaxConcurrency,     \* permits of UpstageGateway._semaphore
          MaxLockConnections, \* permits of _lock_connection_permits
          MaxCrashes          \* bound: process crashes in a behaviour

ASSUME GatewayAssumption ==
    /\ NoCall \notin Calls
    /\ Operation \in [Keys -> {"generate", "embed", "parse"}]
    /\ Projected \in [Keys -> Amount]
    /\ Reported \in SUBSET Amount
    /\ MaxRetries \in Nat /\ MaxCrashes \in Nat
    /\ MaxConcurrency \in Nat \ {0} /\ MaxLockConnections \in Nat \ {0}

VARIABLES cached,      \* the keys api_cache_entries holds a valid response for
          advisory,    \* the call whose transaction holds a key's advisory lock
          registry,    \* _LocalSingleflightRegistry._entries: the entry of a
                       \* process and key, named after the call that made it
          users,       \* _SingleflightEntry.users
          holder,      \* the call that holds an entry's asyncio lock
          entry,       \* the entry a call counts itself a user of
          permits,     \* the calls holding a lock-connection permit
          posting,     \* the calls holding a request-semaphore permit
          pc,          \* the await a call is at
          proc, key,   \* the process and cache key of a call, fixed from the start
          attempt,     \* retries made so far
          result,      \* how a call ended, or is about to end
          billing,     \* what the provider did: nothing, billed a request
                       \* whose response was lost, or answered
          crashes      \* crashes so far

gateway == <<cached, advisory, registry, users, holder, entry, permits, posting,
             pc, proc, key, attempt, result, billing, crashes>>
vars == <<gateway, ledger>>

Steps == {"idle", "lookup", "lock", "permit", "advisory", "recheck", "hit",
          "reserve", "slot", "post", "release", "settle", "reconcile", "put",
          "unlock", "leave", "done"}
Results == {"none", "fresh", "hit", "refused", "failed", "interrupted", "crashed"}

(* Where a task stands once it holds nothing but its place in the queue,   *)
(* and the steps it takes under the key's advisory lock.                   *)
Live == Steps \ {"idle", "done"}
BeforeAnswer == {"reserve", "slot", "post"}
Locked == {"recheck", "reserve", "slot", "post", "release", "settle", "reconcile", "put"}

RetryLimit(k) == IF Operation[k] = "parse" THEN 0 ELSE MaxRetries

(* Only generate's usage comes from the response's token counts. *)
Costs(k) == IF Operation[k] = "generate" THEN Reported ELSE {Projected[k]}

NoEntry == [p \in Procs |-> [k \in Keys |-> NoCall]]

GatewayInit ==
    /\ LedgerInit
    /\ cached = {}
    /\ advisory = [k \in Keys |-> NoCall]
    /\ registry = NoEntry
    /\ users = [c \in Calls |-> 0]
    /\ holder = [c \in Calls |-> NoCall]
    /\ entry = [c \in Calls |-> NoCall]
    /\ permits = {} /\ posting = {}
    /\ pc = [c \in Calls |-> "idle"]
    /\ proc \in [Calls -> Procs]
    /\ key \in [Calls -> Keys]
    /\ attempt = [c \in Calls |-> 0]
    /\ result = [c \in Calls |-> "none"]
    /\ billing = [c \in Calls |-> "none"]
    /\ crashes = 0

Goto(c, step) == pc' = [pc EXCEPT ![c] = step]
End(c, how) == result' = [result EXCEPT ![c] = how]

locks == <<advisory, registry, users, holder, entry, permits>>
request == <<posting, attempt, billing>>
origin == <<proc, key, crashes>>
-----------------------------------------------------------------------------
(* Entry: validate the request, compute its key, first look at the cache.  *)

Start(c) ==
    /\ pc[c] = "idle"
    /\ Goto(c, "lookup")
    /\ UNCHANGED <<cached, locks, request, result, origin, ledger>>

LookupHit(c) ==
    /\ pc[c] = "lookup" /\ key[c] \in cached
    /\ Goto(c, "hit")
    /\ UNCHANGED <<cached, locks, request, result, origin, ledger>>

(* A miss joins the process's entry for the key, or makes it: setdefault   *)
(* and users += 1 run without an await in between.                         *)
LookupMiss(c) ==
    LET p == proc[c]  k == key[c]
        e == IF registry[p][k] = NoCall THEN c ELSE registry[p][k]
    IN /\ pc[c] = "lookup" /\ k \notin cached
       /\ Goto(c, "lock")
       /\ registry' = [registry EXCEPT ![p][k] = e]
       /\ users' = [users EXCEPT ![e] = @ + 1]
       /\ entry' = [entry EXCEPT ![c] = e]
       /\ UNCHANGED <<cached, advisory, holder, permits, request, result, origin, ledger>>

(* Single flight: the process's lock on the key, a permit to open a lock   *)
(* connection, the database's advisory lock on the key.                    *)

AcquireLocal(c) ==
    /\ pc[c] = "lock" /\ holder[entry[c]] = NoCall
    /\ Goto(c, "permit")
    /\ holder' = [holder EXCEPT ![entry[c]] = c]
    /\ UNCHANGED <<cached, advisory, registry, users, entry, permits, request,
                   result, origin, ledger>>

AcquirePermit(c) ==
    /\ pc[c] = "permit"
    /\ Cardinality({d \in permits : proc[d] = proc[c]}) < MaxLockConnections
    /\ Goto(c, "advisory")
    /\ permits' = permits \cup {c}
    /\ UNCHANGED <<cached, advisory, registry, users, holder, entry, request,
                   result, origin, ledger>>

\* Mutant: no advisory lock, only the process's own.
AcquireAdvisory_Free(c) ==
    /\ pc[c] = "advisory"
    /\ Goto(c, "recheck")
    /\ advisory' = [advisory EXCEPT ![key[c]] = c]
    /\ UNCHANGED <<cached, registry, users, holder, entry, permits, request,
                   result, origin, ledger>>

AcquireAdvisory(c) ==
    /\ pc[c] = "advisory" /\ advisory[key[c]] = NoCall
    /\ Goto(c, "recheck")
    /\ advisory' = [advisory EXCEPT ![key[c]] = c]
    /\ UNCHANGED <<cached, registry, users, holder, entry, permits, request,
                   result, origin, ledger>>

(* The second look, under the lock. *)

\* Mutant: the result of the first look is trusted.
Recheck_Skipped(c) ==
    /\ pc[c] = "recheck"
    /\ Goto(c, "reserve")
    /\ UNCHANGED <<cached, locks, request, result, origin, ledger>>

Recheck(c) ==
    /\ pc[c] = "recheck"
    /\ Goto(c, IF key[c] \in cached THEN "hit" ELSE "reserve")
    /\ UNCHANGED <<cached, locks, request, result, origin, ledger>>

(* Leaving: a call that never entered the single flight just returns.      *)
Unwind(c) == IF entry[c] = NoCall THEN "leave" ELSE "unlock"

ServeHit(c) ==
    /\ pc[c] = "hit"
    /\ RecordCacheHit(c)
    /\ Goto(c, Unwind(c)) /\ End(c, "hit")
    /\ UNCHANGED <<cached, locks, request, origin>>
-----------------------------------------------------------------------------
(* The paid request. *)

Reserve(c) ==
    /\ pc[c] = "reserve"
    /\ ReserveAtomic(c, Projected[key[c]])
    /\ Goto(c, "slot")
    /\ UNCHANGED <<cached, locks, request, result, origin>>

(* BudgetExceededError leaves the call before anything is sent. *)
ReserveRefused(c) ==
    /\ pc[c] = "reserve" /\ ~Admits(Projected[key[c]])
    /\ Goto(c, "unlock") /\ End(c, "refused")
    /\ UNCHANGED <<cached, locks, request, origin, ledger>>

(* _request: the semaphore is held during the post only; attempt is the    *)
(* variable of its loop.                                                   *)
EndRequest(c) ==
    /\ posting' = posting \ {c}
    /\ attempt' = [attempt EXCEPT ![c] = 0]

TakeSlot(c) ==
    /\ pc[c] = "slot"
    /\ Cardinality({d \in posting : proc[d] = proc[c]}) < MaxConcurrency
    /\ Goto(c, "post")
    /\ posting' = posting \cup {c}
    /\ UNCHANGED <<cached, locks, attempt, billing, result, origin, ledger>>

(* A 2xx answer; decoding and the schema check follow without an await. *)
Answered(c) ==
    /\ pc[c] = "post"
    /\ EndRequest(c)
    /\ billing' = [billing EXCEPT ![c] = "answered"]
    /\ \E step \in {"settle", "reconcile"} : Goto(c, step)
    /\ UNCHANGED <<cached, locks, result, origin, ledger>>

(* A network error, a timeout, a 429 or a 5xx: the request may have been   *)
(* served all the same.  Retried after a backoff while retries are left.   *)
\* Mutant: the attempts are not counted.
Transient_Uncounted(c) ==
    /\ pc[c] = "post"
    /\ posting' = posting \ {c}
    /\ Goto(c, "slot")
    /\ UNCHANGED <<cached, locks, attempt, billing, result, origin, ledger>>

Transient(c) ==
    /\ pc[c] = "post"
    /\ \E lost \in BOOLEAN : billing' = IF lost THEN [billing EXCEPT ![c] = "lost"]
                                                ELSE billing
    /\ IF attempt[c] < RetryLimit(key[c])
       THEN /\ attempt' = [attempt EXCEPT ![c] = @ + 1]
            /\ posting' = posting \ {c}
            /\ Goto(c, "slot") /\ UNCHANGED result
       ELSE EndRequest(c) /\ Goto(c, "release") /\ End(c, "failed")
    /\ UNCHANGED <<cached, locks, origin, ledger>>

(* Any other status: ProviderHTTPError at once. *)

\* Mutant: the error path forgets the reservation.
Rejected_Leaks(c) ==
    /\ pc[c] = "post"
    /\ EndRequest(c)
    /\ Goto(c, "unlock") /\ End(c, "failed")
    /\ UNCHANGED <<cached, locks, billing, origin, ledger>>

Rejected(c) ==
    /\ pc[c] = "post"
    /\ EndRequest(c)
    /\ Goto(c, "release") /\ End(c, "failed")
    /\ UNCHANGED <<cached, locks, billing, origin, ledger>>

(* except BaseException: release, then raise. *)
ReleaseReservation(c) ==
    /\ pc[c] = "release"
    /\ Release(c)
    /\ Goto(c, "unlock")
    /\ UNCHANGED <<cached, locks, request, result, origin>>

SettleUsage(c) == \E cost \in Costs(key[c]) :
    /\ pc[c] = "settle"
    /\ Settle(c, cost, FALSE)
    /\ Goto(c, "put")
    /\ UNCHANGED <<cached, locks, request, result, origin>>

(* A response that does not decode or has not the expected schema is paid  *)
(* for: the reported cost if the token counts can be read, else the        *)
(* projection.                                                             *)
\* Mutant: a response that does not decode is treated like no response.
ReconcileUsage_Releases(c) ==
    /\ pc[c] = "reconcile"
    /\ Release(c)
    /\ Goto(c, "unlock") /\ End(c, "failed")
    /\ UNCHANGED <<cached, locks, request, origin>>

ReconcileUsage(c) == \E cost \in Costs(key[c]) \cup {Projected[key[c]]} :
    /\ pc[c] = "reconcile"
    /\ Settle(c, cost, TRUE)
    /\ Goto(c, "unlock") /\ End(c, "failed")
    /\ UNCHANGED <<cached, locks, request, origin>>

\* Mutant: the response is returned and not stored.
Put_Forgotten(c) ==
    /\ pc[c] = "put"
    /\ Goto(c, "unlock") /\ End(c, "fresh")
    /\ UNCHANGED <<cached, locks, request, origin, ledger>>

Put(c) ==
    /\ pc[c] = "put"
    /\ cached' = cached \cup {key[c]}
    /\ Goto(c, "unlock") /\ End(c, "fresh")
    /\ UNCHANGED <<locks, request, origin, ledger>>
-----------------------------------------------------------------------------
(* Leaving the single flight: the lock transaction commits and its permit  *)
(* returns, then the registry entry is left and, by its last user, removed.*)

CloseLockSession(c) ==
    /\ pc[c] = "unlock"
    /\ Goto(c, "leave")
    /\ advisory' = [advisory EXCEPT ![key[c]] = IF @ = c THEN NoCall ELSE @]
    /\ permits' = permits \ {c}
    /\ UNCHANGED <<cached, registry, users, holder, entry, request, result, origin, ledger>>

\* Mutant: the first to leave removes the entry.
LastUser_First(e) == TRUE

LastUser(e) == users[e] = 1

LeaveRegistry(c) ==
    LET e == entry[c]  p == proc[c]  k == key[c]
    IN /\ pc[c] = "leave"
       /\ Goto(c, "done")
       /\ IF e = NoCall THEN UNCHANGED <<registry, users, holder, entry>>
          ELSE /\ holder' = [holder EXCEPT ![e] = IF @ = c THEN NoCall ELSE @]
               /\ users' = [users EXCEPT ![e] = @ - 1]
               /\ registry' = [registry EXCEPT ![p][k] =
                      IF LastUser(e) /\ @ = e THEN NoCall ELSE @]
               /\ entry' = [entry EXCEPT ![c] = NoCall]
       /\ UNCHANGED <<cached, advisory, permits, request, result, origin, ledger>>
-----------------------------------------------------------------------------
(* A cancelled task, or a failing cache or ledger transaction: the await   *)
(* raises and the frames above unwind.  Nothing was written: *)

InterruptBefore(c) ==
    /\ pc[c] \in Live \ {"unlock", "leave"}
    /\ End(c, "interrupted")
    /\ Goto(c, CASE pc[c] \in {"lookup", "lock", "permit"} -> "leave"
                 [] pc[c] \in {"slot", "post"} -> "release"
                 [] OTHER -> Unwind(c))
    /\ EndRequest(c)
    /\ \E lost \in BOOLEAN : billing' = IF lost /\ pc[c] = "post"
                                        THEN [billing EXCEPT ![c] = "lost"]
                                        ELSE billing
    /\ UNCHANGED <<cached, locks, origin, ledger>>

(* or the transaction committed and the caller never heard of it. *)
InterruptAfter(c) ==
    /\ End(c, "interrupted")
    /\ Goto(c, Unwind(c))
    /\ \/ pc[c] = "hit" /\ RecordCacheHit(c) /\ UNCHANGED cached
       \/ pc[c] = "reserve" /\ ReserveAtomic(c, Projected[key[c]]) /\ UNCHANGED cached
       \/ pc[c] = "release" /\ Release(c) /\ UNCHANGED cached
       \/ pc[c] = "settle" /\ UNCHANGED cached
          /\ \E cost \in Costs(key[c]) : Settle(c, cost, FALSE)
       \/ pc[c] = "reconcile" /\ UNCHANGED cached
          /\ \E cost \in Costs(key[c]) \cup {Projected[key[c]]} : Settle(c, cost, TRUE)
       \/ pc[c] = "put" /\ cached' = cached \cup {key[c]} /\ UNCHANGED ledger
    /\ UNCHANGED <<locks, request, origin>>

(* A process dies: its tasks, its registry and its semaphores are gone,    *)
(* its connections drop and with them their advisory locks; what it        *)
(* committed stays, and a request on the wire may still be billed.         *)
Crash(p) ==
    LET dead == {c \in Calls : pc[c] \in Live /\ proc[c] = p}
    IN /\ crashes < MaxCrashes /\ dead # {}
       /\ crashes' = crashes + 1
       /\ pc' = [c \in Calls |-> IF c \in dead THEN "done" ELSE pc[c]]
       /\ result' = [c \in Calls |-> IF c \in dead THEN "crashed" ELSE result[c]]
       /\ \E lost \in SUBSET {c \in dead : pc[c] = "post"} :
              billing' = [c \in Calls |-> IF c \in lost THEN "lost" ELSE billing[c]]
       /\ advisory' = [k \in Keys |-> IF advisory[k] \in dead THEN NoCall ELSE advisory[k]]
       /\ registry' = [registry EXCEPT ![p] = [k \in Keys |-> NoCall]]
       /\ users' = [c \in Calls |-> IF proc[c] = p THEN 0 ELSE users[c]]
       /\ holder' = [c \in Calls |-> IF proc[c] = p THEN NoCall ELSE holder[c]]
       /\ entry' = [c \in Calls |-> IF proc[c] = p THEN NoCall ELSE entry[c]]
       /\ permits' = permits \ dead /\ posting' = posting \ dead
       /\ attempt' = [c \in Calls |-> IF c \in dead THEN 0 ELSE attempt[c]]
       /\ UNCHANGED <<cached, proc, key, ledger>>

(* Every call has returned: nothing is left to do. *)
Finished == (\A c \in Calls : pc[c] = "done") /\ UNCHANGED vars

Progress(c) ==
    \/ LookupHit(c) \/ LookupMiss(c) \/ AcquireLocal(c) \/ AcquirePermit(c)
    \/ AcquireAdvisory(c) \/ Recheck(c) \/ ServeHit(c) \/ Reserve(c)
    \/ ReserveRefused(c) \/ TakeSlot(c) \/ Answered(c) \/ Transient(c)
    \/ Rejected(c) \/ ReleaseReservation(c) \/ SettleUsage(c)
    \/ ReconcileUsage(c) \/ Put(c) \/ CloseLockSession(c) \/ LeaveRegistry(c)

GatewayNext ==
    \/ \E c \in Calls : Start(c) \/ Progress(c) \/ InterruptBefore(c) \/ InterruptAfter(c)
    \/ \E p \in Procs : Crash(p)
    \/ Finished

GatewaySpec == GatewayInit /\ [][GatewayNext]_vars

(* The event loop runs every ready task, asyncio locks and semaphores and  *)
(* PostgreSQL's lock queue are first in, first out, and every post ends by *)
(* its timeout; nobody is obliged to start, cancel or crash.               *)
FairSpec == GatewaySpec /\ \A c \in Calls : WF_vars(Progress(c))
-----------------------------------------------------------------------------
(* Every variable holds values of its type. *)
LockTypeOK ==
    /\ cached \in SUBSET Keys
    /\ advisory \in [Keys -> Calls \cup {NoCall}]
    /\ registry \in [Procs -> [Keys -> Calls \cup {NoCall}]]
    /\ users \in [Calls -> Int]
    /\ holder \in [Calls -> Calls \cup {NoCall}]
    /\ entry \in [Calls -> Calls \cup {NoCall}]
    /\ permits \in SUBSET Calls
    /\ posting \in SUBSET Calls

TaskTypeOK ==
    /\ pc \in [Calls -> Steps]
    /\ proc \in [Calls -> Procs]
    /\ key \in [Calls -> Keys]
    /\ attempt \in [Calls -> 0..MaxRetries]
    /\ result \in [Calls -> Results]
    /\ billing \in [Calls -> {"none", "lost", "answered"}]
    /\ crashes \in 0..MaxCrashes

GatewayTypeOK == LedgerTypeOK /\ LockTypeOK /\ TaskTypeOK

(* Single flight: over all tasks of all processes, at most one is between  *)
(* its second look at the cache and the storing of its response, for any   *)
(* one cache key.                                                          *)
SingleFlight == \A c, d \in Calls :
    c # d /\ key[c] = key[d] => ~(pc[c] \in Locked /\ pc[d] \in Locked)

(* Nothing is paid for a response that is already stored: from the         *)
(* reservation to the storing of the response its key is not cached, with  *)
(* any other process storing responses at the same time.                   *)
NeverPaysForCached == \A c \in Calls :
    pc[c] \in Locked \ {"recheck"} => key[c] \notin cached

(* A key is settled as understood twice only if one of the two calls was   *)
(* cut off between its settlement and the storing of its response.         *)
PaidTwiceOnlyAfterLoss == \A c, d \in Calls :
    c # d /\ key[c] = key[d] /\ status[c] = "settled" /\ status[d] = "settled"
    => {result[c], result[d]} \cap {"interrupted", "crashed"} # {}

(* No reservation leaks: an open one belongs to a call that is still going *)
(* to close it, or to one that was cut off (cancelled, failing database,   *)
(* crash), and is then kept as a conservative charge.                      *)
OpenReservationOwned == \A c \in Calls : status[c] = "open" =>
    \/ pc[c] \in {"slot", "post", "release", "settle", "reconcile"}
    \/ result[c] \in {"interrupted", "crashed"}

(* An answered request is never released, and when its call returns, with  *)
(* a response or a complaint about it, its usage is on record.             *)
AnswerAccounted == \A c \in Calls : billing[c] = "answered" =>
    /\ status[c] # "released"
    /\ result[c] \in {"fresh", "failed"} => status[c] \in Closed

(* Tasks of one process queue for a key on the process's lock: at most one *)
(* of them waits for, or holds, a lock connection.                         *)
CoalescedPerProcess == \A c, d \in Calls :
    c # d /\ proc[c] = proc[d] /\ key[c] = key[d]
    => ~(pc[c] \in Locked \cup {"permit", "advisory"}
         /\ pc[d] \in Locked \cup {"permit", "advisory"})

(* The registry counts its users exactly and keeps an entry as long as,    *)
(* and no longer than, somebody uses it, whatever was cancelled.           *)
RegistryReclaimed ==
    /\ \A e \in Calls : users[e] = Cardinality({c \in Calls : entry[c] = e})
    /\ \A p \in Procs, k \in Keys : registry[p][k] = NoCall <=>
           \A c \in Calls : proc[c] = p /\ key[c] = k => entry[c] = NoCall

-----------------------------------------------------------------------------
(* The strengthening that makes the properties above inductive.            *)

Cut == {"interrupted", "crashed"}
Unreserved == {"idle", "lookup", "lock", "permit", "advisory", "recheck", "hit", "reserve"}
Leaving == {"unlock", "leave", "done"}

(* Whoever works on a key holds the key's advisory lock. *)
LockHeld == \A c \in Calls : pc[c] \in Locked => advisory[key[c]] = c

(* What a call has reserved and what the provider did for it, by where the *)
(* call stands.                                                            *)
Phase == \A c \in Calls :
    /\ pc[c] \in Unreserved => status[c] = "none" /\ billing[c] = "none"
    /\ pc[c] \in {"slot", "post", "release"} => status[c] = "open" /\ billing[c] # "answered"
    /\ pc[c] \in {"settle", "reconcile"} => status[c] = "open" /\ billing[c] = "answered"
    /\ pc[c] = "put" => status[c] \in Closed
    /\ pc[c] \in Leaving =>
           /\ status[c] = "open" => result[c] \in Cut
           /\ billing[c] = "answered" => status[c] \in Closed \/ status[c] = "open"
    /\ result[c] # "none" => pc[c] \in Leaving \cup {"release"}
    /\ status[c] = "none" => billing[c] = "none"

(* What was settled as understood, and not cut off, is stored or about to. *)
SettledIsStored == \A c \in Calls :
    status[c] = "settled" /\ result[c] \notin Cut => pc[c] = "put" \/ key[c] \in cached

GatewayIInv == GatewayTypeOK /\ LockHeld /\ NeverPaysForCached /\ Phase
               /\ SettledIsStored /\ PaidTwiceOnlyAfterLoss

(* The same for the process's registry: tasks that use an entry use the    *)
(* one the registry holds, and every entry it holds is used.               *)
Queued == Locked \cup {"permit", "advisory"}

UsersCounted == \A e \in Calls : users[e] = Cardinality({c \in Calls : entry[c] = e})

EntryShared == \A c \in Calls : entry[c] # NoCall =>
    /\ proc[entry[c]] = proc[c] /\ key[entry[c]] = key[c]
    /\ registry[proc[c]][key[c]] = entry[c]

EntryUsed == \A p \in Procs, k \in Keys : registry[p][k] # NoCall =>
    \E c \in Calls : entry[c] = registry[p][k] /\ proc[c] = p /\ key[c] = k

EntryByStep == \A c \in Calls :
    /\ pc[c] \in {"idle", "lookup", "done"} => entry[c] = NoCall
    /\ pc[c] \in Queued \cup {"lock", "unlock"} => entry[c] # NoCall

LocalLockHeld == \A c \in Calls : pc[c] \in Queued => holder[entry[c]] = c

RegistryIInv == UsersCounted /\ EntryShared /\ EntryUsed /\ EntryByStep /\ LocalLockHeld

(* Every provider request that was billed has a usage record (2026-08-13   *)
(* implementation plan, line 18: "Every paid request must use a            *)
(* deterministic cache key, budget reservation, usage record, ...").  Even *)
(* without a cancellation or a crash the code does not keep it: a request  *)
(* whose response is lost is released without a record.                    *)
PaidRequestRecorded == \A c \in Calls :
    pc[c] = "done" /\ result[c] = "failed" /\ billing[c] # "none" => PaidRows(c) # {}

(* Every call returns: nobody waits forever for a lock, a permit or an     *)
(* answer, whichever tasks are cancelled and whichever processes crash.    *)
EveryCallReturns == \A c \in Calls : pc[c] = "lookup" ~> pc[c] = "done"
==============================================================================
