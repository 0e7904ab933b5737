---------------------------- MODULE OutboxRelay ----------------------------
(***************************************************************************)
(* The outbox relay: workers of backend/relay lease batches of events from *)
(* an upstream outbox, publish them to Kafka and settle the lease, with    *)
(* the publish-failure ledger and its operator replay behind them.         *)
(*                                                                         *)
(* The upstream is the intent engine (intents/internal/persistence); edge  *)
(* and recon serve the same lease, ack and nack protocol.  Workers follow  *)
(* runIntentCycle and processIntent; the generic and the edge variants are *)
(* the same without the payload hash check.  The DLQ topics get a best-    *)
(* effort copy nothing reads back and are left out.                        *)
(***************************************************************************)
EXTENDS Integers, FiniteSets

CONSTANTS
    Events,       \* rows of the outbox
    Unrouted,     \* events RouteGuard.Route refuses
    Invalid,      \* events validateIntentEvent refuses
    Tampered,     \* events whose payload hash does not match
    Poison,       \* events the publisher refuses as poison
    Workers,      \* relay workers, of one or several relay instances
    Operators,    \* concurrent callers of the replay API
    LeaseIds,     \* lease uuids; one nobody remembers counts as fresh
    NoLease, NoEvent,
    MaxRetries,   \* maxOutboxAttempts
    MaxConflicts, \* maxConflictRetries
    MaxAttempts,  \* retry.Policy.MaxAttempts
    MaxFaults,    \* bound: failed database writes, lost or late calls
    MaxCrashes,   \* bound: crashes of workers and operators
    MaxExpiries   \* bound: leases that run out while their holder works

Bad == Unrouted \cup Invalid \cup Tampered \cup Poison

ASSUME OutboxAssumption ==
    /\ Bad \subseteq Events
    /\ NoLease \notin LeaseIds
    /\ NoEvent \notin Events
    /\ MaxRetries \in Nat \ {0}
    /\ MaxConflicts \in Nat \ {0}
    /\ MaxAttempts \in Nat \ {0}
    /\ MaxFaults \in Nat
    /\ MaxCrashes \in Nat
    /\ MaxExpiries \in Nat

LedgerStatus == {"PENDING", "REPLAYING", "REPLAYED", "QUARANTINED"}

VARIABLES
    \* the upstream outbox
    status,     \* PENDING, SENT or FAILED
    retryCount, \* retry_count
    leaseId,    \* lease_id
    expired,    \* leased rows whose lease_until has passed
    \* the relay's database
    ledger,     \* replay_status in relay_publish_failures, "none" without row
    conflicts,  \* conflict_count in relay_payload_conflicts
    \* Kafka
    published,  \* events with at least one copy on their topic
    \* the workers
    pc,         \* idle, batch, publish, poison, exhausted, ack, nack
    lease,      \* the lease a worker holds
    todo,       \* leased events still to process
    cur,        \* the event being published
    attempt,    \* its attempt.Number
    toAck, toNack,
    \* ack and nack calls that timed out but still reach the upstream
    late,
    \* the operators
    rpc,        \* idle, publish, succeeded, failed
    target,     \* the failure being replayed
    \* budgets of the environment
    faults, crashes, expiries

rowVars == <<status, retryCount, leaseId, expired>>
dbVars == <<ledger, conflicts>>
workerVars == <<pc, lease, todo, cur, attempt, toAck, toNack>>
operatorVars == <<rpc, target>>
vars == <<rowVars, dbVars, published, workerVars, late, operatorVars,
          faults, crashes, expiries>>

Call == [kind : {"ack", "nack"}, lease : LeaseIds, events : SUBSET Events]

TypeOK ==
    /\ status \in [Events -> {"PENDING", "SENT", "FAILED"}]
    /\ retryCount \in [Events -> 0 .. MaxRetries]
    /\ leaseId \in [Events -> LeaseIds \cup {NoLease}]
    /\ expired \subseteq Events
    /\ ledger \in [Events -> LedgerStatus \cup {"none"}]
    /\ conflicts \in [Events -> Nat]
    /\ published \subseteq Events
    /\ pc \in [Workers -> {"idle", "batch", "publish", "poison", "exhausted",
                           "ack", "nack"}]
    /\ lease \in [Workers -> LeaseIds \cup {NoLease}]
    /\ todo \in [Workers -> SUBSET Events]
    /\ cur \in [Workers -> Events \cup {NoEvent}]
    /\ attempt \in [Workers -> 0 .. MaxAttempts]
    /\ toAck \in [Workers -> SUBSET Events]
    /\ toNack \in [Workers -> SUBSET Events]
    /\ late \subseteq Call
    /\ rpc \in [Operators -> {"idle", "publish", "succeeded", "failed"}]
    /\ target \in [Operators -> Events \cup {NoEvent}]
    /\ faults \in 0 .. MaxFaults
    /\ crashes \in 0 .. MaxCrashes
    /\ expiries \in 0 .. MaxExpiries

Init ==
    /\ status = [e \in Events |-> "PENDING"]
    /\ retryCount = [e \in Events |-> 0]
    /\ leaseId = [e \in Events |-> NoLease]
    /\ expired = {}
    /\ ledger = [e \in Events |-> "none"]
    /\ conflicts = [e \in Events |-> 0]
    /\ published = {}
    /\ pc = [w \in Workers |-> "idle"]
    /\ lease = [w \in Workers |-> NoLease]
    /\ todo = [w \in Workers |-> {}]
    /\ cur = [w \in Workers |-> NoEvent]
    /\ attempt = [w \in Workers |-> 0]
    /\ toAck = [w \in Workers |-> {}]
    /\ toNack = [w \in Workers |-> {}]
    /\ late = {}
    /\ rpc = [o \in Operators |-> "idle"]
    /\ target = [o \in Operators |-> NoEvent]
    /\ faults = MaxFaults
    /\ crashes = MaxCrashes
    /\ expiries = MaxExpiries

Fault == faults > 0 /\ faults' = faults - 1

-----------------------------------------------------------------------------
(* The upstream outbox.                                                    *)

(* A fault: rows whose lease has run out are not offered again.            *)
LeasableOnce == {e \in Events : status[e] = "PENDING" /\ leaseId[e] = NoLease}

(* Rows a lease call may pick: pending, with attempts left, unleased or    *)
(* with an expired lease.                                                  *)
Leasable ==
    {e \in Events : /\ status[e] = "PENDING"
                    /\ retryCount[e] < MaxRetries
                    /\ leaseId[e] = NoLease \/ e \in expired}

(* A new uuid: no row, worker or late call knows it.                       *)
FreshLease(l) ==
    /\ \A e \in Events : leaseId[e] # l
    /\ \A w \in Workers : lease[w] # l
    /\ \A c \in late : c.lease # l

(* LeaseOutboxBatch, and the start of runIntentCycle: a batch is taken in  *)
(* one statement.                                                          *)
Lease(w) ==
    /\ pc[w] = "idle"
    /\ \E l \in LeaseIds, batch \in (SUBSET Leasable) \ {{}} :
          /\ FreshLease(l)
          /\ leaseId' = [e \in Events |-> IF e \in batch THEN l ELSE leaseId[e]]
          /\ expired' = expired \ batch
          /\ lease' = [lease EXCEPT ![w] = l]
          /\ todo' = [todo EXCEPT ![w] = batch]
    /\ pc' = [pc EXCEPT ![w] = "batch"]
    /\ UNCHANGED <<status, retryCount, dbVars, published, cur, attempt, toAck,
                   toNack, late, operatorVars, faults, crashes, expiries>>

(* Both calls change only the rows that still carry the caller's lease.    *)
Owned(l, S) == {e \in S : leaseId[e] = l}

Release(S) ==
    /\ leaseId' = [e \in Events |-> IF e \in S THEN NoLease ELSE leaseId[e]]
    /\ expired' = expired \ S

(* A fault: the acknowledgement is matched by event id only.               *)
AckAnyLease(l, S) ==
    /\ status' = [e \in Events |-> IF e \in S THEN "SENT" ELSE status[e]]
    /\ Release(S)
    /\ UNCHANGED retryCount

AckOutboxBatch(l, S) ==
    LET rows == Owned(l, S) IN
    /\ status' = [e \in Events |-> IF e \in rows THEN "SENT" ELSE status[e]]
    /\ Release(rows)
    /\ UNCHANGED retryCount

(* `old' are the rows created more than maxOutboxAgeHours ago.             *)
NackOutboxBatch(l, S) ==
    LET rows == {e \in Owned(l, S) : status[e] = "PENDING"} IN
    \E old \in SUBSET rows :
        /\ status' = [e \in Events |->
              IF e \in old \/ (e \in rows /\ retryCount[e] + 1 >= MaxRetries)
              THEN "FAILED" ELSE status[e]]
        /\ retryCount' = [e \in Events |->
              IF e \in rows THEN retryCount[e] + 1 ELSE retryCount[e]]
        /\ Release(rows)

Apply(call) ==
    \/ call.kind = "ack" /\ AckOutboxBatch(call.lease, call.events)
    \/ call.kind = "nack" /\ NackOutboxBatch(call.lease, call.events)

-----------------------------------------------------------------------------
(* The publish-failure ledger.                                             *)

(* PublishFailureRepo.Record: an upsert that keeps only REPLAYED.          *)
Record(e, replayStatus) ==
    ledger' = [ledger EXCEPT ![e] = IF @ = "REPLAYED" THEN @ ELSE replayStatus]

-----------------------------------------------------------------------------
(* processIntent: the event's result decides between ack and nack.         *)

(* The event is done; the next one of the batch is due.                    *)
Ackable(w, e) ==
    /\ toAck' = [toAck EXCEPT ![w] = @ \cup {e}]
    /\ UNCHANGED toNack

Nackable(w, e) ==
    /\ toNack' = [toNack EXCEPT ![w] = @ \cup {e}]
    /\ UNCHANGED toAck

BackToBatch(w) ==
    /\ pc' = [pc EXCEPT ![w] = "batch"]
    /\ cur' = [cur EXCEPT ![w] = NoEvent]
    /\ attempt' = [attempt EXCEPT ![w] = 0]

StayInBatch == UNCHANGED <<pc, cur, attempt>>

Take(w, e) ==
    /\ pc[w] = "batch"
    /\ e \in todo[w]
    /\ todo' = [todo EXCEPT ![w] = @ \ {e}]
    /\ UNCHANGED <<rowVars, published, lease, late, operatorVars, crashes, expiries>>

(* No route: the event is quarantined, but its result is a poison without  *)
(* terminalAck.                                                            *)
RefuseUnrouted(w, e) ==
    /\ e \in Unrouted
    /\ Take(w, e)
    /\ Nackable(w, e)
    /\ StayInBatch
    /\ \/ Record(e, "QUARANTINED") /\ UNCHANGED faults
       \/ Fault /\ UNCHANGED ledger
    /\ UNCHANGED conflicts

RefuseInvalid(w, e) ==
    /\ e \in Invalid \ Unrouted
    /\ Take(w, e)
    /\ StayInBatch
    /\ \/ Record(e, "QUARANTINED") /\ Ackable(w, e) /\ UNCHANGED faults
       \/ Fault /\ Nackable(w, e) /\ UNCHANGED ledger
    /\ UNCHANGED conflicts

(* VerifyPayload counts the mismatch: nacked until MaxConflicts is reached *)
(* and then handed to the poison path.                                     *)
RefuseTampered(w, e) ==
    /\ e \in Tampered \ (Unrouted \cup Invalid)
    /\ Take(w, e)
    /\ UNCHANGED ledger
    /\ \/ /\ conflicts' = [conflicts EXCEPT ![e] = @ + 1]
          /\ conflicts[e] + 1 < MaxConflicts
          /\ Nackable(w, e) /\ StayInBatch /\ UNCHANGED faults
       \/ /\ conflicts' = [conflicts EXCEPT ![e] = @ + 1]
          /\ conflicts[e] + 1 >= MaxConflicts
          /\ pc' = [pc EXCEPT ![w] = "poison"]
          /\ cur' = [cur EXCEPT ![w] = e]
          /\ UNCHANGED <<attempt, toAck, toNack, faults>>
       \/ Fault /\ Nackable(w, e) /\ StayInBatch /\ UNCHANGED conflicts

(* The event passes all checks: the first attempt to publish it.           *)
StartPublish(w, e) ==
    /\ e \notin Unrouted \cup Invalid \cup Tampered
    /\ Take(w, e)
    /\ pc' = [pc EXCEPT ![w] = "publish"]
    /\ cur' = [cur EXCEPT ![w] = e]
    /\ attempt' = [attempt EXCEPT ![w] = 1]
    /\ UNCHANGED <<dbVars, toAck, toNack, faults>>

PublishSucceeds(w) ==
    /\ pc[w] = "publish"
    /\ cur[w] \notin Poison
    /\ published' = published \cup {cur[w]}
    /\ Ackable(w, cur[w])
    /\ BackToBatch(w)
    /\ UNCHANGED <<rowVars, dbVars, lease, todo, late, operatorVars, faults,
                   crashes, expiries>>

(* retry.Policy.Do: whatever the error, the next attempt follows until     *)
(* they are used up.  A publish that failed may have reached its topic.    *)
PublishFails(w) ==
    /\ pc[w] = "publish"
    /\ \/ UNCHANGED published
       \/ cur[w] \notin Poison /\ published' = published \cup {cur[w]}
    /\ \/ /\ attempt[w] < MaxAttempts
          /\ attempt' = [attempt EXCEPT ![w] = @ + 1]
          /\ UNCHANGED pc
       \/ /\ attempt[w] >= MaxAttempts
          /\ pc' = [pc EXCEPT ![w] = IF cur[w] \in Poison THEN "poison" ELSE "exhausted"]
          /\ UNCHANGED attempt
    /\ UNCHANGED <<rowVars, dbVars, lease, todo, cur, toAck, toNack, late,
                   operatorVars, faults, crashes, expiries>>

(* A fault: the event is acknowledged although its record was not written. *)
AckUnrecorded(w) ==
    /\ pc[w] \in {"poison", "exhausted"}
    /\ Fault /\ Ackable(w, cur[w])
    /\ BackToBatch(w)
    /\ UNCHANGED <<rowVars, dbVars, published, lease, todo, late, operatorVars,
                   crashes, expiries>>

(* routeIntentToPoisonDLQ and routeIntentToPublishFailureDLQ: acknowledged *)
(* upstream only with a committed record.                                  *)
RecordDurableFailure(w) ==
    /\ pc[w] \in {"poison", "exhausted"}
    /\ \/ /\ Record(cur[w], IF pc[w] = "poison" THEN "QUARANTINED" ELSE "PENDING")
          /\ Ackable(w, cur[w]) /\ UNCHANGED faults
       \/ Fault /\ Nackable(w, cur[w]) /\ UNCHANGED ledger
    /\ BackToBatch(w)
    /\ UNCHANGED <<rowVars, conflicts, published, lease, todo, late, operatorVars,
                   crashes, expiries>>

-----------------------------------------------------------------------------
(* The end of runIntentCycle: one ack call, then one nack call.            *)

(* A call is applied, is lost, or times out and is applied later.          *)
CallUpstream(call) ==
    \/ Apply(call) /\ UNCHANGED <<faults, late>>
    \/ Fault /\ UNCHANGED <<rowVars, late>>
    \/ Fault /\ late' = late \cup {call} /\ UNCHANGED rowVars

BatchDone(w) ==
    /\ pc[w] = "batch"
    /\ todo[w] = {}
    /\ pc' = [pc EXCEPT ![w] = "ack"]
    /\ UNCHANGED <<rowVars, dbVars, published, lease, todo, cur, attempt, toAck,
                   toNack, late, operatorVars, faults, crashes, expiries>>

Ack(w) ==
    /\ pc[w] = "ack"
    /\ IF toAck[w] = {}
       THEN UNCHANGED <<rowVars, late, faults>>
       ELSE CallUpstream([kind |-> "ack", lease |-> lease[w], events |-> toAck[w]])
    /\ pc' = [pc EXCEPT ![w] = "nack"]
    /\ toAck' = [toAck EXCEPT ![w] = {}]
    /\ UNCHANGED <<dbVars, published, lease, todo, cur, attempt, toNack,
                   operatorVars, crashes, expiries>>

Nack(w) ==
    /\ pc[w] = "nack"
    /\ IF toNack[w] = {}
       THEN UNCHANGED <<rowVars, late, faults>>
       ELSE CallUpstream([kind |-> "nack", lease |-> lease[w], events |-> toNack[w]])
    /\ pc' = [pc EXCEPT ![w] = "idle"]
    /\ toNack' = [toNack EXCEPT ![w] = {}]
    /\ lease' = [lease EXCEPT ![w] = NoLease]
    /\ UNCHANGED <<dbVars, published, todo, cur, attempt, toAck, operatorVars,
                   crashes, expiries>>

-----------------------------------------------------------------------------
(* FailureReplayService.Replay                                             *)

BeginReplay(o, e) ==
    /\ rpc[o] = "idle"
    /\ ledger[e] = "PENDING"
    /\ ledger' = [ledger EXCEPT ![e] = "REPLAYING"]
    /\ rpc' = [rpc EXCEPT ![o] = "publish"]
    /\ target' = [target EXCEPT ![o] = e]
    /\ UNCHANGED <<rowVars, conflicts, published, workerVars, late, faults,
                   crashes, expiries>>

(* The stored message is loaded, its hash checked and sent; a failed send  *)
(* may have reached the topic.                                             *)
ReplayPublish(o) ==
    /\ rpc[o] = "publish"
    /\ \/ /\ rpc' = [rpc EXCEPT ![o] = "succeeded"]
          /\ published' = published \cup {target[o]}
       \/ /\ rpc' = [rpc EXCEPT ![o] = "failed"]
          /\ published' \in {published, published \cup {target[o]}}
    /\ UNCHANGED <<rowVars, dbVars, workerVars, late, target, faults, crashes,
                   expiries>>

(* A fault: a failed replay is completed like a successful one.            *)
CompleteReplayAlways(o) ==
    /\ rpc[o] \in {"succeeded", "failed"}
    /\ ledger' = [ledger EXCEPT ![target[o]] = "REPLAYED"]
    /\ rpc' = [rpc EXCEPT ![o] = "idle"]
    /\ target' = [target EXCEPT ![o] = NoEvent]
    /\ UNCHANGED <<rowVars, conflicts, published, workerVars, late, faults,
                   crashes, expiries>>

(* An unconditional update of the row, or none if the transaction fails.   *)
CompleteReplay(o) ==
    /\ rpc[o] \in {"succeeded", "failed"}
    /\ \/ /\ ledger' = [ledger EXCEPT ![target[o]] =
                           IF rpc[o] = "succeeded" THEN "REPLAYED" ELSE "PENDING"]
          /\ UNCHANGED faults
       \/ Fault /\ UNCHANGED ledger
    /\ rpc' = [rpc EXCEPT ![o] = "idle"]
    /\ target' = [target EXCEPT ![o] = NoEvent]
    /\ UNCHANGED <<rowVars, conflicts, published, workerVars, late, crashes,
                   expiries>>

-----------------------------------------------------------------------------
(* The environment.                                                        *)

HolderAlive(e) == \E w \in Workers : lease[w] = leaseId[e]

(* lease_until passes.                                                     *)
LeaseExpires(e) ==
    /\ leaseId[e] # NoLease
    /\ e \notin expired
    /\ \/ HolderAlive(e) /\ expiries > 0 /\ expiries' = expiries - 1
       \/ ~HolderAlive(e) /\ UNCHANGED expiries
    /\ expired' = expired \cup {e}
    /\ UNCHANGED <<status, retryCount, leaseId, dbVars, published, workerVars,
                   late, operatorVars, faults, crashes>>

(* A call the worker gave up on reaches the upstream.                      *)
LateCall(call) ==
    /\ call \in late
    /\ late' = late \ {call}
    /\ Apply(call)
    /\ UNCHANGED <<dbVars, published, workerVars, operatorVars, faults, crashes,
                   expiries>>

CrashWorker(w) ==
    /\ crashes > 0 /\ pc[w] # "idle"
    /\ crashes' = crashes - 1
    /\ pc' = [pc EXCEPT ![w] = "idle"]
    /\ lease' = [lease EXCEPT ![w] = NoLease]
    /\ todo' = [todo EXCEPT ![w] = {}]
    /\ cur' = [cur EXCEPT ![w] = NoEvent]
    /\ attempt' = [attempt EXCEPT ![w] = 0]
    /\ toAck' = [toAck EXCEPT ![w] = {}]
    /\ toNack' = [toNack EXCEPT ![w] = {}]
    /\ UNCHANGED <<rowVars, dbVars, published, late, operatorVars, faults, expiries>>

CrashOperator(o) ==
    /\ crashes > 0 /\ rpc[o] # "idle"
    /\ crashes' = crashes - 1
    /\ rpc' = [rpc EXCEPT ![o] = "idle"]
    /\ target' = [target EXCEPT ![o] = NoEvent]
    /\ UNCHANGED <<rowVars, dbVars, published, workerVars, late, faults, expiries>>

-----------------------------------------------------------------------------
ProcessIntent(w, e) ==
    \/ RefuseUnrouted(w, e) \/ RefuseInvalid(w, e) \/ RefuseTampered(w, e)
    \/ StartPublish(w, e)

WorkerStep(w) ==
    \/ \E e \in Events : ProcessIntent(w, e)
    \/ PublishSucceeds(w) \/ PublishFails(w) \/ RecordDurableFailure(w)
    \/ BatchDone(w) \/ Ack(w) \/ Nack(w)

OperatorStep(o) ==
    \/ \E e \in Events : BeginReplay(o, e)
    \/ ReplayPublish(o) \/ CompleteReplay(o)

Next ==
    \/ \E w \in Workers : Lease(w) \/ WorkerStep(w) \/ CrashWorker(w)
    \/ \E o \in Operators : OperatorStep(o) \/ CrashOperator(o)
    \/ \E e \in Events : LeaseExpires(e)
    \/ \E call \in late : LateCall(call)

Spec == Init /\ [][Next]_vars

(* Worker goroutines run and poll again, calls return, leases run out.     *)
Fairness ==
    /\ \A w \in Workers : WF_vars(Lease(w)) /\ WF_vars(WorkerStep(w))
    /\ \A e \in Events : WF_vars(LeaseExpires(e))

FairSpec == Spec /\ Fairness

-----------------------------------------------------------------------------
(* What became of an event that left the outbox.                           *)
Accounted(e) == e \in published \/ ledger[e] # "none"

(* publish_failure_repo.go: the upstream lease is acknowledged only after  *)
(* the publish succeeded or a failure row is committed.  A lost, late or   *)
(* repeated acknowledgement of any worker never settles anything else.     *)
NothingLost == \A e \in Events : status[e] = "SENT" => Accounted(e)

(* Nothing the checks refused ever reaches a topic, neither from a worker  *)
(* nor from an operator who replays the ledger.                            *)
BadNeverPublished == published \cap Bad = {}

(* A failure marked REPLAYED has really been published, whatever workers   *)
(* and other operators wrote to its row in between.                        *)
ReplayedIsPublished == \A e \in Events : ledger[e] = "REPLAYED" => e \in published

(* The relay keeps the promise stated in DeliveryContract.                 *)
Contract == INSTANCE DeliveryContract WITH
    delivered <- published,
    recorded  <- {e \in Events : ledger[e] # "none"},
    settled   <- {e \in Events : status[e] = "SENT"},
    abandoned <- {e \in Events : status[e] = "FAILED"}

(* Every step of relay, upstream and operators is one the contract allows. *)
ContractKept == Contract!Spec

(* Whatever worker dies with whatever batch, every event leaves the outbox.*)
EveryEventLeaves == \A e \in Events : <>(status[e] # "PENDING")
=============================================================================
