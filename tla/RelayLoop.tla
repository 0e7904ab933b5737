----------------------------- MODULE RelayLoop -----------------------------
(***************************************************************************)
(* RelayLoop (backend/relay/services): workers drain relay_outbox, where   *)
(* the dispatch pipeline enqueues one event with every status change, to   *)
(* the dispatch events topic.                                              *)
(*                                                                         *)
(* Events are numbered by created_at.  ListPendingForPublish selects FOR   *)
(* UPDATE SKIP LOCKED outside a transaction: a row is locked only while a  *)
(* statement of another worker runs, and several workers may hold it in    *)
(* memory.  Publishing, the DLQ copy, the failure ledger, MarkFailed and   *)
(* MarkPublished are calls of their own, each of which may fail.           *)
(***************************************************************************)
EXTENDS Integers, FiniteSets

CONSTANTS
    NumEvents,      \* events ever enqueued
    DispatchOf,     \* the dispatch an event belongs to
    TooLarge,       \* events Kafka refuses as too large: the poison events
    LoopWorkers,    \* relay loop workers, of one or several relay instances
    BatchSize,
    MaxLoopFaults,  \* bound: calls to Kafka or the database that fail
    MaxLoopCrashes  \* bound: crashes

Events == 1 .. NumEvents

ASSUME RelayLoopAssumption ==
    /\ NumEvents \in Nat
    /\ TooLarge \subseteq Events
    /\ BatchSize \in Nat \ {0}
    /\ MaxLoopFaults \in Nat
    /\ MaxLoopCrashes \in Nat

VARIABLES
    rowStatus,  \* relay_outbox.status, "none" before the row is committed
    ledger,     \* replay_status in relay_publish_failures, "none" without row
    published,  \* events with a copy on the topic
    loopPc,     \* a worker's next call
    batch,      \* listed rows it has still to publish
    cur,        \* the event its next call is about
    loopFaults, loopCrashes

loopVars == <<rowStatus, ledger, published, loopPc, batch, cur, loopFaults, loopCrashes>>

NoEvent == 0

LoopTypeOK ==
    /\ rowStatus \in [Events -> {"none", "PENDING", "PUBLISHED", "FAILED"}]
    /\ ledger \in [Events -> {"none", "QUARANTINED"}]
    /\ published \subseteq Events
    /\ loopPc \in [LoopWorkers -> {"batch", "dlq", "record", "markFailed", "markPublished"}]
    /\ batch \in [LoopWorkers -> SUBSET Events]
    /\ cur \in [LoopWorkers -> Events \cup {NoEvent}]
    /\ loopFaults \in 0 .. MaxLoopFaults
    /\ loopCrashes \in 0 .. MaxLoopCrashes

LoopInit ==
    /\ rowStatus = [e \in Events |-> "none"]
    /\ ledger = [e \in Events |-> "none"]
    /\ published = {}
    /\ loopPc = [w \in LoopWorkers |-> "batch"]
    /\ batch = [w \in LoopWorkers |-> {}]
    /\ cur = [w \in LoopWorkers |-> NoEvent]
    /\ loopFaults = MaxLoopFaults
    /\ loopCrashes = MaxLoopCrashes

LoopFault == loopFaults > 0 /\ loopFaults' = loopFaults - 1

-----------------------------------------------------------------------------
(* A fault: enqueueing an event again reopens its row.                     *)
EnqueueAgain(e) ==
    /\ rowStatus' = [rowStatus EXCEPT ![e] = "PENDING"]
    /\ UNCHANGED <<ledger, published, loopPc, batch, cur, loopFaults, loopCrashes>>

(* EnqueueTx: the transaction that changed the dispatch commits.  Those of *)
(* one dispatch commit one after the other.                                *)
EnqueueTx(e) ==
    /\ rowStatus[e] = "none"
    /\ \A f \in Events : f < e /\ DispatchOf[f] = DispatchOf[e] => rowStatus[f] # "none"
    /\ rowStatus' = [rowStatus EXCEPT ![e] = "PENDING"]
    /\ UNCHANGED <<ledger, published, loopPc, batch, cur, loopFaults, loopCrashes>>

(* The oldest BatchSize rows of S.                                         *)
IsOldest(B, S) ==
    /\ B \subseteq S
    /\ Cardinality(B) = IF Cardinality(S) < BatchSize THEN Cardinality(S) ELSE BatchSize
    /\ \A e \in B, f \in S \ B : e < f

Pending == {e \in Events : rowStatus[e] = "PENDING"}

ListPendingForPublish(w) ==
    /\ loopPc[w] = "batch" /\ batch[w] = {}
    /\ \E locked \in SUBSET Pending, B \in SUBSET Pending :
          /\ LoopWorkers = {w} => locked = {}
          /\ B # {} /\ IsOldest(B, Pending \ locked)
          /\ batch' = [batch EXCEPT ![w] = B]
    /\ UNCHANGED <<rowStatus, ledger, published, loopPc, cur, loopFaults, loopCrashes>>

-----------------------------------------------------------------------------
(* The body of the loop over the batch.                                    *)

Call(w, step) ==
    /\ loopPc' = [loopPc EXCEPT ![w] = step]
    /\ UNCHANGED cur

(* `continue', or the end of the loop body.                                *)
NextEvent(w) ==
    /\ loopPc' = [loopPc EXCEPT ![w] = "batch"]
    /\ cur' = [cur EXCEPT ![w] = NoEvent]

(* A fault: the row is marked before the send is confirmed.                *)
MarkFirst(w, e) ==
    /\ loopPc[w] = "batch"
    /\ e \in batch[w] /\ \A f \in batch[w] : e <= f
    /\ batch' = [batch EXCEPT ![w] = @ \ {e}]
    /\ cur' = [cur EXCEPT ![w] = e]
    /\ loopPc' = [loopPc EXCEPT ![w] = "markPublished"]
    /\ UNCHANGED <<rowStatus, ledger, published, loopFaults, loopCrashes>>

(* Producer.Publish.  A send that failed may have reached the topic; one   *)
(* refused as too large has not.                                           *)
Publish(w, e) ==
    /\ loopPc[w] = "batch"
    /\ e \in batch[w] /\ \A f \in batch[w] : e <= f
    /\ batch' = [batch EXCEPT ![w] = @ \ {e}]
    /\ cur' = [cur EXCEPT ![w] = e]
    /\ \/ /\ e \notin TooLarge
          /\ published' = published \cup {e}
          /\ loopPc' = [loopPc EXCEPT ![w] = "markPublished"]
          /\ UNCHANGED loopFaults
       \/ /\ LoopFault
          /\ e \notin TooLarge
          /\ published' \in {published, published \cup {e}}
          /\ loopPc' = [loopPc EXCEPT ![w] = "dlq"]
       \/ /\ e \in TooLarge
          /\ loopPc' = [loopPc EXCEPT ![w] = "dlq"]
          /\ UNCHANGED <<published, loopFaults>>
    /\ UNCHANGED <<rowStatus, ledger, loopCrashes>>

(* A fault: poison stays in the outbox like a publish failure.             *)
DLQOnly(w) ==
    /\ loopPc[w] = "dlq"
    /\ NextEvent(w)
    /\ UNCHANGED <<rowStatus, ledger, published, batch, loopFaults, loopCrashes>>

(* The copy on a DLQ topic: without it, and for what is not poison, the    *)
(* row stays PENDING.                                                      *)
PublishDLQ(w) ==
    /\ loopPc[w] = "dlq"
    /\ \/ cur[w] \in TooLarge /\ Call(w, "record") /\ UNCHANGED loopFaults
       \/ cur[w] \notin TooLarge /\ NextEvent(w) /\ UNCHANGED loopFaults
       \/ LoopFault /\ NextEvent(w)
    /\ UNCHANGED <<rowStatus, ledger, published, batch, loopCrashes>>

(* recordFailureAndMarkTerminal, first half: the durable record.           *)
RecordFailure(w) ==
    /\ loopPc[w] = "record"
    /\ \/ /\ ledger' = [ledger EXCEPT ![cur[w]] = "QUARANTINED"]
          /\ Call(w, "markFailed") /\ UNCHANGED loopFaults
       \/ LoopFault /\ NextEvent(w) /\ UNCHANGED ledger
    /\ UNCHANGED <<rowStatus, published, batch, loopCrashes>>

(* Second half: an unconditional update.                                   *)
MarkFailed(w) ==
    /\ loopPc[w] = "markFailed"
    /\ \/ /\ rowStatus' = [rowStatus EXCEPT ![cur[w]] = "FAILED"]
          /\ Call(w, "markPublished") /\ UNCHANGED loopFaults
       \/ LoopFault /\ NextEvent(w) /\ UNCHANGED rowStatus
    /\ UNCHANGED <<ledger, published, batch, loopCrashes>>

(* Only a PENDING row is updated, so a row just marked FAILED stays that.  *)
MarkPublished(w) ==
    /\ loopPc[w] = "markPublished"
    /\ \/ /\ rowStatus' = [rowStatus EXCEPT
                              ![cur[w]] = IF @ = "PENDING" THEN "PUBLISHED" ELSE @]
          /\ UNCHANGED loopFaults
       \/ LoopFault /\ UNCHANGED rowStatus
    /\ NextEvent(w)
    /\ UNCHANGED <<ledger, published, batch, loopCrashes>>

LoopCrash(w) ==
    /\ loopCrashes > 0
    /\ loopPc[w] # "batch" \/ batch[w] # {}
    /\ loopCrashes' = loopCrashes - 1
    /\ NextEvent(w)
    /\ batch' = [batch EXCEPT ![w] = {}]
    /\ UNCHANGED <<rowStatus, ledger, published, loopFaults>>

-----------------------------------------------------------------------------
LoopWorkerStep(w) ==
    \/ ListPendingForPublish(w)
    \/ \E e \in Events : Publish(w, e)
    \/ PublishDLQ(w) \/ RecordFailure(w) \/ MarkFailed(w) \/ MarkPublished(w)

LoopNext ==
    \/ \E e \in Events : EnqueueTx(e)
    \/ \E w \in LoopWorkers : LoopWorkerStep(w) \/ LoopCrash(w)

LoopSpec == LoopInit /\ [][LoopNext]_loopVars

(* The workers poll until the process stops.                               *)
FairLoopSpec == LoopSpec /\ \A w \in LoopWorkers : WF_loopVars(LoopWorkerStep(w))

-----------------------------------------------------------------------------
(* The relay loop keeps the same promise to the dispatch pipeline as the   *)
(* outbox relay does to its upstream, and never gives an event up.         *)
Contract == INSTANCE DeliveryContract WITH
    delivered <- published,
    recorded  <- {e \in Events : ledger[e] # "none"},
    settled   <- {e \in Events : rowStatus[e] \in {"PUBLISHED", "FAILED"}},
    abandoned <- {}

(* Every step of the workers, racing for the same rows, with failing calls *)
(* and crashes, is one the delivery contract allows.                       *)
ContractKept == Contract!Spec

(* A row's final status tells what happened to the event: PUBLISHED rows   *)
(* are on the topic, FAILED ones are quarantined poison, although          *)
(* MarkFailed checks no status and several workers hold the row.           *)
StatusIsTrue ==
    \A e \in Events :
        /\ rowStatus[e] = "PUBLISHED" => e \in published
        /\ rowStatus[e] = "FAILED" => e \in TooLarge /\ ledger[e] = "QUARANTINED"

(* relay_loop.go: events drain when Kafka recovers, whatever calls failed  *)
(* and workers died before; none is left behind.                           *)
Drains == \A e \in Events : rowStatus[e] = "PENDING" ~> rowStatus[e] # "PENDING"
=============================================================================
