------------------------------ MODULE Intents ------------------------------
(***************************************************************************)
(* The intent engine (backend/intents): an event becomes a canonical       *)
(* payment intent with its outbox row, a dead-letter row, a failure        *)
(* receipt, or a request to the token enclave whose answer becomes the     *)
(* intent later.                                                           *)
(*                                                                         *)
(* One tenant, currency, business day and bulk file.  A statement is one   *)
(* step, and so is a transaction.  Scores, hashes, snapshots and the text  *)
(* of a record are left out.                                               *)
(***************************************************************************)
EXTENDS Naturals, Sequences, FiniteSets

CONSTANTS
    Events,
    About,              \* Events -> verdict (what the checks find), key, ref and payee (what
                        \* duplicates share), amount, batch (it is a row of the file), quality
    Partitions,         \* of the event topic
    Clients,            \* approval requests
    DailyLimit,
    RowCountEstimate,   \* rows of the bulk file
    maxHandlerAttempts,
    Worlds,             \* what the partitions hold, which requests are made, and faults:
                        \* how many statements, calls and processes fail
    None

ASSUME IntentsAssumption ==
    /\ \A e \in Events : /\ About[e].verdict \in {"malformed", "webhook", "rejected", "policy",
                                                    "invalid", "timed", "sound"}
                         /\ About[e].amount \in Nat /\ About[e].batch \in BOOLEAN
                         /\ About[e].quality \in {"clear", "flagged", "oversized"}
    /\ "results" \notin Partitions
    /\ DailyLimit \in Nat /\ RowCountEstimate \in Nat \ {0} /\ maxHandlerAttempts \in Nat \ {0}
    /\ \A w \in Worlds : /\ w.log \in [Partitions -> Seq(Events)]
                         /\ w.clients \subseteq Clients /\ w.faults \in Nat

VARIABLES
    world,
    position,    \* partitions and the result topic: the next message
    committed,   \* the offset a restart may find
    handler,     \* partitions and the result topic: the message in hand
    intents,     \* payment_intents
    outbox,      \* outbox rows, one per intent
    registry,    \* business_idempotency_registry: key -> intent
    usage,       \* tenant_daily_usage.accepted_amount
    dlq,         \* dlq_items: events
    receipts,    \* consumer_failure_receipts: topic and event
    buffered,    \* requests in the memory of the asynchronous producer
    undelivered, \* events whose request it has dropped; not visible to the code
    requests,    \* topic pii.tokenize.request
    asked,       \* the token enclave's offset in it
    unanswered,  \* its tokenize_failures
    results,     \* topic pii.tokenize.result
    rows,        \* intent_ingest_rows: how many of each status
    run,         \* intent_ingest_runs
    batch,       \* canonical_batches: what the last aggregate counted
    flight,      \* batchAggregateGroup: the aggregate that is being computed
    client,      \* approval requests
    faults

Topics == Partitions \cup {"results"}
topics == <<world, position, committed>>
tables == <<intents, outbox, registry, usage, dlq, receipts>>
enclave == <<buffered, undelivered, requests, asked, unanswered, results>>
files == <<rows, run, batch, flight>>
vars == <<topics, handler, tables, enclave, files, client, faults>>

Idle == [step |-> "idle", tries |-> 0, dup |-> FALSE, fresh |-> FALSE, held |-> FALSE,
         id |-> 0, status |-> "ACCEPTED", unsaved |-> FALSE, ended |-> FALSE, seen |-> <<0, 0>>]
NoRun == [status |-> None, accepted |-> 0, failed |-> 0]
NoRequest == [step |-> "check", id |-> 0]

Log(p) == IF p = "results" THEN results ELSE world.log[p]
Event(p) == Log(p)[position[p]]

Steps == {"idle", "start", "policy", "find", "validate", "tokenize", "request", "registry",
          "strict", "reserve", "save", "snapshot", "refs", "outboxrefs", "aggregate", "write",
          "joined", "continue", "ensure", "row", "count", "upsert", "dlq", "record"}
GovernanceStates == {"VALID", "FLAGGED", "REQUIRES_REVIEW", "WEBHOOK"}

TypeOK ==
    /\ world \in Worlds
    /\ \A p \in Topics : /\ committed[p] <= position[p] /\ committed[p] \in Nat \ {0}
                         /\ position[p] \in 1..Len(Log(p)) + 1
                         /\ handler[p].step \in Steps
                         /\ handler[p].tries \in 0..maxHandlerAttempts
                         /\ handler[p].id \in 0..Len(intents)
    /\ Len(outbox) = Len(intents)
    /\ \A i \in DOMAIN intents : /\ intents[i].event \in Events
                                 /\ intents[i].state \in GovernanceStates
                                 /\ outbox[i].state \in GovernanceStates
    /\ \A k \in DOMAIN registry : registry[k] \in DOMAIN intents
    /\ usage \in Nat /\ dlq \subseteq Events
    /\ receipts \subseteq {"event", "result"} \X Events
    /\ buffered \in Seq(Events) /\ undelivered \subseteq Events
    /\ requests \in Seq(Events) /\ results \in Seq(Events)
    /\ asked \in 1..Len(requests) + 1 /\ unanswered \subseteq Events
    /\ run.status \in {None, "PROCESSING", "COMPLETED", "FAILED_RETRYABLE", "PARTIAL_FAILED",
                       "FAILED_FINAL"}
    /\ flight \in Topics \cup {None}
    /\ \A c \in Clients : client[c].step \in {"check", "reserve", "approve", "release", "done"}
    /\ faults \in 0..world.faults

Init ==
    /\ world \in Worlds
    /\ position = [p \in Topics |-> 1] /\ committed = [p \in Topics |-> 1]
    /\ handler = [p \in Topics |-> Idle]
    /\ intents = <<>> /\ outbox = <<>> /\ registry = <<>> /\ usage = 0
    /\ dlq = {} /\ receipts = {}
    /\ buffered = <<>> /\ undelivered = {}
    /\ requests = <<>> /\ asked = 1 /\ unanswered = {} /\ results = <<>>
    /\ rows = [ACCEPTED |-> 0, FAILED |-> 0] /\ run = NoRun /\ batch = None /\ flight = None
    /\ client = [c \in Clients |-> [NoRequest EXCEPT !.step = IF c \in world.clients THEN "check"
                                                                ELSE "done"]]
    /\ faults = 0

Fault == faults < world.faults /\ faults' = faults + 1

At(p, step) == handler[p].step = step
Become(p, h) == handler' = [handler EXCEPT ![p] = h] /\ UNCHANGED topics
Goto(p, step) == Become(p, [handler[p] EXCEPT !.step = step])

(* The message is marked and the next one is taken.                        *)
MarkMessage(p) ==
    /\ position' = [position EXCEPT ![p] = @ + 1]
    /\ handler' = [handler EXCEPT ![p] = Idle]
    /\ UNCHANGED <<world, committed>>

(* The handler has succeeded but for an entry that nobody has saved yet.   *)
Succeed(p, h) ==
    IF h.unsaved THEN Become(p, [h EXCEPT !.step = "dlq"]) ELSE MarkMessage(p)

(* ProcessIncomingIntent returns: a row of a bulk file is counted first.   *)
Return(p, h) ==
    IF p # "results" /\ About[Event(p)].batch
    THEN Become(p, [h EXCEPT !.step = "ensure"])
    ELSE Succeed(p, h)

Rejected(p) == [handler[p] EXCEPT !.status = "FAILED"]

(* The handler fails: it is called again, from the start, or given up.     *)
callWithRetry(p) ==
    LET n == handler[p].tries + 1
    IN  Become(p, [Idle EXCEPT !.step = IF n < maxHandlerAttempts THEN "start" ELSE "record",
                               !.tries = n])

-----------------------------------------------------------------------------
(* Taking a message and checking the event.                                *)

ConsumeClaim(p) ==
    /\ At(p, "idle") /\ position[p] <= Len(Log(p))
    /\ Become(p, [Idle EXCEPT !.step = "start"])
    /\ UNCHANGED <<tables, enclave, files, client, faults>>

(* What the checks find in an event: empty fields, a payload that cannot   *)
(* be decrypted or is not the one that was hashed; missing fields and      *)
(* governance rules; doubts; a deadline or the hours of the NEFT window.   *)
RejectedEarly(e) == About[e].verdict = "rejected"
ViolatesPolicy(e) == About[e].verdict = "policy"
Doubtful(e) == About[e].quality = "flagged"
OutOfTime(e) == About[e].verdict = "timed"
Unparsable(e) == About[e].verdict = "malformed"
Webhook(e) == About[e].verdict = "webhook"

processIncomingIntent(p) ==
    LET e == Event(p) IN
    /\ At(p, "start") /\ p # "results"
    /\ \/ Unparsable(e) /\ callWithRetry(p)
       \/ Webhook(e) /\ Goto(p, "save")
       \/ RejectedEarly(e) /\ Return(p, [Rejected(p) EXCEPT !.unsaved = TRUE])
       \/ ViolatesPolicy(e) /\ Goto(p, "policy")
       \/ About[e].verdict \in {"invalid", "timed", "sound"} /\ Goto(p, "find")
    /\ UNCHANGED <<tables, enclave, files, client, faults>>

(* The answer of the enclave resumes after the tokenization, and does not  *)
(* look for an intent of the same envelope.                                *)
ProcessTokenizeResult(p) ==
    /\ At(p, "start") /\ p = "results"
    /\ Goto(p, "registry")
    /\ UNCHANGED <<tables, enclave, files, client, faults>>

(* A violated policy saves its own entry; when that fails the handler does *)
(* it once more.                                                           *)
RejectByPolicy(p) ==
    /\ At(p, "policy")
    /\ \/ dlq' = dlq \cup {Event(p)} /\ Return(p, Rejected(p)) /\ UNCHANGED faults
       \/ Fault /\ UNCHANGED dlq /\ Return(p, [Rejected(p) EXCEPT !.unsaved = TRUE])
    /\ UNCHANGED <<intents, outbox, registry, usage, receipts, enclave, files, client>>

(* An envelope that has an intent is done.                                 *)
FindByEnvelope(p) ==
    /\ At(p, "find")
    /\ IF \E i \in DOMAIN intents : intents[i].event = Event(p)
       THEN Return(p, handler[p])
       ELSE Goto(p, "validate")
    /\ UNCHANGED <<tables, enclave, files, client, faults>>

(* The validator saves its entries itself, the guards do not, and what     *)
(* they find depends on the clock.                                         *)
ValidateParsed(p) ==
    LET e == Event(p) IN
    /\ At(p, "validate")
    /\ \/ About[e].verdict = "invalid" /\ dlq' = dlq \cup {e} /\ Return(p, Rejected(p))
       \/ OutOfTime(e) /\ UNCHANGED dlq /\ Return(p, [Rejected(p) EXCEPT !.unsaved = TRUE])
       \/ About[e].verdict # "invalid" /\ UNCHANGED dlq /\ Goto(p, "tokenize")
    /\ UNCHANGED <<intents, outbox, registry, usage, receipts, enclave, files, client, faults>>

(* When the enclave does not answer, the work is handed to its queue and   *)
(* the message is done: the row counts as accepted.                        *)
callEnclaveTokenize(p) ==
    /\ At(p, "tokenize")
    /\ \/ Goto(p, "registry") /\ UNCHANGED faults
       \/ Fault /\ Goto(p, "request")
    /\ UNCHANGED <<tables, enclave, files, client>>

(* Publish is done when the producer has the message in its memory; it has *)
(* no error to tell, because the handlers' context never ends.             *)
Publish(e) == buffered' = Append(buffered, e)

PublishTokenizeRequest(p) ==
    /\ At(p, "request")
    /\ Publish(Event(p))
    /\ Return(p, handler[p])
    /\ UNCHANGED <<tables, undelivered, requests, asked, unanswered, results, files, client,
                   faults>>

(* The producer sends what it has, in order; what the broker refuses after *)
(* all retries is logged and forgotten.                                    *)
SendBuffered ==
    /\ buffered # <<>>
    /\ buffered' = Tail(buffered)
    /\ \/ requests' = Append(requests, Head(buffered)) /\ UNCHANGED <<undelivered, faults>>
       \/ Fault /\ undelivered' = undelivered \cup {Head(buffered)} /\ UNCHANGED requests
    /\ UNCHANGED <<topics, handler, tables, asked, unanswered, results, files, client>>

-----------------------------------------------------------------------------
(* Duplicates, the daily limit and the intent.                             *)

(* A payout reference is hashed with the source system, which the request  *)
(* to the enclave leaves out.                                              *)
BusinessIdempotencyKey(p) ==
    LET a == About[Event(p)]
    IN  IF a.ref # None THEN <<a.ref, a.amount, p # "results">> ELSE <<a.payee, a.amount, FALSE>>

CheckIdempotencyRegistry(p) ==
    LET known == BusinessIdempotencyKey(p) \in DOMAIN registry IN
    /\ At(p, "registry")
    /\ Become(p, [handler[p] EXCEPT !.step = "strict", !.dup = known, !.fresh = ~known])
    /\ UNCHANGED <<tables, enclave, files, client, faults>>

SameRequest(e, f) ==
    \/ About[e].key # None /\ About[e].key = About[f].key
    \/ About[e].ref # None /\ About[e].ref = About[f].ref

(* Both lookups; an error counts as nothing found.  Only an event that     *)
(* comes from the topic asks for the daily limit.                          *)
FindIntentID(p) ==
    LET found == \E i \in DOMAIN intents : SameRequest(Event(p), intents[i].event)
        next == IF p = "results" THEN "save" ELSE "reserve"
    IN
    /\ At(p, "strict")
    /\ \/ Become(p, [handler[p] EXCEPT !.step = next, !.dup = @ \/ found]) /\ UNCHANGED faults
       \/ found /\ Fault /\ Goto(p, next)
    /\ UNCHANGED <<tables, enclave, files, client>>

(* A fault: the limit is compared with what was reserved before.           *)
WithinLimitSoFar(e) == usage <= DailyLimit

WithinDailyLimit(e) == usage + About[e].amount <= DailyLimit
Reserved(e) == IF WithinDailyLimit(e) THEN usage + About[e].amount ELSE usage

(* Its own transaction; an error holds the intent for review.              *)
ReserveIfWithinLimit(p) ==
    LET e == Event(p) IN
    /\ At(p, "reserve")
    /\ \/ /\ usage' = Reserved(e)
          /\ Become(p, [handler[p] EXCEPT !.step = "save", !.held = ~WithinDailyLimit(e)])
          /\ UNCHANGED faults
       \/ /\ Fault /\ UNCHANGED usage
          /\ Become(p, [handler[p] EXCEPT !.step = "save", !.held = TRUE])
    /\ UNCHANGED <<intents, outbox, registry, dlq, receipts, enclave, files, client>>

GovernanceState(p) ==
    LET h == handler[p]
        oversized == About[Event(p)].quality = "oversized"
    IN  IF Webhook(Event(p)) THEN "WEBHOOK"
        ELSE IF h.held \/ (oversized /\ p # "results") THEN "REQUIRES_REVIEW"
        ELSE IF h.dup \/ Doubtful(Event(p)) THEN "FLAGGED"
        ELSE "VALID"

NewIntent(p) ==
    [event |-> Event(p), key |-> BusinessIdempotencyKey(p), dup |-> handler[p].dup,
     state |-> GovernanceState(p), accepted |-> GovernanceState(p) = "VALID",
     async |-> p = "results", refs |-> FALSE]
Announced(i) == [state |-> i.state, dup |-> i.dup, accepted |-> i.accepted, refs |-> FALSE]

(* A fault: whoever finds the registry's row taken is not flagged.         *)
SaveUnflagged(p) ==
    LET k == BusinessIdempotencyKey(p) IN
    /\ intents' = Append(intents, NewIntent(p))
    /\ outbox' = Append(outbox, Announced(NewIntent(p)))
    /\ registry' = IF handler[p].fresh /\ k \notin DOMAIN registry
                   THEN [x \in DOMAIN registry \cup {k} |->
                            IF x = k THEN Len(intents) + 1 ELSE registry[x]]
                   ELSE registry

(* One transaction: the intent, its outbox row and, if the registry did    *)
(* not know the key, the registry's row.  Somebody else may have inserted  *)
(* it since: then the intent, and only the intent, is flagged.             *)
Save(p) ==
    LET id == Len(intents) + 1
        k == BusinessIdempotencyKey(p)
        late == handler[p].fresh /\ k \in DOMAIN registry
        new == NewIntent(p)
    IN
    /\ intents' = Append(intents, IF late THEN [new EXCEPT !.dup = TRUE, !.state = "FLAGGED"]
                                  ELSE new)
    /\ outbox' = Append(outbox, Announced(new))
    /\ registry' = IF handler[p].fresh /\ ~late
                   THEN [x \in DOMAIN registry \cup {k} |-> IF x = k THEN id ELSE registry[x]]
                   ELSE registry

SaveIntent(p) ==
    /\ At(p, "save") /\ Save(p)
    /\ IF Webhook(Event(p))
       THEN Return(p, handler[p])
       ELSE Become(p, [handler[p] EXCEPT !.step = "snapshot", !.id = Len(intents) + 1])
    /\ UNCHANGED <<usage, dlq, receipts, enclave, files, client, faults>>

(* The transaction is committed and the answer is lost.                    *)
SaveIsUnanswered(p) ==
    /\ At(p, "save") /\ Fault /\ Save(p)
    /\ callWithRetry(p)
    /\ UNCHANGED <<usage, dlq, receipts, enclave, files, client>>

(* A snapshot that cannot be stored ends an event's handler in peace.      *)
StoreSnapshot(p) ==
    /\ At(p, "snapshot")
    /\ \/ Goto(p, "refs") /\ UNCHANGED faults
       \/ p # "results" /\ Fault /\ Return(p, handler[p])
    /\ UNCHANGED <<tables, enclave, files, client>>

UpdateSnapshotRefs(p) ==
    LET id == handler[p].id IN
    /\ \/ /\ At(p, "refs")
          /\ intents' = [intents EXCEPT ![id].refs = TRUE]
          /\ Goto(p, "outboxrefs")
          /\ UNCHANGED outbox
       \/ /\ At(p, "outboxrefs")
          /\ outbox' = [outbox EXCEPT ![id].refs = TRUE]
          /\ IF p # "results" /\ About[Event(p)].batch
             THEN Goto(p, "aggregate")
             ELSE Return(p, handler[p])
          /\ UNCHANGED intents
    /\ UNCHANGED <<registry, usage, dlq, receipts, enclave, files, client, faults>>

(* The answer of the enclave ignores an error of these updates.            *)
RefsAreLost ==
    /\ At("results", "refs") \/ At("results", "outboxrefs")
    /\ Fault /\ MarkMessage("results")
    /\ UNCHANGED <<tables, enclave, files, client>>

-----------------------------------------------------------------------------
(* The rows of a bulk file, its run and its aggregate.                     *)

InBatch(e) == About[e].batch
BatchCounts == <<Cardinality({i \in DOMAIN intents : InBatch(intents[i].event) /\ ~intents[i].async}),
                 Cardinality({e \in dlq : InBatch(e)})>>

(* One computation at a time: a second caller waits for the first one's.   *)
BatchAggregateGroup(p) ==
    /\ At(p, "aggregate")
    /\ IF flight = None
       THEN /\ flight' = p
            /\ Become(p, [handler[p] EXCEPT !.step = "write", !.seen = BatchCounts])
       ELSE flight' = flight /\ Goto(p, "joined")
    /\ UNCHANGED <<tables, enclave, rows, run, batch, client, faults>>

UpdateBatchAggregateConfidence(p) ==
    /\ At(p, "write")
    /\ \/ batch' = handler[p].seen /\ UNCHANGED faults
       \/ Fault /\ UNCHANGED batch
    /\ flight' = None
    /\ handler' = [q \in Topics |-> IF q = p \/ At(q, "joined")
                                    THEN [handler[q] EXCEPT !.step = "continue", !.seen = <<0, 0>>]
                                    ELSE handler[q]]
    /\ UNCHANGED <<topics, tables, enclave, rows, run, client>>

AggregateReturns(p) ==
    /\ At(p, "continue")
    /\ IF handler[p].ended THEN Succeed(p, handler[p]) ELSE Return(p, handler[p])
    /\ UNCHANGED <<tables, enclave, files, client, faults>>

EnsureIngestRun(p) ==
    /\ At(p, "ensure")
    /\ \/ /\ run' = [run EXCEPT !.status = IF @ \in {None, "FAILED_RETRYABLE", "PARTIAL_FAILED"}
                                           THEN "PROCESSING" ELSE @]
          /\ UNCHANGED faults
       \/ Fault /\ UNCHANGED run
    /\ Goto(p, "row")
    /\ UNCHANGED <<tables, enclave, rows, batch, flight, client>>

InsertIngestRow(p) ==
    /\ At(p, "row")
    /\ \/ rows' = [rows EXCEPT ![handler[p].status] = @ + 1] /\ UNCHANGED faults
       \/ Fault /\ UNCHANGED rows
    /\ Goto(p, "count")
    /\ UNCHANGED <<tables, enclave, run, batch, flight, client>>

CountIngestRows(p) ==
    /\ At(p, "count")
    /\ \/ /\ Become(p, [handler[p] EXCEPT !.step = "upsert", !.seen = <<rows.ACCEPTED, rows.FAILED>>])
          /\ UNCHANGED faults
       \/ Fault /\ Succeed(p, handler[p])
    /\ UNCHANGED <<tables, enclave, files, client>>

(* The counts and the status that follows from them replace the old ones,  *)
(* but a run the sweeper has given up keeps its status.                    *)
UpsertIngestRun(p) ==
    LET h == handler[p]
        whole == h.seen[1] + h.seen[2] >= RowCountEstimate
    IN
    /\ At(p, "upsert")
    /\ \/ /\ run' = [status |-> IF run.status = "FAILED_FINAL" THEN run.status
                                ELSE IF whole THEN "COMPLETED" ELSE "PROCESSING",
                     accepted |-> h.seen[1], failed |-> h.seen[2]]
          /\ IF whole
             THEN Become(p, [h EXCEPT !.step = "aggregate", !.ended = TRUE, !.seen = <<0, 0>>])
             ELSE Succeed(p, h)
          /\ UNCHANGED faults
       \/ Fault /\ UNCHANGED run /\ Succeed(p, h)
    /\ UNCHANGED <<tables, enclave, rows, batch, flight, client>>

(* No heartbeat for a while, and then for longer.                          *)
sweepProcessingToFailed ==
    /\ run.status = "PROCESSING"
    /\ run' = [run EXCEPT !.status = IF run.accepted + run.failed > 0 THEN "PARTIAL_FAILED"
                                     ELSE "FAILED_RETRYABLE"]
    /\ UNCHANGED <<topics, handler, tables, enclave, rows, batch, flight, client, faults>>

(* A fault: the run is opened again, for ever.                             *)
sweepRecoverableToProcessing ==
    /\ run.status \in {"FAILED_RETRYABLE", "PARTIAL_FAILED"}
    /\ run' = [run EXCEPT !.status = "PROCESSING"]
    /\ UNCHANGED <<topics, handler, tables, enclave, rows, batch, flight, client, faults>>

sweepRecoverableToFinal ==
    /\ run.status \in {"FAILED_RETRYABLE", "PARTIAL_FAILED"}
    /\ run' = [run EXCEPT !.status = "FAILED_FINAL"]
    /\ UNCHANGED <<topics, handler, tables, enclave, rows, batch, flight, client, faults>>

-----------------------------------------------------------------------------
(* Entries nobody has saved, failures, restarts.                           *)

PersistRejectedIntentDLQ(p) ==
    /\ At(p, "dlq")
    /\ dlq' = dlq \cup {Event(p)}
    /\ MarkMessage(p)
    /\ UNCHANGED <<intents, outbox, registry, usage, receipts, enclave, files, client, faults>>

(* A statement or a call fails whose error ends the handler.               *)
HandlerFails(p) ==
    LET e == Event(p) IN
    /\ \/ /\ At(p, "start") /\ p # "results"
          /\ ~Unparsable(e) /\ ~Webhook(e) /\ ~RejectedEarly(e)
       \/ At(p, "validate") /\ About[e].verdict = "invalid"
       \/ handler[p].step \in {"find", "registry", "save", "snapshot", "dlq"}
       \/ handler[p].step \in {"refs", "outboxrefs"} /\ p # "results"
    /\ Fault /\ callWithRetry(p)
    /\ UNCHANGED <<tables, enclave, files, client>>

(* A fault: the message is marked although its failure is not recorded.    *)
MarkUnrecorded(p) ==
    /\ At(p, "record")
    /\ \/ /\ receipts' = receipts \cup {<<IF p = "results" THEN "result" ELSE "event", Event(p)>>}
          /\ MarkMessage(p) /\ UNCHANGED faults
       \/ Fault /\ UNCHANGED receipts /\ MarkMessage(p)
    /\ UNCHANGED <<intents, outbox, registry, usage, dlq, enclave, files, client>>

(* The last attempt has failed: the failure is recorded before the message *)
(* is marked, or the claim ends and the message comes again.               *)
RecordFailure(p) ==
    /\ At(p, "record")
    /\ \/ /\ receipts' = receipts \cup {<<IF p = "results" THEN "result" ELSE "event", Event(p)>>}
          /\ MarkMessage(p) /\ UNCHANGED faults
       \/ Fault /\ UNCHANGED receipts /\ Become(p, Idle)
    /\ UNCHANGED <<intents, outbox, registry, usage, dlq, enclave, files, client>>

(* Marked offsets are committed every now and then, so a restart begins    *)
(* anywhere between the last known commit and the mark.  A process that    *)
(* ends does not wait for its producer: what is buffered is lost.          *)
Buffered == {buffered[i] : i \in DOMAIN buffered}

Restart ==
    /\ Fault
    /\ \E o \in [Topics -> UNION {committed[p]..position[p] : p \in Topics}] :
          /\ \A p \in Topics : committed[p] <= o[p] /\ o[p] <= position[p]
          /\ position' = o /\ committed' = o
    /\ handler' = [p \in Topics |-> Idle]
    /\ flight' = None
    /\ client' = [c \in Clients |-> IF client[c].step = "check" THEN client[c]
                                    ELSE [client[c] EXCEPT !.step = "done"]]
    /\ buffered' = <<>> /\ undelivered' = undelivered \cup Buffered
    /\ UNCHANGED <<world, tables, requests, asked, unanswered, results, rows, run, batch>>

-----------------------------------------------------------------------------
(* The token enclave's consumer (backend/vault).                           *)

TokenizeRequested ==
    /\ asked <= Len(requests)
    /\ \/ /\ results' = Append(results, requests[asked]) /\ asked' = asked + 1
          /\ UNCHANGED <<unanswered, faults>>
       \/ Fault /\ results' = Append(results, requests[asked]) /\ UNCHANGED <<asked, unanswered>>
       \/ /\ Fault
          /\ unanswered' = unanswered \cup {requests[asked]} /\ asked' = asked + 1
          /\ UNCHANGED results
    /\ UNCHANGED <<topics, handler, tables, buffered, undelivered, requests, files, client>>

-----------------------------------------------------------------------------
(* Approval of a held intent: look, reserve, release, in four statements.  *)

GetHeldIntentForApproval(c) ==
    /\ client[c].step = "check"
    /\ \E i \in DOMAIN intents :
          /\ intents[i].state = "REQUIRES_REVIEW"
          /\ client' = [client EXCEPT ![c] = [step |-> "reserve", id |-> i]]
    /\ UNCHANGED <<topics, handler, tables, enclave, files, faults>>

ReserveForApproval(c) ==
    LET e == intents[client[c].id].event IN
    /\ client[c].step = "reserve"
    /\ usage' = Reserved(e)
    /\ client' = [client EXCEPT ![c].step = IF WithinDailyLimit(e) THEN "approve" ELSE "done"]
    /\ UNCHANGED <<topics, handler, intents, outbox, registry, dlq, receipts, enclave, files, faults>>

ApproveHeldIntent(c) ==
    LET i == client[c].id IN
    /\ \/ /\ client[c].step = "approve"
          /\ intents' = [intents EXCEPT ![i].state = "VALID", ![i].accepted = TRUE]
          /\ client' = [client EXCEPT ![c].step = "release"] /\ UNCHANGED outbox
       \/ /\ client[c].step = "release"
          /\ outbox' = [outbox EXCEPT ![i].state = "VALID", ![i].accepted = TRUE]
          /\ client' = [client EXCEPT ![c].step = "done"] /\ UNCHANGED intents
    /\ UNCHANGED <<topics, handler, registry, usage, dlq, receipts, enclave, files, faults>>

ApprovalFails(c) ==
    /\ client[c].step \notin {"check", "done"} /\ Fault
    /\ client' = [client EXCEPT ![c].step = "done"]
    /\ UNCHANGED <<topics, handler, tables, enclave, files>>

-----------------------------------------------------------------------------
Handle(p) ==
    \/ ConsumeClaim(p) \/ processIncomingIntent(p) \/ ProcessTokenizeResult(p)
    \/ RejectByPolicy(p) \/ FindByEnvelope(p) \/ ValidateParsed(p) \/ callEnclaveTokenize(p) \/ PublishTokenizeRequest(p)
    \/ CheckIdempotencyRegistry(p) \/ FindIntentID(p) \/ ReserveIfWithinLimit(p)
    \/ SaveIntent(p) \/ StoreSnapshot(p) \/ UpdateSnapshotRefs(p)
    \/ BatchAggregateGroup(p) \/ UpdateBatchAggregateConfidence(p) \/ AggregateReturns(p)
    \/ EnsureIngestRun(p) \/ InsertIngestRow(p) \/ CountIngestRows(p) \/ UpsertIngestRun(p)
    \/ PersistRejectedIntentDLQ(p) \/ RecordFailure(p)

Sweep == sweepProcessingToFailed \/ sweepRecoverableToFinal

Approve(c) ==
    GetHeldIntentForApproval(c) \/ ReserveForApproval(c) \/ ApproveHeldIntent(c)

Consumed == \A p \in Topics : position[p] > Len(Log(p))
Quiet ==
    /\ Consumed /\ buffered = <<>> /\ asked > Len(requests)
    /\ run.status \in {None, "COMPLETED", "FAILED_FINAL"}
    /\ UNCHANGED vars

Next ==
    \/ \E p \in Topics : Handle(p) \/ SaveIsUnanswered(p) \/ HandlerFails(p)
    \/ RefsAreLost \/ Restart \/ Sweep \/ SendBuffered \/ TokenizeRequested
    \/ \E c \in Clients : Approve(c) \/ ApprovalFails(c)
    \/ Quiet

(* Consumers, the producer and the enclave run, and so does the sweeper's  *)
(* ticker.                                                                 *)
Fairness ==
    /\ \A p \in Topics : WF_vars(Handle(p))
    /\ WF_vars(SendBuffered) /\ WF_vars(TokenizeRequested) /\ WF_vars(Sweep)

Spec == Init /\ [][Next]_vars /\ Fairness

-----------------------------------------------------------------------------
HasIntent(e) == \E i \in DOMAIN intents : intents[i].event = e
InFlight(e) ==
    \/ e \in Buffered
    \/ \E i \in asked..Len(requests) : requests[i] = e
    \/ \E i \in position["results"]..Len(results) : results[i] = e

(* A message that is marked has left a trace: its intent, a dead-letter    *)
(* row, a failure receipt, or a request the producer or the enclave has    *)
(* still in hand.  There is one way to lose it: Publish calls a request    *)
(* sent that the asynchronous producer only has in memory, and the broker  *)
(* refuses it or the process ends first (ConsumeClaim, the handlers,       *)
(* Publish and the enclave's consumer).                                    *)
NothingLost ==
    \A p \in Topics : \A i \in 1..position[p] - 1 :
        LET e == Log(p)[i] IN
        HasIntent(e) \/ e \in dlq \/ <<"event", e>> \in receipts \/ <<"result", e>> \in receipts
        \/ e \in unanswered \/ InFlight(e) \/ e \in undelivered

(* Of the intents with one business key at most one is not flagged as a    *)
(* duplicate, whatever ran between the registry check and Save; webhooks   *)
(* have no business key.                                                   *)
UnflaggedIsUnique ==
    \A i, j \in DOMAIN intents :
        /\ intents[i].state # "WEBHOOK" /\ intents[j].state # "WEBHOOK"
        /\ intents[i].key = intents[j].key
        /\ ~intents[i].dup /\ ~intents[j].dup
        => i = j

(* The units of money an owner stands for; a sum is the number of units.   *)
Units(owner, e) == {owner} \X (1..About[e].amount)
Accepted == {i \in DOMAIN intents : intents[i].accepted /\ ~intents[i].async}
AcceptedUnits == UNION {Units(i, intents[i].event) : i \in Accepted}

(* What the event consumers and approvals accept never exceeds what is     *)
(* reserved, and that never exceeds the tenant's daily limit, with retries *)
(* and two approvals of one intent (ReserveIfWithinLimit,                  *)
(* ApproveHeldIntent).  An intent made from an answer of the enclave       *)
(* reserves nothing (ProcessTokenizeResult never asks for the limit): it   *)
(* is not in Accepted, and the limit does not hold for it.                 *)
WithinLimit == Cardinality(AcceptedUnits) <= usage /\ usage <= DailyLimit

(* Every message is handled to its end, however its handler fails, every   *)
(* request is sent or dropped and every one sent is answered, and the      *)
(* file's run ends: completed, or given up by the sweeper (ConsumeClaim,   *)
(* UpsertIngestRun, SweepStuckIngestRuns).                                 *)
EverythingEnds ==
    <>[](Consumed /\ buffered = <<>> /\ asked > Len(requests)
           /\ run.status \in {None, "COMPLETED", "FAILED_FINAL"})
=============================================================================
