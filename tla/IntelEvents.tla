----------------------------- MODULE IntelEvents -----------------------------
(***************************************************************************)
(* How the intelligence service consumes its Kafka topics and counts every *)
(* event (backend/intel/kafka/consumer.go, event_receipt_repo.go).         *)
(*                                                                         *)
(* Each instance reads every topic in a goroutine of its own: fetch, check *)
(* the envelope, call the topic's handler, up to three times, store what   *)
(* still fails in the local DLQ table, commit the offset.  A handler runs  *)
(* its writes through EventReceiptRepo.RunOnce: one transaction with the   *)
(* event's row in event_receipts locked.  What the handlers write is in    *)
(* IntelProjections.                                                       *)
(*                                                                         *)
(* Readers are goroutines of different instances.  A rebalance hands the   *)
(* topic to another reader while the old one is still inside a handler.    *)
(* Faults (a statement that fails, a commit whose answer is lost, a crash, *)
(* an offset commit that fails, a rebalance) are limited by MaxFaults.     *)
(*                                                                         *)
(* Left out: the retries of RunOnce after a serialization failure (they    *)
(* leave nothing behind), leases of PROCESSING rows (the status is never   *)
(* committed, so SweepStaleLeases finds none), the legacy processed_events *)
(* copy, tracing.                                                          *)
(***************************************************************************)
EXTENDS IntelProjections, Sequences

CONSTANTS
    Topics,
    Logs,        \* what upstream may have published, topic by topic
    EventIds,
    Hashes,      \* payload hashes
    Certificates, NoCertificate,
    Readers,
    MaxLog,      \* bound: messages of a topic
    MaxFaults    \* bound: faults of a behaviour

MaxHandles == 3   \* calls of the handler before the message goes to the DLQ

(* A message carries its event and what the envelope check looks at.       *)
Gate == {"ok", "unknownVersion", "unapprovedLegacy", "missingField", "unparsable"}

Message == [event : EventIds, hash : Hashes, gate : Gate, ids : BOOLEAN,
            cert : Certificates \cup {NoCertificate}, body : Bodies]

ASSUME LogAssumption ==
    /\ \A log \in Logs : log \in [Topics -> Seq(Message)]
    /\ NoCertificate \notin Certificates
    /\ \A log \in Logs : \A t \in Topics : Len(log[t]) <= MaxLog
    /\ MaxLog \in Nat /\ MaxFaults \in Nat
    /\ Readers # {}

(* The payload hash is a SHA-256 over the message's bytes: it stands for   *)
(* one payload.                                                            *)
ASSUME HashAssumption ==
    \A log \in Logs : \A t, u \in Topics : \A i \in 1..Len(log[t]), j \in 1..Len(log[u]) :
        log[t][i].event = log[u][j].event /\ log[t][i].hash = log[u][j].hash =>
            log[t][i].body = log[u][j].body

(* The instance that is up first is assigned every topic.                  *)
FirstReader == CHOOSE r \in Readers : TRUE

NoReceipt == [status |-> "none", hash |-> "none"]

VARIABLES
    \* the database
    receipts,   \* event_receipts
    conflicts,  \* event_receipt_conflicts
    proj,       \* projection_state and batch_contracts
    finality,   \* processed_finality
    dlq,        \* intelligence_dlq_local_receipts, by topic and offset
    dlqTopic,   \* what reached the DLQ topic
    \* Kafka
    log,        \* the messages of every topic
    offset,     \* committed offsets
    owner,      \* which reader a topic is assigned to
    \* the readers
    pc,         \* per topic: idle, handle, checked, failed, dlq, post, commit
    pos,        \* the message being handled
    tries,
    faults,
    \* what happened, for the properties only
    applied,    \* how often the event's writes were committed
    redone      \* events whose committed receipt was turned into FAILED

dbVars == <<receipts, conflicts, proj, finality>>
readerVars == <<pc, pos, tries>>
ghosts == <<applied, redone>>
kafkaVars == <<log, offset, owner>>
vars == <<dbVars, dlq, dlqTopic, kafkaVars, readerVars, faults, ghosts>>

Places == Topics \X (1..MaxLog)

Published == {p \in Places : p[2] <= Len(log[p[1]])}

Status == {"PROCESSED", "CONFLICTED", "FAILED"}

TypeOK ==
    /\ receipts \in [EventIds -> {NoReceipt} \cup [status : Status, hash : Hashes]]
    /\ conflicts \subseteq EventIds
    /\ \A k \in DOMAIN proj : k[1] \in Row /\ proj[k] \in Nat
    /\ finality \subseteq Certificates
    /\ dlq \in [Places -> {"none", "pending", "replayed"}]
    /\ dlqTopic \subseteq Places
    /\ log \in Logs
    /\ offset \in [Topics -> Nat] /\ \A t \in Topics : offset[t] <= Len(log[t])
    /\ owner \in [Topics -> Readers]
    /\ pc \in [Readers -> [Topics ->
                 {"idle", "handle", "checked", "failed", "dlq", "post", "commit"}]]
    /\ pos \in [Readers -> [Topics -> Nat]]
    /\ tries \in [Readers -> [Topics -> 0..MaxHandles]]
    /\ faults \in 0..MaxFaults
    /\ applied \in [EventIds -> Nat]
    /\ redone \subseteq EventIds

Init ==
    /\ receipts = [e \in EventIds |-> NoReceipt] /\ conflicts = {}
    /\ proj = [k \in {} |-> 0] /\ finality = {}
    /\ dlq = [p \in Places |-> "none"] /\ dlqTopic = {}
    /\ log \in Logs
    /\ offset = [t \in Topics |-> 0]
    /\ owner = [t \in Topics |-> FirstReader]
    /\ pc = [r \in Readers |-> [t \in Topics |-> "idle"]]
    /\ pos = [r \in Readers |-> [t \in Topics |-> 0]]
    /\ tries = [r \in Readers |-> [t \in Topics |-> 0]]
    /\ faults = 0
    /\ applied = [e \in EventIds |-> 0] /\ redone = {}

Msg(r, t) == log[t][pos[r][t]]

Goto(r, t, step) == pc' = [pc EXCEPT ![r][t] = step]

Fault == faults < MaxFaults /\ faults' = faults + 1

-----------------------------------------------------------------------------
(* consumeSingleTopic.                                                     *)

(* FetchMessage and the envelope check: what fails it is not retried.      *)
FetchMessage(r, t) ==
    /\ pc[r][t] = "idle" /\ owner[t] = r
    /\ pos[r][t] < Len(log[t])
    /\ pos' = [pos EXCEPT ![r][t] = @ + 1]
    /\ tries' = [tries EXCEPT ![r][t] = 0]
    /\ Goto(r, t, IF log[t][pos[r][t] + 1].gate = "ok" THEN "handle" ELSE "dlq")
    /\ UNCHANGED <<dbVars, dlq, dlqTopic, kafkaVars, faults, ghosts>>

(* The handler's first lines: an event without the ids it needs is dropped *)
(* with a nil error, and a certificate already counted ends the handler.   *)
HandleGuards(r, t) ==
    LET m == Msg(r, t) IN
    /\ pc[r][t] = "handle"
    /\ tries' = [tries EXCEPT ![r][t] = @ + 1]
    /\ Goto(r, t, IF ~m.ids \/ m.cert \in finality THEN "commit" ELSE "checked")
    /\ UNCHANGED <<dbVars, dlq, dlqTopic, kafkaVars, pos, faults, ghosts>>

(* Another payload under an event id that was seen before.                 *)
Conflicts(m) == receipts[m.event] # NoReceipt /\ receipts[m.event].hash # m.hash

(* A fault: only a processed event is recognised.                          *)
DuplicateProcessed(m) == receipts[m.event].status = "PROCESSED"

Duplicate(m) == receipts[m.event].status \in {"PROCESSED", "CONFLICTED"}

(* The committed outcome of runOnceAttempt: conflict, duplicate, or the    *)
(* handler's writes and the PROCESSED receipt, all or nothing.             *)
runOnceAttempt(m) ==
    \/ /\ Conflicts(m)
       /\ conflicts' = conflicts \cup {m.event}
       /\ receipts' = [receipts EXCEPT ![m.event].status = "CONFLICTED"]
       /\ UNCHANGED <<proj, finality, applied>>
    \/ /\ ~Conflicts(m) /\ Duplicate(m)
       /\ UNCHANGED <<dbVars, applied>>
    \/ /\ ~Conflicts(m) /\ ~Duplicate(m)
       /\ proj' = Project(proj, m.body)
       /\ finality' = finality \cup ({m.cert} \ {NoCertificate})
       /\ receipts' = [receipts EXCEPT ![m.event] = [status |-> "PROCESSED", hash |-> m.hash]]
       /\ applied' = [applied EXCEPT ![m.event] = @ + 1]
       /\ UNCHANGED conflicts

Skipped(m) == Conflicts(m) \/ Duplicate(m)

(* RunOnce commits, and reports it.                                        *)
RunOnce(r, t) ==
    /\ pc[r][t] = "checked"
    /\ runOnceAttempt(Msg(r, t))
    /\ Goto(r, t, IF Skipped(Msg(r, t)) THEN "commit" ELSE "post")
    /\ UNCHANGED <<dlq, dlqTopic, kafkaVars, pos, tries, faults, redone>>

(* A fault: the writes are not part of the receipt's transaction, and a    *)
(* rollback leaves them.                                                   *)
RunOnceFailsHalfway(r, t) ==
    /\ pc[r][t] = "checked" /\ Fault
    /\ proj' = Project(proj, Msg(r, t).body)
    /\ Goto(r, t, "failed")
    /\ UNCHANGED <<receipts, conflicts, finality, applied, dlq, dlqTopic, kafkaVars, pos,
                   tries, redone>>

(* RunOnce fails: rolled back, or committed with the answer lost.          *)
RunOnceFails(r, t) ==
    /\ pc[r][t] = "checked" /\ Fault
    /\ \/ runOnceAttempt(Msg(r, t))
       \/ UNCHANGED <<dbVars, applied>>
    /\ Goto(r, t, "failed")
    /\ UNCHANGED <<dlq, dlqTopic, kafkaVars, pos, tries, redone>>

(* The handler is called again, or the message is given up.                *)
Retry(r, t) == Goto(r, t, IF tries[r][t] < MaxHandles THEN "handle" ELSE "dlq")

(* A fault: the failure is not written down, and the message is taken as   *)
(* handled.                                                                *)
markFailedForgets(r, t) ==
    /\ pc[r][t] = "failed"
    /\ Goto(r, t, "commit")
    /\ UNCHANGED <<dbVars, dlq, dlqTopic, kafkaVars, pos, tries, faults, ghosts>>

(* markFailed writes FAILED over whatever the receipt says, on a           *)
(* connection of its own; its own failure is only logged.                  *)
markFailed(r, t) ==
    LET m == Msg(r, t) IN
    /\ pc[r][t] = "failed"
    /\ \/ /\ receipts' = [receipts EXCEPT ![m.event] =
                [status |-> "FAILED",
                 hash |-> IF @ = NoReceipt THEN m.hash ELSE @.hash]]
          /\ redone' = IF Duplicate(m) THEN redone \cup {m.event} ELSE redone
          /\ UNCHANGED faults
       \/ Fault /\ UNCHANGED <<receipts, redone>>
    /\ Retry(r, t)
    /\ UNCHANGED <<conflicts, proj, finality, dlq, dlqTopic, kafkaVars, pos, tries,
                   applied>>

(* The writer is retried until it succeeds; only then the offset moves.    *)
InsertLocalDLQ(r, t) ==
    /\ pc[r][t] = "dlq"
    /\ dlq' = [dlq EXCEPT ![<<t, pos[r][t]>>] = "pending"]
    /\ Goto(r, t, "commit")
    /\ UNCHANGED <<dbVars, dlqTopic, kafkaVars, pos, tries, faults, ghosts>>

(* After the commit: timers, recomputed summaries, policies.  All of it is *)
(* best effort, and a redelivered event does not come here again.          *)
PostCommit(r, t) ==
    /\ pc[r][t] = "post"
    /\ Goto(r, t, "commit")
    /\ UNCHANGED <<dbVars, dlq, dlqTopic, kafkaVars, pos, tries, faults, ghosts>>

(* A reader that lost the topic cannot commit; an error is only logged.    *)
CommitMessages(r, t) ==
    /\ pc[r][t] = "commit"
    /\ \/ /\ owner[t] = r
          /\ offset' = [offset EXCEPT ![t] = pos[r][t]]
          /\ UNCHANGED faults
       \/ owner[t] # r /\ UNCHANGED <<offset, faults>>
       \/ owner[t] = r /\ Fault /\ UNCHANGED offset
    /\ Goto(r, t, "idle")
    /\ UNCHANGED <<dbVars, dlq, dlqTopic, log, owner, pos, tries, ghosts>>

(* The new reader starts at the committed offset.                          *)
Rebalance(r, t) ==
    /\ owner[t] # r /\ Fault
    /\ pc[r][t] = "idle"
    /\ owner' = [owner EXCEPT ![t] = r]
    /\ pos' = [pos EXCEPT ![r][t] = offset[t]]
    /\ UNCHANGED <<dbVars, dlq, dlqTopic, log, offset, pc, tries, ghosts>>

(* The instance dies; restarted, it reads from the committed offsets.      *)
Crash(r) ==
    /\ Fault
    /\ pc' = [pc EXCEPT ![r] = [t \in Topics |-> "idle"]]
    /\ pos' = [pos EXCEPT ![r] = offset]
    /\ UNCHANGED <<dbVars, dlq, dlqTopic, kafkaVars, tries, ghosts>>

-----------------------------------------------------------------------------
(* A fault: the row is marked before the message is published.             *)
ReplayMarksFirst(p) ==
    /\ dlq[p] = "pending"
    /\ dlq' = [dlq EXCEPT ![p] = "replayed"]
    /\ \/ dlqTopic' = dlqTopic \cup {p} /\ UNCHANGED faults
       \/ Fault /\ UNCHANGED dlqTopic
    /\ UNCHANGED <<dbVars, kafkaVars, readerVars, ghosts>>

(* IntelligenceDLQReplayWorker: publish and mark, or fail and try again.   *)
Replay(p) ==
    /\ dlq[p] = "pending"
    /\ dlqTopic' = dlqTopic \cup {p}
    /\ \/ dlq' = [dlq EXCEPT ![p] = "replayed"] /\ UNCHANGED faults
       \/ Fault /\ UNCHANGED dlq
    /\ UNCHANGED <<dbVars, kafkaVars, readerVars, ghosts>>

-----------------------------------------------------------------------------
Handle(r, t) ==
    \/ FetchMessage(r, t) \/ HandleGuards(r, t) \/ RunOnce(r, t)
    \/ markFailed(r, t) \/ InsertLocalDLQ(r, t) \/ PostCommit(r, t)
    \/ CommitMessages(r, t)

Next ==
    \/ \E r \in Readers, t \in Topics :
          Handle(r, t) \/ RunOnceFails(r, t) \/ Rebalance(r, t)
    \/ \E r \in Readers : Crash(r)
    \/ \E p \in Places : Replay(p)

(* A reader goes on as long as it runs, and the replay worker ticks.       *)
Fairness ==
    /\ \A r \in Readers, t \in Topics : WF_vars(Handle(r, t))
    /\ WF_vars(\E p \in Places : Replay(p))

Spec == Init /\ [][Next]_vars /\ Fairness

-----------------------------------------------------------------------------
Accounted(t, i) ==
    LET m == log[t][i] IN
    \/ applied[m.event] > 0
    \/ m.event \in conflicts
    \/ dlq[<<t, i>>] # "none"
    \/ ~m.ids
    \/ m.cert \in finality

(* An offset is committed only past messages that are accounted for: their *)
(* event is counted, or was in conflict, or the message is in the local    *)
(* DLQ, or the handler drops it for want of ids or because its certificate *)
(* is counted already.                                                     *)
NothingLost == \A t \in Topics : \A i \in 1..offset[t] : Accounted(t, i)

(* The messages whose event has a PROCESSED receipt.                       *)
Processed ==
    {m \in {log[p[1]][p[2]] : p \in Published} :
        receipts[m.event] = [status |-> "PROCESSED", hash |-> m.hash]}

(* What they add to a counter, each event and each of its writes once, in  *)
(* single units.                                                           *)
CountedUnits(k) ==
    UNION {UNION {{<<<<m.event, w>>, n>> : n \in 1..w[3]} :
                     w \in {v \in EventWrites[m.body] : v[1] = k /\ v[2] = "add"}} :
              m \in Processed}

(* A counter says what the receipts say: the sum over the events with a    *)
(* PROCESSED receipt, once each, whatever was redelivered, retried, rolled *)
(* back or handled by two readers at once, as long as no receipt that was  *)
(* final has been overwritten with FAILED.  Conflicting events may have    *)
(* been counted before their conflict, totals and absolute values are not  *)
(* sums, and the pending counter is cut off at zero.                       *)
CountersMatchReceipts ==
    redone = {} /\ conflicts = {} =>
        \A k \in DOMAIN proj :
            (k[2] \notin {"total", "pending"} /\ k[1][1] # "health") =>
                proj[k] = Cardinality(CountedUnits(k))

(* An event is counted a second time only after its final receipt was      *)
(* overwritten: markFailed is the only way to count an event twice.        *)
CountedOnce ==
    \A e \in EventIds : applied[e] > 1 => e \in redone

(* consistency_check.go: for every counter of the BothScopes methods the   *)
(* tenant's daily rows and the batches' lifetime rows have the same sum,   *)
(* at every committed instant, events without a batch included.            *)
TenantIsSumOfBatches ==
    \A f \in {k[2] : k \in {j \in DOMAIN proj : j[1][1] \in {"tenant", "batch"}}} :
        Cardinality(RowUnits(proj, "tenant", f)) = Cardinality(RowUnits(proj, "batch", f))

(* Every message is eventually accounted for, whatever fails on the way,   *)
(* and what was stored in the local DLQ reaches the DLQ topic.             *)
EverythingIsAccounted ==
    <>(\A p \in Published : Accounted(p[1], p[2]) /\ (dlq[p] # "none" => p \in dlqTopic))
=============================================================================
