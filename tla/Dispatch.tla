------------------------------ MODULE Dispatch ------------------------------
(***************************************************************************)
(* The relay's payout dispatch pipeline (backend/relay/services):          *)
(* dispatch_loop.go, dispatch_repo.go, retry_sweeper.go and                *)
(* recovery_sweeper.go.                                                    *)
(*                                                                         *)
(* Every relay instance runs three kinds of goroutine against one          *)
(* database: a Kafka worker (processEvent), the retry sweeper and the      *)
(* recovery sweeper.  A contract's payout has one row in `dispatches';     *)
(* every status change is one transaction with the event it enqueues in    *)
(* relay_outbox.  The PSP is external: it keeps at most one payout per     *)
(* reference (the reference is the provider idempotency key) and a request *)
(* that timed out or whose caller died may still reach it later.           *)
(*                                                                         *)
(* FindRetryable and the recovery sweeper's SELECT ... FOR UPDATE SKIP     *)
(* LOCKED run outside a transaction, so the row locks are gone when the    *)
(* rows are used: picking a row locks nothing here.                        *)
(***************************************************************************)
EXTENDS Integers, FiniteSets

CONSTANTS
    Instances,      \* relay processes sharing the database
    Runners,        \* their goroutines: <<instance, role>>
    Contracts,      \* payouts to dispatch, one Kafka message each
    Tampered,       \* contracts whose message fails the payload hash check
    Unrouted,       \* contracts for which no connector is configured
    Threshold,      \* PSPCircuitBreakerThreshold
    MaxIds,         \* bound: dispatch ids that can be minted
    MaxDeliveries,  \* bound: deliveries of one Kafka message
    MaxFaults,      \* bound: database writes and PSP queries that fail
    MaxCrashes      \* bound: crashes of an instance

Roles == {"kafka", "retry", "recovery"}

ASSUME DispatchAssumption ==
    /\ Runners \subseteq Instances \X Roles
    /\ "none" \notin Contracts
    /\ Tampered \subseteq Contracts
    /\ Unrouted \subseteq Contracts
    /\ Threshold \in Nat \ {0}
    /\ MaxIds \in Nat
    /\ MaxDeliveries \in Nat
    /\ MaxFaults \in Nat
    /\ MaxCrashes \in Nat

Ids == 1 .. MaxIds
NoId == 0

DispatchStatus ==
    {"PENDING", "HELD", "SENT", "PROVIDER_ACKED", "AWAITING_PROVIDER_SIGNAL",
     "FAILED_RETRYABLE", "FAILED_TERMINAL"}

(* model/dispatch.go: REQUIRES_MANUAL_REVIEW is the third one, but         *)
(* evaluateGovernance never decides it.                                    *)
Terminal == {"PROVIDER_ACKED", "FAILED_TERMINAL"}

EventTypes ==
    {"DispatchCreated", "DispatchGovernanceEvaluated", "AttemptSent",
     "ProviderAcked", "DispatchAwaitingProviderSignal", "DispatchFailed",
     "DispatchRetryScheduled"}

Steps ==
    {"idle", "find", "insert", "govern", "detokenize", "send", "wait", "ack",
     "markRetryable", "markTerminal", "markAwaiting",
     "query", "recoverAck", "recoverRetry"}

VARIABLES
    \* the database
    status,     \* dispatches.status of a contract, "NONE" when it has no row
    did,        \* its dispatch_id
    outbox,     \* the types of the events enqueued for it
    conflicts,  \* contracts with a row in relay_payload_conflicts
    nextId,     \* dispatch ids minted and stored so far
    \* Kafka
    taken,      \* contracts whose processEvent has returned true
    deliveries, \* how often a contract's message has been delivered
    \* the PSP
    payout,     \* the payout held per contract and reference
    late,       \* requests whose caller is gone but which may still arrive
    \* the instances
    cbFailures, cbOpen,  \* the circuit breaker
    pc,         \* the step a runner is about to take
    work,       \* the contract a runner works on
    ref,        \* the dispatch_id it holds in memory
    \* budgets of the environment
    faults, crashes

dbVars == <<status, did, outbox, conflicts, nextId>>
kafkaVars == <<taken, deliveries>>
pspVars == <<payout, late>>
cbVars == <<cbFailures, cbOpen>>
memVars == <<work, ref>>
envVars == <<faults, crashes>>
vars == <<dbVars, kafkaVars, pspVars, cbVars, pc, memVars, envVars>>

TypeOK ==
    /\ status \in [Contracts -> DispatchStatus \cup {"NONE"}]
    /\ did \in [Contracts -> Ids \cup {NoId}]
    /\ outbox \in [Contracts -> SUBSET EventTypes]
    /\ conflicts \subseteq Contracts
    /\ nextId \in 1 .. (MaxIds + 1)
    /\ taken \subseteq Contracts
    /\ deliveries \in [Contracts -> 0 .. MaxDeliveries]
    /\ payout \in [Contracts \X Ids -> {"none", "live", "failed"}]
    /\ late \subseteq Contracts \X Ids
    /\ cbFailures \in [Instances -> 0 .. Threshold]
    /\ cbOpen \in [Instances -> BOOLEAN]
    /\ pc \in [Runners -> Steps]
    /\ work \in [Runners -> Contracts \cup {"none"}]
    /\ ref \in [Runners -> Ids \cup {NoId}]
    /\ faults \in 0 .. MaxFaults
    /\ crashes \in 0 .. MaxCrashes

Init ==
    /\ status = [c \in Contracts |-> "NONE"]
    /\ did = [c \in Contracts |-> NoId]
    /\ outbox = [c \in Contracts |-> {}]
    /\ conflicts = {}
    /\ nextId = 1
    /\ taken = {}
    /\ deliveries = [c \in Contracts |-> 0]
    /\ payout = [x \in Contracts \X Ids |-> "none"]
    /\ late = {}
    /\ cbFailures = [i \in Instances |-> 0]
    /\ cbOpen = [i \in Instances |-> FALSE]
    /\ pc = [r \in Runners |-> "idle"]
    /\ work = [r \in Runners |-> "none"]
    /\ ref = [r \in Runners |-> NoId]
    /\ faults = MaxFaults
    /\ crashes = MaxCrashes

-----------------------------------------------------------------------------
(* Building blocks of the steps.                                           *)

Goto(r, step) == pc' = [pc EXCEPT ![r] = step]

Forget(r) ==
    /\ pc' = [pc EXCEPT ![r] = "idle"]
    /\ work' = [work EXCEPT ![r] = "none"]
    /\ ref' = [ref EXCEPT ![r] = NoId]

(* The runner is done with its contract; processEvent returns true, which  *)
(* lets the consumer mark the message's offset.                            *)
Finish(r) ==
    /\ Forget(r)
    /\ taken' = IF r[2] = "kafka" THEN taken \cup {work[r]} ELSE taken

(* A transient failure of the database or of a PSP query.                  *)
Fault == faults > 0 /\ faults' = faults - 1

NoFault == UNCHANGED faults

(* One committed transaction: a status update with its outbox event.       *)
Commit(c, s, event) ==
    /\ status' = [status EXCEPT ![c] = s]
    /\ outbox' = [outbox EXCEPT ![c] = @ \cup {event}]
    /\ UNCHANGED <<did, conflicts, nextId>>

-----------------------------------------------------------------------------
(* processEvent                                                            *)

(* A message whose payload hash is right goes on to Step 1.                *)
Deliver(r, c) ==
    /\ pc[r] = "idle" /\ r[2] = "kafka"
    /\ c \notin Tampered
    /\ deliveries[c] < MaxDeliveries
    /\ deliveries' = [deliveries EXCEPT ![c] = @ + 1]
    /\ work' = [work EXCEPT ![r] = c]
    /\ Goto(r, "find")
    /\ UNCHANGED <<dbVars, taken, pspVars, cbVars, ref, envVars>>

(* verifyDispatchPayloadHash found a mismatch (or, with the database down, *)
(* could not record it): either way the offset is given up.                *)
DeliverTampered(r, c) ==
    /\ pc[r] = "idle" /\ r[2] = "kafka"
    /\ c \in Tampered
    /\ deliveries[c] < MaxDeliveries
    /\ deliveries' = [deliveries EXCEPT ![c] = @ + 1]
    /\ taken' = taken \cup {c}
    /\ \/ conflicts' = conflicts \cup {c} /\ NoFault
       \/ Fault /\ UNCHANGED conflicts
    /\ UNCHANGED <<status, did, outbox, nextId, pspVars, cbVars, pc, memVars, crashes>>

(* Step 1, idempotency check: a resolved dispatch ends here, an unresolved *)
(* one is run again from Step 1.5.                                         *)
FindByContractAndAttempt(r) ==
    LET c == work[r] IN
    /\ pc[r] = "find"
    /\ UNCHANGED <<dbVars, deliveries, pspVars, cbVars, crashes>>
    /\ \/ /\ status[c] = "NONE"
          /\ Goto(r, "insert")
          /\ NoFault /\ UNCHANGED <<memVars, taken>>
       \/ /\ status[c] \in Terminal
          /\ Finish(r) /\ NoFault
       \/ /\ status[c] \notin Terminal \cup {"NONE"}
          /\ ref' = [ref EXCEPT ![r] = did[c]]
          /\ Goto(r, "govern")
          /\ NoFault /\ UNCHANGED <<work, taken>>
       \/ Forget(r) /\ Fault /\ UNCHANGED taken

(* A fault: processEvent returns true although the insert failed.          *)
InsertFailsSilently(r) ==
    /\ pc[r] = "insert"
    /\ Finish(r) /\ Fault
    /\ UNCHANGED <<dbVars, deliveries, pspVars, cbVars, crashes>>

(* Step 1, DispatchCreated: the unique index on (contract_id,              *)
(* attempt_count) refuses a second row; a failed insert returns false.     *)
InsertDispatch(r) ==
    LET c == work[r] IN
    /\ pc[r] = "insert"
    /\ UNCHANGED <<conflicts, kafkaVars, pspVars, cbVars, crashes>>
    /\ \/ /\ status[c] = "NONE"
          /\ nextId \in Ids
          /\ status' = [status EXCEPT ![c] = "PENDING"]
          /\ did' = [did EXCEPT ![c] = nextId]
          /\ outbox' = [outbox EXCEPT ![c] = @ \cup {"DispatchCreated"}]
          /\ nextId' = nextId + 1
          /\ ref' = [ref EXCEPT ![r] = nextId]
          /\ Goto(r, "govern")
          /\ NoFault /\ UNCHANGED work
       \/ /\ status[c] # "NONE"
          /\ Forget(r) /\ NoFault
          /\ UNCHANGED <<status, did, outbox, nextId>>
       \/ /\ Forget(r) /\ Fault
          /\ UNCHANGED <<status, did, outbox, nextId>>

-----------------------------------------------------------------------------
(* runSteps2to5                                                            *)

(* A fault: the decision is written whatever the row's status.             *)
MarkGovernanceAlways(c, s) == Commit(c, s, "DispatchGovernanceEvaluated")

(* MarkGovernanceDecisionTx: only a PENDING row takes the decision's       *)
(* status; the event is written regardless.                                *)
MarkGovernanceDecision(c, s) ==
    Commit(c, IF status[c] = "PENDING" THEN s ELSE status[c],
           "DispatchGovernanceEvaluated")

(* recordPSPSuccess, and circuitOpen once the reset time has passed.       *)
CloseCircuit(i) ==
    /\ cbFailures' = [cbFailures EXCEPT ![i] = 0]
    /\ cbOpen' = [cbOpen EXCEPT ![i] = FALSE]

(* circuitOpen returned false: a dispatch without connector fails for      *)
(* good, any other one is allowed.                                         *)
EvaluateGovernance(r) ==
    LET c == work[r] IN
    \/ /\ c \in Unrouted
       /\ MarkGovernanceDecision(c, "FAILED_TERMINAL")
       /\ Finish(r)
    \/ /\ c \notin Unrouted
       /\ MarkGovernanceDecision(c, "PENDING")
       /\ Goto(r, "detokenize")
       /\ UNCHANGED <<memVars, taken>>

(* Step 1.5: an open circuit breaker holds the dispatch until its reset    *)
(* time has passed; a failed write abandons the dispatch where it is.      *)
Govern(r) ==
    LET i == r[1] IN
    /\ pc[r] = "govern"
    /\ UNCHANGED <<deliveries, pspVars, crashes>>
    /\ \/ ~cbOpen[i] /\ EvaluateGovernance(r) /\ NoFault /\ UNCHANGED cbVars
       \/ cbOpen[i] /\ EvaluateGovernance(r) /\ NoFault /\ CloseCircuit(i)
       \/ /\ cbOpen[i]
          /\ MarkGovernanceDecision(work[r], "HELD")
          /\ Finish(r) /\ NoFault /\ UNCHANGED cbVars
       \/ Finish(r) /\ Fault /\ UNCHANGED <<dbVars, cbVars>>

(* Step 2: the token service answers, fails, or knows no beneficiary.      *)
Detokenize(r) ==
    /\ pc[r] = "detokenize"
    /\ \E step \in {"send", "markRetryable", "markTerminal"} : Goto(r, step)
    /\ UNCHANGED <<dbVars, kafkaVars, pspVars, cbVars, memVars, envVars>>

(* The statuses MarkSentTx and MarkProviderAckedTx update.                 *)
SendableStatus == {"PENDING", "FAILED_RETRYABLE"}
AckableStatus == {"SENT"}

(* Step 3, MarkSentTx with AttemptSent: the crash-recovery anchor, written *)
(* before the PSP call.  Any failure goes to markFailedRetryable.          *)
MarkSent(r) ==
    LET c == work[r] IN
    /\ pc[r] = "send"
    /\ UNCHANGED <<kafkaVars, pspVars, cbVars, memVars, crashes>>
    /\ \/ /\ status[c] \in SendableStatus
          /\ Commit(c, "SENT", "AttemptSent")
          /\ Goto(r, "wait") /\ NoFault
       \/ /\ status[c] \notin SendableStatus
          /\ Goto(r, "markRetryable") /\ NoFault
          /\ UNCHANGED dbVars
       \/ /\ Goto(r, "markRetryable") /\ Fault
          /\ UNCHANGED dbVars

-----------------------------------------------------------------------------
(* Step 4: the PSP call.  While a runner waits its request may be accepted *)
(* at any time; PSPAccepts is the PSP's own step.                          *)

Accepted(c, d) ==
    payout' = [payout EXCEPT ![<<c, d>>] = IF @ = "none" THEN "live" ELSE @]

PSPAccepts(r) ==
    /\ pc[r] = "wait"
    /\ payout[<<work[r], ref[r]>>] = "none"
    /\ Accepted(work[r], ref[r])
    /\ UNCHANGED <<dbVars, kafkaVars, late, cbVars, pc, memVars, envVars>>

RecordPSPFailure(i) ==
    /\ cbFailures' = [cbFailures EXCEPT ![i] = IF @ < Threshold THEN @ + 1 ELSE @]
    /\ cbOpen' = [cbOpen EXCEPT ![i] = @ \/ cbFailures[i] + 1 >= Threshold]

(* HTTP 2xx: the payout (a new one, or the one already held for this       *)
(* reference) is acknowledged and the circuit breaker closes.              *)
PSPAnswersOk(r) ==
    /\ pc[r] = "wait"
    /\ Accepted(work[r], ref[r])
    /\ CloseCircuit(r[1])
    /\ Goto(r, "ack")
    /\ UNCHANGED <<dbVars, kafkaVars, late, memVars, envVars>>

(* classifyPSPError: 4xx, the PSP refused and holds nothing.               *)
PSPRejects(r) ==
    /\ pc[r] = "wait"
    /\ payout[<<work[r], ref[r]>>] = "none"
    /\ RecordPSPFailure(r[1])
    /\ Goto(r, "markTerminal")
    /\ UNCHANGED <<dbVars, kafkaVars, pspVars, memVars, envVars>>

(* A fault: a 5xx answer taken for an acknowledgement.                     *)
PSPFailureAcked(r) ==
    /\ pc[r] = "wait"
    /\ RecordPSPFailure(r[1])
    /\ Goto(r, "ack")
    /\ UNCHANGED <<dbVars, kafkaVars, pspVars, memVars, envVars>>

(* 5xx and unknown errors are retried, whether or not the PSP kept the     *)
(* payout.                                                                 *)
PSPFails(r) ==
    /\ pc[r] = "wait"
    /\ RecordPSPFailure(r[1])
    /\ Goto(r, "markRetryable")
    /\ UNCHANGED <<dbVars, kafkaVars, pspVars, memVars, envVars>>

(* Timeout, dropped connection or cancelled context: uncertain; the        *)
(* request may still be on its way.                                        *)
PSPTimesOut(r) ==
    /\ pc[r] = "wait"
    /\ RecordPSPFailure(r[1])
    /\ late' = late \cup {<<work[r], ref[r]>>}
    /\ Goto(r, "markAwaiting")
    /\ UNCHANGED <<dbVars, kafkaVars, payout, memVars, envVars>>

(* Step 5, MarkProviderAckedTx: only a SENT row; any failure falls back to *)
(* markAwaitingProviderSignal.                                             *)
Ack(r) ==
    LET c == work[r] IN
    /\ pc[r] = "ack"
    /\ UNCHANGED <<deliveries, pspVars, cbVars, crashes>>
    /\ \/ /\ status[c] \in AckableStatus
          /\ Commit(c, "PROVIDER_ACKED", "ProviderAcked")
          /\ Finish(r) /\ NoFault
       \/ /\ status[c] \notin AckableStatus
          /\ Goto(r, "markAwaiting") /\ NoFault
          /\ UNCHANGED <<dbVars, memVars, taken>>
       \/ /\ Goto(r, "markAwaiting") /\ Fault
          /\ UNCHANGED <<dbVars, memVars, taken>>

(* markFailedRetryable, markFailedTerminal, markAwaitingProviderSignal:    *)
(* unconditional updates; if the write itself fails nothing is changed.    *)
Mark(r, step, s, event) ==
    /\ pc[r] = step
    /\ Finish(r)
    /\ UNCHANGED <<deliveries, pspVars, cbVars, crashes>>
    /\ \/ Commit(work[r], s, event) /\ NoFault
       \/ UNCHANGED dbVars /\ Fault

MarkFailedRetryable(r) ==
    Mark(r, "markRetryable", "FAILED_RETRYABLE", "DispatchFailed")

MarkFailedTerminal(r) ==
    Mark(r, "markTerminal", "FAILED_TERMINAL", "DispatchFailed")

MarkAwaitingProviderSignal(r) ==
    Mark(r, "markAwaiting", "AWAITING_PROVIDER_SIGNAL",
         "DispatchAwaitingProviderSignal")

-----------------------------------------------------------------------------
(* The rows dispatch_repo.FindRetryable returns once their backoff is over.*)
Retryable(c) == status[c] = "FAILED_RETRYABLE"

(* A fault: every retry mints a new reference for the PSP.                 *)
RetryMintsReference(r, c) ==
    /\ pc[r] = "idle" /\ r[2] = "retry"
    /\ Retryable(c)
    /\ nextId \in Ids
    /\ work' = [work EXCEPT ![r] = c]
    /\ ref' = [ref EXCEPT ![r] = nextId]
    /\ did' = [did EXCEPT ![c] = nextId]
    /\ nextId' = nextId + 1
    /\ Goto(r, "govern")
    /\ UNCHANGED <<status, outbox, conflicts, kafkaVars, pspVars, cbVars, envVars>>

(* RetrySweeper.sweep: a retryable row is read and run again from Step 1.5 *)
FindRetryable(r, c) ==
    /\ pc[r] = "idle" /\ r[2] = "retry"
    /\ Retryable(c)
    /\ work' = [work EXCEPT ![r] = c]
    /\ ref' = [ref EXCEPT ![r] = did[c]]
    /\ Goto(r, "govern")
    /\ UNCHANGED <<dbVars, kafkaVars, pspVars, cbVars, envVars>>

(* RecoverySweeper: SentTimeoutSecs and AwaitingTimeoutSecs exceed the PSP *)
(* timeout, so nobody is still inside a PSP call for a row that old.       *)
PastTimeout(c) == \A r \in Runners : pc[r] = "wait" => work[r] # c

(* A fault: one of the two recovery categories is forgotten.               *)
StuckWithoutSent == {"AWAITING_PROVIDER_SIGNAL"}

StuckStatus == {"SENT", "AWAITING_PROVIDER_SIGNAL"}

FindStuck(r, c) ==
    /\ pc[r] = "idle" /\ r[2] = "recovery"
    /\ status[c] \in StuckStatus
    /\ PastTimeout(c)
    /\ work' = [work EXCEPT ![r] = c]
    /\ ref' = [ref EXCEPT ![r] = did[c]]
    /\ Goto(r, "query")
    /\ UNCHANGED <<dbVars, kafkaVars, pspVars, cbVars, envVars>>

(* resolveViaQuery: what the PSP holds for the reference decides; a failed *)
(* query leaves the row for the next sweep.                                *)
QueryByReference(r) ==
    /\ pc[r] = "query"
    /\ UNCHANGED <<dbVars, kafkaVars, pspVars, cbVars, crashes>>
    /\ \/ /\ Goto(r, CASE payout[<<work[r], ref[r]>>] = "live" -> "recoverAck"
                      [] payout[<<work[r], ref[r]>>] = "failed" -> "markTerminal"
                      [] OTHER -> "recoverRetry")
          /\ NoFault /\ UNCHANGED memVars
       \/ Forget(r) /\ Fault

(* Live at the PSP: the same MarkProviderAckedTx as in Step 5, so only a   *)
(* SENT row is updated; otherwise the transaction is rolled back.          *)
RecoverAck(r) ==
    LET c == work[r] IN
    /\ pc[r] = "recoverAck"
    /\ Forget(r)
    /\ UNCHANGED <<kafkaVars, pspVars, cbVars, crashes>>
    /\ \/ /\ status[c] \in AckableStatus
          /\ Commit(c, "PROVIDER_ACKED", "ProviderAcked") /\ NoFault
       \/ status[c] \notin AckableStatus /\ UNCHANGED dbVars /\ NoFault
       \/ UNCHANGED dbVars /\ Fault

(* No record at the PSP: scheduled for a retry.                            *)
RecoverRetry(r) ==
    Mark(r, "recoverRetry", "FAILED_RETRYABLE", "DispatchRetryScheduled")

-----------------------------------------------------------------------------
(* The environment.                                                        *)

(* A request whose caller gave up or died reaches the PSP, or is lost.     *)
LateRequest(c, d) ==
    /\ <<c, d>> \in late
    /\ late' = late \ {<<c, d>>}
    /\ Accepted(c, d) \/ UNCHANGED payout
    /\ UNCHANGED <<dbVars, kafkaVars, cbVars, pc, memVars, envVars>>

(* A payout the PSP holds fails or is reversed.                            *)
PayoutFails(c, d) ==
    /\ payout[<<c, d>>] = "live"
    /\ payout' = [payout EXCEPT ![<<c, d>>] = "failed"]
    /\ UNCHANGED <<dbVars, kafkaVars, late, cbVars, pc, memVars, envVars>>

(* An instance dies: its goroutines and its circuit breaker are gone, its  *)
(* requests on the wire are not.                                           *)
Crash(i) ==
    LET Dead == {r \in Runners : r[1] = i} IN
    /\ crashes > 0
    /\ \E r \in Dead : pc[r] # "idle"
    /\ crashes' = crashes - 1
    /\ late' = late \cup {<<work[r], ref[r]>> : r \in {s \in Dead : pc[s] = "wait"}}
    /\ pc' = [r \in Runners |-> IF r \in Dead THEN "idle" ELSE pc[r]]
    /\ work' = [r \in Runners |-> IF r \in Dead THEN "none" ELSE work[r]]
    /\ ref' = [r \in Runners |-> IF r \in Dead THEN NoId ELSE ref[r]]
    /\ CloseCircuit(i)
    /\ UNCHANGED <<dbVars, kafkaVars, payout, faults>>

-----------------------------------------------------------------------------
(* What a runner does with the contract it holds.                          *)
PSPAnswers(r) ==
    PSPAnswersOk(r) \/ PSPRejects(r) \/ PSPFails(r) \/ PSPTimesOut(r)

RunnerStep(r) ==
    \/ FindByContractAndAttempt(r) \/ InsertDispatch(r)
    \/ Govern(r) \/ Detokenize(r) \/ MarkSent(r) \/ PSPAnswers(r) \/ Ack(r)
    \/ MarkFailedRetryable(r) \/ MarkFailedTerminal(r)
    \/ MarkAwaitingProviderSignal(r)
    \/ QueryByReference(r) \/ RecoverAck(r) \/ RecoverRetry(r)

Next ==
    \/ \E r \in Runners :
          \/ RunnerStep(r)
          \/ PSPAccepts(r)
          \/ \E c \in Contracts :
                Deliver(r, c) \/ DeliverTampered(r, c)
                \/ FindRetryable(r, c) \/ FindStuck(r, c)
    \/ \E c \in Contracts, d \in Ids : LateRequest(c, d) \/ PayoutFails(c, d)
    \/ \E i \in Instances : Crash(i)

Spec == Init /\ [][Next]_vars

(* Goroutines run, calls return (every client has a timeout), the tickers  *)
(* of both sweepers keep firing and a sweep takes a due row.               *)
Fairness ==
    /\ \A r \in Runners : WF_vars(RunnerStep(r))
    /\ \A r \in {x \in Runners : x[2] = "retry"} :
          SF_vars(\E c \in Contracts : FindRetryable(r, c))
    /\ \A r \in {x \in Runners : x[2] = "recovery"} :
          SF_vars(\E c \in Contracts : FindStuck(r, c))

FairSpec == Spec /\ Fairness

-----------------------------------------------------------------------------
(* Money may have moved for a contract: a request is out, may still        *)
(* arrive, or the PSP holds a payout.                                      *)
MayHaveMoved(c) ==
    \/ \E r \in Runners : pc[r] = "wait" /\ work[r] = c
    \/ \E d \in Ids : <<c, d>> \in late \/ payout[<<c, d>>] # "none"

(* The crash-recovery anchor of Step 3: as soon as money may have moved,   *)
(* AttemptSent is on record and the row has left the statuses that say     *)
(* nothing was sent, whatever crashes and other runners do to it.          *)
PaymentAnchored ==
    \A c \in Contracts : MayHaveMoved(c) =>
        /\ status[c] \notin {"NONE", "PENDING", "HELD"}
        /\ "AttemptSent" \in outbox[c]

(* However often a message is redelivered and a dispatch retried, every    *)
(* request for a contract carries one and the same reference, so the PSP   *)
(* never holds two payouts for it.                                         *)
AtMostOnePayout ==
    \A c \in Contracts : \A d, e \in Ids :
        payout[<<c, d>>] # "none" /\ payout[<<c, e>>] # "none" => d = e

(* A ProviderAcked event, from Step 5 or from recovery, is only ever       *)
(* emitted for a payout the PSP holds under the dispatch's reference.      *)
AckedIsHeld ==
    \A c \in Contracts :
        status[c] = "PROVIDER_ACKED" \/ "ProviderAcked" \in outbox[c] =>
            did[c] \in Ids /\ payout[<<c, did[c]>>] # "none"

(* processEvent returns true for a sound message only after its dispatch   *)
(* row is in the database: an offset can be committed without losing the   *)
(* payout.                                                                 *)
TakenIsStored ==
    \A c \in taken \ Tampered :
        status[c] # "NONE" /\ "DispatchCreated" \in outbox[c]

(* Not in the middle of a call, and not waiting for the signal of a payout *)
(* nobody holds.                                                           *)
Settled(c) ==
    /\ status[c] # "SENT"
    /\ \/ status[c] # "AWAITING_PROVIDER_SIGNAL"
       \/ \E d \in Ids : payout[<<c, d>>] # "none"

(* The gaps recovery_sweeper.go closes, as far as it does: a dispatch that *)
(* was sent to the PSP always comes back to a settled state, whatever died *)
(* between Step 3 and Step 5.  Tampered and unrouted contracts are never   *)
(* sent.                                                                   *)
CallsAreResolved ==
    \A c \in Contracts \ (Tampered \cup Unrouted) : []<>Settled(c)
=============================================================================
