---------------------------- MODULE IntelActions ----------------------------
(***************************************************************************)
(* What the intelligence service does about what it sees: policies create  *)
(* action contracts, people approve or dismiss them, the actuation outbox  *)
(* delivers them, and the SLA worker escalates overdue payouts             *)
(* (backend/intel/internal/services, internal/worker).                     *)
(*                                                                         *)
(* Every service instance runs an outbox worker and an SLA worker; events  *)
(* and cron evaluate policies concurrently.  A transaction is one step,    *)
(* everything read before it is kept by the process and may be stale.      *)
(* Faults (a statement, a publish or an answer that fails, a crash) are    *)
(* limited by MaxFaults.                                                   *)
(*                                                                         *)
(* An action's identity is the idempotency key: policy, trigger and input  *)
(* facts.  The input of an SLA escalation holds the seconds overdue.       *)
(***************************************************************************)
EXTENDS Integers, FiniteSets

CONSTANTS
    Policies,      \* policies; NeedsApproval are those a person must release
    NeedsApproval,
    Actuating,     \* policies whose decision is one of needsActuation
    Triggers,      \* events and the cron tick
    Facts,         \* evaluation contexts
    Alarming,      \* those that make the policies fire
    Intents,
    Worlds,        \* which policies are registered and which payouts arrive
    None,          \* no row, no status, nothing to do
    SLA,           \* P_SLA_BREACH, decision ESCALATE
    Evaluators, Operators, Instances,
    MaxAttempts,   \* deliveries of an outbox row; 5 in outbox_repo.go
    MaxOverdue,    \* bound: how late a payout may be observed to be
    MaxFaults      \* bound: faults of a behaviour

ASSUME ActionAssumption ==
    /\ SLA \notin Policies /\ NeedsApproval \subseteq Policies
    /\ Actuating \subseteq Policies /\ Alarming \subseteq Facts
    /\ Worlds \subseteq [policies : SUBSET Policies, intents : SUBSET Intents]
    /\ MaxAttempts \in Nat \ {0} /\ MaxOverdue \in Nat /\ MaxFaults \in Nat

PolicyKeys == Policies \X Triggers \X Facts
AlertKeys == {SLA} \X Intents \X (1..MaxOverdue)
Keys == PolicyKeys \cup AlertKeys

VARIABLES
    world,
    contracts,  \* action_contracts: status by idempotency key
    fresh,      \* contracts created within the cooldown
    decisions,  \* action_contract_decisions: <<key, decision>>, in order of no matter
    outbox,     \* actuation_outbox, one row per contract at most
    timers,     \* sla_timers
    overdue,    \* how far the deadline has passed; 0 is not
    eval,       \* evaluators: the key about to be created
    oper,       \* operators: the decision about to be written
    flight,     \* outbox workers: what is done with a fetched row
    alarm,      \* SLA workers: the timers fetched
    intent,     \* handlers of the intent's events: what was committed
    published,  \* the actuation topics
    dlq,        \* the outbox DLQ topic
    faults

dbVars == <<contracts, fresh, decisions, outbox>>
slaVars == <<timers, overdue, intent>>
topics == <<published, dlq>>
vars == <<world, dbVars, slaVars, eval, oper, flight, alarm, topics, faults>>

NoRow == [status |-> None, attempts |-> 0, due |-> FALSE, dead |-> FALSE]
NewRow == [status |-> "PENDING", attempts |-> 0, due |-> TRUE, dead |-> FALSE]
Rows == [status : {"PENDING", "SENT", "FAILED"}, attempts : Nat, due : BOOLEAN, dead : BOOLEAN]

Statuses == {"ACTIVE", "PENDING_APPROVAL", "APPROVED", "DISMISSED", "EXPIRED"}

Deliverable == {"ACTIVE", "APPROVED"}

Steps == {"publish", "sent", "failed", "dead", "deadSent"}

ASSUME NoneAssumption ==
    /\ None \notin Statuses \cup Steps \cup {"PENDING", "SENT", "FAILED", "ACTIVE", "BREACHED", "RESOLVED"}
    /\ None \notin Keys \cup (Keys \X {"APPROVED", "DISMISSED"})

(* A PENDING row has attempts left, a FAILED one has none, and an action   *)
(* is dead-lettered only after its last attempt, whichever instance marks  *)
(* the row in between (MarkFailed, deadLetter).                            *)
AttemptsAreUsed ==
    \A k \in Keys :
        /\ outbox[k].status = "PENDING" => outbox[k].attempts < MaxAttempts
        /\ outbox[k].status = "FAILED" \/ outbox[k].dead \/ k \in dlq
              => outbox[k].attempts >= MaxAttempts

(* The types of tables, topics and what workers and operators have in      *)
(* hand, and what the attempts of an outbox row tell.                      *)
TypeOK ==
    /\ world \in Worlds
    /\ contracts \in [Keys -> Statuses \cup {None}]
    /\ fresh \subseteq {k \in Keys : contracts[k] # None}
    /\ decisions \subseteq Keys \X {"APPROVED", "DISMISSED"}
    /\ outbox \in [Keys -> {NoRow} \cup Rows]
    /\ AttemptsAreUsed
    /\ timers \in [Intents -> {None, "ACTIVE", "RESOLVED", "BREACHED"}]
    /\ overdue \in [Intents -> 0..MaxOverdue]
    /\ eval \in [Evaluators -> PolicyKeys \cup {None}]
    /\ oper \in [Operators -> (Keys \X {"APPROVED", "DISMISSED"}) \cup {None}]
    /\ flight \in [Instances -> [Keys -> Steps \cup {None}]]
    /\ alarm \in [Instances -> [step : {"idle", "create", "mark"}, todo : SUBSET Intents]]
    /\ intent \in [Intents -> SUBSET {"created", "final"}]
    /\ published \subseteq Keys /\ dlq \subseteq Keys
    /\ faults \in 0..MaxFaults

Init ==
    /\ world \in Worlds
    /\ contracts = [k \in Keys |-> None] /\ fresh = {} /\ decisions = {}
    /\ outbox = [k \in Keys |-> NoRow]
    /\ timers = [i \in Intents |-> None] /\ overdue = [i \in Intents |-> 0]
    /\ eval = [x \in Evaluators |-> None] /\ oper = [o \in Operators |-> None]
    /\ flight = [w \in Instances |-> [k \in Keys |-> None]]
    /\ alarm = [w \in Instances |-> [step |-> "idle", todo |-> {}]]
    /\ intent = [i \in Intents |-> {}]
    /\ published = {} /\ dlq = {} /\ faults = 0

Fault == faults < MaxFaults /\ faults' = faults + 1

-----------------------------------------------------------------------------
(* Policies.                                                               *)

(* A contract of the policy that still stands, created in the last 30      *)
(* minutes.                                                                *)
HasRecentAction(p) ==
    \E k \in fresh : k[1] = p /\ contracts[k] \notin {"DISMISSED", "EXPIRED"}

(* evaluateOne up to the cooldown check; a check that fails does not stop  *)
(* it.                                                                     *)
evaluateOne(x, p, trigger, facts) ==
    /\ eval[x] = None
    /\ facts \in Alarming
    /\ \/ ~HasRecentAction(p) /\ UNCHANGED faults
       \/ HasRecentAction(p) /\ Fault
    /\ eval' = [eval EXCEPT ![x] = <<p, trigger, facts>>]
    /\ UNCHANGED <<world, dbVars, slaVars, oper, flight, alarm, topics>>

(* The contract if its key is new, and the outbox row of an action nobody  *)
(* has to approve, in one transaction.                                     *)
InsertIfNew(k, needsApproval, needsActuation) ==
    IF contracts[k] # None THEN UNCHANGED <<contracts, fresh, outbox>>
    ELSE /\ contracts' = [contracts EXCEPT
                            ![k] = IF needsApproval THEN "PENDING_APPROVAL" ELSE "ACTIVE"]
         /\ fresh' = fresh \cup {k}
         /\ outbox' = IF needsActuation /\ ~needsApproval
                      THEN [outbox EXCEPT ![k] = NewRow] ELSE outbox

CreateAction(x) ==
    LET k == eval[x] IN
    /\ k # None
    /\ \/ /\ InsertIfNew(k, k[1] \in NeedsApproval, k[1] \in Actuating)
          /\ UNCHANGED faults
       \/ Fault /\ UNCHANGED <<contracts, fresh, outbox>>
    /\ eval' = [eval EXCEPT ![x] = None]
    /\ UNCHANGED <<world, decisions, slaVars, oper, flight, alarm, topics>>

(* Half an hour without a new action.                                      *)
CooldownElapses ==
    /\ fresh # {} /\ fresh' = {}
    /\ UNCHANGED <<world, contracts, decisions, outbox, slaVars, eval, oper, flight, alarm,
                   topics, faults>>

-----------------------------------------------------------------------------
(* Operators.                                                              *)

(* GetByID and the check of the status, outside the transaction.           *)
GetByID(o, k, decision) ==
    /\ oper[o] = None
    /\ contracts[k] = "PENDING_APPROVAL"
    /\ oper' = [oper EXCEPT ![o] = <<k, decision>>]
    /\ UNCHANGED <<world, dbVars, slaVars, eval, flight, alarm, topics, faults>>

(* A fault: the status read before the transaction is trusted.             *)
UpdateStatusBlindly(k) == contracts[k] # None

(* WHERE contract_status = 'PENDING_APPROVAL'.                             *)
UpdateStatusTx(k) == contracts[k] = "PENDING_APPROVAL"

(* ApproveAction and DismissAction: status, outbox row and decision record *)
(* or nothing.                                                             *)
Decide(o) ==
    LET k == oper[o][1] decision == oper[o][2] IN
    /\ oper[o] # None
    /\ \/ /\ UpdateStatusTx(k)
          /\ contracts' = [contracts EXCEPT ![k] = decision]
          /\ outbox' = IF decision = "APPROVED" THEN [outbox EXCEPT ![k] = NewRow] ELSE outbox
          /\ decisions' = decisions \cup {oper[o]}
          /\ UNCHANGED faults
       \/ ~UpdateStatusTx(k) /\ UNCHANGED <<contracts, outbox, decisions, faults>>
       \/ UpdateStatusTx(k) /\ Fault /\ UNCHANGED <<contracts, outbox, decisions>>
    /\ oper' = [oper EXCEPT ![o] = None]
    /\ UNCHANGED <<world, fresh, slaVars, eval, flight, alarm, topics>>

-----------------------------------------------------------------------------
(* The outbox worker: runOnce and, for every row fetched, deliver.         *)

Busy(w) == \E k \in Keys : flight[w][k] # None

(* What nobody has decided on within 24 hours.                             *)
MarkExpiredContracts ==
    /\ \E K \in SUBSET {k \in Keys \ fresh : contracts[k] = "PENDING_APPROVAL"} \ {{}} :
          contracts' = [k \in Keys |-> IF k \in K THEN "EXPIRED" ELSE contracts[k]]
    /\ UNCHANGED <<world, fresh, decisions, outbox, slaVars, eval, oper, flight, alarm, topics,
                   faults>>

(* A fault: a row whose attempts are used up is not looked at again.       *)
ReadyPending(k) ==
    /\ outbox[k].status = "PENDING" /\ ~outbox[k].dead /\ outbox[k].due
    /\ contracts[k] \in Deliverable

Ready(k) ==
    /\ outbox[k].status \in {"PENDING", "FAILED"} /\ ~outbox[k].dead /\ outbox[k].due
    /\ contracts[k] \in Deliverable

(* FOR UPDATE SKIP LOCKED outside a transaction: the locks are gone when   *)
(* the rows are read, and another instance fetches them too.               *)
FetchPending(w) ==
    /\ ~Busy(w)
    /\ \E k \in Keys : Ready(k)
    /\ flight' = [flight EXCEPT ![w] = [k \in Keys |->
            IF ~Ready(k) THEN None
            ELSE IF outbox[k].status = "FAILED" THEN "dead" ELSE "publish"]]
    /\ UNCHANGED <<world, dbVars, slaVars, eval, oper, alarm, topics, faults>>

Then(w, k, step) == flight' = [flight EXCEPT ![w][k] = step]

(* A fault: the row is marked whatever the publish returned.               *)
PublishUnchecked(w, k) ==
    /\ flight[w][k] = "publish"
    /\ \/ published' = published \cup {k} /\ UNCHANGED faults
       \/ Fault /\ UNCHANGED published
    /\ Then(w, k, "sent")
    /\ UNCHANGED <<world, dbVars, slaVars, eval, oper, alarm, dlq>>

(* A failed publish may have reached the topic.                            *)
Publish(w, k) ==
    /\ flight[w][k] = "publish"
    /\ \/ published' = published \cup {k} /\ Then(w, k, "sent") /\ UNCHANGED faults
       \/ Fault /\ Then(w, k, "failed")
          /\ \/ UNCHANGED published
             \/ published' = published \cup {k}
    /\ UNCHANGED <<world, dbVars, slaVars, eval, oper, alarm, dlq>>

(* Whatever the status is by now; an error is only logged.                 *)
MarkSent(w, k) ==
    /\ flight[w][k] = "sent"
    /\ \/ outbox' = [outbox EXCEPT ![k].status = "SENT"] /\ UNCHANGED faults
       \/ Fault /\ UNCHANGED outbox
    /\ Then(w, k, None)
    /\ UNCHANGED <<world, contracts, fresh, decisions, slaVars, eval, oper, alarm, topics>>

(* A fault: the last attempt is one too many.                              *)
FailedRowLate(row) ==
    IF row.attempts + 1 > MaxAttempts
    THEN [row EXCEPT !.attempts = @ + 1, !.status = "FAILED"]
    ELSE [row EXCEPT !.attempts = @ + 1, !.due = FALSE]

(* attempts + 1; the last one fails the row, whatever its status is by     *)
(* now, and any other waits for its backoff.                               *)
FailedRow(row) ==
    IF row.attempts + 1 >= MaxAttempts
    THEN [row EXCEPT !.attempts = @ + 1, !.status = "FAILED"]
    ELSE [row EXCEPT !.attempts = @ + 1, !.due = FALSE]

MarkFailed(w, k) ==
    /\ flight[w][k] = "failed"
    /\ \/ /\ outbox' = [outbox EXCEPT ![k] = FailedRow(@)]
          /\ Then(w, k, IF FailedRow(outbox[k]).status = "FAILED" THEN "dead" ELSE None)
          /\ UNCHANGED faults
       \/ Fault /\ Then(w, k, None) /\ UNCHANGED outbox
    /\ UNCHANGED <<world, contracts, fresh, decisions, slaVars, eval, oper, alarm, topics>>

(* deadLetter: publish, then mark; the next tick repeats what fails.       *)
DeadLetter(w, k) ==
    /\ flight[w][k] = "dead"
    /\ \/ dlq' = dlq \cup {k} /\ Then(w, k, "deadSent") /\ UNCHANGED faults
       \/ Fault /\ Then(w, k, None) /\ UNCHANGED dlq
    /\ UNCHANGED <<world, dbVars, slaVars, eval, oper, alarm, published>>

MarkDeadLettered(w, k) ==
    /\ flight[w][k] = "deadSent"
    /\ \/ outbox' = [outbox EXCEPT ![k].dead = TRUE] /\ UNCHANGED faults
       \/ Fault /\ UNCHANGED outbox
    /\ Then(w, k, None)
    /\ UNCHANGED <<world, contracts, fresh, decisions, slaVars, eval, oper, alarm, topics>>

BackoffElapses(k) ==
    /\ outbox[k].status # None /\ ~outbox[k].due
    /\ outbox' = [outbox EXCEPT ![k].due = TRUE]
    /\ UNCHANGED <<world, contracts, fresh, decisions, slaVars, eval, oper, flight, alarm, topics,
                   faults>>

-----------------------------------------------------------------------------
(* SLA timers.                                                             *)

(* HandleIntentCreated has committed; the timer follows after the commit   *)
(* and may be lost.  ON CONFLICT DO NOTHING.                               *)
SeedTimer(i) ==
    /\ "created" \notin intent[i]
    /\ intent' = [intent EXCEPT ![i] = @ \cup {"created"}]
    /\ \/ timers' = [timers EXCEPT ![i] = IF @ = None THEN "ACTIVE" ELSE @] /\ UNCHANGED faults
       \/ Fault /\ UNCHANGED timers
    /\ UNCHANGED <<world, dbVars, overdue, eval, oper, flight, alarm, topics>>

(* HandleFinalityCertIssued has committed, perhaps before the intent.      *)
ResolveTimer(i) ==
    /\ "final" \notin intent[i]
    /\ intent' = [intent EXCEPT ![i] = @ \cup {"final"}]
    /\ \/ timers' = [timers EXCEPT ![i] = IF @ = "ACTIVE" THEN "RESOLVED" ELSE @]
          /\ UNCHANGED faults
       \/ Fault /\ UNCHANGED timers
    /\ UNCHANGED <<world, dbVars, overdue, eval, oper, flight, alarm, topics>>

TimePasses(i) ==
    /\ overdue[i] < MaxOverdue
    /\ overdue' = [overdue EXCEPT ![i] = @ + 1]
    /\ UNCHANGED <<world, dbVars, timers, intent, eval, oper, flight, alarm, topics, faults>>

FetchBreachedTimers(w) ==
    LET breached == {i \in Intents : timers[i] = "ACTIVE" /\ overdue[i] > 0} IN
    /\ alarm[w].step = "idle" /\ breached # {}
    /\ alarm' = [alarm EXCEPT ![w] = [step |-> "create", todo |-> breached]]
    /\ UNCHANGED <<world, dbVars, slaVars, eval, oper, flight, topics, faults>>

Done(w, i) ==
    LET rest == alarm[w].todo \ {i} IN
    alarm' = [alarm EXCEPT ![w] = [step |-> IF rest = {} THEN "idle" ELSE "create",
                                   todo |-> rest]]

(* handleBreach, first the escalation; if it fails the timer stays ACTIVE. *)
Escalate(w) ==
    LET i == CHOOSE j \in alarm[w].todo : TRUE IN
    /\ alarm[w].step = "create"
    /\ \/ /\ InsertIfNew(<<SLA, i, overdue[i]>>, FALSE, TRUE)
          /\ alarm' = [alarm EXCEPT ![w].step = "mark"]
          /\ UNCHANGED faults
       \/ Fault /\ Done(w, i) /\ UNCHANGED <<contracts, fresh, outbox>>
    /\ UNCHANGED <<world, decisions, slaVars, eval, oper, flight, topics>>

(* Then the timer, whatever its status is by now.                          *)
MarkBreached(w) ==
    LET i == CHOOSE j \in alarm[w].todo : TRUE IN
    /\ alarm[w].step = "mark"
    /\ \/ timers' = [timers EXCEPT ![i] = "BREACHED"] /\ UNCHANGED faults
       \/ Fault /\ UNCHANGED timers
    /\ Done(w, i)
    /\ UNCHANGED <<world, dbVars, overdue, intent, eval, oper, flight, topics>>

-----------------------------------------------------------------------------
(* An instance restarts: its workers forget what they had fetched.         *)
Crash(w) ==
    /\ Busy(w) \/ alarm[w].step # "idle"
    /\ Fault
    /\ flight' = [flight EXCEPT ![w] = [k \in Keys |-> None]]
    /\ alarm' = [alarm EXCEPT ![w] = [step |-> "idle", todo |-> {}]]
    /\ UNCHANGED <<world, dbVars, slaVars, eval, oper, topics>>

Deliver(w) ==
    \/ FetchPending(w)
    \/ \E k \in Keys : \/ Publish(w, k) \/ MarkSent(w, k) \/ MarkFailed(w, k)
                       \/ DeadLetter(w, k) \/ MarkDeadLettered(w, k)

Watch(w) == FetchBreachedTimers(w) \/ Escalate(w) \/ MarkBreached(w)

Next ==
    \/ \E x \in Evaluators : \/ CreateAction(x)
                             \/ \E p \in world.policies, t \in Triggers, f \in Facts :
                                   evaluateOne(x, p, t, f)
    \/ CooldownElapses
    \/ \E o \in Operators : \/ Decide(o)
                            \/ \E k \in PolicyKeys, d \in {"APPROVED", "DISMISSED"} :
                                  GetByID(o, k, d)
    \/ MarkExpiredContracts
    \/ \E w \in Instances : Deliver(w) \/ Watch(w) \/ Crash(w)
    \/ \E k \in Keys : BackoffElapses(k)
    \/ \E i \in world.intents : SeedTimer(i) \/ ResolveTimer(i) \/ TimePasses(i)

(* The workers tick for ever and a backoff ends.                           *)
Fairness ==
    /\ \A w \in Instances : WF_vars(Deliver(w)) /\ WF_vars(Watch(w))
    /\ \A k \in Keys : WF_vars(BackoffElapses(k))

Spec == Init /\ [][Next]_vars /\ Fairness

-----------------------------------------------------------------------------
(* Nothing is published for a contract that waits, was dismissed or has    *)
(* expired, and none of that can still happen to one that was published;   *)
(* the decision records tell what became of every contract, and exactly    *)
(* the actions that may be delivered have an outbox row, however           *)
(* operators, expiry, creation and delivery interleave and fail.           *)
OnlyReleasedActions ==
    \A k \in Keys :
        /\ k \in published \cup dlq => contracts[k] \in Deliverable
        /\ {d \in {"APPROVED", "DISMISSED"} : <<k, d>> \in decisions} =
              {contracts[k]} \cap {"APPROVED", "DISMISSED"}
        /\ outbox[k] # NoRow <=>
              \/ contracts[k] = "APPROVED"
              \/ contracts[k] = "ACTIVE" /\ k[1] \in Actuating \cup {SLA}

(* A status is true: what is SENT reached its topic, what is dead-lettered *)
(* reached the DLQ, and a BREACHED timer has been escalated.               *)
StatusIsTrue ==
    /\ \A k \in Keys : /\ outbox[k].status = "SENT" => k \in published
                       /\ outbox[k].dead => k \in dlq
    /\ \A i \in Intents : timers[i] = "BREACHED" =>
          \E n \in 1..MaxOverdue : contracts[<<SLA, i, n>>] # None

(* Every outbox row is delivered or dead-lettered in the end, also one     *)
(* whose dead-lettering failed, and no overdue timer stays ACTIVE.         *)
EverythingEnds ==
    /\ \A k \in Keys : outbox[k] # NoRow ~> (outbox[k].status = "SENT" \/ outbox[k].dead)
    /\ \A i \in Intents : timers[i] = "ACTIVE" /\ overdue[i] > 0 ~> timers[i] # "ACTIVE"
=============================================================================
