-------------------------- MODULE IntelActionsProofs --------------------------
(***************************************************************************)
(* Proofs about IntelActions for any policies, facts, payouts, operators   *)
(* and service instances, any number of attempts and of faults: its type,  *)
(* that only released actions are delivered, and that the statuses in the  *)
(* database are true.                                                      *)
(***************************************************************************)
EXTENDS IntelActions, TLAPS

(* What a worker is delivering has an outbox row, what it is about to mark *)
(* has been published, and what it dead-letters has no attempts left.      *)
InFlight ==
    \A w \in Instances, k \in Keys :
        /\ flight[w][k] # None => outbox[k] # NoRow
        /\ flight[w][k] = "sent" => k \in published
        /\ flight[w][k] = "deadSent" => k \in dlq
        /\ flight[w][k] \in {"dead", "deadSent"} => outbox[k].attempts >= MaxAttempts

(* The timer an SLA worker is at, and whether its payout was escalated.    *)
Target(w) == CHOOSE j \in alarm[w].todo : TRUE
Escalated(i) == \E n \in 1..MaxOverdue : contracts[<<SLA, i, n>>] # None

(* A working SLA worker has overdue timers, and marks after escalating.    *)
Alarmed ==
    \A w \in Instances :
        /\ alarm[w].step # "idle" => alarm[w].todo # {}
        /\ \A i \in alarm[w].todo : overdue[i] > 0
        /\ alarm[w].step = "mark" => Escalated(Target(w))

IInv ==
    /\ TypeOK
    /\ InFlight
    /\ Alarmed
    /\ OnlyReleasedActions
    /\ StatusIsTrue

-----------------------------------------------------------------------------
(* A policy's key and an escalation's key never are the same.              *)
LEMMA KeyFacts ==
    /\ \A k \in PolicyKeys : k \in Keys /\ k[1] \in Policies /\ k[1] # SLA
    /\ \A i \in Intents, n \in 1..MaxOverdue : <<SLA, i, n>> \in Keys
  BY ActionAssumption DEF Keys, PolicyKeys, AlertKeys

(* What tells the rows of the outbox apart.                                *)
LEMMA RowFacts ==
    /\ NewRow \in Rows /\ NoRow \notin Rows
    /\ NoRow.status = None /\ NoRow.attempts = 0 /\ NoRow.dead = FALSE
    /\ NewRow.status = "PENDING" /\ NewRow.attempts = 0 /\ NewRow.dead = FALSE
  BY NoneAssumption DEF NewRow, NoRow, Rows

(* The invariant holds initially.                                          *)
LEMMA IInvInit == Init => IInv
<1> SUFFICES ASSUME Init PROVE IInv
  OBVIOUS
<1>1. TypeOK
  BY ActionAssumption, NoneAssumption, RowFacts DEF Init, TypeOK, AttemptsAreUsed
<1>2. InFlight
  BY NoneAssumption DEF Init, InFlight, Steps
<1>3. Alarmed
  BY DEF Init, Alarmed
<1>4. OnlyReleasedActions
  BY NoneAssumption DEF Init, OnlyReleasedActions, Statuses
<1>5. StatusIsTrue
  BY NoneAssumption, RowFacts DEF Init, StatusIsTrue
<1>. QED
  BY <1>1, <1>2, <1>3, <1>4, <1>5 DEF IInv

-----------------------------------------------------------------------------
(* InsertIfNew, called by a policy or for an escalation: a contract that   *)
(* exists stays as it is, a new one gets a row if it may be delivered.     *)
LEMMA InsertStep ==
    ASSUME TypeOK, OnlyReleasedActions, StatusIsTrue,
           NEW k \in Keys, NEW needsApproval \in BOOLEAN, NEW needsActuation \in BOOLEAN,
           InsertIfNew(k, needsApproval, needsActuation),
           ~needsApproval => (needsActuation <=> k[1] \in Actuating \cup {SLA}),
           UNCHANGED <<decisions, topics, timers>>
    PROVE  /\ contracts' \in [Keys -> Statuses \cup {None}]
           /\ contracts'[k] # None
           /\ \A j \in Keys : contracts[j] # None => contracts'[j] # None
           /\ fresh' \subseteq {j \in Keys : contracts'[j] # None}
           /\ outbox' \in [Keys -> {NoRow} \cup Rows]
           /\ AttemptsAreUsed'
           /\ \A j \in Keys : outbox[j] # NoRow => outbox'[j] = outbox[j]
           /\ OnlyReleasedActions'
           /\ StatusIsTrue'
<1>1. CASE contracts[k] # None
  <2>1. UNCHANGED <<contracts, fresh, outbox, decisions, published, dlq, timers>>
    BY <1>1 DEF InsertIfNew, topics
  <2>2. OnlyReleasedActions' /\ StatusIsTrue'
    BY <2>1 DEF OnlyReleasedActions, StatusIsTrue
  <2>. QED
    BY <1>1, <2>1, <2>2 DEF TypeOK, AttemptsAreUsed
<1>2. CASE contracts[k] = None
  <2> DEFINE s == IF needsApproval THEN "PENDING_APPROVAL" ELSE "ACTIVE"
  <2>1. /\ contracts' = [contracts EXCEPT ![k] = s]
        /\ fresh' = fresh \cup {k}
        /\ outbox' = IF needsActuation /\ ~needsApproval
                     THEN [outbox EXCEPT ![k] = NewRow] ELSE outbox
        /\ UNCHANGED <<decisions, published, dlq, timers>>
    BY <1>2 DEF InsertIfNew, topics
  <2>2. s \in Statuses /\ s # None /\ s \notin {"APPROVED", "DISMISSED"}
    BY NoneAssumption DEF Statuses
  <2>3. /\ contracts' \in [Keys -> Statuses \cup {None}] /\ contracts'[k] = s
        /\ \A j \in Keys \ {k} : contracts'[j] = contracts[j] /\ outbox'[j] = outbox[j]
    BY <2>1, <2>2 DEF TypeOK
  <2>4. outbox[k] = NoRow /\ k \notin published \cup dlq
    BY <1>2, NoneAssumption DEF OnlyReleasedActions, Deliverable, Statuses
  <2>5. outbox'[k] = IF needsActuation /\ ~needsApproval THEN NewRow ELSE NoRow
    BY <2>1, <2>4 DEF TypeOK
  <2>6. outbox' \in [Keys -> {NoRow} \cup Rows]
    BY <2>1, RowFacts DEF TypeOK
  <2>7. AttemptsAreUsed'
    BY <2>1, <2>3, <2>4, <2>5, RowFacts, ActionAssumption, NoneAssumption DEF TypeOK, AttemptsAreUsed
  <2>8. OnlyReleasedActions'
    <3> SUFFICES ASSUME NEW j \in Keys
                 PROVE  /\ j \in published \cup dlq => contracts'[j] \in Deliverable
                        /\ {d \in {"APPROVED", "DISMISSED"} : <<j, d>> \in decisions} =
                              {contracts'[j]} \cap {"APPROVED", "DISMISSED"}
                        /\ outbox'[j] # NoRow <=>
                              \/ contracts'[j] = "APPROVED"
                              \/ contracts'[j] = "ACTIVE" /\ j[1] \in Actuating \cup {SLA}
      BY <2>1 DEF OnlyReleasedActions
    <3>1. CASE j = k
      <4>1. {d \in {"APPROVED", "DISMISSED"} : <<k, d>> \in decisions} = {}
        BY <1>2, NoneAssumption DEF OnlyReleasedActions, Statuses
      <4>2. NewRow # NoRow
        BY RowFacts
      <4>. QED
        BY <2>2, <2>3, <2>4, <2>5, <3>1, <4>1, <4>2
    <3>2. CASE j # k
      BY <2>3, <3>2 DEF OnlyReleasedActions
    <3>. QED
      BY <3>1, <3>2
  <2>9. StatusIsTrue'
    <3>1. \A j \in Keys : (outbox'[j].status = "SENT" => j \in published') /\ (outbox'[j].dead => j \in dlq')
      BY <2>1, <2>3, <2>5, RowFacts, NoneAssumption DEF StatusIsTrue
    <3>2. \A i \in Intents : timers'[i] = "BREACHED" =>
              \E n \in 1..MaxOverdue : contracts'[<<SLA, i, n>>] # None
      BY <2>1, <2>2, <2>3, KeyFacts DEF StatusIsTrue
    <3>. QED
      BY <3>1, <3>2 DEF StatusIsTrue
  <2>. QED
    BY <1>2, <2>1, <2>2, <2>3, <2>4, <2>6, <2>7, <2>8, <2>9 DEF TypeOK
<1>. QED
  BY <1>1, <1>2

(* Faults are counted up to their bound.                                   *)
LEMMA FaultStep ==
    ASSUME TypeOK, Fault \/ UNCHANGED faults
    PROVE  faults' \in 0..MaxFaults
  BY ActionAssumption DEF TypeOK, Fault

(* What the evaluators and the operators remember is no part of the rest.  *)
LEMMA MemoryStep ==
    ASSUME IInv, faults' \in 0..MaxFaults, fresh' \subseteq fresh,
           UNCHANGED <<world, contracts, decisions, outbox, slaVars, flight, alarm, topics>>,
           eval' \in [Evaluators -> PolicyKeys \cup {None}],
           oper' \in [Operators -> (Keys \X {"APPROVED", "DISMISSED"}) \cup {None}]
    PROVE  IInv'
<1> USE DEF slaVars, topics
<1>1. TypeOK'
  BY DEF IInv, TypeOK, AttemptsAreUsed
<1>2. InFlight'
  BY DEF IInv, InFlight
<1>3. Alarmed'
  BY DEF IInv, Alarmed, Escalated, Target
<1>4. OnlyReleasedActions' /\ StatusIsTrue'
  BY DEF IInv, OnlyReleasedActions, StatusIsTrue
<1>. QED
  BY <1>1, <1>2, <1>3, <1>4 DEF IInv

(* evaluateOne decides on a key and CooldownElapses forgets the recent.    *)
LEMMA EvaluateStep ==
    ASSUME IInv, NEW x \in Evaluators, NEW p \in world.policies, NEW t \in Triggers, NEW f \in Facts,
           evaluateOne(x, p, t, f)
    PROVE  IInv'
<1>1. p \in Policies
  BY ActionAssumption DEF IInv, TypeOK
<1>2. eval' \in [Evaluators -> PolicyKeys \cup {None}]
  BY <1>1 DEF IInv, TypeOK, evaluateOne, PolicyKeys
<1>3. faults' \in 0..MaxFaults
  BY FaultStep DEF IInv, evaluateOne
<1>4. oper' \in [Operators -> (Keys \X {"APPROVED", "DISMISSED"}) \cup {None}]
  BY DEF IInv, TypeOK, evaluateOne
<1>. QED
  BY <1>2, <1>3, <1>4, MemoryStep DEF evaluateOne, dbVars

(* CreateAction inserts what its evaluator decided on.                     *)
LEMMA CreateStep ==
    ASSUME IInv, NEW x \in Evaluators, CreateAction(x)
    PROVE  IInv'
<1> DEFINE k == eval[x]
<1>1. k \in PolicyKeys /\ k \in Keys /\ k[1] # SLA
  BY KeyFacts DEF IInv, TypeOK, CreateAction
<1>2. faults' \in 0..MaxFaults
  BY FaultStep DEF IInv, CreateAction
<1>3. eval' \in [Evaluators -> PolicyKeys \cup {None}]
  BY DEF IInv, TypeOK, CreateAction
<1>4. CASE InsertIfNew(k, k[1] \in NeedsApproval, k[1] \in Actuating)
  <2>1. /\ contracts' \in [Keys -> Statuses \cup {None}]
        /\ \A j \in Keys : contracts[j] # None => contracts'[j] # None
        /\ fresh' \subseteq {j \in Keys : contracts'[j] # None}
        /\ outbox' \in [Keys -> {NoRow} \cup Rows]
        /\ AttemptsAreUsed'
        /\ \A j \in Keys : outbox[j] # NoRow => outbox'[j] = outbox[j]
        /\ OnlyReleasedActions'
        /\ StatusIsTrue'
    <3> DEFINE approval == k[1] \in NeedsApproval
               actuation == k[1] \in Actuating
    <3>1. approval \in BOOLEAN /\ actuation \in BOOLEAN
      OBVIOUS
    <3>2. actuation <=> (k[1] \in Actuating \cup {SLA})
      BY <1>1
    <3>3. UNCHANGED <<decisions, topics, timers>>
      BY DEF CreateAction, slaVars
    <3>4. InsertIfNew(k, approval, actuation)
      BY <1>4
    <3>. HIDE DEF k, approval, actuation
    <3>. QED
      BY <1>1, <3>1, <3>2, <3>3, <3>4, InsertStep DEF IInv
  <2>2. TypeOK'
    BY <1>2, <1>3, <2>1 DEF IInv, TypeOK, CreateAction, slaVars, topics
  <2>3. InFlight'
    BY <2>1, NoneAssumption DEF IInv, InFlight, CreateAction, topics, Steps
  <2>4. Alarmed'
    <3>1. \A i \in Intents : Escalated(i) => Escalated(i)'
      BY <2>1, KeyFacts DEF Escalated
    <3>2. \A w \in Instances : alarm[w].step # "idle" => Target(w) \in Intents
      BY DEF IInv, TypeOK, Alarmed, Target
    <3>3. UNCHANGED <<alarm, overdue>>
      BY DEF CreateAction, slaVars
    <3>. QED
      BY <3>1, <3>2, <3>3 DEF IInv, Alarmed, Target
  <2>. QED
    BY <2>1, <2>2, <2>3, <2>4 DEF IInv
<1>5. CASE UNCHANGED <<contracts, fresh, outbox>>
  BY <1>2, <1>3, <1>5, MemoryStep DEF IInv, TypeOK, CreateAction
<1>. QED
  BY <1>4, <1>5 DEF CreateAction

(* GetByID reads a status and keeps the decision for later.                *)
LEMMA GetByIDStep ==
    ASSUME IInv, NEW o \in Operators, NEW k \in PolicyKeys, NEW d \in {"APPROVED", "DISMISSED"},
           GetByID(o, k, d)
    PROVE  IInv'
<1>1. oper' \in [Operators -> (Keys \X {"APPROVED", "DISMISSED"}) \cup {None}]
  BY KeyFacts DEF IInv, TypeOK, GetByID
<1>. QED
  BY <1>1, MemoryStep DEF IInv, TypeOK, GetByID, dbVars

(* Decide, on a contract that still waits for approval or not.             *)
LEMMA DecideStep ==
    ASSUME IInv, NEW o \in Operators, Decide(o)
    PROVE  IInv'
<1> DEFINE k == oper[o][1]
           d == oper[o][2]
<1>1. k \in Keys /\ d \in {"APPROVED", "DISMISSED"} /\ oper[o] = <<k, d>>
  BY DEF IInv, TypeOK, Decide
<1>2. faults' \in 0..MaxFaults
  BY FaultStep DEF IInv, Decide
<1>3. oper' \in [Operators -> (Keys \X {"APPROVED", "DISMISSED"}) \cup {None}]
  BY DEF IInv, TypeOK, Decide
<1>4. CASE UNCHANGED <<contracts, outbox, decisions>>
  BY <1>2, <1>3, <1>4, MemoryStep DEF IInv, TypeOK, Decide
<1>5. CASE /\ contracts[k] = "PENDING_APPROVAL"
           /\ contracts' = [contracts EXCEPT ![k] = d]
           /\ outbox' = IF d = "APPROVED" THEN [outbox EXCEPT ![k] = NewRow] ELSE outbox
           /\ decisions' = decisions \cup {<<k, d>>}
  <2>. HIDE DEF k, d
  <2>1. d \in Statuses /\ d # None
    BY <1>1, NoneAssumption DEF Statuses
  <2>2. /\ contracts' \in [Keys -> Statuses \cup {None}] /\ contracts'[k] = d
        /\ \A j \in Keys \ {k} : contracts'[j] = contracts[j] /\ outbox'[j] = outbox[j]
    BY <1>1, <1>5, <2>1 DEF IInv, TypeOK
  <2>3. outbox[k] = NoRow /\ k \notin published \cup dlq
    BY <1>1, <1>5 DEF IInv, OnlyReleasedActions, Deliverable
  <2>4. outbox'[k] = IF d = "APPROVED" THEN NewRow ELSE NoRow
    BY <1>1, <1>5, <2>3 DEF IInv, TypeOK
  <2>5. outbox' \in [Keys -> {NoRow} \cup Rows]
    BY <1>1, <1>5, RowFacts DEF IInv, TypeOK
  <2>6. AttemptsAreUsed'
    <3>1. UNCHANGED dlq
      BY DEF Decide, topics
    <3>. QED
      BY <2>2, <2>3, <2>4, <3>1, RowFacts, ActionAssumption, NoneAssumption
         DEF IInv, TypeOK, AttemptsAreUsed
  <2>7. UNCHANGED <<world, fresh, timers, overdue, intent, eval, flight, alarm, published, dlq>>
    BY DEF Decide, slaVars, topics
  <2>8. TypeOK'
    <3>1. fresh' \subseteq {j \in Keys : contracts'[j] # None}
      BY <2>1, <2>2, <2>7 DEF IInv, TypeOK
    <3>2. decisions' \subseteq Keys \X {"APPROVED", "DISMISSED"}
      BY <1>1, <1>5 DEF IInv, TypeOK
    <3>. QED
      BY <1>2, <1>3, <2>2, <2>5, <2>6, <2>7, <3>1, <3>2 DEF IInv, TypeOK
  <2>9. InFlight'
    BY <2>2, <2>3, <2>7, NoneAssumption DEF IInv, InFlight, Steps
  <2>10. \A j \in Keys : contracts[j] # None => contracts'[j] # None
    BY <2>1, <2>2
  <2>11. Alarmed'
    <3>1. \A i \in Intents : Escalated(i) => Escalated(i)'
      BY <2>10, KeyFacts DEF Escalated
    <3>2. \A w \in Instances : alarm[w].step # "idle" => Target(w) \in Intents
      BY DEF IInv, TypeOK, Alarmed, Target
    <3>. QED
      BY <2>7, <3>1, <3>2 DEF IInv, Alarmed, Target
  <2>12. OnlyReleasedActions'
    <3> SUFFICES ASSUME NEW j \in Keys
                 PROVE  /\ j \in published \cup dlq => contracts'[j] \in Deliverable
                        /\ {e \in {"APPROVED", "DISMISSED"} : <<j, e>> \in decisions'} =
                              {contracts'[j]} \cap {"APPROVED", "DISMISSED"}
                        /\ outbox'[j] # NoRow <=>
                              \/ contracts'[j] = "APPROVED"
                              \/ contracts'[j] = "ACTIVE" /\ j[1] \in Actuating \cup {SLA}
      BY <2>7 DEF OnlyReleasedActions
    <3>1. CASE j = k
      <4>1. {e \in {"APPROVED", "DISMISSED"} : <<k, e>> \in decisions} = {}
        BY <1>1, <1>5 DEF IInv, OnlyReleasedActions
      <4>2. {e \in {"APPROVED", "DISMISSED"} : <<k, e>> \in decisions'} = {d}
        BY <1>1, <1>5, <4>1
      <4>3. NewRow # NoRow
        BY RowFacts
      <4>. QED
        BY <1>1, <2>2, <2>3, <2>4, <3>1, <4>2, <4>3
    <3>2. CASE j # k
      <4>1. \A e : <<j, e>> \in decisions' <=> <<j, e>> \in decisions
        BY <1>5, <3>2
      <4>. QED
        BY <2>2, <3>2, <4>1 DEF IInv, OnlyReleasedActions
    <3>. QED
      BY <3>1, <3>2
  <2>13. StatusIsTrue'
    <3>1. \A j \in Keys : (outbox'[j].status = "SENT" => j \in published') /\ (outbox'[j].dead => j \in dlq')
      BY <2>2, <2>4, <2>7, RowFacts, NoneAssumption DEF IInv, StatusIsTrue
    <3>2. \A i \in Intents : timers'[i] = "BREACHED" =>
              \E n \in 1..MaxOverdue : contracts'[<<SLA, i, n>>] # None
      BY <2>7, <2>10, KeyFacts DEF IInv, StatusIsTrue
    <3>. QED
      BY <3>1, <3>2 DEF StatusIsTrue
  <2>. QED
    BY <2>8, <2>9, <2>11, <2>12, <2>13 DEF IInv
<1>. QED
  BY <1>1, <1>4, <1>5 DEF Decide, UpdateStatusTx

(* MarkExpiredContracts takes contracts that wait for approval.            *)
LEMMA ExpireStep ==
    ASSUME IInv, MarkExpiredContracts
    PROVE  IInv'
<1>1. PICK K \in SUBSET {k \in Keys \ fresh : contracts[k] = "PENDING_APPROVAL"} :
         contracts' = [k \in Keys |-> IF k \in K THEN "EXPIRED" ELSE contracts[k]]
  BY DEF MarkExpiredContracts
<1>2. UNCHANGED <<world, fresh, decisions, outbox, timers, overdue, intent, eval, oper, flight, alarm,
                  published, dlq, faults>>
  BY DEF MarkExpiredContracts, slaVars, topics
<1>3. /\ contracts' \in [Keys -> Statuses \cup {None}]
      /\ \A k \in Keys : contracts[k] # None => contracts'[k] # None
      /\ \A k \in Keys : \/ contracts'[k] = contracts[k]
                          \/ /\ contracts[k] = "PENDING_APPROVAL"
                             /\ contracts'[k] = "EXPIRED"
  BY <1>1, NoneAssumption DEF IInv, TypeOK, Statuses
<1>4. TypeOK'
  BY <1>2, <1>3 DEF IInv, TypeOK, AttemptsAreUsed
<1>5. InFlight'
  BY <1>2 DEF IInv, InFlight
<1>6. Alarmed'
  <2>1. \A i \in Intents : Escalated(i) => Escalated(i)'
    BY <1>3, KeyFacts DEF Escalated
  <2>2. \A w \in Instances : alarm[w].step # "idle" => Target(w) \in Intents
    BY DEF IInv, TypeOK, Alarmed, Target
  <2>. QED
    BY <1>2, <2>1, <2>2 DEF IInv, Alarmed, Target
<1>7. OnlyReleasedActions'
  BY <1>2, <1>3 DEF IInv, OnlyReleasedActions, Deliverable
<1>8. StatusIsTrue'
  BY <1>2, <1>3, KeyFacts DEF IInv, StatusIsTrue
<1>. QED
  BY <1>4, <1>5, <1>6, <1>7, <1>8 DEF IInv

-----------------------------------------------------------------------------
(* One more attempt: a row with attempts left or a row that has failed.    *)
LEMMA FailedRowFacts ==
    ASSUME NEW row \in Rows
    PROVE  /\ FailedRow(row) \in Rows
           /\ FailedRow(row).status = "PENDING" => FailedRow(row).attempts < MaxAttempts
           /\ FailedRow(row).status = "SENT" => row.status = "SENT"
           /\ FailedRow(row).dead = row.dead
           /\ FailedRow(row).attempts >= row.attempts
           /\ FailedRow(row).status = "FAILED" =>
                 row.status = "FAILED" \/ FailedRow(row).attempts >= MaxAttempts
<1>. DEFINE new == FailedRow(row)
<1>1. row.attempts \in Nat /\ row.attempts + 1 \in Nat
  BY DEF Rows
<1>2. CASE row.attempts + 1 >= MaxAttempts
  <2>1. new = [row EXCEPT !.attempts = row.attempts + 1, !.status = "FAILED"]
    BY <1>2 DEF FailedRow
  <2>2. /\ new \in Rows /\ new.status = "FAILED" /\ new.dead = row.dead
        /\ new.attempts = row.attempts + 1
    BY <1>1, <2>1 DEF Rows
  <2>. QED
    BY <1>1, <1>2, <2>2
<1>3. CASE ~(row.attempts + 1 >= MaxAttempts)
  <2>1. new = [row EXCEPT !.attempts = row.attempts + 1, !.due = FALSE]
    BY <1>3 DEF FailedRow
  <2>2. /\ new \in Rows /\ new.attempts = row.attempts + 1
        /\ new.status = row.status /\ new.dead = row.dead
    BY <1>1, <2>1 DEF Rows
  <2>3. row.attempts + 1 < MaxAttempts
    BY <1>1, <1>3, ActionAssumption
  <2>. QED
    BY <1>1, <2>2, <2>3
<1>. QED
  BY <1>2, <1>3

(* A step of the outbox worker on one row: the row stays a row, its status *)
(* and the next step are true of the topics, the contract may be delivered.*)
LEMMA DeliveryStep ==
    ASSUME IInv, NEW w \in Instances, NEW k \in Keys, flight[w][k] # None,
           NEW row \in Rows, NEW step \in Steps \cup {None},
           row.status = "PENDING" => row.attempts < MaxAttempts,
           row.status = "FAILED" \/ row.dead \/ k \in dlq' \/ step \in {"dead", "deadSent"}
              => row.attempts >= MaxAttempts,
           row.attempts >= outbox[k].attempts,
           outbox' = [outbox EXCEPT ![k] = row],
           flight' = [flight EXCEPT ![w][k] = step],
           published' \in {published, published \cup {k}},
           dlq' \in {dlq, dlq \cup {k}},
           step = "sent" => k \in published',
           step = "deadSent" => k \in dlq',
           row.status = "SENT" => k \in published',
           row.dead => k \in dlq',
           faults' \in 0..MaxFaults,
           UNCHANGED <<world, contracts, fresh, decisions, slaVars, eval, oper, alarm>>
    PROVE  IInv'
<1> USE DEF slaVars
<1>1. /\ outbox'[k] = row /\ row # NoRow
      /\ outbox' \in [Keys -> {NoRow} \cup Rows]
      /\ \A j \in Keys \ {k} : outbox'[j] = outbox[j]
  BY RowFacts DEF IInv, TypeOK
<1>2. /\ flight'[w][k] = step
      /\ flight' \in [Instances -> [Keys -> Steps \cup {None}]]
      /\ \A v \in Instances, j \in Keys : ~(v = w /\ j = k) => flight'[v][j] = flight[v][j]
  BY DEF IInv, TypeOK
<1>3. outbox[k] # NoRow /\ contracts[k] \in Deliverable
  BY DEF IInv, InFlight, OnlyReleasedActions, Deliverable
<1>4. /\ published \subseteq published' /\ dlq \subseteq dlq'
      /\ published' \subseteq published \cup {k} /\ dlq' \subseteq dlq \cup {k}
  OBVIOUS
<1>5. TypeOK'
  <2>1. AttemptsAreUsed'
    BY <1>1, <1>4 DEF IInv, TypeOK, AttemptsAreUsed
  <2>2. published' \subseteq Keys /\ dlq' \subseteq Keys
    BY <1>4 DEF IInv, TypeOK
  <2>. QED
    BY <1>1, <1>2, <2>1, <2>2 DEF IInv, TypeOK
<1>6. InFlight'
  <2>1. outbox[k].attempts \in Int /\ row.attempts \in Int /\ MaxAttempts \in Int
    BY <1>3, ActionAssumption DEF IInv, TypeOK, Rows
  <2>2. \A v \in Instances : flight[v][k] \in {"dead", "deadSent"} => row.attempts >= MaxAttempts
    BY <2>1 DEF IInv, InFlight
  <2>. QED
    BY <1>1, <1>2, <1>4, <2>2 DEF IInv, InFlight
<1>7. Alarmed'
  BY DEF IInv, Alarmed, Escalated, Target
<1>8. OnlyReleasedActions'
  BY <1>1, <1>3, <1>4 DEF IInv, OnlyReleasedActions
<1>9. StatusIsTrue'
  BY <1>1, <1>4 DEF IInv, StatusIsTrue
<1>. QED
  BY <1>5, <1>6, <1>7, <1>8, <1>9 DEF IInv

(* FetchPending reads rows of contracts that may be delivered.             *)
LEMMA FetchStep ==
    ASSUME IInv, NEW w \in Instances, FetchPending(w)
    PROVE  IInv'
<1> USE DEF FetchPending, dbVars, slaVars, topics
<1>1. /\ flight' \in [Instances -> [Keys -> Steps \cup {None}]]
      /\ \A v \in Instances \ {w} : flight'[v] = flight[v]
      /\ \A k \in Keys : flight'[w][k] = IF ~Ready(k) THEN None
                                         ELSE IF outbox[k].status = "FAILED" THEN "dead" ELSE "publish"
  BY DEF IInv, TypeOK, Steps
<1>2. \A k \in Keys : Ready(k) => outbox[k] # NoRow
  BY RowFacts, NoneAssumption DEF Ready
<1>3. TypeOK'
  BY <1>1 DEF IInv, TypeOK, AttemptsAreUsed
<1>4. InFlight'
  <2>1. \A k \in Keys : outbox[k].status = "FAILED" => outbox[k].attempts >= MaxAttempts
    BY DEF IInv, TypeOK, AttemptsAreUsed
  <2>. QED
    BY <1>1, <1>2, <2>1, NoneAssumption DEF IInv, InFlight, Steps
<1>5. Alarmed'
  BY DEF IInv, Alarmed, Escalated, Target
<1>6. OnlyReleasedActions' /\ StatusIsTrue'
  BY DEF IInv, OnlyReleasedActions, StatusIsTrue
<1>. QED
  BY <1>3, <1>4, <1>5, <1>6 DEF IInv

(* Publish, MarkSent, MarkFailed, DeadLetter and MarkDeadLettered.         *)
LEMMA RowStep ==
    ASSUME IInv, NEW w \in Instances, NEW k \in Keys,
           \/ Publish(w, k) \/ MarkSent(w, k) \/ MarkFailed(w, k)
           \/ DeadLetter(w, k) \/ MarkDeadLettered(w, k)
    PROVE  IInv'
<1> DEFINE row == outbox[k]
<1>1. flight[w][k] # None /\ "publish" # None /\ None \notin Steps
  BY NoneAssumption DEF Publish, MarkSent, MarkFailed, DeadLetter, MarkDeadLettered, Steps
<1>2. /\ row \in Rows /\ row.attempts >= outbox[k].attempts
      /\ row.status = "PENDING" => row.attempts < MaxAttempts
      /\ row.status = "FAILED" \/ row.dead \/ k \in dlq => row.attempts >= MaxAttempts
      /\ flight[w][k] \in {"dead", "deadSent"} => row.attempts >= MaxAttempts
  BY <1>1 DEF IInv, TypeOK, AttemptsAreUsed, InFlight, Rows
<1>3. faults' \in 0..MaxFaults
  BY FaultStep DEF IInv, Publish, MarkSent, MarkFailed, DeadLetter, MarkDeadLettered
<1>4. outbox = [outbox EXCEPT ![k] = row]
  BY DEF IInv, TypeOK
<1>5. (row.status = "SENT" => k \in published) /\ (row.dead => k \in dlq)
  BY DEF IInv, StatusIsTrue
<1>u. UNCHANGED <<world, contracts, fresh, decisions, slaVars, eval, oper, alarm>>
  BY DEF Publish, MarkSent, MarkFailed, DeadLetter, MarkDeadLettered, dbVars
<1>6. CASE Publish(w, k)
  <2>1. outbox' = [outbox EXCEPT ![k] = row] /\ dlq' = dlq
    BY <1>4, <1>6 DEF Publish, dbVars
  <2>2. PICK step \in {"sent", "failed"} :
          /\ flight' = [flight EXCEPT ![w][k] = step]
          /\ published' \in {published, published \cup {k}}
          /\ step = "sent" => k \in published'
    BY <1>6 DEF Publish, Then
  <2>3. step \in Steps \cup {None} /\ step \notin {"dead", "deadSent"} /\ published \subseteq published'
    BY <2>2 DEF Steps
  <2>. HIDE DEF row
  <2>. QED
    BY <1>1, <1>2, <1>3, <1>5, <1>u, <2>1, <2>2, <2>3, DeliveryStep
<1>7. CASE MarkSent(w, k)
  <2>1. /\ flight' = [flight EXCEPT ![w][k] = None]
        /\ published' = published /\ dlq' = dlq /\ k \in published
    BY <1>7 DEF MarkSent, Then, topics, IInv, InFlight
  <2>2. PICK new \in {row, [row EXCEPT !.status = "SENT"]} : outbox' = [outbox EXCEPT ![k] = new]
    BY <1>4, <1>7 DEF MarkSent
  <2>3. /\ new \in Rows /\ (new.status = "PENDING" => new.attempts < MaxAttempts)
        /\ new.dead = row.dead /\ new.attempts = row.attempts
        /\ new.attempts >= outbox[k].attempts
        /\ new.status = "FAILED" => row.status = "FAILED"
    BY <1>2, <2>2 DEF Rows
  <2>. HIDE DEF row
  <2>. QED
    BY <1>1, <1>2, <1>3, <1>5, <1>u, <2>1, <2>2, <2>3, NoneAssumption, DeliveryStep DEF Steps
<1>8. CASE MarkFailed(w, k)
  <2>1. published' = published /\ dlq' = dlq
    BY <1>8 DEF MarkFailed, topics
  <2>2. PICK step \in {"dead", None}, new \in {row, FailedRow(row)} :
          /\ flight' = [flight EXCEPT ![w][k] = step]
          /\ outbox' = [outbox EXCEPT ![k] = new]
          /\ step = "dead" => new = FailedRow(row) /\ new.status = "FAILED"
    BY <1>4, <1>8, NoneAssumption DEF MarkFailed, Then, Steps
  <2>3. /\ FailedRow(row) \in Rows
        /\ FailedRow(row).attempts >= row.attempts
        /\ FailedRow(row).status = "FAILED" =>
              row.status = "FAILED" \/ FailedRow(row).attempts >= MaxAttempts
        /\ FailedRow(row).status = "PENDING" => FailedRow(row).attempts < MaxAttempts
        /\ FailedRow(row).status = "SENT" => row.status = "SENT"
        /\ FailedRow(row).dead = row.dead
    BY <1>2, FailedRowFacts
  <2>4. step \in Steps \cup {None} /\ step # "deadSent" /\ step # "sent"
    BY <2>2, NoneAssumption DEF Steps
  <2>5. /\ new \in Rows /\ new.attempts >= row.attempts /\ new.dead = row.dead
        /\ new.attempts >= outbox[k].attempts
        /\ new.status = "PENDING" => new.attempts < MaxAttempts
        /\ new.status = "SENT" => row.status = "SENT"
    BY <1>2, <2>2, <2>3
  <2>6. new.status = "FAILED" \/ new.dead \/ k \in dlq' \/ step \in {"dead", "deadSent"}
           => new.attempts >= MaxAttempts
    <3>1. new.attempts \in Int /\ row.attempts \in Int /\ MaxAttempts \in Int
      BY <1>2, <2>5, ActionAssumption DEF Rows
    <3>2. row.status = "FAILED" \/ row.dead \/ k \in dlq => new.attempts >= MaxAttempts
      BY <1>2, <2>5, <3>1
    <3>3. new.status = "FAILED" => new.attempts >= MaxAttempts
      BY <2>2, <2>3, <3>2
    <3>. QED
      BY <2>1, <2>2, <2>4, <2>5, <3>2, <3>3
  <2>. HIDE DEF row
  <2>. QED
    BY <1>1, <1>2, <1>3, <1>5, <1>u, <2>1, <2>2, <2>4, <2>5, <2>6, DeliveryStep
<1>9. CASE DeadLetter(w, k)
  <2>1. outbox' = [outbox EXCEPT ![k] = row] /\ published' = published
    BY <1>4, <1>9 DEF DeadLetter, dbVars
  <2>2. PICK step \in {"deadSent", None} :
          /\ flight' = [flight EXCEPT ![w][k] = step]
          /\ dlq' \in {dlq, dlq \cup {k}}
          /\ step = "deadSent" => k \in dlq'
    BY <1>9, NoneAssumption DEF DeadLetter, Then, Steps
  <2>3. /\ step \in Steps \cup {None} /\ step # "sent" /\ dlq \subseteq dlq'
        /\ row.attempts >= MaxAttempts
    BY <1>2, <1>9, <2>2, NoneAssumption DEF Steps, DeadLetter
  <2>. HIDE DEF row
  <2>. QED
    BY <1>1, <1>2, <1>3, <1>5, <1>u, <2>1, <2>2, <2>3, DeliveryStep
<1>10. CASE MarkDeadLettered(w, k)
  <2>1. /\ flight' = [flight EXCEPT ![w][k] = None]
        /\ published' = published /\ dlq' = dlq /\ k \in dlq
    BY <1>10 DEF MarkDeadLettered, Then, topics, IInv, InFlight
  <2>2. PICK new \in {row, [row EXCEPT !.dead = TRUE]} : outbox' = [outbox EXCEPT ![k] = new]
    BY <1>4, <1>10 DEF MarkDeadLettered
  <2>3. /\ new \in Rows /\ (new.status = "PENDING" => new.attempts < MaxAttempts)
        /\ new.status = row.status /\ new.attempts = row.attempts
        /\ new.attempts >= outbox[k].attempts
    BY <1>2, <2>2 DEF Rows
  <2>. HIDE DEF row
  <2>. QED
    BY <1>1, <1>2, <1>3, <1>5, <1>u, <2>1, <2>2, <2>3, NoneAssumption, DeliveryStep DEF Steps
<1>. QED
  BY <1>6, <1>7, <1>8, <1>9, <1>10

(* BackoffElapses makes a row due again.                                   *)
LEMMA BackoffStep ==
    ASSUME IInv, NEW k \in Keys, BackoffElapses(k)
    PROVE  IInv'
<1> USE DEF BackoffElapses, slaVars, topics
<1> DEFINE row == outbox[k]
           new == [row EXCEPT !.due = TRUE]
<1>1. row \in Rows
  BY RowFacts DEF IInv, TypeOK
<1>2. /\ new \in Rows /\ new # NoRow /\ row # NoRow
      /\ new.status = row.status /\ new.attempts = row.attempts /\ new.dead = row.dead
  BY <1>1, RowFacts DEF Rows
<1>3. /\ outbox'[k] = new /\ outbox' \in [Keys -> {NoRow} \cup Rows]
      /\ \A j \in Keys \ {k} : outbox'[j] = outbox[j]
  BY <1>2 DEF IInv, TypeOK
<1>. HIDE DEF new
<1>4. TypeOK'
  BY <1>2, <1>3 DEF IInv, TypeOK, AttemptsAreUsed
<1>5. InFlight'
  BY <1>2, <1>3 DEF IInv, InFlight
<1>6. Alarmed'
  BY DEF IInv, Alarmed, Escalated, Target
<1>7. OnlyReleasedActions'
  BY <1>2, <1>3 DEF IInv, OnlyReleasedActions
<1>8. StatusIsTrue'
  BY <1>2, <1>3 DEF IInv, StatusIsTrue
<1>. QED
  BY <1>4, <1>5, <1>6, <1>7, <1>8 DEF IInv

-----------------------------------------------------------------------------
(* SeedTimer, ResolveTimer and TimePasses: nothing but a breach is told by *)
(* a timer, and what is overdue stays so.                                  *)
LEMMA TimerStep ==
    ASSUME IInv, NEW i \in Intents, SeedTimer(i) \/ ResolveTimer(i) \/ TimePasses(i)
    PROVE  IInv'
<1>1. /\ faults' \in 0..MaxFaults
      /\ UNCHANGED <<world, contracts, fresh, decisions, outbox, eval, oper, flight, alarm, published, dlq>>
  BY FaultStep DEF IInv, SeedTimer, ResolveTimer, TimePasses, dbVars, topics
<1>2. /\ timers' \in [Intents -> {None, "ACTIVE", "RESOLVED", "BREACHED"}]
      /\ \A j \in Intents : timers'[j] = "BREACHED" => timers[j] = "BREACHED"
  BY DEF IInv, TypeOK, SeedTimer, ResolveTimer, TimePasses
<1>3. /\ overdue' \in [Intents -> 0..MaxOverdue]
      /\ \A j \in Intents : overdue[j] > 0 => overdue'[j] > 0
  <2>1. CASE UNCHANGED overdue
    BY <2>1 DEF IInv, TypeOK
  <2>2. CASE overdue[i] < MaxOverdue /\ overdue' = [overdue EXCEPT ![i] = overdue[i] + 1]
    <3>1. overdue[i] \in 0..MaxOverdue /\ overdue[i] + 1 \in 0..MaxOverdue /\ overdue[i] + 1 > 0
      BY <2>2, ActionAssumption DEF IInv, TypeOK
    <3>. QED
      BY <2>2, <3>1 DEF IInv, TypeOK
  <2>. QED
    BY <2>1, <2>2 DEF SeedTimer, ResolveTimer, TimePasses
<1>4. intent' \in [Intents -> SUBSET {"created", "final"}]
  BY DEF IInv, TypeOK, SeedTimer, ResolveTimer, TimePasses
<1>5. TypeOK'
  BY <1>1, <1>2, <1>3, <1>4 DEF IInv, TypeOK, AttemptsAreUsed
<1>6. InFlight'
  BY <1>1 DEF IInv, InFlight
<1>7. Alarmed'
  <2>1. \A v \in Instances : \A j \in alarm[v].todo : overdue'[j] > 0
    BY <1>3 DEF IInv, TypeOK, Alarmed
  <2>2. \A v \in Instances : alarm[v].step = "mark" => Escalated(Target(v))'
    BY <1>1 DEF IInv, Alarmed, Escalated, Target
  <2>. QED
    BY <1>1, <2>1, <2>2 DEF IInv, Alarmed
<1>8. OnlyReleasedActions' /\ StatusIsTrue'
  BY <1>1, <1>2 DEF IInv, OnlyReleasedActions, StatusIsTrue
<1>. QED
  BY <1>5, <1>6, <1>7, <1>8 DEF IInv

(* What FetchBreachedTimers, MarkBreached and Crash leave to show: their   *)
(* own instance's part, and that the timers they mark were escalated.      *)
LEMMA WatchFrame ==
    ASSUME IInv, NEW w \in Instances,
           UNCHANGED <<world, contracts, fresh, decisions, outbox, overdue, intent, eval, oper, topics>>,
           faults' \in 0..MaxFaults,
           NEW x \in [step : {"idle", "create"}, todo : SUBSET Intents],
           alarm' = [alarm EXCEPT ![w] = x],
           x.step # "idle" => x.todo # {},
           \A i \in x.todo : overdue[i] > 0,
           timers' \in [Intents -> {None, "ACTIVE", "RESOLVED", "BREACHED"}],
           \A i \in Intents : timers'[i] = "BREACHED" => timers[i] = "BREACHED" \/ Escalated(i),
           flight' \in [Instances -> [Keys -> Steps \cup {None}]],
           \A v \in Instances, k \in Keys : flight'[v][k] \in {flight[v][k], None}
    PROVE  IInv'
<1> USE DEF topics
<1>1. /\ alarm'[w] = x /\ \A v \in Instances \ {w} : alarm'[v] = alarm[v]
      /\ alarm' \in [Instances -> [step : {"idle", "create", "mark"}, todo : SUBSET Intents]]
  BY DEF IInv, TypeOK
<1>2. TypeOK'
  BY <1>1 DEF IInv, TypeOK, AttemptsAreUsed
<1>3. InFlight'
  BY NoneAssumption DEF IInv, InFlight, Steps
<1>4. Alarmed'
  <2> SUFFICES ASSUME NEW v \in Instances
               PROVE  /\ alarm'[v].step # "idle" => alarm'[v].todo # {}
                      /\ \A i \in alarm'[v].todo : overdue'[i] > 0
                      /\ alarm'[v].step = "mark" => Escalated(Target(v))'
    BY DEF Alarmed
  <2>1. CASE v = w
    BY <1>1, <2>1
  <2>2. CASE v # w
    <3>1. alarm'[v] = alarm[v] /\ UNCHANGED <<overdue, contracts>>
      BY <1>1, <2>2
    <3>2. /\ alarm[v].step # "idle" => alarm[v].todo # {}
          /\ \A i \in alarm[v].todo : overdue[i] > 0
          /\ alarm[v].step = "mark" => Escalated(Target(v))
      BY DEF IInv, Alarmed
    <3>3. Target(v)' = Target(v)
      BY <3>1 DEF Target
    <3>4. alarm[v].step = "mark" => Escalated(Target(v))'
      BY <3>1, <3>2, <3>3 DEF Escalated
    <3>. QED
      BY <3>1, <3>2, <3>4
  <2>. QED
    BY <2>1, <2>2
<1>5. OnlyReleasedActions'
  BY DEF IInv, OnlyReleasedActions
<1>6. StatusIsTrue'
  BY DEF IInv, StatusIsTrue, Escalated
<1>. QED
  BY <1>2, <1>3, <1>4, <1>5, <1>6 DEF IInv

(* Done goes on to the next timer.                                         *)
LEMMA DoneFacts ==
    ASSUME IInv, NEW w \in Instances, NEW i, Done(w, i)
    PROVE  \E x \in [step : {"idle", "create"}, todo : SUBSET Intents] :
              /\ alarm' = [alarm EXCEPT ![w] = x]
              /\ x.step # "idle" => x.todo # {}
              /\ \A j \in x.todo : overdue[j] > 0
<1> DEFINE rest == alarm[w].todo \ {i}
           x == [step |-> IF rest = {} THEN "idle" ELSE "create", todo |-> rest]
<1>1. rest \subseteq Intents /\ \A j \in rest : overdue[j] > 0
  BY DEF IInv, TypeOK, Alarmed
<1>2. alarm' = [alarm EXCEPT ![w] = x]
  BY DEF Done
<1>. HIDE DEF rest
<1>3. x \in [step : {"idle", "create"}, todo : SUBSET Intents] /\ (x.step # "idle" => x.todo # {})
  BY <1>1
<1>. QED
  BY <1>1, <1>2, <1>3

(* FetchBreachedTimers and Crash.                                          *)
LEMMA FetchOrCrashStep ==
    ASSUME IInv, NEW w \in Instances, FetchBreachedTimers(w) \/ Crash(w)
    PROVE  IInv'
<1>1. CASE FetchBreachedTimers(w)
  <2> DEFINE breached == {i \in Intents : timers[i] = "ACTIVE" /\ overdue[i] > 0}
             x == [step |-> "create", todo |-> breached]
  <2>1. /\ UNCHANGED <<world, contracts, fresh, decisions, outbox, timers, overdue, intent, eval, oper,
                       flight, topics, faults>>
        /\ alarm' = [alarm EXCEPT ![w] = x] /\ breached # {}
    BY <1>1 DEF FetchBreachedTimers, dbVars, slaVars
  <2>2. x \in [step : {"idle", "create"}, todo : SUBSET Intents] /\ x.todo = breached
    OBVIOUS
  <2>3. \A i \in x.todo : overdue[i] > 0
    OBVIOUS
  <2>. HIDE DEF x
  <2>. QED
    BY <2>1, <2>2, <2>3, WatchFrame DEF IInv, TypeOK
<1>2. CASE Crash(w)
  <2> DEFINE x == [step |-> "idle", todo |-> {}]
  <2>1. /\ UNCHANGED <<world, contracts, fresh, decisions, outbox, timers, overdue, intent, eval, oper,
                       topics>>
        /\ alarm' = [alarm EXCEPT ![w] = x]
        /\ flight' = [flight EXCEPT ![w] = [k \in Keys |-> None]]
    BY <1>2 DEF Crash, dbVars, slaVars
  <2>2. faults' \in 0..MaxFaults
    BY <1>2, FaultStep DEF Crash, IInv
  <2>3. /\ flight' \in [Instances -> [Keys -> Steps \cup {None}]]
        /\ \A v \in Instances, k \in Keys : flight'[v][k] \in {flight[v][k], None}
    BY <2>1 DEF IInv, TypeOK
  <2>4. x \in [step : {"idle", "create"}, todo : SUBSET Intents] /\ x.step = "idle" /\ x.todo = {}
    OBVIOUS
  <2>. HIDE DEF x
  <2>. QED
    BY <2>1, <2>2, <2>3, <2>4, WatchFrame DEF IInv, TypeOK
<1>. QED
  BY <1>1, <1>2

(* The payout an SLA worker is at is overdue.                              *)
LEMMA TargetFacts ==
    ASSUME IInv, NEW w \in Instances, alarm[w].step # "idle"
    PROVE  /\ Target(w) \in Intents /\ Target(w) \in alarm[w].todo
           /\ overdue[Target(w)] \in 1..MaxOverdue
<1>1. Target(w) \in alarm[w].todo
  BY DEF IInv, Alarmed, Target
<1>2. Target(w) \in Intents
  BY <1>1 DEF IInv, TypeOK
<1>3. overdue[Target(w)] \in 0..MaxOverdue /\ overdue[Target(w)] > 0
  BY <1>1, <1>2 DEF IInv, TypeOK, Alarmed
<1>. QED
  BY <1>1, <1>2, <1>3, ActionAssumption

(* MarkBreached marks a timer whose payout was escalated.                  *)
LEMMA MarkBreachedStep ==
    ASSUME IInv, NEW w \in Instances, MarkBreached(w)
    PROVE  IInv'
<1>1. alarm[w].step = "mark" /\ Done(w, Target(w))
  BY DEF MarkBreached, Target
<1>2. Target(w) \in Intents /\ Escalated(Target(w))
  BY <1>1, TargetFacts DEF IInv, Alarmed
<1>3. timers' \in {timers, [timers EXCEPT ![Target(w)] = "BREACHED"]}
  BY DEF MarkBreached, Target
<1>4. /\ timers' \in [Intents -> {None, "ACTIVE", "RESOLVED", "BREACHED"}]
      /\ \A i \in Intents : timers'[i] = "BREACHED" => timers[i] = "BREACHED" \/ Escalated(i)
  BY <1>2, <1>3 DEF IInv, TypeOK
<1>5. PICK x \in [step : {"idle", "create"}, todo : SUBSET Intents] :
         /\ alarm' = [alarm EXCEPT ![w] = x]
         /\ x.step # "idle" => x.todo # {}
         /\ \A j \in x.todo : overdue[j] > 0
  BY <1>1, DoneFacts
<1>6. /\ UNCHANGED <<world, contracts, fresh, decisions, outbox, overdue, intent, eval, oper, flight, topics>>
      /\ faults' \in 0..MaxFaults
  BY FaultStep DEF MarkBreached, dbVars, IInv
<1>. QED
  BY <1>4, <1>5, <1>6, WatchFrame DEF IInv, TypeOK

(* Escalate inserts the escalation or goes on to the next timer.           *)
LEMMA EscalateStep ==
    ASSUME IInv, NEW w \in Instances, Escalate(w)
    PROVE  IInv'
<1> DEFINE i == Target(w)
           k == <<SLA, i, overdue[i]>>
<1>1. i \in Intents /\ overdue[i] \in 1..MaxOverdue /\ k \in Keys /\ k[1] = SLA
  BY TargetFacts, KeyFacts DEF Escalate
<1>2. faults' \in 0..MaxFaults
  BY FaultStep DEF Escalate, IInv
<1>3. UNCHANGED <<world, decisions, timers, overdue, intent, eval, oper, flight, published, dlq>>
  BY DEF Escalate, slaVars, topics
<1>4. CASE Done(w, i) /\ UNCHANGED <<contracts, fresh, outbox>>
  <2>1. PICK x \in [step : {"idle", "create"}, todo : SUBSET Intents] :
           /\ alarm' = [alarm EXCEPT ![w] = x]
           /\ x.step # "idle" => x.todo # {}
           /\ \A j \in x.todo : overdue[j] > 0
    BY <1>4, DoneFacts
  <2>. QED
    BY <1>2, <1>3, <1>4, <2>1, WatchFrame DEF IInv, TypeOK, topics
<1>5. CASE InsertIfNew(k, FALSE, TRUE) /\ alarm' = [alarm EXCEPT ![w].step = "mark"]
  <2>1. /\ contracts' \in [Keys -> Statuses \cup {None}]
        /\ contracts'[k] # None
        /\ \A j \in Keys : contracts[j] # None => contracts'[j] # None
        /\ fresh' \subseteq {j \in Keys : contracts'[j] # None}
        /\ outbox' \in [Keys -> {NoRow} \cup Rows]
        /\ AttemptsAreUsed'
        /\ \A j \in Keys : outbox[j] # NoRow => outbox'[j] = outbox[j]
        /\ OnlyReleasedActions'
        /\ StatusIsTrue'
    <3>. HIDE DEF k
    <3>. QED
      BY <1>1, <1>3, <1>5, InsertStep DEF IInv, topics
  <2>2. /\ alarm' \in [Instances -> [step : {"idle", "create", "mark"}, todo : SUBSET Intents]]
        /\ alarm'[w].step = "mark" /\ alarm'[w].todo = alarm[w].todo
        /\ \A v \in Instances \ {w} : alarm'[v] = alarm[v]
    BY <1>5 DEF IInv, TypeOK
  <2>3. TypeOK'
    BY <1>2, <1>3, <2>1, <2>2 DEF IInv, TypeOK
  <2>4. InFlight'
    BY <1>3, <2>1, NoneAssumption DEF IInv, InFlight, Steps
  <2>5. Alarmed'
    <3> SUFFICES ASSUME NEW v \in Instances
                 PROVE  /\ alarm'[v].step # "idle" => alarm'[v].todo # {}
                        /\ \A j \in alarm'[v].todo : overdue'[j] > 0
                        /\ alarm'[v].step = "mark" => Escalated(Target(v))'
      BY DEF Alarmed
    <3>1. CASE v = w
      <4>1. Target(w)' = i
        BY <2>2 DEF Target
      <4>2. \E n \in 1..MaxOverdue : contracts'[<<SLA, i, n>>] # None
        BY <1>1, <2>1
      <4>3. alarm[w].todo # {} /\ \A j \in alarm[w].todo : overdue[j] > 0
        BY DEF IInv, Alarmed, Escalate
      <4>. QED
        BY <1>3, <2>2, <3>1, <4>1, <4>2, <4>3 DEF Escalated
    <3>2. CASE v # w
      <4>1. \A j \in Intents : Escalated(j) => Escalated(j)'
        BY <2>1, KeyFacts DEF Escalated
      <4>2. alarm[v].step # "idle" => Target(v) \in Intents
        BY TargetFacts
      <4>3. Target(v)' = Target(v)
        BY <2>2, <3>2 DEF Target
      <4>. QED
        BY <1>3, <2>2, <3>2, <4>1, <4>2, <4>3 DEF IInv, Alarmed, Escalated
    <3>. QED
      BY <3>1, <3>2
  <2>. QED
    BY <2>1, <2>3, <2>4, <2>5 DEF IInv
<1>. QED
  BY <1>4, <1>5 DEF Escalate, Target

-----------------------------------------------------------------------------
(* Every step preserves the invariant.                                     *)
LEMMA IInvStep == IInv /\ [Next]_vars => IInv'
<1> SUFFICES ASSUME IInv, [Next]_vars PROVE IInv'
  OBVIOUS
<1>1. ASSUME NEW x \in Evaluators,
             \/ CreateAction(x)
             \/ \E p \in world.policies, t \in Triggers, f \in Facts : evaluateOne(x, p, t, f)
      PROVE  IInv'
  BY <1>1, CreateStep, EvaluateStep
<1>2. ASSUME CooldownElapses \/ UNCHANGED vars PROVE IInv'
  <2>1. fresh' \subseteq fresh
    BY <1>2 DEF CooldownElapses, vars, dbVars
  <2>2. UNCHANGED <<world, contracts, decisions, outbox, slaVars, flight, alarm, topics, eval, oper, faults>>
    BY <1>2 DEF CooldownElapses, vars, dbVars
  <2>. QED
    BY <2>1, <2>2, MemoryStep DEF IInv, TypeOK
<1>3. ASSUME NEW o \in Operators,
             \/ Decide(o)
             \/ \E k \in PolicyKeys, d \in {"APPROVED", "DISMISSED"} : GetByID(o, k, d)
      PROVE  IInv'
  BY <1>3, DecideStep, GetByIDStep
<1>4. ASSUME NEW w \in Instances, Deliver(w) \/ Watch(w) \/ Crash(w) PROVE IInv'
  BY <1>4, FetchStep, RowStep, FetchOrCrashStep, EscalateStep, MarkBreachedStep DEF Deliver, Watch
<1>5. ASSUME NEW i \in world.intents, SeedTimer(i) \/ ResolveTimer(i) \/ TimePasses(i) PROVE IInv'
  <2>1. i \in Intents
    BY ActionAssumption DEF IInv, TypeOK
  <2>. QED
    BY <1>5, <2>1, TimerStep
<1>. QED
  BY <1>1, <1>2, <1>3, <1>4, <1>5, ExpireStep, BackoffStep DEF Next

(* The invariant holds throughout.                                         *)
THEOREM Invariance == Spec => []IInv
  BY IInvInit, IInvStep, PTL DEF Spec

(* Contracts, outbox rows, timers and what the workers remember keep their *)
(* types (action_contract_repo.go, outbox_repo.go, sla_timer_repo.go); a   *)
(* PENDING row has attempts left, and only a row without attempts is       *)
(* FAILED or dead-lettered (MarkFailed, deadLetter).                       *)
THEOREM TypeCorrect == Spec => []TypeOK
<1>1. IInv => TypeOK
  BY DEF IInv
<1>. QED
  BY <1>1, Invariance, PTL

(* Nothing is delivered that was not released: ApproveAction and           *)
(* DismissAction, MarkExpiredContracts, CreateAction and the outbox worker *)
(* agree, for any number of them.                                          *)
THEOREM ReleasedActionsOnly == Spec => []OnlyReleasedActions
<1>1. IInv => OnlyReleasedActions
  BY DEF IInv
<1>. QED
  BY <1>1, Invariance, PTL

(* MarkSent, MarkDeadLettered and MarkBreached only record what happened.  *)
THEOREM StatusesAreTrue == Spec => []StatusIsTrue
<1>1. IInv => StatusIsTrue
  BY DEF IInv
<1>. QED
  BY <1>1, Invariance, PTL
=============================================================================
