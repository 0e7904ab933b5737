---------------------------- MODULE PaymentTruth ----------------------------
(***************************************************************************)
(* The current truth about a payment (backend/recon/internal/paymenttruth) *)
(* under concurrent observers.                                             *)
(*                                                                         *)
(* Webhook envelopes from Kafka, the ingest endpoint and the pages of API  *)
(* backfills all go through Processor.Process: store the immutable         *)
(* observation, read the payment's row in canonical_payments, reduce the   *)
(* two, link the merchant's intent and write row and outbox events.  One   *)
(* observation is one READ COMMITTED transaction, except that a backfill   *)
(* page is a single transaction over all its items.                        *)
(*                                                                         *)
(* A transaction sees committed rows and its own.  SELECT ... FOR UPDATE   *)
(* locks a row that exists and nothing when there is none; an upsert waits *)
(* for the transaction that inserted or locked the row.                    *)
(*                                                                         *)
(* Left out: amounts, fees and timestamps (every observation of a payment  *)
(* carries the same amount), and provider_payment_observations, a copy of  *)
(* the row written under the row's lock.                                   *)
(***************************************************************************)
EXTENDS Integers, FiniteSets

CONSTANTS
    Payments,
    Sources,       \* webhook, api_backfill
    Hashes,        \* payload hashes
    Observations,  \* what the provider reports: records, see below
    Batches,       \* sets of observations processed in one transaction
    Runners,       \* goroutines that process observations
    NoRunner, NoObservation

Status == {"unknown", "created", "authorized", "captured", "failed",
           "partially_refunded", "refunded"}

(* The identity hash covers payment, source, source event and payload      *)
(* hash: two observations are the same row exactly if they are equal.      *)
Observation ==
    [payment : Payments, source : Sources, hash : Hashes, status : Status]

ASSUME PaymentAssumption ==
    /\ Observations \subseteq Observation
    /\ Batches \subseteq SUBSET Observations
    /\ NoRunner \notin Runners
    /\ NoObservation \notin Observations

NoRow == [status |-> "none", linked |-> FALSE]

Row == {NoRow} \cup [status : Status, linked : BOOLEAN]

VARIABLES
    \* the database
    events,     \* provider_payment_observation_events
    canon,      \* canonical_payments
    observed,   \* outcome_outbox: keys of the observation events
    updated,    \* outcome_outbox: keys of the canonical updates
    intents,    \* payments whose order is in canonical_intents
    holder,     \* the transaction that holds a payment's row
    \* the transactions
    pc,         \* idle, open, read, readDuplicate, link, write
    todo,       \* observations still to process
    cur,        \* the observation being processed
    current,    \* what GetCanonicalPayment returned
    reduced,    \* what will be written
    mine,       \* rows written but not committed
    newEvents, newObserved, newUpdated,
    inserted    \* payments reported as KindInserted

dbVars == <<events, canon, observed, updated>>
itemVars == <<cur, current, reduced>>
writeVars == <<mine, newObserved, newUpdated, inserted>>
vars == <<dbVars, intents, holder, pc, todo, itemVars, writeVars, newEvents>>

ObservedKeys == Payments \X Hashes
UpdatedKeys == Payments \X Status \X Hashes

TypeOK ==
    /\ events \subseteq Observations
    /\ canon \in [Payments -> Row]
    /\ observed \subseteq ObservedKeys
    /\ updated \subseteq UpdatedKeys
    /\ intents \subseteq Payments
    /\ holder \in [Payments -> Runners \cup {NoRunner}]
    /\ pc \in [Runners -> {"idle", "open", "read", "readDuplicate", "link", "write"}]
    /\ todo \in [Runners -> SUBSET Observations]
    /\ cur \in [Runners -> Observations \cup {NoObservation}]
    /\ current \in [Runners -> Row]
    /\ reduced \in [Runners -> Row]
    /\ mine \in [Runners -> [Payments -> Row]]
    /\ newEvents \in [Runners -> SUBSET Observations]
    /\ newObserved \in [Runners -> SUBSET ObservedKeys]
    /\ newUpdated \in [Runners -> SUBSET UpdatedKeys]
    /\ inserted \in [Runners -> SUBSET Payments]

NoRows == [p \in Payments |-> NoRow]

Init ==
    /\ events = {} /\ canon = NoRows
    /\ observed = {} /\ updated = {} /\ intents = {}
    /\ holder = [p \in Payments |-> NoRunner]
    /\ pc = [r \in Runners |-> "idle"]
    /\ todo = [r \in Runners |-> {}]
    /\ cur = [r \in Runners |-> NoObservation]
    /\ current = [r \in Runners |-> NoRow]
    /\ reduced = [r \in Runners |-> NoRow]
    /\ mine = [r \in Runners |-> NoRows]
    /\ newEvents = [r \in Runners |-> {}]
    /\ newObserved = [r \in Runners |-> {}]
    /\ newUpdated = [r \in Runners |-> {}]
    /\ inserted = [r \in Runners |-> {}]

-----------------------------------------------------------------------------
(* The reducer.                                                            *)

Rank(s) ==
    CASE s = "created" -> 1
      [] s \in {"authorized", "failed"} -> 2
      [] s = "captured" -> 3
      [] s = "partially_refunded" -> 4
      [] s = "refunded" -> 5
      [] OTHER -> 0

IsCapturedOrLater(s) == s \in {"captured", "partially_refunded", "refunded"}

isRefund(s) == s \in {"partially_refunded", "refunded"}

(* When the incoming status replaces the current one.                      *)
Supersedes(incoming, s) ==
    \/ s = "none"
    \/ incoming = "failed" /\ ~IsCapturedOrLater(s)
    \/ /\ isRefund(incoming)
       /\ s = "captured" \/ isRefund(s)
       /\ Rank(incoming) >= Rank(s)
    \/ /\ incoming # "failed" /\ ~isRefund(incoming)
       /\ IF s = "failed" THEN IsCapturedOrLater(incoming)
                          ELSE Rank(incoming) >= Rank(s)

(* A fault: a second partial refund is taken for a full one.               *)
nextStatusAddsRefunds(s, incoming) ==
    IF isRefund(s) /\ isRefund(incoming) THEN "refunded"
    ELSE IF Supersedes(incoming, s) THEN incoming ELSE s

nextStatus(s, incoming) == IF Supersedes(incoming, s) THEN incoming ELSE s

-----------------------------------------------------------------------------
(* What transaction r sees of a payment's row.                             *)
View(r, p) == IF mine[r][p] # NoRow THEN mine[r][p] ELSE canon[p]

Free(r, p) == holder[p] \in {r, NoRunner}

Goto(r, step) == pc' = [pc EXCEPT ![r] = step]

(* A webhook envelope arrives (again), or a backfill fetched a page.       *)
Begin(r, B) ==
    /\ pc[r] = "idle"
    /\ todo' = [todo EXCEPT ![r] = B]
    /\ Goto(r, "open")
    /\ UNCHANGED <<dbVars, intents, holder, itemVars, writeVars, newEvents>>

(* ON CONFLICT DO NOTHING; a duplicate another transaction has inserted    *)
(* but not committed is waited for.                                        *)
InsertObservationEvent(r, o) ==
    /\ pc[r] = "open" /\ o \in todo[r]
    /\ \A q \in Runners \ {r} : o \notin newEvents[q]
    /\ todo' = [todo EXCEPT ![r] = @ \ {o}]
    /\ cur' = [cur EXCEPT ![r] = o]
    /\ \/ /\ o \notin events \cup newEvents[r]
          /\ newEvents' = [newEvents EXCEPT ![r] = @ \cup {o}]
          /\ Goto(r, "read")
       \/ /\ o \in events \cup newEvents[r]
          /\ Goto(r, "readDuplicate")
          /\ UNCHANGED newEvents
    /\ UNCHANGED <<dbVars, intents, holder, current, reduced, writeVars>>

(* A fault: the row is read without FOR UPDATE.                            *)
GetCanonicalUnlocked(r) ==
    LET p == cur[r].payment IN
    /\ pc[r] \in {"read", "readDuplicate"}
    /\ current' = [current EXCEPT ![r] = View(r, p)]
    /\ Goto(r, IF pc[r] = "read" THEN "link" ELSE "open")
    /\ UNCHANGED <<dbVars, intents, holder, todo, cur, reduced, writeVars, newEvents>>

(* SELECT ... FOR UPDATE: a committed row is waited for and locked, where  *)
(* there is none nothing is.  A duplicate ends here.                       *)
GetCanonicalPayment(r) ==
    LET p == cur[r].payment IN
    /\ pc[r] \in {"read", "readDuplicate"}
    /\ \/ /\ canon[p] # NoRow
          /\ Free(r, p)
          /\ holder' = [holder EXCEPT ![p] = r]
       \/ canon[p] = NoRow /\ UNCHANGED holder
    /\ current' = [current EXCEPT ![r] = View(r, p)]
    /\ Goto(r, IF pc[r] = "read" THEN "link" ELSE "open")
    /\ UNCHANGED <<dbVars, intents, todo, cur, reduced, writeVars, newEvents>>

(* ReducePaymentState and linkIntent.                                      *)
ReducePaymentState(r) ==
    LET p == cur[r].payment IN
    /\ pc[r] = "link"
    /\ reduced' = [reduced EXCEPT ![r] =
          [status |-> nextStatus(current[r].status, cur[r].status),
           linked |-> current[r].linked \/ p \in intents]]
    /\ Goto(r, "write")
    /\ UNCHANGED <<dbVars, intents, holder, todo, cur, current, writeVars, newEvents>>

(* A fault: only a new link counts as a change.                            *)
changedLinkOnly(old, new) == old = NoRow \/ old.linked # new.linked

changed(old, new) ==
    old = NoRow \/ old.status # new.status \/ old.linked # new.linked

(* UpsertCanonicalPayment, waiting for whoever holds the row, and the      *)
(* outbox rows, whose idempotency keys make a repeated one a no-op.        *)
UpsertCanonicalPayment(r) ==
    LET p == cur[r].payment
        new == reduced[r]
    IN
    /\ pc[r] = "write"
    /\ Free(r, p)
    /\ holder' = [holder EXCEPT ![p] = r]
    /\ mine' = [mine EXCEPT ![r][p] = new]
    /\ newObserved' = [newObserved EXCEPT ![r] = @ \cup {<<p, cur[r].hash>>}]
    /\ newUpdated' = [newUpdated EXCEPT ![r] =
          IF changed(current[r], new) THEN @ \cup {<<p, new.status, cur[r].hash>>} ELSE @]
    /\ inserted' = [inserted EXCEPT ![r] =
          IF current[r] = NoRow THEN @ \cup {p} ELSE @]
    /\ Goto(r, "open")
    /\ UNCHANGED <<dbVars, intents, todo, itemVars, newEvents>>

-----------------------------------------------------------------------------
(* The end of a transaction: locks and private writes are gone.            *)
End(r) ==
    /\ Goto(r, "idle")
    /\ holder' = [p \in Payments |-> IF holder[p] = r THEN NoRunner ELSE holder[p]]
    /\ todo' = [todo EXCEPT ![r] = {}]
    /\ cur' = [cur EXCEPT ![r] = NoObservation]
    /\ current' = [current EXCEPT ![r] = NoRow]
    /\ reduced' = [reduced EXCEPT ![r] = NoRow]
    /\ mine' = [mine EXCEPT ![r] = NoRows]
    /\ newEvents' = [newEvents EXCEPT ![r] = {}]
    /\ newObserved' = [newObserved EXCEPT ![r] = {}]
    /\ newUpdated' = [newUpdated EXCEPT ![r] = {}]
    /\ inserted' = [inserted EXCEPT ![r] = {}]

Commit(r) ==
    /\ pc[r] = "open" /\ todo[r] = {}
    /\ canon' = [p \in Payments |-> View(r, p)]
    /\ events' = events \cup newEvents[r]
    /\ observed' = observed \cup newObserved[r]
    /\ updated' = updated \cup newUpdated[r]
    /\ End(r)
    /\ UNCHANGED intents

(* A fault: the observation is stored outside the transaction.             *)
RollbackKeepsEvents(r) ==
    /\ pc[r] # "idle"
    /\ events' = events \cup newEvents[r]
    /\ End(r)
    /\ UNCHANGED <<canon, observed, updated, intents>>

(* An error, a crash, or the database breaking a deadlock.                 *)
Rollback(r) ==
    /\ pc[r] # "idle"
    /\ End(r)
    /\ UNCHANGED <<dbVars, intents>>

(* insertCanonicalIntent commits the intent behind a payment's order.      *)
insertCanonicalIntent(p) ==
    /\ p \notin intents
    /\ intents' = intents \cup {p}
    /\ UNCHANGED <<dbVars, holder, pc, todo, itemVars, writeVars, newEvents>>

Process(r) ==
    \/ \E o \in Observations : InsertObservationEvent(r, o)
    \/ GetCanonicalPayment(r) \/ ReducePaymentState(r) \/ UpsertCanonicalPayment(r)

Next ==
    \/ \E r \in Runners :
          \/ \E B \in Batches : Begin(r, B)
          \/ Process(r) \/ Commit(r) \/ Rollback(r)
    \/ \E p \in Payments : insertCanonicalIntent(p)

Spec == Init /\ [][Next]_vars

-----------------------------------------------------------------------------
(* Processor.Process is all or nothing, page by page: an observation is    *)
(* stored exactly if its event is in the outbox, whatever duplicates,      *)
(* rollbacks and crashes did, so downstream hears of every one.            *)
StoredIsAnnounced ==
    observed = {<<o.payment, o.hash>> : o \in events}

(* The canonical status is one the provider reported in an observation     *)
(* that is itself stored: no interleaving of readers and writers, and no   *)
(* rollback, leaves a status behind that nobody reported.                  *)
StatusIsReported ==
    \A p \in Payments : canon[p] # NoRow =>
        \E o \in events : o.payment = p /\ o.status = canon[p].status

(* Every status the row takes was announced with PaymentCanonicalUpdated,  *)
(* although a repeated idempotency key makes InsertOutbox a no-op.         *)
StatusIsAnnounced ==
    \A p \in Payments : canon[p] # NoRow =>
        \E h \in Hashes : <<p, canon[p].status, h>> \in updated

GoesBack(p) ==
    \/ Rank(canon'[p].status) < Rank(canon[p].status)
    \/ canon[p].linked /\ ~canon'[p].linked

(* ReducePaymentState admits no backward transition and FOR UPDATE keeps   *)
(* what it was computed from current: only a transaction that found no row *)
(* (and so reports KindInserted) can take a payment back.                  *)
OnlyBlindWritesGoBack ==
    [][\A p \in Payments : GoesBack(p) => \E r \in Runners : p \in inserted[r]]_vars
=============================================================================
