------------------------ MODULE OutboxRelayProofs ------------------------
(***************************************************************************)
(* The outbox relay for any number of events, workers, operators, lease    *)
(* ids, retries, faults, crashes and expired leases.                       *)
(***************************************************************************)
EXTENDS OutboxRelay, TLAPS

(* An acknowledgement, wherever it is, covers accounted events only.       *)
AcksBacked ==
    /\ \A w \in Workers : \A e \in toAck[w] : Accounted(e)
    /\ \A call \in late : call.kind = "ack" => \A e \in call.events : Accounted(e)

(* What a busy worker and a busy operator hold.                            *)
Busy ==
    /\ \A w \in Workers :
          /\ pc[w] # "idle" => lease[w] \in LeaseIds
          /\ pc[w] \in {"publish", "poison", "exhausted"} => cur[w] \in Events
          /\ pc[w] = "publish" => cur[w] \notin Unrouted \cup Invalid \cup Tampered
          /\ pc[w] = "exhausted" => cur[w] \notin Bad
    /\ \A o \in Operators :
          /\ rpc[o] # "idle" => target[o] \in Events \ Bad
          /\ rpc[o] = "succeeded" => target[o] \in published

(* Rows that left the outbox carry no lease; pending ones can be retried.  *)
RowsReleased ==
    \A e \in Events :
        /\ status[e] # "PENDING" => leaseId[e] = NoLease
        /\ status[e] = "PENDING" => retryCount[e] < MaxRetries

(* Only failures of good events are ever open to replay.                   *)
ReplayableIsGood ==
    \A e \in Events : ledger[e] \in {"PENDING", "REPLAYING", "REPLAYED"} => e \notin Bad

IInv ==
    /\ TypeOK
    /\ AcksBacked
    /\ Busy
    /\ RowsReleased
    /\ ReplayableIsGood
    /\ NothingLost
    /\ BadNeverPublished
    /\ ReplayedIsPublished


-----------------------------------------------------------------------------
(* The invariant holds initially.                                          *)
LEMMA IInvInit == Init => IInv
  BY OutboxAssumption
  DEF Init, IInv, TypeOK, AcksBacked, Busy, RowsReleased, ReplayableIsGood,
      NothingLost, BadNeverPublished, ReplayedIsPublished, Accounted, LedgerStatus

(* LeaseOutboxBatch: the batch is pending, so no settled row gets a lease. *)
LEMMA LeaseStep ==
  ASSUME IInv, NEW w \in Workers, Lease(w)
  PROVE  IInv'
<1> USE OutboxAssumption DEF IInv, TypeOK, rowVars, dbVars, workerVars,
        operatorVars, Lease, Leasable
<1>1. TypeOK'
  BY SMTT(60) DEF LedgerStatus, Call
<1>2. Busy'
  BY DEF Busy, Bad
<1>3. RowsReleased'
  BY DEF RowsReleased
<1>4. AcksBacked' /\ ReplayableIsGood' /\ NothingLost' /\ BadNeverPublished' /\
      ReplayedIsPublished'
  BY DEF AcksBacked, ReplayableIsGood, NothingLost, BadNeverPublished,
         ReplayedIsPublished, Accounted, Call
<1>. QED
  BY <1>1, <1>2, <1>3, <1>4

(* A refused event is quarantined or nacked, never offered for replay.     *)
LEMMA RefuseUnroutedStep ==
  ASSUME IInv, NEW w \in Workers, NEW e \in Events, RefuseUnrouted(w, e)
  PROVE  IInv'
<1> USE OutboxAssumption DEF IInv, TypeOK, rowVars, dbVars, workerVars,
        operatorVars, RefuseUnrouted, Take, Nackable, StayInBatch, Record,
        Fault
<1>1. TypeOK'
  BY SMTT(60) DEF LedgerStatus, Call
<1>2. AcksBacked'
  BY DEF AcksBacked, Accounted, Call
<1>3. ReplayableIsGood'
  BY DEF ReplayableIsGood, Bad
<1>4. NothingLost'
  BY DEF NothingLost, Accounted
<1>5. ReplayedIsPublished'
  BY DEF ReplayedIsPublished
<1>6. Busy' /\ RowsReleased' /\ BadNeverPublished'
  BY DEF Busy, RowsReleased, BadNeverPublished
<1>. QED
  BY <1>1, <1>2, <1>3, <1>4, <1>5, <1>6

(* An invalid event is acknowledged only with its record.                  *)
LEMMA RefuseInvalidStep ==
  ASSUME IInv, NEW w \in Workers, NEW e \in Events, RefuseInvalid(w, e)
  PROVE  IInv'
<1> USE OutboxAssumption DEF IInv, TypeOK, rowVars, dbVars, workerVars,
        operatorVars, RefuseInvalid, Take, StayInBatch, Record, Ackable,
        Fault, Nackable
<1>1. TypeOK'
  BY SMTT(60) DEF LedgerStatus, Call
<1>2. AcksBacked'
  BY DEF AcksBacked, Accounted, Call
<1>3. ReplayableIsGood'
  BY DEF ReplayableIsGood, Bad
<1>4. NothingLost'
  BY DEF NothingLost, Accounted
<1>5. ReplayedIsPublished'
  BY DEF ReplayedIsPublished
<1>6. Busy' /\ RowsReleased' /\ BadNeverPublished'
  BY DEF Busy, RowsReleased, BadNeverPublished
<1>. QED
  BY <1>1, <1>2, <1>3, <1>4, <1>5, <1>6

(* A tampered event goes to the poison path, not to the publisher.         *)
LEMMA RefuseTamperedStep ==
  ASSUME IInv, NEW w \in Workers, NEW e \in Events, RefuseTampered(w, e)
  PROVE  IInv'
<1> USE OutboxAssumption DEF IInv, TypeOK, rowVars, dbVars, workerVars,
        operatorVars, RefuseTampered, Take, Nackable, StayInBatch, Fault
<1>1. TypeOK'
  BY SMTT(60) DEF LedgerStatus, Call
<1>2. Busy'
  BY DEF Busy, Bad
<1>3. AcksBacked' /\ RowsReleased' /\ ReplayableIsGood' /\ NothingLost' /\
      BadNeverPublished' /\ ReplayedIsPublished'
  BY DEF AcksBacked, RowsReleased, ReplayableIsGood, NothingLost,
         BadNeverPublished, ReplayedIsPublished, Accounted, Call
<1>. QED
  BY <1>1, <1>2, <1>3

(* Only an event that passed all checks is published.                      *)
LEMMA StartPublishStep ==
  ASSUME IInv, NEW w \in Workers, NEW e \in Events, StartPublish(w, e)
  PROVE  IInv'
<1> USE OutboxAssumption DEF IInv, TypeOK, rowVars, dbVars, workerVars,
        operatorVars, StartPublish, Take
<1>1. TypeOK'
  BY SMTT(60) DEF LedgerStatus, Call
<1>2. Busy'
  BY DEF Busy, Bad
<1>3. AcksBacked' /\ RowsReleased' /\ ReplayableIsGood' /\ NothingLost' /\
      BadNeverPublished' /\ ReplayedIsPublished'
  BY DEF AcksBacked, RowsReleased, ReplayableIsGood, NothingLost,
         BadNeverPublished, ReplayedIsPublished, Accounted, Call
<1>. QED
  BY <1>1, <1>2, <1>3

(* A published event is accounted for.                                     *)
LEMMA PublishSucceedsStep ==
  ASSUME IInv, NEW w \in Workers, PublishSucceeds(w)
  PROVE  IInv'
<1> USE OutboxAssumption DEF IInv, TypeOK, rowVars, dbVars, workerVars,
        operatorVars, PublishSucceeds, Ackable, BackToBatch
<1>1. TypeOK'
  BY SMTT(60) DEF Busy, RowsReleased, LedgerStatus, Call
<1>2. AcksBacked'
  BY DEF AcksBacked, Accounted, Call, Busy
<1>3. Busy'
  BY DEF Busy, Bad
<1>4. NothingLost'
  BY DEF NothingLost, Accounted
<1>5. BadNeverPublished'
  BY DEF BadNeverPublished, Bad, Busy
<1>6. ReplayedIsPublished'
  BY DEF ReplayedIsPublished, Busy
<1>7. RowsReleased' /\ ReplayableIsGood'
  BY DEF RowsReleased, ReplayableIsGood
<1>. QED
  BY <1>1, <1>2, <1>3, <1>4, <1>5, <1>6, <1>7

(* Only a good event can end up exhausted.                                 *)
LEMMA PublishFailsStep ==
  ASSUME IInv, NEW w \in Workers, PublishFails(w)
  PROVE  IInv'
<1> USE OutboxAssumption DEF IInv, TypeOK, rowVars, dbVars, workerVars,
        operatorVars, PublishFails
<1>1. TypeOK'
  BY SMTT(60) DEF Busy, RowsReleased, LedgerStatus, Call
<1>2. AcksBacked'
  BY DEF AcksBacked, Accounted, Call, Busy
<1>3. Busy'
  BY DEF Busy, Bad
<1>4. NothingLost'
  BY DEF NothingLost, Accounted
<1>5. BadNeverPublished'
  BY DEF BadNeverPublished, Bad, Busy
<1>6. ReplayedIsPublished'
  BY DEF ReplayedIsPublished, Busy
<1>7. RowsReleased' /\ ReplayableIsGood'
  BY DEF RowsReleased, ReplayableIsGood
<1>. QED
  BY <1>1, <1>2, <1>3, <1>4, <1>5, <1>6, <1>7

(* The record is committed before the event becomes ackable.               *)
LEMMA RecordDurableFailureStep ==
  ASSUME IInv, NEW w \in Workers, RecordDurableFailure(w)
  PROVE  IInv'
<1> USE OutboxAssumption DEF IInv, TypeOK, rowVars, dbVars, workerVars,
        operatorVars, RecordDurableFailure, Record, Ackable, Fault, Nackable,
        BackToBatch
<1>1. TypeOK'
  BY SMTT(60) DEF Busy, RowsReleased, LedgerStatus, Call
<1>2. AcksBacked'
  BY DEF AcksBacked, Accounted, Call, Busy
<1>3. Busy'
  BY DEF Busy, Bad
<1>4. ReplayableIsGood'
  BY DEF ReplayableIsGood, Bad, Busy
<1>5. NothingLost'
  BY DEF NothingLost, Accounted
<1>6. ReplayedIsPublished'
  BY DEF ReplayedIsPublished, Busy
<1>7. RowsReleased' /\ BadNeverPublished'
  BY DEF RowsReleased, BadNeverPublished
<1>. QED
  BY <1>1, <1>2, <1>3, <1>4, <1>5, <1>6, <1>7

(* The batch is done.                                                      *)
LEMMA BatchDoneStep ==
  ASSUME IInv, NEW w \in Workers, BatchDone(w)
  PROVE  IInv'
<1> USE OutboxAssumption DEF IInv, TypeOK, rowVars, dbVars, workerVars,
        operatorVars, BatchDone
<1>1. TypeOK'
  BY SMTT(60) DEF LedgerStatus, Call
<1>2. Busy'
  BY DEF Busy, Bad
<1>3. AcksBacked' /\ RowsReleased' /\ ReplayableIsGood' /\ NothingLost' /\
      BadNeverPublished' /\ ReplayedIsPublished'
  BY DEF AcksBacked, RowsReleased, ReplayableIsGood, NothingLost,
         BadNeverPublished, ReplayedIsPublished, Accounted, Call
<1>. QED
  BY <1>1, <1>2, <1>3

(* The ack settles accounted rows under their own lease, or comes late.    *)
LEMMA AckStep ==
  ASSUME IInv, NEW w \in Workers, Ack(w)
  PROVE  IInv'
<1> USE OutboxAssumption DEF IInv, TypeOK, rowVars, dbVars, workerVars,
        operatorVars, Ack, CallUpstream, Apply, Fault, AckOutboxBatch,
        NackOutboxBatch, Owned, Release
<1>1. TypeOK'
  BY SMTT(60) DEF Busy, RowsReleased, LedgerStatus, Call
<1>2. AcksBacked'
  BY DEF AcksBacked, Accounted, Call
<1>3. Busy'
  BY DEF Busy, Bad
<1>4. RowsReleased'
  BY DEF RowsReleased
<1>5. NothingLost'
  BY DEF NothingLost, Accounted, AcksBacked
<1>6. ReplayableIsGood' /\ BadNeverPublished' /\ ReplayedIsPublished'
  BY DEF ReplayableIsGood, BadNeverPublished, ReplayedIsPublished
<1>. QED
  BY <1>1, <1>2, <1>3, <1>4, <1>5, <1>6

(* The nack gives rows back or abandons them.                              *)
LEMMA NackStep ==
  ASSUME IInv, NEW w \in Workers, Nack(w)
  PROVE  IInv'
<1> USE OutboxAssumption DEF IInv, TypeOK, rowVars, dbVars, workerVars,
        operatorVars, Nack, CallUpstream, Apply, Fault, AckOutboxBatch,
        NackOutboxBatch, Owned, Release
<1>1. TypeOK'
  BY SMTT(60) DEF Busy, RowsReleased, LedgerStatus, Call
<1>2. AcksBacked'
  BY DEF AcksBacked, Accounted, Call
<1>3. Busy'
  BY DEF Busy, Bad
<1>4. RowsReleased'
  BY DEF RowsReleased
<1>5. NothingLost'
  BY DEF NothingLost, Accounted
<1>6. ReplayableIsGood' /\ BadNeverPublished' /\ ReplayedIsPublished'
  BY DEF ReplayableIsGood, BadNeverPublished, ReplayedIsPublished
<1>. QED
  BY <1>1, <1>2, <1>3, <1>4, <1>5, <1>6

(* A worker's memory is lost, its lease is not.                            *)
LEMMA CrashWorkerStep ==
  ASSUME IInv, NEW w \in Workers, CrashWorker(w)
  PROVE  IInv'
<1> USE OutboxAssumption DEF IInv, TypeOK, rowVars, dbVars, workerVars,
        operatorVars, CrashWorker
<1>1. TypeOK'
  BY SMTT(60) DEF LedgerStatus, Call
<1>2. AcksBacked'
  BY DEF AcksBacked, Accounted, Call
<1>3. Busy'
  BY DEF Busy, Bad
<1>4. RowsReleased' /\ ReplayableIsGood' /\ NothingLost' /\ BadNeverPublished' /\
      ReplayedIsPublished'
  BY DEF RowsReleased, ReplayableIsGood, NothingLost, BadNeverPublished,
         ReplayedIsPublished, Accounted
<1>. QED
  BY <1>1, <1>2, <1>3, <1>4

(* Only an open failure, hence a good event, is replayed.                  *)
LEMMA BeginReplayStep ==
  ASSUME IInv, NEW o \in Operators, NEW e \in Events, BeginReplay(o, e)
  PROVE  IInv'
<1> USE OutboxAssumption DEF IInv, TypeOK, rowVars, dbVars, workerVars,
        operatorVars, BeginReplay
<1>1. TypeOK'
  BY SMTT(60) DEF LedgerStatus, Call
<1>2. AcksBacked'
  BY DEF AcksBacked, Accounted, Call
<1>3. Busy'
  BY DEF Busy, Bad, ReplayableIsGood
<1>4. ReplayableIsGood'
  BY DEF ReplayableIsGood, Bad
<1>5. NothingLost'
  BY DEF NothingLost, Accounted
<1>6. ReplayedIsPublished'
  BY DEF ReplayedIsPublished
<1>7. RowsReleased' /\ BadNeverPublished'
  BY DEF RowsReleased, BadNeverPublished
<1>. QED
  BY <1>1, <1>2, <1>3, <1>4, <1>5, <1>6, <1>7

(* A replayed event is good.                                               *)
LEMMA ReplayPublishStep ==
  ASSUME IInv, NEW o \in Operators, ReplayPublish(o)
  PROVE  IInv'
<1> USE OutboxAssumption DEF IInv, TypeOK, rowVars, dbVars, workerVars,
        operatorVars, ReplayPublish
<1>1. TypeOK'
  BY SMTT(60) DEF Busy, RowsReleased, LedgerStatus, Call
<1>2. AcksBacked'
  BY DEF AcksBacked, Accounted, Call, Busy
<1>3. Busy'
  BY DEF Busy, Bad
<1>4. NothingLost'
  BY DEF NothingLost, Accounted
<1>5. BadNeverPublished'
  BY DEF BadNeverPublished, Bad, Busy
<1>6. ReplayedIsPublished'
  BY DEF ReplayedIsPublished, Busy
<1>7. RowsReleased' /\ ReplayableIsGood'
  BY DEF RowsReleased, ReplayableIsGood
<1>. QED
  BY <1>1, <1>2, <1>3, <1>4, <1>5, <1>6, <1>7

(* REPLAYED is written only after the replay was published.                *)
LEMMA CompleteReplayStep ==
  ASSUME IInv, NEW o \in Operators, CompleteReplay(o)
  PROVE  IInv'
<1> USE OutboxAssumption DEF IInv, TypeOK, rowVars, dbVars, workerVars,
        operatorVars, CompleteReplay, Fault
<1>1. TypeOK'
  BY SMTT(60) DEF Busy, RowsReleased, LedgerStatus, Call
<1>2. AcksBacked'
  BY DEF AcksBacked, Accounted, Call, Busy
<1>3. Busy'
  BY DEF Busy, Bad
<1>4. ReplayableIsGood'
  BY DEF ReplayableIsGood, Bad, Busy
<1>5. NothingLost'
  BY DEF NothingLost, Accounted
<1>6. ReplayedIsPublished'
  BY DEF ReplayedIsPublished, Busy
<1>7. RowsReleased' /\ BadNeverPublished'
  BY DEF RowsReleased, BadNeverPublished
<1>. QED
  BY <1>1, <1>2, <1>3, <1>4, <1>5, <1>6, <1>7

(* An operator's memory is lost.                                           *)
LEMMA CrashOperatorStep ==
  ASSUME IInv, NEW o \in Operators, CrashOperator(o)
  PROVE  IInv'
<1> USE OutboxAssumption DEF IInv, TypeOK, rowVars, dbVars, workerVars,
        operatorVars, CrashOperator
<1>1. TypeOK'
  BY SMTT(60) DEF LedgerStatus, Call
<1>2. Busy'
  BY DEF Busy, Bad
<1>3. AcksBacked' /\ RowsReleased' /\ ReplayableIsGood' /\ NothingLost' /\
      BadNeverPublished' /\ ReplayedIsPublished'
  BY DEF AcksBacked, RowsReleased, ReplayableIsGood, NothingLost,
         BadNeverPublished, ReplayedIsPublished, Accounted, Call
<1>. QED
  BY <1>1, <1>2, <1>3

(* Time passes.                                                            *)
LEMMA LeaseExpiresStep ==
  ASSUME IInv, NEW e \in Events, LeaseExpires(e)
  PROVE  IInv'
<1> USE OutboxAssumption DEF IInv, TypeOK, rowVars, dbVars, workerVars,
        operatorVars, LeaseExpires, HolderAlive
<1>1. TypeOK'
  BY SMTT(60) DEF LedgerStatus, Call
<1>2. AcksBacked' /\ Busy' /\ RowsReleased' /\ ReplayableIsGood' /\ NothingLost' /\
      BadNeverPublished' /\ ReplayedIsPublished'
  BY DEF AcksBacked, Busy, RowsReleased, ReplayableIsGood, NothingLost,
         BadNeverPublished, ReplayedIsPublished, Accounted, Call
<1>. QED
  BY <1>1, <1>2

(* A late call still settles accounted rows only, and only its own.        *)
LEMMA LateCallStep ==
  ASSUME IInv, NEW call \in late, LateCall(call)
  PROVE  IInv'
<1> USE OutboxAssumption DEF IInv, TypeOK, rowVars, dbVars, workerVars,
        operatorVars, LateCall, Apply, AckOutboxBatch, NackOutboxBatch,
        Owned, Release
<1>1. TypeOK'
  BY SMTT(60) DEF Busy, RowsReleased, LedgerStatus, Call
<1>2. AcksBacked'
  BY DEF AcksBacked, Accounted, Call
<1>3. RowsReleased'
  BY DEF RowsReleased
<1>4. NothingLost'
  BY DEF NothingLost, Accounted, AcksBacked
<1>5. Busy' /\ ReplayableIsGood' /\ BadNeverPublished' /\ ReplayedIsPublished'
  BY DEF Busy, ReplayableIsGood, BadNeverPublished, ReplayedIsPublished
<1>. QED
  BY <1>1, <1>2, <1>3, <1>4, <1>5

(* Every step preserves the invariant.                                     *)
LEMMA IInvStep == IInv /\ [Next]_vars => IInv'
<1> SUFFICES ASSUME IInv, [Next]_vars PROVE IInv'
  OBVIOUS
<1>1. CASE Next
  BY <1>1, LeaseStep, RefuseUnroutedStep, RefuseInvalidStep,
     RefuseTamperedStep, StartPublishStep, PublishSucceedsStep,
     PublishFailsStep, RecordDurableFailureStep, BatchDoneStep, AckStep,
     NackStep, CrashWorkerStep, BeginReplayStep, ReplayPublishStep,
     CompleteReplayStep, CrashOperatorStep, LeaseExpiresStep, LateCallStep
  DEF Next, WorkerStep, OperatorStep, ProcessIntent
<1>2. CASE UNCHANGED vars
  BY <1>2
  DEF vars, rowVars, dbVars, workerVars, operatorVars, IInv, TypeOK, AcksBacked,
      Busy, RowsReleased, ReplayableIsGood, NothingLost, BadNeverPublished,
      ReplayedIsPublished, Accounted
<1>. QED
  BY <1>1, <1>2

(* The invariant holds in every reachable state.                           *)
LEMMA Invariance == Spec => []IInv
  BY IInvInit, IInvStep, PTL DEF Spec

-----------------------------------------------------------------------------
(* The relay's state keeps its type.                                       *)
THEOREM TypeCorrect == Spec => []TypeOK
  BY Invariance, PTL DEF IInv

(* However workers, leases and late calls interleave, an event is only     *)
(* settled when it is on its topic or its failure is on record.            *)
THEOREM NothingIsLost == Spec => []NothingLost
  BY Invariance, PTL DEF IInv

(* No refused event is ever published, by a worker or by a replay.         *)
THEOREM RefusedStaysOut == Spec => []BadNeverPublished
  BY Invariance, PTL DEF IInv

(* REPLAYED rows were published.                                           *)
THEOREM ReplaysAreReal == Spec => []ReplayedIsPublished
  BY Invariance, PTL DEF IInv

-----------------------------------------------------------------------------
(* The refinement.  Each step of the relay has one of five effects on what *)
(* the contract sees.                                                      *)

Settled == {e \in Events : status[e] = "SENT"}
Abandoned == {e \in Events : status[e] = "FAILED"}
Recorded == {e \in Events : ledger[e] # "none"}

Hidden == UNCHANGED <<published, Recorded, Settled, Abandoned>>

Delivers(e) == published' = published \cup {e} /\ UNCHANGED <<Recorded, Settled, Abandoned>>

Records(e) == Recorded' = Recorded \cup {e} /\ UNCHANGED <<published, Settled, Abandoned>>

Settles(S) ==
    /\ S \subseteq published \cup Recorded
    /\ S \cap Abandoned = {}
    /\ Settled' = Settled \cup S
    /\ UNCHANGED <<published, Recorded, Abandoned>>

Abandons(S) ==
    /\ S \cap Settled = {}
    /\ Abandoned' = Abandoned \cup S
    /\ UNCHANGED <<published, Recorded, Settled>>

Effect ==
    \/ Hidden
    \/ \E e \in Events : Delivers(e) \/ Records(e)
    \/ \E S \in SUBSET Events : Settles(S) \/ Abandons(S)

(* Those effects are the contract's steps.                                 *)
LEMMA EffectsAreAllowed == Effect => [Contract!Next]_(Contract!vars)
  BY DEF Effect, Hidden, Delivers, Records, Settles, Abandons, Settled,
         Abandoned, Recorded, Contract!Next, Contract!vars, Contract!Deliver,
         Contract!RecordFailure, Contract!Settle, Contract!Abandon

(* Rows of a real lease are still pending, so an acknowledgement of        *)
(* accounted events settles them and brings no abandoned row back.         *)
LEMMA AckSettles ==
  ASSUME IInv, NEW l \in LeaseIds, NEW S \in SUBSET Events,
         \A e \in S : Accounted(e), AckOutboxBatch(l, S),
         UNCHANGED <<published, ledger>>
  PROVE  Settles(Owned(l, S)) /\ Owned(l, S) \in SUBSET Events
<1> USE OutboxAssumption DEF IInv, TypeOK, AckOutboxBatch, Owned
<1>1. Owned(l, S) \subseteq published \cup Recorded
  BY DEF Accounted, Recorded
<1>2. \A e \in Owned(l, S) : status[e] = "PENDING"
  BY DEF RowsReleased
<1>3. Owned(l, S) \cap Abandoned = {} /\ UNCHANGED Abandoned
  BY <1>2 DEF Abandoned
<1>4. Settled' = Settled \cup Owned(l, S)
  BY DEF Settled
<1>. QED
  BY <1>1, <1>3, <1>4 DEF Settles, Recorded

(* A negative acknowledgement abandons pending rows only.                  *)
LEMMA NackAbandons ==
  ASSUME IInv, NEW l \in LeaseIds, NEW S \in SUBSET Events,
         NackOutboxBatch(l, S), UNCHANGED <<published, ledger>>
  PROVE  \E T \in SUBSET Events : Abandons(T)
<1> DEFINE rows == {e \in Owned(l, S) : status[e] = "PENDING"}
<1>1. PICK old \in SUBSET rows :
         status' = [e \in Events |->
              IF e \in old \/ (e \in rows /\ retryCount[e] + 1 >= MaxRetries)
              THEN "FAILED" ELSE status[e]]
  BY DEF NackOutboxBatch
<1> DEFINE T == {e \in Events : e \in old \/ (e \in rows /\ retryCount[e] + 1 >= MaxRetries)}
<1>2. T \cap Settled = {}
  BY DEF Settled
<1>3. \A e \in Events : status'[e] = IF e \in T THEN "FAILED" ELSE status[e]
  BY <1>1
<1>4. \A e \in T : status[e] = "PENDING"
  OBVIOUS
<1> HIDE DEF T
<1>5. Abandoned' = Abandoned \cup T
  BY <1>3 DEF Abandoned, T
<1>6. Settled' = Settled
  BY <1>3, <1>4 DEF Settled
<1>7. T \in SUBSET Events
  BY DEF T
<1>. QED
  BY <1>2, <1>5, <1>6, <1>7 DEF Abandons, Recorded

(* A call that reaches the upstream, in time or late, has one effect.      *)
LEMMA CallHasEffect ==
  ASSUME IInv, NEW call \in Call, Apply(call), UNCHANGED <<published, ledger>>,
         call.kind = "ack" => \A e \in call.events : Accounted(e)
  PROVE  Effect
<1>1. call.lease \in LeaseIds /\ call.events \in SUBSET Events
  BY DEF Call
<1>2. CASE call.kind = "ack" /\ AckOutboxBatch(call.lease, call.events)
  BY <1>1, <1>2, AckSettles DEF Effect
<1>3. CASE call.kind = "nack" /\ NackOutboxBatch(call.lease, call.events)
  BY <1>1, <1>3, NackAbandons DEF Effect
<1>. QED
  BY <1>2, <1>3 DEF Apply

(* Worker steps that only move the batch along, crashes, the clock and the *)
(* start of a replay are invisible.                                        *)
LEMMA HiddenSteps ==
  ASSUME IInv, UNCHANGED <<published, status>>,
         \/ UNCHANGED ledger
         \/ \E e \in Events : ledger[e] = "PENDING" /\ ledger' = [ledger EXCEPT ![e] = "REPLAYING"]
  PROVE  Effect
  BY DEF IInv, TypeOK, Effect, Hidden, Recorded, Settled, Abandoned

(* A write to the ledger is a record of its event.                         *)
LEMMA LedgerSteps ==
  ASSUME IInv, UNCHANGED <<published, status>>, NEW e \in Events,
         NEW x \in LedgerStatus, ledger' = [ledger EXCEPT ![e] = x]
  PROVE  Effect
<1>1. Recorded' = Recorded \cup {e}
  BY DEF IInv, TypeOK, LedgerStatus, Recorded
<1>. QED
  BY <1>1 DEF Effect, Records, Settled, Abandoned

(* A message sent, acknowledged by Kafka or not, is a delivery or nothing. *)
LEMMA PublishSteps ==
  ASSUME NEW e \in Events, published' \in {published, published \cup {e}},
         UNCHANGED <<status, ledger>>
  PROVE  Effect
  BY DEF Effect, Hidden, Delivers, Recorded, Settled, Abandoned

(* A call made by a worker reaches the upstream, or nothing is seen of it. *)
LEMMA CallSteps ==
  ASSUME IInv, NEW call \in Call, CallUpstream(call), UNCHANGED <<published, ledger>>,
         call.kind = "ack" => \A e \in call.events : Accounted(e)
  PROVE  Effect
<1>1. CASE Apply(call)
  BY <1>1, CallHasEffect
<1>2. CASE UNCHANGED rowVars
  BY <1>2, HiddenSteps DEF rowVars
<1>. QED
  BY <1>1, <1>2 DEF CallUpstream

(* Every step has one of the effects.                                      *)
LEMMA StepHasEffect == IInv /\ Next => Effect
<1> SUFFICES ASSUME IInv, Next PROVE Effect
  OBVIOUS
<1> USE DEF rowVars, dbVars, workerVars, operatorVars
<1>1. ASSUME NEW w \in Workers, Lease(w) \/ BatchDone(w) \/ CrashWorker(w)
      PROVE  Effect
  BY <1>1, HiddenSteps DEF Lease, BatchDone, CrashWorker
<1>2. ASSUME NEW w \in Workers, NEW e \in Events, ProcessIntent(w, e)
      PROVE  Effect
  <2>1. UNCHANGED <<published, status>>
    BY <1>2 DEF ProcessIntent, RefuseUnrouted, RefuseInvalid, RefuseTampered,
                StartPublish, Take
  <2>2. UNCHANGED ledger \/ Record(e, "QUARANTINED")
    BY <1>2 DEF ProcessIntent, RefuseUnrouted, RefuseInvalid, RefuseTampered,
                StartPublish
  <2>3. CASE Record(e, "QUARANTINED")
    BY <2>1, <2>3, LedgerSteps DEF Record, LedgerStatus
  <2>. QED
    BY <2>1, <2>2, <2>3, HiddenSteps
<1>3. ASSUME NEW w \in Workers, PublishSucceeds(w) \/ PublishFails(w)
      PROVE  Effect
  <2>1. cur[w] \in Events
    BY <1>3 DEF IInv, Busy, PublishSucceeds, PublishFails
  <2>. QED
    BY <1>3, <2>1, PublishSteps DEF PublishSucceeds, PublishFails
<1>4. ASSUME NEW w \in Workers, RecordDurableFailure(w)
      PROVE  Effect
  <2>1. cur[w] \in Events /\ UNCHANGED <<published, status>>
    BY <1>4 DEF IInv, Busy, RecordDurableFailure
  <2>2. CASE UNCHANGED ledger
    BY <2>1, <2>2, HiddenSteps
  <2>3. ASSUME NEW x \in {"QUARANTINED", "PENDING"}, Record(cur[w], x)
        PROVE  Effect
    BY <2>1, <2>3, LedgerSteps DEF Record, LedgerStatus
  <2>. QED
    BY <1>4, <2>2, <2>3 DEF RecordDurableFailure
<1>5. ASSUME NEW w \in Workers, Ack(w)
      PROVE  Effect
  <2>1. UNCHANGED <<published, ledger>>
    BY <1>5 DEF Ack
  <2>2. CASE toAck[w] = {}
    BY <1>5, <2>1, <2>2, HiddenSteps DEF Ack
  <2>3. CASE toAck[w] # {}
    <3> DEFINE call == [kind |-> "ack", lease |-> lease[w], events |-> toAck[w]]
    <3>1. call \in Call
      BY <1>5 DEF Ack, IInv, Busy, TypeOK, Call
    <3>2. \A e \in call.events : Accounted(e)
      BY DEF IInv, AcksBacked
    <3>3. CallUpstream(call)
      BY <1>5, <2>3 DEF Ack
    <3> HIDE DEF call
    <3>. QED
      BY <2>1, <3>1, <3>2, <3>3, CallSteps
  <2>. QED
    BY <2>2, <2>3
<1>6. ASSUME NEW w \in Workers, Nack(w)
      PROVE  Effect
  <2>1. UNCHANGED <<published, ledger>>
    BY <1>6 DEF Nack
  <2>2. CASE toNack[w] = {}
    BY <1>6, <2>1, <2>2, HiddenSteps DEF Nack
  <2>3. CASE toNack[w] # {}
    <3> DEFINE call == [kind |-> "nack", lease |-> lease[w], events |-> toNack[w]]
    <3>1. call \in Call /\ call.kind # "ack"
      BY <1>6 DEF Nack, IInv, Busy, TypeOK, Call
    <3>2. CallUpstream(call)
      BY <1>6, <2>3 DEF Nack
    <3> HIDE DEF call
    <3>. QED
      BY <2>1, <3>1, <3>2, CallSteps
  <2>. QED
    BY <2>2, <2>3
<1>7. ASSUME NEW o \in Operators, OperatorStep(o)
      PROVE  Effect
  <2>1. ASSUME NEW e \in Events, BeginReplay(o, e)
        PROVE  Effect
    BY <2>1, HiddenSteps DEF BeginReplay
  <2>2. rpc[o] # "idle" => target[o] \in Events
    BY DEF IInv, Busy
  <2>3. CASE ReplayPublish(o)
    BY <2>2, <2>3, PublishSteps DEF ReplayPublish
  <2>4. CASE CompleteReplay(o)
    <3>1. target[o] \in Events /\ UNCHANGED <<published, status>>
      BY <2>2, <2>4 DEF CompleteReplay
    <3>2. UNCHANGED ledger \/ \E x \in LedgerStatus : ledger' = [ledger EXCEPT ![target[o]] = x]
      BY <2>4 DEF CompleteReplay, LedgerStatus
    <3>. QED
      BY <3>1, <3>2, HiddenSteps, LedgerSteps
  <2>. QED
    BY <1>7, <2>1, <2>3, <2>4 DEF OperatorStep
<1>8. ASSUME NEW o \in Operators, CrashOperator(o)
      PROVE  Effect
  BY <1>8, HiddenSteps DEF CrashOperator
<1>9. ASSUME NEW e \in Events, LeaseExpires(e)
      PROVE  Effect
  BY <1>9, HiddenSteps DEF LeaseExpires
<1>10. ASSUME NEW call \in late, LateCall(call)
       PROVE  Effect
  <2>1. call \in Call /\ (call.kind = "ack" => \A e \in call.events : Accounted(e))
    BY DEF IInv, TypeOK, AcksBacked
  <2>2. Apply(call) /\ UNCHANGED <<published, ledger>>
    BY <1>10 DEF LateCall
  <2>. QED
    BY <2>1, <2>2, CallHasEffect
<1>. QED
  BY <1>1, <1>2, <1>3, <1>4, <1>5, <1>6, <1>7, <1>8, <1>9, <1>10
  DEF Next, WorkerStep

(* The relay implements the delivery contract: whatever workers, leases,   *)
(* late calls and replays do, an event is settled only when published or   *)
(* on record, abandoned only while pending, and stays what it became.      *)
THEOREM KeepsContract == Spec => ContractKept
<1>1. Init => Contract!Init
  BY DEF Init, Contract!Init
<1>2. IInv /\ [Next]_vars => [Contract!Next]_(Contract!vars)
  <2>1. CASE UNCHANGED vars
    BY <2>1 DEF vars, rowVars, dbVars, Contract!vars
  <2>. QED
    BY <2>1, StepHasEffect, EffectsAreAllowed
<1>. QED
  BY <1>1, <1>2, Invariance, PTL DEF Spec, ContractKept, Contract!Spec
=============================================================================
