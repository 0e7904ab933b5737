--------------------------- MODULE DispatchProofs ---------------------------
(***************************************************************************)
(* Payment safety of the dispatch pipeline, for any number of instances,   *)
(* goroutines, contracts, redeliveries, failures and crashes; and in-order *)
(* commit of the consumer that feeds it, for any number of workers, any    *)
(* partition length and any channel capacities: no session ever marks past *)
(* a message nobody took, and it marks one offset at a time; and the loop  *)
(* that relays the pipeline's events keeps the delivery contract.          *)
(***************************************************************************)
EXTENDS Dispatch, ClaimCommit, RelayLoop, TLAPS

-----------------------------------------------------------------------------
(* The pipeline: Dispatch.                                                 *)

(* A busy runner works on a contract.                                      *)
Working == \A r \in Runners : pc[r] # "idle" => work[r] \in Contracts

(* Past Step 1 a runner holds the reference stored in its contract's row.  *)
Referenced ==
    \A r \in Runners :
        pc[r] \notin {"idle", "find", "insert"} =>
            ref[r] = did[work[r]] /\ status[work[r]] # "NONE"

(* A row has an id exactly from its insert on, with its first event.       *)
Rows ==
    \A c \in Contracts :
        status[c] # "NONE" => did[c] \in Ids /\ "DispatchCreated" \in outbox[c]

(* Everything at the PSP, or on the way to it, carries the row's id.       *)
OneReference ==
    \A c \in Contracts : \A d \in Ids :
        payout[<<c, d>>] # "none" \/ <<c, d>> \in late => d = did[c]

(* Who is about to record an acknowledgement has seen the payout.          *)
AckSeen ==
    \A r \in Runners :
        pc[r] \in {"ack", "recoverAck"} => payout[<<work[r], ref[r]>>] # "none"

IInv ==
    /\ TypeOK
    /\ Working
    /\ Referenced
    /\ Rows
    /\ OneReference
    /\ AckSeen
    /\ PaymentAnchored
    /\ AckedIsHeld
    /\ TakenIsStored

-----------------------------------------------------------------------------
(* The initial state satisfies the invariant.                              *)
LEMMA IInvInit == Init => IInv
<1> USE DispatchAssumption DEF Init
<1>1. Init => TypeOK
  BY DEF TypeOK, Ids, NoId, Steps
<1>2. Init => Working /\ Referenced /\ Rows /\ AckSeen
  BY DEF Working, Referenced, Rows, AckSeen
<1>3. Init => OneReference /\ PaymentAnchored /\ AckedIsHeld /\ TakenIsStored
  BY DEF OneReference, PaymentAnchored, MayHaveMoved, AckedIsHeld, TakenIsStored
<1>. QED
  BY <1>1, <1>2, <1>3 DEF IInv

(* Types of the building blocks.                                           *)
LEMMA GotoType ==
  ASSUME TypeOK, NEW r \in Runners, NEW s \in Steps, Goto(r, s)
  PROVE  pc' \in [Runners -> Steps]
  BY DEF TypeOK, Goto

(* Forget: the runner's memory keeps its type.                             *)
LEMMA ForgetType ==
  ASSUME TypeOK, NEW r \in Runners, Forget(r)
  PROVE  /\ pc' \in [Runners -> Steps]
         /\ work' \in [Runners -> Contracts \cup {"none"}]
         /\ ref' \in [Runners -> Ids \cup {NoId}]
  BY DEF TypeOK, Forget, Steps

(* Finish: memory and taken messages keep their type.                      *)
LEMMA FinishType ==
  ASSUME TypeOK, NEW r \in Runners, work[r] \in Contracts, Finish(r)
  PROVE  /\ pc' \in [Runners -> Steps]
         /\ work' \in [Runners -> Contracts \cup {"none"}]
         /\ ref' \in [Runners -> Ids \cup {NoId}]
         /\ taken' \subseteq Contracts
  BY ForgetType DEF TypeOK, Finish

(* Commit: the database keeps its type.                                    *)
LEMMA CommitType ==
  ASSUME TypeOK, NEW c \in Contracts, NEW s \in DispatchStatus \cup {"NONE"},
         NEW e \in EventTypes, Commit(c, s, e)
  PROVE  /\ status' \in [Contracts -> DispatchStatus \cup {"NONE"}]
         /\ did' \in [Contracts -> Ids \cup {NoId}]
         /\ outbox' \in [Contracts -> SUBSET EventTypes]
         /\ conflicts' \subseteq Contracts
         /\ nextId' \in 1 .. (MaxIds + 1)
<1>1. outbox[c] \cup {e} \in SUBSET EventTypes
  BY DEF TypeOK
<1>. QED
  BY <1>1 DEF TypeOK, Commit

(* Fault, or none: the budget keeps its type.                              *)
LEMMA FaultType ==
  ASSUME TypeOK, Fault \/ NoFault
  PROVE  faults' \in 0 .. MaxFaults
  BY DispatchAssumption DEF TypeOK, Fault, NoFault

(* Accepted: the PSP keeps its type.                                       *)
LEMMA AcceptedType ==
  ASSUME TypeOK, NEW c \in Contracts, NEW d \in Ids, Accepted(c, d)
  PROVE  payout' \in [Contracts \X Ids -> {"none", "live", "failed"}]
  BY DEF TypeOK, Accepted

(* Whatever happens to the circuit breaker, it keeps its type.             *)
LEMMA CircuitType ==
  ASSUME TypeOK, NEW i \in Instances,
         CloseCircuit(i) \/ RecordPSPFailure(i) \/ UNCHANGED cbVars
  PROVE  /\ cbFailures' \in [Instances -> 0 .. Threshold]
         /\ cbOpen' \in [Instances -> BOOLEAN]
<1>1. CASE CloseCircuit(i)
  BY <1>1, DispatchAssumption DEF TypeOK, CloseCircuit
<1>2. CASE RecordPSPFailure(i)
  BY <1>2, DispatchAssumption DEF TypeOK, RecordPSPFailure
<1>3. CASE UNCHANGED cbVars
  BY <1>3 DEF TypeOK, cbVars
<1>. QED
  BY <1>1, <1>2, <1>3

(* What a runner holds past Step 1.                                        *)
LEMMA Held ==
  ASSUME IInv, NEW r \in Runners, pc[r] # "idle"
  PROVE  /\ work[r] \in Contracts
         /\ pc[r] \notin {"find", "insert"} =>
               /\ ref[r] = did[work[r]]
               /\ ref[r] \in Ids
               /\ status[work[r]] # "NONE"
               /\ "DispatchCreated" \in outbox[work[r]]
  BY DEF IInv, Working, Referenced, Rows

-----------------------------------------------------------------------------
(* The steps seen from the invariant: what each of them does to the rows,  *)
(* to the PSP, to the runners, and what it acknowledges and takes.         *)

Unsent == {"NONE", "PENDING", "HELD"}

(* Rows stay, keep their id and their events, and never look unsent again. *)
RowsKept ==
    /\ Rows'
    /\ \A c \in Contracts :
          /\ status[c] # "NONE" => status'[c] # "NONE" /\ did'[c] = did[c]
          /\ outbox[c] \subseteq outbox'[c]
          /\ status'[c] \in Unsent => status[c] \in Unsent

(* Payouts stay, and a new one comes from a request on its way.            *)
PayoutsKept ==
    \A c \in Contracts : \A d \in Ids :
        /\ payout[<<c, d>>] # "none" => payout'[<<c, d>>] # "none"
        /\ payout'[<<c, d>>] # "none" \/ <<c, d>> \in late' =>
              \/ payout[<<c, d>>] # "none" \/ <<c, d>> \in late
              \/ \E r \in Runners : pc[r] = "wait" /\ work[r] = c /\ ref[r] = d

(* A runner rests, goes idle, starts, or holds a stored contract.          *)
RunnerKept(r) ==
    \/ pc'[r] = "idle"
    \/ pc'[r] = pc[r] /\ work'[r] = work[r] /\ ref'[r] = ref[r]
    \/ pc'[r] \in {"find", "insert"} /\ work'[r] \in Contracts
    \/ /\ work'[r] \in Contracts
       /\ ref'[r] = did'[work'[r]]
       /\ status'[work'[r]] # "NONE"
       /\ pc'[r] \in {"ack", "recoverAck"} => payout'[<<work'[r], ref'[r]>>] # "none"
       /\ pc'[r] = "wait" => /\ status'[work'[r]] \notin Unsent
                             /\ "AttemptSent" \in outbox'[work'[r]]

(* A new acknowledgement is for a payout that is there.                    *)
AcksKept ==
    \A c \in Contracts :
        status'[c] = "PROVIDER_ACKED" \/ "ProviderAcked" \in outbox'[c] =>
            \/ status[c] = "PROVIDER_ACKED" \/ "ProviderAcked" \in outbox[c]
            \/ status[c] # "NONE" /\ payout[<<c, did[c]>>] # "none"

(* A new message is taken once its row is stored.                          *)
TakenKept ==
    \A c \in taken' \ Tampered : c \in taken \/ status[c] # "NONE"

(* A step with these five effects preserves the invariant.                 *)
LEMMA Preserved ==
  ASSUME IInv, TypeOK', RowsKept, PayoutsKept, \A r \in Runners : RunnerKept(r),
         AcksKept, TakenKept
  PROVE  IInv'
<1>1. Working'
  BY DEF IInv, Working, RunnerKept
<1>2. Referenced'
  <2> SUFFICES ASSUME NEW r \in Runners, pc'[r] \notin {"idle", "find", "insert"}
               PROVE  ref'[r] = did'[work'[r]] /\ status'[work'[r]] # "NONE"
    BY DEF Referenced
  <2>1. CASE pc'[r] = pc[r] /\ work'[r] = work[r] /\ ref'[r] = ref[r]
    BY <2>1, Held DEF RowsKept
  <2>. QED
    BY <2>1 DEF RunnerKept
<1>3. Rows'
  BY DEF RowsKept
<1>4. OneReference'
  <2> SUFFICES ASSUME NEW c \in Contracts, NEW d \in Ids,
                      payout'[<<c, d>>] # "none" \/ <<c, d>> \in late'
               PROVE  d = did'[c]
    BY DEF OneReference
  <2>1. CASE payout[<<c, d>>] # "none" \/ <<c, d>> \in late
    <3>1. status[c] # "NONE"
      BY <2>1 DEF IInv, PaymentAnchored, MayHaveMoved
    <3>. QED
      BY <2>1, <3>1 DEF IInv, OneReference, RowsKept
  <2>2. CASE \E r \in Runners : pc[r] = "wait" /\ work[r] = c /\ ref[r] = d
    BY <2>2, Held DEF RowsKept
  <2>. QED
    BY <2>1, <2>2 DEF PayoutsKept
<1>5. AckSeen'
  <2> SUFFICES ASSUME NEW r \in Runners, pc'[r] \in {"ack", "recoverAck"}
               PROVE  payout'[<<work'[r], ref'[r]>>] # "none"
    BY DEF AckSeen
  <2>1. CASE pc'[r] = pc[r] /\ work'[r] = work[r] /\ ref'[r] = ref[r]
    BY <2>1, Held DEF IInv, AckSeen, PayoutsKept
  <2>. QED
    BY <2>1 DEF RunnerKept
<1>6. PaymentAnchored'
  <2> SUFFICES ASSUME NEW c \in Contracts, MayHaveMoved(c)'
               PROVE  status'[c] \notin Unsent /\ "AttemptSent" \in outbox'[c]
    BY DEF PaymentAnchored, Unsent
  <2>1. MayHaveMoved(c) => status[c] \notin Unsent /\ "AttemptSent" \in outbox[c]
    BY DEF IInv, PaymentAnchored, Unsent
  <2>2. CASE MayHaveMoved(c)
    BY <2>1, <2>2 DEF RowsKept
  <2>3. CASE ~MayHaveMoved(c)
    <3>1. PICK r \in Runners : pc'[r] = "wait" /\ work'[r] = c
      BY <2>3 DEF MayHaveMoved, PayoutsKept
    <3>2. ~(pc[r] = "wait" /\ work[r] = c)
      BY <2>3 DEF MayHaveMoved
    <3>. QED
      BY <3>1, <3>2 DEF RunnerKept
  <2>. QED
    BY <2>2, <2>3
<1>7. AckedIsHeld'
  <2> SUFFICES ASSUME NEW c \in Contracts,
                      status'[c] = "PROVIDER_ACKED" \/ "ProviderAcked" \in outbox'[c]
               PROVE  did'[c] \in Ids /\ payout'[<<c, did'[c]>>] # "none"
    BY DEF AckedIsHeld
  <2>1. did[c] \in Ids /\ payout[<<c, did[c]>>] # "none"
    BY DEF IInv, AckedIsHeld, AcksKept, Rows
  <2>2. status[c] # "NONE"
    BY <2>1 DEF IInv, PaymentAnchored, MayHaveMoved
  <2>. QED
    BY <2>1, <2>2 DEF RowsKept, PayoutsKept
<1>8. TakenIsStored'
  <2> SUFFICES ASSUME NEW c \in taken' \ Tampered
               PROVE  status'[c] # "NONE" /\ "DispatchCreated" \in outbox'[c]
    BY DEF TakenIsStored
  <2>1. c \in Contracts /\ status[c] # "NONE"
    BY DEF TakenKept, IInv, TypeOK, TakenIsStored
  <2>. QED
    BY <2>1 DEF IInv, Rows, RowsKept
<1>. QED
  BY <1>1, <1>2, <1>3, <1>4, <1>5, <1>6, <1>7, <1>8 DEF IInv

(* Frames: a step that leaves the database, the PSP or Kafka alone.        *)
LEMMA DbFrame ==
  ASSUME IInv, UNCHANGED <<status, did, outbox>>
  PROVE  RowsKept /\ AcksKept
  BY DEF IInv, Rows, RowsKept, AcksKept

(* A step that leaves the PSP alone.                                       *)
LEMMA PspFrame ==
  ASSUME UNCHANGED pspVars
  PROVE  PayoutsKept
  BY DEF pspVars, PayoutsKept

(* A step that takes no message.                                           *)
LEMMA KafkaFrame ==
  ASSUME UNCHANGED taken
  PROVE  TakenKept
  BY DEF TakenKept

(* One committed transaction on a stored row.                              *)
LEMMA CommitKeeps ==
  ASSUME IInv, NEW c \in Contracts, NEW s \in DispatchStatus, NEW e \in EventTypes,
         status[c] # "NONE",
         s \in Unsent => status[c] \in Unsent,
         s = "PROVIDER_ACKED" \/ e = "ProviderAcked" =>
             status[c] = "PROVIDER_ACKED" \/ payout[<<c, did[c]>>] # "none",
         Commit(c, s, e)
  PROVE  /\ RowsKept
         /\ AcksKept
         /\ UNCHANGED did
         /\ status'[c] = s
         /\ e \in outbox'[c]
         /\ \A k \in Contracts : status[k] # "NONE" => status'[k] # "NONE"
<1> USE DEF IInv, TypeOK, Commit
<1>1. /\ status' = [status EXCEPT ![c] = s] /\ did' = did
      /\ outbox' = [outbox EXCEPT ![c] = @ \cup {e}]
  OBVIOUS
<1>2. s # "NONE"
  BY DEF DispatchStatus
<1>3. Rows'
  BY <1>1, <1>2 DEF Rows
<1>4. RowsKept
  BY <1>1, <1>2, <1>3 DEF RowsKept
<1>5. AcksKept
  BY <1>1, <1>2 DEF AcksKept
<1>. QED
  BY <1>1, <1>2, <1>4, <1>5

(* A stored contract is finished.                                          *)
LEMMA FinishKeeps ==
  ASSUME IInv, NEW r \in Runners, status[work[r]] # "NONE", Finish(r)
  PROVE  TakenKept /\ \A s \in Runners : RunnerKept(s)
  BY DEF IInv, TypeOK, Finish, Forget, TakenKept, RunnerKept

(* A contract is dropped without taking its message.                       *)
LEMMA ForgetKeeps ==
  ASSUME IInv, NEW r \in Runners, Forget(r)
  PROVE  \A s \in Runners : RunnerKept(s)
  BY DEF IInv, TypeOK, Forget, RunnerKept

(* A runner goes on with the contract it holds.                            *)
LEMMA GotoKeeps ==
  ASSUME IInv, RowsKept, NEW r \in Runners, NEW step \in Steps,
         pc[r] \notin {"idle", "find", "insert"},
         Goto(r, step), UNCHANGED memVars,
         step \in {"ack", "recoverAck"} => payout'[<<work[r], ref[r]>>] # "none",
         step = "wait" => /\ status'[work[r]] \notin Unsent
                          /\ "AttemptSent" \in outbox'[work[r]]
  PROVE  \A s \in Runners : RunnerKept(s)
<1>1. \A s \in Runners : /\ pc'[s] = IF s = r THEN step ELSE pc[s]
                         /\ work'[s] = work[s] /\ ref'[s] = ref[s]
  BY DEF IInv, TypeOK, Goto, memVars
<1>2. /\ work[r] \in Contracts
      /\ ref[r] = did'[work[r]] /\ status'[work[r]] # "NONE"
  BY Held DEF RowsKept
<1>. QED
  BY <1>1, <1>2 DEF RunnerKept

-----------------------------------------------------------------------------
(* processEvent, Step 1.                                                   *)
LEMMA FindStep ==
  ASSUME IInv, NEW r \in Runners, FindByContractAndAttempt(r)
  PROVE  IInv'
<1> USE DEF FindByContractAndAttempt
<1>1. work[r] \in Contracts /\ pc[r] = "find"
  BY Held
<1>2. RowsKept /\ AcksKept /\ PayoutsKept
  BY DbFrame, PspFrame DEF dbVars
<1>3. faults' \in 0 .. MaxFaults
  BY FaultType DEF IInv
<1>4. CASE status[work[r]] = "NONE" /\ Goto(r, "insert") /\ UNCHANGED <<memVars, taken>>
  <2>1. TypeOK'
    BY <1>3, <1>4, GotoType
    DEF IInv, TypeOK, dbVars, pspVars, cbVars, memVars, Steps
  <2>2. \A s \in Runners : RunnerKept(s)
    BY <1>1, <1>4 DEF IInv, TypeOK, Goto, memVars, RunnerKept
  <2>. QED
    BY <1>2, <1>4, <2>1, <2>2, KafkaFrame, Preserved
<1>5. CASE status[work[r]] \in Terminal /\ Finish(r)
  <2>1. TypeOK'
    BY <1>1, <1>3, <1>5, FinishType DEF IInv, TypeOK, dbVars, pspVars, cbVars
  <2>. QED
    BY <1>2, <1>5, <2>1, FinishKeeps, Preserved DEF Terminal
<1>6. CASE /\ status[work[r]] \notin Terminal \cup {"NONE"}
           /\ ref' = [ref EXCEPT ![r] = did[work[r]]]
           /\ Goto(r, "govern") /\ UNCHANGED <<work, taken>>
  <2>1. TypeOK'
    BY <1>1, <1>3, <1>6, GotoType DEF IInv, TypeOK, dbVars, pspVars, cbVars, Steps
  <2>2. \A s \in Runners : RunnerKept(s)
    BY <1>1, <1>6 DEF IInv, TypeOK, Goto, dbVars, RunnerKept
  <2>. QED
    BY <1>2, <1>6, <2>1, <2>2, KafkaFrame, Preserved
<1>7. CASE Forget(r) /\ UNCHANGED taken
  <2>1. TypeOK'
    BY <1>3, <1>7, ForgetType DEF IInv, TypeOK, dbVars, pspVars, cbVars
  <2>. QED
    BY <1>2, <1>7, <2>1, ForgetKeeps, KafkaFrame, Preserved
<1>. QED
  BY <1>4, <1>5, <1>6, <1>7

(* InsertDispatch: the only step that gives a contract a row and an id.    *)
LEMMA InsertStep ==
  ASSUME IInv, NEW r \in Runners, InsertDispatch(r)
  PROVE  IInv'
<1> DEFINE c == work[r]
<1> USE DEF InsertDispatch
<1>1. c \in Contracts /\ pc[r] = "insert"
  BY Held
<1>2. PayoutsKept /\ TakenKept
  BY PspFrame, KafkaFrame DEF kafkaVars
<1>3. faults' \in 0 .. MaxFaults
  BY FaultType DEF IInv
<1>4. CASE /\ status[c] = "NONE" /\ nextId \in Ids
           /\ status' = [status EXCEPT ![c] = "PENDING"]
           /\ did' = [did EXCEPT ![c] = nextId]
           /\ outbox' = [outbox EXCEPT ![c] = @ \cup {"DispatchCreated"}]
           /\ nextId' = nextId + 1
           /\ ref' = [ref EXCEPT ![r] = nextId]
           /\ Goto(r, "govern") /\ UNCHANGED work
  <2>1. outbox[c] \cup {"DispatchCreated"} \in SUBSET EventTypes
    BY <1>1 DEF IInv, TypeOK, EventTypes
  <2>2. nextId' \in 1 .. (MaxIds + 1)
    BY <1>4, DispatchAssumption DEF Ids
  <2>3. TypeOK'
    BY <1>1, <1>3, <1>4, <2>1, <2>2, GotoType
    DEF IInv, TypeOK, kafkaVars, pspVars, cbVars, Steps, DispatchStatus
  <2>4. Rows'
    BY <1>1, <1>4 DEF IInv, TypeOK, Rows
  <2>5. RowsKept
    BY <1>1, <1>4, <2>4 DEF IInv, TypeOK, RowsKept, Unsent
  <2>6. AcksKept
    BY <1>1, <1>4 DEF IInv, TypeOK, AcksKept
  <2>7. \A s \in Runners : RunnerKept(s)
    BY <1>1, <1>4 DEF IInv, TypeOK, Goto, RunnerKept
  <2>. QED
    BY <1>2, <2>3, <2>5, <2>6, <2>7, Preserved
<1>5. CASE Forget(r) /\ UNCHANGED <<status, did, outbox, nextId>>
  <2>1. TypeOK'
    BY <1>3, <1>5, ForgetType DEF IInv, TypeOK, kafkaVars, pspVars, cbVars
  <2>2. RowsKept /\ AcksKept
    BY <1>5, DbFrame
  <2>. QED
    BY <1>2, <1>5, <2>1, <2>2, ForgetKeeps, Preserved
<1>. QED
  BY <1>4, <1>5

(* Two ways to end a step that wrote, or failed to write, the database.    *)
LEMMA WroteAndFinished ==
  ASSUME IInv, NEW r \in Runners, pc[r] \notin {"idle", "find", "insert"},
         NEW s \in DispatchStatus, NEW e \in EventTypes,
         s \in Unsent => status[work[r]] \in Unsent,
         s = "PROVIDER_ACKED" \/ e = "ProviderAcked" =>
             \/ status[work[r]] = "PROVIDER_ACKED"
             \/ payout[<<work[r], ref[r]>>] # "none",
         Commit(work[r], s, e), Finish(r), Fault \/ NoFault,
         CloseCircuit(r[1]) \/ RecordPSPFailure(r[1]) \/ UNCHANGED cbVars,
         UNCHANGED <<deliveries, pspVars, crashes>>
  PROVE  IInv'
<1>1. /\ work[r] \in Contracts /\ status[work[r]] # "NONE" /\ ref[r] = did[work[r]]
      /\ r[1] \in Instances
  BY Held, DispatchAssumption
<1>2. TypeOK'
  BY <1>1, CommitType, FinishType, FaultType, CircuitType DEF IInv, TypeOK, pspVars
<1>. QED
  BY <1>1, <1>2, CommitKeeps, FinishKeeps, PspFrame, Preserved

(* A step that ends processEvent with nothing written.                     *)
LEMMA FinishedOnly ==
  ASSUME IInv, NEW r \in Runners, pc[r] \notin {"idle", "find", "insert"},
         Finish(r), Fault \/ NoFault,
         UNCHANGED <<dbVars, deliveries, pspVars, cbVars, crashes>>
  PROVE  IInv'
<1>1. work[r] \in Contracts /\ status[work[r]] # "NONE"
  BY Held
<1>2. TypeOK'
  BY <1>1, FinishType, FaultType DEF IInv, TypeOK, dbVars, pspVars, cbVars
<1>. QED
  BY <1>1, <1>2, DbFrame, FinishKeeps, PspFrame, Preserved DEF dbVars

(* A runner only moves on.                                                 *)
LEMMA MovedOnly ==
  ASSUME IInv, NEW r \in Runners, pc[r] \notin {"idle", "find", "insert"},
         NEW step \in Steps, step # "wait",
         step \in {"ack", "recoverAck"} => payout[<<work[r], ref[r]>>] # "none",
         Goto(r, step), Fault \/ NoFault,
         CloseCircuit(r[1]) \/ RecordPSPFailure(r[1]) \/ UNCHANGED cbVars,
         UNCHANGED <<dbVars, kafkaVars, pspVars, memVars, crashes>>
  PROVE  IInv'
<1>1. r[1] \in Instances
  BY DispatchAssumption
<1>2. TypeOK'
  BY <1>1, GotoType, FaultType, CircuitType
  DEF IInv, TypeOK, dbVars, kafkaVars, pspVars, memVars
<1>3. RowsKept /\ AcksKept /\ PayoutsKept /\ TakenKept
  BY DbFrame, PspFrame, KafkaFrame DEF dbVars, kafkaVars
<1>4. \A s \in Runners : RunnerKept(s)
  BY <1>3, GotoKeeps DEF pspVars
<1>. QED
  BY <1>2, <1>3, <1>4, Preserved

-----------------------------------------------------------------------------
(* runSteps2to5.                                                           *)
LEMMA GovernStep ==
  ASSUME IInv, NEW r \in Runners, Govern(r)
  PROVE  IInv'
<1> DEFINE c == work[r]
<1>1. pc[r] = "govern" /\ c \in Contracts /\ status[c] # "NONE"
  BY Held DEF Govern
<1>2. "DispatchGovernanceEvaluated" \in EventTypes
  BY DEF EventTypes
<1>3. ASSUME NEW s \in {"PENDING", "HELD", "FAILED_TERMINAL"},
             MarkGovernanceDecision(c, s)
      PROVE  \E t \in DispatchStatus :
                /\ Commit(c, t, "DispatchGovernanceEvaluated")
                /\ t \in Unsent => status[c] \in Unsent
                /\ t = "PROVIDER_ACKED" => status[c] = "PROVIDER_ACKED"
  <2>1. status[c] \in DispatchStatus
    BY <1>1 DEF IInv, TypeOK
  <2>2. CASE status[c] = "PENDING"
    BY <1>3, <2>2 DEF MarkGovernanceDecision, DispatchStatus, Unsent
  <2>3. CASE status[c] # "PENDING"
    BY <1>3, <2>1, <2>3 DEF MarkGovernanceDecision
  <2>. QED
    BY <2>2, <2>3
<1>4. ASSUME NEW s \in {"HELD", "FAILED_TERMINAL"}, MarkGovernanceDecision(c, s),
             Finish(r), NoFault, CloseCircuit(r[1]) \/ UNCHANGED cbVars
      PROVE  IInv'
  <2>1. PICK t \in DispatchStatus :
                /\ Commit(c, t, "DispatchGovernanceEvaluated")
                /\ t \in Unsent => status[c] \in Unsent
                /\ t = "PROVIDER_ACKED" => status[c] = "PROVIDER_ACKED"
    BY <1>3, <1>4
  <2>. QED
    BY <1>1, <1>2, <1>4, <2>1, WroteAndFinished DEF Govern
<1>5. ASSUME MarkGovernanceDecision(c, "PENDING"), Goto(r, "detokenize"),
             UNCHANGED <<memVars, taken>>, NoFault, CloseCircuit(r[1]) \/ UNCHANGED cbVars
      PROVE  IInv'
  <2>1. PICK t \in DispatchStatus :
                /\ Commit(c, t, "DispatchGovernanceEvaluated")
                /\ t \in Unsent => status[c] \in Unsent
                /\ t = "PROVIDER_ACKED" => status[c] = "PROVIDER_ACKED"
    BY <1>3, <1>5
  <2>2. RowsKept /\ AcksKept
    BY <1>1, <1>2, <2>1, CommitKeeps
  <2>3. r[1] \in Instances
    BY DispatchAssumption
  <2>4. TypeOK'
    BY <1>1, <1>2, <1>5, <2>1, <2>3, CommitType, GotoType, FaultType, CircuitType
    DEF Govern, IInv, TypeOK, pspVars, memVars, Steps
  <2>5. \A s \in Runners : RunnerKept(s)
    BY <1>1, <1>5, <2>2, GotoKeeps DEF Steps
  <2>. QED
    BY <1>5, <2>2, <2>4, <2>5, PspFrame, KafkaFrame, Preserved DEF Govern
<1>6. ASSUME Finish(r), Fault, UNCHANGED <<dbVars, cbVars>> PROVE IInv'
  BY <1>1, <1>6, FinishedOnly DEF Govern
<1>. QED
  BY <1>4, <1>5, <1>6 DEF Govern, EvaluateGovernance

(* Step 2 only decides where to go.                                        *)
LEMMA DetokenizeStep ==
  ASSUME IInv, NEW r \in Runners, Detokenize(r)
  PROVE  IInv'
<1>1. PICK step \in {"send", "markRetryable", "markTerminal"} : Goto(r, step)
  BY DEF Detokenize
<1>. QED
  BY <1>1, MovedOnly DEF Detokenize, Steps, NoFault, envVars

(* Step 3: the anchor is there before the runner may wait for the PSP.     *)
LEMMA MarkSentStep ==
  ASSUME IInv, NEW r \in Runners, MarkSent(r)
  PROVE  IInv'
<1> DEFINE c == work[r]
<1>1. pc[r] = "send" /\ c \in Contracts /\ status[c] # "NONE"
  BY Held DEF MarkSent
<1>2. CASE Commit(c, "SENT", "AttemptSent") /\ Goto(r, "wait") /\ NoFault
  <2>1. "SENT" \in DispatchStatus \ Unsent /\ "AttemptSent" \in EventTypes
    BY DEF DispatchStatus, EventTypes, Unsent
  <2>2. RowsKept /\ AcksKept /\ status'[c] = "SENT" /\ "AttemptSent" \in outbox'[c]
    BY <1>1, <1>2, <2>1, CommitKeeps
  <2>3. TypeOK'
    BY <1>1, <1>2, <2>1, CommitType, GotoType, FaultType
    DEF MarkSent, IInv, TypeOK, kafkaVars, pspVars, cbVars, memVars, Steps
  <2>4. \A s \in Runners : RunnerKept(s)
    BY <1>1, <1>2, <2>1, <2>2, GotoKeeps DEF MarkSent, Steps
  <2>. QED
    BY <2>2, <2>3, <2>4, PspFrame, KafkaFrame, Preserved DEF MarkSent, kafkaVars
<1>3. CASE Goto(r, "markRetryable") /\ (Fault \/ NoFault) /\ UNCHANGED dbVars
  BY <1>1, <1>3, MovedOnly DEF MarkSent, Steps
<1>. QED
  BY <1>2, <1>3 DEF MarkSent

(* Step 4: the answers of the PSP.                                         *)
LEMMA AcceptedKeeps ==
  ASSUME IInv, NEW c \in Contracts, NEW d \in Ids, Accepted(c, d), late' \subseteq late,
         \/ <<c, d>> \in late
         \/ \E r \in Runners : pc[r] = "wait" /\ work[r] = c /\ ref[r] = d
  PROVE  PayoutsKept /\ payout'[<<c, d>>] # "none"
  BY DEF IInv, TypeOK, Accepted, PayoutsKept

(* A payout appears while its runner waits.                                *)
LEMMA PSPAcceptsStep ==
  ASSUME IInv, NEW r \in Runners, PSPAccepts(r)
  PROVE  IInv'
<1> USE DEF PSPAccepts
<1>1. pc[r] = "wait" /\ work[r] \in Contracts /\ ref[r] \in Ids
  BY Held
<1>2. TypeOK'
  BY <1>1, AcceptedType
  DEF IInv, TypeOK, dbVars, kafkaVars, cbVars, memVars, envVars
<1>3. PayoutsKept
  BY <1>1, AcceptedKeeps
<1>4. \A s \in Runners : RunnerKept(s)
  BY DEF memVars, RunnerKept
<1>. QED
  BY <1>2, <1>3, <1>4, DbFrame, KafkaFrame, Preserved DEF dbVars, kafkaVars

(* An acknowledged payout is held by the PSP.                              *)
LEMMA PSPAnswersOkStep ==
  ASSUME IInv, NEW r \in Runners, PSPAnswersOk(r)
  PROVE  IInv'
<1> USE DEF PSPAnswersOk
<1>1. /\ pc[r] = "wait" /\ work[r] \in Contracts /\ ref[r] \in Ids
      /\ r[1] \in Instances
  BY Held, DispatchAssumption
<1>2. TypeOK'
  BY <1>1, AcceptedType, GotoType, CircuitType
  DEF IInv, TypeOK, dbVars, kafkaVars, memVars, envVars, Steps
<1>3. PayoutsKept /\ payout'[<<work[r], ref[r]>>] # "none"
  BY <1>1, AcceptedKeeps
<1>4. RowsKept /\ AcksKept /\ TakenKept
  BY DbFrame, KafkaFrame DEF dbVars, kafkaVars
<1>5. \A s \in Runners : RunnerKept(s)
  BY <1>1, <1>3, <1>4, GotoKeeps DEF Steps
<1>. QED
  BY <1>2, <1>3, <1>4, <1>5, Preserved

(* A 4xx, 5xx or unknown answer changes no row.                            *)
LEMMA PSPErrorStep ==
  ASSUME IInv, NEW r \in Runners, PSPRejects(r) \/ PSPFails(r)
  PROVE  IInv'
  BY MovedOnly DEF PSPRejects, PSPFails, Steps, NoFault, envVars

(* A timed-out request stays on its way with the row's reference.          *)
LEMMA PSPTimesOutStep ==
  ASSUME IInv, NEW r \in Runners, PSPTimesOut(r)
  PROVE  IInv'
<1> USE DEF PSPTimesOut
<1>1. /\ pc[r] = "wait" /\ work[r] \in Contracts /\ ref[r] \in Ids
      /\ r[1] \in Instances
  BY Held, DispatchAssumption
<1>2. late' \subseteq Contracts \X Ids
  BY <1>1 DEF IInv, TypeOK
<1>3. TypeOK'
  BY <1>1, <1>2, GotoType, CircuitType
  DEF IInv, TypeOK, dbVars, kafkaVars, memVars, envVars, Steps
<1>4. PayoutsKept
  BY <1>1 DEF PayoutsKept
<1>5. RowsKept /\ AcksKept /\ TakenKept
  BY DbFrame, KafkaFrame DEF dbVars, kafkaVars
<1>6. \A s \in Runners : RunnerKept(s)
  BY <1>1, <1>5, GotoKeeps DEF Steps
<1>. QED
  BY <1>3, <1>4, <1>5, <1>6, Preserved

(* Step 5: acknowledged, or handed to recovery.                            *)
LEMMA AckStep ==
  ASSUME IInv, NEW r \in Runners, Ack(r)
  PROVE  IInv'
<1>1. pc[r] = "ack" /\ payout[<<work[r], ref[r]>>] # "none"
  BY DEF Ack, IInv, AckSeen
<1>2. /\ "PROVIDER_ACKED" \in DispatchStatus \ Unsent
      /\ "ProviderAcked" \in EventTypes /\ "markAwaiting" \in Steps
  BY DEF DispatchStatus, EventTypes, Unsent, Steps
<1>3. CASE Commit(work[r], "PROVIDER_ACKED", "ProviderAcked") /\ Finish(r) /\ NoFault
  BY <1>1, <1>2, <1>3, WroteAndFinished DEF Ack
<1>4. CASE /\ Goto(r, "markAwaiting") /\ (Fault \/ NoFault)
           /\ UNCHANGED <<dbVars, memVars, taken>>
  BY <1>1, <1>2, <1>4, MovedOnly DEF Ack, kafkaVars
<1>. QED
  BY <1>3, <1>4 DEF Ack

(* The unconditional updates, and RecoverRetry.                            *)
LEMMA MarkStep ==
  ASSUME IInv, NEW r \in Runners,
         NEW step \in Steps \ {"idle", "find", "insert"},
         NEW s \in DispatchStatus \ (Unsent \cup {"PROVIDER_ACKED"}),
         NEW e \in EventTypes \ {"ProviderAcked"}, Mark(r, step, s, e)
  PROVE  IInv'
<1>1. CASE Commit(work[r], s, e) /\ NoFault
  BY <1>1, WroteAndFinished DEF Mark
<1>2. CASE UNCHANGED dbVars /\ Fault
  BY <1>2, FinishedOnly DEF Mark
<1>. QED
  BY <1>1, <1>2 DEF Mark

(* The four users of Mark.                                                 *)
LEMMA MarksStep ==
  ASSUME IInv, NEW r \in Runners,
         \/ MarkFailedRetryable(r) \/ MarkFailedTerminal(r)
         \/ MarkAwaitingProviderSignal(r) \/ RecoverRetry(r)
  PROVE  IInv'
  BY MarkStep
  DEF MarkFailedRetryable, MarkFailedTerminal, MarkAwaitingProviderSignal,
      RecoverRetry, Steps, DispatchStatus, Unsent, EventTypes

-----------------------------------------------------------------------------
(* The starts and the recovery sweeper.                                    *)
LEMMA StartStep ==
  ASSUME IInv, NEW r \in Runners, NEW c \in Contracts,
         \/ Deliver(r, c) \/ DeliverTampered(r, c)
         \/ FindRetryable(r, c) \/ FindStuck(r, c)
  PROVE  IInv'
<1>1. CASE Deliver(r, c)
  <2> USE <1>1 DEF Deliver
  <2>1. deliveries' \in [Contracts -> 0 .. MaxDeliveries]
    BY DispatchAssumption DEF IInv, TypeOK
  <2>2. TypeOK'
    BY <2>1, GotoType DEF IInv, TypeOK, dbVars, pspVars, cbVars, envVars, Steps
  <2>3. \A s \in Runners : RunnerKept(s)
    BY DEF IInv, TypeOK, Goto, RunnerKept
  <2>. QED
    BY <2>2, <2>3, DbFrame, PspFrame, KafkaFrame, Preserved DEF dbVars
<1>2. CASE DeliverTampered(r, c)
  <2> USE <1>2 DEF DeliverTampered
  <2>1. deliveries' \in [Contracts -> 0 .. MaxDeliveries]
    BY DispatchAssumption DEF IInv, TypeOK
  <2>2. conflicts' \subseteq Contracts /\ taken' \subseteq Contracts
    BY DEF IInv, TypeOK
  <2>3. TypeOK'
    BY <2>1, <2>2, FaultType DEF IInv, TypeOK, pspVars, cbVars, memVars
  <2>4. TakenKept
    BY DEF TakenKept
  <2>5. \A s \in Runners : RunnerKept(s)
    BY DEF memVars, RunnerKept
  <2>. QED
    BY <2>3, <2>4, <2>5, DbFrame, PspFrame, Preserved
<1>3. CASE FindRetryable(r, c) \/ FindStuck(r, c)
  <2>1. /\ status[c] # "NONE"
        /\ work' = [work EXCEPT ![r] = c] /\ ref' = [ref EXCEPT ![r] = did[c]]
        /\ \E step \in {"govern", "query"} : Goto(r, step)
        /\ UNCHANGED <<dbVars, kafkaVars, pspVars, cbVars, envVars>>
    BY <1>3 DEF FindRetryable, FindStuck, Retryable, StuckStatus
  <2>2. TypeOK'
    BY <2>1, GotoType DEF IInv, TypeOK, dbVars, kafkaVars, pspVars, cbVars, envVars, Steps
  <2>3. \A s \in Runners : RunnerKept(s)
    BY <2>1 DEF IInv, TypeOK, Goto, dbVars, RunnerKept
  <2>. QED
    BY <2>1, <2>2, <2>3, DbFrame, PspFrame, KafkaFrame, Preserved
    DEF dbVars, kafkaVars
<1>. QED
  BY <1>1, <1>2, <1>3

(* A sweeper gives its row up without having taken any message.            *)
LEMMA ForgotOnly ==
  ASSUME IInv, NEW r \in Runners, Forget(r), Fault \/ NoFault,
         UNCHANGED <<dbVars, kafkaVars, pspVars, cbVars, crashes>>
  PROVE  IInv'
<1>1. TypeOK'
  BY ForgetType, FaultType DEF IInv, TypeOK, dbVars, kafkaVars, pspVars, cbVars
<1>. QED
  BY <1>1, DbFrame, PspFrame, KafkaFrame, ForgetKeeps, Preserved DEF dbVars, kafkaVars

(* The recovery sweeper follows what the PSP answers.                      *)
LEMMA QueryStep ==
  ASSUME IInv, NEW r \in Runners, QueryByReference(r)
  PROVE  IInv'
<1> USE DEF QueryByReference
<1>1. ASSUME NEW step \in {"recoverAck", "markTerminal", "recoverRetry"},
             step = "recoverAck" => payout[<<work[r], ref[r]>>] # "none",
             Goto(r, step), NoFault, UNCHANGED memVars
      PROVE  IInv'
  BY <1>1, MovedOnly DEF Steps
<1>2. CASE Forget(r) /\ Fault
  BY <1>2, ForgotOnly
<1>. QED
  BY <1>1, <1>2

(* Recovery acknowledges only what the query found.                        *)
LEMMA RecoverAckStep ==
  ASSUME IInv, NEW r \in Runners, RecoverAck(r)
  PROVE  IInv'
<1> USE DEF RecoverAck
<1>1. /\ pc[r] = "recoverAck" /\ payout[<<work[r], ref[r]>>] # "none"
      /\ work[r] \in Contracts /\ status[work[r]] # "NONE" /\ ref[r] = did[work[r]]
  BY Held DEF IInv, AckSeen
<1>2. CASE Commit(work[r], "PROVIDER_ACKED", "ProviderAcked") /\ NoFault
  <2>1. /\ "PROVIDER_ACKED" \in DispatchStatus \ Unsent
        /\ "ProviderAcked" \in EventTypes
    BY DEF DispatchStatus, EventTypes, Unsent
  <2>2. TypeOK'
    BY <1>1, <1>2, <2>1, CommitType, ForgetType, FaultType
    DEF IInv, TypeOK, kafkaVars, pspVars, cbVars
  <2>3. RowsKept /\ AcksKept
    BY <1>1, <1>2, <2>1, CommitKeeps
  <2>. QED
    BY <2>2, <2>3, PspFrame, KafkaFrame, ForgetKeeps, Preserved DEF kafkaVars
<1>3. CASE UNCHANGED dbVars /\ (Fault \/ NoFault)
  BY <1>3, ForgotOnly
<1>. QED
  BY <1>2, <1>3

-----------------------------------------------------------------------------
(* The environment.                                                        *)
LEMMA LateRequestStep ==
  ASSUME IInv, NEW c \in Contracts, NEW d \in Ids, LateRequest(c, d)
  PROVE  IInv'
<1> USE DEF LateRequest
<1>1. TypeOK'
  BY AcceptedType DEF IInv, TypeOK, dbVars, kafkaVars, cbVars, memVars, envVars
<1>2. PayoutsKept
  <2>1. CASE Accepted(c, d)
    BY <2>1, AcceptedKeeps
  <2>2. CASE UNCHANGED payout
    BY <2>2 DEF PayoutsKept
  <2>. QED
    BY <2>1, <2>2
<1>3. \A s \in Runners : RunnerKept(s)
  BY DEF memVars, RunnerKept
<1>. QED
  BY <1>1, <1>2, <1>3, DbFrame, KafkaFrame, Preserved DEF dbVars, kafkaVars

(* A payout that fails is still a payout the PSP knows.                    *)
LEMMA PayoutFailsStep ==
  ASSUME IInv, NEW c \in Contracts, NEW d \in Ids, PayoutFails(c, d)
  PROVE  IInv'
<1> USE DEF PayoutFails
<1>1. TypeOK'
  BY DEF IInv, TypeOK, dbVars, kafkaVars, cbVars, memVars, envVars
<1>2. PayoutsKept
  BY DEF IInv, TypeOK, PayoutsKept
<1>3. \A s \in Runners : RunnerKept(s)
  BY DEF memVars, RunnerKept
<1>. QED
  BY <1>1, <1>2, <1>3, DbFrame, KafkaFrame, Preserved DEF dbVars, kafkaVars

(* A crash turns the waiting requests into late ones.                      *)
LEMMA CrashStep ==
  ASSUME IInv, NEW i \in Instances, Crash(i)
  PROVE  IInv'
<1> USE DEF Crash
<1>1. late' \subseteq Contracts \X Ids
  BY Held DEF IInv, TypeOK
<1>2. crashes' \in 0 .. MaxCrashes
  BY DispatchAssumption DEF IInv, TypeOK
<1>3. TypeOK'
  BY <1>1, <1>2, CircuitType DEF IInv, TypeOK, dbVars, kafkaVars, Steps
<1>4. PayoutsKept
  BY DEF PayoutsKept
<1>5. \A s \in Runners : RunnerKept(s)
  BY DEF RunnerKept
<1>. QED
  BY <1>3, <1>4, <1>5, DbFrame, KafkaFrame, Preserved DEF dbVars, kafkaVars

(* Every step preserves the invariant.                                     *)
LEMMA IInvStep == IInv /\ [Next]_vars => IInv'
<1> SUFFICES ASSUME IInv, [Next]_vars PROVE IInv'
  OBVIOUS
<1>1. ASSUME NEW r \in Runners, RunnerStep(r) PROVE IInv'
  BY <1>1, FindStep, InsertStep, GovernStep, DetokenizeStep, MarkSentStep,
     PSPAnswersOkStep, PSPErrorStep, PSPTimesOutStep, AckStep, MarksStep,
     QueryStep, RecoverAckStep
  DEF RunnerStep, PSPAnswers
<1>2. CASE UNCHANGED vars
  <2> USE <1>2 DEF vars
  <2>1. TypeOK'
    BY DEF IInv, TypeOK, dbVars, kafkaVars, pspVars, cbVars, memVars, envVars
  <2>2. \A r \in Runners : RunnerKept(r)
    BY DEF RunnerKept, memVars
  <2>. QED
    BY <2>1, <2>2, DbFrame, PspFrame, KafkaFrame, Preserved DEF dbVars, kafkaVars
<1>. QED
  BY <1>1, <1>2, PSPAcceptsStep, StartStep, LateRequestStep, PayoutFailsStep,
     CrashStep
  DEF Next

-----------------------------------------------------------------------------
(* The invariant holds in every reachable state.                           *)
LEMMA Invariance == Spec => []IInv
  BY IInvInit, IInvStep, PTL DEF Spec

(* The pipeline's state keeps its type.                                    *)
THEOREM TypeCorrect == Spec => []TypeOK
  BY Invariance, PTL DEF IInv

(* However many relays, sweepers, redeliveries, failed writes and crashes  *)
(* there are: once money may have moved for a contract, its row says so    *)
(* (Step 3 of runSteps2to5, the crash-recovery anchor).                    *)
THEOREM MoneyIsAnchored == Spec => []PaymentAnchored
  BY Invariance, PTL DEF IInv

(* The unique index and the stored dispatch id give every contract one     *)
(* provider reference, hence at most one payout at the PSP.                *)
THEOREM OnePayout == Spec => []AtMostOnePayout
<1>1. IInv => AtMostOnePayout
  BY DEF IInv, OneReference, AtMostOnePayout
<1>. QED
  BY <1>1, Invariance, PTL

(* Neither Step 5 nor the recovery sweeper ever records PROVIDER_ACKED, or *)
(* emits ProviderAcked, for a payout the PSP does not hold.                *)
THEOREM AcksAreReal == Spec => []AckedIsHeld
  BY Invariance, PTL DEF IInv

(* processEvent gives up a sound message's offset only for a stored row.   *)
THEOREM NothingTakenIsLost == Spec => []TakenIsStored
  BY Invariance, PTL DEF IInv

-----------------------------------------------------------------------------
(* The consumer: ClaimCommit.                                              *)

(* What the goroutines know about ownership: a completion, wherever it     *)
(* travels, stands for an offset that has been taken.                      *)
CompletionsTaken ==
    /\ finished \subseteq owned
    /\ \A i \in 1 .. Len(events) :
          events[i].completed => events[i].offset \in owned
    /\ \A w \in Workers :
          /\ wstate[w] # "idle" => job[w] \in Offsets
          /\ wstate[w] = "report" => job[w] \in owned

(* `order' is the run of consecutive offsets that starts at the mark.      *)
OrderIsRun == \A i \in 1 .. Len(order) : order[i] = marked + i - 1

(* The first offset commitInOrder has not heard of.                        *)
Frontier == marked + Len(order)

(* The submissions still in the channel are exactly the offsets from the   *)
(* frontier up to the next message, in ascending order.                    *)
PendingSubmissions ==
    /\ Frontier <= nextMsg
    /\ \A i \in 1 .. Len(events) :
          ~events[i].completed =>
              Frontier <= events[i].offset /\ events[i].offset < nextMsg
    /\ \A i, j \in 1 .. Len(events) :
          i < j /\ ~events[i].completed /\ ~events[j].completed =>
              events[i].offset < events[j].offset
    /\ \A o \in Offsets :
          Frontier <= o /\ o < nextMsg =>
              \E i \in 1 .. Len(events) : events[i] = Submitted(o)

(* Every worker has returned.                                              *)
PoolDone == workCh = <<>> /\ \A w \in Workers : wstate[w] = "idle"

ClaimIInv ==
    /\ ClaimTypeOK
    /\ NoMessageSkipped
    /\ CompletionsTaken
    /\ OrderIsRun
    /\ mainPc = "announce" => nextMsg < LogLen
    /\ mainPc \in {"waitCommit", "closed"} => PoolDone
    /\ mainPc = "closed" => events = <<>>
    /\ mainPc # "closed" => PendingSubmissions

-----------------------------------------------------------------------------
(* Receiving from a channel: head and tail of a nonempty sequence.         *)
LEMMA HeadTail ==
  ASSUME NEW S, NEW s \in Seq(S), s # <<>>
  PROVE  /\ Len(s) \in Nat \ {0}
         /\ 1 \in 1 .. Len(s)
         /\ Head(s) \in S
         /\ Head(s) = s[1]
         /\ Tail(s) \in Seq(S)
         /\ Len(Tail(s)) = Len(s) - 1
         /\ \A i \in 1 .. Len(Tail(s)) :
               i + 1 \in 1 .. Len(s) /\ Tail(s)[i] = s[i + 1]
  OBVIOUS

(* Sending on a channel: appending to a sequence.                          *)
LEMMA AppendTo ==
  ASSUME NEW S, NEW s \in Seq(S), NEW e \in S
  PROVE  /\ Append(s, e) \in Seq(S)
         /\ Len(s) \in Nat
         /\ Len(Append(s, e)) = Len(s) + 1
         /\ \A i \in 1 .. Len(s) : Append(s, e)[i] = s[i]
         /\ Append(s, e)[Len(s) + 1] = e
  OBVIOUS

(* The claim's state, initially and after any step, has the right type.    *)
LEMMA TypeInit == ClaimInit => ClaimTypeOK
  BY ConstantsAssumption DEF ClaimInit, ClaimTypeOK, Offsets, claimEvent

(* The oldest submission still in the channel is the frontier itself.      *)
LEMMA HeadIsFrontier ==
  ASSUME ClaimTypeOK, PendingSubmissions, events # <<>>, ~Head(events).completed
  PROVE  Head(events).offset = Frontier
<1>1. Len(events) \in Nat /\ 1 \in 1 .. Len(events) /\ Head(events) = events[1]
  BY DEF ClaimTypeOK
<1>2. events[1] \in claimEvent
  BY <1>1 DEF ClaimTypeOK
<1>3. Frontier \in Nat /\ nextMsg \in 0 .. LogLen
  BY ConstantsAssumption DEF ClaimTypeOK, Frontier
<1>4. Frontier <= events[1].offset /\ events[1].offset < nextMsg
  BY <1>1 DEF PendingSubmissions
<1>5. Frontier \in Offsets
  BY <1>2, <1>3, <1>4, ConstantsAssumption DEF Offsets, claimEvent
<1>6. PICK i \in 1 .. Len(events) : events[i] = Submitted(Frontier)
  BY <1>2, <1>3, <1>4, <1>5, ConstantsAssumption
  DEF PendingSubmissions, Offsets, claimEvent
<1>7. events[i].offset = Frontier /\ ~events[i].completed
  BY <1>6 DEF Submitted
<1>8. CASE i = 1
  BY <1>1, <1>7, <1>8
<1>9. CASE i # 1
  <2>1. 1 < i
    BY <1>1, <1>9
  <2>2. events[1].offset < events[i].offset
    BY <1>1, <1>7, <2>1 DEF PendingSubmissions
  <2>. QED
    BY <1>2, <1>3, <1>4, <1>7, <2>2, ConstantsAssumption DEF Offsets, claimEvent
<1>. QED
  BY <1>8, <1>9

(* Every action keeps the variables in their types.                        *)
LEMMA TypeStep == ClaimTypeOK /\ (mainPc = "announce" => nextMsg < LogLen)
                  /\ (\A w \in Workers : wstate[w] # "idle" => job[w] \in Offsets)
                  /\ [ClaimNext]_claimVars => ClaimTypeOK'
<1> SUFFICES ASSUME ClaimTypeOK, mainPc = "announce" => nextMsg < LogLen,
                    \A w \in Workers : wstate[w] # "idle" => job[w] \in Offsets,
                    [ClaimNext]_claimVars
             PROVE  ClaimTypeOK'
  OBVIOUS
<1> USE ConstantsAssumption DEF ClaimTypeOK, Offsets, claimEvent
<1>1. CASE StartSession
  BY <1>1 DEF StartSession, workerVars
<1>2. CASE SubmitWork
  BY <1>2 DEF SubmitWork, workerVars, comVars
<1>3. CASE AnnounceWork
  BY <1>3 DEF AnnounceWork, workerVars, comVars, Submitted
<1>4. CASE StopClaim \/ CloseEvents \/ EndClaim
  BY <1>4 DEF StopClaim, CloseEvents, EndClaim, workerVars, comVars
<1>5. ASSUME NEW w \in Workers, WorkerStep(w)
      PROVE  ClaimTypeOK'
  <2>1. CASE WorkerTake(w)
    BY <2>1 DEF WorkerTake, mainVars, comVars
  <2>2. CASE WorkerOwns(w)
    BY <2>2 DEF WorkerOwns, mainVars, comVars
  <2>3. CASE WorkerWithholds(w)
    BY <2>3 DEF WorkerWithholds, mainVars, comVars
  <2>4. CASE WorkerReport(w)
    BY <2>4 DEF WorkerReport, mainVars, comVars, Completed
  <2>. QED
    BY <1>5, <2>1, <2>2, <2>3, <2>4 DEF WorkerStep
<1>6. CASE RecvSubmitted
  <2>1. Head(events) \in claimEvent /\ Tail(events) \in Seq(claimEvent)
    BY <1>6, HeadTail DEF RecvSubmitted
  <2>2. Append(order, Head(events).offset) \in Seq(Offsets)
    BY <2>1
  <2>. QED
    BY <1>6, <2>1, <2>2 DEF RecvSubmitted, mainVars, workerVars
<1>7. CASE RecvCompleted
  <2>1. Head(events) \in claimEvent /\ Tail(events) \in Seq(claimEvent)
    BY <1>7, HeadTail DEF RecvCompleted
  <2>. QED
    BY <1>7, <2>1 DEF RecvCompleted, mainVars, workerVars
<1>8. CASE MarkHead
  <2>1. Head(order) \in Offsets /\ Tail(order) \in Seq(Offsets)
    BY <1>8, HeadTail DEF MarkHead
  <2>2. Head(order) + 1 \in 0 .. LogLen
    BY <2>1
  <2>. QED
    BY <1>8, <2>1, <2>2 DEF MarkHead, mainVars, workerVars
<1>9. CASE StopMarking
  BY <1>9 DEF StopMarking, mainVars, workerVars
<1>10. CASE ClaimCrash
  BY <1>10 DEF ClaimCrash
<1>11. CASE UNCHANGED claimVars
  BY <1>11 DEF claimVars
<1>. QED
  BY <1>1, <1>2, <1>3, <1>4, <1>5, <1>6, <1>7, <1>8, <1>9, <1>10, <1>11
  DEF ClaimNext, MainStep, CommitStep

-----------------------------------------------------------------------------
(* The invariant holds before the first session.                           *)
LEMMA InitIInv == ClaimInit => ClaimIInv
  BY TypeInit, ConstantsAssumption
  DEF ClaimInit, ClaimIInv, PoolDone, NoMessageSkipped, CompletionsTaken, OrderIsRun,
      Offsets

(* Every step preserves the part of the invariant about ownership.         *)
LEMMA OwnershipStep ==
  ASSUME ClaimIInv, [ClaimNext]_claimVars
  PROVE  CompletionsTaken'
<1> USE DEF ClaimIInv, ClaimTypeOK
<1>1. CASE StartSession
  BY <1>1 DEF StartSession, workerVars, CompletionsTaken
<1>2. CASE SubmitWork \/ StopClaim \/ CloseEvents \/ EndClaim \/ StopMarking
  BY <1>2 DEF SubmitWork, StopClaim, CloseEvents, EndClaim, StopMarking,
              workerVars, mainVars, comVars, CompletionsTaken
<1>3. CASE AnnounceWork
  <2>1. Submitted(nextMsg) \in claimEvent
    BY <1>3, ConstantsAssumption DEF AnnounceWork, Submitted, claimEvent, Offsets
  <2>2. /\ Len(events') = Len(events) + 1
        /\ \A i \in 1 .. Len(events) : events'[i] = events[i]
        /\ events'[Len(events) + 1] = Submitted(nextMsg)
        /\ Len(events) \in Nat
    BY <1>3, <2>1, AppendTo DEF AnnounceWork
  <2>3. ASSUME NEW i \in 1 .. Len(events'), events'[i].completed
        PROVE  events'[i].offset \in owned
    <3>1. CASE i \in 1 .. Len(events)
      BY <2>2, <2>3, <3>1 DEF CompletionsTaken
    <3>2. CASE i = Len(events) + 1
      BY <2>2, <2>3, <3>2 DEF Submitted
    <3>. QED
      BY <2>2, <3>1, <3>2
  <2>. QED
    BY <1>3, <2>3 DEF AnnounceWork, workerVars, comVars, CompletionsTaken
<1>4. ASSUME NEW w \in Workers, WorkerTake(w)
      PROVE  CompletionsTaken'
  <2>1. Head(workCh) \in Offsets
    BY <1>4, HeadTail DEF WorkerTake
  <2>. QED
    BY <1>4, <2>1 DEF WorkerTake, mainVars, comVars, CompletionsTaken
<1>5. ASSUME NEW w \in Workers, WorkerOwns(w) \/ WorkerWithholds(w)
      PROVE  CompletionsTaken'
  BY <1>5 DEF WorkerOwns, WorkerWithholds, mainVars, comVars, CompletionsTaken
<1>6. ASSUME NEW w \in Workers, WorkerReport(w)
      PROVE  CompletionsTaken'
  <2>1. Completed(job[w]) \in claimEvent /\ job[w] \in owned
    BY <1>6 DEF WorkerReport, Completed, claimEvent, CompletionsTaken
  <2>2. /\ Len(events') = Len(events) + 1
        /\ \A i \in 1 .. Len(events) : events'[i] = events[i]
        /\ events'[Len(events) + 1] = Completed(job[w])
        /\ Len(events) \in Nat
    BY <1>6, <2>1, AppendTo DEF WorkerReport
  <2>3. ASSUME NEW i \in 1 .. Len(events'), events'[i].completed
        PROVE  events'[i].offset \in owned
    <3>1. CASE i \in 1 .. Len(events)
      BY <2>2, <2>3, <3>1 DEF CompletionsTaken
    <3>2. CASE i = Len(events) + 1
      BY <2>1, <2>2, <3>2 DEF Completed
    <3>. QED
      BY <2>2, <3>1, <3>2
  <2>. QED
    BY <1>6, <2>3 DEF WorkerReport, mainVars, comVars, CompletionsTaken
<1>7. CASE RecvSubmitted \/ RecvCompleted
  <2>1. events # <<>> /\ events' = Tail(events)
    BY <1>7 DEF RecvSubmitted, RecvCompleted
  <2>2. \A i \in 1 .. Len(events') :
           i + 1 \in 1 .. Len(events) /\ events'[i] = events[i + 1]
    BY <2>1, HeadTail
  <2>3. Head(events) = events[1] /\ 1 \in 1 .. Len(events)
    BY <2>1, HeadTail
  <2>. QED
    BY <1>7, <2>2, <2>3
    DEF RecvSubmitted, RecvCompleted, mainVars, workerVars, CompletionsTaken
<1>8. CASE MarkHead
  BY <1>8 DEF MarkHead, mainVars, workerVars, CompletionsTaken
<1>9. CASE ClaimCrash
  BY <1>9 DEF ClaimCrash, CompletionsTaken
<1>10. CASE UNCHANGED claimVars
  BY <1>10 DEF claimVars, CompletionsTaken
<1>. QED
  BY <1>1, <1>2, <1>3, <1>4, <1>5, <1>6, <1>7, <1>8, <1>9, <1>10
  DEF ClaimNext, MainStep, WorkerStep, CommitStep

(* Marking the head of a run of consecutive offsets leaves a run that      *)
(* starts one further, and moves the mark by one.                          *)
LEMMA MarkHeadAdvances ==
  ASSUME ClaimIInv, MarkHead
  PROVE  /\ marked' = marked + 1
         /\ marked \in owned
         /\ Len(order') = Len(order) - 1
         /\ OrderIsRun'
<1>1. /\ Len(order) \in Nat \ {0} /\ 1 \in 1 .. Len(order)
      /\ Head(order) = order[1] /\ Len(Tail(order)) = Len(order) - 1
      /\ \A i \in 1 .. Len(Tail(order)) :
            i + 1 \in 1 .. Len(order) /\ Tail(order)[i] = order[i + 1]
  BY HeadTail DEF ClaimIInv, ClaimTypeOK, MarkHead
<1>2. marked \in Nat
  BY ConstantsAssumption DEF ClaimIInv, ClaimTypeOK
<1>3. Head(order) = marked
  BY <1>1, <1>2 DEF ClaimIInv, OrderIsRun
<1>4. marked' = marked + 1 /\ marked \in owned /\ order' = Tail(order)
  BY <1>3 DEF ClaimIInv, MarkHead, CompletionsTaken
<1>5. ASSUME NEW i \in 1 .. Len(order')
      PROVE  order'[i] = marked' + i - 1
  BY <1>1, <1>2, <1>4 DEF ClaimIInv, OrderIsRun
<1>. QED
  BY <1>1, <1>4, <1>5 DEF OrderIsRun

(* Every step keeps `order' a run of consecutive offsets from the mark.    *)
LEMMA OrderStep ==
  ASSUME ClaimIInv, [ClaimNext]_claimVars
  PROVE  OrderIsRun'
<1>1. CASE StartSession \/ ClaimCrash
  BY <1>1 DEF StartSession, ClaimCrash, OrderIsRun
<1>2. CASE RecvSubmitted
  <2>1. mainPc # "closed"
    BY <1>2 DEF ClaimIInv, RecvSubmitted
  <2>2. Head(events).offset = marked + Len(order)
    BY <1>2, <2>1, HeadIsFrontier DEF ClaimIInv, RecvSubmitted, Frontier
  <2>3. Head(events).offset \in Offsets
    <3>1. Head(events) \in claimEvent
      BY <1>2, HeadTail DEF ClaimIInv, ClaimTypeOK, RecvSubmitted
    <3>. QED
      BY <3>1 DEF claimEvent
  <2>4. /\ Len(order) \in Nat
        /\ Len(order') = Len(order) + 1
        /\ \A i \in 1 .. Len(order) : order'[i] = order[i]
        /\ order'[Len(order) + 1] = marked + Len(order)
    BY <1>2, <2>2, <2>3, AppendTo DEF ClaimIInv, ClaimTypeOK, RecvSubmitted
  <2>5. marked' = marked /\ marked \in Nat
    BY <1>2, ConstantsAssumption DEF ClaimIInv, ClaimTypeOK, RecvSubmitted
  <2>6. ASSUME NEW i \in 1 .. Len(order')
        PROVE  order'[i] = marked + i - 1
    <3>1. CASE i \in 1 .. Len(order)
      BY <2>4, <3>1 DEF ClaimIInv, OrderIsRun
    <3>2. CASE i = Len(order) + 1
      BY <2>4, <2>5, <3>2
    <3>. QED
      BY <2>4, <3>1, <3>2
  <2>. QED
    BY <2>5, <2>6 DEF OrderIsRun
<1>3. CASE MarkHead
  BY <1>3, MarkHeadAdvances
<1>4. CASE UNCHANGED <<order, marked>>
  BY <1>4 DEF ClaimIInv, OrderIsRun
<1>. QED
  BY <1>1, <1>2, <1>3, <1>4
  DEF ClaimNext, MainStep, WorkerStep, CommitStep, SubmitWork, AnnounceWork, StopClaim,
      CloseEvents, EndClaim, WorkerTake, WorkerOwns, WorkerWithholds,
      WorkerReport, RecvCompleted, StopMarking, comVars, claimVars

(* Every step keeps everything below the mark taken.                       *)
LEMMA SkipStep ==
  ASSUME ClaimIInv, [ClaimNext]_claimVars
  PROVE  NoMessageSkipped'
<1> USE DEF ClaimIInv, NoMessageSkipped
<1>1. CASE StartSession
  BY <1>1, ConstantsAssumption DEF StartSession, ClaimTypeOK, Offsets
<1>2. CASE MarkHead
  <2>1. marked' = marked + 1 /\ marked \in owned /\ owned' = owned
    BY <1>2, MarkHeadAdvances DEF MarkHead
  <2>2. ASSUME NEW o \in Offsets, o < marked'
        PROVE  o \in owned
    <3>1. o \in Int /\ marked \in Int
      BY ConstantsAssumption DEF ClaimTypeOK, Offsets
    <3>2. o < marked \/ o = marked
      BY <2>1, <2>2, <3>1
    <3>. QED
      BY <2>1, <3>2
  <2>. QED
    BY <2>1, <2>2
<1>3. CASE UNCHANGED marked /\ owned \subseteq owned'
  BY <1>3
<1>. QED
  BY <1>1, <1>2, <1>3
  DEF ClaimNext, MainStep, WorkerStep, CommitStep, SubmitWork, AnnounceWork, StopClaim,
      CloseEvents, EndClaim, WorkerTake, WorkerOwns, WorkerWithholds,
      WorkerReport, RecvSubmitted, RecvCompleted, StopMarking, ClaimCrash, claimVars

(* Every step keeps the submissions in the channel the offsets between the *)
(* frontier and the next message.                                          *)
LEMMA PendingStep ==
  ASSUME ClaimIInv, [ClaimNext]_claimVars, mainPc' # "closed"
  PROVE  PendingSubmissions'
<1>0. /\ marked \in Nat /\ nextMsg \in Nat /\ Len(order) \in Nat
      /\ Len(events) \in Nat
      /\ \A i \in 1 .. Len(events) : events[i] \in claimEvent
  BY ConstantsAssumption DEF ClaimIInv, ClaimTypeOK
<1>1. CASE StartSession
  BY <1>1, ConstantsAssumption
  DEF StartSession, ClaimIInv, ClaimTypeOK, PendingSubmissions, Frontier, Offsets
<1>. SUFFICES ASSUME ~StartSession, mainPc # "closed", PendingSubmissions
              PROVE  PendingSubmissions'
  BY <1>1 DEF ClaimIInv, ClaimNext, MainStep, WorkerStep, CommitStep, SubmitWork,
      AnnounceWork, StopClaim, CloseEvents, EndClaim, WorkerTake, WorkerOwns,
      WorkerWithholds, WorkerReport, RecvSubmitted, RecvCompleted, MarkHead,
      StopMarking, ClaimCrash, mainVars, claimVars
<1>2. CASE AnnounceWork
  <2>1. Submitted(nextMsg) \in claimEvent /\ nextMsg \in Offsets
    BY <1>2, <1>0, ConstantsAssumption
    DEF AnnounceWork, ClaimIInv, Submitted, claimEvent, Offsets
  <2>2. /\ Len(events') = Len(events) + 1
        /\ \A i \in 1 .. Len(events) : events'[i] = events[i]
        /\ events'[Len(events) + 1] = Submitted(nextMsg)
    BY <1>2, <2>1, AppendTo DEF AnnounceWork, ClaimIInv, ClaimTypeOK
  <2>3. nextMsg' = nextMsg + 1 /\ Frontier' = Frontier /\ Frontier \in Nat
    BY <1>2, <1>0 DEF AnnounceWork, comVars, Frontier
  <2>4. Submitted(nextMsg).offset = nextMsg /\ ~Submitted(nextMsg).completed
    BY DEF Submitted
  <2>5. Frontier' <= nextMsg'
    BY <1>0, <2>3 DEF PendingSubmissions
  <2>6. ASSUME NEW i \in 1 .. Len(events'), ~events'[i].completed
        PROVE  Frontier' <= events'[i].offset /\ events'[i].offset < nextMsg'
    <3>1. CASE i \in 1 .. Len(events)
      <4>1. Frontier <= events[i].offset /\ events[i].offset < nextMsg
        BY <2>2, <2>6, <3>1 DEF PendingSubmissions
      <4>2. events[i].offset \in Int
        BY <1>0, <3>1, ConstantsAssumption DEF claimEvent, Offsets
      <4>. QED
        BY <1>0, <2>2, <2>3, <3>1, <4>1, <4>2
    <3>2. CASE i = Len(events) + 1
      BY <1>0, <2>2, <2>3, <2>4, <3>2 DEF PendingSubmissions
    <3>. QED
      BY <1>0, <2>2, <3>1, <3>2
  <2>7. ASSUME NEW i \in 1 .. Len(events'), NEW j \in 1 .. Len(events'),
               i < j, ~events'[i].completed, ~events'[j].completed
        PROVE  events'[i].offset < events'[j].offset
    <3>1. i \in 1 .. Len(events)
      BY <1>0, <2>2, <2>7
    <3>2. CASE j \in 1 .. Len(events)
      BY <2>2, <2>7, <3>1, <3>2 DEF PendingSubmissions
    <3>3. CASE j = Len(events) + 1
      BY <2>2, <2>4, <2>7, <3>1, <3>3 DEF PendingSubmissions
    <3>. QED
      BY <1>0, <2>2, <3>2, <3>3
  <2>8. ASSUME NEW o \in Offsets, Frontier' <= o, o < nextMsg'
        PROVE  \E i \in 1 .. Len(events') : events'[i] = Submitted(o)
    <3>1. o < nextMsg \/ o = nextMsg
      BY <1>0, <2>3, <2>8, ConstantsAssumption DEF Offsets
    <3>2. CASE o = nextMsg
      BY <1>0, <2>2, <3>2
    <3>3. CASE o < nextMsg
      <4>1. PICK i \in 1 .. Len(events) : events[i] = Submitted(o)
        BY <2>3, <2>8, <3>3 DEF PendingSubmissions
      <4>. QED
        BY <1>0, <2>2, <4>1
    <3>. QED
      BY <3>1, <3>2, <3>3
  <2>. QED
    BY <2>5, <2>6, <2>7, <2>8 DEF PendingSubmissions, Submitted
<1>3. ASSUME NEW w \in Workers, WorkerReport(w)
      PROVE  PendingSubmissions'
  <2>1. Completed(job[w]) \in claimEvent
    BY <1>3 DEF WorkerReport, ClaimIInv, CompletionsTaken, Completed, claimEvent
  <2>2. /\ Len(events') = Len(events) + 1
        /\ \A i \in 1 .. Len(events) : events'[i] = events[i]
        /\ events'[Len(events) + 1].completed
    BY <1>3, <2>1, AppendTo DEF WorkerReport, ClaimIInv, ClaimTypeOK, Completed
  <2>3. nextMsg' = nextMsg /\ Frontier' = Frontier
    BY <1>3 DEF WorkerReport, mainVars, comVars, Frontier
  <2>4. ASSUME NEW i \in 1 .. Len(events'), ~events'[i].completed
        PROVE  i \in 1 .. Len(events) /\ events'[i] = events[i]
    BY <1>0, <2>2, <2>4
  <2>5. ASSUME NEW o \in Offsets, Frontier <= o, o < nextMsg
        PROVE  \E i \in 1 .. Len(events') : events'[i] = Submitted(o)
    <3>1. PICK i \in 1 .. Len(events) : events[i] = Submitted(o)
      BY <2>5 DEF PendingSubmissions
    <3>. QED
      BY <1>0, <2>2, <3>1
  <2>6. PendingSubmissions!1'
    BY <2>3 DEF PendingSubmissions
  <2>7. PendingSubmissions!2'
    BY <2>3, <2>4 DEF PendingSubmissions
  <2>8. PendingSubmissions!3'
    BY <2>4 DEF PendingSubmissions
  <2>9. PendingSubmissions!4'
    BY <2>3, <2>5 DEF Submitted
  <2>. QED
    BY <2>6, <2>7, <2>8, <2>9 DEF PendingSubmissions
<1>4. CASE RecvSubmitted \/ RecvCompleted
  <2>1. /\ Len(events') = Len(events) - 1 /\ 1 \in 1 .. Len(events)
        /\ Head(events) = events[1]
        /\ \A i \in 1 .. Len(events') :
              i + 1 \in 1 .. Len(events) /\ events'[i] = events[i + 1]
    BY <1>4, HeadTail DEF RecvSubmitted, RecvCompleted, ClaimIInv, ClaimTypeOK
  <2>2. nextMsg' = nextMsg /\ Frontier \in Nat
    BY <1>0, <1>4 DEF RecvSubmitted, RecvCompleted, mainVars, Frontier
  <2>3. \/ events[1].completed /\ Frontier' = Frontier
        \/ /\ ~events[1].completed /\ events[1].offset = Frontier
           /\ Frontier' = Frontier + 1
    <3>1. CASE RecvSubmitted
      <4>1. Head(events).offset = Frontier
        BY <3>1, HeadIsFrontier DEF RecvSubmitted, ClaimIInv
      <4>2. Head(events).offset \in Offsets
        BY <1>0, <2>1 DEF claimEvent
      <4>3. Len(order') = Len(order) + 1
        BY <3>1, <4>2, AppendTo DEF RecvSubmitted, ClaimIInv, ClaimTypeOK
      <4>. QED
        BY <1>0, <2>1, <3>1, <4>1, <4>3 DEF RecvSubmitted, Frontier
    <3>2. CASE RecvCompleted
      BY <2>1, <3>2 DEF RecvCompleted, Frontier
    <3>. QED
      BY <1>4, <3>1, <3>2
  <2>4. ASSUME NEW i \in 1 .. Len(events'), ~events'[i].completed
        PROVE  Frontier' <= events'[i].offset /\ events'[i].offset < nextMsg'
    <3>1. /\ i + 1 \in 1 .. Len(events) /\ 1 < i + 1
          /\ events'[i] = events[i + 1] /\ events[i + 1].offset \in Int
      BY <1>0, <2>1, ConstantsAssumption DEF claimEvent, Offsets
    <3>2. Frontier <= events[i + 1].offset /\ events[i + 1].offset < nextMsg
      BY <2>4, <3>1 DEF PendingSubmissions
    <3>3. ~events[1].completed => events[1].offset < events[i + 1].offset
      BY <2>1, <2>4, <3>1 DEF PendingSubmissions
    <3>. QED
      BY <2>2, <2>3, <3>1, <3>2, <3>3
  <2>5. ASSUME NEW i \in 1 .. Len(events'), NEW j \in 1 .. Len(events'),
               i < j, ~events'[i].completed, ~events'[j].completed
        PROVE  events'[i].offset < events'[j].offset
    <3>1. i + 1 < j + 1
      BY <2>5
    <3>. QED
      BY <2>1, <2>5, <3>1 DEF PendingSubmissions
  <2>6. ASSUME NEW o \in Offsets, Frontier' <= o, o < nextMsg'
        PROVE  \E i \in 1 .. Len(events') : events'[i] = Submitted(o)
    <3>1. o \in Int /\ Frontier <= o
      BY <2>2, <2>3, <2>6, ConstantsAssumption DEF Offsets
    <3>2. PICK i \in 1 .. Len(events) : events[i] = Submitted(o)
      BY <2>2, <2>6, <3>1 DEF PendingSubmissions
    <3>3. events[i].offset = o /\ ~events[i].completed
      BY <3>2 DEF Submitted
    <3>4. i # 1
      BY <2>2, <2>3, <2>6, <3>1, <3>3
    <3>5. i - 1 \in 1 .. Len(events')
      BY <1>0, <2>1, <3>4
    <3>6. events'[i - 1] = events[i]
      BY <2>1, <3>5
    <3>. QED
      BY <3>2, <3>5, <3>6
  <2>7. Frontier' <= nextMsg'
    <3>1. CASE events[1].completed
      BY <2>2, <2>3, <3>1 DEF PendingSubmissions
    <3>2. CASE ~events[1].completed
      <4>1. events[1].offset < nextMsg
        BY <2>1, <3>2 DEF PendingSubmissions
      <4>. QED
        BY <1>0, <2>2, <2>3, <3>2, <4>1
    <3>. QED
      BY <3>1, <3>2
  <2>. QED
    BY <2>4, <2>5, <2>6, <2>7 DEF PendingSubmissions, Submitted
<1>5. CASE MarkHead
  <2>1. Frontier' = Frontier
    BY <1>0, <1>5, MarkHeadAdvances DEF Frontier
  <2>. QED
    BY <1>5, <2>1 DEF MarkHead, mainVars, PendingSubmissions, Submitted
<1>6. CASE UNCHANGED <<marked, nextMsg, order, events>>
  BY <1>6 DEF PendingSubmissions, Frontier, Submitted
<1>. QED
  BY <1>2, <1>3, <1>4, <1>5, <1>6
  DEF ClaimNext, MainStep, WorkerStep, CommitStep, SubmitWork, StopClaim,
      CloseEvents, EndClaim, WorkerTake, WorkerOwns, WorkerWithholds,
      StopMarking, ClaimCrash, mainVars, workerVars, comVars, claimVars

(* The invariant is inductive.                                             *)
LEMMA NextIInv == ClaimIInv /\ [ClaimNext]_claimVars => ClaimIInv'
<1> SUFFICES ASSUME ClaimIInv, [ClaimNext]_claimVars PROVE ClaimIInv'
  OBVIOUS
<1>1. ClaimTypeOK'
  BY TypeStep DEF ClaimIInv, CompletionsTaken
<1>2. NoMessageSkipped' /\ CompletionsTaken' /\ OrderIsRun'
  BY SkipStep, OwnershipStep, OrderStep
<1>3. (mainPc = "announce" => nextMsg < LogLen)'
  BY DEF ClaimIInv, ClaimNext, MainStep, WorkerStep, CommitStep, StartSession, SubmitWork,
      AnnounceWork, StopClaim, CloseEvents, EndClaim, WorkerTake, WorkerOwns,
      WorkerWithholds, WorkerReport, RecvSubmitted, RecvCompleted, MarkHead,
      StopMarking, ClaimCrash, mainVars, claimVars
<1>4. (mainPc \in {"waitCommit", "closed"} => PoolDone)'
  BY DEF ClaimIInv, ClaimTypeOK, PoolDone, ClaimNext, MainStep, WorkerStep, CommitStep,
      StartSession, SubmitWork, AnnounceWork, StopClaim, CloseEvents, EndClaim,
      WorkerTake, WorkerOwns, WorkerWithholds, WorkerReport, RecvSubmitted,
      RecvCompleted, MarkHead, StopMarking, ClaimCrash, mainVars, workerVars, claimVars
<1>5. (mainPc = "closed" => events = <<>>)'
  BY DEF ClaimIInv, ClaimTypeOK, PoolDone, ClaimNext, MainStep, WorkerStep, CommitStep,
      StartSession, SubmitWork, AnnounceWork, StopClaim, CloseEvents, EndClaim,
      WorkerTake, WorkerOwns, WorkerWithholds, WorkerReport, RecvSubmitted,
      RecvCompleted, MarkHead, StopMarking, ClaimCrash, mainVars, workerVars, claimVars
<1>6. (mainPc # "closed" => PendingSubmissions)'
  BY PendingStep
<1>. QED
  BY <1>1, <1>2, <1>3, <1>4, <1>5, <1>6 DEF ClaimIInv

-----------------------------------------------------------------------------
(* The inductive invariant holds in every reachable state.                 *)
THEOREM ClaimInvariance == ClaimSpec => []ClaimIInv
  BY InitIInv, NextIInv, PTL DEF ClaimSpec

(* The state of the claim always has the type ClaimTypeOK declares.        *)
THEOREM ClaimTypeCorrect == ClaimSpec => []ClaimTypeOK
<1>1. ClaimIInv => ClaimTypeOK
  BY DEF ClaimIInv
<1>. QED
  BY <1>1, ClaimInvariance, PTL

(* ConsumeClaim and commitInOrder never mark past a message that no worker *)
(* took ownership of, however workers, events and crashes interleave.      *)
THEOREM NeverSkips == ClaimSpec => []NoMessageSkipped
<1>1. ClaimIInv => NoMessageSkipped
  BY DEF ClaimIInv
<1>. QED
  BY <1>1, ClaimInvariance, PTL

(* commitInOrder moves the mark one offset at a time.                      *)
THEOREM OneByOne == ClaimSpec => MarksOneByOne
<1>1. ClaimIInv /\ [ClaimNext]_claimVars =>
        [mainPc # "closed" /\ marked' # marked => marked' = marked + 1]_claimVars
  <2> SUFFICES ASSUME ClaimIInv, ClaimNext, mainPc # "closed", marked' # marked
               PROVE  marked' = marked + 1
    BY DEF claimVars
  <2>1. MarkHead
    BY DEF ClaimNext, MainStep, WorkerStep, CommitStep, StartSession, SubmitWork,
      AnnounceWork, StopClaim, CloseEvents, EndClaim, WorkerTake, WorkerOwns,
      WorkerWithholds, WorkerReport, RecvSubmitted, RecvCompleted, StopMarking,
      ClaimCrash
  <2>. QED
    BY <2>1, MarkHeadAdvances
<1>. QED
  BY <1>1, ClaimInvariance, PTL DEF ClaimSpec, MarksOneByOne

-----------------------------------------------------------------------------
(* The events of the pipeline's status changes: RelayLoop, for any number   *)
(* of events, dispatches, workers, faults and crashes and any batch size.   *)

(* What a worker between two calls knows of its event, and what no other   *)
(* worker can take from it meanwhile.                                      *)
LoopHeld ==
    \A w \in LoopWorkers :
        /\ loopPc[w] # "batch" => cur[w] \in Events
        /\ loopPc[w] \in {"record", "markFailed"} => cur[w] \in TooLarge
        /\ loopPc[w] = "markFailed" => ledger[cur[w]] = "QUARANTINED"
        /\ loopPc[w] = "markPublished" =>
              cur[w] \in published \/ rowStatus[cur[w]] = "FAILED"

LoopIInv == LoopTypeOK /\ LoopHeld /\ StatusIsTrue

(* The invariant holds initially.                                          *)
LEMMA LoopIInvInit == LoopInit => LoopIInv
  BY RelayLoopAssumption DEF LoopInit, LoopIInv, LoopTypeOK, LoopHeld, StatusIsTrue, NoEvent

(* Every step preserves the invariant.                                     *)
LEMMA LoopIInvStep == LoopIInv /\ [LoopNext]_loopVars => LoopIInv'
<1> SUFFICES ASSUME LoopIInv, [LoopNext]_loopVars PROVE LoopIInv'
  OBVIOUS
<1> USE RelayLoopAssumption DEF LoopIInv, LoopTypeOK, NoEvent, LoopFault
<1>1. ASSUME NEW e \in Events, EnqueueTx(e)
      PROVE  LoopIInv'
  <2>1. LoopTypeOK'
    BY <1>1 DEF EnqueueTx
  <2>2. LoopHeld'
    BY <1>1 DEF EnqueueTx, LoopHeld
  <2>3. StatusIsTrue'
    BY <1>1 DEF EnqueueTx, StatusIsTrue
  <2>. QED
    BY <2>1, <2>2, <2>3
<1>2. ASSUME NEW w \in LoopWorkers, ListPendingForPublish(w)
      PROVE  LoopIInv'
  BY <1>2 DEF ListPendingForPublish, Pending, LoopHeld, StatusIsTrue
<1>3. ASSUME NEW w \in LoopWorkers, NEW e \in Events, Publish(w, e)
      PROVE  LoopIInv'
  <2>1. LoopTypeOK'
    BY <1>3 DEF Publish
  <2>2. LoopHeld'
    BY <1>3 DEF Publish, LoopHeld
  <2>3. StatusIsTrue'
    BY <1>3 DEF Publish, StatusIsTrue
  <2>. QED
    BY <2>1, <2>2, <2>3
<1>4. ASSUME NEW w \in LoopWorkers, PublishDLQ(w)
      PROVE  LoopIInv'
  BY <1>4 DEF PublishDLQ, Call, NextEvent, LoopHeld, StatusIsTrue
<1>5. ASSUME NEW w \in LoopWorkers, RecordFailure(w)
      PROVE  LoopIInv'
  <2>1. cur[w] \in TooLarge
    BY <1>5 DEF RecordFailure, LoopHeld
  <2>2. LoopTypeOK'
    BY <1>5 DEF RecordFailure, Call, NextEvent
  <2>3. LoopHeld'
    BY <1>5, <2>1 DEF RecordFailure, Call, NextEvent, LoopHeld
  <2>4. StatusIsTrue'
    BY <1>5, <2>1 DEF RecordFailure, StatusIsTrue
  <2>. QED
    BY <2>2, <2>3, <2>4
<1>6. ASSUME NEW w \in LoopWorkers, MarkFailed(w)
      PROVE  LoopIInv'
  <2>1. cur[w] \in TooLarge /\ ledger[cur[w]] = "QUARANTINED"
    BY <1>6 DEF MarkFailed, LoopHeld
  <2>2. LoopTypeOK'
    BY <1>6 DEF MarkFailed, Call, NextEvent
  <2>3. LoopHeld'
    BY <1>6, <2>1 DEF MarkFailed, Call, NextEvent, LoopHeld
  <2>4. StatusIsTrue'
    BY <1>6, <2>1 DEF MarkFailed, StatusIsTrue
  <2>. QED
    BY <2>2, <2>3, <2>4
<1>7. ASSUME NEW w \in LoopWorkers, MarkPublished(w)
      PROVE  LoopIInv'
  <2>1. cur[w] \in Events /\ (cur[w] \in published \/ rowStatus[cur[w]] = "FAILED")
    BY <1>7 DEF MarkPublished, LoopHeld
  <2>2. LoopTypeOK'
    BY <1>7 DEF MarkPublished, NextEvent
  <2>3. LoopHeld'
    BY <1>7, <2>1 DEF MarkPublished, NextEvent, LoopHeld
  <2>4. StatusIsTrue'
    BY <1>7, <2>1 DEF MarkPublished, StatusIsTrue
  <2>. QED
    BY <2>2, <2>3, <2>4
<1>8. ASSUME NEW w \in LoopWorkers, LoopCrash(w)
      PROVE  LoopIInv'
  BY <1>8 DEF LoopCrash, NextEvent, LoopHeld, StatusIsTrue
<1>9. CASE UNCHANGED loopVars
  BY <1>9 DEF loopVars, LoopHeld, StatusIsTrue
<1>. QED
  BY <1>1, <1>2, <1>3, <1>4, <1>5, <1>6, <1>7, <1>8, <1>9 DEF LoopNext, LoopWorkerStep

(* The invariant holds in every reachable state.                           *)
LEMMA LoopInvariance == LoopSpec => []LoopIInv
  BY LoopIInvInit, LoopIInvStep, PTL DEF LoopSpec

(* The relay loop's state keeps its type.                                  *)
THEOREM LoopTypeCorrect == LoopSpec => []LoopTypeOK
  BY LoopInvariance, PTL DEF LoopIInv

(* However workers race for the same rows, PUBLISHED rows are on the topic *)
(* and FAILED rows are quarantined poison.                                 *)
THEOREM StatusIsTruthful == LoopSpec => []StatusIsTrue
  BY LoopInvariance, PTL DEF LoopIInv

-----------------------------------------------------------------------------
(* The relay loop implements the delivery contract without ever giving an  *)
(* event up: a row leaves PENDING only when its event is on the topic or   *)
(* on record, and never comes back.                                        *)
THEOREM KeepsContract == LoopSpec => ContractKept
<1> DEFINE SettledRows == {e \in Events : rowStatus[e] \in {"PUBLISHED", "FAILED"}}
           RecordedRows == {e \in Events : ledger[e] # "none"}
<1>0. ASSUME NEW e \in Events, e \in published \cup RecordedRows,
             SettledRows' = SettledRows \cup {e}, UNCHANGED <<published, RecordedRows>>
      PROVE  Contract!Next
  <2>1. PICK S \in SUBSET Events : S = {e}
    OBVIOUS
  <2>. QED
    BY <1>0, <2>1 DEF Contract!Next, Contract!Settle
<1>1. LoopInit => Contract!Init
  BY DEF LoopInit, Contract!Init
<1>2. LoopIInv /\ LoopNext => Contract!Next \/ UNCHANGED Contract!vars
  <2> SUFFICES ASSUME LoopIInv, LoopNext PROVE Contract!Next \/ UNCHANGED Contract!vars
    OBVIOUS
  <2> USE DEF LoopIInv, LoopTypeOK, Contract!Next, Contract!vars
  <2>1. CASE UNCHANGED <<published, RecordedRows, SettledRows>>
    BY <2>1
  <2>2. ASSUME NEW e \in Events, EnqueueTx(e)
        PROVE  UNCHANGED <<published, RecordedRows, SettledRows>>
    BY <2>2 DEF EnqueueTx
  <2>3. ASSUME NEW w \in LoopWorkers,
               ListPendingForPublish(w) \/ PublishDLQ(w) \/ LoopCrash(w)
        PROVE  UNCHANGED <<published, RecordedRows, SettledRows>>
    BY <2>3 DEF ListPendingForPublish, PublishDLQ, LoopCrash
  <2>4. ASSUME NEW w \in LoopWorkers, NEW e \in Events, Publish(w, e)
        PROVE  UNCHANGED <<published, RecordedRows, SettledRows>> \/ Contract!Deliver(e)
    BY <2>4 DEF Publish, Contract!Deliver
  <2>5. ASSUME NEW w \in LoopWorkers, RecordFailure(w)
        PROVE  Contract!Next \/ UNCHANGED Contract!vars
    <3>1. cur[w] \in Events
      BY <2>5 DEF RecordFailure, LoopHeld
    <3>2. CASE ledger' = [ledger EXCEPT ![cur[w]] = "QUARANTINED"]
      <4>1. RecordedRows' = RecordedRows \cup {cur[w]} /\ UNCHANGED <<published, SettledRows>>
        BY <2>5, <3>1, <3>2 DEF RecordFailure
      <4>. QED
        BY <3>1, <4>1 DEF Contract!RecordFailure
    <3>3. CASE UNCHANGED ledger
      BY <2>5, <3>3 DEF RecordFailure
    <3>. QED
      BY <2>5, <3>2, <3>3 DEF RecordFailure
  <2>6. ASSUME NEW w \in LoopWorkers, MarkFailed(w)
        PROVE  Contract!Next \/ UNCHANGED Contract!vars
    <3>1. cur[w] \in Events /\ cur[w] \in RecordedRows
      BY <2>6 DEF MarkFailed, LoopHeld
    <3>2. CASE rowStatus' = [rowStatus EXCEPT ![cur[w]] = "FAILED"]
      <4>1. SettledRows' = SettledRows \cup {cur[w]} /\ UNCHANGED <<published, RecordedRows>>
        BY <2>6, <3>1, <3>2 DEF MarkFailed
      <4>. QED
        BY <1>0, <3>1, <4>1
    <3>3. CASE UNCHANGED rowStatus
      BY <2>6, <3>3 DEF MarkFailed
    <3>. QED
      BY <2>6, <3>2, <3>3 DEF MarkFailed
  <2>7. ASSUME NEW w \in LoopWorkers, MarkPublished(w)
        PROVE  Contract!Next \/ UNCHANGED Contract!vars
    <3>1. cur[w] \in Events /\ (cur[w] \in published \/ rowStatus[cur[w]] = "FAILED")
      BY <2>7 DEF MarkPublished, LoopHeld
    <3>2. CASE /\ rowStatus[cur[w]] = "PENDING"
               /\ rowStatus' = [rowStatus EXCEPT ![cur[w]] = "PUBLISHED"]
      <4>1. SettledRows' = SettledRows \cup {cur[w]} /\ UNCHANGED <<published, RecordedRows>>
        BY <2>7, <3>1, <3>2 DEF MarkPublished
      <4>2. cur[w] \in published
        BY <3>1, <3>2
      <4>. QED
        BY <1>0, <3>1, <4>1, <4>2
    <3>3. CASE UNCHANGED rowStatus
      BY <2>7, <3>3 DEF MarkPublished
    <3>. QED
      BY <2>7, <3>1, <3>2, <3>3 DEF MarkPublished
  <2>. QED
    BY <2>1, <2>2, <2>3, <2>4, <2>5, <2>6, <2>7 DEF LoopNext, LoopWorkerStep
<1>3. UNCHANGED loopVars => UNCHANGED Contract!vars
  BY DEF loopVars, Contract!vars
<1>. QED
  BY <1>1, <1>2, <1>3, LoopInvariance, PTL DEF LoopSpec, ContractKept, Contract!Spec
=============================================================================
