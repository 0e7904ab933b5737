---------------------------- MODULE ClaimCommit ----------------------------
(***************************************************************************)
(* One partition claim of the relay's dispatch consumer                    *)
(* (backend/relay/services/dispatch_consumer.go).                          *)
(*                                                                         *)
(* ConsumeClaim fans the partition's messages out to a pool of workers     *)
(* over the channel workCh; commitInOrder, the only owner of `order' and   *)
(* `finished', receives a "submitted" and a "completed" notification per   *)
(* message over the channel `events' and marks offsets in delivery order.  *)
(* A message whose processing did not take ownership is never reported.    *)
(*                                                                         *)
(* The log is the sequence of offsets 0 .. LogLen-1 and does not change.   *)
(* Where a session starts is the broker's business: at any offset that is  *)
(* not beyond what the previous session marked (in particular at the       *)
(* oldest one, which is what happens when nothing was ever committed).     *)
(***************************************************************************)
EXTENDS Integers, Sequences, FiniteSets

CONSTANTS
    Workers,    \* the goroutines of one claim (cfg.WorkerCount of them)
    LogLen,     \* number of messages in the partition
    WorkCap,    \* capacity of workCh: 2 * workerCount in the code
    EventCap    \* capacity of events: 4 * workerCount in the code

ASSUME ConstantsAssumption ==
    /\ LogLen \in Nat
    /\ WorkCap \in Nat \ {0}
    /\ EventCap \in Nat \ {0}

Offsets == 0 .. (LogLen - 1)

VARIABLES
    \* what survives a crash
    owned,      \* offsets some worker has taken ownership of
    \* the session with the broker
    marked,     \* the next offset the session would commit
    \* the goroutine running ConsumeClaim
    mainPc,     \* "recv", "announce", "drain", "waitCommit" or "closed"
    nextMsg,    \* the next offset claim.Messages() delivers
    \* the channels
    workCh,
    events,
    \* the workers
    wstate,     \* "idle", "busy" or "report"
    job,        \* the offset a worker that is not idle is working on
    \* the goroutine running commitInOrder
    comPc,      \* "recv" or "marking"
    order,
    finished

claimVars == <<owned, marked, mainPc, nextMsg, workCh, events, wstate, job,
          comPc, order, finished>>

mainVars == <<mainPc, nextMsg>>
workerVars == <<wstate, job>>
comVars == <<comPc, order, finished>>

claimEvent == [offset : Offsets, completed : BOOLEAN]

Submitted(o) == [offset |-> o, completed |-> FALSE]
Completed(o) == [offset |-> o, completed |-> TRUE]

ClaimTypeOK ==
    /\ owned \subseteq Offsets
    /\ marked \in 0 .. LogLen
    /\ mainPc \in {"recv", "announce", "drain", "waitCommit", "closed"}
    /\ nextMsg \in 0 .. LogLen
    /\ workCh \in Seq(Offsets)
    /\ events \in Seq(claimEvent)
    /\ wstate \in [Workers -> {"idle", "busy", "report"}]
    /\ job \in [Workers -> Offsets \cup {-1}]
    /\ comPc \in {"recv", "marking"}
    /\ order \in Seq(Offsets)
    /\ finished \subseteq Offsets

ClaimInit ==
    /\ owned = {}
    /\ marked = 0
    /\ mainPc = "closed"
    /\ nextMsg = 0
    /\ workCh = <<>>
    /\ events = <<>>
    /\ wstate = [w \in Workers |-> "idle"]
    /\ job = [w \in Workers |-> -1]
    /\ comPc = "recv"
    /\ order = <<>>
    /\ finished = {}

-----------------------------------------------------------------------------
(* The broker assigns the claim: fresh channels, a fresh worker pool and    *)
(* fresh ordering state, from an offset nobody has marked past.             *)
StartSession ==
    /\ mainPc = "closed"
    /\ \E o \in 0 .. marked :
          /\ marked' = o
          /\ nextMsg' = o
    /\ mainPc' = "recv"
    /\ comPc' = "recv"
    /\ order' = <<>>
    /\ finished' = {}
    /\ UNCHANGED <<owned, workCh, events, workerVars>>

(* case workCh <- msg: the message is handed to the pool ...               *)
SubmitWork ==
    /\ mainPc = "recv"
    /\ nextMsg < LogLen
    /\ Len(workCh) < WorkCap
    /\ workCh' = Append(workCh, nextMsg)
    /\ mainPc' = "announce"
    /\ UNCHANGED <<owned, marked, nextMsg, events, workerVars, comVars>>

(* ... and only then announced to commitInOrder.                           *)
AnnounceWork ==
    /\ mainPc = "announce"
    /\ Len(events) < EventCap
    /\ events' = Append(events, Submitted(nextMsg))
    /\ nextMsg' = nextMsg + 1
    /\ mainPc' = "recv"
    /\ UNCHANGED <<owned, marked, workCh, workerVars, comVars>>

(* The claim ends (rebalance) or the consumer's context is cancelled: a    *)
(* message just received is dropped and workCh is closed.                  *)
StopClaim ==
    /\ mainPc = "recv"
    /\ mainPc' = "drain"
    /\ UNCHANGED <<owned, marked, nextMsg, workCh, events, workerVars, comVars>>

(* workerWg.Wait() returns once every worker found workCh closed and empty; *)
(* events is closed.                                                        *)
CloseEvents ==
    /\ mainPc = "drain"
    /\ workCh = <<>>
    /\ \A w \in Workers : wstate[w] = "idle"
    /\ mainPc' = "waitCommit"
    /\ UNCHANGED <<owned, marked, nextMsg, workCh, events, workerVars, comVars>>

(* commitInOrder has read everything and closed commitDone.                *)
EndClaim ==
    /\ mainPc = "waitCommit"
    /\ events = <<>>
    /\ comPc = "recv"
    /\ mainPc' = "closed"
    /\ UNCHANGED <<owned, marked, nextMsg, workCh, events, workerVars, comVars>>

-----------------------------------------------------------------------------
(* for msg := range workCh                                                 *)
WorkerTake(w) ==
    /\ wstate[w] = "idle"
    /\ workCh # <<>>
    /\ job' = [job EXCEPT ![w] = Head(workCh)]
    /\ workCh' = Tail(workCh)
    /\ wstate' = [wstate EXCEPT ![w] = "busy"]
    /\ UNCHANGED <<owned, marked, mainVars, events, comVars>>

(* processMessage returned true: ownership is durable (or the message is   *)
(* poison), the worker goes on to report the completion.                   *)
WorkerOwns(w) ==
    /\ wstate[w] = "busy"
    /\ owned' = owned \cup {job[w]}
    /\ wstate' = [wstate EXCEPT ![w] = "report"]
    /\ UNCHANGED <<marked, mainVars, workCh, events, job, comVars>>

(* processMessage returned false: deliberately no completion event.        *)
WorkerWithholds(w) ==
    /\ wstate[w] = "busy"
    /\ wstate' = [wstate EXCEPT ![w] = "idle"]
    /\ UNCHANGED <<owned, marked, mainVars, workCh, events, job, comVars>>

WorkerReport(w) ==
    /\ wstate[w] = "report"
    /\ Len(events) < EventCap
    /\ events' = Append(events, Completed(job[w]))
    /\ wstate' = [wstate EXCEPT ![w] = "idle"]
    /\ UNCHANGED <<owned, marked, mainVars, workCh, job, comVars>>

-----------------------------------------------------------------------------
(* commitInOrder: a "submitted" event only appends to `order' ...          *)
RecvSubmitted ==
    /\ comPc = "recv"
    /\ events # <<>>
    /\ ~Head(events).completed
    /\ order' = Append(order, Head(events).offset)
    /\ events' = Tail(events)
    /\ UNCHANGED <<owned, marked, mainVars, workCh, workerVars, comPc, finished>>

(* ... a "completed" one is remembered and starts the marking loop.        *)
RecvCompleted ==
    /\ comPc = "recv"
    /\ events # <<>>
    /\ Head(events).completed
    /\ finished' = finished \cup {Head(events).offset}
    /\ events' = Tail(events)
    /\ comPc' = "marking"
    /\ UNCHANGED <<owned, marked, mainVars, workCh, workerVars, order>>

(* A fault: an offset is marked as soon as it has finished, whatever is    *)
(* still in flight before it.                                              *)
MarkAnyFinished ==
    /\ comPc = "marking"
    /\ \E i \in DOMAIN order :
          /\ order[i] \in finished
          /\ marked' = order[i] + 1
          /\ finished' = finished \ {order[i]}
          /\ order' = SelectSeq(order, LAMBDA o : o # order[i])
    /\ UNCHANGED <<owned, mainVars, workCh, events, workerVars, comPc>>

(* One turn of the loop: the head of `order' has finished and is marked.   *)
MarkHead ==
    /\ comPc = "marking"
    /\ order # <<>>
    /\ Head(order) \in finished
    /\ marked' = Head(order) + 1
    /\ finished' = finished \ {Head(order)}
    /\ order' = Tail(order)
    /\ UNCHANGED <<owned, mainVars, workCh, events, workerVars, comPc>>

(* A fault: the loop forgets to stop on an empty `order'.                  *)
StopMarkingNonEmpty ==
    /\ comPc = "marking"
    /\ order # <<>>
    /\ Head(order) \notin finished
    /\ comPc' = "recv"
    /\ UNCHANGED <<owned, marked, mainVars, workCh, events, workerVars, order,
                   finished>>

(* The loop condition fails.                                               *)
StopMarking ==
    /\ comPc = "marking"
    /\ order # <<>> => Head(order) \notin finished
    /\ comPc' = "recv"
    /\ UNCHANGED <<owned, marked, mainVars, workCh, events, workerVars, order,
                   finished>>

(* The process dies between any two steps: only what is in the database    *)
(* and at the broker is left.                                              *)
ClaimCrash ==
    /\ mainPc # "closed"
    /\ mainPc' = "closed"
    /\ workCh' = <<>>
    /\ events' = <<>>
    /\ wstate' = [w \in Workers |-> "idle"]
    /\ comPc' = "recv"
    /\ order' = <<>>
    /\ finished' = {}
    /\ UNCHANGED <<owned, marked, nextMsg, job>>

MainStep == SubmitWork \/ AnnounceWork \/ CloseEvents \/ EndClaim

WorkerStep(w) ==
    WorkerTake(w) \/ WorkerOwns(w) \/ WorkerWithholds(w) \/ WorkerReport(w)

CommitStep == RecvSubmitted \/ RecvCompleted \/ MarkHead \/ StopMarking

ClaimNext ==
    \/ StartSession
    \/ MainStep
    \/ StopClaim
    \/ \E w \in Workers : WorkerStep(w)
    \/ CommitStep
    \/ ClaimCrash

ClaimSpec == ClaimInit /\ [][ClaimNext]_claimVars

(* Every goroutine that can run eventually does; nothing forces a claim to *)
(* start, to end, or the process to crash.                                 *)
ClaimFairness ==
    /\ WF_claimVars(MainStep)
    /\ \A w \in Workers : WF_claimVars(WorkerStep(w))
    /\ WF_claimVars(CommitStep)

FairClaimSpec == ClaimSpec /\ ClaimFairness

-----------------------------------------------------------------------------
(* Every offset below the one the session would commit has been taken: a   *)
(* crash or a rebalance at any point redelivers every message that no      *)
(* worker took ownership of (the comment on ConsumeClaim, P1 6.1.4).       *)
NoMessageSkipped == \A o \in Offsets : o < marked => o \in owned

(* Within one session offsets are marked one by one, with no gap and never *)
(* backwards, whatever order the workers finish in.                        *)
MarksOneByOne ==
    [][mainPc # "closed" /\ marked' # marked => marked' = marked + 1]_claimVars

(* Shutting a claim down cannot hang: once workCh is closed the workers,   *)
(* the bounded events channel and commitInOrder drain and ConsumeClaim     *)
(* returns (or the process dies).                                          *)
DrainCompletes ==
    mainPc \in {"drain", "waitCommit"} ~> mainPc = "closed"
=============================================================================
