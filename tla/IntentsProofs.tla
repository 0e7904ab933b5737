--------------------------- MODULE IntentsProofs ---------------------------
(***************************************************************************)
(* Proofs about Intents for any events, partitions, approvals, limit and   *)
(* number of faults: a marked message has left a trace, one business key   *)
(* has one unflagged intent, and what is accepted stays within the limit.  *)
(***************************************************************************)
EXTENDS Intents, FiniteSetTheorems, SequenceTheorems, TLAPS

Handling ==
    [step : Steps, tries : 0..maxHandlerAttempts, dup : BOOLEAN, fresh : BOOLEAN, held : BOOLEAN,
     id : Nat, status : {"ACCEPTED", "FAILED"}, unsaved : BOOLEAN, ended : BOOLEAN,
     seen : Nat \X Nat]
Keys ==
    ({About[e].ref : e \in Events} \cup {About[e].payee : e \in Events}) \X Nat \X BOOLEAN
IntentRecord ==
    [event : Events, key : Keys, dup : BOOLEAN, state : GovernanceStates, accepted : BOOLEAN,
     async : BOOLEAN, refs : BOOLEAN]
OutboxRecord ==
    [state : GovernanceStates, dup : BOOLEAN, accepted : BOOLEAN, refs : BOOLEAN]
RunStatuses == {None, "PROCESSING", "COMPLETED", "FAILED_RETRYABLE", "PARTIAL_FAILED",
                "FAILED_FINAL"}
ClientSteps == {"check", "reserve", "approve", "release", "done"}

TopicTypes ==
    /\ world \in Worlds
    /\ position \in [Topics -> Nat \ {0}] /\ committed \in [Topics -> Nat \ {0}]
    /\ \A p \in Topics : committed[p] <= position[p] /\ position[p] <= Len(Log(p)) + 1
    /\ faults \in 0..world.faults
TableTypes ==
    /\ intents \in Seq(IntentRecord) /\ outbox \in Seq(OutboxRecord)
    /\ Len(outbox) = Len(intents)
    /\ \A k \in DOMAIN registry : registry[k] \in DOMAIN intents
    /\ dlq \subseteq Events /\ IsFiniteSet(dlq)
    /\ receipts \subseteq {"event", "result"} \X Events
EnclaveTypes ==
    /\ buffered \in Seq(Events) /\ undelivered \subseteq Events
    /\ requests \in Seq(Events) /\ results \in Seq(Events)
    /\ asked \in 1..Len(requests) + 1 /\ unanswered \subseteq Events
FileTypes ==
    /\ rows \in [{"ACCEPTED", "FAILED"} -> Nat]
    /\ run \in [status : RunStatuses, accepted : Nat, failed : Nat]
    /\ flight \in Topics \cup {None}

(* What no later step takes back: an event has left a trace, or its        *)
(* request is lost; and what it has while its request is under way.        *)
Settled(e) ==
    \/ HasIntent(e) \/ e \in dlq \/ <<"event", e>> \in receipts \/ <<"result", e>> \in receipts
    \/ e \in unanswered \/ e \in undelivered
Trace(e) == Settled(e) \/ InFlight(e)

(* Steps of a handler that has saved its intent, steps that only follow    *)
(* one that left a trace, and the steps of the enclave's answers.          *)
Saved == {"snapshot", "refs", "outboxrefs"}
Late == Saved \cup {"aggregate", "write", "joined", "continue", "ensure", "row", "count", "upsert"}
ResultSteps == Saved \cup {"idle", "start", "registry", "strict", "save", "record"}

(* What a handler h of the topic p has done for its event e.               *)
Knows(p, e, h) ==
    /\ h \in Handling /\ h.id <= Len(intents)
    /\ h.step # "record" => h.tries < maxHandlerAttempts
    /\ h.step \in Saved => h.id # 0 /\ HasIntent(e)
    /\ h.step \in Late => h.unsaved \/ Trace(e)
    /\ h.step \in {"strict", "reserve", "save"} => Webhook(e) \/ h.dup \/ h.fresh
    /\ p = "results" => h.step \in ResultSteps /\ ~h.unsaved

Handlers ==
    /\ handler \in [Topics -> Handling]
    /\ \A p \in Topics : /\ Knows(p, Event(p), handler[p])
                         /\ handler[p].step # "idle" => position[p] <= Len(Log(p))

Marked == \A p \in Topics : \A i \in 1..position[p] - 1 : Trace(Log(p)[i])

(* An approval that goes on holds an intent, and no webhook.               *)
Approvals ==
    /\ client \in [Clients -> [step : ClientSteps, id : Nat]]
    /\ \A c \in Clients : client[c].step \in {"reserve", "approve", "release"} =>
           client[c].id \in DOMAIN intents /\ intents[client[c].id].state # "WEBHOOK"

(* The registry leads from a key to its only unflagged intent.             *)
Registered ==
    \A i \in DOMAIN intents :
        intents[i].state # "WEBHOOK" /\ ~intents[i].dup =>
            intents[i].key \in DOMAIN registry /\ registry[intents[i].key] = i

(* What is reserved covers what is accepted, what handlers are about to    *)
(* save as accepted, and what approvals are about to accept.               *)
Saving == {p \in Partitions : At(p, "save") /\ GovernanceState(p) = "VALID"}
SavingUnits == UNION {Units(p, Event(p)) : p \in Saving}
Approving == {c \in Clients : client[c].step = "approve"}
ApprovingUnits == UNION {Units(c, intents[client[c].id].event) : c \in Approving}
Covered ==
    /\ usage \in Nat /\ usage <= DailyLimit
    /\ IsFiniteSet(AcceptedUnits) /\ IsFiniteSet(SavingUnits) /\ IsFiniteSet(ApprovingUnits)
    /\ Cardinality(AcceptedUnits) + Cardinality(SavingUnits) + Cardinality(ApprovingUnits) <= usage

Types == TopicTypes /\ TableTypes /\ EnclaveTypes /\ FileTypes
IInv == Types /\ Handlers /\ Marked /\ Approvals /\ Registered /\ Covered

-----------------------------------------------------------------------------
(* Units of money.                                                         *)

LEMMA UnitsFacts ==
    ASSUME NEW owner, NEW e \in Events
    PROVE  /\ IsFiniteSet(Units(owner, e))
           /\ Cardinality(Units(owner, e)) = About[e].amount
           /\ About[e].amount \in Nat
<1>1. About[e].amount \in Nat
  BY IntentsAssumption
<1>2. PICK n \in Nat : n = About[e].amount
  BY <1>1
<1>3. IsFiniteSet(1..n) /\ Cardinality(1..n) = n
  BY FS_Interval
<1>4. IsFiniteSet({owner}) /\ Cardinality({owner}) = 1
  BY FS_Singleton
<1>5. /\ IsFiniteSet({owner} \X (1..n))
      /\ Cardinality({owner} \X (1..n)) = Cardinality({owner}) * Cardinality(1..n)
  BY <1>3, <1>4, FS_Product
<1>. QED
  BY <1>1, <1>2, <1>3, <1>4, <1>5 DEF Units

(* Taking a part out of a finite set and putting another one in.           *)
LEMMA Exchange ==
    ASSUME NEW S, IsFiniteSet(S), NEW X, X \subseteq S, NEW Y, IsFiniteSet(Y), NEW n \in Int,
           Cardinality(Y) <= Cardinality(X) + n, NEW T, T \subseteq (S \ X) \cup Y
    PROVE  IsFiniteSet(T) /\ Cardinality(T) <= Cardinality(S) + n
<1>1. IsFiniteSet(X)
  BY FS_Subset
<1>2. IsFiniteSet(S \ X) /\ Cardinality(S \ X) = Cardinality(S) - Cardinality(S \cap X)
  BY FS_Difference
<1>3. S \cap X = X
  OBVIOUS
<1>4. PICK U : U = S \ X
  OBVIOUS
<1>5. /\ IsFiniteSet(U \cup Y)
      /\ Cardinality(U \cup Y) = Cardinality(U) + Cardinality(Y) - Cardinality(U \cap Y)
  BY <1>2, <1>4, FS_Union
<1>6. IsFiniteSet(U \cap Y)
  BY <1>2, <1>4, FS_Intersection
<1>7. T \in SUBSET (U \cup Y)
  BY <1>4
<1>8. IsFiniteSet(T) /\ Cardinality(T) <= Cardinality(U \cup Y)
  BY <1>5, <1>7, FS_Subset
<1>9. /\ Cardinality(S) \in Nat /\ Cardinality(X) \in Nat /\ Cardinality(Y) \in Nat
      /\ Cardinality(T) \in Nat /\ Cardinality(U) \in Nat
      /\ Cardinality(U \cup Y) \in Nat /\ Cardinality(U \cap Y) \in Nat
  BY <1>1, <1>2, <1>4, <1>5, <1>6, <1>8, FS_CardinalityType
<1>10. Cardinality(U) = Cardinality(S) - Cardinality(X)
  BY <1>2, <1>3, <1>4
<1>. QED
  BY <1>5, <1>8, <1>9, <1>10

LEMMA Shrink ==
    ASSUME NEW S, IsFiniteSet(S), NEW T, T \subseteq S
    PROVE  /\ IsFiniteSet(T) /\ Cardinality(T) <= Cardinality(S)
           /\ Cardinality(S) \in Nat /\ Cardinality(T) \in Nat
  BY FS_Subset, FS_CardinalityType

-----------------------------------------------------------------------------
(* Logs and traces.                                                        *)

LEMMA LogType ==
    ASSUME TopicTypes, EnclaveTypes, NEW p \in Topics
    PROVE  /\ Log(p) \in Seq(Events) /\ Len(Log(p)) \in Nat
           /\ \A i \in 1..Len(Log(p)) : Log(p)[i] \in Events
<1>1. Log(p) \in Seq(Events)
  BY IntentsAssumption DEF TopicTypes, EnclaveTypes, Log, Topics
<1>. QED
  BY <1>1

LEMMA NextLogType ==
    ASSUME TopicTypes', EnclaveTypes', NEW p \in Topics
    PROVE  Log(p)' \in Seq(Events) /\ Len(Log(p)') \in Nat
<1>1. Log(p)' \in Seq(Events)
  BY IntentsAssumption DEF TopicTypes, EnclaveTypes, Log, Topics
<1>. QED
  BY <1>1

LEMMA EventInHand ==
    ASSUME TopicTypes, EnclaveTypes, NEW p \in Topics, position[p] <= Len(Log(p))
    PROVE  Event(p) \in Events /\ position[p] \in 1..Len(Log(p))
  BY LogType DEF TopicTypes, Event

(* What every step leaves: tables and topics only grow.                    *)
Grows ==
    /\ world' = world
    /\ Len(intents) <= Len(intents')
    /\ \A i \in DOMAIN intents : i \in DOMAIN intents' /\ intents'[i].event = intents[i].event
    /\ dlq \subseteq dlq' /\ receipts \subseteq receipts' /\ unanswered \subseteq unanswered'
    /\ undelivered \subseteq undelivered'
    /\ Len(results) <= Len(results')
    /\ \A i \in 1..Len(results) : results'[i] = results[i]

Kept == \A e \in Events : Trace(e) => Trace(e)'

LEMMA SettledStable ==
    ASSUME Grows, NEW e, Settled(e)
    PROVE  Settled(e)'
  BY DEF Grows, Settled, HasIntent

LEMMA HasIntentStable ==
    ASSUME Grows, NEW e, HasIntent(e)
    PROVE  HasIntent(e)'
  BY DEF Grows, HasIntent

LEMMA LogGrows ==
    ASSUME Grows, NEW p \in Topics
    PROVE  /\ Len(Log(p)) <= Len(Log(p)') \/ Log(p)' = Log(p)
           /\ \A i \in 1..Len(Log(p)) : Log(p)'[i] = Log(p)[i]
  BY DEF Grows, Log, Topics

(* Handlers keep the traces of others: they write and append, and the      *)
(* position among the answers moves only past a settled one.               *)
LEMMA KeptByHandlers ==
    ASSUME EnclaveTypes, Grows, \A e \in Buffered : e \in Buffered' \/ Settled(e)',
           requests' = requests, asked' = asked, results' = results,
           position["results"] \in Nat, position'["results"] \in Nat,
           \A i \in position["results"]..position'["results"] - 1 : Settled(results[i])'
    PROVE  Kept
<1> SUFFICES ASSUME NEW e \in Events, Trace(e) PROVE Trace(e)'
  BY DEF Kept
<1>1. CASE Settled(e)
  BY <1>1, SettledStable DEF Trace
<1>2. CASE e \in Buffered \/ \E i \in asked..Len(requests) : requests[i] = e
  BY <1>2 DEF Trace, InFlight
<1>3. ASSUME NEW i \in position["results"]..Len(results), results[i] = e
      PROVE  Trace(e)'
  <2>1. CASE i < position'["results"]
    BY <1>3, <2>1 DEF EnclaveTypes, Trace
  <2>2. CASE i >= position'["results"]
    BY <1>3, <2>2 DEF EnclaveTypes, Trace, InFlight
  <2>. QED
    BY <1>3, <2>1, <2>2 DEF EnclaveTypes
<1>. QED
  BY <1>1, <1>2, <1>3 DEF Trace, InFlight

(* The producer sends a request or drops it.                               *)
LEMMA KeptByProducer ==
    ASSUME EnclaveTypes, SendBuffered
    PROVE  Kept
<1> SUFFICES ASSUME NEW e \in Events, Trace(e) PROVE Trace(e)'
  BY DEF Kept
<1> USE DEF SendBuffered, tables, topics
<1>1. CASE Settled(e)
  BY <1>1 DEF Trace, Settled, HasIntent
<1>2. ASSUME NEW i \in DOMAIN buffered, buffered[i] = e
      PROVE  Trace(e)'
  <2>1. i \in 1..Len(buffered) /\ Len(buffered) \in Nat
    BY <1>2 DEF EnclaveTypes
  <2>2. CASE i = 1
    <3>1. Head(buffered) = e
      BY <1>2, <2>2
    <3>2. CASE requests' = Append(requests, e)
      <4>1. requests'[Len(requests) + 1] = e /\ Len(requests) + 1 \in asked'..Len(requests')
        BY <3>2 DEF EnclaveTypes
      <4>. QED
        BY <4>1 DEF Trace, InFlight
    <3>3. CASE undelivered' = undelivered \cup {e}
      BY <3>3 DEF Trace, Settled
    <3>. QED
      BY <3>1, <3>2, <3>3
  <2>3. CASE i # 1
    <3>1. i - 1 \in DOMAIN buffered' /\ buffered'[i - 1] = e
      BY <1>2, <2>1, <2>3 DEF EnclaveTypes
    <3>. QED
      BY <3>1 DEF Trace, InFlight, Buffered
  <2>. QED
    BY <2>2, <2>3
<1>3. ASSUME NEW i \in asked..Len(requests), requests[i] = e
      PROVE  Trace(e)'
  <2>1. PICK f \in Events : f = Head(buffered)
    BY DEF EnclaveTypes
  <2>2. asked' = asked /\ (requests' = requests \/ requests' = Append(requests, f))
    BY <2>1
  <2>3. i \in 1..Len(requests) /\ Len(requests) \in Nat
    BY <1>3 DEF EnclaveTypes
  <2>4. requests'[i] = e /\ i \in asked'..Len(requests')
    <3>1. CASE requests' = requests
      BY <1>3, <2>2, <3>1
    <3>2. CASE requests' = Append(requests, f)
      BY <1>3, <2>2, <2>3, <3>2 DEF EnclaveTypes
    <3>. QED
      BY <2>2, <3>1, <3>2
  <2>. QED
    BY <2>4 DEF Trace, InFlight
<1>4. CASE \E i \in position["results"]..Len(results) : results[i] = e
  BY <1>4 DEF Trace, InFlight
<1>. QED
  BY <1>1, <1>2, <1>3, <1>4 DEF Trace, InFlight, Buffered

(* The enclave answers, answers twice, or records that it cannot.          *)
LEMMA KeptByEnclave ==
    ASSUME EnclaveTypes, TopicTypes, TokenizeRequested
    PROVE  Kept
<1> SUFFICES ASSUME NEW e \in Events, Trace(e) PROVE Trace(e)'
  BY DEF Kept
<1> USE DEF TokenizeRequested, tables, topics
<1>0. position["results"] \in Nat \ {0} /\ position["results"] <= Len(results) + 1
  BY DEF TopicTypes, Topics, Log
<1>1. CASE Settled(e)
  BY <1>1 DEF Trace, Settled, HasIntent
<1>2. ASSUME NEW i \in asked..Len(requests), requests[i] = e
      PROVE  Trace(e)'
  <2>1. CASE i = asked
    <3>1. CASE results' = Append(results, requests[asked])
      BY <1>0, <1>2, <2>1, <3>1 DEF EnclaveTypes, Trace, InFlight
    <3>2. CASE unanswered' = unanswered \cup {requests[asked]}
      BY <1>2, <2>1, <3>2 DEF Trace, Settled
    <3>. QED
      BY <3>1, <3>2
  <2>2. CASE i # asked
    BY <1>2, <2>2 DEF EnclaveTypes, Trace, InFlight
  <2>. QED
    BY <2>1, <2>2
<1>3. ASSUME NEW i \in position["results"]..Len(results), results[i] = e
      PROVE  Trace(e)'
  <2>0. results' = results \/ (asked <= Len(requests) /\ results' = Append(results, requests[asked]))
    OBVIOUS
  <2>1. results'[i] = e /\ i \in position["results"]..Len(results')
    <3>1. CASE results' = results
      BY <1>3, <3>1
    <3>2. CASE results' = Append(results, requests[asked])
      BY <1>0, <1>3, <3>2 DEF EnclaveTypes
    <3>. QED
      BY <2>0, <3>1, <3>2
  <2>. QED
    BY <2>1 DEF TokenizeRequested, topics, Trace, InFlight
<1>4. CASE e \in Buffered
  BY <1>4 DEF Trace, InFlight, Buffered
<1>. QED
  BY <1>1, <1>2, <1>3, <1>4 DEF Trace, InFlight

-----------------------------------------------------------------------------
(* What handlers know while tables and topics grow.                        *)

LEMMA KnowsStable ==
    ASSUME TableTypes, TableTypes', Grows, Kept, NEW p, NEW e, NEW h, Knows(p, e, h),
           e \in Events \/ h.step = "idle"
    PROVE  Knows(p, e, h)'
<1>1. Len(intents) \in Nat /\ Len(intents') \in Nat /\ Len(intents) <= Len(intents')
  BY DEF TableTypes, Grows
<1>2. h \in Handling /\ h.id \in Nat /\ h.id <= Len(intents)
  BY DEF Knows, Handling
<1>3. h.id <= Len(intents')
  BY <1>1, <1>2
<1>4. h.step \in Saved => HasIntent(e)'
  BY HasIntentStable DEF Knows
<1>5. h.step \in Late => h.unsaved \/ Trace(e)'
  BY DEF Knows, Kept, Late, Saved
<1>. QED
  BY <1>2, <1>3, <1>4, <1>5 DEF Knows

LEMMA IdleKnows ==
    ASSUME TableTypes, NEW p, NEW e
    PROVE  Knows(p, e, Idle) /\ Idle \in Handling
<1>1. Idle \in Handling
  BY IntentsAssumption DEF Idle, Handling, Steps
<1>. QED
  BY <1>1, IntentsAssumption DEF Knows, Idle, Saved, Late, ResultSteps, TableTypes

LEMMA NextIdleKnows ==
    ASSUME TableTypes', NEW p, NEW e
    PROVE  Knows(p, e, Idle)'
<1>1. Idle \in Handling
  BY IntentsAssumption DEF Idle, Handling, Steps
<1>. QED
  BY <1>1, IntentsAssumption DEF Knows, Idle, Saved, Late, ResultSteps, TableTypes

(* The messages marked before are still marked, and have their traces.     *)
LEMMA MarkedStable ==
    ASSUME Types, Marked, Grows, Kept, NEW q \in Topics, NEW i \in 1..position[q] - 1
    PROVE  Trace(Log(q)[i])'
<1>1. position[q] \in Nat /\ position[q] <= Len(Log(q)) + 1
  BY DEF Types, TopicTypes
<1>2. Len(Log(q)) \in Nat
  BY LogType DEF Types
<1>3. i \in 1..Len(Log(q))
  BY <1>1, <1>2
<1>4. PICK f \in Events : f = Log(q)[i]
  BY <1>3, LogType DEF Types
<1>5. Log(q)'[i] = f
  BY <1>3, <1>4, LogGrows
<1>6. Trace(f)
  BY <1>4 DEF Marked
<1>7. Trace(f)'
  BY <1>6 DEF Kept
<1>. QED
  BY <1>5, <1>7

(* The handlers that take no step keep what they know.                     *)
LEMMA OthersKnow ==
    ASSUME Types, Types', Handlers, Grows, Kept, NEW q \in Topics,
           handler'[q] = handler[q], position'[q] = position[q]
    PROVE  /\ Knows(q, Event(q), handler[q])'
           /\ handler'[q].step # "idle" => position'[q] <= Len(Log(q)')
<1>1. PICK h : h = handler[q]
  OBVIOUS
<1>2. PICK e : e = Event(q)
  OBVIOUS
<1>3. Knows(q, e, h) /\ (h.step # "idle" => position[q] <= Len(Log(q)))
  BY <1>1, <1>2 DEF Handlers
<1>4. CASE h.step = "idle"
  <2>1. PICK f : f = Event(q)'
    OBVIOUS
  <2>2. Knows(q, f, h)
    BY <1>3, <1>4 DEF Knows, Saved, Late
  <2>3. Knows(q, f, h)'
    BY <1>4, <2>2, KnowsStable DEF Types
  <2>. QED
    BY <1>1, <1>4, <2>1, <2>3
<1>5. CASE h.step # "idle"
  <2>1. e \in Events /\ position[q] \in 1..Len(Log(q))
    BY <1>2, <1>3, <1>5, EventInHand DEF Types
  <2>2. Event(q)' = e /\ position'[q] <= Len(Log(q)')
    <3>1. Log(q)'[position[q]] = Log(q)[position[q]]
      BY <2>1, LogGrows
    <3>2. Len(Log(q)) \in Nat /\ Len(Log(q)') \in Nat
      BY LogType, NextLogType DEF Types
    <3>3. position[q] \in Nat
      BY DEF Types, TopicTypes
    <3>. QED
      BY <1>2, <1>3, <1>5, <3>1, <3>2, <3>3, LogGrows DEF Event
  <2>3. Knows(q, e, h)'
    BY <1>3, <2>1, KnowsStable DEF Types
  <2>. QED
    BY <1>1, <2>2, <2>3
<1>. QED
  BY <1>4, <1>5

(* A handler goes on with g ...                                            *)
LEMMA MoveStep ==
    ASSUME Types, Types', Handlers, Marked, Grows, Kept, NEW p \in Topics, NEW e, e = Event(p),
           position[p] <= Len(Log(p)), NEW g, Become(p, g), Knows(p, e, g)'
    PROVE  Handlers' /\ Marked'
<1> USE DEF Become, topics
<1>1. g \in Handling
  BY DEF Knows
<1>2. handler' \in [Topics -> Handling] /\ handler'[p] = g
  BY <1>1 DEF Handlers
<1>3. position[p] \in 1..Len(Log(p))
  BY EventInHand DEF Types
<1>4. Log(p)'[position[p]] = Log(p)[position[p]]
  BY <1>3, LogGrows
<1>5. Event(p)' = e
  BY <1>4 DEF Event
<1>6. position'[p] <= Len(Log(p)')
  <2>1. Len(Log(p)) \in Nat /\ Len(Log(p)') \in Nat /\ position[p] \in Nat
    BY LogType, NextLogType DEF Types, TopicTypes
  <2>. QED
    BY <2>1, LogGrows
<1>7. ASSUME NEW q \in Topics, q # p
      PROVE  /\ Knows(q, Event(q), handler[q])'
             /\ handler'[q].step # "idle" => position'[q] <= Len(Log(q)')
  <2>1. handler'[q] = handler[q] /\ position'[q] = position[q]
    BY <1>7 DEF Handlers
  <2>. QED
    BY <2>1, OthersKnow
<1>8. Handlers'
  BY <1>2, <1>5, <1>6, <1>7 DEF Handlers
<1>9. Marked'
  <2> SUFFICES ASSUME NEW q \in Topics, NEW i \in 1..position[q] - 1 PROVE Trace(Log(q)[i])'
    BY DEF Marked
  <2>. QED
    BY MarkedStable
<1>. QED
  BY <1>8, <1>9

(* ... or marks its message, whose event has a trace.                      *)
LEMMA MarkStep ==
    ASSUME Types, Types', Handlers, Marked, Grows, Kept, NEW p \in Topics, NEW e, e = Event(p),
           position[p] <= Len(Log(p)), MarkMessage(p), Trace(e)'
    PROVE  Handlers' /\ Marked'
<1> USE DEF MarkMessage
<1>2. handler' \in [Topics -> Handling] /\ handler'[p] = Idle
  BY IdleKnows DEF Handlers, Types
<1>3. position[p] \in 1..Len(Log(p))
  BY EventInHand DEF Types
<1>4. Log(p)'[position[p]] = e
  BY <1>3, LogGrows DEF Event
<1>5. position'[p] = position[p] + 1 /\ position[p] \in Nat \ {0}
  BY DEF Types, TopicTypes
<1>6. Knows(p, Event(p), handler[p])' /\ handler'[p].step = "idle"
  <2>1. PICK f : f = Event(p)'
    OBVIOUS
  <2>2. Knows(p, f, Idle)'
    BY NextIdleKnows DEF Types
  <2>. QED
    BY <1>2, <2>1, <2>2 DEF Idle
<1>7. ASSUME NEW q \in Topics, q # p
      PROVE  /\ Knows(q, Event(q), handler[q])'
             /\ handler'[q].step # "idle" => position'[q] <= Len(Log(q)')
  <2>1. handler'[q] = handler[q] /\ position'[q] = position[q]
    BY <1>7 DEF Handlers, Types, TopicTypes
  <2>. QED
    BY <2>1, OthersKnow
<1>8. Handlers'
  BY <1>2, <1>6, <1>7 DEF Handlers
<1>9. Marked'
  <2> SUFFICES ASSUME NEW q \in Topics, NEW i \in 1..position'[q] - 1 PROVE Trace(Log(q)[i])'
    BY DEF Marked
  <2>1. CASE i \in 1..position[q] - 1
    BY <2>1, MarkedStable
  <2>2. CASE i \notin 1..position[q] - 1
    <3>1. position'[q] = IF q = p THEN position[q] + 1 ELSE position[q]
      BY DEF Types, TopicTypes
    <3>2. q = p /\ i = position[q]
      BY <1>5, <2>2, <3>1 DEF Types, TopicTypes
    <3>3. Log(q)'[i] = e
      BY <1>4, <3>2
    <3>. QED
      BY <3>3
  <2>. QED
    BY <2>1, <2>2
<1>. QED
  BY <1>8, <1>9

-----------------------------------------------------------------------------
(* The steps of handlers on topics and traces.                             *)

Asks(e) ==
    /\ UNCHANGED <<undelivered, requests, asked, unanswered, results>>
    /\ buffered' = buffered \/ Publish(e)

LEMMA AsksTypes ==
    ASSUME EnclaveTypes, NEW e \in Events, Asks(e)
    PROVE  EnclaveTypes'
<1>1. CASE buffered' = buffered
  BY <1>1 DEF EnclaveTypes, Asks
<1>2. CASE Publish(e)
  BY <1>2 DEF EnclaveTypes, Asks, Publish
<1>. QED
  BY <1>1, <1>2 DEF Asks

LEMMA BufferedStays ==
    ASSUME EnclaveTypes, NEW e, Asks(e)
    PROVE  \A x \in Buffered : x \in Buffered' \/ Settled(x)'
<1>1. CASE buffered' = buffered
  BY <1>1 DEF Buffered
<1>2. CASE Publish(e)
  <2>1. Len(buffered) \in Nat /\ DOMAIN buffered = 1..Len(buffered)
    BY DEF EnclaveTypes
  <2>2. \A i \in 1..Len(buffered) : i \in DOMAIN buffered' /\ buffered'[i] = buffered[i]
    BY <1>2, <2>1 DEF EnclaveTypes, Publish
  <2>. QED
    BY <2>1, <2>2 DEF Buffered
<1>. QED
  BY <1>1, <1>2 DEF Asks

LEMMA FaultsBounded ==
    ASSUME TopicTypes, world' = world, UNCHANGED faults \/ Fault
    PROVE  faults' \in 0..world'.faults
<1>1. world.faults \in Nat
  BY IntentsAssumption DEF TopicTypes
<1>. QED
  BY <1>1 DEF TopicTypes, Fault

LEMMA MoveTopics ==
    ASSUME Types, EnclaveTypes', Grows, UNCHANGED faults \/ Fault, UNCHANGED topics
    PROVE  TopicTypes'
<1>1. ASSUME NEW q \in Topics
      PROVE  position[q] <= Len(Log(q)') + 1
  <2>1. Len(Log(q)) \in Nat /\ position[q] \in Nat /\ position[q] <= Len(Log(q)) + 1
    BY LogType DEF Types, TopicTypes
  <2>2. Log(q)' = Log(q) \/ (Len(Log(q)') \in Nat /\ Len(Log(q)) <= Len(Log(q)'))
    BY DEF Log, EnclaveTypes, Grows
  <2>. QED
    BY <2>1, <2>2
<1>. QED
  BY <1>1, FaultsBounded DEF Types, TopicTypes, topics

LEMMA MarkTopics ==
    ASSUME Types, EnclaveTypes', Grows, UNCHANGED faults \/ Fault,
           NEW p \in Topics, position[p] <= Len(Log(p)), MarkMessage(p)
    PROVE  TopicTypes'
<1> USE DEF MarkMessage
<1>0. position' \in [Topics -> Nat \ {0}]
  BY DEF Types, TopicTypes
<1>1. ASSUME NEW q \in Topics
      PROVE  committed[q] <= position'[q] /\ position'[q] <= Len(Log(q)') + 1
  <2>1. /\ Len(Log(q)) \in Nat /\ position[q] \in Nat /\ committed[q] \in Nat
        /\ committed[q] <= position[q] /\ position[q] <= Len(Log(q)) + 1
    BY LogType DEF Types, TopicTypes
  <2>2. Log(q)' = Log(q) \/ (Len(Log(q)') \in Nat /\ Len(Log(q)) <= Len(Log(q)'))
    BY DEF Log, EnclaveTypes, Grows
  <2>3. position'[q] = IF q = p THEN position[q] + 1 ELSE position[q]
    BY DEF Types, TopicTypes
  <2>. QED
    BY <2>1, <2>2, <2>3
<1>. QED
  BY <1>0, <1>1, FaultsBounded DEF Types, TopicTypes

LEMMA MoveKeeps ==
    ASSUME Types, Grows, NEW e, Asks(e), UNCHANGED topics
    PROVE  Kept
<1>1. position["results"] \in Nat /\ position'["results"] = position["results"]
  BY DEF Types, TopicTypes, Topics, topics
<1>2. \A i \in position["results"]..position'["results"] - 1 : Settled(results[i])'
  BY <1>1
<1>. QED
  BY <1>1, <1>2, BufferedStays, KeptByHandlers DEF Types, Asks

LEMMA MarkKeeps ==
    ASSUME Types, Grows, NEW e, Asks(e), NEW p \in Topics, e = Event(p), MarkMessage(p),
           p = "results" => Settled(e)'
    PROVE  Kept
<1>1. position["results"] \in Nat
  BY DEF Types, TopicTypes, Topics
<1>2. position'["results"] = IF p = "results" THEN position["results"] + 1 ELSE position["results"]
  BY DEF Types, TopicTypes, Topics, MarkMessage
<1>3. \A i \in position["results"]..position'["results"] - 1 : Settled(results[i])'
  <2> SUFFICES ASSUME NEW i \in position["results"]..position'["results"] - 1
               PROVE  Settled(results[i])'
    OBVIOUS
  <2>1. p = "results" /\ i = position["results"]
    BY <1>1, <1>2
  <2>2. results'[i] = e
    BY <2>1 DEF Event, Log, Asks
  <2>. QED
    BY <2>1, <2>2
<1>. QED
  BY <1>1, <1>2, <1>3, BufferedStays, KeptByHandlers DEF Types, Asks

(* A handler that returns counts its row, or saves an entry nobody has     *)
(* saved, or marks its message.                                            *)
LEMMA ReturnCases ==
    ASSUME NEW p, NEW g, Return(p, g) \/ Succeed(p, g)
    PROVE  \/ p # "results" /\ Become(p, [g EXCEPT !.step = "ensure"])
           \/ g.unsaved /\ Become(p, [g EXCEPT !.step = "dlq"])
           \/ ~g.unsaved /\ MarkMessage(p)
  BY DEF Return, Succeed

LEMMA EndTopics ==
    ASSUME Types, EnclaveTypes', Grows, UNCHANGED faults \/ Fault,
           NEW p \in Topics, position[p] <= Len(Log(p)), NEW g, Return(p, g) \/ Succeed(p, g)
    PROVE  TopicTypes'
<1>1. UNCHANGED topics \/ MarkMessage(p)
  BY ReturnCases DEF Become
<1>. QED
  BY <1>1, MoveTopics, MarkTopics

LEMMA EndStep ==
    ASSUME Types, Types', Handlers, Marked, Grows, NEW e \in Events, Asks(e),
           NEW p \in Topics, e = Event(p), position[p] <= Len(Log(p)),
           NEW g \in Handling, g.id <= Len(intents), g.tries < maxHandlerAttempts,
           g.unsaved \/ Trace(e) \/ Trace(e)',
           p = "results" => ~g.unsaved /\ (Settled(e) \/ Settled(e)'),
           Return(p, g) \/ Succeed(p, g)
    PROVE  Handlers' /\ Marked'
<1>0. p = "results" => Settled(e)'
  BY SettledStable
<1>1. Len(intents) \in Nat /\ Len(intents') \in Nat /\ g.id \in Nat /\ Len(intents) <= Len(intents')
  BY DEF Types, TableTypes, Grows, Handling
<1>2. ASSUME NEW step \in Steps, step \notin Saved \cup {"strict", "reserve", "save"},
             p # "results", step \in Late => g.unsaved \/ Trace(e)',
             Become(p, [g EXCEPT !.step = step]), Kept
      PROVE  Handlers' /\ Marked'
  <2>1. PICK h : h = [g EXCEPT !.step = step]
    OBVIOUS
  <2>2. h \in Handling /\ h.step = step /\ h.id = g.id /\ h.tries = g.tries /\ h.unsaved = g.unsaved
    BY <2>1 DEF Handling
  <2>3. Knows(p, e, h)'
    BY <1>1, <1>2, <2>2 DEF Knows
  <2>. QED
    BY <1>2, <2>1, <2>3, MoveStep
<1>3. CASE p # "results" /\ Become(p, [g EXCEPT !.step = "ensure"])
  <2>1. Kept
    BY <1>3, MoveKeeps DEF Become
  <2>2. g.unsaved \/ Trace(e)'
    BY <2>1 DEF Kept
  <2>. QED
    BY <1>2, <1>3, <2>1, <2>2 DEF Steps, Saved
<1>4. CASE g.unsaved /\ Become(p, [g EXCEPT !.step = "dlq"])
  <2>1. Kept
    BY <1>4, MoveKeeps DEF Become
  <2>. QED
    BY <1>2, <1>4, <2>1 DEF Steps, Saved, Late
<1>5. CASE ~g.unsaved /\ MarkMessage(p)
  <2>1. Kept
    BY <1>0, <1>5, MarkKeeps
  <2>2. Trace(e)'
    BY <1>5, <2>1 DEF Kept
  <2>. QED
    BY <1>5, <2>1, <2>2, MarkStep
<1>. QED
  BY <1>3, <1>4, <1>5, ReturnCases

-----------------------------------------------------------------------------
(* The steps of handlers that write no intent and reserve nothing.         *)

LEMMA CoveredStable ==
    ASSUME Covered, usage' = usage, AcceptedUnits' \subseteq AcceptedUnits,
           SavingUnits' \subseteq SavingUnits, ApprovingUnits' \subseteq ApprovingUnits
    PROVE  Covered'
<1>1. PICK A, B, C : A = AcceptedUnits' /\ B = SavingUnits' /\ C = ApprovingUnits'
  OBVIOUS
<1>2. IsFiniteSet(A) /\ Cardinality(A) <= Cardinality(AcceptedUnits)
      /\ Cardinality(AcceptedUnits) \in Nat /\ Cardinality(A) \in Nat
  BY <1>1, Shrink DEF Covered
<1>3. IsFiniteSet(B) /\ Cardinality(B) <= Cardinality(SavingUnits)
      /\ Cardinality(SavingUnits) \in Nat /\ Cardinality(B) \in Nat
  BY <1>1, Shrink DEF Covered
<1>4. IsFiniteSet(C) /\ Cardinality(C) <= Cardinality(ApprovingUnits)
      /\ Cardinality(ApprovingUnits) \in Nat /\ Cardinality(C) \in Nat
  BY <1>1, Shrink DEF Covered
<1>5. Cardinality(A) + Cardinality(B) + Cardinality(C) <= usage
  BY <1>2, <1>3, <1>4 DEF Covered
<1>. QED
  BY <1>1, <1>2, <1>3, <1>4, <1>5 DEF Covered

LEMMA SavingSame ==
    ASSUME NEW q \in Partitions, world' = world, handler'[q] = handler[q],
           position'[q] = position[q]
    PROVE  Event(q)' = Event(q) /\ (q \in Saving' <=> q \in Saving)
<1>1. Event(q)' = Event(q)
  BY IntentsAssumption DEF Event, Log
<1>. QED
  BY <1>1 DEF Saving, At, GovernanceState

(* Handlers enter or leave their saves one at a time.                      *)
LEMMA SavingShrinks ==
    ASSUME Types, Handlers, world' = world, NEW p \in Topics,
           \A q \in Topics \ {p} : handler'[q] = handler[q] /\ position'[q] = position[q],
           p \notin Saving'
    PROVE  SavingUnits' \subseteq SavingUnits \ UNION {Units(q, Event(q)) : q \in Saving \cap {p}}
<1>1. ASSUME NEW q \in Saving'
      PROVE  q # p /\ q \in Saving /\ Event(q)' = Event(q)
  <2>1. q \in Partitions /\ q \in Topics \ {p}
    BY <1>1 DEF Saving, Topics
  <2>. QED
    BY <1>1, <2>1, SavingSame
<1>2. Saving' \subseteq Saving \ {p}
  BY <1>1
<1>. QED
  BY <1>1, <1>2 DEF SavingUnits, Units

Writes(e) ==
    /\ Asks(e)
    /\ UNCHANGED <<intents, outbox, registry, usage, client>>
    /\ dlq' = dlq \/ dlq' = dlq \cup {e}
    /\ \/ receipts' = receipts
       \/ \E t \in {"event", "result"} : receipts' = receipts \cup {<<t, e>>}

LEMMA WritesFacts ==
    ASSUME Types, NEW e \in Events, Writes(e), world' = world
    PROVE  Grows /\ TableTypes' /\ EnclaveTypes'
<1>1. Grows
  BY DEF Types, TableTypes, EnclaveTypes, Writes, Asks, Grows
<1>2. EnclaveTypes'
  BY AsksTypes DEF Types, Writes
<1>3. IsFiniteSet(dlq \cup {e})
  BY FS_AddElement DEF Types, TableTypes
<1>4. dlq' \subseteq Events /\ IsFiniteSet(dlq')
  BY <1>3 DEF Types, TableTypes, Writes
<1>5. receipts' \subseteq {"event", "result"} \X Events
  BY DEF Types, TableTypes, Writes
<1>. QED
  BY <1>1, <1>2, <1>4, <1>5 DEF Types, TableTypes, Writes

LEMMA WritesRest ==
    ASSUME IInv, NEW e \in Events, Writes(e), world' = world, SavingUnits' \subseteq SavingUnits
    PROVE  Approvals' /\ Registered' /\ Covered'
<1>1. Approvals' /\ Registered'
  BY DEF IInv, Writes, Approvals, Registered
<1>2. AcceptedUnits' = AcceptedUnits /\ ApprovingUnits' = ApprovingUnits
  BY DEF Writes, AcceptedUnits, Accepted, ApprovingUnits, Approving
<1>3. Covered'
  BY <1>2, CoveredStable DEF IInv, Writes
<1>. QED
  BY <1>1, <1>3

LEMMA GoesOn ==
    ASSUME IInv, NEW p \in Topics, NEW e \in Events, e = Event(p), position[p] <= Len(Log(p)),
           Writes(e), FileTypes', UNCHANGED faults \/ Fault, NEW g, Become(p, g),
           Knows(p, e, g) \/ Knows(p, e, g)', g.step = "save" => p = "results" \/ Webhook(e)
    PROVE  IInv'
<1>1. world' = world
  BY DEF Become, topics
<1>2. Grows /\ TableTypes' /\ EnclaveTypes'
  BY <1>1, WritesFacts DEF IInv
<1>3. TopicTypes'
  BY <1>2, MoveTopics DEF IInv, Become
<1>4. Types'
  BY <1>2, <1>3 DEF Types
<1>5. Kept
  BY <1>2, MoveKeeps DEF IInv, Become, Writes
<1>6. Knows(p, e, g)'
  BY <1>2, <1>5, KnowsStable DEF IInv, Types
<1>7. Handlers' /\ Marked'
  BY <1>2, <1>4, <1>5, <1>6, MoveStep DEF IInv
<1>8. p \notin Saving'
  <2> SUFFICES ASSUME p \in Saving' PROVE FALSE
    OBVIOUS
  <2>1. handler'[p] = g /\ p \in Partitions /\ g.step = "save" /\ GovernanceState(p)' = "VALID"
    BY DEF IInv, Handlers, Become, Saving, At
  <2>2. Event(p)' = e
    BY <2>1, IntentsAssumption DEF Event, Log, Become, topics
  <2>3. Webhook(e)
    BY <2>1, IntentsAssumption
  <2>. QED
    BY <2>1, <2>2, <2>3 DEF GovernanceState
<1>9. \A q \in Topics \ {p} : handler'[q] = handler[q] /\ position'[q] = position[q]
  BY DEF IInv, Handlers, Become, topics
<1>10. SavingUnits' \subseteq SavingUnits
  BY <1>1, <1>8, <1>9, SavingShrinks DEF IInv
<1>. QED
  BY <1>1, <1>4, <1>7, <1>10, WritesRest DEF IInv

LEMMA Returns ==
    ASSUME IInv, NEW p \in Topics, NEW e \in Events, e = Event(p), position[p] <= Len(Log(p)),
           Writes(e), FileTypes', UNCHANGED faults \/ Fault,
           NEW g \in Handling, g.id <= Len(intents), g.tries < maxHandlerAttempts,
           g.unsaved \/ Trace(e) \/ Trace(e)',
           p = "results" => ~g.unsaved /\ (Settled(e) \/ Settled(e)'),
           Return(p, g) \/ Succeed(p, g)
    PROVE  IInv'
<1>0. \/ Become(p, [g EXCEPT !.step = "ensure"])
      \/ Become(p, [g EXCEPT !.step = "dlq"])
      \/ MarkMessage(p)
  BY ReturnCases
<1>1. world' = world
  BY <1>0 DEF Become, MarkMessage, topics
<1>2. Grows /\ TableTypes' /\ EnclaveTypes'
  BY <1>1, WritesFacts DEF IInv
<1>3. TopicTypes'
  BY <1>2, EndTopics DEF IInv
<1>4. Types'
  BY <1>2, <1>3 DEF Types
<1>5. Handlers' /\ Marked'
  BY <1>2, <1>4, EndStep DEF IInv, Writes
<1>6. handler'[p].step # "save"
  BY <1>0 DEF IInv, Handlers, Become, MarkMessage, Idle, Handling
<1>7. p \notin Saving'
  BY <1>6 DEF Saving, At
<1>8. \A q \in Topics \ {p} : handler'[q] = handler[q] /\ position'[q] = position[q]
  BY <1>0 DEF IInv, Types, TopicTypes, Handlers, Become, MarkMessage, topics
<1>9. SavingUnits' \subseteq SavingUnits
  BY <1>1, <1>7, <1>8, SavingShrinks DEF IInv
<1>. QED
  BY <1>1, <1>4, <1>5, <1>9, WritesRest DEF IInv

(* A message is marked that has a trace.                                   *)
LEMMA Marks ==
    ASSUME IInv, NEW p \in Topics, NEW e \in Events, e = Event(p), position[p] <= Len(Log(p)),
           Writes(e), FileTypes', UNCHANGED faults \/ Fault, MarkMessage(p),
           Settled(e) \/ Settled(e)'
    PROVE  IInv'
<1>1. PICK g : g = Idle
  OBVIOUS
<1>2. g \in Handling /\ g.id = 0 /\ g.tries = 0 /\ ~g.unsaved
  BY <1>1, IdleKnows DEF IInv, Types, Idle
<1>3. Succeed(p, g)
  BY <1>2 DEF Succeed
<1>4. 0 <= Len(intents) /\ 0 < maxHandlerAttempts
  BY IntentsAssumption DEF IInv, Types, TableTypes
<1>. QED
  BY <1>2, <1>3, <1>4, Returns DEF Trace

(* A failed handler is called again or given up.                           *)
LEMMA RetryKnows ==
    ASSUME IInv, NEW p \in Topics, NEW e, handler[p].step # "record", callWithRetry(p)
    PROVE  \E g : Become(p, g) /\ Knows(p, e, g) /\ g.step # "save"
<1>1. PICK n : n = handler[p].tries + 1
  OBVIOUS
<1>2. n \in 0..maxHandlerAttempts
  BY <1>1, IntentsAssumption DEF IInv, Handlers, Knows, Handling
<1>3. PICK g : g = [Idle EXCEPT !.step = IF n < maxHandlerAttempts THEN "start" ELSE "record",
                                !.tries = n]
  OBVIOUS
<1>4. Become(p, g)
  BY <1>1, <1>3 DEF callWithRetry
<1>5. /\ g.step \in {"start", "record"} /\ g.tries = n /\ g.id = 0 /\ ~g.unsaved
      /\ g.step # "record" => n < maxHandlerAttempts
  BY <1>3 DEF Idle
<1>6. g \in Handling
  BY <1>2, <1>3 DEF Idle, Handling, Steps
<1>7. Knows(p, e, g)
  BY <1>5, <1>6 DEF Knows, Saved, Late, ResultSteps, IInv, Types, TableTypes
<1>. QED
  BY <1>4, <1>5, <1>7

LEMMA Retries ==
    ASSUME IInv, NEW p \in Topics, NEW e \in Events, e = Event(p), position[p] <= Len(Log(p)),
           Writes(e), FileTypes', UNCHANGED faults \/ Fault,
           handler[p].step # "record", callWithRetry(p)
    PROVE  IInv'
  BY RetryKnows, GoesOn

-----------------------------------------------------------------------------
(* One lemma per action that leaves intents and reservations alone.        *)

LEMMA InHand ==
    ASSUME IInv, NEW p \in Topics, handler[p].step # "idle"
    PROVE  \E e \in Events, h \in Handling :
              /\ e = Event(p) /\ position[p] <= Len(Log(p))
              /\ h = handler[p] /\ Knows(p, e, h) /\ h.id <= Len(intents)
              /\ h.step # "record" => h.tries < maxHandlerAttempts
<1>1. position[p] <= Len(Log(p)) /\ Knows(p, Event(p), handler[p])
  BY DEF IInv, Handlers
<1>2. Event(p) \in Events
  BY <1>1, EventInHand DEF IInv, Types
<1>. QED
  BY <1>1, <1>2 DEF Knows

LEMMA NothingWritten ==
    ASSUME NEW e, UNCHANGED <<tables, enclave, client>>
    PROVE  Writes(e)
  BY DEF Writes, Asks, tables, enclave

LEMMA FilesSame ==
    ASSUME IInv, UNCHANGED files
    PROVE  FileTypes'
  BY DEF IInv, Types, FileTypes, files

LEMMA GotoStep ==
    ASSUME IInv, NEW p \in Topics, NEW e \in Events, e = Event(p), position[p] <= Len(Log(p)),
           Writes(e), FileTypes', UNCHANGED faults \/ Fault,
           NEW h \in Handling, h = handler[p], h.step # "record", NEW s \in Steps, Goto(p, s),
           s \in Saved => h.step \in Saved, s \in Late => h.step \in Late,
           s \in {"strict", "reserve", "save"} => h.step \in {"strict", "reserve"} \/ Webhook(e),
           s = "save" => p = "results" \/ Webhook(e), p = "results" => s \in ResultSteps
    PROVE  IInv'
<1>1. PICK g : g = [h EXCEPT !.step = s]
  OBVIOUS
<1>2. /\ g \in Handling /\ g.step = s /\ g.id = h.id /\ g.tries = h.tries
      /\ g.unsaved = h.unsaved /\ g.dup = h.dup /\ g.fresh = h.fresh
  BY <1>1 DEF Handling
<1>3. Knows(p, e, h)
  BY DEF IInv, Handlers
<1>4. Knows(p, e, g)
  BY <1>2, <1>3 DEF Knows
<1>5. Become(p, g)
  BY <1>1 DEF Goto
<1>. QED
  BY <1>2, <1>4, <1>5, GoesOn

LEMMA ConsumeClaimStep ==
    ASSUME IInv, NEW p \in Topics, ConsumeClaim(p)
    PROVE  IInv'
<1>1. PICK e \in Events : e = Event(p) /\ position[p] <= Len(Log(p))
  BY EventInHand DEF ConsumeClaim, IInv, Types
<1>2. PICK g : g = [Idle EXCEPT !.step = "start"]
  OBVIOUS
<1>3. g \in Handling /\ g.step = "start" /\ g.tries = 0 /\ g.id = 0 /\ ~g.unsaved
  <2>1. Idle \in Handling
    BY IdleKnows DEF IInv, Types
  <2>2. g \in Handling
    BY <1>2, <2>1 DEF Handling, Steps
  <2>. QED
    BY <1>2, <2>2 DEF Idle
<1>4. Knows(p, e, g)
  BY <1>3, IntentsAssumption DEF Knows, Saved, Late, ResultSteps, IInv, Types, TableTypes
<1>5. Writes(e) /\ FileTypes'
  BY NothingWritten, FilesSame DEF ConsumeClaim
<1>. QED
  BY <1>1, <1>2, <1>3, <1>4, <1>5, GoesOn DEF ConsumeClaim

(* What is rejected without an entry is remembered as unsaved.             *)
LEMMA RejectedFacts ==
    ASSUME NEW p, NEW h \in Handling, h = handler[p]
    PROVE  /\ Rejected(p) \in Handling /\ Rejected(p).id = h.id /\ Rejected(p).tries = h.tries
           /\ Rejected(p).unsaved = h.unsaved
           /\ [Rejected(p) EXCEPT !.unsaved = TRUE] \in Handling
           /\ [Rejected(p) EXCEPT !.unsaved = TRUE].id = h.id
           /\ [Rejected(p) EXCEPT !.unsaved = TRUE].tries = h.tries
           /\ [Rejected(p) EXCEPT !.unsaved = TRUE].unsaved
  BY DEF Rejected, Handling

LEMMA processIncomingIntentStep ==
    ASSUME IInv, NEW p \in Topics, processIncomingIntent(p)
    PROVE  IInv'
<1> USE DEF processIncomingIntent, At
<1>1. PICK e \in Events, h \in Handling :
         /\ e = Event(p) /\ position[p] <= Len(Log(p))
         /\ h = handler[p] /\ Knows(p, e, h) /\ h.id <= Len(intents) /\ h.step = "start"
         /\ h.tries < maxHandlerAttempts
  BY InHand
<1>2. Writes(e) /\ FileTypes'
  BY NothingWritten, FilesSame
<1>3. CASE callWithRetry(p)
  BY <1>1, <1>2, <1>3, Retries
<1>4. CASE Webhook(e) /\ Goto(p, "save")
  BY <1>1, <1>2, <1>4, GotoStep DEF Steps, Saved, Late
<1>5. CASE Return(p, [Rejected(p) EXCEPT !.unsaved = TRUE])
  <2>1. PICK g : g = [Rejected(p) EXCEPT !.unsaved = TRUE]
    OBVIOUS
  <2>2. g \in Handling /\ g.id = h.id /\ g.tries = h.tries /\ g.unsaved
    BY <1>1, <2>1, RejectedFacts
  <2>. QED
    BY <1>1, <1>2, <1>5, <2>1, <2>2, Returns
<1>6. CASE Goto(p, "policy")
  BY <1>1, <1>2, <1>6, GotoStep DEF Steps, Saved, Late
<1>7. CASE Goto(p, "find")
  BY <1>1, <1>2, <1>7, GotoStep DEF Steps, Saved, Late
<1>. QED
  BY <1>1, <1>3, <1>4, <1>5, <1>6, <1>7

LEMMA ProcessTokenizeResultStep ==
    ASSUME IInv, NEW p \in Topics, ProcessTokenizeResult(p)
    PROVE  IInv'
<1>1. PICK e \in Events, h \in Handling :
         /\ e = Event(p) /\ position[p] <= Len(Log(p)) /\ h = handler[p] /\ h.step = "start"
  BY InHand DEF ProcessTokenizeResult, At
<1>2. Writes(e) /\ FileTypes'
  BY NothingWritten, FilesSame DEF ProcessTokenizeResult
<1>. QED
  BY <1>1, <1>2, GotoStep DEF ProcessTokenizeResult, Steps, Saved, Late, ResultSteps

LEMMA RejectByPolicyStep ==
    ASSUME IInv, NEW p \in Topics, RejectByPolicy(p)
    PROVE  IInv'
<1> USE DEF RejectByPolicy, At
<1>1. PICK e \in Events, h \in Handling :
         /\ e = Event(p) /\ position[p] <= Len(Log(p))
         /\ h = handler[p] /\ Knows(p, e, h) /\ h.id <= Len(intents) /\ h.step = "policy"
         /\ h.tries < maxHandlerAttempts
  BY InHand
<1>2. Writes(e) /\ FileTypes' /\ p # "results"
  BY <1>1, FilesSame DEF Writes, Asks, enclave, Knows, ResultSteps, Saved
<1>3. CASE Return(p, Rejected(p)) /\ dlq' = dlq \cup {Event(p)} /\ UNCHANGED faults
  <2>1. PICK g : g = Rejected(p)
    OBVIOUS
  <2>2. g \in Handling /\ g.id = h.id /\ g.tries = h.tries
    BY <1>1, <2>1, RejectedFacts
  <2>3. Trace(e)'
    BY <1>1, <1>3 DEF Trace, Settled
  <2>. QED
    BY <1>1, <1>2, <1>3, <2>1, <2>2, <2>3, Returns
<1>4. CASE Return(p, [Rejected(p) EXCEPT !.unsaved = TRUE]) /\ Fault
  <2>1. PICK g : g = [Rejected(p) EXCEPT !.unsaved = TRUE]
    OBVIOUS
  <2>2. g \in Handling /\ g.id = h.id /\ g.tries = h.tries /\ g.unsaved
    BY <1>1, <2>1, RejectedFacts
  <2>. QED
    BY <1>1, <1>2, <1>4, <2>1, <2>2, Returns
<1>. QED
  BY <1>3, <1>4

LEMMA FindByEnvelopeStep ==
    ASSUME IInv, NEW p \in Topics, FindByEnvelope(p)
    PROVE  IInv'
<1> USE DEF FindByEnvelope, At
<1>1. PICK e \in Events, h \in Handling :
         /\ e = Event(p) /\ position[p] <= Len(Log(p))
         /\ h = handler[p] /\ Knows(p, e, h) /\ h.id <= Len(intents) /\ h.step = "find"
         /\ h.tries < maxHandlerAttempts
  BY InHand
<1>2. Writes(e) /\ FileTypes' /\ p # "results"
  BY <1>1, NothingWritten, FilesSame DEF Knows, ResultSteps, Saved
<1>3. CASE HasIntent(e) /\ Return(p, h)
  <2>1. Trace(e)
    BY <1>3 DEF Trace, Settled
  <2>. QED
    BY <1>1, <1>2, <1>3, <2>1, Returns
<1>4. CASE Goto(p, "validate")
  BY <1>1, <1>2, <1>4, GotoStep DEF Steps, Saved, Late
<1>. QED
  BY <1>1, <1>3, <1>4 DEF HasIntent

LEMMA ValidateParsedStep ==
    ASSUME IInv, NEW p \in Topics, ValidateParsed(p)
    PROVE  IInv'
<1> USE DEF ValidateParsed, At
<1>1. PICK e \in Events, h \in Handling :
         /\ e = Event(p) /\ position[p] <= Len(Log(p))
         /\ h = handler[p] /\ Knows(p, e, h) /\ h.id <= Len(intents) /\ h.step = "validate"
         /\ h.tries < maxHandlerAttempts
  BY InHand
<1>2. Writes(e) /\ FileTypes' /\ p # "results"
  BY <1>1, FilesSame DEF Writes, Asks, enclave, Knows, ResultSteps, Saved
<1>3. CASE Return(p, Rejected(p)) /\ dlq' = dlq \cup {e}
  <2>1. PICK g : g = Rejected(p)
    OBVIOUS
  <2>2. g \in Handling /\ g.id = h.id /\ g.tries = h.tries
    BY <1>1, <2>1, RejectedFacts
  <2>3. Trace(e)'
    BY <1>1, <1>3 DEF Trace, Settled
  <2>. QED
    BY <1>1, <1>2, <1>3, <2>1, <2>2, <2>3, Returns
<1>4. CASE Return(p, [Rejected(p) EXCEPT !.unsaved = TRUE])
  <2>1. PICK g : g = [Rejected(p) EXCEPT !.unsaved = TRUE]
    OBVIOUS
  <2>2. g \in Handling /\ g.id = h.id /\ g.tries = h.tries /\ g.unsaved
    BY <1>1, <2>1, RejectedFacts
  <2>. QED
    BY <1>1, <1>2, <1>4, <2>1, <2>2, Returns
<1>5. CASE Goto(p, "tokenize")
  BY <1>1, <1>2, <1>5, GotoStep DEF Steps, Saved, Late
<1>. QED
  BY <1>1, <1>3, <1>4, <1>5

LEMMA callEnclaveTokenizeStep ==
    ASSUME IInv, NEW p \in Topics, callEnclaveTokenize(p)
    PROVE  IInv'
<1> USE DEF callEnclaveTokenize, At
<1>1. PICK e \in Events, h \in Handling :
         /\ e = Event(p) /\ position[p] <= Len(Log(p))
         /\ h = handler[p] /\ Knows(p, e, h) /\ h.step = "tokenize"
  BY InHand
<1>2. Writes(e) /\ FileTypes' /\ p # "results"
  BY <1>1, NothingWritten, FilesSame DEF Knows, ResultSteps, Saved
<1>3. CASE Goto(p, "registry") /\ UNCHANGED faults
  BY <1>1, <1>2, <1>3, GotoStep DEF Steps, Saved, Late
<1>4. CASE Goto(p, "request") /\ Fault
  BY <1>1, <1>2, <1>4, GotoStep DEF Steps, Saved, Late
<1>. QED
  BY <1>3, <1>4

LEMMA PublishTokenizeRequestStep ==
    ASSUME IInv, NEW p \in Topics, PublishTokenizeRequest(p)
    PROVE  IInv'
<1> USE DEF PublishTokenizeRequest, At
<1>1. PICK e \in Events, h \in Handling :
         /\ e = Event(p) /\ position[p] <= Len(Log(p))
         /\ h = handler[p] /\ Knows(p, e, h) /\ h.id <= Len(intents) /\ h.step = "request"
         /\ h.tries < maxHandlerAttempts
  BY InHand
<1>2. Writes(e) /\ FileTypes' /\ p # "results"
  BY <1>1, FilesSame DEF Writes, Asks, tables, Knows, ResultSteps, Saved
<1>3. Trace(e)'
  <2>1. buffered' = Append(buffered, e)
    BY <1>1 DEF Publish
  <2>2. Len(buffered) + 1 \in DOMAIN buffered' /\ buffered'[Len(buffered) + 1] = e
    BY <2>1 DEF IInv, Types, EnclaveTypes
  <2>. QED
    BY <2>2 DEF Trace, InFlight, Buffered
<1>. QED
  BY <1>1, <1>2, <1>3, Returns

LEMMA CheckIdempotencyRegistryStep ==
    ASSUME IInv, NEW p \in Topics, CheckIdempotencyRegistry(p)
    PROVE  IInv'
<1> USE DEF CheckIdempotencyRegistry, At
<1>1. PICK e \in Events, h \in Handling :
         /\ e = Event(p) /\ position[p] <= Len(Log(p))
         /\ h = handler[p] /\ Knows(p, e, h) /\ h.step = "registry"
  BY InHand
<1>2. Writes(e) /\ FileTypes'
  BY NothingWritten, FilesSame
<1>3. PICK known \in BOOLEAN : known = (BusinessIdempotencyKey(p) \in DOMAIN registry)
  <2>1. PICK k, K : k = BusinessIdempotencyKey(p) /\ K = DOMAIN registry
    OBVIOUS
  <2>2. (k \in K) \in BOOLEAN
    OBVIOUS
  <2>. QED
    BY <2>1, <2>2
<1>4. PICK g : g = [h EXCEPT !.step = "strict", !.dup = known, !.fresh = ~known]
  OBVIOUS
<1>5. /\ g \in Handling /\ g.step = "strict" /\ g.id = h.id /\ g.tries = h.tries
      /\ g.unsaved = h.unsaved /\ g.dup = known /\ g.fresh = ~known
  BY <1>4 DEF Handling, Steps
<1>6. Knows(p, e, g)
  BY <1>1, <1>5 DEF Knows, Saved, Late, ResultSteps
<1>7. Become(p, g)
  BY <1>1, <1>3, <1>4
<1>. QED
  BY <1>1, <1>2, <1>5, <1>6, <1>7, GoesOn

LEMMA FindIntentIDStep ==
    ASSUME IInv, NEW p \in Topics, FindIntentID(p)
    PROVE  IInv'
<1> USE DEF FindIntentID, At
<1>1. PICK e \in Events, h \in Handling :
         /\ e = Event(p) /\ position[p] <= Len(Log(p))
         /\ h = handler[p] /\ Knows(p, e, h) /\ h.step = "strict"
  BY InHand
<1>2. Writes(e) /\ FileTypes'
  BY NothingWritten, FilesSame
<1>3. PICK found \in BOOLEAN :
         found = (\E i \in DOMAIN intents : SameRequest(Event(p), intents[i].event))
  OBVIOUS
<1>4. PICK next \in {"save", "reserve"} : next = IF p = "results" THEN "save" ELSE "reserve"
  OBVIOUS
<1>5. CASE Become(p, [h EXCEPT !.step = next, !.dup = @ \/ found]) /\ UNCHANGED faults
  <2>1. PICK g : g = [h EXCEPT !.step = next, !.dup = @ \/ found]
    OBVIOUS
  <2>2. /\ g \in Handling /\ g.step = next /\ g.id = h.id /\ g.tries = h.tries
        /\ g.unsaved = h.unsaved /\ (h.dup => g.dup) /\ g.fresh = h.fresh
    BY <1>4, <2>1 DEF Handling, Steps
  <2>3. Knows(p, e, g)
    BY <1>1, <1>4, <2>2 DEF Knows, Saved, Late, ResultSteps
  <2>. QED
    BY <1>1, <1>2, <1>4, <1>5, <2>1, <2>2, <2>3, GoesOn
<1>6. CASE Goto(p, next) /\ Fault
  BY <1>1, <1>2, <1>4, <1>6, GotoStep DEF Steps, Saved, Late, ResultSteps
<1>. QED
  BY <1>1, <1>3, <1>4, <1>5, <1>6

LEMMA StoreSnapshotStep ==
    ASSUME IInv, NEW p \in Topics, StoreSnapshot(p)
    PROVE  IInv'
<1> USE DEF StoreSnapshot, At
<1>1. PICK e \in Events, h \in Handling :
         /\ e = Event(p) /\ position[p] <= Len(Log(p))
         /\ h = handler[p] /\ Knows(p, e, h) /\ h.id <= Len(intents) /\ h.step = "snapshot"
         /\ h.tries < maxHandlerAttempts
  BY InHand
<1>2. Writes(e) /\ FileTypes'
  BY NothingWritten, FilesSame
<1>3. CASE Goto(p, "refs") /\ UNCHANGED faults
  BY <1>1, <1>2, <1>3, GotoStep DEF Steps, Saved, Late, ResultSteps
<1>4. CASE p # "results" /\ Fault /\ Return(p, h)
  <2>1. Trace(e)
    BY <1>1 DEF Knows, Saved, Trace, Settled
  <2>. QED
    BY <1>1, <1>2, <1>4, <2>1, Returns
<1>. QED
  BY <1>1, <1>3, <1>4

LEMMA RefsAreLostStep ==
    ASSUME IInv, RefsAreLost
    PROVE  IInv'
<1> USE DEF RefsAreLost, At
<1>0. PICK p \in Topics : p = "results"
  BY DEF Topics
<1>1. PICK e \in Events, h \in Handling :
         /\ e = Event(p) /\ position[p] <= Len(Log(p))
         /\ h = handler[p] /\ Knows(p, e, h) /\ h.step \in {"refs", "outboxrefs"}
  BY <1>0, InHand
<1>2. Writes(e) /\ FileTypes'
  BY NothingWritten, FilesSame
<1>3. Settled(e)
  BY <1>1 DEF Knows, Saved, Settled
<1>. QED
  BY <1>0, <1>1, <1>2, <1>3, Marks

LEMMA BatchCountsType ==
    ASSUME IInv
    PROVE  BatchCounts \in Nat \X Nat
<1>1. IsFiniteSet(1..Len(intents))
  BY FS_Interval DEF IInv, Types, TableTypes
<1>2. {i \in DOMAIN intents : InBatch(intents[i].event) /\ ~intents[i].async}
         \subseteq 1..Len(intents)
  BY DEF IInv, Types, TableTypes
<1>3. Cardinality({i \in DOMAIN intents : InBatch(intents[i].event) /\ ~intents[i].async}) \in Nat
  BY <1>1, <1>2, Shrink
<1>4. Cardinality({e \in dlq : InBatch(e)}) \in Nat
  BY Shrink DEF IInv, Types, TableTypes
<1>. QED
  BY <1>3, <1>4 DEF BatchCounts

LEMMA BatchAggregateGroupStep ==
    ASSUME IInv, NEW p \in Topics, BatchAggregateGroup(p)
    PROVE  IInv'
<1> USE DEF BatchAggregateGroup, At
<1>1. PICK e \in Events, h \in Handling :
         /\ e = Event(p) /\ position[p] <= Len(Log(p))
         /\ h = handler[p] /\ Knows(p, e, h) /\ h.step = "aggregate"
  BY InHand
<1>0. FileTypes'
  BY DEF IInv, Types, FileTypes
<1>2. Writes(e) /\ FileTypes' /\ p # "results"
  BY <1>0, <1>1, NothingWritten DEF Knows, ResultSteps, Saved
<1>3. CASE Become(p, [h EXCEPT !.step = "write", !.seen = BatchCounts])
  <2>1. PICK counts \in Nat \X Nat : counts = BatchCounts
    BY BatchCountsType
  <2>2. PICK g : g = [h EXCEPT !.step = "write", !.seen = counts]
    OBVIOUS
  <2>3. /\ g \in Handling /\ g.step = "write" /\ g.id = h.id /\ g.tries = h.tries
        /\ g.unsaved = h.unsaved
    BY <2>2 DEF Handling, Steps
  <2>4. Knows(p, e, g)
    BY <1>1, <1>2, <2>3 DEF Knows, Saved, Late
  <2>. QED
    BY <1>1, <1>2, <1>3, <2>1, <2>2, <2>3, <2>4, GoesOn
<1>4. CASE Goto(p, "joined")
  BY <1>1, <1>2, <1>4, GotoStep DEF Steps, Saved, Late
<1>. QED
  BY <1>1, <1>3, <1>4

LEMMA AggregateReturnsStep ==
    ASSUME IInv, NEW p \in Topics, AggregateReturns(p)
    PROVE  IInv'
<1> USE DEF AggregateReturns, At
<1>1. PICK e \in Events, h \in Handling :
         /\ e = Event(p) /\ position[p] <= Len(Log(p))
         /\ h = handler[p] /\ Knows(p, e, h) /\ h.id <= Len(intents) /\ h.step = "continue"
         /\ h.tries < maxHandlerAttempts
  BY InHand
<1>2. /\ Writes(e) /\ FileTypes' /\ p # "results" /\ (h.unsaved \/ Trace(e))
      /\ Return(p, h) \/ Succeed(p, h)
  BY <1>1, NothingWritten, FilesSame DEF Knows, ResultSteps, Saved, Late
<1>. QED
  BY <1>1, <1>2, Returns

LEMMA EnsureIngestRunStep ==
    ASSUME IInv, NEW p \in Topics, EnsureIngestRun(p)
    PROVE  IInv'
<1> USE DEF EnsureIngestRun, At
<1>1. PICK e \in Events, h \in Handling :
         /\ e = Event(p) /\ position[p] <= Len(Log(p))
         /\ h = handler[p] /\ Knows(p, e, h) /\ h.step = "ensure"
  BY InHand
<1>2. Writes(e) /\ p # "results" /\ (UNCHANGED faults \/ Fault)
  BY <1>1, NothingWritten DEF Knows, ResultSteps, Saved
<1>3. FileTypes'
  BY DEF IInv, Types, FileTypes, RunStatuses
<1>. QED
  BY <1>1, <1>2, <1>3, GotoStep DEF Steps, Saved, Late

LEMMA InsertIngestRowStep ==
    ASSUME IInv, NEW p \in Topics, InsertIngestRow(p)
    PROVE  IInv'
<1> USE DEF InsertIngestRow, At
<1>1. PICK e \in Events, h \in Handling :
         /\ e = Event(p) /\ position[p] <= Len(Log(p))
         /\ h = handler[p] /\ Knows(p, e, h) /\ h.step = "row"
  BY InHand
<1>2. Writes(e) /\ p # "results" /\ (UNCHANGED faults \/ Fault)
  BY <1>1, NothingWritten DEF Knows, ResultSteps, Saved
<1>3. h.status \in {"ACCEPTED", "FAILED"}
  BY DEF Handling
<1>4. FileTypes'
  BY <1>1, <1>3 DEF IInv, Types, FileTypes
<1>. QED
  BY <1>1, <1>2, <1>4, GotoStep DEF Steps, Saved, Late

LEMMA CountIngestRowsStep ==
    ASSUME IInv, NEW p \in Topics, CountIngestRows(p)
    PROVE  IInv'
<1> USE DEF CountIngestRows, At
<1>1. PICK e \in Events, h \in Handling :
         /\ e = Event(p) /\ position[p] <= Len(Log(p))
         /\ h = handler[p] /\ Knows(p, e, h) /\ h.id <= Len(intents) /\ h.step = "count"
         /\ h.tries < maxHandlerAttempts
  BY InHand
<1>2. Writes(e) /\ FileTypes' /\ p # "results" /\ (h.unsaved \/ Trace(e))
  BY <1>1, NothingWritten, FilesSame DEF Knows, ResultSteps, Saved, Late
<1>3. CASE /\ Become(p, [h EXCEPT !.step = "upsert", !.seen = <<rows.ACCEPTED, rows.FAILED>>])
           /\ UNCHANGED faults
  <2>1. PICK counts \in Nat \X Nat : counts = <<rows.ACCEPTED, rows.FAILED>>
    BY DEF IInv, Types, FileTypes
  <2>2. PICK g : g = [h EXCEPT !.step = "upsert", !.seen = counts]
    OBVIOUS
  <2>3. /\ g \in Handling /\ g.step = "upsert" /\ g.id = h.id /\ g.tries = h.tries
        /\ g.unsaved = h.unsaved
    BY <2>2 DEF Handling, Steps
  <2>4. Knows(p, e, g)
    BY <1>1, <1>2, <2>3 DEF Knows, Saved
  <2>. QED
    BY <1>1, <1>2, <1>3, <2>1, <2>2, <2>3, <2>4, GoesOn
<1>4. CASE Fault /\ Succeed(p, h)
  BY <1>1, <1>2, <1>4, Returns
<1>. QED
  BY <1>1, <1>3, <1>4

LEMMA UpsertIngestRunStep ==
    ASSUME IInv, NEW p \in Topics, UpsertIngestRun(p)
    PROVE  IInv'
<1> USE DEF UpsertIngestRun, At
<1>1. PICK e \in Events, h \in Handling :
         /\ e = Event(p) /\ position[p] <= Len(Log(p))
         /\ h = handler[p] /\ Knows(p, e, h) /\ h.id <= Len(intents) /\ h.step = "upsert"
         /\ h.tries < maxHandlerAttempts
  BY InHand
<1>2. Writes(e) /\ p # "results" /\ (h.unsaved \/ Trace(e)) /\ (UNCHANGED faults \/ Fault)
  BY <1>1, NothingWritten DEF Knows, ResultSteps, Saved, Late
<1>3. h.seen[1] \in Nat /\ h.seen[2] \in Nat
  BY DEF Handling
<1>4. FileTypes'
  BY <1>1, <1>3 DEF IInv, Types, FileTypes, RunStatuses
<1>5. CASE Become(p, [h EXCEPT !.step = "aggregate", !.ended = TRUE, !.seen = <<0, 0>>])
  <2>1. PICK g : g = [h EXCEPT !.step = "aggregate", !.ended = TRUE, !.seen = <<0, 0>>]
    OBVIOUS
  <2>2. /\ g \in Handling /\ g.step = "aggregate" /\ g.id = h.id /\ g.tries = h.tries
        /\ g.unsaved = h.unsaved
    BY <2>1 DEF Handling, Steps
  <2>3. Knows(p, e, g)
    BY <1>1, <1>2, <2>2 DEF Knows, Saved
  <2>. QED
    BY <1>1, <1>2, <1>4, <1>5, <2>1, <2>2, <2>3, GoesOn
<1>6. CASE Succeed(p, h)
  BY <1>1, <1>2, <1>4, <1>6, Returns
<1>. QED
  BY <1>1, <1>5, <1>6

LEMMA PersistRejectedIntentDLQStep ==
    ASSUME IInv, NEW p \in Topics, PersistRejectedIntentDLQ(p)
    PROVE  IInv'
<1> USE DEF PersistRejectedIntentDLQ, At
<1>1. PICK e \in Events, h \in Handling :
         e = Event(p) /\ position[p] <= Len(Log(p)) /\ h = handler[p] /\ h.step = "dlq"
  BY InHand
<1>2. Writes(e) /\ FileTypes'
  BY <1>1, FilesSame DEF Writes, Asks, enclave
<1>3. Settled(e)'
  BY <1>1 DEF Settled
<1>. QED
  BY <1>1, <1>2, <1>3, Marks

LEMMA HandlerFailsStep ==
    ASSUME IInv, NEW p \in Topics, HandlerFails(p)
    PROVE  IInv'
<1> USE DEF HandlerFails, At
<1>1. PICK e \in Events, h \in Handling :
         /\ e = Event(p) /\ position[p] <= Len(Log(p)) /\ h = handler[p] /\ h.step # "record"
  BY InHand
<1>2. Writes(e) /\ FileTypes'
  BY NothingWritten, FilesSame
<1>. QED
  BY <1>1, <1>2, Retries

LEMMA RecordFailureStep ==
    ASSUME IInv, NEW p \in Topics, RecordFailure(p)
    PROVE  IInv'
<1> USE DEF RecordFailure, At
<1>1. PICK e \in Events, h \in Handling :
         e = Event(p) /\ position[p] <= Len(Log(p)) /\ h = handler[p] /\ h.step = "record"
  BY InHand
<1>2. PICK t \in {"event", "result"} : t = IF p = "results" THEN "result" ELSE "event"
  OBVIOUS
<1>3. Writes(e) /\ FileTypes'
  BY <1>1, <1>2, FilesSame DEF Writes, Asks, enclave
<1>4. CASE receipts' = receipts \cup {<<t, e>>} /\ MarkMessage(p) /\ UNCHANGED faults
  <2>1. Settled(e)'
    BY <1>2, <1>4 DEF Settled
  <2>. QED
    BY <1>1, <1>3, <1>4, <2>1, Marks
<1>5. CASE Fault /\ Become(p, Idle)
  <2>1. PICK g : g = Idle
    OBVIOUS
  <2>2. Knows(p, e, g) /\ g.step # "save"
    BY <2>1, IdleKnows DEF IInv, Types, Idle
  <2>. QED
    BY <1>1, <1>3, <1>5, <2>1, <2>2, GoesOn
<1>. QED
  BY <1>1, <1>2, <1>4, <1>5

-----------------------------------------------------------------------------
(* Reservations.                                                           *)

LEMMA CoveredStep ==
    ASSUME Covered, NEW a \in Int, NEW b \in Int, NEW c \in Int,
           IsFiniteSet(AcceptedUnits'), IsFiniteSet(SavingUnits'), IsFiniteSet(ApprovingUnits'),
           Cardinality(AcceptedUnits') <= Cardinality(AcceptedUnits) + a,
           Cardinality(SavingUnits') <= Cardinality(SavingUnits) + b,
           Cardinality(ApprovingUnits') <= Cardinality(ApprovingUnits) + c,
           usage' \in Nat, usage' <= DailyLimit, usage + a + b + c <= usage'
    PROVE  Covered'
<1>1. PICK A, B, C : A = AcceptedUnits' /\ B = SavingUnits' /\ C = ApprovingUnits'
  OBVIOUS
<1>2. Cardinality(A) \in Nat /\ Cardinality(B) \in Nat /\ Cardinality(C) \in Nat
  BY <1>1, FS_CardinalityType
<1>3. /\ Cardinality(AcceptedUnits) \in Nat /\ Cardinality(SavingUnits) \in Nat
      /\ Cardinality(ApprovingUnits) \in Nat /\ usage \in Nat
  BY FS_CardinalityType DEF Covered
<1>4. Cardinality(A) + Cardinality(B) + Cardinality(C) <= usage'
  BY <1>1, <1>2, <1>3 DEF Covered
<1>. QED
  BY <1>1, <1>4 DEF Covered

LEMMA SavingGrows ==
    ASSUME Types, Handlers, world' = world, NEW p \in Topics, NEW e, Event(p)' = e,
           \A q \in Topics \ {p} : handler'[q] = handler[q] /\ position'[q] = position[q]
    PROVE  SavingUnits' \subseteq SavingUnits \cup Units(p, e)
<1>1. ASSUME NEW q \in Saving', q # p
      PROVE  q \in Saving /\ Event(q)' = Event(q)
  <2>1. q \in Partitions /\ q \in Topics \ {p}
    BY <1>1 DEF Saving, Topics
  <2>. QED
    BY <1>1, <2>1, SavingSame
<1>2. SUFFICES ASSUME NEW x \in SavingUnits' PROVE x \in SavingUnits \cup Units(p, e)
  OBVIOUS
<1>3. PICK q \in Saving' : x \in Units(q, Event(q)')
  BY <1>2 DEF SavingUnits, Units
<1>4. CASE q = p
  BY <1>3, <1>4
<1>5. CASE q # p
  BY <1>1, <1>3, <1>5 DEF SavingUnits
<1>. QED
  BY <1>4, <1>5

LEMMA ReserveIfWithinLimitStep ==
    ASSUME IInv, NEW p \in Topics, ReserveIfWithinLimit(p)
    PROVE  IInv'
<1> USE DEF ReserveIfWithinLimit, At
<1>1. PICK e \in Events, h \in Handling :
         /\ e = Event(p) /\ position[p] <= Len(Log(p))
         /\ h = handler[p] /\ Knows(p, e, h) /\ h.id <= Len(intents) /\ h.step = "reserve"
  BY InHand
<1>0. PICK held \in BOOLEAN : /\ Become(p, [h EXCEPT !.step = "save", !.held = held])
                              /\ \/ usage' = Reserved(e) /\ held = ~WithinDailyLimit(e)
                                 \/ usage' = usage /\ held
  BY <1>1
<1>2. PICK g : g = [h EXCEPT !.step = "save", !.held = held] /\ Become(p, g)
  BY <1>0
<1>3. /\ g \in Handling /\ g.step = "save" /\ g.id = h.id /\ g.tries = h.tries
      /\ g.unsaved = h.unsaved /\ g.dup = h.dup /\ g.fresh = h.fresh /\ g.held = held
  BY <1>2 DEF Handling, Steps
<1>4. /\ world' = world /\ UNCHANGED topics /\ Asks(e) /\ (UNCHANGED faults \/ Fault)
      /\ UNCHANGED <<intents, outbox, registry, dlq, receipts, enclave, files, client>>
  BY <1>2 DEF Become, topics, Asks, enclave
<1>5. Grows /\ TableTypes' /\ EnclaveTypes' /\ FileTypes'
  BY <1>4 DEF IInv, Types, TableTypes, EnclaveTypes, FileTypes, Grows, enclave, files
<1>6. Types' /\ Kept
  BY <1>4, <1>5, MoveTopics, MoveKeeps DEF IInv, Types
<1>7. p # "results" /\ Knows(p, e, g)
  BY <1>1, <1>3 DEF Knows, Saved, Late, ResultSteps
<1>8. Knows(p, e, g)'
  BY <1>5, <1>6, <1>7, KnowsStable DEF IInv, Types
<1>9. Handlers' /\ Marked'
  BY <1>1, <1>2, <1>5, <1>6, <1>8, MoveStep DEF IInv
<1>10. Approvals' /\ Registered'
  BY <1>4 DEF IInv, Approvals, Registered
<1>11. AcceptedUnits' = AcceptedUnits /\ ApprovingUnits' = ApprovingUnits
  BY <1>4 DEF AcceptedUnits, Accepted, ApprovingUnits, Approving
<1>12. /\ \A q \in Topics \ {p} : handler'[q] = handler[q] /\ position'[q] = position[q]
       /\ handler'[p] = g
  BY <1>2 DEF IInv, Handlers, Become, topics
<1>13. Event(p)' = e
  BY <1>1, <1>4, <1>7 DEF Event, Log, topics
<1>14. usage \in Nat /\ usage <= DailyLimit /\ About[e].amount \in Nat /\ DailyLimit \in Nat
  BY UnitsFacts, IntentsAssumption DEF IInv, Covered
<1>15. CASE held
  <2>1. GovernanceState(p)' # "VALID"
    BY <1>3, <1>12, <1>15 DEF GovernanceState
  <2>2. p \notin Saving'
    BY <2>1 DEF Saving
  <2>3. SavingUnits' \subseteq SavingUnits
    BY <1>4, <1>12, <2>2, SavingShrinks DEF IInv
  <2>4. usage' = usage
    BY <1>0, <1>15 DEF Reserved
  <2>5. Covered'
    BY <1>11, <2>3, <2>4, CoveredStable DEF IInv
  <2>. QED
    BY <1>6, <1>9, <1>10, <2>5 DEF IInv
<1>16. CASE ~held
  <2>1. usage' = usage + About[e].amount /\ usage' <= DailyLimit
    BY <1>0, <1>16 DEF Reserved, WithinDailyLimit
  <2>2. SavingUnits' \subseteq SavingUnits \cup Units(p, e)
    BY <1>4, <1>12, <1>13, SavingGrows DEF IInv
  <2>0. PICK n \in Nat : n = About[e].amount
    BY <1>14
  <2>3. PICK Y, T : Y = Units(p, e) /\ T = SavingUnits'
    OBVIOUS
  <2>4. IsFiniteSet(Y) /\ Cardinality(Y) = n /\ IsFiniteSet({}) /\ Cardinality({}) = 0
    BY <2>0, <2>3, UnitsFacts, FS_EmptySet
  <2>5. T \subseteq (SavingUnits \ {}) \cup Y /\ IsFiniteSet(SavingUnits)
    BY <2>2, <2>3 DEF IInv, Covered
  <2>6. IsFiniteSet(T) /\ Cardinality(T) <= Cardinality(SavingUnits) + n
    BY <2>4, <2>5, Exchange
  <2>7. /\ IsFiniteSet(AcceptedUnits) /\ IsFiniteSet(ApprovingUnits)
        /\ Cardinality(AcceptedUnits) \in Nat /\ Cardinality(ApprovingUnits) \in Nat
    BY FS_CardinalityType DEF IInv, Covered
  <2>8. usage' \in Nat /\ usage + 0 + n + 0 <= usage'
    BY <1>14, <2>0, <2>1
  <2>9. /\ Cardinality(AcceptedUnits') <= Cardinality(AcceptedUnits) + 0
        /\ Cardinality(ApprovingUnits') <= Cardinality(ApprovingUnits) + 0
    BY <1>11, <2>7
  <2>10. Covered'
    BY <1>11, <2>1, <2>3, <2>6, <2>7, <2>8, <2>9, CoveredStep DEF IInv
  <2>. QED
    BY <1>6, <1>9, <1>10, <2>10 DEF IInv
<1>. QED
  BY <1>15, <1>16

-----------------------------------------------------------------------------
(* Saving an intent.                                                       *)

LEMMA KeyType ==
    ASSUME NEW p, Event(p) \in Events
    PROVE  BusinessIdempotencyKey(p) \in Keys
<1>1. PICK e \in Events : e = Event(p)
  OBVIOUS
<1>2. About[e].amount \in Nat
  BY IntentsAssumption
<1>. QED
  BY <1>1, <1>2 DEF BusinessIdempotencyKey, Keys

LEMMA NewIntentType ==
    ASSUME NEW p, NEW e \in Events, e = Event(p), NEW h \in Handling, h = handler[p]
    PROVE  NewIntent(p) \in IntentRecord /\ Announced(NewIntent(p)) \in OutboxRecord
<1>1. BusinessIdempotencyKey(p) \in Keys
  BY KeyType
<1>2. GovernanceState(p) \in GovernanceStates
  BY DEF GovernanceState, GovernanceStates
<1>3. handler[p].dup \in BOOLEAN
  BY DEF Handling
<1>4. NewIntent(p) \in IntentRecord
  BY <1>1, <1>2, <1>3 DEF NewIntent, IntentRecord
<1>. QED
  BY <1>4 DEF Announced, IntentRecord, OutboxRecord

(* The row that Save inserts.                                              *)
Inserts(p, e, h, new, k) ==
    /\ intents' = Append(intents, new) /\ k = BusinessIdempotencyKey(p)
    /\ new.event = e /\ new.key = k /\ new.async = (p = "results")
    /\ new.accepted = (GovernanceState(p) = "VALID")
    /\ \/ h.fresh /\ k \in DOMAIN registry /\ new.dup /\ registry' = registry
       \/ /\ h.fresh => k \notin DOMAIN registry
          /\ new.dup = h.dup /\ new.state = GovernanceState(p)
          /\ registry' = IF h.fresh
                         THEN [x \in DOMAIN registry \cup {k} |->
                                  IF x = k THEN Len(intents) + 1 ELSE registry[x]]
                         ELSE registry

LEMMA SaveFacts ==
    ASSUME IInv, NEW p \in Topics, NEW e \in Events, e = Event(p),
           NEW h \in Handling, h = handler[p], Save(p)
    PROVE  \E new \in IntentRecord, k \in Keys : Inserts(p, e, h, new, k)
<1>1. PICK i \in IntentRecord : i = NewIntent(p)
  BY NewIntentType
<1>2. PICK k \in Keys : k = BusinessIdempotencyKey(p)
  BY KeyType
<1>3. /\ i.event = e /\ i.key = k /\ i.async = (p = "results") /\ i.dup = h.dup
      /\ i.accepted = (GovernanceState(p) = "VALID") /\ i.state = GovernanceState(p)
  BY <1>1, <1>2 DEF NewIntent
<1>4. CASE h.fresh /\ k \in DOMAIN registry
  <2>1. PICK new : new = [i EXCEPT !.dup = TRUE, !.state = "FLAGGED"]
    OBVIOUS
  <2>2. /\ new \in IntentRecord /\ new.event = i.event /\ new.key = i.key /\ new.dup
        /\ new.async = i.async /\ new.accepted = i.accepted
    BY <2>1 DEF IntentRecord, GovernanceStates
  <2>3. intents' = Append(intents, new) /\ registry' = registry
    BY <1>1, <1>2, <1>4, <2>1 DEF Save
  <2>. QED
    BY <1>2, <1>3, <1>4, <2>2, <2>3 DEF Inserts
<1>5. CASE ~(h.fresh /\ k \in DOMAIN registry)
  <2>1. intents' = Append(intents, i)
    BY <1>1, <1>2, <1>5 DEF Save
  <2>2. registry' = IF h.fresh
                    THEN [x \in DOMAIN registry \cup {k} |->
                             IF x = k THEN Len(intents) + 1 ELSE registry[x]]
                    ELSE registry
    BY <1>2, <1>5 DEF Save
  <2>. QED
    BY <1>2, <1>3, <1>5, <2>1, <2>2 DEF Inserts
<1>. QED
  BY <1>4, <1>5

(* Its transaction on the tables and the traces.                           *)
LEMMA SaveTables ==
    ASSUME IInv, NEW p \in Topics, NEW e \in Events, e = Event(p), position[p] <= Len(Log(p)),
           NEW h \in Handling, h = handler[p], h.step = "save", Knows(p, e, h), Save(p),
           world' = world, UNCHANGED <<usage, dlq, receipts, enclave, files, client>>
    PROVE  /\ Grows /\ TableTypes' /\ EnclaveTypes' /\ FileTypes' /\ Asks(e)
           /\ HasIntent(e)' /\ Len(intents') = Len(intents) + 1
           /\ Approvals' /\ Registered' /\ ApprovingUnits' = ApprovingUnits
           /\ AcceptedUnits' \subseteq
                 AcceptedUnits \cup UNION {Units(Len(intents) + 1, e) : q \in Saving \cap {p}}
<1> USE DEF Types
<1>0. PICK new \in IntentRecord, k \in Keys : Inserts(p, e, h, new, k)
  BY SaveFacts
<1>1. /\ intents' = Append(intents, new) /\ k = BusinessIdempotencyKey(p)
      /\ new.event = e /\ new.key = k /\ new.async = (p = "results")
      /\ new.accepted = (GovernanceState(p) = "VALID")
      /\ \/ /\ h.fresh /\ k \in DOMAIN registry /\ new.dup /\ registry' = registry
         \/ /\ h.fresh => k \notin DOMAIN registry
            /\ new.dup = h.dup /\ new.state = GovernanceState(p)
            /\ registry' = IF h.fresh
                           THEN [x \in DOMAIN registry \cup {k} |->
                                    IF x = k THEN Len(intents) + 1 ELSE registry[x]]
                           ELSE registry
  BY <1>0 DEF Inserts
<1>2. PICK n \in Nat : n = Len(intents)
  BY DEF IInv, TableTypes
<1>3. /\ intents' \in Seq(IntentRecord) /\ Len(intents') = n + 1 /\ DOMAIN intents = 1..n
      /\ DOMAIN intents' = 1..n + 1 /\ intents'[n + 1] = new
      /\ \A i \in 1..n : intents'[i] = intents[i]
  BY <1>1, <1>2 DEF IInv, TableTypes
<1>4. Grows
  BY <1>2, <1>3 DEF Grows, IInv, EnclaveTypes, enclave
<1>5. Asks(e) /\ EnclaveTypes' /\ FileTypes'
  BY DEF Asks, enclave, files, IInv, EnclaveTypes, FileTypes
<1>6. TableTypes'
  <2>1. PICK o \in OutboxRecord : outbox' = Append(outbox, o)
    BY NewIntentType DEF Save
  <2>2. outbox' \in Seq(OutboxRecord) /\ Len(outbox') = n + 1
    BY <1>2, <2>1 DEF IInv, TableTypes
  <2>3. \A x \in DOMAIN registry' : registry'[x] \in DOMAIN intents'
    BY <1>1, <1>2, <1>3 DEF IInv, TableTypes
  <2>. QED
    BY <1>3, <2>2, <2>3 DEF IInv, TableTypes
<1>7. HasIntent(e)'
  BY <1>1, <1>2, <1>3 DEF HasIntent
<1>8. Approvals'
  BY <1>2, <1>3 DEF IInv, Approvals
<1>9. Registered'
  <2> SUFFICES ASSUME NEW i \in 1..n + 1, intents'[i].state # "WEBHOOK", ~intents'[i].dup
               PROVE  intents'[i].key \in DOMAIN registry' /\ registry'[intents'[i].key] = i
    BY <1>3 DEF Registered
  <2>1. CASE i = n + 1
    <3>1. ~new.dup /\ new.state # "WEBHOOK"
      BY <1>3, <2>1
    <3>2. new.state = GovernanceState(p) /\ ~h.dup
      BY <1>1, <3>1
    <3>3. ~Webhook(e)
      BY <3>1, <3>2 DEF GovernanceState
    <3>4. h.fresh
      BY <3>2, <3>3 DEF Knows
    <3>. QED
      BY <1>1, <1>2, <1>3, <2>1, <3>1, <3>4
  <2>2. CASE i # n + 1
    <3>1. i \in 1..n /\ intents'[i] = intents[i]
      BY <1>2, <1>3, <2>2
    <3>2. intents[i].key \in DOMAIN registry /\ registry[intents[i].key] = i
      BY <1>3, <3>1 DEF IInv, Registered
    <3>. QED
      BY <1>1, <3>1, <3>2
  <2>. QED
    BY <2>1, <2>2
<1>10. ApprovingUnits' = ApprovingUnits
  <2>1. \A c \in Approving : intents'[client[c].id] = intents[client[c].id]
    BY <1>3 DEF IInv, Approvals, Approving
  <2>2. Approving' = Approving /\ client' = client
    BY DEF Approving
  <2>. QED
    BY <2>1, <2>2 DEF ApprovingUnits
<1>11. AcceptedUnits' \subseteq
          AcceptedUnits \cup UNION {Units(Len(intents) + 1, e) : q \in Saving \cap {p}}
  <2> SUFFICES ASSUME NEW x \in AcceptedUnits'
               PROVE  x \in AcceptedUnits
                         \cup UNION {Units(n + 1, e) : q \in Saving \cap {p}}
    BY <1>2
  <2>1. PICK i \in Accepted' : x \in Units(i, intents'[i].event)
    BY DEF AcceptedUnits, Units
  <2>2. i \in 1..n + 1 /\ intents'[i].accepted /\ ~intents'[i].async
    BY <1>3, <2>1 DEF Accepted
  <2>3. CASE i = n + 1
    <3>1. GovernanceState(p) = "VALID" /\ p # "results" /\ intents'[i].event = e
      BY <1>1, <1>3, <2>2, <2>3
    <3>2. p \in Saving
      BY <3>1 DEF Saving, At, Topics
    <3>. QED
      BY <2>1, <2>3, <3>1, <3>2
  <2>4. CASE i # n + 1
    <3>1. i \in 1..n /\ intents'[i] = intents[i]
      BY <1>2, <1>3, <2>2, <2>4
    <3>2. i \in Accepted
      BY <1>3, <2>2, <3>1 DEF Accepted
    <3>. QED
      BY <2>1, <3>1, <3>2 DEF AcceptedUnits
  <2>. QED
    BY <2>3, <2>4
<1>. QED
  BY <1>2, <1>3, <1>4, <1>5, <1>6, <1>7, <1>8, <1>9, <1>10, <1>11

(* What was reserved for the handler's intent now covers the intent.       *)
LEMMA SaveCovered ==
    ASSUME IInv, NEW p \in Topics, NEW e \in Events, e = Event(p), world' = world,
           \A q \in Topics \ {p} : handler'[q] = handler[q] /\ position'[q] = position[q],
           p \notin Saving', usage' = usage, ApprovingUnits' = ApprovingUnits,
           AcceptedUnits' \subseteq
              AcceptedUnits \cup UNION {Units(Len(intents) + 1, e) : q \in Saving \cap {p}}
    PROVE  Covered'
<1>1. SavingUnits' \subseteq SavingUnits \ UNION {Units(q, Event(q)) : q \in Saving \cap {p}}
  BY SavingShrinks DEF IInv
<1>2. CASE p \notin Saving
  <2>1. AcceptedUnits' \subseteq AcceptedUnits /\ SavingUnits' \subseteq SavingUnits
    BY <1>1, <1>2
  <2>. QED
    BY <2>1, CoveredStable DEF IInv
<1>3. CASE p \in Saving
  <2>1. PICK X, Y, S, T : /\ X = Units(p, e) /\ Y = Units(Len(intents) + 1, e)
                          /\ S = SavingUnits' /\ T = AcceptedUnits'
    OBVIOUS
  <2>2. PICK n \in Nat : n = About[e].amount
    BY UnitsFacts
  <2>3. IsFiniteSet(X) /\ Cardinality(X) = n /\ IsFiniteSet(Y) /\ Cardinality(Y) = n
    BY <2>1, <2>2, UnitsFacts
  <2>4. X \subseteq SavingUnits
    BY <1>3, <2>1 DEF SavingUnits
  <2>5. S \subseteq (SavingUnits \ X) \cup {}
    BY <1>1, <1>3, <2>1
  <2>6. T \subseteq (AcceptedUnits \ {}) \cup Y
    BY <1>3, <2>1
  <2>7. /\ IsFiniteSet(SavingUnits) /\ IsFiniteSet(AcceptedUnits) /\ IsFiniteSet(ApprovingUnits)
        /\ IsFiniteSet({}) /\ Cardinality({}) = 0
    BY FS_EmptySet DEF IInv, Covered
  <2>8. Cardinality({}) <= Cardinality(X) + (0 - n) /\ Cardinality(Y) <= Cardinality({}) + n
    BY <2>3, <2>7
  <2>9. IsFiniteSet(S) /\ Cardinality(S) <= Cardinality(SavingUnits) + (0 - n)
    BY <2>4, <2>5, <2>7, <2>8, Exchange
  <2>10. IsFiniteSet(T) /\ Cardinality(T) <= Cardinality(AcceptedUnits) + n
    BY <2>3, <2>6, <2>7, <2>8, Exchange
  <2>11. Cardinality(ApprovingUnits') <= Cardinality(ApprovingUnits) + 0
    BY <2>7, FS_CardinalityType
  <2>12. usage \in Nat /\ usage <= DailyLimit /\ usage + n + (0 - n) + 0 <= usage
    BY DEF IInv, Covered
  <2>. QED
    BY <2>1, <2>7, <2>9, <2>10, <2>11, <2>12, CoveredStep DEF IInv
<1>. QED
  BY <1>2, <1>3

LEMMA SaveIntentStep ==
    ASSUME IInv, NEW p \in Topics, SaveIntent(p)
    PROVE  IInv'
<1> USE DEF SaveIntent, At
<1>1. PICK e \in Events, h \in Handling :
         /\ e = Event(p) /\ position[p] <= Len(Log(p))
         /\ h = handler[p] /\ Knows(p, e, h) /\ h.id <= Len(intents) /\ h.step = "save"
         /\ h.tries < maxHandlerAttempts
  BY InHand
<1>2. PICK g : \/ g = h /\ Return(p, g)
               \/ /\ g = [h EXCEPT !.step = "snapshot", !.id = Len(intents) + 1]
                  /\ Become(p, g)
  BY <1>1
<1>3. \/ Become(p, [g EXCEPT !.step = "ensure"])
      \/ Become(p, [g EXCEPT !.step = "dlq"])
      \/ MarkMessage(p)
      \/ Become(p, g)
  BY <1>2, ReturnCases
<1>4. /\ world' = world
      /\ \A q \in Topics \ {p} : handler'[q] = handler[q] /\ position'[q] = position[q]
  BY <1>3 DEF IInv, Types, TopicTypes, Handlers, Become, MarkMessage, topics
<1>5. /\ Grows /\ TableTypes' /\ EnclaveTypes' /\ FileTypes' /\ Asks(e)
      /\ HasIntent(e)' /\ Len(intents') = Len(intents) + 1
      /\ Approvals' /\ Registered' /\ ApprovingUnits' = ApprovingUnits
      /\ AcceptedUnits' \subseteq
            AcceptedUnits \cup UNION {Units(Len(intents) + 1, e) : q \in Saving \cap {p}}
  BY <1>1, <1>4, SaveTables
<1>6. PICK n \in Nat : n = Len(intents)
  BY DEF IInv, Types, TableTypes
<1>7. CASE g = h /\ Return(p, g)
  <2>1. TopicTypes'
    BY <1>1, <1>5, <1>7, EndTopics DEF IInv
  <2>2. Types' /\ (p = "results" => ~h.unsaved) /\ Settled(e)' /\ Trace(e)'
    BY <1>1, <1>5, <2>1 DEF Types, Knows, Settled, Trace
  <2>3. Handlers' /\ Marked'
    BY <1>1, <1>5, <1>7, <2>2, EndStep DEF IInv
  <2>4. handler'[p].step # "save"
    <3>1. \/ Become(p, [h EXCEPT !.step = "ensure"])
          \/ Become(p, [h EXCEPT !.step = "dlq"])
          \/ MarkMessage(p)
      BY <1>7, ReturnCases
    <3>. QED
      BY <3>1 DEF IInv, Handlers, Become, MarkMessage, Idle, Handling
  <2>5. p \notin Saving'
    BY <2>4 DEF Saving
  <2>6. Covered'
    BY <1>1, <1>4, <1>5, <2>5, SaveCovered
  <2>. QED
    BY <1>5, <2>2, <2>3, <2>6 DEF IInv
<1>8. CASE g = [h EXCEPT !.step = "snapshot", !.id = Len(intents) + 1] /\ Become(p, g)
  <2>1. TopicTypes' /\ Kept
    BY <1>5, <1>8, MoveTopics, MoveKeeps DEF IInv, Become
  <2>2. Types' /\ Settled(e)' /\ Trace(e)'
    BY <1>5, <2>1 DEF Types, Settled, Trace
  <2>3. g = [h EXCEPT !.step = "snapshot", !.id = n + 1]
    BY <1>6, <1>8
  <2>4. /\ g \in Handling /\ g.step = "snapshot" /\ g.id = n + 1 /\ g.tries = h.tries
        /\ g.unsaved = h.unsaved
    <3>1. PICK m \in Nat : m = n + 1
      OBVIOUS
    <3>2. g = [[h EXCEPT !.step = "snapshot"] EXCEPT !.id = m]
      BY <2>3, <3>1
    <3>3. /\ g \in Handling /\ g.step = "snapshot" /\ g.id = m /\ g.tries = h.tries
          /\ g.unsaved = h.unsaved
      BY <3>2 DEF Handling, Steps
    <3>. QED
      BY <3>1, <3>3
  <2>5. Knows(p, e, g)'
    <3>1. n + 1 <= Len(intents') /\ n + 1 # 0
      BY <1>5, <1>6
    <3>2. h.tries < maxHandlerAttempts /\ (p = "results" => ~h.unsaved)
      BY <1>1 DEF Knows
    <3>. QED
      BY <1>5, <2>2, <2>4, <3>1, <3>2 DEF Knows, ResultSteps, Saved
  <2>6. Handlers' /\ Marked'
    BY <1>1, <1>5, <1>8, <2>1, <2>2, <2>5, MoveStep DEF IInv
  <2>7. handler'[p] = g
    BY <1>8 DEF IInv, Handlers, Become
  <2>8. p \notin Saving'
    BY <2>4, <2>7 DEF Saving
  <2>9. Covered'
    BY <1>1, <1>4, <1>5, <2>8, SaveCovered
  <2>. QED
    BY <1>5, <2>2, <2>6, <2>9 DEF IInv
<1>. QED
  BY <1>2, <1>7, <1>8

LEMMA SaveIsUnansweredStep ==
    ASSUME IInv, NEW p \in Topics, SaveIsUnanswered(p)
    PROVE  IInv'
<1> USE DEF SaveIsUnanswered, At
<1>1. PICK e \in Events, h \in Handling :
         /\ e = Event(p) /\ position[p] <= Len(Log(p))
         /\ h = handler[p] /\ Knows(p, e, h) /\ h.step = "save"
  BY InHand
<1>2. PICK g : Become(p, g) /\ Knows(p, e, g) /\ g.step # "save"
  BY <1>1, RetryKnows
<1>3. /\ world' = world /\ handler'[p] = g
      /\ \A q \in Topics \ {p} : handler'[q] = handler[q] /\ position'[q] = position[q]
  BY <1>2 DEF IInv, Handlers, Become, topics
<1>4. /\ Grows /\ TableTypes' /\ EnclaveTypes' /\ FileTypes' /\ Asks(e)
      /\ Approvals' /\ Registered' /\ ApprovingUnits' = ApprovingUnits
      /\ AcceptedUnits' \subseteq
            AcceptedUnits \cup UNION {Units(Len(intents) + 1, e) : q \in Saving \cap {p}}
  BY <1>1, <1>3, SaveTables
<1>5. TopicTypes' /\ Kept
  BY <1>2, <1>4, MoveTopics, MoveKeeps DEF IInv, Become
<1>6. Types'
  BY <1>4, <1>5 DEF Types
<1>7. Knows(p, e, g)'
  BY <1>2, <1>4, <1>5, KnowsStable DEF IInv, Types
<1>8. Handlers' /\ Marked'
  BY <1>1, <1>2, <1>4, <1>5, <1>6, <1>7, MoveStep DEF IInv
<1>9. p \notin Saving'
  BY <1>2, <1>3 DEF Saving
<1>10. Covered'
  BY <1>1, <1>3, <1>4, <1>9, SaveCovered
<1>. QED
  BY <1>4, <1>6, <1>8, <1>10 DEF IInv

-----------------------------------------------------------------------------
(* Updating an intent.                                                     *)

(* An update keeps what an intent is about, and leaves the others alone.   *)
SameIntent(r, old) ==
    /\ r.event = old.event /\ r.key = old.key /\ r.dup = old.dup /\ r.async = old.async
    /\ r.state = "WEBHOOK" <=> old.state = "WEBHOOK"
Updated(id, r) ==
    /\ intents' \in Seq(IntentRecord) /\ Len(intents') = Len(intents)
    /\ DOMAIN intents' = DOMAIN intents
    /\ \A i \in DOMAIN intents : intents'[i] = IF i = id THEN r ELSE intents[i]
    /\ \A i \in DOMAIN intents : SameIntent(intents'[i], intents[i])

LEMMA RowUpdate ==
    ASSUME IInv, NEW id \in DOMAIN intents, NEW r \in IntentRecord, SameIntent(r, intents[id]),
           intents' = [intents EXCEPT ![id] = r],
           world' = world, UNCHANGED <<registry, dlq, receipts, enclave>>, NEW e
    PROVE  Grows /\ EnclaveTypes' /\ Registered' /\ Asks(e) /\ Updated(id, r)
<1>1. intents \in Seq(IntentRecord) /\ id \in 1..Len(intents) /\ DOMAIN intents = 1..Len(intents)
  BY DEF IInv, Types, TableTypes
<1>2. /\ intents' \in Seq(IntentRecord) /\ Len(intents') = Len(intents)
      /\ \A i \in 1..Len(intents) : intents'[i] = IF i = id THEN r ELSE intents[i]
  BY <1>1, ExceptSeq
<1>3. DOMAIN intents' = DOMAIN intents
  OBVIOUS
<1>4. \A i \in DOMAIN intents : SameIntent(intents'[i], intents[i])
  BY <1>1, <1>2 DEF SameIntent
<1>5. Len(intents) <= Len(intents')
  BY <1>2 DEF IInv, Types, TableTypes
<1>6. Grows
  BY <1>3, <1>4, <1>5 DEF SameIntent, Grows, enclave, IInv, Types, EnclaveTypes
<1>7. EnclaveTypes' /\ Asks(e)
  BY DEF IInv, Types, EnclaveTypes, enclave, Asks
<1>8. Registered'
  BY <1>3, <1>4 DEF SameIntent, IInv, Registered
<1>. QED
  BY <1>1, <1>2, <1>3, <1>4, <1>6, <1>7, <1>8 DEF Updated

LEMMA RefsUpdate ==
    ASSUME IInv, NEW id \in DOMAIN intents, intents' = [intents EXCEPT ![id].refs = TRUE],
           world' = world, UNCHANGED <<outbox, registry, dlq, receipts, enclave, client>>, NEW e
    PROVE  /\ Grows /\ TableTypes' /\ EnclaveTypes' /\ Asks(e) /\ Registered' /\ Approvals'
           /\ AcceptedUnits' = AcceptedUnits /\ ApprovingUnits' = ApprovingUnits
<1>1. PICK old \in IntentRecord : old = intents[id]
  BY DEF IInv, Types, TableTypes
<1>2. PICK r : r = [old EXCEPT !.refs = TRUE]
  OBVIOUS
<1>3. /\ r \in IntentRecord /\ r.event = old.event /\ r.key = old.key /\ r.dup = old.dup
      /\ r.async = old.async /\ r.state = old.state /\ r.accepted = old.accepted
  BY <1>2 DEF IntentRecord
<1>4. intents' = [intents EXCEPT ![id] = r]
  BY <1>1, <1>2
<1>5. Grows /\ EnclaveTypes' /\ Registered' /\ Asks(e) /\ Updated(id, r)
  <2>1. SameIntent(r, intents[id])
    BY <1>1, <1>3 DEF SameIntent
  <2>. QED
    BY <1>3, <1>4, <2>1, RowUpdate
<1>6. \A i \in DOMAIN intents : /\ intents'[i].event = intents[i].event
                                /\ intents'[i].state = intents[i].state
                                /\ intents'[i].accepted = intents[i].accepted
                                /\ intents'[i].async = intents[i].async
  BY <1>1, <1>3, <1>5 DEF Updated
<1>7. TableTypes'
  BY <1>5 DEF Updated, IInv, Types, TableTypes
<1>8. Approvals'
  BY <1>5, <1>6 DEF Updated, IInv, Approvals
<1>9. AcceptedUnits' = AcceptedUnits
  <2>1. Accepted' = Accepted
    BY <1>5, <1>6 DEF Updated, Accepted
  <2>2. \A i \in Accepted : intents'[i].event = intents[i].event
    BY <1>6 DEF Accepted
  <2>. QED
    BY <2>1, <2>2 DEF AcceptedUnits
<1>10. ApprovingUnits' = ApprovingUnits
  <2>1. Approving' = Approving /\ client' = client
    BY DEF Approving
  <2>2. \A c \in Approving : intents'[client[c].id].event = intents[client[c].id].event
    BY <1>6 DEF IInv, Approvals, Approving
  <2>. QED
    BY <2>1, <2>2 DEF ApprovingUnits
<1>. QED
  BY <1>5, <1>7, <1>8, <1>9, <1>10

LEMMA UpdateSnapshotRefsStep ==
    ASSUME IInv, NEW p \in Topics, UpdateSnapshotRefs(p)
    PROVE  IInv'
<1> USE DEF UpdateSnapshotRefs, At
<1>1. PICK e \in Events, h \in Handling :
         /\ e = Event(p) /\ position[p] <= Len(Log(p))
         /\ h = handler[p] /\ Knows(p, e, h) /\ h.id <= Len(intents) /\ h.step \in Saved
         /\ h.tries < maxHandlerAttempts
  BY InHand DEF Saved
<1>2. h.id \in DOMAIN intents /\ HasIntent(e) /\ Settled(e) /\ (p = "results" => ~h.unsaved)
  BY <1>1 DEF Knows, Settled, IInv, Types, TableTypes, Handling
<1>3. FileTypes'
  BY FilesSame
<1>4. PICK g : \/ g.step \in {"outboxrefs", "aggregate"} /\ g = [h EXCEPT !.step = g.step]
                  /\ Become(p, g) /\ (g.step = "aggregate" => p # "results")
               \/ g = h /\ Return(p, g)
  <2>1. CASE Goto(p, "outboxrefs")
    <3>1. PICK k : k = [h EXCEPT !.step = "outboxrefs"]
      OBVIOUS
    <3>2. k.step = "outboxrefs" /\ Become(p, k)
      BY <1>1, <2>1, <3>1 DEF Goto, Handling
    <3>. QED
      BY <3>1, <3>2
  <2>2. CASE p # "results" /\ Goto(p, "aggregate")
    <3>1. PICK k : k = [h EXCEPT !.step = "aggregate"]
      OBVIOUS
    <3>2. k.step = "aggregate" /\ Become(p, k)
      BY <1>1, <2>2, <3>1 DEF Goto, Handling
    <3>. QED
      BY <2>2, <3>1, <3>2
  <2>3. CASE Return(p, h)
    BY <2>3
  <2>. QED
    BY <1>1, <2>1, <2>2, <2>3
<1>5. \/ Become(p, [g EXCEPT !.step = "ensure"])
      \/ Become(p, [g EXCEPT !.step = "dlq"])
      \/ MarkMessage(p)
      \/ Become(p, g) /\ g.step # "save"
  BY <1>4, ReturnCases
<1>6. /\ world' = world
      /\ \A q \in Topics \ {p} : handler'[q] = handler[q] /\ position'[q] = position[q]
  BY <1>5 DEF IInv, Types, TopicTypes, Handlers, Become, MarkMessage, topics
<1>7. handler'[p].step # "save"
  <2>1. CASE g = h /\ Return(p, g)
    <3>1. \/ Become(p, [h EXCEPT !.step = "ensure"])
          \/ Become(p, [h EXCEPT !.step = "dlq"])
          \/ MarkMessage(p)
      BY <2>1, ReturnCases
    <3>. QED
      BY <3>1 DEF IInv, Handlers, Become, MarkMessage, Idle, Handling
  <2>2. CASE g.step \in {"outboxrefs", "aggregate"} /\ Become(p, g)
    BY <2>2 DEF IInv, Handlers, Become
  <2>. QED
    BY <1>4, <2>1, <2>2
<1>8. /\ Grows /\ TableTypes' /\ EnclaveTypes' /\ Asks(e) /\ Registered' /\ Approvals'
      /\ AcceptedUnits' = AcceptedUnits /\ ApprovingUnits' = ApprovingUnits
  <2>1. CASE intents' = [intents EXCEPT ![h.id].refs = TRUE] /\ UNCHANGED outbox
    <3>1. PICK id \in DOMAIN intents : id = h.id
      BY <1>2
    <3>. QED
      BY <1>6, <2>1, <3>1, RefsUpdate
  <2>2. CASE outbox' = [outbox EXCEPT ![h.id].refs = TRUE] /\ UNCHANGED intents
    <3>1. PICK old \in OutboxRecord : old = outbox[h.id]
      BY <1>2 DEF IInv, Types, TableTypes
    <3>2. PICK r : r = [old EXCEPT !.refs = TRUE]
      OBVIOUS
    <3>3. r \in OutboxRecord /\ outbox' = [outbox EXCEPT ![h.id] = r]
      BY <2>2, <3>1, <3>2 DEF OutboxRecord
    <3>4. outbox' \in Seq(OutboxRecord) /\ Len(outbox') = Len(outbox)
      BY <1>2, <3>3, ExceptSeq DEF IInv, Types, TableTypes
    <3>5. TableTypes'
      BY <2>2, <3>4 DEF IInv, Types, TableTypes
    <3>6. Grows /\ EnclaveTypes' /\ Asks(e)
      BY <1>6, <2>2 DEF Grows, Asks, enclave, IInv, Types, TableTypes, EnclaveTypes
    <3>7. Registered' /\ Approvals'
      BY <2>2 DEF IInv, Registered, Approvals
    <3>8. AcceptedUnits' = AcceptedUnits /\ ApprovingUnits' = ApprovingUnits
      BY <2>2 DEF AcceptedUnits, Accepted, ApprovingUnits, Approving
    <3>. QED
      BY <3>5, <3>6, <3>7, <3>8
  <2>. QED
    BY <1>1, <2>1, <2>2
<1>9. p \notin Saving'
  BY <1>7 DEF Saving
<1>10. SavingUnits' \subseteq SavingUnits
  BY <1>6, <1>9, SavingShrinks DEF IInv
<1>11. Covered'
  BY <1>8, <1>10, CoveredStable DEF IInv
<1>12. CASE g = h /\ Return(p, g)
  <2>1. TopicTypes'
    BY <1>1, <1>8, <1>12, EndTopics DEF IInv
  <2>2. Types' /\ Trace(e)
    BY <1>2, <1>3, <1>8, <2>1 DEF Types, Trace
  <2>3. Handlers' /\ Marked'
    BY <1>1, <1>2, <1>8, <1>12, <2>2, EndStep DEF IInv
  <2>. QED
    BY <1>8, <1>11, <2>2, <2>3 DEF IInv
<1>13. CASE /\ g.step \in {"outboxrefs", "aggregate"} /\ g = [h EXCEPT !.step = g.step]
            /\ Become(p, g) /\ (g.step = "aggregate" => p # "results")
  <2>1. TopicTypes' /\ Kept
    BY <1>8, <1>13, MoveTopics, MoveKeeps DEF IInv, Become
  <2>2. Types' /\ Trace(e)
    BY <1>2, <1>3, <1>8, <2>1 DEF Types, Trace
  <2>3. PICK s \in {"outboxrefs", "aggregate"} : s = g.step
    BY <1>13
  <2>4. g \in Handling /\ g.id = h.id /\ g.tries = h.tries /\ g.unsaved = h.unsaved
    BY <1>13, <2>3 DEF Handling, Steps
  <2>5. Knows(p, e, g)
    BY <1>1, <1>2, <1>13, <2>2, <2>4 DEF Knows, ResultSteps, Saved
  <2>6. Knows(p, e, g)'
    BY <1>8, <2>1, <2>5, KnowsStable DEF IInv, Types
  <2>7. Handlers' /\ Marked'
    BY <1>1, <1>8, <1>13, <2>1, <2>2, <2>6, MoveStep DEF IInv
  <2>. QED
    BY <1>8, <1>11, <2>2, <2>7 DEF IInv
<1>. QED
  BY <1>4, <1>12, <1>13

-----------------------------------------------------------------------------
(* The aggregate of a file, the sweeper, the enclave and restarts.         *)

LEMMA NothingMoves ==
    ASSUME Types, world' = world, UNCHANGED <<tables, enclave>>
    PROVE  Grows /\ TableTypes' /\ EnclaveTypes'
  BY DEF Types, TableTypes, EnclaveTypes, Grows, tables, enclave

LEMMA StillHandlers ==
    ASSUME IInv, Types', Grows, Kept, UNCHANGED <<topics, handler>>
    PROVE  Handlers' /\ Marked' /\ SavingUnits' = SavingUnits
<1>1. ASSUME NEW q \in Topics
      PROVE  /\ Knows(q, Event(q), handler[q])'
             /\ handler'[q].step # "idle" => position'[q] <= Len(Log(q)')
  BY OthersKnow DEF IInv, topics
<1>2. Handlers'
  BY <1>1 DEF IInv, Handlers
<1>3. Marked'
  <2> SUFFICES ASSUME NEW q \in Topics, NEW i \in 1..position[q] - 1 PROVE Trace(Log(q)[i])'
    BY DEF Marked, topics
  <2>. QED
    BY MarkedStable DEF IInv
<1>4. \A q \in Partitions : Event(q)' = Event(q) /\ (q \in Saving' <=> q \in Saving)
  BY SavingSame DEF topics
<1>5. Saving' = Saving
  BY <1>4 DEF Saving
<1>6. \A q \in Saving : Event(q)' = Event(q)
  BY <1>4 DEF Saving
<1>7. SavingUnits' = SavingUnits
  BY <1>5, <1>6 DEF SavingUnits
<1>. QED
  BY <1>2, <1>3, <1>7

(* A caller that waited for the aggregate goes on with its leader.         *)
LEMMA UpdateBatchAggregateConfidenceStep ==
    ASSUME IInv, NEW p \in Topics, UpdateBatchAggregateConfidence(p)
    PROVE  IInv'
<1> USE DEF UpdateBatchAggregateConfidence
<1>1. /\ world' = world /\ UNCHANGED topics /\ UNCHANGED <<tables, enclave, client>>
      /\ (\A e : Asks(e)) /\ (UNCHANGED faults \/ Fault)
  BY DEF topics, Asks, enclave
<1>2. Grows /\ TableTypes' /\ EnclaveTypes'
  BY <1>1, NothingMoves DEF IInv
<1>3. FileTypes'
  BY DEF IInv, Types, FileTypes
<1>4. Types' /\ Kept
  BY <1>1, <1>2, <1>3, MoveTopics, MoveKeeps DEF IInv, Types
<1>5. ASSUME NEW q \in Topics, handler'[q] # handler[q]
      PROVE  /\ handler'[q] \in Handling /\ handler'[q].step = "continue"
             /\ Knows(q, Event(q), handler[q])' /\ position'[q] <= Len(Log(q)')
  <2>1. /\ handler'[q] = [handler[q] EXCEPT !.step = "continue", !.seen = <<0, 0>>]
        /\ handler[q].step \in {"write", "joined"}
    BY <1>5 DEF At
  <2>2. PICK e \in Events, h \in Handling :
           /\ e = Event(q) /\ position[q] <= Len(Log(q))
           /\ h = handler[q] /\ Knows(q, e, h) /\ h.step \in {"write", "joined"}
    BY <2>1, InHand
  <2>3. PICK g : g = [h EXCEPT !.step = "continue", !.seen = <<0, 0>>]
    OBVIOUS
  <2>4. /\ g \in Handling /\ g.step = "continue" /\ g.id = h.id /\ g.tries = h.tries
        /\ g.unsaved = h.unsaved
    BY <2>3 DEF Handling, Steps
  <2>5. Knows(q, e, g)
    BY <2>2, <2>4 DEF Knows, Saved, Late, ResultSteps
  <2>6. Knows(q, e, g)'
    BY <1>2, <1>4, <2>5, KnowsStable DEF IInv, Types
  <2>7. Event(q)' = e /\ Log(q)' = Log(q) /\ position'[q] = position[q]
    BY <1>1, <2>2 DEF Event, Log, topics, enclave
  <2>8. handler'[q] = g
    BY <2>1, <2>2, <2>3
  <2>. QED
    BY <2>2, <2>4, <2>6, <2>7, <2>8
<1>6. ASSUME NEW q \in Topics
      PROVE  /\ handler'[q] \in Handling /\ Knows(q, Event(q), handler[q])'
             /\ handler'[q].step # "idle" => position'[q] <= Len(Log(q)')
  <2>1. CASE handler'[q] = handler[q]
    BY <1>1, <1>2, <1>4, <2>1, OthersKnow DEF IInv, Handlers, topics
  <2>2. CASE handler'[q] # handler[q]
    BY <1>5, <2>2
  <2>. QED
    BY <2>1, <2>2
<1>7. Handlers'
  <2>1. handler' = [q \in Topics |-> handler'[q]]
    OBVIOUS
  <2>2. handler' \in [Topics -> Handling]
    BY <1>6, <2>1
  <2>. QED
    BY <1>6, <2>2 DEF Handlers
<1>8. Marked'
  <2> SUFFICES ASSUME NEW q \in Topics, NEW i \in 1..position[q] - 1 PROVE Trace(Log(q)[i])'
    BY <1>1 DEF Marked, topics
  <2>. QED
    BY <1>2, <1>4, MarkedStable DEF IInv
<1>9. SavingUnits' \subseteq SavingUnits
  <2>1. ASSUME NEW q \in Saving'
        PROVE  q \in Saving /\ Event(q)' = Event(q)
    <3>1. q \in Partitions /\ q \in Topics /\ handler'[q].step = "save"
      BY <2>1 DEF Saving, At, Topics
    <3>2. handler'[q] = handler[q]
      BY <1>5, <3>1
    <3>. QED
      BY <1>1, <2>1, <3>1, <3>2, SavingSame DEF topics
  <2>. QED
    BY <2>1 DEF SavingUnits
<1>10. Approvals' /\ Registered'
  BY <1>1 DEF IInv, Approvals, Registered, tables
<1>11. /\ AcceptedUnits' = AcceptedUnits /\ ApprovingUnits' = ApprovingUnits
       /\ usage' = usage
  BY <1>1 DEF AcceptedUnits, Accepted, ApprovingUnits, Approving, tables
<1>12. Covered'
  BY <1>9, <1>11, CoveredStable DEF IInv
<1>. QED
  BY <1>4, <1>7, <1>8, <1>10, <1>12 DEF IInv

LEMMA SweepStep ==
    ASSUME IInv, Sweep
    PROVE  IInv'
<1> USE DEF Sweep, sweepProcessingToFailed, sweepRecoverableToFinal
<1>1. /\ world' = world /\ UNCHANGED topics /\ UNCHANGED <<tables, enclave, client>>
      /\ UNCHANGED <<topics, handler>> /\ \A e : Asks(e)
  BY DEF topics, Asks, enclave
<1>2. Grows /\ TableTypes' /\ EnclaveTypes'
  BY <1>1, NothingMoves DEF IInv
<1>3. FileTypes'
  BY DEF IInv, Types, FileTypes, RunStatuses
<1>4. Types' /\ Kept
  BY <1>1, <1>2, <1>3, MoveTopics, MoveKeeps DEF IInv, Types
<1>5. Handlers' /\ Marked' /\ SavingUnits' = SavingUnits
  BY <1>1, <1>2, <1>4, StillHandlers
<1>6. Approvals' /\ Registered'
  BY <1>1 DEF IInv, Approvals, Registered, tables
<1>7. /\ AcceptedUnits' = AcceptedUnits /\ ApprovingUnits' = ApprovingUnits
      /\ usage' = usage
  BY <1>1 DEF AcceptedUnits, Accepted, ApprovingUnits, Approving, tables
<1>8. Covered'
  BY <1>5, <1>7, CoveredStable DEF IInv
<1>. QED
  BY <1>4, <1>5, <1>6, <1>8 DEF IInv

LEMMA SendBufferedStep ==
    ASSUME IInv, SendBuffered
    PROVE  IInv'
<1> USE DEF SendBuffered
<1>1. /\ world' = world /\ UNCHANGED topics /\ UNCHANGED <<tables, files, client>>
      /\ UNCHANGED <<topics, handler, unanswered, results>> /\ (UNCHANGED faults \/ Fault)
  BY DEF topics
<1>2. PICK f \in Events : f = Head(buffered)
  BY DEF IInv, Types, EnclaveTypes
<1>3. EnclaveTypes' /\ undelivered \subseteq undelivered'
  <2>1. buffered' \in Seq(Events)
    BY DEF IInv, Types, EnclaveTypes
  <2>2. CASE requests' = Append(requests, f) /\ UNCHANGED undelivered
    BY <2>1, <2>2 DEF IInv, Types, EnclaveTypes
  <2>3. CASE undelivered' = undelivered \cup {f} /\ UNCHANGED requests
    BY <2>1, <2>3 DEF IInv, Types, EnclaveTypes
  <2>. QED
    BY <1>2, <2>2, <2>3
<1>4. Grows
  BY <1>1, <1>3 DEF Grows, tables, IInv, Types, TableTypes, EnclaveTypes
<1>5. TableTypes' /\ FileTypes'
  BY <1>1 DEF IInv, Types, TableTypes, FileTypes, tables, files
<1>6. Types' /\ Kept
  BY <1>1, <1>3, <1>4, <1>5, MoveTopics, KeptByProducer DEF IInv, Types
<1>7. Handlers' /\ Marked' /\ SavingUnits' = SavingUnits
  BY <1>1, <1>4, <1>6, StillHandlers
<1>8. Approvals' /\ Registered'
  BY <1>1 DEF IInv, Approvals, Registered, tables
<1>9. /\ AcceptedUnits' = AcceptedUnits /\ ApprovingUnits' = ApprovingUnits
      /\ usage' = usage
  BY <1>1 DEF AcceptedUnits, Accepted, ApprovingUnits, Approving, tables
<1>10. Covered'
  BY <1>7, <1>9, CoveredStable DEF IInv
<1>. QED
  BY <1>6, <1>7, <1>8, <1>10 DEF IInv

LEMMA TokenizeRequestedStep ==
    ASSUME IInv, TokenizeRequested
    PROVE  IInv'
<1> USE DEF TokenizeRequested
<1>1. /\ world' = world /\ UNCHANGED topics /\ UNCHANGED <<tables, files, client>>
      /\ UNCHANGED <<topics, handler>> /\ (UNCHANGED faults \/ Fault)
  BY DEF topics
<1>2. PICK r \in Events : r = requests[asked]
  BY DEF IInv, Types, EnclaveTypes
<1>3. /\ EnclaveTypes' /\ unanswered \subseteq unanswered' /\ Len(results) <= Len(results')
      /\ \A i \in 1..Len(results) : results'[i] = results[i]
  <2>1. CASE results' = Append(results, r) /\ UNCHANGED unanswered
    BY <2>1 DEF IInv, Types, EnclaveTypes
  <2>2. CASE unanswered' = unanswered \cup {r} /\ UNCHANGED results
    BY <2>2 DEF IInv, Types, EnclaveTypes
  <2>. QED
    BY <1>2, <2>1, <2>2
<1>4. Grows
  BY <1>1, <1>3 DEF Grows, tables, IInv, Types, TableTypes
<1>5. TableTypes' /\ FileTypes'
  BY <1>1 DEF IInv, Types, TableTypes, FileTypes, tables, files
<1>6. Types' /\ Kept
  BY <1>1, <1>3, <1>4, <1>5, MoveTopics, KeptByEnclave DEF IInv, Types
<1>7. Handlers' /\ Marked' /\ SavingUnits' = SavingUnits
  BY <1>1, <1>4, <1>6, StillHandlers
<1>8. Approvals' /\ Registered'
  BY <1>1 DEF IInv, Approvals, Registered, tables
<1>9. /\ AcceptedUnits' = AcceptedUnits /\ ApprovingUnits' = ApprovingUnits
      /\ usage' = usage
  BY <1>1 DEF AcceptedUnits, Accepted, ApprovingUnits, Approving, tables
<1>10. Covered'
  BY <1>7, <1>9, CoveredStable DEF IInv
<1>. QED
  BY <1>6, <1>7, <1>8, <1>10 DEF IInv

(* A restart forgets the handlers, the approvals and what the producer has *)
(* in memory, and begins again at marked messages: what it comes back to   *)
(* had a trace already.                                                    *)
LEMMA RestartStep ==
    ASSUME IInv, Restart
    PROVE  IInv'
<1>1. /\ position' = committed'
      /\ position' \in [Topics -> UNION {committed[p]..position[p] : p \in Topics}]
      /\ \A p \in Topics : committed[p] <= position'[p] /\ position'[p] <= position[p]
  BY DEF Restart
<1>2. ASSUME NEW p \in Topics
      PROVE  /\ position'[p] \in Nat \ {0} /\ position'[p] <= position[p]
             /\ position'[p] <= Len(Log(p)) + 1
  <2>1. PICK q \in Topics : position'[p] \in committed[q]..position[q]
    BY <1>1
  <2>2. committed[q] \in Nat \ {0} /\ position[q] \in Nat /\ position[p] \in Nat
    BY DEF IInv, Types, TopicTypes
  <2>3. position'[p] \in Nat \ {0} /\ position'[p] <= position[p]
    BY <1>1, <2>1, <2>2
  <2>4. Len(Log(p)) \in Nat /\ position[p] <= Len(Log(p)) + 1
    BY LogType DEF IInv, Types, TopicTypes
  <2>. QED
    BY <2>2, <2>3, <2>4
<1>3. position' \in [Topics -> Nat \ {0}] /\ committed' \in [Topics -> Nat \ {0}]
  BY <1>1, <1>2
<1>4. /\ world' = world /\ UNCHANGED <<requests, asked, unanswered, results>>
      /\ buffered' = <<>> /\ undelivered' = undelivered \cup Buffered
  BY DEF Restart
<1>5. Grows /\ TableTypes' /\ EnclaveTypes' /\ FileTypes'
  <2>1. Buffered \subseteq Events
    BY DEF IInv, Types, EnclaveTypes, Buffered
  <2>. QED
    BY <1>4, <2>1
       DEF Restart, IInv, Types, TableTypes, EnclaveTypes, FileTypes, Grows, tables
<1>6. faults' \in 0..world'.faults
  BY <1>4, FaultsBounded DEF Restart, IInv, Types
<1>7. \A p \in Topics : Log(p)' = Log(p)
  BY <1>4 DEF Log
<1>8. TopicTypes'
  <2>1. ASSUME NEW p \in Topics
        PROVE  committed'[p] <= position'[p] /\ position'[p] <= Len(Log(p)') + 1
    <3>1. position'[p] \in Nat /\ position'[p] <= Len(Log(p)) + 1
      BY <1>2
    <3>2. committed'[p] = position'[p] /\ Log(p)' = Log(p)
      BY <1>1, <1>7
    <3>. QED
      BY <3>1, <3>2
  <2>. QED
    BY <1>3, <1>4, <1>6, <2>1 DEF IInv, Types, TopicTypes
<1>9. Types'
  BY <1>5, <1>8 DEF Types
<1>10. Kept
  <2>1. "results" \in Topics
    BY DEF Topics
  <2>2. position["results"] \in Nat
    BY <2>1 DEF IInv, Types, TopicTypes
  <2>3. position'["results"] \in Nat /\ position'["results"] <= position["results"]
    BY <1>2, <2>1
  <2>4. \A i \in position["results"]..position'["results"] - 1 : Settled(results[i])'
    BY <2>2, <2>3
  <2>5. requests' = requests /\ asked' = asked /\ results' = results
    BY <1>4
  <2>6. \A x \in Buffered : Settled(x)'
    BY <1>4 DEF Settled
  <2>. QED
    BY <1>5, <2>2, <2>3, <2>4, <2>5, <2>6, KeptByHandlers DEF IInv, Types
<1>11. Handlers'
  <2>1. Idle \in Handling
    BY IdleKnows DEF IInv, Types
  <2>2. handler' \in [Topics -> Handling] /\ \A p \in Topics : handler'[p] = Idle
    BY <2>1 DEF Restart
  <2>3. ASSUME NEW p \in Topics
        PROVE  Knows(p, Event(p), handler[p])'
    <3>1. PICK e : e = Event(p)'
      OBVIOUS
    <3>2. Knows(p, e, Idle)'
      BY <1>5, NextIdleKnows
    <3>. QED
      BY <2>2, <3>1, <3>2
  <2>. QED
    BY <2>2, <2>3 DEF Handlers, Idle
<1>12. Marked'
  <2> SUFFICES ASSUME NEW q \in Topics, NEW i \in 1..position'[q] - 1 PROVE Trace(Log(q)[i])'
    BY DEF Marked
  <2>1. position[q] \in Nat
    BY DEF IInv, Types, TopicTypes
  <2>2. position'[q] \in Nat /\ position'[q] <= position[q]
    BY <1>2
  <2>3. i \in 1..position[q] - 1
    BY <2>1, <2>2
  <2>. QED
    BY <1>5, <1>10, <2>3, MarkedStable DEF IInv
<1>13. Registered'
  BY DEF Restart, IInv, Registered, tables
<1>14. /\ client' \in [Clients -> [step : ClientSteps, id : Nat]]
       /\ \A c \in Clients : client'[c].step \notin {"reserve", "approve", "release"}
  <2> SUFFICES ASSUME NEW c \in Clients
               PROVE  /\ client'[c] \in [step : ClientSteps, id : Nat]
                      /\ client'[c].step \notin {"reserve", "approve", "release"}
    BY DEF Restart
  <2>1. client[c] \in [step : ClientSteps, id : Nat]
    BY DEF IInv, Approvals
  <2>2. client'[c] = IF client[c].step = "check" THEN client[c]
                     ELSE [client[c] EXCEPT !.step = "done"]
    BY DEF Restart
  <2>. QED
    BY <2>1, <2>2 DEF ClientSteps
<1>15. Approvals'
  BY <1>14 DEF Approvals
<1>16. Covered'
  <2>1. Saving' = {}
    BY DEF Restart, Saving, At, Topics, Idle
  <2>2. Approving' = {}
    BY <1>14 DEF Approving
  <2>3. SavingUnits' \subseteq SavingUnits /\ ApprovingUnits' \subseteq ApprovingUnits
    BY <2>1, <2>2 DEF SavingUnits, ApprovingUnits
  <2>4. AcceptedUnits' = AcceptedUnits /\ usage' = usage
    BY DEF Restart, AcceptedUnits, Accepted, tables
  <2>. QED
    BY <2>3, <2>4, CoveredStable DEF IInv
<1>. QED
  BY <1>9, <1>11, <1>12, <1>13, <1>15, <1>16 DEF IInv

-----------------------------------------------------------------------------
(* Approvals.                                                              *)

ClientRecord == [step : ClientSteps, id : Nat]

(* The approvals of others stay as they are.                               *)
LEMMA ApprovingShrinks ==
    ASSUME NEW c \in Clients, \A d \in Clients \ {c} : client'[d] = client[d],
           \A d \in Approving : intents'[client[d].id].event = intents[client[d].id].event,
           client'[c].step # "approve"
    PROVE  ApprovingUnits' \subseteq
              ApprovingUnits \ UNION {Units(d, intents[client[d].id].event) :
                                         d \in Approving \cap {c}}
<1>1. ASSUME NEW d \in Approving'
      PROVE  /\ d # c /\ d \in Approving
             /\ intents'[client'[d].id].event = intents[client[d].id].event
  BY <1>1 DEF Approving
<1>2. Approving' \subseteq Approving \ {c}
  BY <1>1
<1>. QED
  BY <1>1, <1>2 DEF ApprovingUnits, Units

LEMMA ApprovingGrows ==
    ASSUME NEW c \in Clients, \A d \in Clients \ {c} : client'[d] = client[d],
           intents' = intents, client'[c].id = client[c].id, NEW e, e = intents[client[c].id].event
    PROVE  ApprovingUnits' \subseteq ApprovingUnits \cup Units(c, e)
<1> SUFFICES ASSUME NEW x \in ApprovingUnits' PROVE x \in ApprovingUnits \cup Units(c, e)
  OBVIOUS
<1>1. PICK d \in Approving' : x \in Units(d, intents'[client'[d].id].event)
  BY DEF ApprovingUnits, Units
<1>2. CASE d = c
  BY <1>1, <1>2
<1>3. CASE d # c
  <2>1. d \in Approving /\ client'[d] = client[d]
    BY <1>3 DEF Approving
  <2>. QED
    BY <1>1, <2>1 DEF ApprovingUnits
<1>. QED
  BY <1>2, <1>3

(* What an approval leaves alone.                                          *)
LEMMA ApprovalFrame ==
    ASSUME IInv, UNCHANGED <<topics, handler, enclave, files>>, UNCHANGED faults \/ Fault,
           Grows, TableTypes'
    PROVE  Types' /\ Handlers' /\ Marked' /\ SavingUnits' = SavingUnits
<1>1. EnclaveTypes' /\ FileTypes' /\ UNCHANGED topics
  BY DEF IInv, Types, EnclaveTypes, FileTypes, enclave, files
<1>2. PICK e : e = requests
  OBVIOUS
<1>3. Asks(e)
  BY DEF Asks, enclave
<1>4. Types' /\ Kept
  BY <1>1, <1>3, MoveTopics, MoveKeeps DEF IInv, Types
<1>. QED
  BY <1>4, StillHandlers

LEMMA ClientMoves ==
    ASSUME IInv, NEW c \in Clients, NEW r \in ClientRecord, client' = [client EXCEPT ![c] = r],
           DOMAIN intents' = DOMAIN intents,
           \A i \in DOMAIN intents : intents[i].state # "WEBHOOK" => intents'[i].state # "WEBHOOK",
           r.step \in {"reserve", "approve", "release"} =>
              r.id \in DOMAIN intents /\ intents'[r.id].state # "WEBHOOK"
    PROVE  /\ Approvals' /\ client'[c] = r
           /\ \A d \in Clients \ {c} : client'[d] = client[d]
  BY DEF IInv, Approvals, ClientRecord

LEMMA GetHeldIntentForApprovalStep ==
    ASSUME IInv, NEW c \in Clients, GetHeldIntentForApproval(c)
    PROVE  IInv'
<1> USE DEF GetHeldIntentForApproval
<1>1. PICK i \in DOMAIN intents :
         /\ intents[i].state = "REQUIRES_REVIEW"
         /\ client' = [client EXCEPT ![c] = [step |-> "reserve", id |-> i]]
  OBVIOUS
<1>2. UNCHANGED <<topics, handler, enclave, files>> /\ UNCHANGED <<tables, faults>>
  OBVIOUS
<1>3. Grows /\ TableTypes'
  BY <1>2, NothingMoves DEF IInv, topics
<1>4. Types' /\ Handlers' /\ Marked' /\ SavingUnits' = SavingUnits
  BY <1>2, <1>3, ApprovalFrame
<1>5. PICK r \in ClientRecord : r = [step |-> "reserve", id |-> i]
  <2>1. i \in Nat
    BY DEF IInv, Types, TableTypes
  <2>. QED
    BY <2>1 DEF ClientRecord, ClientSteps
<1>6. r.step = "reserve" /\ r.id = i /\ client' = [client EXCEPT ![c] = r]
  BY <1>1, <1>5
<1>7. intents' = intents /\ usage' = usage /\ registry' = registry
  BY <1>2 DEF tables
<1>8. /\ Approvals' /\ client'[c] = r
      /\ \A d \in Clients \ {c} : client'[d] = client[d]
  BY <1>1, <1>6, <1>7, ClientMoves
<1>9. ApprovingUnits' \subseteq ApprovingUnits
  BY <1>6, <1>7, <1>8, ApprovingShrinks
<1>10. Registered' /\ AcceptedUnits' = AcceptedUnits
  BY <1>7 DEF IInv, Registered, AcceptedUnits, Accepted
<1>11. Covered'
  BY <1>4, <1>7, <1>9, <1>10, CoveredStable DEF IInv
<1>. QED
  BY <1>4, <1>8, <1>10, <1>11 DEF IInv

LEMMA ApprovalFailsStep ==
    ASSUME IInv, NEW c \in Clients, ApprovalFails(c)
    PROVE  IInv'
<1> USE DEF ApprovalFails
<1>1. UNCHANGED <<topics, handler, enclave, files>> /\ UNCHANGED tables /\ Fault
  OBVIOUS
<1>2. Grows /\ TableTypes'
  BY <1>1, NothingMoves DEF IInv, topics
<1>3. Types' /\ Handlers' /\ Marked' /\ SavingUnits' = SavingUnits
  BY <1>1, <1>2, ApprovalFrame
<1>4. PICK old \in ClientRecord : old = client[c]
  BY DEF IInv, Approvals, ClientRecord
<1>5. PICK r : r = [old EXCEPT !.step = "done"]
  OBVIOUS
<1>6. r \in ClientRecord /\ r.step = "done" /\ client' = [client EXCEPT ![c] = r]
  BY <1>4, <1>5 DEF ClientRecord, ClientSteps
<1>7. intents' = intents /\ usage' = usage /\ registry' = registry
  BY <1>1 DEF tables
<1>8. /\ Approvals' /\ client'[c] = r
      /\ \A d \in Clients \ {c} : client'[d] = client[d]
  BY <1>6, <1>7, ClientMoves
<1>9. ApprovingUnits' \subseteq ApprovingUnits
  BY <1>6, <1>7, <1>8, ApprovingShrinks
<1>10. Registered' /\ AcceptedUnits' = AcceptedUnits
  BY <1>7 DEF IInv, Registered, AcceptedUnits, Accepted
<1>11. Covered'
  BY <1>3, <1>7, <1>9, <1>10, CoveredStable DEF IInv
<1>. QED
  BY <1>3, <1>8, <1>10, <1>11 DEF IInv

LEMMA ReserveForApprovalStep ==
    ASSUME IInv, NEW c \in Clients, ReserveForApproval(c)
    PROVE  IInv'
<1>1. PICK id \in DOMAIN intents : id = client[c].id /\ intents[id].state # "WEBHOOK"
  BY DEF ReserveForApproval, IInv, Approvals
<1>2. PICK e \in Events : e = intents[id].event
  <2>1. intents[id] \in IntentRecord
    BY DEF IInv, Types, TableTypes
  <2>. QED
    BY <2>1 DEF IntentRecord
<1>3. PICK s \in {"approve", "done"} : s = IF WithinDailyLimit(e) THEN "approve" ELSE "done"
  OBVIOUS
<1>4. usage' = Reserved(e) /\ client' = [client EXCEPT ![c].step = s]
  BY <1>1, <1>2, <1>3 DEF ReserveForApproval
<1>5. /\ UNCHANGED <<topics, handler, enclave, files>> /\ UNCHANGED faults
      /\ UNCHANGED <<intents, outbox, registry, dlq, receipts>>
  BY DEF ReserveForApproval
<1>6. Grows /\ TableTypes'
  BY <1>5 DEF Grows, IInv, Types, TableTypes, EnclaveTypes, topics, enclave
<1>7. Types' /\ Handlers' /\ Marked' /\ SavingUnits' = SavingUnits
  BY <1>5, <1>6, ApprovalFrame
<1>8. PICK old \in ClientRecord : old = client[c]
  BY DEF IInv, Approvals, ClientRecord
<1>9. PICK r : r = [old EXCEPT !.step = s]
  OBVIOUS
<1>10. r \in ClientRecord /\ r.step = s /\ r.id = id /\ client' = [client EXCEPT ![c] = r]
  BY <1>1, <1>4, <1>8, <1>9 DEF ClientRecord, ClientSteps
<1>11. intents' = intents /\ registry' = registry
  BY <1>5
<1>12. /\ Approvals' /\ client'[c] = r
       /\ \A d \in Clients \ {c} : client'[d] = client[d]
  BY <1>1, <1>10, <1>11, ClientMoves
<1>13. Registered' /\ AcceptedUnits' = AcceptedUnits
  BY <1>11 DEF IInv, Registered, AcceptedUnits, Accepted
<1>14. usage \in Nat /\ usage <= DailyLimit /\ DailyLimit \in Nat
  BY IntentsAssumption DEF IInv, Covered
<1>15. CASE ~WithinDailyLimit(e)
  <2>1. usage' = usage /\ client'[c].step # "approve"
    BY <1>3, <1>4, <1>10, <1>12, <1>15 DEF Reserved
  <2>2. ApprovingUnits' \subseteq ApprovingUnits
    BY <1>11, <1>12, <2>1, ApprovingShrinks
  <2>3. Covered'
    BY <1>7, <1>13, <2>1, <2>2, CoveredStable DEF IInv
  <2>. QED
    BY <1>7, <1>12, <1>13, <2>3 DEF IInv
<1>16. CASE WithinDailyLimit(e)
  <2>1. PICK n \in Nat : n = About[e].amount
    BY UnitsFacts
  <2>2. usage' = usage + n /\ usage' <= DailyLimit /\ usage' \in Nat
    BY <1>4, <1>14, <1>16, <2>1 DEF Reserved, WithinDailyLimit
  <2>3. ApprovingUnits' \subseteq ApprovingUnits \cup Units(c, e)
    BY <1>1, <1>2, <1>10, <1>11, <1>12, ApprovingGrows
  <2>4. PICK Y, T : Y = Units(c, e) /\ T = ApprovingUnits'
    OBVIOUS
  <2>5. IsFiniteSet(Y) /\ Cardinality(Y) = n /\ IsFiniteSet({}) /\ Cardinality({}) = 0
    BY <2>1, <2>4, UnitsFacts, FS_EmptySet
  <2>6. T \subseteq (ApprovingUnits \ {}) \cup Y /\ IsFiniteSet(ApprovingUnits)
    BY <2>3, <2>4 DEF IInv, Covered
  <2>7. IsFiniteSet(T) /\ Cardinality(T) <= Cardinality(ApprovingUnits) + n
    BY <2>5, <2>6, Exchange
  <2>8. /\ IsFiniteSet(AcceptedUnits) /\ IsFiniteSet(SavingUnits)
        /\ Cardinality(AcceptedUnits) \in Nat /\ Cardinality(SavingUnits) \in Nat
    BY FS_CardinalityType DEF IInv, Covered
  <2>9. usage + 0 + 0 + n <= usage'
    BY <1>14, <2>2
  <2>10. /\ Cardinality(AcceptedUnits') <= Cardinality(AcceptedUnits) + 0
         /\ Cardinality(SavingUnits') <= Cardinality(SavingUnits) + 0
    BY <1>7, <1>13, <2>8
  <2>11. Covered'
    BY <1>7, <1>13, <2>2, <2>4, <2>7, <2>8, <2>9, <2>10, CoveredStep DEF IInv
  <2>. QED
    BY <1>7, <1>12, <1>13, <2>11 DEF IInv
<1>. QED
  BY <1>15, <1>16

(* Approving moves what was reserved from the approval to its intent.      *)
LEMMA AcceptCovered ==
    ASSUME IInv, NEW c \in Approving, NEW id \in DOMAIN intents, id = client[c].id,
           NEW e \in Events, e = intents[id].event,
           usage' = usage, SavingUnits' = SavingUnits,
           ApprovingUnits' \subseteq
              ApprovingUnits \ UNION {Units(d, intents[client[d].id].event) :
                                         d \in Approving \cap {c}},
           AcceptedUnits' \subseteq AcceptedUnits \cup Units(id, e)
    PROVE  Covered'
<1>1. PICK X, Y, S, T : /\ X = Units(c, e) /\ Y = Units(id, e)
                        /\ S = ApprovingUnits' /\ T = AcceptedUnits'
  OBVIOUS
<1>2. PICK n \in Nat : n = About[e].amount
  BY UnitsFacts
<1>3. IsFiniteSet(X) /\ Cardinality(X) = n /\ IsFiniteSet(Y) /\ Cardinality(Y) = n
  BY <1>1, <1>2, UnitsFacts
<1>4. X \subseteq ApprovingUnits
  BY <1>1 DEF ApprovingUnits
<1>5. S \subseteq (ApprovingUnits \ X) \cup {}
  BY <1>1
<1>6. T \subseteq (AcceptedUnits \ {}) \cup Y
  BY <1>1
<1>7. /\ IsFiniteSet(SavingUnits) /\ IsFiniteSet(AcceptedUnits) /\ IsFiniteSet(ApprovingUnits)
      /\ IsFiniteSet({}) /\ Cardinality({}) = 0
  BY FS_EmptySet DEF IInv, Covered
<1>8. Cardinality({}) <= Cardinality(X) + (0 - n) /\ Cardinality(Y) <= Cardinality({}) + n
  BY <1>3, <1>7
<1>9. IsFiniteSet(S) /\ Cardinality(S) <= Cardinality(ApprovingUnits) + (0 - n)
  BY <1>4, <1>5, <1>7, <1>8, Exchange
<1>10. IsFiniteSet(T) /\ Cardinality(T) <= Cardinality(AcceptedUnits) + n
  BY <1>3, <1>6, <1>7, <1>8, Exchange
<1>11. Cardinality(SavingUnits') <= Cardinality(SavingUnits) + 0
  BY <1>7, FS_CardinalityType
<1>12. usage \in Nat /\ usage <= DailyLimit /\ usage + n + 0 + (0 - n) <= usage
  BY DEF IInv, Covered
<1>. QED
  BY <1>1, <1>7, <1>9, <1>10, <1>11, <1>12, CoveredStep DEF IInv

(* The intent is approved ...                                              *)
LEMMA AcceptStep ==
    ASSUME IInv, NEW c \in Clients, NEW id, id = client[c].id, client[c].step = "approve",
           intents' = [intents EXCEPT ![id].state = "VALID", ![id].accepted = TRUE],
           client' = [client EXCEPT ![c].step = "release"],
           UNCHANGED <<topics, handler, enclave, files>>,
           UNCHANGED <<outbox, registry, usage, dlq, receipts, faults>>
    PROVE  IInv'
<1>1. id \in DOMAIN intents /\ intents[id].state # "WEBHOOK" /\ c \in Approving
  BY DEF IInv, Approvals, Approving
<1>2. PICK old \in IntentRecord : old = intents[id]
  BY <1>1 DEF IInv, Types, TableTypes
<1>3. PICK r : r = [old EXCEPT !.state = "VALID", !.accepted = TRUE]
  OBVIOUS
<1>4. /\ r \in IntentRecord /\ r.event = old.event /\ r.key = old.key /\ r.dup = old.dup
      /\ r.async = old.async /\ r.state = "VALID"
  BY <1>3 DEF IntentRecord, GovernanceStates
<1>5. intents' = [intents EXCEPT ![id] = r]
  <2>1. intents' = [[intents EXCEPT ![id].state = "VALID"] EXCEPT ![id].accepted = TRUE]
    OBVIOUS
  <2>. QED
    BY <1>1, <1>2, <1>3, <2>1
<1>6. SameIntent(r, intents[id])
  BY <1>1, <1>2, <1>4 DEF SameIntent
<1>7. PICK e \in Events : e = old.event
  BY DEF IntentRecord
<1>8. world' = world /\ UNCHANGED <<registry, dlq, receipts, enclave>>
  BY DEF topics
<1>9. Grows /\ Registered' /\ Updated(id, r)
  BY <1>1, <1>4, <1>5, <1>6, <1>8, RowUpdate
<1>10. TableTypes'
  BY <1>9 DEF Updated, IInv, Types, TableTypes
<1>11. Types' /\ Handlers' /\ Marked' /\ SavingUnits' = SavingUnits
  BY <1>9, <1>10, ApprovalFrame
<1>12. PICK was \in ClientRecord : was = client[c]
  BY DEF IInv, Approvals, ClientRecord
<1>13. PICK k : k = [was EXCEPT !.step = "release"]
  OBVIOUS
<1>14. k \in ClientRecord /\ k.step = "release" /\ k.id = id /\ client' = [client EXCEPT ![c] = k]
  BY <1>12, <1>13 DEF ClientRecord, ClientSteps
<1>15. /\ DOMAIN intents' = DOMAIN intents
       /\ \A i \in DOMAIN intents : intents'[i].event = intents[i].event
       /\ \A i \in DOMAIN intents : intents[i].state # "WEBHOOK" => intents'[i].state # "WEBHOOK"
       /\ \A i \in DOMAIN intents : i # id => intents'[i] = intents[i]
  BY <1>9 DEF Updated, SameIntent
<1>16. /\ Approvals' /\ client'[c] = k
       /\ \A d \in Clients \ {c} : client'[d] = client[d]
  <2>1. k \in ClientRecord /\ client' = [client EXCEPT ![c] = k]
    BY <1>14
  <2>2. DOMAIN intents' = DOMAIN intents
    BY <1>15
  <2>3. \A i \in DOMAIN intents : intents[i].state # "WEBHOOK" => intents'[i].state # "WEBHOOK"
    BY <1>15
  <2>4. k.id \in DOMAIN intents /\ intents'[k.id].state # "WEBHOOK"
    BY <1>1, <1>14, <2>3
  <2>. QED
    BY <2>1, <2>2, <2>3, <2>4, ClientMoves
<1>17. ApprovingUnits' \subseteq
          ApprovingUnits \ UNION {Units(d, intents[client[d].id].event) : d \in Approving \cap {c}}
  <2>1. \A d \in Approving : intents'[client[d].id].event = intents[client[d].id].event
    BY <1>15 DEF IInv, Approvals, Approving
  <2>. QED
    BY <1>14, <1>16, <2>1, ApprovingShrinks
<1>18. AcceptedUnits' \subseteq AcceptedUnits \cup Units(id, e)
  <2> SUFFICES ASSUME NEW x \in AcceptedUnits' PROVE x \in AcceptedUnits \cup Units(id, e)
    OBVIOUS
  <2>1. PICK i \in Accepted' : x \in Units(i, intents'[i].event)
    BY DEF AcceptedUnits, Units
  <2>2. i \in DOMAIN intents /\ intents'[i].event = intents[i].event
    BY <1>15 DEF Accepted
  <2>3. CASE i = id
    BY <1>2, <1>7, <2>1, <2>2, <2>3
  <2>4. CASE i # id
    <3>1. i \in Accepted
      BY <1>15, <2>2, <2>4 DEF Accepted
    <3>. QED
      BY <2>1, <2>2, <3>1 DEF AcceptedUnits
  <2>. QED
    BY <2>3, <2>4
<1>19. Covered'
  BY <1>1, <1>2, <1>7, <1>11, <1>17, <1>18, AcceptCovered
<1>. QED
  BY <1>9, <1>11, <1>16, <1>19 DEF IInv

(* ... and then its outbox row is released.                                *)
LEMMA ReleaseStep ==
    ASSUME IInv, NEW c \in Clients, NEW id, id = client[c].id, client[c].step = "release",
           outbox' = [outbox EXCEPT ![id].state = "VALID", ![id].accepted = TRUE],
           client' = [client EXCEPT ![c].step = "done"],
           UNCHANGED <<topics, handler, enclave, files>>,
           UNCHANGED <<intents, registry, usage, dlq, receipts, faults>>
    PROVE  IInv'
<1>1. id \in DOMAIN intents
  BY DEF IInv, Approvals
<1>2. id \in 1..Len(outbox)
  BY <1>1 DEF IInv, Types, TableTypes
<1>3. PICK old \in OutboxRecord : old = outbox[id]
  BY <1>2 DEF IInv, Types, TableTypes
<1>4. PICK r : r = [old EXCEPT !.state = "VALID", !.accepted = TRUE]
  OBVIOUS
<1>5. r \in OutboxRecord
  BY <1>4 DEF OutboxRecord, GovernanceStates
<1>6. outbox' = [outbox EXCEPT ![id] = r]
  <2>0. id \in DOMAIN outbox
    BY <1>2 DEF IInv, Types, TableTypes
  <2>1. outbox' = [[outbox EXCEPT ![id].state = "VALID"] EXCEPT ![id].accepted = TRUE]
    OBVIOUS
  <2>. QED
    BY <2>0, <1>3, <1>4, <2>1
<1>7. outbox' \in Seq(OutboxRecord) /\ Len(outbox') = Len(outbox)
  BY <1>2, <1>5, <1>6, ExceptSeq DEF IInv, Types, TableTypes
<1>8. TableTypes'
  BY <1>7 DEF IInv, Types, TableTypes
<1>9. Grows
  BY DEF Grows, enclave, topics, IInv, Types, TableTypes, EnclaveTypes
<1>10. Types' /\ Handlers' /\ Marked' /\ SavingUnits' = SavingUnits
  BY <1>8, <1>9, ApprovalFrame
<1>11. PICK was \in ClientRecord : was = client[c]
  BY DEF IInv, Approvals, ClientRecord
<1>12. PICK k : k = [was EXCEPT !.step = "done"]
  OBVIOUS
<1>13. k \in ClientRecord /\ k.step = "done" /\ client' = [client EXCEPT ![c] = k]
  BY <1>11, <1>12 DEF ClientRecord, ClientSteps
<1>14. /\ Approvals' /\ client'[c] = k
       /\ \A d \in Clients \ {c} : client'[d] = client[d]
  BY <1>13, ClientMoves
<1>15. ApprovingUnits' \subseteq ApprovingUnits
  BY <1>13, <1>14, ApprovingShrinks
<1>16. Registered' /\ AcceptedUnits' = AcceptedUnits
  BY DEF IInv, Registered, AcceptedUnits, Accepted
<1>17. Covered'
  BY <1>10, <1>15, <1>16, CoveredStable DEF IInv
<1>. QED
  BY <1>10, <1>14, <1>16, <1>17 DEF IInv

LEMMA ApproveHeldIntentStep ==
    ASSUME IInv, NEW c \in Clients, ApproveHeldIntent(c)
    PROVE  IInv'
<1>1. PICK id : id = client[c].id
  OBVIOUS
<1>2. CASE client[c].step = "approve"
  BY <1>1, <1>2, AcceptStep DEF ApproveHeldIntent
<1>3. CASE client[c].step = "release"
  BY <1>1, <1>3, ReleaseStep DEF ApproveHeldIntent
<1>. QED
  BY <1>2, <1>3 DEF ApproveHeldIntent

-----------------------------------------------------------------------------
(* The invariant, and what follows from it.                                *)

LEMMA IInvInit == Init => IInv
<1> SUFFICES ASSUME Init PROVE IInv
  OBVIOUS
<1> USE DEF Init
<1>1. \A p \in Topics : Log(p) \in Seq(Events)
  BY IntentsAssumption DEF Log, Topics
<1>2. TopicTypes
  <2>1. \A p \in Topics : Len(Log(p)) \in Nat
    BY <1>1
  <2>2. world.faults \in Nat
    BY IntentsAssumption
  <2>. QED
    BY <2>1, <2>2 DEF TopicTypes
<1>3. TableTypes
  BY FS_EmptySet DEF TableTypes
<1>4. EnclaveTypes
  BY DEF EnclaveTypes
<1>5. FileTypes
  BY DEF FileTypes, NoRun, RunStatuses
<1>6. Handlers
  <2>1. Idle \in Handling
    BY <1>3, IdleKnows
  <2>2. ASSUME NEW p \in Topics
        PROVE  Knows(p, Event(p), handler[p])
    <3>1. PICK e : e = Event(p)
      OBVIOUS
    <3>2. Knows(p, e, Idle)
      BY <1>3, IdleKnows
    <3>. QED
      BY <3>1, <3>2
  <2>. QED
    BY <2>1, <2>2 DEF Handlers, Idle
<1>7. Marked
  BY DEF Marked
<1>8. Approvals
  BY DEF Approvals, NoRequest, ClientSteps
<1>9. Registered
  BY DEF Registered
<1>10. Covered
  <2>1. AcceptedUnits = {}
    BY DEF AcceptedUnits, Accepted
  <2>2. SavingUnits = {}
    BY DEF SavingUnits, Saving, At, Idle, Topics
  <2>3. ApprovingUnits = {}
    BY DEF ApprovingUnits, Approving, NoRequest
  <2>. QED
    BY <2>1, <2>2, <2>3, FS_EmptySet, IntentsAssumption DEF Covered
<1>. QED
  BY <1>2, <1>3, <1>4, <1>5, <1>6, <1>7, <1>8, <1>9, <1>10 DEF IInv, Types

LEMMA IInvStep == IInv /\ [Next]_vars => IInv'
<1> SUFFICES ASSUME IInv, [Next]_vars PROVE IInv'
  OBVIOUS
<1>1. ASSUME NEW p \in Topics, Handle(p) \/ SaveIsUnanswered(p) \/ HandlerFails(p)
      PROVE  IInv'
  BY <1>1, ConsumeClaimStep, processIncomingIntentStep, ProcessTokenizeResultStep,
     RejectByPolicyStep, FindByEnvelopeStep, ValidateParsedStep, callEnclaveTokenizeStep,
     PublishTokenizeRequestStep, CheckIdempotencyRegistryStep, FindIntentIDStep,
     ReserveIfWithinLimitStep, SaveIntentStep, StoreSnapshotStep, UpdateSnapshotRefsStep,
     BatchAggregateGroupStep, UpdateBatchAggregateConfidenceStep, AggregateReturnsStep,
     EnsureIngestRunStep, InsertIngestRowStep, CountIngestRowsStep, UpsertIngestRunStep,
     PersistRejectedIntentDLQStep, RecordFailureStep, SaveIsUnansweredStep, HandlerFailsStep
     DEF Handle
<1>2. ASSUME NEW c \in Clients, Approve(c) \/ ApprovalFails(c)
      PROVE  IInv'
  BY <1>2, GetHeldIntentForApprovalStep, ReserveForApprovalStep, ApproveHeldIntentStep,
     ApprovalFailsStep DEF Approve
<1>3. CASE UNCHANGED vars
  <2>1. /\ UNCHANGED <<topics, handler, enclave, files>> /\ UNCHANGED <<tables, enclave>>
        /\ UNCHANGED <<client, faults>> /\ world' = world
    BY <1>3 DEF vars, topics
  <2>2. Grows /\ TableTypes'
    BY <2>1, NothingMoves DEF IInv
  <2>3. Types' /\ Handlers' /\ Marked' /\ SavingUnits' = SavingUnits
    BY <2>1, <2>2, ApprovalFrame
  <2>4. Approvals' /\ Registered' /\ AcceptedUnits' = AcceptedUnits
        /\ ApprovingUnits' = ApprovingUnits /\ usage' = usage
    BY <2>1 DEF IInv, Approvals, Registered, AcceptedUnits, Accepted, ApprovingUnits, Approving,
                tables
  <2>5. Covered'
    BY <2>3, <2>4, CoveredStable DEF IInv
  <2>. QED
    BY <2>3, <2>4, <2>5 DEF IInv
<1>. QED
  BY <1>1, <1>2, <1>3, RefsAreLostStep, RestartStep, SweepStep, SendBufferedStep,
     TokenizeRequestedStep
     DEF Next, Quiet

(* The inductive invariant holds, whatever fails.                          *)
THEOREM Invariance == Spec => []IInv
  BY IInvInit, IInvStep, PTL DEF Spec

(* The tables, topics and handlers of the intent engine keep their types;  *)
(* in particular positions never pass the logs, a handler is called no     *)
(* more often than it may be, and registry rows lead to intents.           *)
THEOREM TypeCorrect == Spec => []TypeOK
<1>1. IInv => TypeOK
  <2> SUFFICES ASSUME IInv PROVE TypeOK
    OBVIOUS
  <2>1. ASSUME NEW p \in Topics
        PROVE  /\ committed[p] <= position[p] /\ committed[p] \in Nat \ {0}
               /\ position[p] \in 1..Len(Log(p)) + 1
               /\ handler[p].step \in Steps
               /\ handler[p].tries \in 0..maxHandlerAttempts
               /\ handler[p].id \in 0..Len(intents)
    <3>1. Len(Log(p)) \in Nat
      BY LogType DEF IInv, Types
    <3>2. handler[p] \in Handling /\ handler[p].id <= Len(intents) /\ Len(intents) \in Nat
      BY DEF IInv, Handlers, Knows, Types, TableTypes
    <3>. QED
      BY <3>1, <3>2 DEF IInv, Types, TopicTypes, Handling
  <2>2. \A i \in DOMAIN intents : /\ intents[i].event \in Events
                                  /\ intents[i].state \in GovernanceStates
                                  /\ outbox[i].state \in GovernanceStates
    <3> SUFFICES ASSUME NEW i \in DOMAIN intents
                 PROVE  /\ intents[i].event \in Events /\ intents[i].state \in GovernanceStates
                        /\ outbox[i].state \in GovernanceStates
      OBVIOUS
    <3>1. intents[i] \in IntentRecord /\ outbox[i] \in OutboxRecord
      BY DEF IInv, Types, TableTypes
    <3>. QED
      BY <3>1 DEF IntentRecord, OutboxRecord
  <2>3. \A c \in Clients : client[c].step \in {"check", "reserve", "approve", "release", "done"}
    BY DEF IInv, Approvals, ClientSteps
  <2>4. run.status \in {None, "PROCESSING", "COMPLETED", "FAILED_RETRYABLE", "PARTIAL_FAILED",
                        "FAILED_FINAL"}
    BY DEF IInv, Types, FileTypes, RunStatuses
  <2>. QED
    BY <2>1, <2>2, <2>3, <2>4
       DEF TypeOK, IInv, Types, TopicTypes, TableTypes, EnclaveTypes, FileTypes, Covered
<1>. QED
  BY <1>1, Invariance, PTL

(* However handlers, the enclave and receipts fail, and wherever a restart *)
(* begins, no message is marked that has left no trace, but for those      *)
(* whose request the asynchronous producer took and dropped.               *)
THEOREM NothingIsLost == Spec => []NothingLost
<1>1. IInv => NothingLost
  BY DEF IInv, Marked, Trace, Settled, NothingLost
<1>. QED
  BY <1>1, Invariance, PTL

(* One business key never has two intents that are not flagged, whatever   *)
(* ran between the registry check and Save.                                *)
THEOREM UnflaggedAreUnique == Spec => []UnflaggedIsUnique
<1>1. IInv => UnflaggedIsUnique
  BY DEF IInv, Registered, UnflaggedIsUnique
<1>. QED
  BY <1>1, Invariance, PTL

(* What consumers and approvals accept is reserved, and what is reserved   *)
(* stays within the daily limit.                                           *)
THEOREM LimitIsKept == Spec => []WithinLimit
<1>1. IInv => WithinLimit
  <2> SUFFICES ASSUME IInv PROVE WithinLimit
    OBVIOUS
  <2>1. /\ Cardinality(AcceptedUnits) \in Nat /\ Cardinality(SavingUnits) \in Nat
        /\ Cardinality(ApprovingUnits) \in Nat
    BY FS_CardinalityType DEF IInv, Covered
  <2>. QED
    BY <2>1 DEF IInv, Covered, WithinLimit
<1>. QED
  BY <1>1, Invariance, PTL
=============================================================================
