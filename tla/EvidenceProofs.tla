---------------------------- MODULE EvidenceProofs ----------------------------
(***************************************************************************)
(* Proofs about Evidence for any messages, leaf types, workers, requests   *)
(* and any number of failures: a sealed pack is whole, a scope has one     *)
(* ACTIVE pack at most, and a leaf is only deleted once its scope has one. *)
(***************************************************************************)
EXTENDS Evidence, FiniteSetTheorems, SequenceTheorems, TLAPS

HandlerRecord ==
    [step : {"idle", "resolve", "link", "receipt", "upsert", "enqueue"}, event : Events \cup {None},
     left : Seq(Types), intent : BOOLEAN, batch : BOOLEAN]
WorkerRecord ==
    [step : {"idle", "check", "reread", "lock", "put", "activate", "delete"},
     scope : {"intent", "batch", None}, items : SUBSET Item]
ClientRecord ==
    [step : {"idle", "draft", "put", "activate", "supersede"},
     items : SUBSET Item, old : Nat, draft : Nat]
PackRecord ==
    [scope : {"intent", "batch"}, items : SUBSET Item, archived : BOOLEAN,
     status : {"DRAFT", "ACTIVE", "SUPERSEDED"}, by : {"worker", "client"}]

(* A busy consumer has a message of its topic in hand and, before it has   *)
(* stored them all, a leaf.                                                *)
Handling(c, h) ==
    /\ h.step # "idle" => h.event \in Events /\ position[c] <= Len(world.log[c])
    /\ h.step \in {"resolve", "link", "receipt", "upsert"} => h.left # <<>>

OneOfAType == \A r, s \in pending : r.scope = s.scope /\ r.type = s.type => r = s

(* What the consumers keep.                                                *)
Consuming ==
    /\ world \in Worlds /\ faults \in 0..world.faults /\ done \in BOOLEAN
    /\ position \in [Consumers -> Nat] /\ marked \in [Consumers -> Nat]
    /\ \A c \in Consumers :
          1 <= marked[c] /\ marked[c] <= position[c] /\ position[c] <= Len(world.log[c]) + 1
    /\ handler \in [Consumers -> HandlerRecord]
    /\ \A c \in Consumers : Handling(c, handler[c])
    /\ pending \subseteq Row /\ OneOfAType
    /\ receipts \subseteq Events \X Types \X Scopes \X {"ACCEPTED", "DUPLICATE", "CONFLICT"}
    /\ queue \subseteq {"intent", "batch"}

(* One leaf of every required type.                                        *)
OneOfEach(items) ==
    /\ TypesOf(items) = RequiredLeafTypes
    /\ \A i, j \in items : i[1] = j[1] => i = j

(* A worker's job; it deletes leaves once its scope has a pack.            *)
Working(x) ==
    /\ x.step # "idle" => x.scope \in {"intent", "batch"}
    /\ x.step = "reread" => x.scope = "batch"
    /\ x.step \in {"lock", "put", "activate", "delete"} /\ x.scope = "intent" => OneOfEach(x.items)
    /\ x.step = "delete" => Active(x.scope) # {}

(* A request's draft is a pack of the intent, younger than the one it      *)
(* replaces; once it is there to supersede another it is ACTIVE.           *)
Serving(x) ==
    /\ x.old # 0 => x.old \in DOMAIN packs /\ packs[x.old].scope = "intent"
    /\ x.step \in {"put", "activate", "supersede"} =>
          x.draft \in DOMAIN packs /\ packs[x.draft].scope = "intent" /\ x.old < x.draft
    /\ x.step = "activate" => packs[x.draft].archived
    /\ x.step = "supersede" => x.old # 0 /\ packs[x.draft].status = "ACTIVE"

(* Packs: the batch's are never drafts and never superseded.               *)
Sealed ==
    \A i \in DOMAIN packs :
        /\ packs[i].status = "ACTIVE" => packs[i].archived /\ i \in outbox
        /\ packs[i].scope = "batch" => packs[i].status = "ACTIVE"
        /\ packs[i].by = "worker" /\ packs[i].scope = "intent" => OneOfEach(packs[i].items)

OneActive == \A s \in {"intent", "batch"} : \A i, j \in Active(s) : i = j

Stored ==
    /\ packs \in Seq(PackRecord) /\ outbox \subseteq DOMAIN packs
    /\ Sealed /\ OneActive

(* Packs keep their scope and archive, and stay ACTIVE.                    *)
Grown ==
    /\ DOMAIN packs \subseteq DOMAIN packs'
    /\ \A i \in DOMAIN packs :
          /\ packs'[i].scope = packs[i].scope
          /\ packs[i].archived => packs'[i].archived
          /\ packs[i].status = "ACTIVE" => packs'[i].status = "ACTIVE"

(* What the workers and the requests keep.                                 *)
Packing ==
    /\ worker \in [Workers -> WorkerRecord] /\ \A w \in Workers : Working(worker[w])
    /\ client \in [Clients -> ClientRecord] /\ \A k \in Clients : Serving(client[k])
    /\ Stored
    /\ jobs \in [Clients -> {None, "PENDING", "COMPLETED", "FAILED"}]

IInv == Consuming /\ Packing

-----------------------------------------------------------------------------
(* A fault that is counted, or none.                                       *)
LEMMA FaultFacts ==
    ASSUME Consuming, UNCHANGED world, Fault \/ UNCHANGED faults
    PROVE  faults' \in 0..world'.faults
<1>1. world.faults \in Nat /\ faults \in 0..world.faults
  BY EvidenceAssumption DEF Consuming
<1>. QED
  BY <1>1 DEF Fault

(* The logs are sequences of messages.                                     *)
LEMMA LogFacts ==
    ASSUME Consuming, NEW c \in Consumers
    PROVE  world.log[c] \in Seq(Events) /\ Len(world.log[c]) \in Nat
<1>1. world.log \in [Consumers -> Seq(Events)]
  BY EvidenceAssumption DEF Consuming
<1>2. world.log[c] \in Seq(Events)
  BY <1>1
<1>. QED
  BY <1>2, LenProperties

LEMMA WaitingFacts ==
    /\ Waiting \in HandlerRecord /\ Waiting.step = "idle"
    /\ \A c : Handling(c, Waiting)
  BY DEF Waiting, HandlerRecord, Handling

LEMMA IdleFacts ==
    /\ Idle \in WorkerRecord /\ Working(Idle)
    /\ NoRequest \in ClientRecord /\ Serving(NoRequest)
  BY DEF Idle, WorkerRecord, Working, NoRequest, ClientRecord, Serving

LEMMA PackFacts ==
    ASSUME packs \in Seq(PackRecord)
    PROVE  /\ Len(packs) \in Nat /\ DOMAIN packs = 1..Len(packs)
           /\ \A i \in DOMAIN packs : packs[i] \in PackRecord
  BY LenProperties, ElementOfSeq

(* The invariant holds initially.                                          *)
LEMMA IInvInit == Init => IInv
<1> SUFFICES ASSUME Init PROVE IInv
  OBVIOUS
<1>1. world \in Worlds /\ world.faults \in Nat
  BY EvidenceAssumption DEF Init
<1>2. handler = [c \in Consumers |-> Waiting]
  BY DEF Init
<1>3. /\ handler \in [Consumers -> HandlerRecord]
      /\ \A c \in Consumers : Handling(c, handler[c])
  BY <1>2, WaitingFacts
<1>4. ASSUME NEW c \in Consumers
      PROVE  1 <= marked[c] /\ marked[c] <= position[c] /\ position[c] <= Len(world.log[c]) + 1
  <2>1. world.log \in [Consumers -> Seq(Events)]
    BY <1>1, EvidenceAssumption
  <2>2. Len(world.log[c]) \in Nat
    BY <2>1, LenProperties
  <2>. QED
    BY <2>2 DEF Init
<1>5. position \in [Consumers -> Nat] /\ marked \in [Consumers -> Nat]
  BY DEF Init
<1>6. Consuming
  <2>1. pending = {} /\ receipts = {} /\ queue = {} /\ done = FALSE /\ faults = 0
    BY DEF Init
  <2>2. OneOfAType
    BY <2>1 DEF OneOfAType
  <2>. QED
    <3>0. \A n \in Nat : 0 \in 0..n
      OBVIOUS
    <3>1. world \in Worlds /\ faults \in 0..world.faults /\ done \in BOOLEAN
      BY <1>1, <2>1, <3>0
    <3>2. /\ pending \subseteq Row /\ queue \subseteq {"intent", "batch"}
          /\ receipts \subseteq Events \X Types \X Scopes \X {"ACCEPTED", "DUPLICATE", "CONFLICT"}
      BY <2>1
    <3>. QED
      BY <1>3, <1>4, <1>5, <2>2, <3>1, <3>2 DEF Consuming
<1>7. worker \in [Workers -> WorkerRecord] /\ \A w \in Workers : Working(worker[w])
  BY IdleFacts DEF Init
<1>8. client \in [Clients -> ClientRecord] /\ \A k \in Clients : Serving(client[k])
  BY IdleFacts DEF Init
<1>9. packs \in Seq(PackRecord) /\ DOMAIN packs = {} /\ outbox = {}
  BY DEF Init
<1>10. Sealed /\ OneActive
  BY <1>9 DEF Sealed, OneActive, Active
<1>11. jobs \in [Clients -> {None, "PENDING", "COMPLETED", "FAILED"}]
  BY DEF Init
<1>. QED
  BY <1>6, <1>7, <1>8, <1>9, <1>10, <1>11 DEF IInv, Packing, Stored

-----------------------------------------------------------------------------
(* The consumers leave the packs alone.                                    *)
LEMMA PackingKept ==
    ASSUME Packing, UNCHANGED <<worker, client, packs, outbox, jobs>>
    PROVE  Packing'
<1>1. \A s : Active(s)' = Active(s)
  BY DEF Active
<1>2. \A w \in Workers : Working(worker[w])'
  BY <1>1 DEF Packing, Working
<1>3. \A k \in Clients : Serving(client[k])'
  BY DEF Packing, Serving
<1>4. Sealed' /\ OneActive'
  BY <1>1 DEF Packing, Stored, Sealed, OneActive
<1>. QED
  BY <1>2, <1>3, <1>4 DEF Packing, Stored

(* The workers and the requests only take leaves and jobs away.            *)
LEMMA ConsumingKept ==
    ASSUME Consuming, UNCHANGED <<topics, handler, receipts>>, done' \in BOOLEAN,
           queue' \subseteq queue, pending' \subseteq pending, Fault \/ UNCHANGED faults
    PROVE  Consuming'
<1>1. faults' \in 0..world'.faults
  BY FaultFacts DEF topics
<1>2. OneOfAType'
  BY DEF Consuming, OneOfAType
<1>3. \A c \in Consumers : Handling(c, handler[c])'
  BY DEF Consuming, Handling, topics
<1>. QED
  BY <1>1, <1>2, <1>3 DEF Consuming, topics

(* A consumer goes on with its message.                                    *)
LEMMA HandlingStep ==
    ASSUME Consuming, NEW c \in Consumers, NEW h \in HandlerRecord,
           handler' = [handler EXCEPT ![c] = h], Handling(c, h),
           pending' \subseteq Row, OneOfAType',
           receipts' \subseteq Events \X Types \X Scopes \X {"ACCEPTED", "DUPLICATE", "CONFLICT"},
           Fault \/ UNCHANGED faults, UNCHANGED <<topics, queue, done>>
    PROVE  Consuming'
<1>1. faults' \in 0..world'.faults
  BY FaultFacts DEF topics
<1>2. handler' \in [Consumers -> HandlerRecord] /\ handler'[c] = h
      /\ \A d \in Consumers \ {c} : handler'[d] = handler[d]
  BY DEF Consuming
<1>3. ASSUME NEW d \in Consumers PROVE Handling(d, handler[d])'
  <2>1. Handling(d, handler'[d])
    BY <1>2 DEF Consuming
  <2>. QED
    BY <2>1 DEF Handling, topics
<1>. QED
  BY <1>1, <1>2, <1>3 DEF Consuming, topics

(* A consumer goes on to its next message.                                 *)
LEMMA NextMessage ==
    ASSUME Consuming, NEW c \in Consumers, handler[c].step # "idle",
           handler' = [handler EXCEPT ![c] = Waiting],
           position' = [position EXCEPT ![c] = @ + 1],
           \/ UNCHANGED marked
           \/ marked' = [marked EXCEPT ![c] = position[c] + 1],
           queue' \subseteq {"intent", "batch"},
           Fault \/ UNCHANGED faults, UNCHANGED <<world, pending, receipts, done>>
    PROVE  Consuming'
<1>1. faults' \in 0..world'.faults
  BY FaultFacts
<1>2. handler' \in [Consumers -> HandlerRecord] /\ handler'[c] = Waiting
      /\ \A d \in Consumers \ {c} : handler'[d] = handler[d]
  BY WaitingFacts DEF Consuming
<1>3. position[c] <= Len(world.log[c]) /\ Len(world.log[c]) \in Nat
  BY LogFacts DEF Consuming, Handling
<1>4. /\ position' \in [Consumers -> Nat] /\ marked' \in [Consumers -> Nat]
      /\ position'[c] = position[c] + 1 /\ marked'[c] \in {marked[c], position[c] + 1}
      /\ \A d \in Consumers \ {c} : position'[d] = position[d] /\ marked'[d] = marked[d]
  BY DEF Consuming
<1>5. ASSUME NEW d \in Consumers
      PROVE  1 <= marked'[d] /\ marked'[d] <= position'[d] /\ position'[d] <= Len(world'.log[d]) + 1
  <2>1. CASE d = c
    BY <1>3, <1>4, <2>1 DEF Consuming
  <2>2. CASE d # c
    BY <1>4, <2>2 DEF Consuming
  <2>. QED
    BY <2>1, <2>2
<1>6. ASSUME NEW d \in Consumers PROVE Handling(d, handler[d])'
  <2>1. CASE d = c
    BY <1>2, <2>1, WaitingFacts DEF Handling
  <2>2. CASE d # c
    <3>1. Handling(d, handler[d]) /\ handler'[d] = handler[d] /\ position'[d] = position[d]
      BY <1>2, <1>4, <2>2 DEF Consuming
    <3>. QED
      BY <3>1 DEF Handling
  <2>. QED
    BY <2>1, <2>2
<1>7. OneOfAType'
  BY DEF Consuming, OneOfAType
<1>. QED
  BY <1>1, <1>2, <1>4, <1>5, <1>6, <1>7 DEF Consuming

-----------------------------------------------------------------------------
(* The consumers' steps.                                                   *)
LEMMA ConsumeClaimStep ==
    ASSUME IInv, NEW c \in Consumers, ConsumeClaim(c)
    PROVE  IInv'
<1>0. Consuming /\ Packing
  BY DEF IInv
<1>1. position[c] <= Len(world.log[c]) /\ position[c] \in 1..Len(world.log[c])
  BY <1>0, LogFacts DEF ConsumeClaim, Consuming
<1>2. PICK e : e = world.log[c][position[c]]
  OBVIOUS
<1>3. e \in Events
  BY <1>0, <1>1, <1>2, LogFacts, ElementOfSeq
<1>4. Leaves[e] \in Seq(Types) /\ Leaves[e] # <<>> /\ From[e] \in {"edge", "intent", "outcome", "batch"}
  BY <1>3, EvidenceAssumption DEF Consumers
<1>5. PICK step \in {"resolve", "link", "receipt"}, intent \in BOOLEAN :
         handler' = [handler EXCEPT ![c] = Received(e, step, intent)]
  <2>1. CASE From[e] = "edge"
    BY <1>2, <2>1 DEF ConsumeClaim, buildEdgeHandler
  <2>2. CASE From[e] = "intent"
    BY <1>2, <2>2 DEF ConsumeClaim, buildIntentHandler
  <2>3. CASE From[e] = "outcome"
    BY <1>2, <2>3 DEF ConsumeClaim, handleLeafBundle
  <2>4. CASE From[e] = "batch"
    BY <1>2, <2>4 DEF ConsumeClaim, handleBatchUpdated
  <2>. QED
    BY <1>4, <2>1, <2>2, <2>3, <2>4
<1>6. Received(e, step, intent) \in HandlerRecord /\ Handling(c, Received(e, step, intent))
  BY <1>1, <1>3, <1>4 DEF Received, HandlerRecord, Handling
<1>7. UNCHANGED <<topics, pending, receipts, packs, outbox, jobs, queue, worker, client, done, faults>>
  BY DEF ConsumeClaim, database
<1>8. /\ pending' \subseteq Row /\ OneOfAType'
      /\ receipts' \subseteq Events \X Types \X Scopes \X {"ACCEPTED", "DUPLICATE", "CONFLICT"}
  BY <1>0, <1>7 DEF Consuming, OneOfAType
<1>. QED
  BY <1>0, <1>5, <1>6, <1>7, <1>8, HandlingStep, PackingKept DEF IInv

(* What a busy consumer has in hand.                                       *)
LEMMA HandlerFacts ==
    ASSUME Consuming, NEW c \in Consumers
    PROVE  /\ handler[c] \in HandlerRecord /\ Handling(c, handler[c])
           /\ handler[c].step # "idle" => handler[c].event \in Events
           /\ handler[c].step \in {"resolve", "link", "receipt", "upsert"} =>
                 /\ handler[c].left # <<>> /\ Head(handler[c].left) \in Types
                 /\ Tail(handler[c].left) \in Seq(Types)
                 /\ Len(handler[c].left) > 1 => Tail(handler[c].left) # <<>>
<1>1. handler[c] \in HandlerRecord /\ Handling(c, handler[c])
  BY DEF Consuming
<1>2. handler[c].left \in Seq(Types)
  BY <1>1 DEF HandlerRecord
<1>3. ASSUME handler[c].left # <<>>
      PROVE  /\ Head(handler[c].left) \in Types /\ Tail(handler[c].left) \in Seq(Types)
             /\ Len(handler[c].left) > 1 => Tail(handler[c].left) # <<>>
  <2>1. /\ Head(handler[c].left) \in Types /\ Tail(handler[c].left) \in Seq(Types)
        /\ Len(Tail(handler[c].left)) = Len(handler[c].left) - 1
    BY <1>2, <1>3, HeadTailProperties
  <2>2. ASSUME Len(handler[c].left) > 1 PROVE Tail(handler[c].left) # <<>>
    <3>1. PICK n, m : n = Len(handler[c].left) /\ m = Len(Tail(handler[c].left))
      OBVIOUS
    <3>2. n \in Nat /\ n > 1
      BY <1>2, <2>2, <3>1, LenProperties
    <3>3. m = n - 1
      BY <2>1, <3>1
    <3>4. m # 0
      BY <3>2, <3>3
    <3>5. PICK l : l = Tail(handler[c].left)
      OBVIOUS
    <3>6. Len(l) # 0
      BY <3>1, <3>4, <3>5
    <3>7. l # <<>>
      BY <3>6
    <3>. QED
      BY <3>5, <3>7
  <2>. QED
    BY <2>1, <2>2
<1>. QED
  BY <1>1, <1>3 DEF Handling

LEMMA ResolveIntentIDStep ==
    ASSUME IInv, NEW c \in Consumers, ResolveIntentID(c)
    PROVE  IInv'
<1>0. Consuming /\ Packing /\ handler[c].step = "resolve"
  BY DEF IInv, ResolveIntentID
<1>1. handler[c] \in HandlerRecord /\ Handling(c, handler[c])
  BY <1>0, HandlerFacts
<1>2. PICK h : /\ h \in {[handler[c] EXCEPT !.step = "link", !.intent = TRUE],
                         [handler[c] EXCEPT !.step = "receipt"]}
               /\ handler' = [handler EXCEPT ![c] = h]
  BY DEF ResolveIntentID
<1>3. h \in HandlerRecord /\ h.step \in {"link", "receipt"} /\ h.event = handler[c].event
      /\ h.left = handler[c].left
  BY <1>1, <1>2 DEF HandlerRecord
<1>4. Handling(c, h)
  BY <1>0, <1>1, <1>3 DEF Handling
<1>5. /\ UNCHANGED <<topics, pending, receipts, packs, outbox, jobs, queue, worker, client, done>>
      /\ Fault \/ UNCHANGED faults
  BY DEF ResolveIntentID, database
<1>6. /\ pending' \subseteq Row /\ OneOfAType'
      /\ receipts' \subseteq Events \X Types \X Scopes \X {"ACCEPTED", "DUPLICATE", "CONFLICT"}
  BY <1>0, <1>5 DEF Consuming, OneOfAType
<1>. QED
  BY <1>0, <1>2, <1>3, <1>4, <1>5, <1>6, HandlingStep, PackingKept DEF IInv

LEMMA HandlerFailsStep ==
    ASSUME IInv, NEW c \in Consumers, HandlerFails(c), handler[c].step # "idle",
           UNCHANGED pending, Fault \/ UNCHANGED faults
    PROVE  IInv'
<1>1. Consuming /\ Packing
  BY DEF IInv
<1>2. queue' \subseteq {"intent", "batch"}
  BY <1>1 DEF Consuming, HandlerFails
<1>. QED
  BY <1>1, <1>2, NextMessage, PackingKept DEF IInv, HandlerFails

(* Leaves that change their scope together, without a clash.               *)
LEMMA LinkedFacts ==
    ASSUME Consuming, NEW rows, rows = {r \in pending : r.envelope /\ r.scope # "intent"},
           ~\E r \in rows, s \in pending : s.scope = "intent" /\ s.type = r.type,
           ~\E r, s \in rows : r # s /\ r.type = s.type,
           pending' = (pending \ rows) \cup {[r EXCEPT !.scope = "intent"] : r \in rows}
    PROVE  pending' \subseteq Row /\ OneOfAType'
<1>1. pending \subseteq Row /\ OneOfAType
  BY DEF Consuming
<1>2. ASSUME NEW r \in rows
      PROVE  LET s == [r EXCEPT !.scope = "intent"]
             IN  s \in Row /\ s.scope = "intent" /\ s.type = r.type
  <2>1. r \in Row
    BY <1>1
  <2>. QED
    BY <2>1 DEF Row, Scopes
<1>3. pending' \subseteq Row
  BY <1>1, <1>2
<1>4. ASSUME NEW r \in pending', NEW s \in pending', r.scope = s.scope, r.type = s.type
      PROVE  r = s
  <2>1. CASE r \in pending \ rows /\ s \in pending \ rows
    BY <1>1, <1>4, <2>1 DEF OneOfAType
  <2>2. ASSUME NEW a \in rows, r = [a EXCEPT !.scope = "intent"], s \in pending \ rows PROVE FALSE
    BY <1>2, <1>4, <2>2
  <2>3. ASSUME NEW a \in rows, s = [a EXCEPT !.scope = "intent"], r \in pending \ rows PROVE FALSE
    BY <1>2, <1>4, <2>3
  <2>4. ASSUME NEW a \in rows, NEW b \in rows,
               r = [a EXCEPT !.scope = "intent"], s = [b EXCEPT !.scope = "intent"]
        PROVE  r = s
    <3>1. a.type = b.type
      BY <1>2, <1>4, <2>4
    <3>2. a = b
      BY <3>1
    <3>. QED
      BY <2>4, <3>2
  <2>. QED
    BY <2>1, <2>2, <2>3, <2>4
<1>. QED
  BY <1>3, <1>4 DEF OneOfAType

LEMMA LinkEnvelopeToIntentStep ==
    ASSUME IInv, NEW c \in Consumers, LinkEnvelopeToIntent(c)
    PROVE  IInv'
<1>0. Consuming /\ Packing /\ handler[c].step = "link"
  BY DEF IInv, LinkEnvelopeToIntent
<1>1. PICK rows : rows = {r \in pending : r.envelope /\ r.scope # "intent"}
  OBVIOUS
<1>2. CASE HandlerFails(c) /\ UNCHANGED pending /\ (Fault \/ UNCHANGED faults)
  BY <1>0, <1>2, HandlerFailsStep
<1>3. CASE /\ ~\E r \in rows, s \in pending : s.scope = "intent" /\ s.type = r.type
           /\ ~\E r, s \in rows : r # s /\ r.type = s.type
           /\ pending' = (pending \ rows) \cup {[r EXCEPT !.scope = "intent"] : r \in rows}
           /\ handler' = [handler EXCEPT ![c].step = "receipt"]
           /\ UNCHANGED <<topics, receipts, packs, outbox, jobs, queue, worker, client, done, faults>>
  <2>1. pending' \subseteq Row /\ OneOfAType'
    BY <1>0, <1>1, <1>3, LinkedFacts
  <2>2. PICK h : h = [handler[c] EXCEPT !.step = "receipt"]
    OBVIOUS
  <2>3. handler[c] \in HandlerRecord /\ Handling(c, handler[c])
    BY <1>0, HandlerFacts
  <2>4. h \in HandlerRecord /\ h.step = "receipt" /\ h.event = handler[c].event
        /\ h.left = handler[c].left
    BY <2>2, <2>3 DEF HandlerRecord
  <2>5. Handling(c, h) /\ handler' = [handler EXCEPT ![c] = h]
    BY <1>0, <1>3, <2>2, <2>3, <2>4 DEF Handling
  <2>6. receipts' \subseteq Events \X Types \X Scopes \X {"ACCEPTED", "DUPLICATE", "CONFLICT"}
    BY <1>0, <1>3 DEF Consuming
  <2>. QED
    BY <1>0, <1>3, <2>1, <2>4, <2>5, <2>6, HandlingStep, PackingKept DEF IInv
<1>. QED
  BY <1>1, <1>2, <1>3 DEF LinkEnvelopeToIntent

LEMMA ScopeFacts ==
    ASSUME Consuming, NEW c \in Consumers
    PROVE  LeafScope(c) \in Scopes
  BY DEF LeafScope, Scopes

(* The handler's next leaf, or the end of its leaves.                      *)
LEMMA NextLeafFacts ==
    ASSUME Consuming, NEW c \in Consumers, handler[c].step \in {"receipt", "upsert"},
           NEW l, l = Tail(handler[c].left),
           NEW s, s = IF Len(handler[c].left) > 1 THEN "receipt" ELSE "enqueue"
    PROVE  /\ l \in Seq(Types) /\ s \in {"receipt", "enqueue"}
           /\ \A h \in HandlerRecord :
                 h.left = l /\ h.step = s /\ h.event = handler[c].event => Handling(c, h)
<1>1. /\ handler[c] \in HandlerRecord /\ Handling(c, handler[c])
      /\ l \in Seq(Types) /\ s \in {"receipt", "enqueue"} /\ (s = "receipt" => l # <<>>)
  BY HandlerFacts
<1>. QED
  BY <1>1 DEF Handling

(* The first receipt of a leaf.                                            *)
LEMMA ReceiptFacts ==
    ASSUME NEW e \in Events, NEW t \in Types, NEW s \in Scopes,
           NEW v \in {"ACCEPTED", "DUPLICATE", "CONFLICT"}
    PROVE  Append(<<e, t, s>>, v) \in Events \X Types \X Scopes \X {"ACCEPTED", "DUPLICATE", "CONFLICT"}
<1>1. PICK S, key, row : S = {e, t, s, v} /\ key = <<e, t, s>> /\ row = <<e, t, s, v>>
  OBVIOUS
<1>2. /\ key \in Seq(S) /\ Len(key) = 3 /\ v \in S /\ key[1] = e /\ key[2] = t /\ key[3] = s
      /\ row \in Seq(S) /\ Len(row) = 4 /\ row[1] = e /\ row[2] = t /\ row[3] = s /\ row[4] = v
  BY <1>1
<1>3. PICK a : a = Append(key, v)
  OBVIOUS
<1>4. /\ a \in Seq(S) /\ Len(a) = 4 /\ a[4] = v
      /\ a[1] = key[1] /\ a[2] = key[2] /\ a[3] = key[3]
  <2>1. /\ a \in Seq(S) /\ Len(a) = Len(key) + 1 /\ a[Len(key) + 1] = v
        /\ \A i \in 1..Len(key) : a[i] = key[i]
    <3>1. key \in Seq(S) /\ v \in S
      BY <1>2
    <3>2. \A seq \in Seq(S) : \A x \in S :
             /\ Append(seq, x) \in Seq(S) /\ Len(Append(seq, x)) = Len(seq) + 1
             /\ Append(seq, x)[Len(seq) + 1] = x
             /\ \A i \in 1..Len(seq) : Append(seq, x)[i] = seq[i]
      BY AppendProperties
    <3>. QED
      BY <1>3, <3>1, <3>2, Zenon
  <2>2. 1 \in 1..3 /\ 2 \in 1..3 /\ 3 \in 1..3 /\ 3 + 1 = 4
    OBVIOUS
  <2>. QED
    BY <1>2, <2>1, <2>2
<1>5. \A i \in 1..4 : a[i] = row[i]
  <2>1. \A i \in 1..4 : i = 1 \/ i = 2 \/ i = 3 \/ i = 4
    OBVIOUS
  <2>. QED
    BY <1>2, <1>4, <2>1
<1>6. a = row
  BY <1>2, <1>4, <1>5, SeqEqual
<1>7. row \in Events \X Types \X Scopes \X {"ACCEPTED", "DUPLICATE", "CONFLICT"}
  BY <1>1
<1>8. Append(<<e, t, s>>, v) = row
  BY <1>1, <1>3, <1>6, Zenon
<1>. QED
  BY <1>7, <1>8, Zenon

LEMMA WriteReceiptStep ==
    ASSUME IInv, NEW c \in Consumers, WriteReceipt(c)
    PROVE  IInv'
<1>0. Consuming /\ Packing /\ handler[c].step = "receipt"
  BY DEF IInv, WriteReceipt
<1>1. /\ handler[c] \in HandlerRecord /\ Handling(c, handler[c]) /\ handler[c].event \in Events
      /\ Head(handler[c].left) \in Types /\ LeafScope(c) \in Scopes
      /\ classify(c) \in {"ACCEPTED", "DUPLICATE", "CONFLICT"}
  BY <1>0, HandlerFacts, ScopeFacts DEF classify
<1>2. /\ UNCHANGED <<topics, pending, packs, outbox, jobs, queue, worker, client, done>>
      /\ Fault \/ UNCHANGED faults
  BY DEF WriteReceipt
<1>3. receipts' \subseteq Events \X Types \X Scopes \X {"ACCEPTED", "DUPLICATE", "CONFLICT"}
  <2>1. receipts \subseteq Events \X Types \X Scopes \X {"ACCEPTED", "DUPLICATE", "CONFLICT"}
    BY <1>0 DEF Consuming
  <2>2. PICK row : row = Append(<<handler[c].event, Head(handler[c].left), LeafScope(c)>>, classify(c))
    OBVIOUS
  <2>3. row \in Events \X Types \X Scopes \X {"ACCEPTED", "DUPLICATE", "CONFLICT"}
    BY <1>1, <2>2, ReceiptFacts
  <2>4. receipts' = receipts \/ receipts' = receipts \cup {row}
    BY <2>2 DEF WriteReceipt
  <2>. QED
    BY <2>1, <2>3, <2>4
<1>4. PICK h \in HandlerRecord : handler' = [handler EXCEPT ![c] = h] /\ Handling(c, h)
  <2>1. CASE NextLeaf(c)
    <3>1. PICK l, s : /\ l = Tail(handler[c].left)
                      /\ s = IF Len(handler[c].left) > 1 THEN "receipt" ELSE "enqueue"
      OBVIOUS
    <3>2. PICK h : h = [handler[c] EXCEPT !.left = l, !.step = s]
      OBVIOUS
    <3>3. handler' = [handler EXCEPT ![c] = h]
      BY <2>1, <3>1, <3>2 DEF NextLeaf
    <3>4. l \in Seq(Types) /\ s \in {"receipt", "enqueue"}
      BY <1>0, <3>1, NextLeafFacts
    <3>5. h \in HandlerRecord /\ h.left = l /\ h.step = s /\ h.event = handler[c].event
      BY <1>1, <3>2, <3>4 DEF HandlerRecord
    <3>. QED
      BY <1>0, <3>1, <3>3, <3>5, NextLeafFacts
  <2>2. CASE handler' = [handler EXCEPT ![c].step = "upsert"]
    <3>1. PICK h : h = [handler[c] EXCEPT !.step = "upsert"]
      OBVIOUS
    <3>2. h \in HandlerRecord /\ h.left = handler[c].left /\ h.step = "upsert" /\ h.event = handler[c].event
      BY <1>1, <3>1 DEF HandlerRecord
    <3>3. Handling(c, h)
      BY <1>0, <1>1, <3>2 DEF Handling
    <3>. QED
      BY <2>2, <3>1, <3>2, <3>3
  <2>. QED
    BY <2>1, <2>2 DEF WriteReceipt
<1>5. pending' \subseteq Row /\ OneOfAType'
  BY <1>0, <1>2 DEF Consuming, OneOfAType
<1>. QED
  BY <1>0, <1>2, <1>3, <1>4, <1>5, HandlingStep, PackingKept DEF IInv

(* The upsert keeps one row of a scope and type.                           *)
LEMMA UpsertFacts ==
    ASSUME Consuming, NEW c \in Consumers, handler[c].step = "upsert", pending' = UpsertedLeaf(c)
    PROVE  pending' \subseteq Row /\ OneOfAType'
<1>0. pending \subseteq Row /\ OneOfAType
  BY DEF Consuming
<1>1. PICK e, t, s : e = handler[c].event /\ t = Head(handler[c].left) /\ s = LeafScope(c)
  OBVIOUS
<1>2. e \in Events /\ t \in Types /\ s \in Scopes
  BY <1>1, HandlerFacts, ScopeFacts
<1>3. PICK same : same = {r \in pending : r.scope = s /\ r.type = t}
  OBVIOUS
<1>4. same = Same(c)
  BY <1>1, <1>3 DEF Same
<1>5. CASE same = {}
  <2>1. PICK row : row = [scope |-> s, type |-> t, event |-> e, envelope |-> From[e] = "edge"]
    OBVIOUS
  <2>2. pending' = pending \cup {row}
    BY <1>1, <1>4, <1>5, <2>1 DEF UpsertedLeaf, InsertLeaf
  <2>3. row \in Row /\ row.scope = s /\ row.type = t
    BY <1>2, <2>1 DEF Row
  <2>4. \A r \in pending : ~(r.scope = s /\ r.type = t)
    BY <1>3, <1>5
  <2>. QED
    BY <1>0, <2>2, <2>3, <2>4 DEF OneOfAType
<1>6. CASE same # {}
  <2>1. PICK r \in pending : r.scope = s /\ r.type = t
    BY <1>3, <1>6
  <2>2. same = {r}
    BY <1>0, <1>3, <2>1 DEF OneOfAType
  <2>3. PICK row : row = [r EXCEPT !.event = e]
    OBVIOUS
  <2>4. pending' = (pending \ {r}) \cup {row}
    BY <1>1, <1>4, <1>6, <2>2, <2>3 DEF UpsertedLeaf
  <2>5. row \in Row /\ row.scope = s /\ row.type = t
    <3>1. r \in Row
      BY <1>0
    <3>. QED
      BY <1>2, <2>1, <2>3, <3>1 DEF Row
  <2>6. \A q \in pending \ {r} : ~(q.scope = s /\ q.type = t)
    BY <1>3, <2>2
  <2>. QED
    BY <1>0, <2>4, <2>5, <2>6 DEF OneOfAType
<1>. QED
  BY <1>5, <1>6

LEMMA UpsertLeafStep ==
    ASSUME IInv, NEW c \in Consumers, UpsertLeaf(c)
    PROVE  IInv'
<1>0. Consuming /\ Packing /\ handler[c].step = "upsert"
  BY DEF IInv, UpsertLeaf
<1>1. CASE Fault /\ HandlerFails(c) /\ UNCHANGED pending
  BY <1>0, <1>1, HandlerFailsStep
<1>2. CASE /\ pending' = UpsertedLeaf(c)
           /\ handler' = [handler EXCEPT
                 ![c].left = Tail(@),
                 ![c].step = IF Len(handler[c].left) > 1 THEN "receipt" ELSE "enqueue",
                 ![c].batch = @ \/ Head(handler[c].left) # EnvelopeType]
           /\ UNCHANGED <<topics, receipts, packs, outbox, jobs, queue, worker, client, done, faults>>
  <2>1. PICK l, s : /\ l = Tail(handler[c].left)
                    /\ s = IF Len(handler[c].left) > 1 THEN "receipt" ELSE "enqueue"
    OBVIOUS
  <2>2. PICK b \in BOOLEAN : b = (handler[c].batch \/ Head(handler[c].left) # EnvelopeType)
    OBVIOUS
  <2>3. PICK h : h = [handler[c] EXCEPT !.left = l, !.step = s, !.batch = b]
    OBVIOUS
  <2>4. handler' = [handler EXCEPT ![c] = h]
    BY <1>2, <2>1, <2>2, <2>3
  <2>5. l \in Seq(Types) /\ s \in {"receipt", "enqueue"} /\ handler[c] \in HandlerRecord
    BY <1>0, <2>1, NextLeafFacts, HandlerFacts
  <2>6. h \in HandlerRecord /\ h.left = l /\ h.step = s /\ h.event = handler[c].event
    BY <2>2, <2>3, <2>5 DEF HandlerRecord
  <2>7. Handling(c, h)
    BY <1>0, <2>1, <2>6, NextLeafFacts
  <2>8. pending' \subseteq Row /\ OneOfAType'
    BY <1>0, <1>2, UpsertFacts
  <2>9. receipts' \subseteq Events \X Types \X Scopes \X {"ACCEPTED", "DUPLICATE", "CONFLICT"}
    BY <1>0, <1>2 DEF Consuming
  <2>. QED
    BY <1>0, <1>2, <2>4, <2>6, <2>7, <2>8, <2>9, HandlingStep, PackingKept DEF IInv
<1>. QED
  BY <1>1, <1>2 DEF UpsertLeaf

LEMMA EnqueueChecksStep ==
    ASSUME IInv, NEW c \in Consumers, EnqueueChecks(c)
    PROVE  IInv'
<1>1. Consuming /\ Packing /\ handler[c].step # "idle"
  BY DEF IInv, EnqueueChecks
<1>2. queue' \subseteq {"intent", "batch"}
  BY <1>1 DEF Consuming, EnqueueChecks, Checks
<1>3. UNCHANGED <<world, pending, receipts, packs, outbox, jobs, worker, client, done, faults>>
  BY DEF EnqueueChecks, database
<1>4. /\ handler' = [handler EXCEPT ![c] = Waiting]
      /\ position' = [position EXCEPT ![c] = @ + 1]
      /\ marked' = [marked EXCEPT ![c] = position[c] + 1]
  BY DEF EnqueueChecks
<1>. QED
  BY <1>1, <1>2, <1>3, <1>4, NextMessage, PackingKept DEF IInv

-----------------------------------------------------------------------------
(* Packs.                                                                  *)

LEMMA GrownFacts ==
    ASSUME Grown
    PROVE  /\ \A s : Active(s) \subseteq Active(s)'
           /\ \A x : Working(x) => Working(x)'
           /\ \A x : Serving(x) => Serving(x)'
<1>1. \A s : Active(s) \subseteq Active(s)'
  BY DEF Grown, Active
<1>2. \A x : Working(x) => Working(x)'
  BY <1>1 DEF Working
<1>3. \A x : Serving(x) => Serving(x)'
  BY DEF Grown, Serving
<1>. QED
  BY <1>1, <1>2, <1>3

LEMMA PacksKept ==
    ASSUME Stored, UNCHANGED <<packs, outbox>>
    PROVE  Grown /\ Stored'
<1>1. \A s : Active(s)' = Active(s)
  BY DEF Active
<1>. QED
  BY <1>1 DEF Grown, Stored, Sealed, OneActive

(* A new pack.                                                             *)
LEMMA PackAdded ==
    ASSUME Stored, NEW p \in PackRecord, packs' = Append(packs, p), NEW n, n = Len(packs) + 1,
           outbox \subseteq outbox', outbox' \subseteq outbox \cup {n},
           p.status = "ACTIVE" => p.archived /\ n \in outbox' /\ Active(p.scope) = {},
           p.scope = "batch" => p.status = "ACTIVE",
           p.by = "worker" /\ p.scope = "intent" => OneOfEach(p.items)
    PROVE  /\ Grown /\ Stored' /\ DOMAIN packs' = DOMAIN packs \cup {n} /\ packs'[n] = p
           /\ n \in Nat /\ \A i \in DOMAIN packs : i \in Nat /\ i < n
<1>1. /\ Len(packs) \in Nat /\ DOMAIN packs = 1..Len(packs)
      /\ \A i \in DOMAIN packs : packs[i] \in PackRecord
  BY PackFacts DEF Stored
<1>2. /\ packs' \in Seq(PackRecord) /\ Len(packs') = Len(packs) + 1 /\ packs'[n] = p
      /\ \A i \in DOMAIN packs : packs'[i] = packs[i]
  BY <1>1, AppendProperties DEF Stored
<1>3. DOMAIN packs' = 1..n
  BY <1>2, LenProperties
<1>4. /\ DOMAIN packs' = DOMAIN packs \cup {n} /\ n \notin DOMAIN packs
      /\ n \in Nat /\ \A i \in DOMAIN packs : i \in Nat /\ i < n
  BY <1>1, <1>3
<1>5. Grown
  BY <1>2, <1>4 DEF Grown
<1>6. Sealed'
  <2> SUFFICES ASSUME NEW i \in DOMAIN packs'
               PROVE  /\ packs'[i].status = "ACTIVE" => packs'[i].archived /\ i \in outbox'
                      /\ packs'[i].scope = "batch" => packs'[i].status = "ACTIVE"
                      /\ packs'[i].by = "worker" /\ packs'[i].scope = "intent" =>
                            OneOfEach(packs'[i].items)
    BY DEF Sealed, OneOfEach
  <2>1. CASE i \in DOMAIN packs
    BY <1>2, <2>1 DEF Stored, Sealed
  <2>2. CASE i = n
    BY <1>2, <2>2
  <2>. QED
    BY <1>4, <2>1, <2>2
<1>7. OneActive'
  <2>1. ASSUME NEW s, s # p.scope \/ p.status # "ACTIVE" PROVE Active(s)' = Active(s)
    BY <1>2, <1>4, <2>1 DEF Active
  <2>2. ASSUME p.status = "ACTIVE" PROVE Active(p.scope)' = {n}
    BY <1>2, <1>4, <2>2 DEF Active
  <2>. QED
    BY <2>1, <2>2 DEF Stored, OneActive
<1>. QED
  BY <1>2, <1>4, <1>5, <1>6, <1>7 DEF Stored

(* A pack that is written again.                                           *)
LEMMA PackChanged ==
    ASSUME Stored, NEW i \in DOMAIN packs, NEW p \in PackRecord, packs' = [packs EXCEPT ![i] = p],
           p.scope = packs[i].scope, p.items = packs[i].items, p.by = packs[i].by,
           packs[i].archived => p.archived, packs[i].status = "ACTIVE" => p.status = "ACTIVE",
           outbox \subseteq outbox', outbox' \subseteq outbox \cup {i},
           p.status = "ACTIVE" => p.archived /\ i \in outbox' /\ Active(p.scope) \subseteq {i}
    PROVE  Grown /\ Stored' /\ DOMAIN packs' = DOMAIN packs /\ packs'[i] = p
<1>1. /\ DOMAIN packs = 1..Len(packs)
      /\ \A j \in DOMAIN packs : packs[j] \in PackRecord
  BY PackFacts DEF Stored
<1>2. packs' \in Seq(PackRecord)
  BY <1>1, ExceptSeq DEF Stored
<1>3. /\ DOMAIN packs' = DOMAIN packs /\ packs'[i] = p
      /\ \A j \in DOMAIN packs : j # i => packs'[j] = packs[j]
  OBVIOUS
<1>4. Grown
  BY <1>3 DEF Grown
<1>5. Sealed'
  <2> SUFFICES ASSUME NEW j \in DOMAIN packs'
               PROVE  /\ packs'[j].status = "ACTIVE" => packs'[j].archived /\ j \in outbox'
                      /\ packs'[j].scope = "batch" => packs'[j].status = "ACTIVE"
                      /\ packs'[j].by = "worker" /\ packs'[j].scope = "intent" =>
                            OneOfEach(packs'[j].items)
    BY DEF Sealed, OneOfEach
  <2>1. CASE j # i
    BY <1>3, <2>1 DEF Stored, Sealed
  <2>2. CASE j = i
    BY <1>3, <2>2 DEF Stored, Sealed
  <2>. QED
    BY <2>1, <2>2
<1>6. OneActive'
  <2>1. ASSUME NEW s, s # p.scope \/ p.status # "ACTIVE" PROVE Active(s)' \subseteq Active(s)
    BY <1>3, <2>1 DEF Active
  <2>2. ASSUME p.status = "ACTIVE" PROVE Active(p.scope)' \subseteq {i}
    BY <1>3, <2>2 DEF Active
  <2>. QED
    BY <2>1, <2>2 DEF Stored, OneActive
<1>. QED
  BY <1>2, <1>3, <1>4, <1>5, <1>6 DEF Stored

-----------------------------------------------------------------------------
(* The workers' steps.                                                     *)

(* A worker goes on; packs may be added.                                   *)
LEMMA WorkStep ==
    ASSUME IInv, NEW w \in Workers, NEW x \in WorkerRecord,
           worker' = [worker EXCEPT ![w] = x], Working(x)', Grown, Stored',
           UNCHANGED <<topics, handler, receipts, client, jobs, done>>,
           queue' \subseteq queue, pending' \subseteq pending, Fault \/ UNCHANGED faults
    PROVE  IInv'
<1>1. Consuming /\ Packing
  BY DEF IInv
<1>2. Consuming'
  <2>1. done' \in BOOLEAN
    BY <1>1 DEF Consuming
  <2>. QED
    BY <1>1, <2>1, ConsumingKept
<1>3. worker' \in [Workers -> WorkerRecord] /\ worker'[w] = x
      /\ \A v \in Workers \ {w} : worker'[v] = worker[v]
  BY <1>1 DEF Packing
<1>4. ASSUME NEW v \in Workers PROVE Working(worker[v])'
  <2>1. CASE v = w
    BY <1>3, <2>1 DEF Working
  <2>2. CASE v # w
    <3>1. PICK y : y = worker[v]
      OBVIOUS
    <3>2. Working(y)'
      BY <1>1, <3>1, GrownFacts DEF Packing
    <3>. QED
      BY <1>3, <2>2, <3>1, <3>2 DEF Working
  <2>. QED
    BY <2>1, <2>2
<1>5. ASSUME NEW k \in Clients PROVE Serving(client[k])'
  <2>1. PICK y : y = client[k]
    OBVIOUS
  <2>2. Serving(y)'
    BY <1>1, <2>1, GrownFacts DEF Packing
  <2>. QED
    BY <2>1, <2>2 DEF Serving
<1>. QED
  BY <1>1, <1>2, <1>3, <1>4, <1>5 DEF IInv, Packing

(* A worker goes on without touching the packs.                            *)
LEMMA WorkStepPlain ==
    ASSUME IInv, NEW w \in Workers, NEW x \in WorkerRecord,
           worker' = [worker EXCEPT ![w] = x], Working(x),
           UNCHANGED <<topics, handler, receipts, packs, outbox, jobs, client, done>>,
           queue' \subseteq queue, pending' \subseteq pending, Fault \/ UNCHANGED faults
    PROVE  IInv'
<1>1. Grown /\ Stored'
  BY PacksKept DEF IInv, Packing
<1>2. Working(x)'
  BY <1>1, GrownFacts
<1>. QED
  BY <1>1, <1>2, WorkStep

(* A worker drops its job or is done with it.                              *)
LEMMA LeaveStep ==
    ASSUME IInv, NEW w \in Workers, Leave(w),
           UNCHANGED <<topics, handler, receipts, packs, outbox, jobs, client, done>>,
           queue' \subseteq queue, pending' \subseteq pending, Fault \/ UNCHANGED faults
    PROVE  IInv'
<1>1. PICK x : x = Idle
  OBVIOUS
<1>2. x \in WorkerRecord /\ Working(x) /\ worker' = [worker EXCEPT ![w] = x]
  BY <1>1, IdleFacts DEF Leave
<1>. QED
  BY <1>2, WorkStepPlain

LEMMA WorkerFacts ==
    ASSUME IInv, NEW w \in Workers
    PROVE  worker[w] \in WorkerRecord /\ Working(worker[w])
  BY DEF IInv, Packing

LEMMA runWorkerStep ==
    ASSUME IInv, NEW w \in Workers, NEW s \in queue, runWorker(w, s)
    PROVE  IInv'
<1>1. s \in {"intent", "batch"}
  BY DEF IInv, Consuming
<1>2. PICK x : x = [step |-> "check", scope |-> s, items |-> {}]
  OBVIOUS
<1>3. x \in WorkerRecord /\ Working(x)
  BY <1>1, <1>2 DEF WorkerRecord, Working
<1>4. /\ worker' = [worker EXCEPT ![w] = x] /\ queue' \subseteq queue
      /\ UNCHANGED <<topics, handler, pending, receipts, packs, outbox, jobs, client, done, faults>>
  BY <1>2 DEF runWorker, database
<1>. QED
  BY <1>3, <1>4, WorkStepPlain

(* A scope has one buffered leaf of a type.                                *)
LEMMA LeavesFacts ==
    ASSUME Consuming, NEW s
    PROVE  /\ LeavesOf(s) \subseteq Item
           /\ \A i, j \in LeavesOf(s) : i[1] = j[1] => i = j
<1>1. \A r \in pending : r \in Row /\ r.type \in Types /\ r.event \in Events
  BY DEF Consuming, Row
<1>2. LeavesOf(s) \subseteq Item
  BY <1>1 DEF LeavesOf, Item
<1>3. ASSUME NEW i \in LeavesOf(s), NEW j \in LeavesOf(s), i[1] = j[1] PROVE i = j
  <2>1. PICK r \in pending : r.scope = s /\ i = <<r.type, r.event>>
    BY DEF LeavesOf
  <2>2. PICK q \in pending : q.scope = s /\ j = <<q.type, q.event>>
    BY DEF LeavesOf
  <2>3. r.type = q.type
    BY <1>3, <2>1, <2>2
  <2>4. r = q
    BY <2>1, <2>2, <2>3 DEF Consuming, OneOfAType
  <2>. QED
    BY <2>1, <2>2, <2>4
<1>. QED
  BY <1>2, <1>3

LEMMA processCheckJobStep ==
    ASSUME IInv, NEW w \in Workers, processCheckJob(w)
    PROVE  IInv'
<1>0. /\ UNCHANGED <<topics, handler, pending, receipts, packs, outbox, jobs, queue, client, done>>
      /\ Fault \/ UNCHANGED faults
  BY DEF processCheckJob, database
<1>1. CASE Leave(w)
  BY <1>0, <1>1, LeaveStep
<1>2. PICK s, leaves : s = worker[w].scope /\ leaves = LeavesOf(s)
  OBVIOUS
<1>3. CASE /\ Required(s) \subseteq TypesOf(leaves)
           /\ worker' = [worker EXCEPT
                ![w].step = IF s = "intent" THEN "lock" ELSE "reread",
                ![w].items = {i \in leaves : s = "intent" /\ i[1] \in Required(s)}]
  <2>1. worker[w] \in WorkerRecord /\ s \in {"intent", "batch"}
    BY <1>2, WorkerFacts DEF Working, processCheckJob
  <2>2. PICK t, items : /\ t = IF s = "intent" THEN "lock" ELSE "reread"
                        /\ items = {i \in leaves : s = "intent" /\ i[1] \in Required(s)}
    OBVIOUS
  <2>3. leaves \subseteq Item /\ \A i, j \in leaves : i[1] = j[1] => i = j
    BY <1>2, LeavesFacts DEF IInv
  <2>4. items \in SUBSET Item
    BY <2>2, <2>3
  <2>5. ASSUME s = "intent" PROVE OneOfEach(items)
    <3>1. items = {i \in leaves : i[1] \in RequiredLeafTypes}
      BY <2>2, <2>5 DEF Required
    <3>2. RequiredLeafTypes \subseteq {i[1] : i \in leaves}
      BY <1>3, <2>5 DEF Required, TypesOf
    <3>3. {i[1] : i \in items} = RequiredLeafTypes
      BY <3>1, <3>2
    <3>. QED
      BY <2>3, <3>1, <3>3 DEF OneOfEach, TypesOf
  <2>6. PICK x : x = [worker[w] EXCEPT !.step = t, !.items = items]
    OBVIOUS
  <2>7. /\ x \in WorkerRecord /\ x.scope = s /\ x.items = items
        /\ x.step = IF s = "intent" THEN "lock" ELSE "reread"
    BY <1>2, <2>1, <2>2, <2>4, <2>6 DEF WorkerRecord
  <2>8. Working(x)
    BY <2>1, <2>5, <2>7 DEF Working
  <2>9. worker' = [worker EXCEPT ![w] = x]
    BY <1>3, <2>2, <2>6
  <2>. QED
    BY <1>0, <2>7, <2>8, <2>9, WorkStepPlain
<1>. QED
  BY <1>1, <1>2, <1>3 DEF processCheckJob

LEMMA processBatchJobStep ==
    ASSUME IInv, NEW w \in Workers, processBatchJob(w)
    PROVE  IInv'
<1>0. /\ UNCHANGED <<topics, handler, pending, receipts, packs, outbox, jobs, queue, client, done>>
      /\ Fault \/ UNCHANGED faults
  BY DEF processBatchJob, database
<1>1. CASE Leave(w)
  BY <1>0, <1>1, LeaveStep
<1>2. CASE worker' = [worker EXCEPT
                ![w].step = "lock",
                ![w].items = {i \in LeavesOf("batch") : i[1] \in RequiredBatchLeafTypes}]
  <2>1. worker[w] \in WorkerRecord /\ worker[w].scope = "batch"
    BY WorkerFacts DEF Working, processBatchJob
  <2>2. PICK items : items = {i \in LeavesOf("batch") : i[1] \in RequiredBatchLeafTypes}
    OBVIOUS
  <2>3. items \in SUBSET Item
    BY <2>2, LeavesFacts DEF IInv
  <2>4. PICK x : x = [worker[w] EXCEPT !.step = "lock", !.items = items]
    OBVIOUS
  <2>5. x \in WorkerRecord /\ x.scope = "batch" /\ x.step = "lock"
    BY <2>1, <2>3, <2>4 DEF WorkerRecord
  <2>6. Working(x)
    BY <2>5 DEF Working
  <2>7. worker' = [worker EXCEPT ![w] = x]
    BY <1>2, <2>2, <2>4
  <2>. QED
    BY <1>0, <2>5, <2>6, <2>7, WorkStepPlain
<1>. QED
  BY <1>1, <1>2 DEF processBatchJob

(* A worker that has its leaves goes on to the next step of its pack.      *)
LEMMA SealingStep ==
    ASSUME IInv, NEW w \in Workers, NEW t \in {"put", "activate"}, Step(w, t),
           worker[w].step \in {"lock", "put"},
           UNCHANGED <<topics, handler, pending, receipts, packs, outbox, jobs, queue, client, done>>,
           Fault \/ UNCHANGED faults
    PROVE  IInv'
<1>1. worker[w] \in WorkerRecord /\ Working(worker[w])
  BY WorkerFacts
<1>2. PICK x : x = [worker[w] EXCEPT !.step = t]
  OBVIOUS
<1>3. x \in WorkerRecord /\ x.step = t /\ x.scope = worker[w].scope /\ x.items = worker[w].items
  BY <1>1, <1>2 DEF WorkerRecord
<1>4. Working(x)
  BY <1>1, <1>3 DEF Working
<1>5. worker' = [worker EXCEPT ![w] = x]
  BY <1>2 DEF Step
<1>. QED
  BY <1>3, <1>4, <1>5, WorkStepPlain

LEMMA AcquireAdvisoryLockStep ==
    ASSUME IInv, NEW w \in Workers, AcquireAdvisoryLock(w)
    PROVE  IInv'
<1>1. /\ worker[w].step = "lock" /\ (Fault \/ UNCHANGED faults)
      /\ UNCHANGED <<topics, handler, receipts, packs, outbox, jobs, queue, client, done>>
  BY DEF AcquireAdvisoryLock
<1>2. CASE Leave(w) /\ (UNCHANGED pending \/ DeleteLeaves(worker[w].scope))
  <2>1. pending' \subseteq pending
    BY <1>2 DEF DeleteLeaves
  <2>. QED
    BY <1>1, <1>2, <2>1, LeaveStep
<1>3. CASE Step(w, "put") /\ UNCHANGED pending
  BY <1>1, <1>3, SealingStep
<1>. QED
  BY <1>2, <1>3 DEF AcquireAdvisoryLock

LEMMA PutObjectStep ==
    ASSUME IInv, NEW w \in Workers, PutObject(w)
    PROVE  IInv'
<1>1. /\ worker[w].step = "put" /\ (Fault \/ UNCHANGED faults)
      /\ UNCHANGED <<topics, handler, pending, receipts, packs, outbox, jobs, queue, client, done>>
  BY DEF PutObject, database
<1>2. CASE Leave(w)
  BY <1>1, <1>2, LeaveStep
<1>3. CASE Step(w, "activate")
  BY <1>1, <1>3, SealingStep
<1>. QED
  BY <1>2, <1>3 DEF PutObject

(* The pack and its outbox row, and the worker that is to delete the       *)
(* leaves or does not know of the commit.                                  *)
LEMMA ActivatePackStep ==
    ASSUME IInv, NEW w \in Workers, ActivatePack(w)
    PROVE  IInv'
<1>0. /\ UNCHANGED <<topics, handler, receipts, jobs, queue, client, done>>
      /\ Fault \/ UNCHANGED faults
  BY DEF ActivatePack
<1>1. CASE /\ Leave(w) /\ UNCHANGED <<packs, outbox>>
           /\ UNCHANGED pending \/ DeleteLeaves(worker[w].scope)
  <2>1. pending' \subseteq pending
    BY <1>1 DEF DeleteLeaves
  <2>. QED
    BY <1>0, <1>1, <2>1, LeaveStep
<1>2. CASE /\ Activatable(worker[w].scope)
           /\ NewPack(worker[w].scope, worker[w].items, "worker", TRUE, "ACTIVE")
           /\ outbox' = outbox \cup {Len(packs) + 1}
           /\ Step(w, "delete") \/ Leave(w)
           /\ UNCHANGED pending
  <2>1. /\ worker[w] \in WorkerRecord /\ Working(worker[w]) /\ Stored
        /\ worker[w].step = "activate"
    BY WorkerFacts DEF ActivatePack, IInv, Packing
  <2>2. PICK s, items, n : s = worker[w].scope /\ items = worker[w].items /\ n = Len(packs) + 1
    OBVIOUS
  <2>3. s \in {"intent", "batch"} /\ items \in SUBSET Item /\ (s = "intent" => OneOfEach(items))
    BY <2>1, <2>2 DEF WorkerRecord, Working
  <2>4. PICK p : p = [scope |-> s, items |-> items, by |-> "worker", archived |-> TRUE,
                      status |-> "ACTIVE"]
    OBVIOUS
  <2>5. /\ p \in PackRecord /\ p.scope = s /\ p.items = items /\ p.status = "ACTIVE" /\ p.archived
        /\ p.by = "worker"
    BY <2>3, <2>4 DEF PackRecord
  <2>6. /\ packs' = Append(packs, p) /\ Active(p.scope) = {}
        /\ outbox \subseteq outbox' /\ outbox' \subseteq outbox \cup {n} /\ n \in outbox'
    BY <1>2, <2>2, <2>4, <2>5 DEF NewPack, Activatable
  <2>7. Grown /\ Stored' /\ DOMAIN packs' = DOMAIN packs \cup {n} /\ packs'[n] = p
    BY <2>1, <2>2, <2>3, <2>5, <2>6, PackAdded
  <2>8. n \in Active(s)'
    BY <2>5, <2>7 DEF Active
  <2>9. PICK x : x \in {Idle, [worker[w] EXCEPT !.step = "delete"]} /\ worker' = [worker EXCEPT ![w] = x]
    BY <1>2 DEF Leave, Step
  <2>10. x \in WorkerRecord /\ Working(x)'
    <3>1. CASE x = Idle
      BY <2>7, <3>1, IdleFacts, GrownFacts
    <3>2. CASE x = [worker[w] EXCEPT !.step = "delete"]
      <4>1. x \in WorkerRecord /\ x.step = "delete" /\ x.scope = s /\ x.items = items
        BY <2>1, <2>2, <3>2 DEF WorkerRecord
      <4>. QED
        BY <2>3, <2>8, <4>1 DEF Working, OneOfEach
    <3>. QED
      BY <2>9, <3>1, <3>2
  <2>. QED
    BY <1>0, <1>2, <2>7, <2>9, <2>10, WorkStep
<1>. QED
  BY <1>1, <1>2 DEF ActivatePack

LEMMA DeleteForScopeStep ==
    ASSUME IInv, NEW w \in Workers, DeleteForScope(w)
    PROVE  IInv'
<1>1. /\ Leave(w) /\ pending' \subseteq pending /\ (Fault \/ UNCHANGED faults)
      /\ UNCHANGED <<topics, handler, receipts, packs, outbox, jobs, queue, client, done>>
  BY DEF DeleteForScope, DeleteLeaves
<1>. QED
  BY <1>1, LeaveStep

-----------------------------------------------------------------------------
(* The requests' steps.                                                    *)

(* A request goes on; packs may be added or changed.                       *)
LEMMA ServeStep ==
    ASSUME IInv, NEW k \in Clients, NEW y \in ClientRecord,
           client' = [client EXCEPT ![k] = y], Serving(y)', Grown, Stored',
           jobs' \in [Clients -> {None, "PENDING", "COMPLETED", "FAILED"}],
           UNCHANGED <<topics, handler, pending, receipts, queue, worker, done>>,
           Fault \/ UNCHANGED faults
    PROVE  IInv'
<1>1. Consuming /\ Packing
  BY DEF IInv
<1>2. Consuming'
  <2>1. done' \in BOOLEAN
    BY <1>1 DEF Consuming
  <2>. QED
    BY <1>1, <2>1, ConsumingKept
<1>3. client' \in [Clients -> ClientRecord] /\ client'[k] = y
      /\ \A j \in Clients \ {k} : client'[j] = client[j]
  BY <1>1 DEF Packing
<1>4. ASSUME NEW j \in Clients PROVE Serving(client[j])'
  <2>1. CASE j = k
    BY <1>3, <2>1 DEF Serving
  <2>2. CASE j # k
    <3>1. PICK x : x = client[j]
      OBVIOUS
    <3>2. Serving(x)'
      BY <1>1, <3>1, GrownFacts DEF Packing
    <3>. QED
      BY <1>3, <2>2, <3>1, <3>2 DEF Serving
  <2>. QED
    BY <2>1, <2>2
<1>5. ASSUME NEW v \in Workers PROVE Working(worker[v])'
  <2>1. PICK x : x = worker[v]
    OBVIOUS
  <2>2. Working(x)'
    BY <1>1, <2>1, GrownFacts DEF Packing
  <2>. QED
    BY <2>1, <2>2 DEF Working
<1>. QED
  BY <1>1, <1>2, <1>3, <1>4, <1>5 DEF IInv, Packing

(* A request ends, with its job.                                           *)
LEMMA AnswerStep ==
    ASSUME IInv, NEW k \in Clients, NEW ok, Answer(k, ok), Grown, Stored',
           UNCHANGED <<topics, handler, pending, receipts, queue, worker, done>>,
           Fault \/ UNCHANGED faults
    PROVE  IInv'
<1>1. PICK y : y = NoRequest
  OBVIOUS
<1>2. y \in ClientRecord /\ Serving(y)' /\ client' = [client EXCEPT ![k] = y]
  BY <1>1, IdleFacts, GrownFacts DEF Answer
<1>3. jobs' \in [Clients -> {None, "PENDING", "COMPLETED", "FAILED"}]
  BY DEF Answer, IInv, Packing
<1>. QED
  BY <1>2, <1>3, ServeStep

LEMMA ClientFacts ==
    ASSUME IInv, NEW k \in Clients
    PROVE  client[k] \in ClientRecord /\ Serving(client[k]) /\ Stored
  BY DEF IInv, Packing

LEMMA AdminRecoverStep ==
    ASSUME IInv, NEW k \in Clients, AdminRecover(k)
    PROVE  IInv'
<1>1. PICK y : y = [step |-> "draft", items |-> LeavesOf("intent"), old |-> 0, draft |-> 0]
  OBVIOUS
<1>2. LeavesOf("intent") \in SUBSET Item
  BY LeavesFacts DEF IInv
<1>3. y \in ClientRecord /\ Serving(y)
  BY <1>1, <1>2 DEF ClientRecord, Serving
<1>4. /\ client' = [client EXCEPT ![k] = y]
      /\ UNCHANGED <<topics, handler, pending, receipts, packs, outbox, jobs, queue, worker, done, faults>>
  BY <1>1 DEF AdminRecover, database
<1>5. Grown /\ Stored' /\ jobs' \in [Clients -> {None, "PENDING", "COMPLETED", "FAILED"}]
  BY <1>4, PacksKept DEF IInv, Packing
<1>6. Serving(y)'
  BY <1>3, <1>5, GrownFacts
<1>. QED
  BY <1>3, <1>4, <1>5, <1>6, ServeStep

LEMMA ReplayPackStep ==
    ASSUME IInv, NEW k \in Clients, NEW i \in DOMAIN packs, ReplayPack(k, i)
    PROVE  IInv'
<1>1. Stored /\ packs[i] \in PackRecord /\ i \in Nat
  BY PackFacts DEF IInv, Packing, Stored
<1>2. PICK y : y = [step |-> "draft", items |-> packs[i].items, old |-> i, draft |-> 0]
  OBVIOUS
<1>3. y \in ClientRecord /\ Serving(y)
  BY <1>1, <1>2 DEF ClientRecord, PackRecord, Serving, ReplayPack
<1>4. /\ client' = [client EXCEPT ![k] = y]
      /\ UNCHANGED <<topics, handler, pending, receipts, packs, outbox, queue, worker, done, faults>>
  BY <1>2 DEF ReplayPack
<1>5. Grown /\ Stored'
  BY <1>1, <1>4, PacksKept
<1>6. jobs' \in [Clients -> {None, "PENDING", "COMPLETED", "FAILED"}]
  BY DEF ReplayPack, IInv, Packing
<1>7. Serving(y)'
  BY <1>3, <1>5, GrownFacts
<1>. QED
  BY <1>3, <1>4, <1>5, <1>6, <1>7, ServeStep

LEMMA SavePackDraftStep ==
    ASSUME IInv, NEW k \in Clients, SavePackDraft(k)
    PROVE  IInv'
<1>0. /\ UNCHANGED <<topics, handler, pending, receipts, outbox, queue, worker, done>>
      /\ Fault \/ UNCHANGED faults
      /\ client[k] \in ClientRecord /\ Serving(client[k]) /\ Stored
  BY ClientFacts DEF SavePackDraft
<1>1. CASE Answer(k, FALSE) /\ UNCHANGED packs
  <2>1. Grown /\ Stored'
    BY <1>0, <1>1, PacksKept
  <2>. QED
    BY <1>0, <1>1, <2>1, AnswerStep
<1>2. CASE /\ NewPack("intent", client[k].items, "client", FALSE, "DRAFT")
           /\ client' = [client EXCEPT ![k].step = "put", ![k].draft = Len(packs) + 1]
           /\ UNCHANGED <<faults, jobs>>
  <2>1. PICK n, items : n = Len(packs) + 1 /\ items = client[k].items
    OBVIOUS
  <2>2. items \in SUBSET Item /\ client[k].old \in Nat
    BY <1>0, <2>1 DEF ClientRecord
  <2>3. PICK p : p = [scope |-> "intent", items |-> items, by |-> "client", archived |-> FALSE,
                      status |-> "DRAFT"]
    OBVIOUS
  <2>4. p \in PackRecord /\ p.scope = "intent" /\ p.status = "DRAFT" /\ p.by = "client"
    BY <2>2, <2>3 DEF PackRecord
  <2>5. packs' = Append(packs, p)
    BY <1>2, <2>1, <2>3 DEF NewPack
  <2>6. outbox \subseteq outbox' /\ outbox' \subseteq outbox \cup {n}
    BY <1>0
  <2>7. /\ Grown /\ Stored' /\ DOMAIN packs' = DOMAIN packs \cup {n} /\ packs'[n] = p
        /\ n \in Nat /\ \A i \in DOMAIN packs : i \in Nat /\ i < n
    BY <1>0, <2>1, <2>4, <2>5, <2>6, PackAdded
  <2>8. 0 < n
    <3>1. Len(packs) \in Nat
      BY <1>0, PackFacts DEF Stored
    <3>. QED
      BY <2>1, <3>1
  <2>9. PICK y : y = [client[k] EXCEPT !.step = "put", !.draft = n]
    OBVIOUS
  <2>10. y \in ClientRecord /\ y.step = "put" /\ y.draft = n /\ y.old = client[k].old
    BY <1>0, <2>7, <2>9 DEF ClientRecord
  <2>11. y.old # 0 => y.old \in DOMAIN packs' /\ packs'[y.old].scope = "intent"
    BY <1>0, <2>7, <2>10 DEF Serving, Grown
  <2>12. y.old < n
    BY <1>0, <2>2, <2>7, <2>8, <2>10 DEF Serving
  <2>13. Serving(y)'
    BY <2>4, <2>7, <2>10, <2>11, <2>12 DEF Serving
  <2>14. client' = [client EXCEPT ![k] = y]
    BY <1>2, <2>1, <2>9
  <2>15. jobs' \in [Clients -> {None, "PENDING", "COMPLETED", "FAILED"}]
    BY <1>2 DEF IInv, Packing
  <2>. QED
    BY <1>0, <2>7, <2>10, <2>13, <2>14, <2>15, ServeStep
<1>. QED
  BY <1>1, <1>2 DEF SavePackDraft

LEMMA PutArchiveStep ==
    ASSUME IInv, NEW k \in Clients, PutArchive(k)
    PROVE  IInv'
<1>0. /\ UNCHANGED <<topics, handler, pending, receipts, outbox, queue, worker, done>>
      /\ Fault \/ UNCHANGED faults
      /\ client[k] \in ClientRecord /\ Serving(client[k]) /\ Stored /\ client[k].step = "put"
  BY ClientFacts DEF PutArchive
<1>1. CASE Answer(k, FALSE) /\ UNCHANGED packs
  <2>1. Grown /\ Stored'
    BY <1>0, <1>1, PacksKept
  <2>. QED
    BY <1>0, <1>1, <2>1, AnswerStep
<1>2. CASE /\ packs' = [packs EXCEPT ![client[k].draft].archived = TRUE]
           /\ client' = [client EXCEPT ![k].step = "activate"]
           /\ UNCHANGED <<faults, jobs>>
  <2>1. PICK i : i = client[k].draft
    OBVIOUS
  <2>2. i \in DOMAIN packs /\ packs[i].scope = "intent" /\ client[k].old < i /\ packs[i] \in PackRecord
    BY <1>0, <2>1, PackFacts DEF Serving, Stored
  <2>3. PICK p : p = [packs[i] EXCEPT !.archived = TRUE]
    OBVIOUS
  <2>4. /\ p \in PackRecord /\ p.scope = packs[i].scope /\ p.items = packs[i].items
        /\ p.by = packs[i].by /\ p.status = packs[i].status /\ p.archived
    BY <2>2, <2>3 DEF PackRecord
  <2>5. packs' = [packs EXCEPT ![i] = p]
    BY <1>2, <2>1, <2>3
  <2>6. p.status = "ACTIVE" => i \in outbox' /\ Active(p.scope) \subseteq {i}
    BY <1>0, <2>2, <2>4 DEF Stored, Sealed, OneActive, Active
  <2>7. outbox \subseteq outbox' /\ outbox' \subseteq outbox \cup {i}
    BY <1>0
  <2>8. Grown /\ Stored' /\ DOMAIN packs' = DOMAIN packs /\ packs'[i] = p
    BY <1>0, <2>2, <2>4, <2>5, <2>6, <2>7, PackChanged
  <2>9. PICK y : y = [client[k] EXCEPT !.step = "activate"]
    OBVIOUS
  <2>10. y \in ClientRecord /\ y.step = "activate" /\ y.draft = i /\ y.old = client[k].old
    BY <1>0, <2>1, <2>9 DEF ClientRecord
  <2>11. y.old # 0 => y.old \in DOMAIN packs' /\ packs'[y.old].scope = "intent"
    BY <1>0, <2>8, <2>10 DEF Serving, Grown
  <2>12. Serving(y)'
    BY <2>2, <2>4, <2>8, <2>10, <2>11 DEF Serving
  <2>13. client' = [client EXCEPT ![k] = y]
    BY <1>2, <2>9
  <2>14. jobs' \in [Clients -> {None, "PENDING", "COMPLETED", "FAILED"}]
    BY <1>2 DEF IInv, Packing
  <2>. QED
    BY <1>0, <2>8, <2>10, <2>12, <2>13, <2>14, ServeStep
<1>. QED
  BY <1>1, <1>2 DEF PutArchive

(* The index refuses the draft as long as another pack is ACTIVE.          *)
LEMMA ActivateDraftStep ==
    ASSUME IInv, NEW k \in Clients, ActivateDraft(k)
    PROVE  IInv'
<1>0. /\ UNCHANGED <<topics, handler, pending, receipts, queue, worker, done>>
      /\ Fault \/ UNCHANGED faults
      /\ client[k] \in ClientRecord /\ Serving(client[k]) /\ Stored /\ client[k].step = "activate"
  BY ClientFacts DEF ActivateDraft
<1>1. CASE Answer(k, FALSE) /\ UNCHANGED <<packs, outbox>>
  <2>1. Grown /\ Stored'
    BY <1>0, <1>1, PacksKept
  <2>. QED
    BY <1>0, <1>1, <2>1, AnswerStep
<1>2. CASE /\ Activatable("intent")
           /\ packs' = [packs EXCEPT ![client[k].draft].status = "ACTIVE"]
           /\ outbox' = outbox \cup {client[k].draft}
           /\ \/ /\ client[k].old = 0 /\ Answer(k, TRUE)
              \/ /\ client[k].old # 0 /\ UNCHANGED jobs
                 /\ client' = [client EXCEPT ![k].step = "supersede"]
  <2>1. PICK i : i = client[k].draft
    OBVIOUS
  <2>2. /\ i \in DOMAIN packs /\ packs[i].scope = "intent" /\ client[k].old < i
        /\ packs[i] \in PackRecord /\ packs[i].archived
    BY <1>0, <2>1, PackFacts DEF Serving, Stored
  <2>3. PICK p : p = [packs[i] EXCEPT !.status = "ACTIVE"]
    OBVIOUS
  <2>4. /\ p \in PackRecord /\ p.scope = packs[i].scope /\ p.items = packs[i].items
        /\ p.by = packs[i].by /\ p.status = "ACTIVE" /\ p.archived
    BY <2>2, <2>3 DEF PackRecord
  <2>5. packs' = [packs EXCEPT ![i] = p]
    BY <1>2, <2>1, <2>3
  <2>6. i \in outbox' /\ Active(p.scope) \subseteq {i}
    BY <1>2, <2>1, <2>2, <2>4 DEF Activatable
  <2>7. outbox \subseteq outbox' /\ outbox' \subseteq outbox \cup {i}
    BY <1>2, <2>1
  <2>8. Grown /\ Stored' /\ DOMAIN packs' = DOMAIN packs /\ packs'[i] = p
    BY <1>0, <2>2, <2>4, <2>5, <2>6, <2>7, PackChanged
  <2>9. CASE Answer(k, TRUE)
    BY <1>0, <2>8, <2>9, AnswerStep
  <2>10. CASE /\ client[k].old # 0 /\ UNCHANGED jobs
              /\ client' = [client EXCEPT ![k].step = "supersede"]
    <3>1. PICK y : y = [client[k] EXCEPT !.step = "supersede"]
      OBVIOUS
    <3>2. y \in ClientRecord /\ y.step = "supersede" /\ y.draft = i /\ y.old = client[k].old
      BY <1>0, <2>1, <3>1 DEF ClientRecord
    <3>3. y.old # 0 => y.old \in DOMAIN packs' /\ packs'[y.old].scope = "intent"
      BY <1>0, <2>8, <3>2 DEF Serving, Grown
    <3>4. Serving(y)'
      BY <2>2, <2>4, <2>8, <2>10, <3>2, <3>3 DEF Serving
    <3>5. client' = [client EXCEPT ![k] = y]
      BY <2>10, <3>1
    <3>6. jobs' \in [Clients -> {None, "PENDING", "COMPLETED", "FAILED"}]
      BY <2>10 DEF IInv, Packing
    <3>. QED
      BY <1>0, <2>8, <3>2, <3>4, <3>5, <3>6, ServeStep
  <2>. QED
    BY <1>2, <2>9, <2>10
<1>. QED
  BY <1>1, <1>2 DEF ActivateDraft

(* The pack that is replaced is not the ACTIVE one.                        *)
LEMMA MarkPackSupersededStep ==
    ASSUME IInv, NEW k \in Clients, MarkPackSuperseded(k)
    PROVE  IInv'
<1>0. /\ UNCHANGED <<topics, handler, pending, receipts, outbox, queue, worker, done>>
      /\ Fault \/ UNCHANGED faults
      /\ client[k] \in ClientRecord /\ Serving(client[k]) /\ Stored /\ client[k].step = "supersede"
  BY ClientFacts DEF MarkPackSuperseded
<1>1. CASE Answer(k, FALSE) /\ UNCHANGED packs
  <2>1. Grown /\ Stored'
    BY <1>0, <1>1, PacksKept
  <2>. QED
    BY <1>0, <1>1, <2>1, AnswerStep
<1>2. CASE /\ packs' = [packs EXCEPT ![client[k].old].status = "SUPERSEDED"]
           /\ Answer(k, TRUE)
  <2>1. PICK i, j : i = client[k].old /\ j = client[k].draft
    OBVIOUS
  <2>2. /\ i \in DOMAIN packs /\ packs[i].scope = "intent" /\ packs[i] \in PackRecord
        /\ j \in DOMAIN packs /\ packs[j].scope = "intent" /\ packs[j].status = "ACTIVE" /\ i < j
        /\ i \in Nat /\ j \in Nat
    BY <1>0, <2>1, PackFacts DEF Serving, Stored
  <2>3. i # j
    BY <2>2
  <2>4. packs[i].status # "ACTIVE"
    BY <1>0, <2>2, <2>3 DEF Stored, OneActive, Active
  <2>5. PICK p : p = [packs[i] EXCEPT !.status = "SUPERSEDED"]
    OBVIOUS
  <2>6. /\ p \in PackRecord /\ p.scope = packs[i].scope /\ p.items = packs[i].items
        /\ p.by = packs[i].by /\ p.status = "SUPERSEDED" /\ p.archived = packs[i].archived
    BY <2>2, <2>5 DEF PackRecord
  <2>7. packs' = [packs EXCEPT ![i] = p]
    BY <1>2, <2>1, <2>5
  <2>8. outbox \subseteq outbox' /\ outbox' \subseteq outbox \cup {i}
    BY <1>0
  <2>9. Grown /\ Stored'
    BY <1>0, <2>2, <2>4, <2>6, <2>7, <2>8, PackChanged
  <2>. QED
    BY <1>0, <1>2, <2>9, AnswerStep
<1>. QED
  BY <1>1, <1>2 DEF MarkPackSuperseded

-----------------------------------------------------------------------------
(* The process.                                                            *)

LEMMA PrepareShutdownStep ==
    ASSUME IInv, PrepareShutdown
    PROVE  IInv'
<1>1. /\ UNCHANGED <<topics, handler, pending, receipts, packs, outbox, jobs, queue, worker, client>>
      /\ done' \in BOOLEAN /\ Fault
  BY DEF PrepareShutdown, database
<1>2. queue' \subseteq queue /\ pending' \subseteq pending
  BY <1>1
<1>. QED
  BY <1>1, <1>2, ConsumingKept, PackingKept DEF IInv

(* The messages that are not marked come again; what is stored stays.      *)
LEMMA StartStep ==
    ASSUME IInv, Start, Fault \/ UNCHANGED faults
    PROVE  IInv'
<1>1. Consuming /\ Packing
  BY DEF IInv
<1>2. UNCHANGED <<world, marked, pending, receipts, packs, outbox, jobs>>
  BY DEF Start, database
<1>3. faults' \in 0..world'.faults
  BY <1>1, <1>2, FaultFacts
<1>4. /\ handler' \in [Consumers -> HandlerRecord]
      /\ \A c \in Consumers : Handling(c, handler[c])'
  <2>1. handler' = [c \in Consumers |-> Waiting]
    BY DEF Start
  <2>2. \A c \in Consumers : handler'[c].step = "idle"
    BY <2>1, WaitingFacts
  <2>. QED
    BY <2>1, <2>2, WaitingFacts DEF Handling
<1>5. /\ position' \in [Consumers -> Nat] /\ marked' \in [Consumers -> Nat]
      /\ \A c \in Consumers :
            1 <= marked'[c] /\ marked'[c] <= position'[c] /\ position'[c] <= Len(world'.log[c]) + 1
  <2>1. \A c \in Consumers : Len(world.log[c]) \in Nat
    BY <1>1, LogFacts
  <2>. QED
    BY <1>1, <1>2, <2>1 DEF Start, Consuming
<1>6. OneOfAType'
  BY <1>1, <1>2 DEF Consuming, OneOfAType
<1>7. Consuming'
  <2>1. done' \in BOOLEAN /\ queue' \subseteq {"intent", "batch"}
    BY DEF Start
  <2>2. /\ world' \in Worlds /\ pending' \subseteq Row
        /\ receipts' \subseteq Events \X Types \X Scopes \X {"ACCEPTED", "DUPLICATE", "CONFLICT"}
    BY <1>1, <1>2 DEF Consuming
  <2>. QED
    BY <1>3, <1>4, <1>5, <1>6, <2>1, <2>2 DEF Consuming
<1>8. Grown /\ Stored'
  BY <1>1, <1>2, PacksKept DEF Packing
<1>9. worker' \in [Workers -> WorkerRecord] /\ \A w \in Workers : Working(worker[w])'
  <2>1. PICK x : x = Idle
    OBVIOUS
  <2>2. x \in WorkerRecord /\ Working(x)' /\ worker' = [w \in Workers |-> x]
    BY <1>8, <2>1, IdleFacts, GrownFacts DEF Start
  <2>. QED
    BY <2>2 DEF Working
<1>10. client' \in [Clients -> ClientRecord] /\ \A k \in Clients : Serving(client[k])'
  <2>1. PICK y : y = NoRequest
    OBVIOUS
  <2>2. y \in ClientRecord /\ Serving(y)' /\ client' = [k \in Clients |-> y]
    BY <1>8, <2>1, IdleFacts, GrownFacts DEF Start
  <2>. QED
    BY <2>2 DEF Serving
<1>. QED
  BY <1>1, <1>2, <1>7, <1>8, <1>9, <1>10 DEF IInv, Packing

LEMMA RunningFacts ==
    ASSUME IInv
    PROVE  world.workers \subseteq Workers /\ world.clients \subseteq Clients
  BY EvidenceAssumption DEF IInv, Consuming

LEMMA ConsumeStep ==
    ASSUME IInv, NEW c \in Consumers, Consume(c)
    PROVE  IInv'
  BY ConsumeClaimStep, ResolveIntentIDStep, LinkEnvelopeToIntentStep, WriteReceiptStep,
     UpsertLeafStep, EnqueueChecksStep DEF Consume

LEMMA WorkerStep ==
    ASSUME IInv, NEW w \in Workers, Work(w)
    PROVE  IInv'
  BY runWorkerStep, processCheckJobStep, processBatchJobStep, AcquireAdvisoryLockStep,
     PutObjectStep, ActivatePackStep, DeleteForScopeStep DEF Work

LEMMA ClientStep ==
    ASSUME IInv, NEW k \in Clients, Serve(k)
    PROVE  IInv'
  BY AdminRecoverStep, ReplayPackStep, SavePackDraftStep, PutArchiveStep, ActivateDraftStep,
     MarkPackSupersededStep DEF Serve

LEMMA IInvStep == IInv /\ [Next]_vars => IInv'
<1> SUFFICES ASSUME IInv, [Next]_vars PROVE IInv'
  OBVIOUS
<1>1. ASSUME NEW c \in Consumers, Consume(c) PROVE IInv'
  BY <1>1, ConsumeStep
<1>2. ASSUME NEW w \in world.workers, Work(w) PROVE IInv'
  BY <1>2, RunningFacts, WorkerStep
<1>3. ASSUME NEW k \in world.clients, Serve(k) PROVE IInv'
  BY <1>3, RunningFacts, ClientStep
<1>4. CASE PrepareShutdown
  BY <1>4, PrepareShutdownStep
<1>5. CASE Restart
  BY <1>5, StartStep DEF Restart
<1>6. CASE Crash
  BY <1>6, StartStep DEF Crash
<1>7. CASE UNCHANGED vars
  <2>1. UNCHANGED <<topics, handler, pending, receipts, packs, outbox, jobs, queue, worker, client,
                    done, faults>>
    BY <1>7 DEF vars, database
  <2>2. done' \in BOOLEAN /\ queue' \subseteq queue /\ pending' \subseteq pending
    BY <2>1 DEF IInv, Consuming
  <2>. QED
    BY <2>1, <2>2, ConsumingKept, PackingKept DEF IInv
<1>. QED
  BY <1>1, <1>2, <1>3, <1>4, <1>5, <1>6, <1>7 DEF Next

(* The inductive invariant holds in every reachable state.                 *)
THEOREM Invariance == Spec => []IInv
<1>1. Init => IInv
  BY IInvInit
<1>2. IInv /\ [Next]_vars => IInv'
  BY IInvStep
<1>. QED
  BY <1>1, <1>2, PTL DEF Spec

-----------------------------------------------------------------------------
(* Type correctness: a consumer never marks beyond the message in hand, a  *)
(* scope has at most one buffered leaf of a type, although leaves of the   *)
(* envelope and of the batch become leaves of the intent, and the outbox   *)
(* names packs that exist (topic offsets, pending_leaf_candidates,         *)
(* evidence_outbox_events).                                                *)
THEOREM TypeCorrect == Spec => []TypeOK
<1>1. IInv => TypeOK
  <2> SUFFICES ASSUME IInv PROVE TypeOK
    OBVIOUS
  <2>1. Consuming /\ Packing /\ Stored
    BY DEF IInv, Packing
  <2>2. ASSUME NEW c \in Consumers
        PROVE  marked[c] <= position[c] /\ position[c] \in 1..Len(world.log[c]) + 1
    <3>1. Len(world.log[c]) \in Nat
      BY <2>1, LogFacts
    <3>. QED
      BY <2>1, <3>1 DEF Consuming
  <2>3. \A c \in Consumers :
           handler[c].step \in {"idle", "resolve", "link", "receipt", "upsert", "enqueue"}
    BY <2>1 DEF Consuming, HandlerRecord
  <2>4. \A r, s \in pending : r.scope = s.scope /\ r.type = s.type => r = s
    BY <2>1 DEF Consuming, OneOfAType
  <2>5. \A i \in DOMAIN packs : packs[i] \in PackRecord
    BY <2>1, PackFacts DEF Stored
  <2>6. outbox \subseteq DOMAIN packs
    BY <2>1 DEF Stored
  <2>7. /\ world \in Worlds /\ pending \subseteq Row /\ queue \subseteq {"intent", "batch"}
        /\ receipts \subseteq Events \X Types \X Scopes \X {"ACCEPTED", "DUPLICATE", "CONFLICT"}
        /\ done \in BOOLEAN /\ faults \in 0..world.faults
    BY <2>1 DEF Consuming
  <2>8. /\ worker \in [Workers -> WorkerRecord] /\ client \in [Clients -> ClientRecord]
        /\ jobs \in [Clients -> {None, "PENDING", "COMPLETED", "FAILED"}]
    BY <2>1 DEF Packing
  <2>. QED
    BY <2>2, <2>3, <2>4, <2>5, <2>6, <2>7, <2>8 DEF TypeOK, WorkerRecord, ClientRecord, PackRecord
<1>. QED
  BY <1>1, Invariance, PTL

(* A set of items with one of each required type has as many items as      *)
(* there are required types.                                               *)
LEMMA OneOfEachCardinality ==
    ASSUME NEW items, OneOfEach(items)
    PROVE  Cardinality(items) = Cardinality(RequiredLeafTypes)
<1>1. PICK f : f = [i \in items |-> i[1]]
  OBVIOUS
<1>2. RequiredLeafTypes = {i[1] : i \in items} /\ \A i, j \in items : i[1] = j[1] => i = j
  BY DEF OneOfEach, TypesOf
<1>3. f \in [items -> RequiredLeafTypes] /\ \A i \in items : f[i] = i[1]
  BY <1>1, <1>2
<1>4. f \in Injection(items, RequiredLeafTypes)
  BY <1>2, <1>3 DEF Injection, IsInjective
<1>5. f \in Surjection(items, RequiredLeafTypes)
  BY <1>2, <1>3 DEF Surjection
<1>6. IsFiniteSet(RequiredLeafTypes)
  BY EvidenceAssumption
<1>. QED
  BY <1>4, <1>5, <1>6, FS_Injection

(* A sealed pack is whole, for any number of workers and requests and any  *)
(* failures: an ACTIVE pack is archived and announced, an intent and a     *)
(* batch have at most one, and a worker's intent pack holds one leaf of    *)
(* every required type (AcquireAdvisoryLock, ActivatePackInTx, the unique  *)
(* indexes of evidence_packs, MarkPackSuperseded).                         *)
THEOREM SealedPacksAreWhole == Spec => []SealedIsWhole
<1>1. IInv => SealedIsWhole
  <2> SUFFICES ASSUME IInv PROVE SealedIsWhole
    OBVIOUS
  <2>1. Sealed /\ OneActive
    BY DEF IInv, Packing, Stored
  <2>2. ASSUME NEW s \in {"intent", "batch"} PROVE Cardinality(Active(s)) <= 1
    <3>1. CASE Active(s) = {}
      BY <3>1, FS_EmptySet
    <3>2. CASE Active(s) # {}
      <4>1. PICK i : i \in Active(s)
        BY <3>2
      <4>2. Active(s) = {i}
        BY <2>1, <4>1 DEF OneActive
      <4>3. Cardinality(Active(s)) = 1
        BY <4>2, FS_Singleton
      <4>. QED
        BY <4>3
    <3>. QED
      BY <3>1, <3>2
  <2>3. \A i \in DOMAIN packs : packs[i].by = "worker" /\ packs[i].scope = "intent" =>
           /\ TypesOf(packs[i].items) = RequiredLeafTypes
           /\ Cardinality(packs[i].items) = Cardinality(RequiredLeafTypes)
    BY <2>1, OneOfEachCardinality DEF Sealed, OneOfEach
  <2>4. \A i \in DOMAIN packs : packs[i].status = "ACTIVE" => packs[i].archived /\ i \in outbox
    BY <2>1 DEF Sealed
  <2>. QED
    BY <2>2, <2>3, <2>4 DEF SealedIsWhole
<1>. QED
  BY <1>1, Invariance, PTL

-----------------------------------------------------------------------------
(* What a step may do to the buffered leaves.                              *)
Kept ==
    \A r \in pending :
        \/ \E s \in pending' : s.type = r.type /\ s.scope \in {r.scope, "intent"}
        \/ r.scope # "envelope" /\ Active(r.scope) # {}

(* A worker that deletes the leaves of a sealed scope.                     *)
LEMMA DeletedKept ==
    ASSUME IInv, NEW s \in {"intent", "batch"}, Active(s) # {},
           UNCHANGED pending \/ DeleteLeaves(s)
    PROVE  Kept
<1>1. ASSUME NEW r \in pending, r \notin pending' PROVE r.scope = s
  BY <1>1 DEF DeleteLeaves
<1>. QED
  BY <1>1 DEF Kept

LEMMA LinkEnvelopeToIntentKept ==
    ASSUME IInv, NEW c \in Consumers, LinkEnvelopeToIntent(c)
    PROVE  Kept
<1>1. PICK rows : rows = {r \in pending : r.envelope /\ r.scope # "intent"}
  OBVIOUS
<1>2. CASE UNCHANGED pending
  BY <1>2 DEF Kept
<1>3. CASE pending' = (pending \ rows) \cup {[r EXCEPT !.scope = "intent"] : r \in rows}
  <2>1. ASSUME NEW r \in pending
        PROVE  \E s \in pending' : s.type = r.type /\ s.scope \in {r.scope, "intent"}
    <3>1. CASE r \notin rows
      BY <1>3, <3>1
    <3>2. CASE r \in rows
      <4>1. PICK s : s = [r EXCEPT !.scope = "intent"]
        OBVIOUS
      <4>2. r \in Row
        BY DEF IInv, Consuming
      <4>3. s.type = r.type /\ s.scope = "intent"
        BY <4>1, <4>2 DEF Row
      <4>4. s \in pending'
        BY <1>3, <3>2, <4>1
      <4>. QED
        BY <4>3, <4>4
    <3>. QED
      BY <3>1, <3>2
  <2>. QED
    BY <2>1 DEF Kept
<1>. QED
  BY <1>1, <1>2, <1>3 DEF LinkEnvelopeToIntent

LEMMA UpsertLeafKept ==
    ASSUME IInv, NEW c \in Consumers, UpsertLeaf(c)
    PROVE  Kept
<1>1. CASE UNCHANGED pending
  BY <1>1 DEF Kept
<1>2. CASE pending' = UpsertedLeaf(c)
  <2>1. ASSUME NEW r \in pending
        PROVE  \E s \in pending' : s.type = r.type /\ s.scope \in {r.scope, "intent"}
    <3>1. CASE Same(c) = {} \/ r \notin Same(c)
      <4>1. r \in pending'
        BY <1>2, <3>1 DEF UpsertedLeaf, InsertLeaf
      <4>. QED
        BY <4>1
    <3>2. CASE Same(c) # {} /\ r \in Same(c)
      <4>1. PICK s : s = [r EXCEPT !.event = handler[c].event]
        OBVIOUS
      <4>2. r \in Row
        BY DEF IInv, Consuming
      <4>3. s.type = r.type /\ s.scope = r.scope
        BY <4>1, <4>2 DEF Row
      <4>4. s \in pending'
        BY <1>2, <3>2, <4>1 DEF UpsertedLeaf
      <4>. QED
        BY <4>3, <4>4
    <3>. QED
      BY <3>1, <3>2
  <2>. QED
    BY <2>1 DEF Kept
<1>. QED
  BY <1>1, <1>2 DEF UpsertLeaf

(* The workers delete leaves in three places, each after a pack was seen   *)
(* or made.                                                                *)
LEMMA WorkKept ==
    ASSUME IInv, NEW w \in Workers, Work(w)
    PROVE  Kept
<1>1. /\ worker[w] \in WorkerRecord /\ Working(worker[w]) /\ Sealed
  BY WorkerFacts DEF IInv, Packing, Stored
<1>2. CASE UNCHANGED pending
  BY <1>2 DEF Kept
<1>3. PICK s : s = worker[w].scope
  OBVIOUS
<1>4. ASSUME worker[w].step # "idle", Active(s) # {}, UNCHANGED pending \/ DeleteLeaves(s) PROVE Kept
  <2>1. s \in {"intent", "batch"}
    BY <1>1, <1>3, <1>4 DEF Working
  <2>. QED
    BY <1>4, <2>1, DeletedKept
<1>5. CASE AcquireAdvisoryLock(w)
  <2>1. CASE /\ IF s = "intent" THEN Active(s) # {} ELSE \E i \in DOMAIN packs : packs[i].scope = s
             /\ DeleteLeaves(s)
    <3>1. worker[w].step = "lock" /\ s \in {"intent", "batch"}
      BY <1>1, <1>3, <1>5 DEF AcquireAdvisoryLock, Working
    <3>2. Active(s) # {}
      BY <1>1, <2>1, <3>1 DEF Sealed, Active
    <3>. QED
      BY <1>4, <2>1, <3>1, <3>2
  <2>. QED
    BY <1>2, <1>3, <1>5, <2>1 DEF AcquireAdvisoryLock
<1>6. CASE ActivatePack(w)
  <2>1. CASE ~Activatable(s) /\ DeleteLeaves(s)
    BY <1>4, <1>6, <2>1 DEF ActivatePack, Activatable
  <2>. QED
    BY <1>2, <1>3, <1>6, <2>1 DEF ActivatePack
<1>7. CASE DeleteForScope(w)
  <2>1. worker[w].step = "delete" /\ Active(s) # {}
    BY <1>1, <1>3, <1>7 DEF DeleteForScope, Working
  <2>. QED
    BY <1>2, <1>3, <1>4, <1>7, <2>1 DEF DeleteForScope
<1>8. CASE processCheckJob(w) \/ processBatchJob(w) \/ PutObject(w) \/ \E q \in queue : runWorker(w, q)
  BY <1>2, <1>8 DEF processCheckJob, processBatchJob, PutObject, runWorker, database
<1>. QED
  BY <1>5, <1>6, <1>7, <1>8 DEF Work

(* Everything else leaves the buffer alone.                                *)
LEMMA KeptStep == IInv /\ [Next]_vars => Kept
<1> SUFFICES ASSUME IInv, [Next]_vars PROVE Kept
  OBVIOUS
<1>1. CASE UNCHANGED pending
  BY <1>1 DEF Kept
<1>2. ASSUME NEW c \in Consumers, Consume(c) PROVE Kept
  <2>1. CASE ConsumeClaim(c) \/ ResolveIntentID(c) \/ WriteReceipt(c) \/ EnqueueChecks(c)
    BY <1>1, <2>1 DEF ConsumeClaim, ResolveIntentID, WriteReceipt, EnqueueChecks, database
  <2>. QED
    BY <1>2, <2>1, LinkEnvelopeToIntentKept, UpsertLeafKept DEF Consume
<1>3. ASSUME NEW w \in world.workers, Work(w) PROVE Kept
  BY <1>3, RunningFacts, WorkKept
<1>4. ASSUME NEW k \in world.clients, Serve(k) PROVE Kept
  BY <1>1, <1>4 DEF Serve, AdminRecover, SavePackDraft, PutArchive, ActivateDraft,
     MarkPackSuperseded, ReplayPack, database
<1>5. CASE PrepareShutdown \/ Restart \/ Crash
  BY <1>1, <1>5 DEF PrepareShutdown, Restart, Crash, Start, database
<1>6. CASE UNCHANGED vars
  BY <1>1, <1>6 DEF vars, database
<1>. QED
  BY <1>2, <1>3, <1>4, <1>5, <1>6 DEF Next

(* No step loses a buffered leaf of a payout or batch that has no ACTIVE   *)
(* pack: not a link that meets another leaf, not an upsert, not one of     *)
(* the three deletes of racing workers (LinkEnvelopeToIntent, UpsertLeaf,  *)
(* DeleteForIntent, DeleteForBatch).                                       *)
THEOREM LeavesStay == Spec => LeavesAreKept
<1>1. IInv /\ [Next]_vars => [Kept]_vars
  BY KeptStep
<1>. QED
  BY <1>1, Invariance, PTL DEF Spec, LeavesAreKept, Kept
=============================================================================
