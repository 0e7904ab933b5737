------------------------------ MODULE Evidence ------------------------------
(***************************************************************************)
(* Evidence packs (backend/evidence): leaves of a payout and of its batch  *)
(* arrive on several topics in any order, are buffered, and a pack is      *)
(* sealed when the last required one is there.                             *)
(*                                                                         *)
(* One payout, its envelope and its batch.  A buffered leaf belongs to the *)
(* payout ("intent"), to the batch, or, as long as nobody has said which   *)
(* payout the envelope became, to the envelope.  A statement is one step;  *)
(* a worker's transaction shows nothing before its commit.  Hashes, roots  *)
(* and signatures are left out: an item is its type and source event.      *)
(***************************************************************************)
EXTENDS Naturals, Sequences, FiniteSets, SequencesExt

CONSTANTS
    Events,            \* message ids
    From,              \* Events -> "edge", "intent", "outcome" or "batch"
    Leaves,            \* Events -> leaf types, in the order of the message
    EnvelopeType,      \* the leaf type of the envelope hash
    RequiredLeafTypes, RequiredBatchLeafTypes,
    Workers,
    Clients,           \* HTTP requests: administrators and replays
    Worlds,            \* what the topics hold, which workers and requests run, and
                       \* the bounds: drafts, the packs that requests begin, and
                       \* faults, failed statements, crashes and shutdowns
    None

Consumers == {"edge", "intent", "outcome"}
Types == UNION {Range(Leaves[e]) : e \in Events}
Scopes == {"intent", "batch", "envelope"}

ASSUME EvidenceAssumption ==
    /\ \A e \in Events : From[e] \in Consumers \cup {"batch"}
    /\ \A e \in Events : Leaves[e] \in Seq(Types) \ {<<>>}  \* one without leaves is skipped
    /\ \A x \in Worlds : /\ x.log \in [Consumers -> Seq(Events)]
                         /\ x.workers \subseteq Workers /\ x.clients \subseteq Clients
                         /\ x.drafts \in Nat /\ x.faults \in Nat
    /\ RequiredLeafTypes \cup RequiredBatchLeafTypes \subseteq Types
    /\ EnvelopeType \in Types /\ IsFiniteSet(RequiredLeafTypes)

VARIABLES
    world,
    position,   \* consumers: the next message
    marked,     \* consumers: the offset the group has marked
    handler,    \* consumers: the message in hand
    pending,    \* pending_leaf_candidates
    receipts,   \* evidence_leaf_receipts
    queue,      \* intentCheckQueue and batchCheckQueue
    worker,     \* workers: the job in hand
    client,     \* requests: the pack in hand
    packs,      \* evidence_packs, with their items
    outbox,     \* evidence_outbox_events: pack numbers
    jobs,       \* evidence_replay_jobs: statuses, one per client
    done,       \* PrepareShutdown has been called
    faults

topics == <<world, position, marked>>
database == <<pending, receipts, packs, outbox, jobs>>
vars == <<topics, handler, database, queue, worker, client, done, faults>>

Waiting == [step |-> "idle", event |-> None, left |-> <<>>, intent |-> FALSE, batch |-> FALSE]
Idle == [step |-> "idle", scope |-> None, items |-> {}]
NoRequest == [step |-> "idle", items |-> {}, old |-> 0, draft |-> 0]

Row == [scope : Scopes, type : Types, event : Events, envelope : BOOLEAN]
Item == Types \X Events

(* A scope has at most one pending leaf of a type.                         *)
TypeOK ==
    /\ world \in Worlds
    /\ \A c \in Consumers : marked[c] <= position[c] /\ position[c] \in 1..Len(world.log[c]) + 1
    /\ \A c \in Consumers :
          handler[c].step \in {"idle", "resolve", "link", "receipt", "upsert", "enqueue"}
    /\ pending \subseteq Row
    /\ \A r, s \in pending : r.scope = s.scope /\ r.type = s.type => r = s
    /\ receipts \subseteq Events \X Types \X Scopes \X {"ACCEPTED", "DUPLICATE", "CONFLICT"}
    /\ queue \subseteq {"intent", "batch"}
    /\ worker \in [Workers -> [step : {"idle", "check", "reread", "lock", "put", "activate",
                                       "delete"},
                               scope : {"intent", "batch", None}, items : SUBSET Item]]
    /\ client \in [Clients -> [step : {"idle", "draft", "put", "activate", "supersede"},
                               items : SUBSET Item, old : Nat, draft : Nat]]
    /\ \A i \in DOMAIN packs :
          packs[i] \in [scope : {"intent", "batch"}, items : SUBSET Item, archived : BOOLEAN,
                        status : {"DRAFT", "ACTIVE", "SUPERSEDED"}, by : {"worker", "client"}]
    /\ outbox \subseteq DOMAIN packs
    /\ jobs \in [Clients -> {None, "PENDING", "COMPLETED", "FAILED"}]
    /\ done \in BOOLEAN /\ faults \in 0..world.faults

Init ==
    /\ world \in Worlds
    /\ position = [c \in Consumers |-> 1] /\ marked = [c \in Consumers |-> 1]
    /\ handler = [c \in Consumers |-> Waiting]
    /\ pending = {} /\ receipts = {} /\ packs = <<>> /\ outbox = {}
    /\ jobs = [k \in Clients |-> None]
    /\ queue = {} /\ done = FALSE /\ faults = 0
    /\ worker = [w \in Workers |-> Idle] /\ client = [k \in Clients |-> NoRequest]

Fault == faults < world.faults /\ faults' = faults + 1

Active(scope) == {i \in DOMAIN packs : packs[i].scope = scope /\ packs[i].status = "ACTIVE"}
LeavesOf(scope) == {<<r.type, r.event>> : r \in {s \in pending : s.scope = scope}}
TypesOf(items) == {i[1] : i \in items}
Required(scope) == IF scope = "intent" THEN RequiredLeafTypes ELSE RequiredBatchLeafTypes

-----------------------------------------------------------------------------
(* The consumers.                                                          *)

(* What a message begins: its leaves to store, and whether it names the    *)
(* intent.  The batch's messages know neither intent nor envelope.         *)
Received(e, step, intent) ==
    [step |-> step, event |-> e, left |-> Leaves[e], intent |-> intent, batch |-> FALSE]
buildEdgeHandler(e) == Received(e, "resolve", FALSE)
buildIntentHandler(e) == Received(e, "link", TRUE)
handleLeafBundle(e) == Received(e, "link", TRUE)
handleBatchUpdated(e) == Received(e, "receipt", FALSE)

ConsumeClaim(c) ==
    LET e == world.log[c][position[c]] IN
    /\ handler[c].step = "idle" /\ ~done
    /\ position[c] <= Len(world.log[c])
    /\ handler' = [handler EXCEPT ![c] = CASE From[e] = "edge" -> buildEdgeHandler(e)
                                           [] From[e] = "intent" -> buildIntentHandler(e)
                                           [] From[e] = "outcome" -> handleLeafBundle(e)
                                           [] From[e] = "batch" -> handleBatchUpdated(e)]
    /\ UNCHANGED <<topics, database, queue, worker, client, done, faults>>

(* An edge event does not know its intent; another leaf of the envelope    *)
(* may.  A failed lookup is a lookup that found nothing.                   *)
ResolveIntentID(c) ==
    LET found == \E r \in pending : r.scope = "intent" /\ r.envelope IN
    /\ handler[c].step = "resolve"
    /\ \/ found /\ handler' = [handler EXCEPT ![c].step = "link", ![c].intent = TRUE]
          /\ UNCHANGED faults
       \/ ~found /\ handler' = [handler EXCEPT ![c].step = "receipt"] /\ UNCHANGED faults
       \/ found /\ handler' = [handler EXCEPT ![c].step = "receipt"] /\ Fault
    /\ UNCHANGED <<topics, database, queue, worker, client, done>>

(* The handler returns an error: the offset is not marked, and the loop    *)
(* goes on with the next message.                                          *)
HandlerFails(c) ==
    /\ handler' = [handler EXCEPT ![c] = Waiting]
    /\ position' = [position EXCEPT ![c] = @ + 1]
    /\ UNCHANGED <<world, marked, receipts, packs, outbox, jobs, queue, worker, client, done>>

(* Every leaf of the envelope becomes a leaf of the intent, those of the   *)
(* batch as well; the unique index refuses a second one of a type.         *)
LinkEnvelopeToIntent(c) ==
    LET rows == {r \in pending : r.envelope /\ r.scope # "intent"}
        clash == \/ \E r \in rows, s \in pending : s.scope = "intent" /\ s.type = r.type
                 \/ \E r, s \in rows : r # s /\ r.type = s.type IN
    /\ handler[c].step = "link"
    /\ \/ /\ ~clash
          /\ pending' = (pending \ rows) \cup {[r EXCEPT !.scope = "intent"] : r \in rows}
          /\ handler' = [handler EXCEPT ![c].step = "receipt"]
          /\ UNCHANGED <<topics, receipts, packs, outbox, jobs, queue, worker, client, done,
                         faults>>
       \/ clash /\ HandlerFails(c) /\ UNCHANGED <<pending, faults>>
       \/ ~clash /\ Fault /\ HandlerFails(c) /\ UNCHANGED pending

LeafScope(c) ==
    IF handler[c].intent THEN "intent"
    ELSE IF Head(handler[c].left) = EnvelopeType THEN "envelope" ELSE "batch"

Same(c) == {r \in pending : r.scope = LeafScope(c) /\ r.type = Head(handler[c].left)}

classify(c) ==
    IF Same(c) = {} THEN "ACCEPTED"
    ELSE IF \E r \in Same(c) : r.event = handler[c].event THEN "DUPLICATE" ELSE "CONFLICT"

NextLeaf(c) ==
    handler' = [handler EXCEPT ![c].left = Tail(@),
                               ![c].step = IF Len(handler[c].left) > 1 THEN "receipt"
                                           ELSE "enqueue"]

(* The first receipt of an event's leaf stays; only a duplicate is         *)
(* skipped, and a receipt that cannot be written does not stop the leaf.   *)
WriteReceipt(c) ==
    LET key == <<handler[c].event, Head(handler[c].left), LeafScope(c)>> IN
    /\ handler[c].step = "receipt"
    /\ \/ /\ receipts' = IF \E r \in receipts : SubSeq(r, 1, 3) = key THEN receipts
                         ELSE receipts \cup {Append(key, classify(c))}
          /\ IF classify(c) = "DUPLICATE" THEN NextLeaf(c)
             ELSE handler' = [handler EXCEPT ![c].step = "upsert"]
          /\ UNCHANGED faults
       \/ /\ Fault /\ handler' = [handler EXCEPT ![c].step = "upsert"] /\ UNCHANGED receipts
    /\ UNCHANGED <<topics, pending, packs, outbox, jobs, queue, worker, client, done>>

(* A fault: an insert without ON CONFLICT.                                 *)
InsertLeaf(c) ==
    pending \cup {[scope |-> LeafScope(c), type |-> Head(handler[c].left),
                   event |-> handler[c].event, envelope |-> From[handler[c].event] = "edge"]}

(* The row of the scope and type, or its hash and event replaced; the      *)
(* envelope of the first insert stays.                                     *)
UpsertedLeaf(c) ==
    IF Same(c) = {} THEN InsertLeaf(c)
    ELSE (pending \ Same(c)) \cup {[r EXCEPT !.event = handler[c].event] : r \in Same(c)}

UpsertLeaf(c) ==
    /\ handler[c].step = "upsert"
    /\ \/ /\ pending' = UpsertedLeaf(c)
          /\ handler' = [handler EXCEPT
                ![c].left = Tail(@),
                ![c].step = IF Len(handler[c].left) > 1 THEN "receipt" ELSE "enqueue",
                ![c].batch = @ \/ Head(handler[c].left) # EnvelopeType]
          /\ UNCHANGED <<topics, receipts, packs, outbox, jobs, queue, worker, client, done,
                         faults>>
       \/ Fault /\ HandlerFails(c) /\ UNCHANGED pending

(* A fault: only the intent's own message has the intent checked.          *)
ChecksOfIntents(c) ==
    {s \in {"intent"} : From[handler[c].event] = "intent"} \cup
    {s \in {"batch"} : handler[c].batch \/ From[handler[c].event] = "batch"}

(* What has to be checked after the message: the intent if it is known,    *)
(* the batch if one of its leaves was stored or the message is the batch's.*)
Checks(c) ==
    {s \in {"intent"} : handler[c].intent} \cup
    {s \in {"batch"} : handler[c].batch \/ From[handler[c].event] = "batch"}

(* enqueueIntentCheck and enqueueBatchCheck, in memory and dropped during  *)
(* a shutdown; then the offset is marked.                                  *)
EnqueueChecks(c) ==
    /\ handler[c].step = "enqueue"
    /\ queue' = IF done THEN queue ELSE queue \cup Checks(c)
    /\ handler' = [handler EXCEPT ![c] = Waiting]
    /\ position' = [position EXCEPT ![c] = @ + 1]
    /\ marked' = [marked EXCEPT ![c] = position[c] + 1]
    /\ UNCHANGED <<world, database, worker, client, done, faults>>

-----------------------------------------------------------------------------
(* The workers.  A job that fails is logged and gone.                      *)

Leave(w) == worker' = [worker EXCEPT ![w] = Idle]
Step(w, step) == worker' = [worker EXCEPT ![w].step = step]

runWorker(w, scope) ==
    /\ worker[w].step = "idle" /\ scope \in queue
    /\ queue' = queue \ {scope}
    /\ worker' = [worker EXCEPT ![w] = [step |-> "check", scope |-> scope, items |-> {}]]
    /\ UNCHANGED <<topics, handler, database, client, done, faults>>

(* The intent's pack is built from the leaves read here, the batch's from  *)
(* a second read.                                                          *)
processCheckJob(w) ==
    LET s == worker[w].scope leaves == LeavesOf(s) IN
    /\ worker[w].step = "check"
    /\ \/ /\ Required(s) \subseteq TypesOf(leaves)
          /\ worker' = [worker EXCEPT
                ![w].step = IF s = "intent" THEN "lock" ELSE "reread",
                ![w].items = {i \in leaves : s = "intent" /\ i[1] \in Required(s)}]
          /\ UNCHANGED faults
       \/ ~(Required(s) \subseteq TypesOf(leaves)) /\ Leave(w) /\ UNCHANGED faults
       \/ Fault /\ Leave(w)
    /\ UNCHANGED <<topics, handler, database, queue, client, done>>

processBatchJob(w) ==
    /\ worker[w].step = "reread"
    /\ \/ /\ worker' = [worker EXCEPT
                ![w].step = "lock",
                ![w].items = {i \in LeavesOf("batch") : i[1] \in RequiredBatchLeafTypes}]
          /\ UNCHANGED faults
       \/ Fault /\ Leave(w)
    /\ UNCHANGED <<topics, handler, database, queue, client, done>>

Locked(scope) ==
    \E w \in Workers : worker[w].scope = scope /\ worker[w].step \in {"put", "activate"}

(* DeleteForIntent, DeleteForBatch: every leaf of the scope, read or not.  *)
DeleteLeaves(scope) == pending' = {r \in pending : r.scope # scope}

(* A fault: who does not get the lock thinks the other one has the leaves. *)
LockOrDelete(w) ==
    LET s == worker[w].scope IN
    /\ worker[w].step = "lock"
    /\ \/ /\ Locked(s) \/ Active(s) # {}
          /\ DeleteLeaves(s) /\ Leave(w)
       \/ /\ ~Locked(s) /\ Active(s) = {}
          /\ Step(w, "put") /\ UNCHANGED pending
    /\ UNCHANGED <<topics, handler, receipts, packs, outbox, jobs, queue, client, done, faults>>

(* pg_try_advisory_xact_lock: whoever does not get it drops the job.  A    *)
(* batch has a pack if there is one of any status, an intent if there is   *)
(* an ACTIVE one; a lookup that fails finds none.  Nothing to put into a   *)
(* pack is an error.                                                       *)
AcquireAdvisoryLock(w) ==
    LET s == worker[w].scope
        exists == IF s = "intent" THEN Active(s) # {}
                  ELSE \E i \in DOMAIN packs : packs[i].scope = s IN
    /\ worker[w].step = "lock"
    /\ \/ Locked(s) /\ Leave(w) /\ UNCHANGED <<pending, faults>>
       \/ ~Locked(s) /\ exists /\ DeleteLeaves(s) /\ Leave(w) /\ UNCHANGED faults
       \/ ~Locked(s) /\ ~exists /\ UNCHANGED <<pending, faults>>
          /\ IF worker[w].items = {} THEN Leave(w) ELSE Step(w, "put")
       \/ ~Locked(s) /\ worker[w].items # {} /\ Fault /\ Step(w, "put") /\ UNCHANGED pending
       \/ Fault /\ Leave(w) /\ UNCHANGED pending
    /\ UNCHANGED <<topics, handler, receipts, packs, outbox, jobs, queue, client, done>>

(* The draft, invisible to others, and the archive in the object store.    *)
PutObject(w) ==
    /\ worker[w].step = "put"
    /\ \/ Step(w, "activate") /\ UNCHANGED faults
       \/ Fault /\ Leave(w)
    /\ UNCHANGED <<topics, handler, database, queue, client, done>>

(* A fault: no unique index on the ACTIVE pack of an intent.               *)
Unindexed(scope) == TRUE

(* evidence_packs_active_intent_unique_idx, evidence_packs_batch_unique_idx *)
Activatable(scope) == Active(scope) = {}

NewPack(scope, items, by, archived, status) ==
    packs' = Append(packs, [scope |-> scope, items |-> items, by |-> by, archived |-> archived,
                            status |-> status])

(* ActivatePackInTx and the commit: the pack, its items and the outbox row *)
(* appear together.  The answer of the commit may be lost.                 *)
ActivatePack(w) ==
    LET s == worker[w].scope IN
    /\ worker[w].step = "activate"
    /\ \/ /\ Activatable(s)
          /\ NewPack(s, worker[w].items, "worker", TRUE, "ACTIVE")
          /\ outbox' = outbox \cup {Len(packs) + 1}
          /\ \/ Step(w, "delete") /\ UNCHANGED faults
             \/ Leave(w) /\ Fault
          /\ UNCHANGED pending
       \/ /\ ~Activatable(s) /\ DeleteLeaves(s) /\ Leave(w)
          /\ UNCHANGED <<packs, outbox, faults>>
       \/ Fault /\ Leave(w) /\ UNCHANGED <<pending, packs, outbox>>
    /\ UNCHANGED <<topics, handler, receipts, jobs, queue, client, done>>

DeleteForScope(w) ==
    /\ worker[w].step = "delete"
    /\ \/ DeleteLeaves(worker[w].scope) /\ UNCHANGED faults
       \/ Fault /\ UNCHANGED pending
    /\ Leave(w)
    /\ UNCHANGED <<topics, handler, receipts, packs, outbox, jobs, queue, client, done>>

-----------------------------------------------------------------------------
(* Requests, without the advisory lock and with a transaction per step.    *)

(* GeneratePackFromTrustedLeaves: whatever leaves the intent has.          *)
AdminRecover(k) ==
    /\ client[k].step = "idle" /\ ~done /\ LeavesOf("intent") # {}
    /\ client' = [client EXCEPT ![k] = [step |-> "draft", items |-> LeavesOf("intent"),
                                        old |-> 0, draft |-> 0]]
    /\ UNCHANGED <<topics, handler, database, queue, worker, done, faults>>

(* ReplayPack: the job, and the same items for a pack that supersedes.     *)
ReplayPack(k, i) ==
    /\ client[k].step = "idle" /\ ~done /\ jobs[k] = None
    /\ packs[i].scope = "intent"
    /\ jobs' = [jobs EXCEPT ![k] = "PENDING"]
    /\ client' = [client EXCEPT ![k] = [step |-> "draft", items |-> packs[i].items,
                                        old |-> i, draft |-> 0]]
    /\ UNCHANGED <<topics, handler, pending, receipts, packs, outbox, queue, worker, done, faults>>

Answer(k, ok) ==
    /\ client' = [client EXCEPT ![k] = NoRequest]
    /\ jobs' = IF jobs[k] # "PENDING" THEN jobs
               ELSE [jobs EXCEPT ![k] = IF ok THEN "COMPLETED" ELSE "FAILED"]

SavePackDraft(k) ==
    /\ client[k].step = "draft"
    /\ \/ /\ Cardinality({i \in DOMAIN packs : packs[i].by = "client"}) < world.drafts
          /\ NewPack("intent", client[k].items, "client", FALSE, "DRAFT")
          /\ client' = [client EXCEPT ![k].step = "put", ![k].draft = Len(packs) + 1]
          /\ UNCHANGED <<faults, jobs>>
       \/ Fault /\ Answer(k, FALSE) /\ UNCHANGED packs
    /\ UNCHANGED <<topics, handler, pending, receipts, outbox, queue, worker, done>>

PutArchive(k) ==
    /\ client[k].step = "put"
    /\ \/ /\ packs' = [packs EXCEPT ![client[k].draft].archived = TRUE]
          /\ client' = [client EXCEPT ![k].step = "activate"]
          /\ UNCHANGED <<faults, jobs>>
       \/ Fault /\ Answer(k, FALSE) /\ UNCHANGED packs
    /\ UNCHANGED <<topics, handler, pending, receipts, outbox, queue, worker, done>>

(* The replaced pack is still ACTIVE when the new one claims the index.    *)
ActivateDraft(k) ==
    /\ client[k].step = "activate"
    /\ \/ /\ Activatable("intent")
          /\ packs' = [packs EXCEPT ![client[k].draft].status = "ACTIVE"]
          /\ outbox' = outbox \cup {client[k].draft}
          /\ \/ /\ client[k].old = 0 /\ Answer(k, TRUE)
             \/ /\ client[k].old # 0 /\ UNCHANGED jobs
                /\ client' = [client EXCEPT ![k].step = "supersede"]
          /\ UNCHANGED faults
       \/ ~Activatable("intent") /\ Answer(k, FALSE) /\ UNCHANGED <<packs, outbox, faults>>
       \/ Fault /\ Answer(k, FALSE) /\ UNCHANGED <<packs, outbox>>
    /\ UNCHANGED <<topics, handler, pending, receipts, queue, worker, done>>

MarkPackSuperseded(k) ==
    /\ client[k].step = "supersede"
    /\ \/ /\ packs' = [packs EXCEPT ![client[k].old].status = "SUPERSEDED"]
          /\ Answer(k, TRUE) /\ UNCHANGED faults
       \/ Fault /\ Answer(k, FALSE) /\ UNCHANGED packs
    /\ UNCHANGED <<topics, handler, pending, receipts, outbox, queue, worker, done>>

-----------------------------------------------------------------------------
(* The process.                                                            *)

PrepareShutdown ==
    /\ ~done /\ Fault /\ done' = TRUE
    /\ UNCHANGED <<topics, handler, database, queue, worker, client>>

(* After a drained shutdown, or after a crash.                             *)
Start ==
    /\ handler' = [c \in Consumers |-> Waiting] /\ position' = marked
    /\ queue' = {} /\ done' = FALSE
    /\ worker' = [w \in Workers |-> Idle] /\ client' = [k \in Clients |-> NoRequest]
    /\ UNCHANGED <<world, marked, database>>

Restart ==
    /\ done /\ queue = {} /\ \A c \in Consumers : handler[c] = Waiting
    /\ (\A w \in Workers : worker[w] = Idle) /\ (\A k \in Clients : client[k] = NoRequest)
    /\ Start /\ UNCHANGED faults

Crash == Fault /\ Start

Consume(c) ==
    \/ ConsumeClaim(c) \/ ResolveIntentID(c) \/ LinkEnvelopeToIntent(c)
    \/ WriteReceipt(c) \/ UpsertLeaf(c) \/ EnqueueChecks(c)

Work(w) ==
    \/ \E s \in queue : runWorker(w, s)
    \/ processCheckJob(w) \/ processBatchJob(w) \/ AcquireAdvisoryLock(w)
    \/ PutObject(w) \/ ActivatePack(w) \/ DeleteForScope(w)

Serve(k) ==
    \/ AdminRecover(k) \/ SavePackDraft(k) \/ PutArchive(k) \/ ActivateDraft(k)
    \/ MarkPackSuperseded(k)
    \/ \E i \in DOMAIN packs : ReplayPack(k, i)

Next ==
    \/ \E c \in Consumers : Consume(c)
    \/ \E w \in world.workers : Work(w)
    \/ \E k \in world.clients : Serve(k)
    \/ PrepareShutdown \/ Restart \/ Crash

(* Consumers and workers are loops that never stop by themselves.          *)
Fairness ==
    /\ \A c \in Consumers : WF_vars(Consume(c))
    /\ \A w \in Workers : WF_vars(w \in world.workers /\ Work(w))

Spec == Init /\ [][Next]_vars /\ Fairness

-----------------------------------------------------------------------------
(* A sealed pack is whole: its archive is stored and its event is in the   *)
(* outbox, no scope has two ACTIVE packs, whatever workers and requests    *)
(* race, and the workers' intent packs hold one leaf of every required     *)
(* type and nothing else.                                                  *)
SealedIsWhole ==
    /\ \A i \in DOMAIN packs : packs[i].status = "ACTIVE" => packs[i].archived /\ i \in outbox
    /\ \A s \in {"intent", "batch"} : Cardinality(Active(s)) <= 1
    /\ \A i \in DOMAIN packs : packs[i].by = "worker" /\ packs[i].scope = "intent" =>
          /\ TypesOf(packs[i].items) = RequiredLeafTypes
          /\ Cardinality(packs[i].items) = Cardinality(RequiredLeafTypes)

(* A buffered leaf only disappears once its payout or batch has an ACTIVE  *)
(* pack: while nothing is sealed it is still there, replaced at most by a  *)
(* later leaf of its type, although leaves change scope, repeat, conflict  *)
(* and are deleted by several workers.                                     *)
LeavesAreKept ==
    [][\A r \in pending :
          \/ \E s \in pending' : s.type = r.type /\ s.scope \in {r.scope, "intent"}
          \/ r.scope # "envelope" /\ Active(r.scope) # {}]_vars

(* Once all required leaves of the payout are there it gets its pack,      *)
(* unless something fails: checks are queued in memory only.               *)
CompletedIsPacked ==
    RequiredLeafTypes \subseteq TypesOf(LeavesOf("intent")) ~>
        (Active("intent") # {} \/ faults > 0)
=============================================================================
