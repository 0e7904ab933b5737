-------------------------- MODULE IntelEventsProofs --------------------------
(***************************************************************************)
(* The intelligence service's consumer for any topics, logs, readers and   *)
(* any number of faults: no offset passes a message that left no trace,    *)
(* only an overwritten receipt lets an event be counted twice, a counter   *)
(* is the sum over the receipts, and the tenant's rows add up to the       *)
(* batches'.                                                               *)
(***************************************************************************)
EXTENDS IntelEvents, SequenceTheorems, FiniteSetTheorems, TLAPS

Steps == {"idle", "handle", "checked", "failed", "dlq", "post", "commit"}
Final == {"PROCESSED", "CONFLICTED"}

Types ==
    /\ log \in Logs
    /\ receipts \in [EventIds -> {NoReceipt} \cup [status : Status, hash : Hashes]]
    /\ applied \in [EventIds -> Nat]
    /\ dlq \in [Places -> {"none", "pending", "replayed"}]
    /\ offset \in [Topics -> Nat] /\ owner \in [Topics -> Readers \cup {FirstReader}]
    /\ pc \in [Readers -> [Topics -> Steps]]
    /\ pos \in [Readers -> [Topics -> Nat]]

(* Nobody is beyond the end of the log, and who is busy has a message.     *)
Placed ==
    \A t \in Topics :
        /\ offset[t] <= Len(log[t])
        /\ \A r \in Readers : /\ pos[r][t] <= Len(log[t])
                              /\ pc[r][t] # "idle" => 1 <= pos[r][t]

(* A final receipt says what happened.                                     *)
ReceiptsAreTrue ==
    \A e \in EventIds : /\ receipts[e].status = "PROCESSED" => applied[e] > 0
                        /\ receipts[e].status = "CONFLICTED" => e \in conflicts

(* What is counted has a final receipt, unless that was overwritten.       *)
CountedIsFinal ==
    \A e \in EventIds \ redone :
        applied[e] <= 1 /\ (applied[e] > 0 => receipts[e].status \in Final)

(* The owner of a topic has accounted for everything behind it, and for    *)
(* the message in hand when it is done with it: a later commit covers the  *)
(* ones whose own commit failed.                                           *)
Behind ==
    \A t \in Topics, r \in Readers : owner[t] = r =>
        \A i \in 1..pos[r][t] :
            i < pos[r][t] \/ pc[r][t] \in {"idle", "post", "commit"} => Accounted(t, i)

IInv == Types /\ Placed /\ ReceiptsAreTrue /\ CountedIsFinal /\ Behind /\ NothingLost

(* Nothing that accounts for a message is taken back.                      *)
Grows ==
    /\ \A e \in EventIds : applied'[e] >= applied[e]
    /\ conflicts \subseteq conflicts' /\ finality \subseteq finality'
    /\ \A p \in Places : dlq[p] # "none" => dlq'[p] # "none"
    /\ UNCHANGED log

-----------------------------------------------------------------------------
LEMMA LogFacts ==
    ASSUME Types, NEW t \in Topics
    PROVE  /\ Len(log[t]) \in Nat /\ Len(log[t]) <= MaxLog
           /\ \A i \in 1..Len(log[t]) : log[t][i] \in Message
<1>1. log[t] \in Seq(Message) /\ Len(log[t]) <= MaxLog
  BY LogAssumption DEF Types
<1>. QED
  BY <1>1, LenProperties, ElementOfSeq

LEMMA MsgFacts ==
    ASSUME Types, Placed, NEW r \in Readers, NEW t \in Topics, pc[r][t] # "idle"
    PROVE  /\ pos[r][t] \in Nat /\ pos[r][t] \in 1..Len(log[t]) /\ <<t, pos[r][t]>> \in Places
           /\ Msg(r, t) \in Message /\ Msg(r, t).event \in EventIds /\ Msg(r, t).hash \in Hashes
<1>1. Len(log[t]) \in Nat /\ MaxLog \in Nat /\ Len(log[t]) <= MaxLog
  BY LogFacts, LogAssumption
<1>2. pos[r][t] \in Nat /\ 1 <= pos[r][t] /\ pos[r][t] <= Len(log[t])
  BY DEF Types, Placed
<1>3. pos[r][t] \in 1..Len(log[t]) /\ pos[r][t] \in 1..MaxLog
  BY <1>1, <1>2
<1>4. Msg(r, t) \in Message
  BY <1>3, LogFacts DEF Msg
<1>. QED
  BY <1>2, <1>3, <1>4 DEF Places, Message

LEMMA AccountedKept ==
    ASSUME Types, Types', Grows, NEW t \in Topics, NEW i \in 1..Len(log[t]), Accounted(t, i)
    PROVE  Accounted(t, i)'
<1>1. PICK m : m = log[t][i]
  OBVIOUS
<1>2. m.event \in EventIds
  BY <1>1, LogFacts DEF Message
<1>3. Len(log[t]) \in Nat /\ MaxLog \in Nat /\ Len(log[t]) <= MaxLog
  BY LogFacts, LogAssumption
<1>4. <<t, i>> \in Places
  BY <1>3 DEF Places
<1>5. applied[m.event] \in Nat /\ applied'[m.event] \in Nat /\ applied'[m.event] >= applied[m.event]
  BY <1>2 DEF Types, Grows
<1>6. applied[m.event] > 0 => applied'[m.event] > 0
  BY <1>5
<1>7. m = log'[t][i]
  BY <1>1 DEF Grows
<1>. QED
  BY <1>1, <1>4, <1>6, <1>7 DEF Accounted, Grows

(* The invariant holds initially.                                          *)
LEMMA IInvInit == Init => IInv
<1> SUFFICES ASSUME Init PROVE IInv
  OBVIOUS
<1>1. Types
  BY DEF Init, Types, Steps
<1>2. \A t \in Topics : Len(log[t]) \in Nat
  BY <1>1, LogFacts
<1>3. Placed
  BY <1>2 DEF Init, Placed
<1>4. ReceiptsAreTrue /\ CountedIsFinal
  BY DEF Init, ReceiptsAreTrue, CountedIsFinal, NoReceipt, Final
<1>5. Behind /\ NothingLost
  <2>1. \A i \in 1..0 : FALSE
    OBVIOUS
  <2>. QED
    BY <2>1 DEF Init, Behind, NothingLost
<1>. QED
  BY <1>1, <1>3, <1>4, <1>5 DEF IInv

LEMMA GotoFacts ==
    ASSUME Types, NEW r \in Readers, NEW t \in Topics, NEW s \in Steps, Goto(r, t, s)
    PROVE  /\ pc' \in [Readers -> [Topics -> Steps]] /\ pc'[r][t] = s
           /\ \A q \in Readers, u \in Topics : <<q, u>> # <<r, t>> => pc'[q][u] = pc[q][u]
  BY DEF Types, Goto

(* A reader goes on with its message: where it ends, the message is        *)
(* accounted for.                                                          *)
LEMMA GoesOn ==
    ASSUME IInv, Types', Grows, NEW r \in Readers, NEW t \in Topics, NEW s \in Steps,
           Goto(r, t, s), pc[r][t] # "idle", UNCHANGED <<offset, owner, pos>>,
           \/ s \notin {"idle", "post", "commit"}
           \/ pc[r][t] \in {"post", "commit"}
           \/ Accounted(t, pos[r][t])'
    PROVE  Placed' /\ Behind' /\ NothingLost'
<1>0. Types /\ Placed /\ Behind /\ NothingLost
  BY DEF IInv
<1>1. /\ pc'[r][t] = s
      /\ \A q \in Readers, u \in Topics : <<q, u>> # <<r, t>> => pc'[q][u] = pc[q][u]
  BY <1>0, GotoFacts
<1>2. Placed'
  <2>1. ASSUME NEW q \in Readers, NEW u \in Topics, pc'[q][u] # "idle" PROVE 1 <= pos[q][u]
    <3>1. CASE q = r /\ u = t
      BY <1>0, <3>1 DEF Placed
    <3>2. CASE ~(q = r /\ u = t)
      BY <1>0, <1>1, <2>1, <3>2 DEF Placed
    <3>. QED
      BY <3>1, <3>2
  <2>. QED
    BY <1>0, <2>1 DEF Placed, Grows
<1>3. Behind'
  <2> SUFFICES ASSUME NEW u \in Topics, NEW q \in Readers, owner[u] = q, NEW i \in 1..pos[q][u],
                      i < pos[q][u] \/ pc'[q][u] \in {"idle", "post", "commit"}
               PROVE  Accounted(u, i)'
    BY DEF Behind
  <2>0. pos[q][u] \in Nat /\ pos[q][u] <= Len(log[u]) /\ Len(log[u]) \in Nat
    BY <1>0, LogFacts DEF Types, Placed
  <2>1. i \in 1..Len(log[u]) /\ i \in Nat
    BY <2>0
  <2>2. CASE i < pos[q][u] \/ pc[q][u] \in {"idle", "post", "commit"}
    <3>1. Accounted(u, i)
      BY <1>0, <2>2 DEF Behind
    <3>. QED
      BY <1>0, <2>1, <3>1, AccountedKept
  <2>3. CASE ~(i < pos[q][u] \/ pc[q][u] \in {"idle", "post", "commit"})
    <3>1. i = pos[q][u]
      BY <2>0, <2>3
    <3>2. q = r /\ u = t
      BY <1>1, <2>3
    <3>. QED
      BY <1>1, <2>3, <3>1, <3>2 DEF Accounted
  <2>. QED
    BY <2>2, <2>3
<1>4. NothingLost'
  <2> SUFFICES ASSUME NEW u \in Topics, NEW i \in 1..offset[u] PROVE Accounted(u, i)'
    BY DEF NothingLost
  <2>1. offset[u] \in Nat /\ offset[u] <= Len(log[u]) /\ Len(log[u]) \in Nat
    BY <1>0, LogFacts DEF Types, Placed
  <2>2. i \in 1..Len(log[u])
    BY <2>1
  <2>3. Accounted(u, i)
    BY <1>0 DEF NothingLost
  <2>. QED
    BY <1>0, <2>2, <2>3, AccountedKept
<1>. QED
  BY <1>2, <1>3, <1>4

-----------------------------------------------------------------------------
(* The committed outcome of RunOnce: an event that is not counted now was  *)
(* counted or is in conflict.                                              *)
LEMMA AttemptFacts ==
    ASSUME IInv, NEW m \in Message, runOnceAttempt(m), UNCHANGED <<dlq, redone, log>>
    PROVE  /\ Grows /\ ReceiptsAreTrue' /\ CountedIsFinal'
           /\ receipts' \in [EventIds -> {NoReceipt} \cup [status : Status, hash : Hashes]]
           /\ applied' \in [EventIds -> Nat]
           /\ applied'[m.event] > 0 \/ m.event \in conflicts'
<1>0. /\ ReceiptsAreTrue /\ CountedIsFinal /\ m.event \in EventIds /\ m.hash \in Hashes
      /\ receipts \in [EventIds -> {NoReceipt} \cup [status : Status, hash : Hashes]]
      /\ applied \in [EventIds -> Nat]
  BY DEF IInv, Types, Message
<1>1. PICK e : e = m.event
  OBVIOUS
<1>2. CASE /\ Conflicts(m)
           /\ conflicts' = conflicts \cup {m.event}
           /\ receipts' = [receipts EXCEPT ![m.event].status = "CONFLICTED"]
           /\ UNCHANGED <<proj, finality, applied>>
  <2>1. receipts[e] \in [status : Status, hash : Hashes]
    BY <1>0, <1>1, <1>2 DEF Conflicts
  <2>2. PICK x : x = [receipts[e] EXCEPT !.status = "CONFLICTED"]
    OBVIOUS
  <2>3. x \in [status : Status, hash : Hashes] /\ x.status = "CONFLICTED"
    BY <2>1, <2>2 DEF Status
  <2>4. receipts' = [receipts EXCEPT ![e] = x]
    BY <1>1, <1>2, <2>2
  <2>5. receipts' \in [EventIds -> {NoReceipt} \cup [status : Status, hash : Hashes]]
        /\ receipts'[e] = x /\ \A f \in EventIds \ {e} : receipts'[f] = receipts[f]
    BY <1>0, <1>1, <2>3, <2>4
  <2>6. ReceiptsAreTrue' /\ CountedIsFinal'
    BY <1>0, <1>1, <1>2, <2>3, <2>5 DEF ReceiptsAreTrue, CountedIsFinal, Final
  <2>. QED
    BY <1>0, <1>2, <2>5, <2>6 DEF Grows
<1>3. CASE ~Conflicts(m) /\ Duplicate(m) /\ UNCHANGED <<dbVars, applied>>
  <2>1. UNCHANGED <<receipts, conflicts, finality, applied>>
    BY <1>3 DEF dbVars
  <2>2. ReceiptsAreTrue' /\ CountedIsFinal' /\ Grows
    BY <1>0, <2>1 DEF ReceiptsAreTrue, CountedIsFinal, Grows
  <2>3. applied[m.event] > 0 \/ m.event \in conflicts
    BY <1>0, <1>3 DEF ReceiptsAreTrue, Duplicate
  <2>. QED
    BY <1>0, <2>1, <2>2, <2>3
<1>4. CASE /\ ~Duplicate(m)
           /\ finality' = finality \cup ({m.cert} \ {NoCertificate})
           /\ receipts' = [receipts EXCEPT ![m.event] = [status |-> "PROCESSED", hash |-> m.hash]]
           /\ applied' = [applied EXCEPT ![m.event] = @ + 1]
           /\ UNCHANGED conflicts
  <2>1. PICK x : x = [status |-> "PROCESSED", hash |-> m.hash]
    OBVIOUS
  <2>2. x \in [status : Status, hash : Hashes] /\ x.status = "PROCESSED"
    BY <1>0, <2>1 DEF Status
  <2>3. receipts' = [receipts EXCEPT ![e] = x]
    BY <1>1, <1>4, <2>1
  <2>4. receipts' \in [EventIds -> {NoReceipt} \cup [status : Status, hash : Hashes]]
        /\ receipts'[e] = x /\ \A f \in EventIds \ {e} : receipts'[f] = receipts[f]
    BY <1>0, <1>1, <2>2, <2>3
  <2>5. applied' \in [EventIds -> Nat] /\ applied'[e] = applied[e] + 1 /\ applied[e] \in Nat
        /\ \A f \in EventIds \ {e} : applied'[f] = applied[f]
    BY <1>0, <1>1, <1>4
  <2>6. applied'[e] > 0 /\ \A f \in EventIds : applied'[f] >= applied[f]
    BY <1>0, <1>1, <2>5
  <2>7. e \in redone \/ applied[e] = 0
    <3>1. receipts[e].status \notin Final
      BY <1>1, <1>4 DEF Duplicate, Final
    <3>. QED
      BY <1>0, <1>1, <3>1, <2>5 DEF CountedIsFinal
  <2>8. ReceiptsAreTrue'
    BY <1>0, <1>4, <2>2, <2>4, <2>5, <2>6 DEF ReceiptsAreTrue
  <2>9. CountedIsFinal'
    <3> SUFFICES ASSUME NEW f \in EventIds \ redone
                 PROVE  applied'[f] <= 1 /\ (applied'[f] > 0 => receipts'[f].status \in Final)
      BY DEF CountedIsFinal
    <3>1. CASE f = e
      BY <2>2, <2>4, <2>5, <2>7, <3>1 DEF Final
    <3>2. CASE f # e
      BY <1>0, <2>4, <2>5, <3>2 DEF CountedIsFinal
    <3>. QED
      BY <3>1, <3>2
  <2>. QED
    BY <1>1, <1>4, <2>4, <2>5, <2>6, <2>8, <2>9 DEF Grows
<1>. QED
  BY <1>2, <1>3, <1>4 DEF runOnceAttempt

(* Steps that leave the database alone.                                    *)
LEMMA DatabaseKept ==
    ASSUME IInv, UNCHANGED <<receipts, conflicts, finality, applied, redone>>
    PROVE  ReceiptsAreTrue' /\ CountedIsFinal'
  BY DEF IInv, ReceiptsAreTrue, CountedIsFinal

LEMMA FetchMessageStep ==
    ASSUME IInv, NEW r \in Readers, NEW t \in Topics, FetchMessage(r, t)
    PROVE  IInv'
<1>0. Types /\ Placed /\ Behind /\ NothingLost
  BY DEF IInv
<1>1. /\ UNCHANGED <<receipts, conflicts, finality, dlq, log, offset, owner, applied, redone>>
      /\ pc[r][t] = "idle" /\ owner[t] = r /\ pos[r][t] < Len(log[t])
      /\ pos' = [pos EXCEPT ![r][t] = @ + 1]
  BY DEF FetchMessage, dbVars, kafkaVars, ghosts
<1>2. PICK s \in {"handle", "dlq"} : Goto(r, t, s)
  BY DEF FetchMessage
<1>3. /\ pc' \in [Readers -> [Topics -> Steps]] /\ pc'[r][t] = s
      /\ \A q \in Readers, u \in Topics : <<q, u>> # <<r, t>> => pc'[q][u] = pc[q][u]
  BY <1>0, <1>2, GotoFacts DEF Steps
<1>4. /\ pos' \in [Readers -> [Topics -> Nat]] /\ pos'[r][t] = pos[r][t] + 1 /\ pos[r][t] \in Nat
      /\ \A q \in Readers, u \in Topics : <<q, u>> # <<r, t>> => pos'[q][u] = pos[q][u]
  BY <1>0, <1>1 DEF Types
<1>5. Types'
  BY <1>0, <1>1, <1>3, <1>4 DEF Types
<1>6. Grows
  BY <1>0, <1>1 DEF Types, Grows
<1>7. Placed'
  <2> SUFFICES ASSUME NEW u \in Topics
               PROVE  /\ offset'[u] <= Len(log'[u])
                      /\ \A q \in Readers : /\ pos'[q][u] <= Len(log'[u])
                                            /\ pc'[q][u] # "idle" => 1 <= pos'[q][u]
    BY DEF Placed
  <2>1. Len(log[u]) \in Nat
    BY <1>0, LogFacts
  <2>2. ASSUME NEW q \in Readers
        PROVE  pos'[q][u] <= Len(log[u]) /\ (pc'[q][u] # "idle" => 1 <= pos'[q][u])
    <3>1. CASE q = r /\ u = t
      BY <1>1, <1>4, <2>1, <3>1
    <3>2. CASE ~(q = r /\ u = t)
      BY <1>0, <1>3, <1>4, <3>2 DEF Placed
    <3>. QED
      BY <3>1, <3>2
  <2>. QED
    BY <1>0, <1>1, <2>2 DEF Placed
<1>8. Behind'
  <2> SUFFICES ASSUME NEW u \in Topics, NEW q \in Readers, owner[u] = q, NEW i \in 1..pos'[q][u],
                      i < pos'[q][u] \/ pc'[q][u] \in {"idle", "post", "commit"}
               PROVE  Accounted(u, i)'
    BY <1>1 DEF Behind
  <2>0. pos[q][u] \in Nat /\ pos[q][u] <= Len(log[u]) /\ Len(log[u]) \in Nat
    BY <1>0, LogFacts DEF Types, Placed
  <2>1. CASE q = r /\ u = t
    <3>1. i \in 1..pos[q][u]
      BY <1>2, <1>3, <1>4, <2>0, <2>1
    <3>2. Accounted(u, i)
      BY <1>0, <1>1, <2>1, <3>1 DEF Behind
    <3>3. i \in 1..Len(log[u])
      BY <2>0, <3>1
    <3>. QED
      BY <1>0, <1>5, <1>6, <3>2, <3>3, AccountedKept
  <2>2. CASE ~(q = r /\ u = t)
    <3>1. /\ i \in 1..pos[q][u]
          /\ i < pos[q][u] \/ pc[q][u] \in {"idle", "post", "commit"}
      BY <1>3, <1>4, <2>2
    <3>2. Accounted(u, i)
      BY <1>0, <3>1 DEF Behind
    <3>3. i \in 1..Len(log[u])
      BY <2>0, <3>1
    <3>. QED
      BY <1>0, <1>5, <1>6, <3>2, <3>3, AccountedKept
  <2>. QED
    BY <2>1, <2>2
<1>9. NothingLost'
  BY <1>0, <1>1 DEF NothingLost, Accounted
<1>. QED
  BY <1>1, <1>5, <1>7, <1>8, <1>9, DatabaseKept DEF IInv

LEMMA HandleGuardsStep ==
    ASSUME IInv, NEW r \in Readers, NEW t \in Topics, HandleGuards(r, t)
    PROVE  IInv'
<1>0. Types /\ Placed /\ pc[r][t] = "handle"
  BY DEF IInv, HandleGuards
<1>1. UNCHANGED <<receipts, conflicts, finality, dlq, log, offset, owner, pos, applied, redone>>
  BY DEF HandleGuards, dbVars, kafkaVars, ghosts
<1>2. PICK m, s : m = Msg(r, t) /\ s = IF ~m.ids \/ m.cert \in finality THEN "commit" ELSE "checked"
  OBVIOUS
<1>3. Goto(r, t, s) /\ s \in Steps
  BY <1>2 DEF HandleGuards, Steps
<1>4. Types' /\ Grows
  BY <1>0, <1>1, <1>3, GotoFacts DEF Types, Grows
<1>5. s = "checked" \/ Accounted(t, pos[r][t])'
  BY <1>1, <1>2 DEF Msg, Accounted
<1>6. Placed' /\ Behind' /\ NothingLost'
  BY <1>0, <1>1, <1>3, <1>4, <1>5, GoesOn
<1>. QED
  BY <1>1, <1>4, <1>6, DatabaseKept DEF IInv

(* The committed attempt accounts for the message in hand.                 *)
LEMMA AttemptStep ==
    ASSUME IInv, NEW r \in Readers, NEW t \in Topics, NEW s \in Steps, pc[r][t] = "checked",
           runOnceAttempt(Msg(r, t)), Goto(r, t, s),
           UNCHANGED <<dlq, log, offset, owner, pos, redone>>
    PROVE  IInv'
<1>0. Types /\ Placed
  BY DEF IInv
<1>1. PICK m : m = Msg(r, t)
  OBVIOUS
<1>2. m \in Message /\ runOnceAttempt(m)
  BY <1>0, <1>1, MsgFacts
<1>3. /\ Grows /\ ReceiptsAreTrue' /\ CountedIsFinal'
      /\ receipts' \in [EventIds -> {NoReceipt} \cup [status : Status, hash : Hashes]]
      /\ applied' \in [EventIds -> Nat]
      /\ applied'[m.event] > 0 \/ m.event \in conflicts'
  BY <1>2, AttemptFacts
<1>4. pc' \in [Readers -> [Topics -> Steps]]
  BY <1>0, GotoFacts
<1>5. Types'
  BY <1>0, <1>3, <1>4 DEF Types
<1>6. Accounted(t, pos[r][t])'
  BY <1>1, <1>3 DEF Accounted, Msg
<1>7. Placed' /\ Behind' /\ NothingLost'
  BY <1>3, <1>5, <1>6, GoesOn
<1>. QED
  BY <1>3, <1>5, <1>7 DEF IInv

LEMMA RunOnceStep ==
    ASSUME IInv, NEW r \in Readers, NEW t \in Topics, RunOnce(r, t)
    PROVE  IInv'
<1>1. PICK s \in {"commit", "post"} : Goto(r, t, s)
  BY DEF RunOnce
<1>2. /\ pc[r][t] = "checked" /\ runOnceAttempt(Msg(r, t)) /\ s \in Steps
      /\ UNCHANGED <<dlq, log, offset, owner, pos, redone>>
  BY DEF RunOnce, kafkaVars, Steps
<1>. QED
  BY <1>1, <1>2, AttemptStep

LEMMA RunOnceFailsStep ==
    ASSUME IInv, NEW r \in Readers, NEW t \in Topics, RunOnceFails(r, t)
    PROVE  IInv'
<1>1. /\ pc[r][t] = "checked" /\ Goto(r, t, "failed") /\ "failed" \in Steps
      /\ UNCHANGED <<dlq, log, offset, owner, pos, redone>>
  BY DEF RunOnceFails, kafkaVars, Steps
<1>2. CASE runOnceAttempt(Msg(r, t))
  BY <1>1, <1>2, AttemptStep
<1>3. CASE UNCHANGED <<receipts, conflicts, finality, applied>>
  <2>1. Types' /\ Grows
    BY <1>1, <1>3, GotoFacts DEF IInv, Types, Grows
  <2>2. Placed' /\ Behind' /\ NothingLost'
    BY <1>1, <2>1, GoesOn
  <2>. QED
    BY <1>1, <1>3, <2>1, <2>2, DatabaseKept DEF IInv
<1>. QED
  BY <1>2, <1>3 DEF RunOnceFails, dbVars

(* FAILED over a final receipt: the event is one of redone.                *)
LEMMA markFailedStep ==
    ASSUME IInv, NEW r \in Readers, NEW t \in Topics, markFailed(r, t)
    PROVE  IInv'
<1>0. Types /\ Placed /\ ReceiptsAreTrue /\ CountedIsFinal /\ pc[r][t] = "failed"
  BY DEF IInv, markFailed
<1>1. UNCHANGED <<conflicts, finality, dlq, log, offset, owner, pos, applied>>
  BY DEF markFailed, kafkaVars
<1>2. PICK s \in {"handle", "dlq"} : Goto(r, t, s)
  BY DEF markFailed, Retry
<1>3. pc' \in [Readers -> [Topics -> Steps]] /\ s \in Steps
  BY <1>0, <1>2, GotoFacts DEF Steps
<1>4. PICK m, e : m = Msg(r, t) /\ e = m.event
  OBVIOUS
<1>5. m \in Message /\ e \in EventIds /\ m.hash \in Hashes
  BY <1>0, <1>4, MsgFacts
<1>6. /\ receipts' \in [EventIds -> {NoReceipt} \cup [status : Status, hash : Hashes]]
      /\ ReceiptsAreTrue' /\ CountedIsFinal'
  <2>1. CASE UNCHANGED <<receipts, redone>>
    BY <1>0, <1>1, <2>1 DEF Types, ReceiptsAreTrue, CountedIsFinal
  <2>2. CASE /\ receipts' = [receipts EXCEPT ![m.event] =
                   [status |-> "FAILED", hash |-> IF @ = NoReceipt THEN m.hash ELSE @.hash]]
             /\ redone' = IF Duplicate(m) THEN redone \cup {m.event} ELSE redone
    <3>1. PICK h : h = IF receipts[e] = NoReceipt THEN m.hash ELSE receipts[e].hash
      OBVIOUS
    <3>2. h \in Hashes
      BY <1>0, <1>5, <3>1 DEF Types
    <3>3. PICK x : x = [status |-> "FAILED", hash |-> h]
      OBVIOUS
    <3>4. x \in [status : Status, hash : Hashes] /\ x.status = "FAILED"
      BY <3>2, <3>3 DEF Status
    <3>5. receipts' = [receipts EXCEPT ![e] = x]
      BY <1>4, <2>2, <3>1, <3>3
    <3>6. receipts' \in [EventIds -> {NoReceipt} \cup [status : Status, hash : Hashes]]
          /\ receipts'[e] = x /\ \A f \in EventIds \ {e} : receipts'[f] = receipts[f]
      BY <1>0, <1>5, <3>4, <3>5 DEF Types
    <3>7. redone \subseteq redone' /\ (receipts[e].status \in Final => e \in redone')
      BY <1>4, <2>2 DEF Duplicate, Final
    <3>8. ReceiptsAreTrue'
      BY <1>0, <1>1, <3>4, <3>6 DEF ReceiptsAreTrue
    <3>9. CountedIsFinal'
      <4> SUFFICES ASSUME NEW f \in EventIds \ redone'
                   PROVE  applied[f] <= 1 /\ (applied[f] > 0 => receipts'[f].status \in Final)
        BY <1>1 DEF CountedIsFinal
      <4>1. f \in EventIds \ redone
        BY <3>7
      <4>2. applied[f] <= 1 /\ (applied[f] > 0 => receipts[f].status \in Final)
        BY <1>0, <4>1 DEF CountedIsFinal
      <4>3. CASE f = e
        BY <3>7, <4>2, <4>3
      <4>4. CASE f # e
        BY <3>6, <4>2, <4>4
      <4>. QED
        BY <4>3, <4>4
    <3>. QED
      BY <3>6, <3>8, <3>9
  <2>. QED
    BY <1>4, <2>1, <2>2 DEF markFailed
<1>7. Types' /\ Grows
  BY <1>0, <1>1, <1>3, <1>6 DEF Types, Grows
<1>8. Placed' /\ Behind' /\ NothingLost'
  BY <1>0, <1>1, <1>2, <1>3, <1>7, GoesOn
<1>. QED
  BY <1>6, <1>7, <1>8 DEF IInv

LEMMA InsertLocalDLQStep ==
    ASSUME IInv, NEW r \in Readers, NEW t \in Topics, InsertLocalDLQ(r, t)
    PROVE  IInv'
<1>0. Types /\ Placed /\ pc[r][t] = "dlq" /\ Goto(r, t, "commit") /\ "commit" \in Steps
  BY DEF IInv, InsertLocalDLQ, Steps
<1>1. /\ UNCHANGED <<receipts, conflicts, finality, log, offset, owner, pos, applied, redone>>
      /\ dlq' = [dlq EXCEPT ![<<t, pos[r][t]>>] = "pending"]
  BY DEF InsertLocalDLQ, dbVars, kafkaVars, ghosts
<1>2. PICK p : p = <<t, pos[r][t]>>
  OBVIOUS
<1>3. p \in Places
  BY <1>0, <1>2, MsgFacts
<1>4. /\ dlq' \in [Places -> {"none", "pending", "replayed"}] /\ dlq'[p] = "pending"
      /\ \A q \in Places \ {p} : dlq'[q] = dlq[q]
  BY <1>0, <1>1, <1>2, <1>3 DEF Types
<1>5. Types' /\ Grows
  BY <1>0, <1>1, <1>4, GotoFacts DEF Types, Grows
<1>6. Accounted(t, pos[r][t])'
  BY <1>1, <1>2, <1>4 DEF Accounted
<1>7. Placed' /\ Behind' /\ NothingLost'
  BY <1>0, <1>1, <1>5, <1>6, GoesOn
<1>. QED
  BY <1>1, <1>5, <1>7, DatabaseKept DEF IInv

LEMMA PostCommitStep ==
    ASSUME IInv, NEW r \in Readers, NEW t \in Topics, PostCommit(r, t)
    PROVE  IInv'
<1>0. Types /\ Placed /\ pc[r][t] = "post" /\ Goto(r, t, "commit") /\ "commit" \in Steps
  BY DEF IInv, PostCommit, Steps
<1>1. UNCHANGED <<receipts, conflicts, finality, dlq, log, offset, owner, pos, applied, redone>>
  BY DEF PostCommit, dbVars, kafkaVars, ghosts
<1>2. Types' /\ Grows
  BY <1>0, <1>1, GotoFacts DEF Types, Grows
<1>3. Placed' /\ Behind' /\ NothingLost'
  BY <1>0, <1>1, <1>2, GoesOn
<1>. QED
  BY <1>1, <1>2, <1>3, DatabaseKept DEF IInv

(* Only the owner moves the offset, past what it has accounted for.        *)
LEMMA CommitMessagesStep ==
    ASSUME IInv, NEW r \in Readers, NEW t \in Topics, CommitMessages(r, t)
    PROVE  IInv'
<1>0. /\ Types /\ Placed /\ Behind /\ NothingLost
      /\ pc[r][t] = "commit" /\ Goto(r, t, "idle") /\ "idle" \in Steps
  BY DEF IInv, CommitMessages, Steps
<1>1. UNCHANGED <<receipts, conflicts, finality, dlq, log, owner, pos, applied, redone>>
  BY DEF CommitMessages, dbVars, ghosts
<1>2. CASE UNCHANGED offset
  <2>1. Types' /\ Grows
    BY <1>0, <1>1, <1>2, GotoFacts DEF Types, Grows
  <2>2. Placed' /\ Behind' /\ NothingLost'
    BY <1>0, <1>1, <1>2, <2>1, GoesOn
  <2>. QED
    BY <1>1, <2>1, <2>2, DatabaseKept DEF IInv
<1>3. CASE owner[t] = r /\ offset' = [offset EXCEPT ![t] = pos[r][t]]
  <2>1. /\ pc' \in [Readers -> [Topics -> Steps]] /\ pc'[r][t] = "idle"
        /\ \A q \in Readers, u \in Topics : <<q, u>> # <<r, t>> => pc'[q][u] = pc[q][u]
    BY <1>0, GotoFacts
  <2>2. /\ offset' \in [Topics -> Nat] /\ offset'[t] = pos[r][t]
        /\ \A u \in Topics \ {t} : offset'[u] = offset[u]
    BY <1>0, <1>3 DEF Types
  <2>3. Types'
    BY <1>0, <1>1, <2>1, <2>2 DEF Types
  <2>4. Placed'
    <3>1. \A u \in Topics : offset'[u] <= Len(log[u])
      BY <1>0, <2>2 DEF Placed
    <3>2. ASSUME NEW u \in Topics, NEW q \in Readers, pc'[q][u] # "idle" PROVE 1 <= pos[q][u]
      BY <1>0, <2>1, <3>2 DEF Placed
    <3>. QED
      BY <1>0, <1>1, <3>1, <3>2 DEF Placed
  <2>5. Behind'
    <3> SUFFICES ASSUME NEW u \in Topics, NEW q \in Readers, owner[u] = q, NEW i \in 1..pos[q][u],
                        i < pos[q][u] \/ pc'[q][u] \in {"idle", "post", "commit"}
                 PROVE  Accounted(u, i)
      BY <1>1 DEF Behind, Accounted
    <3>. QED
      BY <1>0, <2>1 DEF Behind
  <2>6. NothingLost'
    <3> SUFFICES ASSUME NEW u \in Topics, NEW i \in 1..offset'[u] PROVE Accounted(u, i)
      BY <1>1 DEF NothingLost, Accounted
    <3>1. CASE u = t
      BY <1>0, <1>3, <2>2, <3>1 DEF Behind
    <3>2. CASE u # t
      BY <1>0, <2>2, <3>2 DEF NothingLost
    <3>. QED
      BY <3>1, <3>2
  <2>. QED
    BY <1>1, <2>3, <2>4, <2>5, <2>6, DatabaseKept DEF IInv
<1>. QED
  BY <1>2, <1>3 DEF CommitMessages

(* The new owner has accounted for what is committed, nothing more.        *)
LEMMA RebalanceStep ==
    ASSUME IInv, NEW r \in Readers, NEW t \in Topics, Rebalance(r, t)
    PROVE  IInv'
<1>0. Types /\ Placed /\ Behind /\ NothingLost /\ pc[r][t] = "idle"
  BY DEF IInv, Rebalance
<1>1. /\ UNCHANGED <<receipts, conflicts, finality, dlq, log, offset, pc, applied, redone>>
      /\ owner' = [owner EXCEPT ![t] = r] /\ pos' = [pos EXCEPT ![r][t] = offset[t]]
  BY DEF Rebalance, dbVars, ghosts
<1>2. /\ pos' \in [Readers -> [Topics -> Nat]] /\ pos'[r][t] = offset[t]
      /\ \A q \in Readers, u \in Topics : <<q, u>> # <<r, t>> => pos'[q][u] = pos[q][u]
  BY <1>0, <1>1 DEF Types
<1>3. /\ owner' \in [Topics -> Readers \cup {FirstReader}] /\ owner'[t] = r
      /\ \A u \in Topics \ {t} : owner'[u] = owner[u]
  BY <1>0, <1>1 DEF Types
<1>4. Types'
  BY <1>0, <1>1, <1>2, <1>3 DEF Types
<1>5. Placed'
  <2>1. ASSUME NEW u \in Topics, NEW q \in Readers
        PROVE  pos'[q][u] <= Len(log[u]) /\ (pc[q][u] # "idle" => 1 <= pos'[q][u])
    <3>1. CASE q = r /\ u = t
      BY <1>0, <1>2, <3>1 DEF Placed
    <3>2. CASE ~(q = r /\ u = t)
      BY <1>0, <1>2, <3>2 DEF Placed
    <3>. QED
      BY <3>1, <3>2
  <2>. QED
    BY <1>0, <1>1, <2>1 DEF Placed
<1>6. Behind'
  <2> SUFFICES ASSUME NEW u \in Topics, NEW q \in Readers, owner'[u] = q, NEW i \in 1..pos'[q][u],
                      i < pos'[q][u] \/ pc[q][u] \in {"idle", "post", "commit"}
               PROVE  Accounted(u, i)
    BY <1>1 DEF Behind, Accounted
  <2>1. CASE u = t
    BY <1>0, <1>2, <1>3, <2>1 DEF NothingLost
  <2>2. CASE u # t
    BY <1>0, <1>2, <1>3, <2>2 DEF Behind
  <2>. QED
    BY <2>1, <2>2
<1>7. NothingLost'
  BY <1>0, <1>1 DEF NothingLost, Accounted
<1>. QED
  BY <1>1, <1>4, <1>5, <1>6, <1>7, DatabaseKept DEF IInv

LEMMA CrashStep ==
    ASSUME IInv, NEW r \in Readers, Crash(r)
    PROVE  IInv'
<1>0. Types /\ Placed /\ Behind /\ NothingLost
  BY DEF IInv
<1>1. /\ UNCHANGED <<receipts, conflicts, finality, dlq, log, offset, owner, applied, redone>>
      /\ pc' = [pc EXCEPT ![r] = [t \in Topics |-> "idle"]] /\ pos' = [pos EXCEPT ![r] = offset]
  BY DEF Crash, dbVars, kafkaVars, ghosts
<1>2. /\ pos' \in [Readers -> [Topics -> Nat]] /\ pos'[r] = offset
      /\ \A q \in Readers \ {r} : pos'[q] = pos[q]
  BY <1>0, <1>1 DEF Types
<1>3. /\ pc' \in [Readers -> [Topics -> Steps]] /\ \A t \in Topics : pc'[r][t] = "idle"
      /\ \A q \in Readers \ {r} : pc'[q] = pc[q]
  BY <1>0, <1>1 DEF Types, Steps
<1>4. Types'
  BY <1>0, <1>1, <1>2, <1>3 DEF Types
<1>5. Placed'
  <2>1. ASSUME NEW u \in Topics, NEW q \in Readers
        PROVE  pos'[q][u] <= Len(log[u]) /\ (pc'[q][u] # "idle" => 1 <= pos'[q][u])
    <3>1. CASE q = r
      BY <1>0, <1>2, <1>3, <3>1 DEF Placed
    <3>2. CASE q # r
      BY <1>0, <1>2, <1>3, <3>2 DEF Placed
    <3>. QED
      BY <3>1, <3>2
  <2>. QED
    BY <1>0, <1>1, <2>1 DEF Placed
<1>6. Behind'
  <2> SUFFICES ASSUME NEW u \in Topics, NEW q \in Readers, owner[u] = q, NEW i \in 1..pos'[q][u],
                      i < pos'[q][u] \/ pc'[q][u] \in {"idle", "post", "commit"}
               PROVE  Accounted(u, i)
    BY <1>1 DEF Behind, Accounted
  <2>1. CASE q = r
    BY <1>0, <1>2, <2>1 DEF NothingLost
  <2>2. CASE q # r
    BY <1>0, <1>2, <1>3, <2>2 DEF Behind
  <2>. QED
    BY <2>1, <2>2
<1>7. NothingLost'
  BY <1>0, <1>1 DEF NothingLost, Accounted
<1>. QED
  BY <1>1, <1>4, <1>5, <1>6, <1>7, DatabaseKept DEF IInv

LEMMA ReplayStep ==
    ASSUME IInv, NEW p \in Places, Replay(p)
    PROVE  IInv'
<1>0. Types /\ Placed /\ Behind /\ NothingLost
  BY DEF IInv
<1>1. /\ UNCHANGED <<receipts, conflicts, finality, log, offset, owner, pc, pos, applied, redone>>
      /\ dlq' = dlq \/ dlq' = [dlq EXCEPT ![p] = "replayed"]
  BY DEF Replay, dbVars, kafkaVars, readerVars, ghosts
<1>2. /\ dlq' \in [Places -> {"none", "pending", "replayed"}]
      /\ \A q \in Places : dlq[q] # "none" => dlq'[q] # "none"
  BY <1>0, <1>1 DEF Types
<1>3. Types' /\ Grows
  BY <1>0, <1>1, <1>2 DEF Types, Grows
<1>4. Placed'
  BY <1>0, <1>1 DEF Placed
<1>5. Behind'
  <2> SUFFICES ASSUME NEW u \in Topics, NEW q \in Readers, owner[u] = q, NEW i \in 1..pos[q][u],
                      i < pos[q][u] \/ pc[q][u] \in {"idle", "post", "commit"}
               PROVE  Accounted(u, i)'
    BY <1>1 DEF Behind
  <2>1. pos[q][u] \in Nat /\ pos[q][u] <= Len(log[u]) /\ Len(log[u]) \in Nat
    BY <1>0, LogFacts DEF Types, Placed
  <2>2. i \in 1..Len(log[u]) /\ Accounted(u, i)
    BY <1>0, <2>1 DEF Behind
  <2>. QED
    BY <1>0, <1>3, <2>2, AccountedKept
<1>6. NothingLost'
  <2> SUFFICES ASSUME NEW u \in Topics, NEW i \in 1..offset[u] PROVE Accounted(u, i)'
    BY <1>1 DEF NothingLost
  <2>1. offset[u] \in Nat /\ offset[u] <= Len(log[u]) /\ Len(log[u]) \in Nat
    BY <1>0, LogFacts DEF Types, Placed
  <2>2. i \in 1..Len(log[u]) /\ Accounted(u, i)
    BY <1>0, <2>1 DEF NothingLost
  <2>. QED
    BY <1>0, <1>3, <2>2, AccountedKept
<1>. QED
  BY <1>1, <1>3, <1>4, <1>5, <1>6, DatabaseKept DEF IInv

LEMMA IInvStep == IInv /\ [Next]_vars => IInv'
<1> SUFFICES ASSUME IInv, [Next]_vars PROVE IInv'
  OBVIOUS
<1>1. ASSUME NEW r \in Readers, NEW t \in Topics, Handle(r, t) PROVE IInv'
  BY <1>1, FetchMessageStep, HandleGuardsStep, RunOnceStep, markFailedStep, InsertLocalDLQStep,
     PostCommitStep, CommitMessagesStep DEF Handle
<1>2. ASSUME NEW r \in Readers, NEW t \in Topics, RunOnceFails(r, t) PROVE IInv'
  BY <1>2, RunOnceFailsStep
<1>3. ASSUME NEW r \in Readers, NEW t \in Topics, Rebalance(r, t) PROVE IInv'
  BY <1>3, RebalanceStep
<1>4. ASSUME NEW r \in Readers, Crash(r) PROVE IInv'
  BY <1>4, CrashStep
<1>5. ASSUME NEW p \in Places, Replay(p) PROVE IInv'
  BY <1>5, ReplayStep
<1>6. CASE UNCHANGED vars
  <2>1. UNCHANGED <<receipts, conflicts, finality, dlq, log, offset, owner, pc, pos, applied, redone>>
    BY <1>6 DEF vars, dbVars, kafkaVars, readerVars, ghosts
  <2>2. Types' /\ Placed' /\ Behind' /\ NothingLost'
    BY <2>1 DEF IInv, Types, Placed, Behind, NothingLost, Accounted
  <2>. QED
    BY <2>1, <2>2, DatabaseKept DEF IInv
<1>. QED
  BY <1>1, <1>2, <1>3, <1>4, <1>5, <1>6 DEF Next

(* The inductive invariant holds in every reachable state.                 *)
THEOREM Invariance == Spec => []IInv
<1>1. Init => IInv
  BY IInvInit
<1>2. IInv /\ [Next]_vars => IInv'
  BY IInvStep
<1>. QED
  BY <1>1, <1>2, PTL DEF Spec

-----------------------------------------------------------------------------
(* No committed offset passes a message that left no trace, for any        *)
(* topics and readers: a rebalance in the middle of a handler, a commit    *)
(* that fails, a crash and a lost answer of RunOnce included               *)
(* (consumeSingleTopic, RunOnce, the local DLQ).                           *)
THEOREM OffsetsPassNothing == Spec => []NothingLost
<1>1. IInv => NothingLost
  BY DEF IInv
<1>. QED
  BY <1>1, Invariance, PTL

(* An event is counted once, however many readers, redeliveries and        *)
(* retries handle it, unless markFailed overwrote its final receipt        *)
(* (runOnceAttempt, markFailed).                                           *)
THEOREM EventsCountOnce == Spec => []CountedOnce
<1>1. IInv => CountedOnce
  <2> SUFFICES ASSUME IInv, NEW e \in EventIds, applied[e] > 1, e \notin redone PROVE FALSE
    BY DEF CountedOnce
  <2>1. applied[e] <= 1 /\ applied[e] \in Nat
    BY DEF IInv, Types, CountedIsFinal
  <2>. QED
    BY <2>1
<1>. QED
  BY <1>1, Invariance, PTL
-----------------------------------------------------------------------------
(* What event e writes to field f, whichever row it is in.                 *)
Whitelisted(e) == "whitelisted" \in e.flags
AtRisk(e) == "duplicateRisk" \in e.flags
Ambiguous(e) == e.type = "MATCH_AMBIGUOUS"

Amount(e, f) ==
    CASE f \in {"unmatched", "orphan", "reversal", "observed_settled", "confirmed_duplicate",
                "over", "settled_amount", "total_amount", "manual_review_amount",
                "intent_total"} -> e.amount
      [] f = "total_intended" -> IF e.kind = "VarianceRecord" THEN 0 ELSE e.amount
      [] f = "total" -> IF e.kind = "BatchSummaryUpdated" THEN e.amount ELSE 1
      [] f = "pending" -> IF e.kind = "IntentCreated" THEN 1 ELSE -1
      [] f = "missing_ref_count" ->
            IF e.kind = "VarianceRecord" THEN Bit("noBankRef" \in e.flags) ELSE 1
      [] f \in {"under", "unexplained_variance"} -> IF Whitelisted(e) THEN 0 ELSE e.amount
      [] f = "whitelisted_deduction" -> IF Whitelisted(e) THEN e.amount ELSE 0
      [] f = "duplicate_risk" -> IF AtRisk(e) THEN e.amount ELSE 0
      [] f \in {"duplicate_risk_count", "p2_duplicates"} -> Bit(AtRisk(e))
      [] f \in {"ambiguous_amount", "value_at_risk"} -> IF Ambiguous(e) THEN e.amount ELSE 0
      [] f \in {"ambiguous_count", "ambiguous"} -> Bit(Ambiguous(e))
      [] f \in {"unresolved_count", "unresolved"} -> Bit(e.type = "MATCH_UNRESOLVED")
      [] f = "no_carriers_count" -> Bit("noCarriers" \in e.flags)
      [] f = "low_confidence" -> Bit(isLowConfidence(e))
      [] f = "collision_count" -> Bit(hasCollision(e))
      [] f = "successful" -> Bit(isSuccessfulDecision(e))
      [] f = "carrier_complete" -> Bit("richCarrier" \in e.flags)
      [] f = "with_replay_equivalence" -> Bit("replayEquivalent" \in e.flags)
      [] f = "with_kyc_checked" -> Bit("kyc" \in e.flags)
      [] f = "with_aml_checked" -> Bit("aml" \in e.flags)
      [] f = "governance_approved" -> Bit(e.type = "APPROVED")
      [] f = "governance_rejected" -> Bit(e.type = "REJECTED")
      [] f = "governance_escalated" -> Bit(e.type = "ESCALATED")
      [] f = "with_settlement_leaf" -> Bit("settlementLeaf" \in e.flags)
      [] f = "with_attachment_leaf" -> Bit("attachmentLeaf" \in e.flags)
      [] f = "with_ref" -> Bit("providerRef" \in e.flags)
      [] f = "missing_ref" -> Bit("providerRef" \notin e.flags)
      [] f = "with_conflicts" -> Bit("conflict" \in e.flags)
      [] f = "matched" -> Bit(e.type = "MATCHED")
      [] f = "unmatched_stmt" -> Bit(e.type # "MATCHED")
      [] f \in {"p2_missing_ref", "missing_client_ref"} -> Bit("noClientRef" \in e.flags)
      [] f \in {"client_payout_ref_present", "client_ref_present"} ->
            Bit("noClientRef" \notin e.flags)
      [] f = "bank_ref_present" -> Bit("noBankRef" \notin e.flags)
      [] f = "missing_bank_ref" -> Bit("noBankRef" \in e.flags)
      [] f = "orphans" -> Bit("unready" \in e.flags /\ e.type = "SETTLED")
      [] OTHER -> 1

Scope(e) == resolveBatchScope(e.batch)

(* A write of event e: to a row, by the field's amount.  A batch's health  *)
(* and its contract's total are set, everything else is added; only the    *)
(* pending counter is ever decremented.  Of the tenant's and the batches'  *)
(* rows an event touches those of its day and of its batch, and never the  *)
(* totals.                                                                 *)
Sound(e, w) ==
    /\ w = <<<<w[1][1], w[1][2]>>, w[2], w[3]>> /\ w[1][1] \in Row
    /\ w[3] = Amount(e, w[1][2]) /\ w[3] \in Int
    /\ w[1][2] # "pending" => w[3] \in Nat
    /\ w[2] = IF w[1][2] = "total" /\ w[1][1][1] \in {"health", "contract"} THEN "set" ELSE "add"
    /\ w[1][1][1] \in {"tenant", "batch"} =>
          /\ w[1][2] \notin {"total", "pending"}
          /\ w[1][1] \in {<<"tenant", e.day>>, <<"batch", Scope(e)>>}

(* What is added to the tenant's row is added to the batch's row.          *)
Mirrors(e, W) ==
    \A f, n : <<<<<<"tenant", e.day>>, f>>, "add", n>> \in W
              <=> <<<<<<"batch", Scope(e)>>, f>>, "add", n>> \in W

Consistent(e, W) == (\A w \in W : Sound(e, w)) /\ Mirrors(e, W)

(* The fields of one statement.                                            *)
Increments(e, F) ==
    \A f \in DOMAIN F : F[f] \in Nat /\ F[f] = Amount(e, f) /\ f \notin {"total", "pending"}

(* Consistent writes are built from consistent writes.                     *)
LEMMA UnionConsistent ==
    ASSUME NEW e, NEW A, NEW B, Consistent(e, A), Consistent(e, B)
    PROVE  Consistent(e, A \cup B)
  BY DEF Consistent, Mirrors

LEMMA WhenConsistent ==
    ASSUME NEW e, NEW b, NEW A, b => Consistent(e, A)
    PROVE  Consistent(e, When(b, A))
  BY DEF Consistent, Mirrors, When

LEMMA NothingConsistent == \A e : Consistent(e, {})
  BY DEF Consistent, Mirrors

LEMMA AddConsistent ==
    ASSUME NEW e, NEW kind, NEW key, <<kind, key>> \in Row, kind \notin {"tenant", "batch"},
           NEW F, Increments(e, F)
    PROVE  Consistent(e, Add(<<kind, key>>, F))
<1> DEFINE row == <<kind, key>>
<1>1. ASSUME NEW f \in DOMAIN F PROVE Sound(e, <<<<row, f>>, "add", F[f]>>)
  BY <1>1 DEF Sound, Increments
<1>2. \A w \in Add(row, F) : Sound(e, w)
  BY <1>1 DEF Add
<1>3. Mirrors(e, Add(row, F))
  BY DEF Mirrors, Add
<1>. QED
  BY <1>2, <1>3 DEF Consistent

(* A BothScopes method writes the tenant's row and the batch's row alike.  *)
LEMMA BothScopesConsistent ==
    ASSUME NEW e \in Bodies, NEW F, Increments(e, F)
    PROVE  Consistent(e, BothScopes(e, F))
<1>1. Scope(e) \in Batches \cup {Unbatched}
  BY BodyAssumption DEF Scope, resolveBatchScope
<1>2. <<"tenant", e.day>> \in Row /\ <<"batch", Scope(e)>> \in Row
  BY <1>1, BodyAssumption DEF Row
<1>3. BothScopes(e, F) = Add(<<"tenant", e.day>>, F) \cup Add(<<"batch", Scope(e)>>, F)
  BY <1>1 DEF BothScopes, When, Scope
<1>4. ASSUME NEW row \in {<<"tenant", e.day>>, <<"batch", Scope(e)>>}, NEW f \in DOMAIN F
      PROVE  Sound(e, <<<<row, f>>, "add", F[f]>>)
  BY <1>2, <1>4 DEF Sound, Increments
<1>5. \A w \in BothScopes(e, F) : Sound(e, w)
  BY <1>3, <1>4 DEF Add
<1>6. Mirrors(e, BothScopes(e, F))
  <2>1. ASSUME NEW f, NEW n
        PROVE  <<<<<<"tenant", e.day>>, f>>, "add", n>> \in BothScopes(e, F)
               <=> f \in DOMAIN F /\ n = F[f]
    BY <1>3 DEF Add
  <2>2. ASSUME NEW f, NEW n
        PROVE  <<<<<<"batch", Scope(e)>>, f>>, "add", n>> \in BothScopes(e, F)
               <=> f \in DOMAIN F /\ n = F[f]
    BY <1>3 DEF Add
  <2>. QED
    BY <2>1, <2>2 DEF Mirrors
<1>. QED
  BY <1>5, <1>6 DEF Consistent

(* The daily rows and the batch contracts only count.                      *)
LEMMA DailyConsistent ==
    ASSUME NEW e \in Bodies, NEW F, Increments(e, F),
           NEW kind \in {"corridor", "kpi", "source", "provider", "bank"}
    PROVE  Consistent(e, Daily(kind, e, F))
<1>1. <<kind, e.day>> \in Row
  BY BodyAssumption DEF Row
<1>. QED
  BY <1>1, AddConsistent DEF Daily

LEMMA ContractConsistent ==
    ASSUME NEW e \in Bodies, NEW F, Increments(e, F)
    PROVE  Consistent(e, Contract(e, F))
<1>1. CASE e.batch = NoBatch
  BY <1>1, NothingConsistent DEF Contract, When
<1>2. CASE e.batch # NoBatch
  <2>1. <<"contract", e.batch>> \in Row
    BY <1>2, BodyAssumption DEF Row
  <2>2. Consistent(e, Add(<<"contract", e.batch>>, F))
    BY <2>1, AddConsistent
  <2>. QED
    BY <1>2, <2>2 DEF Contract, When
<1>. QED
  BY <1>1, <1>2

(* The pending counter, the density row and the absolute batch summary.    *)
LEMMA PendingConsistent ==
    ASSUME NEW e \in Bodies
    PROVE  /\ e.kind = "IntentCreated" => Consistent(e, AtomicIncrementPending(e))
           /\ e.kind = "FinalityCertIssued" => Consistent(e, AtomicDecrementPending(e))
<1>1. <<"corridor", e.day>> \in Row
  BY BodyAssumption DEF Row
<1>2. ASSUME NEW n \in {1, -1}, n = Amount(e, "pending")
      PROVE  Consistent(e, Daily("corridor", e, [pending |-> n]))
  <2>1. Daily("corridor", e, [pending |-> n]) = {<<<<<<"corridor", e.day>>, "pending">>, "add", n>>}
    BY DEF Daily, Add
  <2>2. Sound(e, <<<<<<"corridor", e.day>>, "pending">>, "add", n>>)
    BY <1>1, <1>2 DEF Sound
  <2>. QED
    BY <2>1, <2>2 DEF Consistent, Mirrors
<1>. QED
  BY <1>2 DEF AtomicIncrementPending, AtomicDecrementPending, Amount

LEMMA DensityConsistent ==
    ASSUME NEW e \in Bodies, e.kind = "IntentCreated"
    PROVE  Consistent(e, AtomicUpsertBatchIntentDensity(e))
<1>1. CASE e.batch = NoBatch
  BY <1>1, NothingConsistent DEF AtomicUpsertBatchIntentDensity, When
<1>2. CASE e.batch # NoBatch
  <2>1. <<"density", e.batch>> \in Row
    BY <1>2, BodyAssumption DEF Row
  <2>2. AtomicUpsertBatchIntentDensity(e) = {<<<<<<"density", e.batch>>, "total">>, "add", 1>>}
    BY <1>2 DEF AtomicUpsertBatchIntentDensity, When, Add
  <2>3. Amount(e, "total") = 1
    BY DEF Amount
  <2>4. Sound(e, <<<<<<"density", e.batch>>, "total">>, "add", 1>>)
    BY <2>1, <2>3 DEF Sound
  <2>. QED
    BY <2>2, <2>4 DEF Consistent, Mirrors
<1>. QED
  BY <1>1, <1>2

LEMMA SummaryConsistent ==
    ASSUME NEW e \in Bodies, e.kind = "BatchSummaryUpdated"
    PROVE  /\ Consistent(e, AtomicUpdateBatchHealthFull(e))
           /\ Consistent(e, UpsertBatchContract(e))
<1>1. e.amount \in Nat /\ Amount(e, "total") = e.amount
  BY BodyAssumption DEF Amount
<1>2. ASSUME NEW kind \in {"health", "contract"}
      PROVE  Consistent(e, Put(<<kind, e.batch>>, [total |-> e.amount]))
  <2>1. <<kind, e.batch>> \in Row
    BY BodyAssumption DEF Row
  <2>2. Put(<<kind, e.batch>>, [total |-> e.amount])
           = {<<<<<<kind, e.batch>>, "total">>, "set", e.amount>>}
    BY DEF Put
  <2>3. Sound(e, <<<<<<kind, e.batch>>, "total">>, "set", e.amount>>)
    BY <1>1, <2>1 DEF Sound
  <2>. QED
    BY <2>2, <2>3 DEF Consistent, Mirrors
<1>. QED
  BY <1>2 DEF AtomicUpdateBatchHealthFull, UpsertBatchContract

(* The handlers, one by one: no two of their statements disagree about a   *)
(* counter, and none writes one scope without the other.                   *)
LEMMA IntentCreatedConsistent ==
    ASSUME NEW e \in Bodies, e.kind = "IntentCreated"
    PROVE  Consistent(e, HandleIntentCreated(e))
<1>1. e.amount > 0 => Consistent(e, AtomicIncrementLeakageIntendedTotalBothScopes(e))
  BY BothScopesConsistent, BodyAssumption
     DEF AtomicIncrementLeakageIntendedTotalBothScopes, Increments, Amount, Bit
<1>2. Consistent(e, AtomicIncrementPending(e))
  BY PendingConsistent
<1>3. AtRisk(e) => Consistent(e, AtomicIncrementLeakageDuplicateRiskBothScopes(e))
  BY BothScopesConsistent, BodyAssumption
     DEF AtomicIncrementLeakageDuplicateRiskBothScopes, Increments, Amount, Bit, AtRisk
<1>4. AtRisk(e) => Consistent(e, AtomicAddBatchDuplicateRiskExposure(e))
  BY ContractConsistent, BodyAssumption
     DEF AtomicAddBatchDuplicateRiskExposure, Increments, Amount, Bit, AtRisk
<1>5. Consistent(e, AtomicIncrementBatchMissingRef(e))
  BY ContractConsistent, BodyAssumption
     DEF AtomicIncrementBatchMissingRef, Increments, Amount, Bit
<1>6. Consistent(e, AtomicUpsertBatchIntentDensity(e))
  BY DensityConsistent
<1>7. Consistent(e, AtomicUpsertSourceQuality(e))
  BY DailyConsistent, BodyAssumption
     DEF AtomicUpsertSourceQuality, Increments, Amount, Bit, AtRisk
<1>8. Consistent(e, AtomicIncrementPatternP2WithAmount(e))
  BY DailyConsistent, BodyAssumption
     DEF AtomicIncrementPatternP2WithAmount, Increments, Amount, Bit, AtRisk
<1>9. Consistent(e, AtomicAccumulateIntentFeatures(e))
  BY ContractConsistent, BodyAssumption
     DEF AtomicAccumulateIntentFeatures, Increments, Amount, Bit
<1>10. Consistent(e, AtomicRecordDefensibilityIntentQualityBothScopes(e))
  BY BothScopesConsistent, BodyAssumption
     DEF AtomicRecordDefensibilityIntentQualityBothScopes, Increments, Amount, Bit
<1>. QED
  BY <1>1, <1>2, <1>3, <1>4, <1>5, <1>6, <1>7, <1>8, <1>9, <1>10, UnionConsistent, WhenConsistent
     DEF HandleIntentCreated, AtRisk, Whitelisted

LEMMA DispatchCreatedConsistent ==
    ASSUME NEW e \in Bodies, e.kind = "DispatchCreated"
    PROVE  Consistent(e, HandleDispatchCreated(e))
<1>1. Consistent(e, AtomicIncrementRetryAttempt(e))
  BY DailyConsistent, BodyAssumption DEF AtomicIncrementRetryAttempt, Increments, Amount, Bit
<1>2. Consistent(e, AtomicIncrementFirstAttempt(e))
  BY DailyConsistent, BodyAssumption DEF AtomicIncrementFirstAttempt, Increments, Amount, Bit
<1>. QED
  BY <1>1, <1>2, UnionConsistent, WhenConsistent
     DEF HandleDispatchCreated, AtRisk, Whitelisted

LEMMA OutcomeNormalizedConsistent ==
    ASSUME NEW e \in Bodies, e.kind = "OutcomeNormalized"
    PROVE  Consistent(e, HandleOutcomeNormalized(e))
<1>1. Consistent(e, AtomicIncrementFailureReason(e))
  BY DailyConsistent, BodyAssumption DEF AtomicIncrementFailureReason, Increments, Amount, Bit
<1>. QED
  BY <1>1, UnionConsistent, WhenConsistent
     DEF HandleOutcomeNormalized, AtRisk, Whitelisted

LEMMA FinalityCertIssuedConsistent ==
    ASSUME NEW e \in Bodies, e.kind = "FinalityCertIssued"
    PROVE  Consistent(e, HandleFinalityCertIssued(e))
<1>1. Consistent(e, AtomicIncrementSuccess(e))
  BY DailyConsistent, BodyAssumption DEF AtomicIncrementSuccess, Increments, Amount, Bit
<1>2. Consistent(e, AtomicIncrementFailure(e))
  BY DailyConsistent, BodyAssumption DEF AtomicIncrementFailure, Increments, Amount, Bit
<1>3. Consistent(e, AtomicRecordLatencySample(e))
  BY DailyConsistent, BodyAssumption DEF AtomicRecordLatencySample, Increments, Amount, Bit
<1>4. Consistent(e, AtomicDecrementPending(e))
  BY PendingConsistent
<1>5. Consistent(e, AtomicRecordProviderRef(e))
  BY DailyConsistent, BodyAssumption DEF AtomicRecordProviderRef, Increments, Amount, Bit
<1>6. Consistent(e, AtomicRecordFusionConflict(e))
  BY DailyConsistent, BodyAssumption DEF AtomicRecordFusionConflict, Increments, Amount, Bit
<1>7. Consistent(e, AtomicIncrementRetryRecovered(e))
  BY DailyConsistent, BodyAssumption DEF AtomicIncrementRetryRecovered, Increments, Amount, Bit
<1>8. Consistent(e, AtomicIncrementSLAOnTime(e))
  BY DailyConsistent, BodyAssumption DEF AtomicIncrementSLAOnTime, Increments, Amount, Bit
<1>. QED
  BY <1>1, <1>2, <1>3, <1>4, <1>5, <1>6, <1>7, <1>8, UnionConsistent, WhenConsistent
     DEF HandleFinalityCertIssued, AtRisk, Whitelisted

LEMMA FinalContractUpdatedConsistent ==
    ASSUME NEW e \in Bodies, e.kind = "FinalContractUpdated"
    PROVE  Consistent(e, HandleFinalContractUpdated(e))
  BY NothingConsistent DEF HandleFinalContractUpdated

LEMMA StatementMatchConsistent ==
    ASSUME NEW e \in Bodies, e.kind = "StatementMatch"
    PROVE  Consistent(e, HandleStatementMatch(e))
<1>1. Consistent(e, AtomicRecordStatementMatch(e))
  BY DailyConsistent, BodyAssumption DEF AtomicRecordStatementMatch, Increments, Amount, Bit
<1>. QED
  BY <1>1, UnionConsistent, WhenConsistent
     DEF HandleStatementMatch, AtRisk, Whitelisted

LEMMA EvidencePackReadyConsistent ==
    ASSUME NEW e \in Bodies, e.kind = "EvidencePackReady"
    PROVE  Consistent(e, HandleEvidencePackReady(e))
<1>1. Consistent(e, AtomicIncrementEvidence(e))
  BY DailyConsistent, BodyAssumption DEF AtomicIncrementEvidence, Increments, Amount, Bit
<1>2. Consistent(e, AtomicIncrementDefensibilityEvidencePackBothScopes(e))
  BY BothScopesConsistent, BodyAssumption
     DEF AtomicIncrementDefensibilityEvidencePackBothScopes, Increments, Amount, Bit
<1>3. Consistent(e, AtomicRecordEvidencePackQualityBothScopes(e))
  BY BothScopesConsistent, BodyAssumption
     DEF AtomicRecordEvidencePackQualityBothScopes, Increments, Amount, Bit
<1>4. Consistent(e, AtomicRecordEvidenceLeafCoverage(e))
  BY DailyConsistent, BodyAssumption
     DEF AtomicRecordEvidenceLeafCoverage, Increments, Amount, Bit
<1>. QED
  BY <1>1, <1>2, <1>3, <1>4, UnionConsistent, WhenConsistent
     DEF HandleEvidencePackReady, AtRisk, Whitelisted

LEMMA DLQItemConsistent ==
    ASSUME NEW e \in Bodies, e.kind = "DLQItem"
    PROVE  Consistent(e, HandleDLQItem(e))
<1>1. Consistent(e, AtomicUpsertSourceQuality(e))
  BY DailyConsistent, BodyAssumption
     DEF AtomicUpsertSourceQuality, Increments, Amount, Bit, AtRisk
<1>. QED
  BY <1>1, UnionConsistent, WhenConsistent
     DEF HandleDLQItem, AtRisk, Whitelisted

LEMMA DLQEventConsistent ==
    ASSUME NEW e \in Bodies, e.kind = "DLQEvent"
    PROVE  Consistent(e, HandleDLQEvent(e))
<1>1. Consistent(e, AtomicIncrementDLQ(e))
  BY DailyConsistent, BodyAssumption DEF AtomicIncrementDLQ, Increments, Amount, Bit
<1>. QED
  BY <1>1, UnionConsistent, WhenConsistent
     DEF HandleDLQEvent, AtRisk, Whitelisted

LEMMA SettlementCreatedConsistent ==
    ASSUME NEW e \in Bodies, e.kind = "SettlementCreated"
    PROVE  Consistent(e, HandleSettlementCreated(e))
<1>1. Consistent(e, AtomicRecordLeakageBothScopes(e, "ORPHAN_SETTLEMENT"))
  BY BothScopesConsistent, BodyAssumption
     DEF AtomicRecordLeakageBothScopes, Increments, Amount, Bit
<1>2. Consistent(e, AtomicAddBatchOrphanAmount(e))
  BY ContractConsistent, BodyAssumption DEF AtomicAddBatchOrphanAmount, Increments, Amount, Bit
<1>3. Consistent(e, AtomicIncrementSettledVolumeBothScopes(e))
  BY BothScopesConsistent, BodyAssumption
     DEF AtomicIncrementSettledVolumeBothScopes, Increments, Amount, Bit
<1>4. Consistent(e, AtomicRecordCarrierCompleteness(e))
  BY DailyConsistent, BodyAssumption
     DEF AtomicRecordCarrierCompleteness, Increments, Amount, Bit
<1>5. Consistent(e, AtomicRecordRCAQuality(e))
  BY DailyConsistent, BodyAssumption DEF AtomicRecordRCAQuality, Increments, Amount, Bit
<1>6. Consistent(e, AtomicUpsertProviderQuality(e))
  BY DailyConsistent, BodyAssumption
     DEF AtomicUpsertProviderQuality, Increments, Amount, Bit, Ambiguous
<1>7. Consistent(e, AtomicUpsertBankQuality(e))
  BY DailyConsistent, BodyAssumption DEF AtomicUpsertBankQuality, Increments, Amount, Bit
<1>8. Consistent(e, AtomicAddBatchBankRefStats(e))
  BY ContractConsistent, BodyAssumption DEF AtomicAddBatchBankRefStats, Increments, Amount, Bit
<1>9. Consistent(e, AtomicRecordDefensibilityMappingConfidenceBothScopes(e))
  BY BothScopesConsistent, BodyAssumption
     DEF AtomicRecordDefensibilityMappingConfidenceBothScopes, Increments, Amount, Bit
<1>. QED
  BY <1>1, <1>2, <1>3, <1>4, <1>5, <1>6, <1>7, <1>8, <1>9, UnionConsistent, WhenConsistent
     DEF HandleSettlementCreated, AtRisk, Whitelisted

LEMMA AttachmentDecisionConsistent ==
    ASSUME NEW e \in Bodies, e.kind = "AttachmentDecision"
    PROVE  Consistent(e, HandleAttachmentDecision(e))
<1>1. Consistent(e, AtomicRecordLeakageBothScopes(e, "UNMATCHED_INTENT"))
  BY BothScopesConsistent, BodyAssumption
     DEF AtomicRecordLeakageBothScopes, Increments, Amount, Bit
<1>2. Consistent(e, AtomicAddBatchUnmatchedAmount(e))
  BY ContractConsistent, BodyAssumption
     DEF AtomicAddBatchUnmatchedAmount, Increments, Amount, Bit
<1>3. Consistent(e, AtomicIncrementLeakageConfirmedDuplicateBothScopes(e))
  BY BothScopesConsistent, BodyAssumption
     DEF AtomicIncrementLeakageConfirmedDuplicateBothScopes, Increments, Amount, Bit
<1>4. Consistent(e, AtomicRecordAttachmentDecisionBothScopes(e))
  BY BothScopesConsistent, BodyAssumption
     DEF AtomicRecordAttachmentDecisionBothScopes, Increments, Amount, Bit, Ambiguous
<1>5. Consistent(e, AtomicUpsertProviderQuality(e))
  BY DailyConsistent, BodyAssumption
     DEF AtomicUpsertProviderQuality, Increments, Amount, Bit, Ambiguous
<1>6. Consistent(e, AtomicIncrementDefensibilityIntentBothScopes(e))
  BY BothScopesConsistent, BodyAssumption
     DEF AtomicIncrementDefensibilityIntentBothScopes, Increments, Amount, Bit
<1>7. Consistent(e, AtomicAddBatchClientRefStats(e))
  BY ContractConsistent, BodyAssumption
     DEF AtomicAddBatchClientRefStats, Increments, Amount, Bit
<1>. QED
  BY <1>1, <1>2, <1>3, <1>4, <1>5, <1>6, <1>7, UnionConsistent, WhenConsistent
     DEF HandleAttachmentDecision, AtRisk, Whitelisted

LEMMA VarianceRecordConsistent ==
    ASSUME NEW e \in Bodies, e.kind = "VarianceRecord"
    PROVE  Consistent(e, HandleVarianceRecord(e))
<1>1. Consistent(e, AtomicRecordOverSettlementBothScopes(e))
  BY BothScopesConsistent, BodyAssumption
     DEF AtomicRecordOverSettlementBothScopes, Increments, Amount, Bit
<1>2. Consistent(e, AtomicAddBatchReversalExposure(e))
  BY ContractConsistent, BodyAssumption
     DEF AtomicAddBatchReversalExposure, Increments, Amount, Bit
<1>3. Consistent(e, AtomicAddBatchVarianceBreakdown(e))
  BY ContractConsistent, BodyAssumption
     DEF AtomicAddBatchVarianceBreakdown, Increments, Amount, Bit, Whitelisted
<1>4. Consistent(e, AtomicRecordVarianceBothScopes(e))
  BY BothScopesConsistent, BodyAssumption
     DEF AtomicRecordVarianceBothScopes, Increments, Amount, Bit, Whitelisted
<1>5. Consistent(e, AtomicIncrementValueDateMismatchBothScopes(e))
  BY BothScopesConsistent, BodyAssumption
     DEF AtomicIncrementValueDateMismatchBothScopes, Increments, Amount, Bit
<1>6. Consistent(e, AtomicIncrementDefensibilityWeakEvidenceBothScopes(e))
  BY BothScopesConsistent, BodyAssumption
     DEF AtomicIncrementDefensibilityWeakEvidenceBothScopes, Increments, Amount, Bit
<1>7. Consistent(e, AtomicAppendPatternP6WithP50(e))
  BY DailyConsistent, BodyAssumption DEF AtomicAppendPatternP6WithP50, Increments, Amount, Bit
<1>8. Consistent(e, AtomicIncrementCrossPeriod(e))
  BY DailyConsistent, BodyAssumption DEF AtomicIncrementCrossPeriod, Increments, Amount, Bit
<1>9. Whitelisted(e) => Consistent(e, AtomicRecordWhitelistedDeduction(e))
  BY DailyConsistent, BodyAssumption
     DEF AtomicRecordWhitelistedDeduction, Increments, Amount, Bit, Whitelisted
<1>. QED
  BY <1>1, <1>2, <1>3, <1>4, <1>5, <1>6, <1>7, <1>8, <1>9, UnionConsistent, WhenConsistent
     DEF HandleVarianceRecord, AtRisk, Whitelisted

LEMMA BatchSummaryUpdatedConsistent ==
    ASSUME NEW e \in Bodies, e.kind = "BatchSummaryUpdated"
    PROVE  Consistent(e, HandleBatchSummaryUpdated(e))
<1>1. Consistent(e, AtomicUpdateBatchHealthFull(e))
  BY SummaryConsistent
<1>2. Consistent(e, UpsertBatchContract(e))
  BY SummaryConsistent
<1>. QED
  BY <1>1, <1>2, UnionConsistent, WhenConsistent
     DEF HandleBatchSummaryUpdated, AtRisk, Whitelisted

LEMMA GovernanceDecisionConsistent ==
    ASSUME NEW e \in Bodies, e.kind = "GovernanceDecision"
    PROVE  Consistent(e, HandleGovernanceDecision(e))
<1>1. Consistent(e, AtomicRecordGovernanceCoverageBothScopes(e))
  BY BothScopesConsistent, BodyAssumption
     DEF AtomicRecordGovernanceCoverageBothScopes, Increments, Amount, Bit
<1>. QED
  BY <1>1, UnionConsistent, WhenConsistent
     DEF HandleGovernanceDecision, AtRisk, Whitelisted

(* Every event of every kind.                                              *)
LEMMA WritesConsistent ==
    ASSUME NEW e \in Bodies
    PROVE  Consistent(e, EventWrites[e])
<1>1. EventWrites[e] = Writes(e)
  BY DEF EventWrites
<1>2. Consistent(e, Writes(e))
  BY BodyAssumption, IntentCreatedConsistent, DispatchCreatedConsistent,
     OutcomeNormalizedConsistent, FinalityCertIssuedConsistent, FinalContractUpdatedConsistent,
     StatementMatchConsistent, EvidencePackReadyConsistent, DLQItemConsistent,
     DLQEventConsistent, SettlementCreatedConsistent, AttachmentDecisionConsistent,
     VarianceRecordConsistent, BatchSummaryUpdatedConsistent, GovernanceDecisionConsistent
     DEF Writes
<1>. QED
  BY <1>1, <1>2

(* No transaction writes a counter twice.                                  *)
LEMMA OneWritePerCounter ==
    ASSUME NEW e \in Bodies, NEW w \in EventWrites[e], NEW v \in EventWrites[e], w[1] = v[1]
    PROVE  w = v
<1>1. Sound(e, w) /\ Sound(e, v)
  BY WritesConsistent DEF Consistent
<1>2. w[2] = v[2] /\ w[3] = v[3]
  BY <1>1 DEF Sound
<1>3. PICK k, a, n : k = w[1] /\ a = w[2] /\ n = w[3]
  OBVIOUS
<1>4. w = <<k, a, n>> /\ v = <<k, a, n>>
  BY <1>1, <1>2, <1>3 DEF Sound
<1>. QED
  BY <1>4

(* The projections are counters: natural numbers in rows there are.        *)
Counters(P) == \A k \in DOMAIN P : k = <<k[1], k[2]>> /\ k[1] \in Row /\ P[k] \in Nat

WrittenBy(e) == {w[1] : w \in EventWrites[e]}

Upserted(e, P, U) ==
    /\ Counters(U) /\ DOMAIN U = DOMAIN P \cup WrittenBy(e)
    /\ \A k : k \notin WrittenBy(e) => Value(U, k) = Value(P, k)
    /\ \A w \in EventWrites[e] :
          w[2] = "add" /\ w[1][2] # "pending" => Value(U, w[1]) = Value(P, w[1]) + w[3]

(* The statements of a transaction, applied.                               *)
LEMMA UpsertFacts ==
    ASSUME NEW e \in Bodies, NEW P, Counters(P), NEW U, U = Upsert(P, EventWrites[e])
    PROVE  Upserted(e, P, U)
<1> DEFINE W == EventWrites[e]
           new(k) == LET w == CHOOSE v \in W : v[1] = k
                     IN  IF w[2] = "set" THEN w[3] ELSE AtLeastZero(Value(P, k) + w[3])
<1>1. U = [k \in DOMAIN P \cup WrittenBy(e) |-> IF \E w \in W : w[1] = k THEN new(k) ELSE P[k]]
  BY DEF Upsert, WrittenBy
<1>2. DOMAIN U = DOMAIN P \cup WrittenBy(e)
  BY <1>1
<1>3. ASSUME NEW k, k \notin WrittenBy(e)
      PROVE  Value(U, k) = Value(P, k)
  BY <1>1, <1>3 DEF Value, WrittenBy
<1>4. ASSUME NEW w \in W
      PROVE  /\ U[w[1]] = IF w[2] = "set" THEN w[3] ELSE AtLeastZero(Value(P, w[1]) + w[3])
             /\ w[1] \in DOMAIN U /\ Value(P, w[1]) \in Nat
             /\ Sound(e, w)
  <2>1. (CHOOSE v \in W : v[1] = w[1]) = w
    <3>1. PICK c : c = CHOOSE v \in W : v[1] = w[1]
      OBVIOUS
    <3>2. c \in W /\ c[1] = w[1]
      BY <3>1
    <3>. QED
      BY <3>1, <3>2, OneWritePerCounter
  <2>2. new(w[1]) = IF w[2] = "set" THEN w[3] ELSE AtLeastZero(Value(P, w[1]) + w[3])
    BY <2>1
  <2>3. w[1] \in WrittenBy(e)
    BY DEF WrittenBy
  <2>4. Value(P, w[1]) \in Nat
    BY DEF Value, Counters
  <2>. QED
    BY <1>1, <2>2, <2>3, <2>4, WritesConsistent DEF Consistent
<1>5. Counters(U)
  <2> SUFFICES ASSUME NEW k \in DOMAIN U PROVE k = <<k[1], k[2]>> /\ k[1] \in Row /\ U[k] \in Nat
    BY DEF Counters
  <2>1. CASE k \in WrittenBy(e)
    <3>1. PICK w \in W : w[1] = k
      BY <2>1 DEF WrittenBy
    <3>2. PICK n, v : n = w[3] /\ v = Value(P, k)
      OBVIOUS
    <3>3. /\ k = <<k[1], k[2]>> /\ k[1] \in Row
          /\ n \in Int /\ v \in Nat /\ (w[2] = "set" => n \in Nat)
      BY <1>4, <3>1, <3>2 DEF Sound
    <3>4. U[k] = IF w[2] = "set" THEN n ELSE AtLeastZero(v + n)
      BY <1>4, <3>1, <3>2
    <3>5. AtLeastZero(v + n) \in Nat
      BY <3>3 DEF AtLeastZero
    <3>. QED
      BY <3>3, <3>4, <3>5
  <2>2. CASE k \notin WrittenBy(e)
    BY <1>1, <1>2, <2>2 DEF Counters, WrittenBy
  <2>. QED
    BY <2>1, <2>2
<1>6. ASSUME NEW w \in W, w[2] = "add", w[1][2] # "pending"
      PROVE  Value(U, w[1]) = Value(P, w[1]) + w[3]
  <2>1. PICK n, v : n = w[3] /\ v = Value(P, w[1])
    OBVIOUS
  <2>2. n \in Nat /\ v \in Nat
    BY <1>4, <1>6, <2>1 DEF Sound
  <2>3. AtLeastZero(v + n) = v + n
    BY <2>2 DEF AtLeastZero
  <2>. QED
    BY <1>4, <1>6, <2>1, <2>3 DEF Value
<1>. QED
  BY <1>2, <1>3, <1>5, <1>6 DEF Upserted

LeakageRow(row) == row[1] \in {"tenant", "batch"}

(* The whole transaction, the recomputed totals included.                  *)
LEMMA ProjectFacts ==
    ASSUME NEW e \in Bodies, NEW P, Counters(P), NEW Q, Q = Project(P, e)
    PROVE  /\ Counters(Q)
           /\ \A k : k \notin WrittenBy(e) /\ ~(LeakageRow(k[1]) /\ k[2] = "total") =>
                        Value(Q, k) = Value(P, k)
           /\ \A w \in EventWrites[e] :
                 w[2] = "add" /\ w[1][2] # "pending" => Value(Q, w[1]) = Value(P, w[1]) + w[3]
           /\ \A row \in Row :
                 LeakageRow(row) /\ Value(P, <<row, "total">>) = LeakageTotal(P, row) =>
                    Value(Q, <<row, "total">>) = LeakageTotal(Q, row)
<1> DEFINE W == EventWrites[e]
           stale == {row \in {w[1][1] : w \in W} : row[1] \in {"tenant", "batch"}}
<1>1. PICK U : U = Upsert(P, W)
  OBVIOUS
<1>2. Upserted(e, P, U)
  BY <1>1, UpsertFacts
<1>3. /\ Counters(U) /\ DOMAIN U = DOMAIN P \cup WrittenBy(e)
      /\ \A k : k \notin WrittenBy(e) => Value(U, k) = Value(P, k)
      /\ \A w \in W :
            w[2] = "add" /\ w[1][2] # "pending" => Value(U, w[1]) = Value(P, w[1]) + w[3]
  BY <1>2 DEF Upserted
<1>4. Q = [k \in DOMAIN U \cup {<<row, "total">> : row \in stale} |->
             IF k[2] = "total" /\ k[1] \in stale THEN LeakageTotal(U, k[1]) ELSE U[k]]
  BY <1>1 DEF Project, recomputeLeakageTotals
<1>5. ASSUME NEW k, ~(k[2] = "total" /\ k[1] \in stale)
      PROVE  Value(Q, k) = Value(U, k)
  BY <1>4, <1>5 DEF Value
<1>6. ASSUME NEW row \in stale
      PROVE  <<row, "total">> \in DOMAIN Q /\ Value(Q, <<row, "total">>) = LeakageTotal(U, row)
  BY <1>4 DEF Value
<1>7. \A w \in W : Sound(e, w)
  BY WritesConsistent DEF Consistent
<1>8. ASSUME NEW w \in W PROVE ~(w[1][2] = "total" /\ w[1][1] \in stale)
  BY <1>7 DEF Sound
<1>9. \A row : LeakageTotal(Q, row) = LeakageTotal(U, row)
  BY <1>5 DEF LeakageTotal
<1>10. \A k : Value(U, k) \in Nat
  BY <1>3 DEF Value, Counters
<1>11. \A row : LeakageTotal(U, row) \in Nat
  BY <1>10 DEF LeakageTotal
<1>12. Counters(Q)
  <2> SUFFICES ASSUME NEW k \in DOMAIN Q PROVE k = <<k[1], k[2]>> /\ k[1] \in Row /\ Q[k] \in Nat
    BY DEF Counters
  <2>1. CASE k[2] = "total" /\ k[1] \in stale
    <3>1. Q[k] \in Nat
      BY <1>4, <1>11, <2>1
    <3>2. k[1] \in Row
      BY <1>7, <2>1 DEF Sound
    <3>3. k = <<k[1], k[2]>>
      BY <1>3, <1>4 DEF Counters
    <3>. QED
      BY <3>1, <3>2, <3>3
  <2>2. CASE ~(k[2] = "total" /\ k[1] \in stale)
    BY <1>3, <1>4, <2>2 DEF Counters
  <2>. QED
    BY <2>1, <2>2
<1>13. ASSUME NEW row \in Row, LeakageRow(row),
              Value(P, <<row, "total">>) = LeakageTotal(P, row)
       PROVE  Value(Q, <<row, "total">>) = LeakageTotal(Q, row)
  <2>1. CASE row \in stale
    BY <1>6, <1>9, <2>1
  <2>2. CASE row \notin stale
    <3>1. \A f : <<row, f>> \notin WrittenBy(e)
      BY <1>13, <2>2 DEF WrittenBy, LeakageRow
    <3>2. \A f : Value(U, <<row, f>>) = Value(P, <<row, f>>)
      BY <1>3, <3>1
    <3>3. LeakageTotal(U, row) = LeakageTotal(P, row)
      BY <3>2 DEF LeakageTotal
    <3>4. Value(Q, <<row, "total">>) = Value(P, <<row, "total">>)
      BY <1>5, <2>2, <3>2
    <3>. QED
      BY <1>9, <1>13, <3>3, <3>4
  <2>. QED
    BY <2>1, <2>2
<1>14. ASSUME NEW k, k \notin WrittenBy(e), ~(LeakageRow(k[1]) /\ k[2] = "total")
       PROVE  Value(Q, k) = Value(P, k)
  BY <1>3, <1>5, <1>14 DEF LeakageRow
<1>15. ASSUME NEW w \in W, w[2] = "add", w[1][2] # "pending"
       PROVE  Value(Q, w[1]) = Value(P, w[1]) + w[3]
  BY <1>3, <1>5, <1>8, <1>15
<1>. QED
  BY <1>12, <1>13, <1>14, <1>15

-----------------------------------------------------------------------------
(* Sums in units.                                                          *)
Segment(x, a, n) == {x} \X (a+1..a+n)

(* A segment of n new units adds n.                                        *)
LEMMA AddUnits ==
    ASSUME NEW S, IsFiniteSet(S), NEW x, NEW a \in Nat, NEW n \in Nat,
           S \cap Segment(x, a, n) = {}
    PROVE  /\ IsFiniteSet(S \cup Segment(x, a, n))
           /\ Cardinality(S \cup Segment(x, a, n)) = Cardinality(S) + n
<1> DEFINE Y == Segment(x, a, n)
<1>1. IsFiniteSet(a+1..a+n) /\ Cardinality(a+1..a+n) = n
  <2>1. PICK b \in Int, c \in Int : b = a + 1 /\ c = a + n
    OBVIOUS
  <2>2. IsFiniteSet(b..c) /\ Cardinality(b..c) = IF b > c THEN 0 ELSE c - b + 1
    BY FS_Interval
  <2>. QED
    BY <2>1, <2>2
<1>2. IsFiniteSet({x}) /\ Cardinality({x}) = 1
  BY FS_Singleton
<1>3. IsFiniteSet(Y) /\ Cardinality(Y) = Cardinality({x}) * Cardinality(a+1..a+n)
  BY <1>1, <1>2, FS_Product DEF Segment
<1>4. Cardinality(Y) = n
  BY <1>1, <1>2, <1>3
<1>5. Cardinality(S \cap Y) = 0
  BY FS_EmptySet
<1>6. /\ IsFiniteSet(S \cup Y)
      /\ Cardinality(S \cup Y) = Cardinality(S) + Cardinality(Y) - Cardinality(S \cap Y)
  BY <1>3, FS_Union
<1>7. Cardinality(S) \in Nat
  BY FS_CardinalityType
<1>. QED
  BY <1>4, <1>5, <1>6, <1>7

(* A unit of a row: below the value of its counter.                        *)
LEMMA RowUnit ==
    ASSUME NEW P, Counters(P), NEW kind, NEW f, NEW u
    PROVE  u \in RowUnits(P, kind, f) <=>
             \E k : /\ k[1][1] = kind /\ k[2] = f
                    /\ \E j \in 1..Value(P, k) : u = <<k, j>>
<1>1. ASSUME u \in RowUnits(P, kind, f)
      PROVE  \E k : /\ k[1][1] = kind /\ k[2] = f
                    /\ \E j \in 1..Value(P, k) : u = <<k, j>>
  BY <1>1 DEF RowUnits, Value
<1>2. ASSUME NEW k, k[1][1] = kind, k[2] = f, NEW j \in 1..Value(P, k), u = <<k, j>>
      PROVE  u \in RowUnits(P, kind, f)
  <2>1. k \in DOMAIN P
    BY <1>2 DEF Value
  <2>2. j \in 1..P[k]
    BY <1>2, <2>1 DEF Value
  <2>. QED
    BY <1>2, <2>1, <2>2 DEF RowUnits
<1>. QED
  BY <1>1, <1>2

(* One counter of a kind and field grows by n: so does the sum.            *)
LEMMA SumGrows ==
    ASSUME NEW P, Counters(P), NEW Q, Counters(Q), NEW kind, NEW f, NEW k0,
           k0[1][1] = kind, k0[2] = f, NEW n \in Nat,
           \A k : k[1][1] = kind /\ k[2] = f /\ k # k0 => Value(Q, k) = Value(P, k),
           Value(Q, k0) = Value(P, k0) + n,
           IsFiniteSet(RowUnits(P, kind, f))
    PROVE  /\ IsFiniteSet(RowUnits(Q, kind, f))
           /\ Cardinality(RowUnits(Q, kind, f)) = Cardinality(RowUnits(P, kind, f)) + n
<1>1. PICK v \in Nat : v = Value(P, k0)
  BY DEF Value, Counters
<1>2. PICK S : S = RowUnits(P, kind, f)
  OBVIOUS
<1>3. S \cap Segment(k0, v, n) = {}
  <2> SUFFICES ASSUME NEW j \in v+1..v+n PROVE <<k0, j>> \notin S
    BY DEF Segment
  <2>1. ASSUME <<k0, j>> \in S PROVE FALSE
    <3>1. PICK k : /\ k[1][1] = kind /\ k[2] = f
                   /\ \E i \in 1..Value(P, k) : <<k0, j>> = <<k, i>>
      BY <1>2, <2>1, RowUnit
    <3>2. k = k0 /\ j \in 1..v
      BY <1>1, <3>1
    <3>. QED
      BY <3>2
  <2>. QED
    BY <2>1
<1>4. RowUnits(Q, kind, f) = S \cup Segment(k0, v, n)
  <2>1. ASSUME NEW u \in RowUnits(Q, kind, f) PROVE u \in S \cup Segment(k0, v, n)
    <3>1. PICK k, j : k[1][1] = kind /\ k[2] = f /\ j \in 1..Value(Q, k) /\ u = <<k, j>>
      BY RowUnit
    <3>2. CASE k = k0
      <4>1. j \in 1..v+n
        BY <1>1, <3>1, <3>2
      <4>2. CASE j \in 1..v
        <5>1. \E i \in 1..Value(P, k0) : u = <<k0, i>>
          BY <1>1, <3>1, <3>2, <4>2
        <5>. QED
          BY <1>2, <5>1, RowUnit
      <4>3. CASE j \in v+1..v+n
        BY <3>1, <3>2, <4>3 DEF Segment
      <4>. QED
        BY <4>1, <4>2, <4>3
    <3>3. CASE k # k0
      <4>1. \E i \in 1..Value(P, k) : u = <<k, i>>
        BY <3>1, <3>3
      <4>. QED
        BY <1>2, <3>1, <4>1, RowUnit
    <3>. QED
      BY <3>2, <3>3
  <2>2. ASSUME NEW u \in S PROVE u \in RowUnits(Q, kind, f)
    <3>1. PICK k, j : k[1][1] = kind /\ k[2] = f /\ j \in 1..Value(P, k) /\ u = <<k, j>>
      BY <1>2, RowUnit
    <3>2. j \in 1..Value(Q, k)
      BY <1>1, <3>1
    <3>3. \E i \in 1..Value(Q, k) : u = <<k, i>>
      BY <3>1, <3>2
    <3>. QED
      BY <3>1, <3>3, RowUnit
  <2>3. ASSUME NEW j \in v+1..v+n PROVE <<k0, j>> \in RowUnits(Q, kind, f)
    <3>1. j \in 1..Value(Q, k0)
      BY <1>1
    <3>. QED
      BY <3>1, RowUnit
  <2>. QED
    BY <2>1, <2>2, <2>3 DEF Segment
<1>5. /\ IsFiniteSet(S \cup Segment(k0, v, n))
      /\ Cardinality(S \cup Segment(k0, v, n)) = Cardinality(S) + n
  BY <1>2, <1>3, AddUnits
<1>. QED
  BY <1>2, <1>4, <1>5

(* In every row of the tenant and of a batch the total is the sum of its   *)
(* parts, and the tenant's rows and the batches' rows have the same sums.  *)
TotalsFit(P) ==
    \A row \in Row : LeakageRow(row) => Value(P, <<row, "total">>) = LeakageTotal(P, row)

SumsAgree(P) ==
    \A f : /\ IsFiniteSet(RowUnits(P, "tenant", f)) /\ IsFiniteSet(RowUnits(P, "batch", f))
           /\ Cardinality(RowUnits(P, "tenant", f)) = Cardinality(RowUnits(P, "batch", f))

(* A transaction adds the same to both of its rows, field by field, and    *)
(* leaves the other rows alone; the totals follow.                         *)
LEMMA BalanceKept ==
    ASSUME NEW e \in Bodies, NEW P, Counters(P), TotalsFit(P), SumsAgree(P),
           NEW Q, Q = Project(P, e)
    PROVE  TotalsFit(Q) /\ SumsAgree(Q)
<1> DEFINE W == EventWrites[e]
           grows(row, f, n) == Value(Q, <<row, f>>) = Value(P, <<row, f>>) + n
<1>1. PICK T, B : T = <<"tenant", e.day>> /\ B = <<"batch", Scope(e)>>
  OBVIOUS
<1>2. T \in Row /\ B \in Row /\ LeakageRow(T) /\ LeakageRow(B)
  BY <1>1, BodyAssumption DEF Row, Scope, resolveBatchScope, LeakageRow
<1>3. /\ Counters(Q)
      /\ \A k : k \notin WrittenBy(e) /\ ~(LeakageRow(k[1]) /\ k[2] = "total") =>
                   Value(Q, k) = Value(P, k)
      /\ \A w \in W : w[2] = "add" /\ w[1][2] # "pending" =>
                         Value(Q, w[1]) = Value(P, w[1]) + w[3]
      /\ TotalsFit(Q)
  BY ProjectFacts DEF TotalsFit
<1>4. (\A w \in W : Sound(e, w)) /\ Mirrors(e, W)
  BY WritesConsistent DEF Consistent
<1>5. \A k : Value(P, k) \in Nat /\ Value(Q, k) \in Nat
  BY <1>3 DEF Value, Counters
<1>6. ASSUME NEW row \in {T, B}, NEW f, <<row, f>> \in WrittenBy(e)
      PROVE  \E n \in Nat : <<<<row, f>>, "add", n>> \in W
  <2>1. PICK w \in W : w[1] = <<row, f>>
    BY <1>6 DEF WrittenBy
  <2>2. w[2] = "add" /\ f \notin {"total", "pending"} /\ w[3] \in Nat
    BY <1>1, <1>4, <2>1 DEF Sound
  <2>3. w = <<<<row, f>>, "add", w[3]>>
    BY <1>4, <2>1, <2>2 DEF Sound
  <2>. QED
    BY <2>2, <2>3
<1>7. ASSUME NEW f, f # "total"
      PROVE  \E n \in Nat : grows(T, f, n) /\ grows(B, f, n)
  <2>1. CASE \E n \in Nat : <<<<T, f>>, "add", n>> \in W
    <3>1. PICK n \in Nat : <<<<T, f>>, "add", n>> \in W
      BY <2>1
    <3>2. <<<<B, f>>, "add", n>> \in W
      BY <1>1, <1>4, <3>1 DEF Mirrors
    <3>3. f # "pending"
      BY <1>1, <1>4, <3>1 DEF Sound
    <3>. QED
      BY <1>3, <3>1, <3>2, <3>3
  <2>2. CASE ~\E n \in Nat : <<<<T, f>>, "add", n>> \in W
    <3>1. ~\E n \in Nat : <<<<B, f>>, "add", n>> \in W
      BY <1>1, <1>4, <2>2 DEF Mirrors
    <3>2. <<T, f>> \notin WrittenBy(e) /\ <<B, f>> \notin WrittenBy(e)
      BY <1>6, <2>2, <3>1
    <3>3. Value(Q, <<T, f>>) = Value(P, <<T, f>>) /\ Value(Q, <<B, f>>) = Value(P, <<B, f>>)
      BY <1>3, <1>7, <3>2
    <3>4. grows(T, f, 0) /\ grows(B, f, 0)
      BY <1>5, <3>3
    <3>. QED
      BY <3>4
  <2>. QED
    BY <2>1, <2>2
<1>8. ASSUME NEW row \in Row \ {T, B}, LeakageRow(row), NEW f
      PROVE  Value(Q, <<row, f>>) = Value(P, <<row, f>>)
  <2>1. \A g : <<row, g>> \notin WrittenBy(e)
    BY <1>1, <1>4, <1>8 DEF Sound, WrittenBy, LeakageRow
  <2>2. ASSUME NEW g, g # "total" PROVE Value(Q, <<row, g>>) = Value(P, <<row, g>>)
    BY <1>3, <2>1, <2>2
  <2>3. LeakageTotal(Q, row) = LeakageTotal(P, row)
    BY <2>2 DEF LeakageTotal
  <2>4. Value(Q, <<row, "total">>) = Value(P, <<row, "total">>)
    BY <1>3, <1>8, <2>3 DEF TotalsFit
  <2>. QED
    BY <2>2, <2>4
<1>9. \E n \in Nat : grows(T, "total", n) /\ grows(B, "total", n)
  <2>1. PICK n1 \in Nat : grows(T, "unmatched", n1) /\ grows(B, "unmatched", n1)
    BY <1>7
  <2>2. PICK n2 \in Nat : grows(T, "under", n2) /\ grows(B, "under", n2)
    BY <1>7
  <2>3. PICK n3 \in Nat : grows(T, "orphan", n3) /\ grows(B, "orphan", n3)
    BY <1>7
  <2>4. PICK n4 \in Nat : grows(T, "reversal", n4) /\ grows(B, "reversal", n4)
    BY <1>7
  <2>5. ASSUME NEW row \in {T, B}
        PROVE  grows(row, "total", n1 + n2 + n3 + n4)
    <3>1. LeakageTotal(Q, row) = LeakageTotal(P, row) + (n1 + n2 + n3 + n4)
      <4>1. PICK a1 \in Nat, a2 \in Nat, a3 \in Nat, a4 \in Nat :
               /\ a1 = Value(P, <<row, "unmatched">>) /\ a2 = Value(P, <<row, "under">>)
               /\ a3 = Value(P, <<row, "orphan">>) /\ a4 = Value(P, <<row, "reversal">>)
        BY <1>5
      <4>2. /\ Value(Q, <<row, "unmatched">>) = a1 + n1 /\ Value(Q, <<row, "under">>) = a2 + n2
            /\ Value(Q, <<row, "orphan">>) = a3 + n3 /\ Value(Q, <<row, "reversal">>) = a4 + n4
        BY <2>1, <2>2, <2>3, <2>4, <4>1
      <4>3. LeakageTotal(P, row) = a1 + a2 + a3 + a4
        BY <4>1 DEF LeakageTotal
      <4>4. LeakageTotal(Q, row) = (a1 + n1) + (a2 + n2) + (a3 + n3) + (a4 + n4)
        BY <4>2 DEF LeakageTotal
      <4>. QED
        BY <4>3, <4>4
    <3>. QED
      BY <1>2, <1>3, <3>1 DEF TotalsFit
  <2>. QED
    BY <2>5
<1>10. ASSUME NEW f
       PROVE  /\ IsFiniteSet(RowUnits(Q, "tenant", f)) /\ IsFiniteSet(RowUnits(Q, "batch", f))
              /\ Cardinality(RowUnits(Q, "tenant", f)) = Cardinality(RowUnits(Q, "batch", f))
  <2>1. PICK n \in Nat : grows(T, f, n) /\ grows(B, f, n)
    BY <1>7, <1>9
  <2>2. ASSUME NEW row \in {T, B}, NEW k, k[1][1] = row[1], k[2] = f, k # <<row, f>>
        PROVE  Value(Q, k) = Value(P, k)
    <3>1. CASE k \in DOMAIN P \cup DOMAIN Q
      <4>1. k = <<k[1], f>> /\ k[1] \in Row
        BY <1>3, <2>2, <3>1 DEF Counters
      <4>2. k[1] \in Row \ {T, B} /\ LeakageRow(k[1])
        BY <1>1, <2>2, <4>1 DEF LeakageRow
      <4>. QED
        BY <1>8, <4>1, <4>2
    <3>2. CASE k \notin DOMAIN P \cup DOMAIN Q
      BY <3>2 DEF Value
    <3>. QED
      BY <3>1, <3>2
  <2>3. ASSUME NEW row \in {T, B}
        PROVE  /\ IsFiniteSet(RowUnits(Q, row[1], f))
               /\ Cardinality(RowUnits(Q, row[1], f)) = Cardinality(RowUnits(P, row[1], f)) + n
    <3>1. PICK k0, kind : k0 = <<row, f>> /\ kind = row[1]
      OBVIOUS
    <3>2. IsFiniteSet(RowUnits(P, kind, f))
      BY <1>1, <3>1 DEF SumsAgree
    <3>3. \A k : k[1][1] = kind /\ k[2] = f /\ k # k0 => Value(Q, k) = Value(P, k)
      BY <2>2, <3>1
    <3>4. Value(Q, k0) = Value(P, k0) + n /\ k0[1][1] = kind /\ k0[2] = f
      BY <2>1, <3>1
    <3>. QED
      BY <1>3, <3>1, <3>2, <3>3, <3>4, SumGrows
  <2>4. T[1] = "tenant" /\ B[1] = "batch"
    BY <1>1
  <2>. QED
    BY <2>3, <2>4 DEF SumsAgree
<1>. QED
  BY <1>3, <1>10 DEF SumsAgree

-----------------------------------------------------------------------------
(* The counters and the receipts.                                          *)
LEMMA PublishedMessage ==
    ASSUME Types, NEW p \in Published
    PROVE  log[p[1]][p[2]] \in Message /\ p[1] \in Topics /\ p[2] \in 1..Len(log[p[1]])
<1>1. PICK t \in Topics, i \in 1..MaxLog : p = <<t, i>>
  BY DEF Published, Places
<1>2. i <= Len(log[t]) /\ Len(log[t]) \in Nat
  BY <1>1, LogFacts DEF Published
<1>3. i \in 1..Len(log[t])
  BY <1>2, LogAssumption
<1>. QED
  BY <1>1, <1>3, LogFacts

LEMMA CountedUnit ==
    ASSUME NEW k, NEW u
    PROVE  u \in CountedUnits(k) <=>
             \E m \in Processed : \E w \in EventWrites[m.body] :
                /\ w[1] = k /\ w[2] = "add"
                /\ \E n \in 1..w[3] : u = <<<<m.event, w>>, n>>
  BY DEF CountedUnits

(* As long as no final receipt was overwritten and no event is in          *)
(* conflict, a counter that is only added to is the sum over the receipts. *)
Summed(k) == k[2] \notin {"total", "pending"}

CountsFit ==
    redone = {} /\ conflicts = {} =>
        \A k : Summed(k) => /\ IsFiniteSet(CountedUnits(k))
                            /\ Value(proj, k) = Cardinality(CountedUnits(k))

LEMMA SameProcessed ==
    ASSUME CountsFit, UNCHANGED <<proj, log>>, Processed' = Processed,
           redone \subseteq redone', conflicts \subseteq conflicts'
    PROVE  CountsFit'
<1>1. \A k : CountedUnits(k)' = CountedUnits(k)
  BY DEF CountedUnits
<1>. QED
  BY <1>1 DEF CountsFit

(* What runOnceAttempt counts is what its receipt says.                    *)
LEMMA CountsAfterAttempt ==
    ASSUME IInv, Counters(proj), CountsFit, NEW p \in Published, NEW m, m = log[p[1]][p[2]],
           runOnceAttempt(m), UNCHANGED <<log, redone>>
    PROVE  CountsFit'
<1>0. Types /\ m \in Message /\ m.event \in EventIds /\ m.body \in Bodies
  BY PublishedMessage DEF IInv, Message
<1>1. CASE conflicts' = conflicts \cup {m.event}
  BY <1>1 DEF CountsFit
<1>2. CASE UNCHANGED <<dbVars, applied>>
  <2>1. Processed' = Processed
    BY <1>2 DEF Processed, Published, dbVars
  <2>. QED
    BY <1>2, <2>1, SameProcessed DEF dbVars
<1>3. CASE /\ ~Duplicate(m) /\ proj' = Project(proj, m.body) /\ UNCHANGED conflicts
           /\ receipts' = [receipts EXCEPT ![m.event] = [status |-> "PROCESSED", hash |-> m.hash]]
  <2> SUFFICES ASSUME redone = {}, conflicts = {}, NEW k, Summed(k)
               PROVE  /\ IsFiniteSet(CountedUnits(k)')
                      /\ Value(proj', k) = Cardinality(CountedUnits(k)')
    BY <1>3 DEF CountsFit
  <2>1. PICK e, b, S : e = m.event /\ b = m.body /\ S = CountedUnits(k)
    OBVIOUS
  <2>2. IsFiniteSet(S) /\ Value(proj, k) = Cardinality(S)
    BY <2>1 DEF CountsFit
  <2>3. \A l \in Processed : l.event # e
    BY <1>3, <2>1 DEF Processed, Duplicate
  <2>4. m \in Processed'
    BY <1>0, <1>3 DEF Processed, Published, IInv, Types
  <2>5. \A l \in Processed : l \in Processed'
    <3> SUFFICES ASSUME NEW l \in Processed PROVE l \in Processed'
      OBVIOUS
    <3>1. PICK q \in Published : l = log[q[1]][q[2]]
      BY DEF Processed
    <3>2. l.event \in EventIds /\ l.event # e
      BY <1>0, <2>3, <3>1, PublishedMessage DEF Message
    <3>3. receipts'[l.event] = receipts[l.event]
      BY <1>0, <1>3, <2>1, <3>2 DEF Types
    <3>4. q \in Published' /\ l = log'[q[1]][q[2]]
      BY <3>1 DEF Published
    <3>. QED
      BY <3>3, <3>4 DEF Processed
  <2>6. ASSUME NEW l \in Processed'
        PROVE  l \in Processed \/ (l.event = e /\ l.body = b)
    <3>1. PICK q \in Published : l = log[q[1]][q[2]]
      BY DEF Processed, Published
    <3>2. /\ q[1] \in Topics /\ q[2] \in 1..Len(log[q[1]]) /\ l \in Message
          /\ p[1] \in Topics /\ p[2] \in 1..Len(log[p[1]])
      BY <1>0, <3>1, PublishedMessage
    <3>3. receipts'[l.event] = [status |-> "PROCESSED", hash |-> l.hash]
      BY DEF Processed
    <3>4. CASE l.event = e
      <4>1. l.hash = m.hash
        BY <1>0, <1>3, <2>1, <3>3, <3>4 DEF IInv, Types
      <4>2. l.body = m.body
        <5>1. PICK t \in Topics, u \in Topics, i \in 1..Len(log[q[1]]), j \in 1..Len(log[p[1]]) :
                 t = q[1] /\ u = p[1] /\ i = q[2] /\ j = p[2]
          BY <3>2
        <5>2. log \in Logs
          BY <1>0 DEF Types
        <5>3. /\ i \in 1..Len(log[t]) /\ j \in 1..Len(log[u])
              /\ l = log[t][i] /\ m = log[u][j]
          BY <3>1, <5>1
        <5>4. l.event = m.event
          BY <2>1, <3>4
        <5>. QED
          BY <4>1, <5>2, <5>3, <5>4, HashAssumption
      <4>. QED
        BY <2>1, <3>4, <4>2
    <3>5. CASE l.event # e
      <4>1. receipts'[l.event] = receipts[l.event]
        BY <1>0, <1>3, <2>1, <3>2, <3>5 DEF IInv, Types, Message
      <4>. QED
        BY <3>1, <3>3, <4>1 DEF Processed
    <3>. QED
      BY <3>4, <3>5
  <2>7. /\ \A x : x \notin WrittenBy(b) /\ ~(LeakageRow(x[1]) /\ x[2] = "total") =>
                     Value(proj', x) = Value(proj, x)
        /\ \A w \in EventWrites[b] : w[2] = "add" /\ w[1][2] # "pending" =>
                                        Value(proj', w[1]) = Value(proj, w[1]) + w[3]
    BY <1>0, <1>3, <2>1, ProjectFacts
  <2>8. CASE k \in WrittenBy(b)
    <3>1. PICK w \in EventWrites[b] : w[1] = k
      BY <2>8 DEF WrittenBy
    <3>2. Sound(b, w)
      BY <1>0, <2>1, WritesConsistent DEF Consistent
    <3>3. w[2] = "add" /\ w[3] \in Nat
      BY <3>1, <3>2 DEF Sound, Summed
    <3>4. PICK n \in Nat : n = w[3]
      BY <3>3
    <3>5. Value(proj', k) = Value(proj, k) + n
      BY <2>7, <3>1, <3>3, <3>4 DEF Summed
    <3>6. S \cap Segment(<<e, w>>, 0, n) = {}
      <4> SUFFICES ASSUME NEW j, <<<<e, w>>, j>> \in S PROVE FALSE
        BY DEF Segment
      <4>1. PICK l \in Processed : \E v, i : <<<<e, w>>, j>> = <<<<l.event, v>>, i>>
        BY <2>1, CountedUnit
      <4>. QED
        BY <2>3, <4>1
    <3>7. CountedUnits(k)' = S \cup Segment(<<e, w>>, 0, n)
      <4>1. ASSUME NEW u \in CountedUnits(k)' PROVE u \in S \cup Segment(<<e, w>>, 0, n)
        <5>1. PICK l \in Processed' : \E v \in EventWrites[l.body] :
                 /\ v[1] = k /\ v[2] = "add" /\ \E i \in 1..v[3] : u = <<<<l.event, v>>, i>>
          BY DEF CountedUnits
        <5>2. PICK v \in EventWrites[l.body] :
                 v[1] = k /\ v[2] = "add" /\ \E i \in 1..v[3] : u = <<<<l.event, v>>, i>>
          BY <5>1
        <5>3. CASE l \in Processed
          BY <2>1, <5>2, <5>3, CountedUnit
        <5>4. CASE l.event = e /\ l.body = b
          <6>1. v = w
            BY <1>0, <2>1, <3>1, <5>2, <5>4, OneWritePerCounter
          <6>. QED
            BY <3>4, <5>2, <5>4, <6>1 DEF Segment
        <5>. QED
          BY <2>6, <5>3, <5>4
      <4>2. ASSUME NEW u \in S PROVE u \in CountedUnits(k)'
        <5>1. PICK l \in Processed : \E v \in EventWrites[l.body] :
                 /\ v[1] = k /\ v[2] = "add" /\ \E i \in 1..v[3] : u = <<<<l.event, v>>, i>>
          BY <2>1, CountedUnit
        <5>2. l \in Processed'
          BY <2>5
        <5>. QED
          BY <5>1, <5>2 DEF CountedUnits
      <4>3. ASSUME NEW j \in 1..n PROVE <<<<e, w>>, j>> \in CountedUnits(k)'
        BY <2>1, <2>4, <3>1, <3>3, <3>4 DEF CountedUnits
      <4>. QED
        BY <4>1, <4>2, <4>3 DEF Segment
    <3>8. /\ IsFiniteSet(S \cup Segment(<<e, w>>, 0, n))
          /\ Cardinality(S \cup Segment(<<e, w>>, 0, n)) = Cardinality(S) + n
      BY <2>2, <3>6, AddUnits
    <3>. QED
      BY <2>2, <3>5, <3>7, <3>8
  <2>9. CASE k \notin WrittenBy(b)
    <3>1. Value(proj', k) = Value(proj, k)
      BY <2>7, <2>9 DEF Summed
    <3>2. CountedUnits(k)' = S
      <4>1. ASSUME NEW u \in CountedUnits(k)' PROVE u \in S
        <5>1. PICK l \in Processed' : \E v \in EventWrites[l.body] :
                 /\ v[1] = k /\ v[2] = "add" /\ \E i \in 1..v[3] : u = <<<<l.event, v>>, i>>
          BY DEF CountedUnits
        <5>2. l.body # b
          BY <2>9, <5>1 DEF WrittenBy
        <5>. QED
          BY <2>1, <2>6, <5>1, <5>2, CountedUnit
      <4>2. ASSUME NEW u \in S PROVE u \in CountedUnits(k)'
        <5>1. PICK l \in Processed : \E v \in EventWrites[l.body] :
                 /\ v[1] = k /\ v[2] = "add" /\ \E i \in 1..v[3] : u = <<<<l.event, v>>, i>>
          BY <2>1, CountedUnit
        <5>2. l \in Processed'
          BY <2>5
        <5>. QED
          BY <5>1, <5>2 DEF CountedUnits
      <4>. QED
        BY <4>1, <4>2
    <3>. QED
      BY <2>2, <3>1, <3>2
  <2>. QED
    BY <2>8, <2>9
<1>. QED
  BY <1>1, <1>2, <1>3 DEF runOnceAttempt

-----------------------------------------------------------------------------
(* The sums stay what they are, step by step.                              *)
Sums == Counters(proj) /\ TotalsFit(proj) /\ SumsAgree(proj) /\ CountsFit

LEMMA SumsInit == Init => Sums
<1> SUFFICES ASSUME Init PROVE Sums
  OBVIOUS
<1>1. DOMAIN proj = {} /\ \A k : Value(proj, k) = 0
  BY DEF Init, Value
<1>2. Counters(proj)
  BY <1>1 DEF Counters
<1>3. TotalsFit(proj)
  BY <1>1 DEF TotalsFit, LeakageTotal
<1>4. IsFiniteSet({}) /\ Cardinality({}) = 0
  BY FS_EmptySet
<1>5. SumsAgree(proj)
  <2>1. \A kind, f : RowUnits(proj, kind, f) = {}
    BY <1>1 DEF RowUnits
  <2>. QED
    BY <1>4, <2>1 DEF SumsAgree
<1>6. CountsFit
  <2>1. Processed = {}
    <3> SUFFICES ASSUME NEW p \in Published PROVE receipts[log[p[1]][p[2]].event] = NoReceipt
      BY DEF Processed, NoReceipt
    <3>1. Types
      BY DEF Init, Types, Steps
    <3>2. log[p[1]][p[2]].event \in EventIds
      BY <3>1, PublishedMessage DEF Message
    <3>. QED
      BY <3>2 DEF Init
  <2>2. \A k : CountedUnits(k) = {}
    BY <2>1 DEF CountedUnits
  <2>. QED
    BY <1>1, <1>4, <2>2 DEF CountsFit
<1>. QED
  BY <1>2, <1>3, <1>5, <1>6 DEF Sums

LEMMA SumsKept ==
    ASSUME Sums, UNCHANGED <<proj, log, receipts, conflicts, redone>>
    PROVE  Sums'
<1>1. Processed' = Processed
  BY DEF Processed, Published
<1>. QED
  BY <1>1, SameProcessed DEF Sums

(* What runOnceAttempt commits is the whole event or nothing.              *)
LEMMA SumsAfterAttempt ==
    ASSUME IInv, Sums, NEW r \in Readers, NEW t \in Topics, pc[r][t] # "idle",
           runOnceAttempt(Msg(r, t)), UNCHANGED <<log, redone>>
    PROVE  Sums'
<1>1. PICK p, m : p = <<t, pos[r][t]>> /\ m = Msg(r, t)
  OBVIOUS
<1>2. p \in Published /\ m = log[p[1]][p[2]]
  <2>1. Types /\ Placed
    BY DEF IInv
  <2>2. p \in Places /\ pos[r][t] \in 1..Len(log[t])
    BY <1>1, <2>1, MsgFacts
  <2>3. p[2] <= Len(log[p[1]])
    BY <1>1, <2>1, <2>2, LogFacts
  <2>. QED
    BY <1>1, <2>2, <2>3 DEF Published, Msg
<1>3. CountsFit'
  BY <1>1, <1>2, CountsAfterAttempt DEF Sums
<1>4. m.body \in Bodies
  BY <1>2, PublishedMessage DEF IInv, Message
<1>5. CASE proj' = Project(proj, m.body)
  <2>1. PICK P, Q : P = proj /\ Q = proj'
    OBVIOUS
  <2>2. Counters(Q)
    BY <1>4, <1>5, <2>1, ProjectFacts DEF Sums
  <2>3. TotalsFit(Q) /\ SumsAgree(Q)
    BY <1>4, <1>5, <2>1, BalanceKept DEF Sums
  <2>. QED
    <3>1. Counters(proj)'
      BY <2>1, <2>2 DEF Counters
    <3>2. TotalsFit(proj)'
      BY <2>1, <2>3 DEF TotalsFit, LeakageTotal, Value
    <3>3. SumsAgree(proj)'
      <4>1. \A kind, f : RowUnits(proj, kind, f)' = RowUnits(Q, kind, f)
        BY <2>1 DEF RowUnits
      <4>. QED
        BY <2>3, <4>1 DEF SumsAgree
    <3>. QED
      BY <1>3, <3>1, <3>2, <3>3 DEF Sums
<1>6. CASE UNCHANGED proj
  BY <1>3, <1>6 DEF Sums
<1>. QED
  BY <1>1, <1>5, <1>6 DEF runOnceAttempt, dbVars

(* markFailed overwrites a final receipt and says so in redone, or one     *)
(* that counts for nothing.                                                *)
LEMMA SumsAfterMarkFailed ==
    ASSUME IInv, Sums, NEW r \in Readers, NEW t \in Topics, markFailed(r, t)
    PROVE  Sums'
<1>1. PICK m, e : m = Msg(r, t) /\ e = m.event
  OBVIOUS
<1>2. Types /\ m \in Message /\ e \in EventIds
  BY <1>1, MsgFacts DEF IInv, markFailed
<1>3. UNCHANGED <<proj, log, conflicts>>
  BY DEF markFailed, kafkaVars
<1>4. CASE UNCHANGED <<receipts, redone>>
  BY <1>3, <1>4, SumsKept
<1>5. CASE /\ \E h : receipts' = [receipts EXCEPT ![e] = [status |-> "FAILED", hash |-> h]]
           /\ redone' = IF Duplicate(m) THEN redone \cup {e} ELSE redone
  <2>1. PICK h : receipts' = [receipts EXCEPT ![e] = [status |-> "FAILED", hash |-> h]]
    BY <1>5
  <2>2. CASE Duplicate(m)
    <3>1. CountsFit'
      BY <1>5, <2>2 DEF CountsFit
    <3>. QED
      BY <1>3, <3>1 DEF Sums
  <2>3. CASE ~Duplicate(m)
    <3>1. ASSUME NEW l \in Message
          PROVE  receipts'[l.event] = [status |-> "PROCESSED", hash |-> l.hash]
                 <=> receipts[l.event] = [status |-> "PROCESSED", hash |-> l.hash]
      <4>1. l.event \in EventIds
        BY DEF Message
      <4>2. CASE l.event = e
        <5>1. receipts'[e].status = "FAILED"
          BY <1>2, <2>1 DEF Types
        <5>2. receipts[e].status # "PROCESSED"
          BY <1>1, <2>3 DEF Duplicate
        <5>. QED
          BY <4>2, <5>1, <5>2
      <4>3. CASE l.event # e
        BY <1>2, <2>1, <4>1, <4>3 DEF Types
      <4>. QED
        BY <4>2, <4>3
    <3>2. Processed' = Processed
      <4>1. \A p \in Published : log[p[1]][p[2]] \in Message
        BY <1>2, PublishedMessage
      <4>2. Published' = Published
        BY <1>3 DEF Published
      <4>. QED
        BY <1>3, <3>1, <4>1, <4>2 DEF Processed
    <3>3. CountsFit'
      BY <1>3, <1>5, <2>3, <3>2, SameProcessed DEF Sums
    <3>. QED
      BY <1>3, <3>3 DEF Sums
  <2>. QED
    BY <2>2, <2>3
<1>6. \/ UNCHANGED <<receipts, redone>>
      \/ /\ \E h : receipts' = [receipts EXCEPT ![e] = [status |-> "FAILED", hash |-> h]]
         /\ redone' = IF Duplicate(m) THEN redone \cup {e} ELSE redone
  <2>1. PICK h : h = IF receipts[e] = NoReceipt THEN m.hash ELSE receipts[e].hash
    OBVIOUS
  <2>2. ASSUME receipts' = [receipts EXCEPT ![e] =
                  [status |-> "FAILED", hash |-> IF @ = NoReceipt THEN m.hash ELSE @.hash]]
        PROVE  \E g : receipts' = [receipts EXCEPT ![e] = [status |-> "FAILED", hash |-> g]]
    <3>1. receipts' = [receipts EXCEPT ![e] = [status |-> "FAILED", hash |-> h]]
      BY <2>1, <2>2
    <3>. QED
      BY <3>1
  <2>. QED
    BY <1>1, <2>2 DEF markFailed
<1>. QED
  BY <1>4, <1>5, <1>6

LEMMA SumsStep == IInv /\ Sums /\ [Next]_vars => Sums'
<1> SUFFICES ASSUME IInv, Sums, [Next]_vars PROVE Sums'
  OBVIOUS
<1> USE DEF vars, dbVars, kafkaVars, readerVars, ghosts
<1>1. ASSUME NEW r \in Readers, NEW t \in Topics, RunOnce(r, t) PROVE Sums'
  BY <1>1, SumsAfterAttempt DEF RunOnce
<1>2. ASSUME NEW r \in Readers, NEW t \in Topics, RunOnceFails(r, t) PROVE Sums'
  <2>1. CASE runOnceAttempt(Msg(r, t))
    BY <1>2, <2>1, SumsAfterAttempt DEF RunOnceFails
  <2>2. CASE UNCHANGED dbVars
    BY <1>2, <2>2, SumsKept DEF RunOnceFails
  <2>. QED
    BY <1>2, <2>1, <2>2 DEF RunOnceFails
<1>3. ASSUME NEW r \in Readers, NEW t \in Topics,
             \/ FetchMessage(r, t) \/ HandleGuards(r, t) \/ InsertLocalDLQ(r, t)
             \/ PostCommit(r, t) \/ CommitMessages(r, t) \/ Rebalance(r, t)
      PROVE  Sums'
  <2>1. UNCHANGED <<proj, log, receipts, conflicts, redone>>
    BY <1>3
       DEF FetchMessage, HandleGuards, InsertLocalDLQ, PostCommit, CommitMessages, Rebalance
  <2>. QED
    BY <2>1, SumsKept
<1>4. ASSUME NEW r \in Readers, Crash(r) PROVE Sums'
  BY <1>4, SumsKept DEF Crash
<1>5. ASSUME NEW p \in Places, Replay(p) PROVE Sums'
  BY <1>5, SumsKept DEF Replay
<1>6. CASE UNCHANGED vars
  BY <1>6, SumsKept
<1>. QED
  BY <1>1, <1>2, <1>3, <1>4, <1>5, <1>6, SumsAfterMarkFailed DEF Next, Handle

-----------------------------------------------------------------------------
(* The rest of the types, and who may be called again.                     *)
Limits ==
    /\ conflicts \subseteq EventIds /\ redone \subseteq EventIds
    /\ finality \subseteq Certificates /\ dlqTopic \subseteq Places
    /\ owner \in [Topics -> Readers]
    /\ faults \in 0..MaxFaults
    /\ tries \in [Readers -> [Topics -> 0..MaxHandles]]
    /\ \A r \in Readers, t \in Topics : pc[r][t] = "handle" => tries[r][t] < MaxHandles

LEMMA FirstReaderIsOne == FirstReader \in Readers
  BY LogAssumption DEF FirstReader

LEMMA LimitsInit == Init => Limits
<1> SUFFICES ASSUME Init PROVE Limits
  OBVIOUS
<1>1. 0 \in 0..MaxFaults /\ 0 \in 0..MaxHandles
  BY LogAssumption DEF MaxHandles
<1>. QED
  BY <1>1, FirstReaderIsOne DEF Init, Limits

LEMMA FaultCounted ==
    ASSUME Limits, Fault \/ UNCHANGED faults
    PROVE  faults' \in 0..MaxFaults
  BY LogAssumption DEF Limits, Fault

(* Where a reader goes to anything but another call, and the tries stay.   *)
LEMMA GoesElsewhere ==
    ASSUME IInv, Limits, NEW r \in Readers, NEW t \in Topics, NEW s \in Steps \ {"handle"},
           Goto(r, t, s), UNCHANGED tries
    PROVE  /\ tries' \in [Readers -> [Topics -> 0..MaxHandles]]
           /\ \A q \in Readers, u \in Topics : pc'[q][u] = "handle" => tries'[q][u] < MaxHandles
<1>1. /\ pc'[r][t] = s
      /\ \A q \in Readers, u \in Topics : <<q, u>> # <<r, t>> => pc'[q][u] = pc[q][u]
  BY GotoFacts DEF IInv
<1>. QED
  BY <1>1 DEF Limits

LEMMA LimitsStep == IInv /\ Limits /\ [Next]_vars => Limits'
<1> SUFFICES ASSUME IInv, Limits, [Next]_vars PROVE Limits'
  OBVIOUS
<1> USE DEF vars, dbVars, kafkaVars, readerVars, ghosts
<1>0. Types /\ Placed
  BY DEF IInv
<1>1. ASSUME NEW r \in Readers, NEW t \in Topics, FetchMessage(r, t) PROVE Limits'
  <2>1. UNCHANGED <<conflicts, redone, finality, dlqTopic, owner, faults>>
    BY <1>1 DEF FetchMessage
  <2>2. tries' = [tries EXCEPT ![r][t] = 0]
    BY <1>1 DEF FetchMessage
  <2>3. PICK s \in Steps : Goto(r, t, s)
    BY <1>1 DEF FetchMessage, Steps
  <2>4. \A q \in Readers, u \in Topics : <<q, u>> # <<r, t>> => pc'[q][u] = pc[q][u]
    BY <1>0, <2>3, GotoFacts
  <2>5. /\ tries' \in [Readers -> [Topics -> 0..MaxHandles]] /\ tries'[r][t] = 0
        /\ \A q \in Readers, u \in Topics : <<q, u>> # <<r, t>> => tries'[q][u] = tries[q][u]
    BY <2>2 DEF Limits, MaxHandles
  <2>6. \A q \in Readers, u \in Topics : pc'[q][u] = "handle" => tries'[q][u] < MaxHandles
    <3> SUFFICES ASSUME NEW q \in Readers, NEW u \in Topics, pc'[q][u] = "handle"
                 PROVE  tries'[q][u] < MaxHandles
      OBVIOUS
    <3>1. CASE <<q, u>> = <<r, t>>
      BY <2>5, <3>1 DEF MaxHandles
    <3>2. CASE <<q, u>> # <<r, t>>
      BY <2>4, <2>5, <3>2 DEF Limits
    <3>. QED
      BY <3>1, <3>2
  <2>. QED
    BY <2>1, <2>5, <2>6 DEF Limits
<1>2. ASSUME NEW r \in Readers, NEW t \in Topics, HandleGuards(r, t) PROVE Limits'
  <2>1. UNCHANGED <<conflicts, redone, finality, dlqTopic, owner, faults>>
    BY <1>2 DEF HandleGuards
  <2>2. tries' = [tries EXCEPT ![r][t] = @ + 1] /\ tries[r][t] < MaxHandles
    BY <1>2 DEF HandleGuards, Limits
  <2>3. PICK s \in Steps \ {"handle"} : Goto(r, t, s)
    BY <1>2 DEF HandleGuards, Steps
  <2>4. /\ pc'[r][t] # "handle"
        /\ \A q \in Readers, u \in Topics : <<q, u>> # <<r, t>> => pc'[q][u] = pc[q][u]
    BY <1>0, <2>3, GotoFacts
  <2>5. tries[r][t] + 1 \in 0..MaxHandles
    BY <2>2 DEF Limits, MaxHandles
  <2>6. /\ tries' \in [Readers -> [Topics -> 0..MaxHandles]]
        /\ \A q \in Readers, u \in Topics : <<q, u>> # <<r, t>> => tries'[q][u] = tries[q][u]
    BY <2>2, <2>5 DEF Limits
  <2>7. \A q \in Readers, u \in Topics : pc'[q][u] = "handle" => tries'[q][u] < MaxHandles
    BY <2>4, <2>6 DEF Limits
  <2>. QED
    BY <2>1, <2>6, <2>7 DEF Limits
<1>3. ASSUME NEW r \in Readers, NEW t \in Topics, RunOnce(r, t) \/ RunOnceFails(r, t)
      PROVE  Limits'
  <2>1. /\ UNCHANGED <<redone, dlqTopic, owner, tries>> /\ (Fault \/ UNCHANGED faults)
        /\ pc[r][t] = "checked"
        /\ runOnceAttempt(Msg(r, t)) \/ UNCHANGED <<conflicts, finality>>
    BY <1>3 DEF RunOnce, RunOnceFails
  <2>2. PICK s \in Steps \ {"handle"} : Goto(r, t, s)
    BY <1>3 DEF RunOnce, RunOnceFails, Steps
  <2>3. PICK m : m = Msg(r, t)
    OBVIOUS
  <2>4. m \in Message
    BY <1>0, <2>1, <2>3, MsgFacts
  <2>5. conflicts' \subseteq EventIds /\ finality' \subseteq Certificates
    <3>1. m.event \in EventIds /\ m.cert \in Certificates \cup {NoCertificate}
      BY <2>4 DEF Message
    <3>. QED
      BY <2>1, <2>3, <3>1 DEF runOnceAttempt, Limits
  <2>. QED
    BY <2>1, <2>2, <2>5, FaultCounted, GoesElsewhere DEF Limits
<1>4. ASSUME NEW r \in Readers, NEW t \in Topics, markFailed(r, t) PROVE Limits'
  <2>1. /\ UNCHANGED <<conflicts, finality, dlqTopic, owner, tries>> /\ (Fault \/ UNCHANGED faults)
        /\ pc[r][t] = "failed"
    BY <1>4 DEF markFailed
  <2>2. Msg(r, t).event \in EventIds
    BY <1>0, <2>1, MsgFacts
  <2>3. redone' \subseteq EventIds
    BY <1>4, <2>2 DEF markFailed, Limits
  <2>4. PICK s : s = IF tries[r][t] < MaxHandles THEN "handle" ELSE "dlq"
    OBVIOUS
  <2>5. s \in Steps /\ Goto(r, t, s)
    BY <1>4, <2>4 DEF markFailed, Retry, Steps
  <2>6. /\ pc'[r][t] = s
        /\ \A q \in Readers, u \in Topics : <<q, u>> # <<r, t>> => pc'[q][u] = pc[q][u]
    BY <1>0, <2>5, GotoFacts
  <2>7. \A q \in Readers, u \in Topics : pc'[q][u] = "handle" => tries'[q][u] < MaxHandles
    BY <2>1, <2>4, <2>6 DEF Limits
  <2>. QED
    BY <2>1, <2>3, <2>7, FaultCounted DEF Limits
<1>5. ASSUME NEW r \in Readers, NEW t \in Topics, InsertLocalDLQ(r, t) \/ PostCommit(r, t)
      PROVE  Limits'
  <2>1. /\ UNCHANGED <<conflicts, redone, finality, dlqTopic, owner, faults, tries>>
        /\ Goto(r, t, "commit")
    BY <1>5 DEF InsertLocalDLQ, PostCommit
  <2>. QED
    BY <2>1, GoesElsewhere DEF Limits, Steps
<1>6. ASSUME NEW r \in Readers, NEW t \in Topics, CommitMessages(r, t) PROVE Limits'
  <2>1. /\ UNCHANGED <<conflicts, redone, finality, dlqTopic, owner, tries>>
        /\ (Fault \/ UNCHANGED faults) /\ Goto(r, t, "idle")
    BY <1>6 DEF CommitMessages
  <2>. QED
    BY <2>1, FaultCounted, GoesElsewhere DEF Limits, Steps
<1>7. ASSUME NEW r \in Readers, NEW t \in Topics, Rebalance(r, t) PROVE Limits'
  <2>1. /\ UNCHANGED <<conflicts, redone, finality, dlqTopic, tries, pc>>
        /\ Fault /\ owner' = [owner EXCEPT ![t] = r]
    BY <1>7 DEF Rebalance
  <2>. QED
    BY <2>1, FaultCounted DEF Limits
<1>8. ASSUME NEW r \in Readers, Crash(r) PROVE Limits'
  <2>1. /\ UNCHANGED <<conflicts, redone, finality, dlqTopic, owner, tries>>
        /\ Fault /\ pc' = [pc EXCEPT ![r] = [t \in Topics |-> "idle"]]
    BY <1>8 DEF Crash
  <2>2. \A q \in Readers, u \in Topics : pc'[q][u] = "handle" => pc[q][u] = "handle"
    BY <1>0, <2>1 DEF Types
  <2>. QED
    BY <2>1, <2>2, FaultCounted DEF Limits
<1>9. ASSUME NEW p \in Places, Replay(p) PROVE Limits'
  <2>1. /\ UNCHANGED <<conflicts, redone, finality, owner, tries, pc>>
        /\ (Fault \/ UNCHANGED faults) /\ dlqTopic' \subseteq Places
    BY <1>9 DEF Replay, Limits
  <2>. QED
    BY <2>1, FaultCounted DEF Limits
<1>10. CASE UNCHANGED vars
  BY <1>10 DEF Limits
<1>. QED
  BY <1>1, <1>2, <1>3, <1>4, <1>5, <1>6, <1>7, <1>8, <1>9, <1>10 DEF Next, Handle

(* What the consumer keeps besides IInv: the sums, and the limits of its   *)
(* retries and faults.                                                     *)
THEOREM SumsInvariance == Spec => [](IInv /\ Sums /\ Limits)
<1>1. Init => IInv /\ Sums /\ Limits
  BY IInvInit, SumsInit, LimitsInit
<1>2. IInv /\ Sums /\ Limits /\ [Next]_vars => (IInv /\ Sums /\ Limits)'
  BY IInvStep, SumsStep, LimitsStep
<1>. QED
  BY <1>1, <1>2, PTL DEF Spec

(* Every variable keeps its type: a message is handled three times at most *)
(* before it goes to the DLQ, and no counter becomes negative although the *)
(* pending counter is decremented (consumeSingleTopic, projection_repo).   *)
THEOREM TypeCorrect == Spec => []TypeOK
<1>1. IInv /\ Sums /\ Limits => TypeOK
  BY DEF IInv, Types, Placed, Sums, Counters, Limits, TypeOK, Steps
<1>. QED
  BY <1>1, SumsInvariance, PTL

(* A counter is the sum over the events with a PROCESSED receipt, once     *)
(* each, for any topics, readers, redeliveries, retries and rollbacks, as  *)
(* long as no event conflicted and no final receipt was overwritten        *)
(* (RunOnce, the Atomic methods of projection_repo).                       *)
THEOREM CountersAreSums == Spec => []CountersMatchReceipts
<1>1. Sums => CountersMatchReceipts
  BY DEF Sums, CountsFit, CountersMatchReceipts, Summed, Value
<1>. QED
  BY <1>1, SumsInvariance, PTL

(* The tenant's daily rows and the batches' lifetime rows have the same    *)
(* sum in every field, for any batches, days and events: every transaction *)
(* writes both or neither, and recomputes both totals (BothScopes,         *)
(* recomputeLeakageTotals, consistency_check.go).                          *)
THEOREM TenantSumsAgree == Spec => []TenantIsSumOfBatches
<1>1. Sums => TenantIsSumOfBatches
  BY DEF Sums, SumsAgree, TenantIsSumOfBatches
<1>. QED
  BY <1>1, SumsInvariance, PTL
=============================================================================
