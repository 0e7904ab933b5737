------------------------- MODULE PaymentTruthProofs -------------------------
(***************************************************************************)
(* Proofs about PaymentTruth for any payments, observations, batches and   *)
(* runners: its type, the reducer's order, what the stored observations,   *)
(* the canonical rows and the outbox have to do with each other, and that  *)
(* only a transaction that found no row takes a payment back.              *)
(***************************************************************************)
EXTENDS PaymentTruth, TLAPS

(* An idle runner has no transaction: it holds and has written nothing.    *)
IdleIsEmpty ==
    \A r \in Runners : pc[r] = "idle" =>
        /\ \A p \in Payments : holder[p] # r /\ mine[r][p] = NoRow
        /\ newEvents[r] = {} /\ newObserved[r] = {} /\ newUpdated[r] = {}

(* A runner that is past InsertObservationEvent has a current observation, *)
(* which it inserted itself unless it is a duplicate.                      *)
Processing(r) == pc[r] \in {"read", "link", "write"}

CurrentIsNew ==
    \A r \in Runners :
        /\ pc[r] \in {"read", "readDuplicate", "link", "write"} => cur[r] \in Observations
        /\ Processing(r) => cur[r] \in newEvents[r]

(* A row a transaction wrote is locked by it until the end.                *)
WrittenIsHeld ==
    \A r \in Runners, p \in Payments : mine[r][p] # NoRow => holder[p] = r

(* What GetCanonicalPayment found stays what the transaction sees.         *)
ReadIsCurrent ==
    \A r \in Runners : pc[r] \in {"link", "write"} /\ current[r] # NoRow =>
        /\ holder[cur[r].payment] = r
        /\ current[r] = View(r, cur[r].payment)

(* What is about to be written comes from what was read.                   *)
ReducedFromCurrent ==
    \A r \in Runners : pc[r] = "write" =>
        /\ reduced[r].status = nextStatus(current[r].status, cur[r].status)
        /\ current[r].linked => reduced[r].linked

(* Not behind the committed row, unless written without having read one.   *)
WrittenIsForward ==
    \A r \in Runners, p \in Payments :
        mine[r][p] # NoRow /\ p \notin inserted[r] =>
            /\ Rank(mine[r][p].status) >= Rank(canon[p].status)
            /\ canon[p].linked => mine[r][p].linked

(* The properties, as each transaction would leave them.                   *)
Reported(row, p, E) == \E o \in E : o.payment = p /\ o.status = row.status
Announced(row, p, U) == \E h \in Hashes : <<p, row.status, h>> \in U

KeyOf(o) == <<o.payment, o.hash>>

WrittenIsReported ==
    \A r \in Runners, p \in Payments :
        mine[r][p] # NoRow => Reported(mine[r][p], p, events \cup newEvents[r])

WrittenIsAnnounced ==
    \A r \in Runners, p \in Payments :
        mine[r][p] # NoRow => Announced(mine[r][p], p, updated \cup newUpdated[r])

(* An inserted observation is announced in the same transaction, as soon   *)
(* as it is processed.                                                     *)
InsertedIsAnnounced ==
    \A r \in Runners :
        /\ \A o \in newEvents[r] : ~(Processing(r) /\ o = cur[r]) => KeyOf(o) \in newObserved[r]
        /\ \A k \in newObserved[r] : \E o \in newEvents[r] : k = KeyOf(o)

IInv ==
    /\ TypeOK
    /\ IdleIsEmpty
    /\ CurrentIsNew
    /\ WrittenIsHeld
    /\ ReadIsCurrent
    /\ ReducedFromCurrent
    /\ WrittenIsForward
    /\ WrittenIsReported
    /\ WrittenIsAnnounced
    /\ InsertedIsAnnounced
    /\ StoredIsAnnounced
    /\ StatusIsReported
    /\ StatusIsAnnounced

-----------------------------------------------------------------------------
(* Observations and rows.                                                  *)

(* The parts of an observation are of their kinds.                         *)
LEMMA ObservationFacts ==
    \A o \in Observations :
        /\ o.payment \in Payments /\ o.hash \in Hashes
        /\ o.status \in Status /\ o.status # "none"
        /\ o # NoObservation
  BY PaymentAssumption DEF Observation, Status

(* A row is NoRow or has a status; what it is made of decides which.       *)
LEMMA RowFacts ==
    /\ NoRow \in Row
    /\ NoRow.status = "none" /\ NoRow.linked = FALSE
    /\ \A row \in Row : row.linked \in BOOLEAN
    /\ \A row \in Row : row # NoRow => row.status \in Status
    /\ \A row \in Row : row = NoRow <=> row.status = "none"
    /\ \A s \in Status, b \in BOOLEAN :
          /\ [status |-> s, linked |-> b] \in Row
          /\ [status |-> s, linked |-> b] # NoRow
<1>1. NoRow \in Row /\ NoRow.status = "none" /\ NoRow.linked = FALSE
  BY DEF Row, NoRow
<1>2. ASSUME NEW row \in Row
      PROVE  /\ row.linked \in BOOLEAN
             /\ row # NoRow => row.status \in Status
             /\ row = NoRow <=> row.status = "none"
  <2>1. CASE row = NoRow
    BY <2>1 DEF NoRow
  <2>2. CASE row \in [status : Status, linked : BOOLEAN]
    BY <2>2 DEF NoRow, Status
  <2>. QED
    BY <2>1, <2>2 DEF Row
<1>3. ASSUME NEW s \in Status, NEW b \in BOOLEAN
      PROVE  /\ [status |-> s, linked |-> b] \in Row
             /\ [status |-> s, linked |-> b] # NoRow
  BY DEF Row, NoRow, Status
<1>. QED
  BY <1>1, <1>2, <1>3

(* ReducePaymentState (reducer.go) never takes a status back, takes either *)
(* the current or the incoming one, and the incoming one if it is first.   *)
LEMMA ReducerIsForward ==
    ASSUME NEW s \in Status \cup {"none"}, NEW i \in Status
    PROVE  /\ nextStatus(s, i) \in {s, i}
           /\ nextStatus(s, i) \in Status
           /\ Rank(nextStatus(s, i)) >= Rank(s)
           /\ s = "none" => nextStatus(s, i) = i
  BY DEF nextStatus, Supersedes, Rank, isRefund, IsCapturedOrLater, Status

(* Ranks are numbers.                                                      *)
LEMMA RankIsNumber == \A s \in Status \cup {"none"} : Rank(s) \in Int
  BY DEF Rank, Status

(* A payment that is captured or later stays so through ReducePaymentState *)
(* (reducer.go), whatever is reported next.                                *)
THEOREM CapturedStaysCaptured ==
    ASSUME NEW s \in Status, NEW i \in Status, IsCapturedOrLater(s)
    PROVE  IsCapturedOrLater(nextStatus(s, i))
  BY DEF nextStatus, Supersedes, Rank, isRefund, IsCapturedOrLater, Status

-----------------------------------------------------------------------------
(* The invariant holds initially.                                          *)
LEMMA IInvInit == Init => IInv
<1> SUFFICES ASSUME Init PROVE IInv
  OBVIOUS
<1>1. /\ \A r \in Runners, p \in Payments : mine[r][p] = NoRow
      /\ \A p \in Payments : canon[p] = NoRow
  BY DEF Init, NoRows
<1>2. TypeOK
  BY RowFacts DEF Init, TypeOK, NoRows
<1>3. IdleIsEmpty /\ WrittenIsHeld /\ WrittenIsForward /\ WrittenIsReported /\ WrittenIsAnnounced
  BY <1>1, PaymentAssumption DEF Init, IdleIsEmpty, WrittenIsHeld, WrittenIsForward, WrittenIsReported, WrittenIsAnnounced
<1>4. CurrentIsNew /\ ReadIsCurrent /\ ReducedFromCurrent /\ InsertedIsAnnounced
  BY DEF Init, CurrentIsNew, Processing, ReadIsCurrent, ReducedFromCurrent, InsertedIsAnnounced
<1>5. StoredIsAnnounced
  BY DEF Init, StoredIsAnnounced
<1>6. StatusIsReported /\ StatusIsAnnounced
  BY <1>1 DEF StatusIsReported, StatusIsAnnounced
<1>. QED
  BY <1>2, <1>3, <1>4, <1>5, <1>6 DEF IInv

(* What a transaction sees is a row.                                       *)
LEMMA ViewIsRow ==
    ASSUME TypeOK, NEW r \in Runners, NEW p \in Payments
    PROVE  View(r, p) \in Row
  BY DEF TypeOK, View

(* A transaction begins.                                                   *)
LEMMA BeginStep ==
    ASSUME IInv, NEW r \in Runners, NEW B \in Batches, Begin(r, B)
    PROVE  IInv'
<1> USE DEF Begin, Goto, dbVars, itemVars, writeVars
<1>1. TypeOK'
  BY PaymentAssumption DEF IInv, TypeOK
<1>2. (IdleIsEmpty /\ WrittenIsHeld)'
  BY DEF IInv, TypeOK, IdleIsEmpty, WrittenIsHeld
<1>3. CurrentIsNew'
  BY DEF IInv, TypeOK, CurrentIsNew, Processing
<1>4. (ReadIsCurrent /\ ReducedFromCurrent)'
  BY DEF IInv, TypeOK, ReadIsCurrent, ReducedFromCurrent, View
<1>5. (WrittenIsForward /\ WrittenIsReported /\ WrittenIsAnnounced)'
  BY DEF IInv, TypeOK, WrittenIsForward, WrittenIsReported, WrittenIsAnnounced, Reported, Announced
<1>6. InsertedIsAnnounced'
  BY DEF IInv, TypeOK, InsertedIsAnnounced, Processing, KeyOf
<1>7. (StoredIsAnnounced /\ StatusIsReported /\ StatusIsAnnounced)'
  BY DEF IInv, StoredIsAnnounced, StatusIsReported, StatusIsAnnounced
<1>. QED
  BY <1>1, <1>2, <1>3, <1>4, <1>5, <1>6, <1>7 DEF IInv

(* InsertObservationEvent, for a new observation or a duplicate.           *)
LEMMA InsertStep ==
    ASSUME IInv, NEW r \in Runners, NEW o \in Observations, InsertObservationEvent(r, o)
    PROVE  IInv'
<1> USE DEF InsertObservationEvent, Goto, dbVars, itemVars, writeVars
<1>n. /\ newEvents' \in [Runners -> SUBSET Observations]
      /\ \A q \in Runners : newEvents[q] \subseteq newEvents'[q]
  <2>1. CASE newEvents' = [newEvents EXCEPT ![r] = @ \cup {o}]
    BY <2>1 DEF IInv, TypeOK
  <2>2. CASE UNCHANGED newEvents
    BY <2>2 DEF IInv, TypeOK
  <2>. QED
    BY <2>1, <2>2
<1>1. TypeOK'
  BY <1>n DEF IInv, TypeOK
<1>2. (IdleIsEmpty /\ WrittenIsHeld)'
  BY DEF IInv, TypeOK, IdleIsEmpty, WrittenIsHeld
<1>3. CurrentIsNew'
  BY DEF IInv, TypeOK, CurrentIsNew, Processing
<1>4. (ReadIsCurrent /\ ReducedFromCurrent)'
  BY DEF IInv, TypeOK, ReadIsCurrent, ReducedFromCurrent, View
<1>5. (WrittenIsForward /\ WrittenIsAnnounced)'
  BY DEF IInv, WrittenIsForward, WrittenIsAnnounced, Announced
<1>6. WrittenIsReported'
  BY <1>n DEF IInv, WrittenIsReported, Reported
<1>7. InsertedIsAnnounced'
  BY DEF IInv, TypeOK, InsertedIsAnnounced, Processing, KeyOf
<1>8. (StoredIsAnnounced /\ StatusIsReported /\ StatusIsAnnounced)'
  BY DEF IInv, StoredIsAnnounced, StatusIsReported, StatusIsAnnounced
<1>. QED
  BY <1>1, <1>2, <1>3, <1>4, <1>5, <1>6, <1>7, <1>8 DEF IInv

(* GetCanonicalPayment, with a row to lock or without.                     *)
LEMMA GetStep ==
    ASSUME IInv, NEW r \in Runners, GetCanonicalPayment(r)
    PROVE  IInv'
<1> USE DEF GetCanonicalPayment, Goto, dbVars, itemVars, writeVars
<1>p. cur[r].payment \in Payments
  BY ObservationFacts DEF IInv, CurrentIsNew
<1>1. TypeOK'
  BY <1>p, ViewIsRow DEF IInv, TypeOK
<1>2. IdleIsEmpty'
  BY <1>p DEF IInv, TypeOK, IdleIsEmpty
<1>3. WrittenIsHeld'
  BY <1>p, PaymentAssumption DEF IInv, TypeOK, WrittenIsHeld, Free
<1>4. CurrentIsNew'
  BY DEF IInv, TypeOK, CurrentIsNew, Processing
<1>5. ReadIsCurrent'
  <2> SUFFICES ASSUME NEW q \in Runners, pc'[q] \in {"link", "write"}, current'[q] # NoRow
               PROVE  /\ holder'[cur[q].payment] = q
                      /\ current'[q] = View(q, cur[q].payment)
    BY DEF ReadIsCurrent, View
  <2>1. CASE q = r
    BY <1>p, <2>1 DEF IInv, TypeOK, WrittenIsHeld, View
  <2>2. CASE q # r
    <3>1. /\ holder[cur[q].payment] = q /\ current'[q] = View(q, cur[q].payment)
          /\ cur[q].payment \in Payments
      BY <2>2, ObservationFacts DEF IInv, TypeOK, ReadIsCurrent, CurrentIsNew
    <3>. QED
      BY <1>p, <2>2, <3>1, PaymentAssumption DEF IInv, TypeOK, Free
  <2>. QED
    BY <2>1, <2>2
<1>6. ReducedFromCurrent'
  BY DEF IInv, TypeOK, ReducedFromCurrent
<1>7. (WrittenIsForward /\ WrittenIsReported /\ WrittenIsAnnounced)'
  BY DEF IInv, TypeOK, WrittenIsForward, WrittenIsReported, WrittenIsAnnounced, Reported, Announced
<1>8. InsertedIsAnnounced'
  BY DEF IInv, TypeOK, InsertedIsAnnounced, Processing, KeyOf
<1>9. (StoredIsAnnounced /\ StatusIsReported /\ StatusIsAnnounced)'
  BY DEF IInv, StoredIsAnnounced, StatusIsReported, StatusIsAnnounced
<1>. QED
  BY <1>1, <1>2, <1>3, <1>4, <1>5, <1>6, <1>7, <1>8, <1>9 DEF IInv

(* ReducePaymentState and linkIntent.                                      *)
LEMMA ReduceStep ==
    ASSUME IInv, NEW r \in Runners, ReducePaymentState(r)
    PROVE  IInv'
<1> USE DEF ReducePaymentState, Goto, dbVars, itemVars, writeVars
<1>a. cur[r] \in Observations /\ current[r] \in Row
  BY DEF IInv, TypeOK, CurrentIsNew
<1>b. /\ nextStatus(current[r].status, cur[r].status) \in Status
      /\ (current[r].linked \/ cur[r].payment \in intents) \in BOOLEAN
  BY <1>a, ObservationFacts, RowFacts, ReducerIsForward
<1>1. TypeOK'
  BY <1>b, RowFacts DEF IInv, TypeOK
<1>2. (IdleIsEmpty /\ WrittenIsHeld)'
  BY DEF IInv, TypeOK, IdleIsEmpty, WrittenIsHeld
<1>3. CurrentIsNew'
  BY DEF IInv, TypeOK, CurrentIsNew, Processing
<1>4. ReadIsCurrent'
  BY DEF IInv, TypeOK, ReadIsCurrent, View
<1>5. ReducedFromCurrent'
  BY DEF IInv, TypeOK, ReducedFromCurrent
<1>6. (WrittenIsForward /\ WrittenIsReported /\ WrittenIsAnnounced)'
  BY SMTT(60) DEF IInv, TypeOK, WrittenIsForward, WrittenIsReported, WrittenIsAnnounced,
                  Reported, Announced
<1>7. InsertedIsAnnounced'
  BY DEF IInv, TypeOK, InsertedIsAnnounced, Processing, KeyOf
<1>8. (StoredIsAnnounced /\ StatusIsReported /\ StatusIsAnnounced)'
  BY DEF IInv, StoredIsAnnounced, StatusIsReported, StatusIsAnnounced
<1>. QED
  BY <1>1, <1>2, <1>3, <1>4, <1>5, <1>6, <1>7, <1>8 DEF IInv

(* UpsertCanonicalPayment and the outbox rows.                             *)
LEMMA UpsertStep ==
    ASSUME IInv, NEW r \in Runners, UpsertCanonicalPayment(r)
    PROVE  IInv'
<1> USE DEF UpsertCanonicalPayment, Goto, dbVars, itemVars, writeVars
<1> DEFINE p == cur[r].payment
           new == reduced[r]
<1>a. /\ cur[r] \in Observations /\ cur[r] \in newEvents[r]
      /\ p \in Payments /\ cur[r].hash \in Hashes /\ cur[r].status \in Status
  BY ObservationFacts DEF IInv, TypeOK, CurrentIsNew, Processing
<1>b. new \in Row /\ current[r] \in Row
  BY DEF IInv, TypeOK
<1>d. /\ \/ new.status = cur[r].status
         \/ current[r] # NoRow /\ new.status = current[r].status
      /\ Rank(new.status) >= Rank(current[r].status)
      /\ current[r].linked => new.linked
      /\ new.status \in Status
  BY <1>a, <1>b, RowFacts, ReducerIsForward DEF IInv, ReducedFromCurrent
<1>c. <<p, cur[r].hash>> \in ObservedKeys /\ <<p, new.status, cur[r].hash>> \in UpdatedKeys
  BY <1>a, <1>d DEF ObservedKeys, UpdatedKeys
<1>m. /\ mine' = [mine EXCEPT ![r] = [mine[r] EXCEPT ![p] = new]]
      /\ mine'[r][p] = new
      /\ \A q \in Runners, z \in Payments : ~(q = r /\ z = p) => mine'[q][z] = mine[q][z]
  BY <1>a DEF IInv, TypeOK
<1>1. TypeOK'
  BY <1>a, <1>b, <1>c DEF IInv, TypeOK, ObservedKeys, UpdatedKeys
<1>2. IdleIsEmpty'
  BY <1>a DEF IInv, TypeOK, IdleIsEmpty, Free
<1>3. WrittenIsHeld'
  BY <1>a, <1>m, PaymentAssumption DEF IInv, TypeOK, WrittenIsHeld, Free
<1>4. CurrentIsNew'
  BY DEF IInv, TypeOK, CurrentIsNew, Processing
<1>5. ReadIsCurrent'
  <2> SUFFICES ASSUME NEW q \in Runners, pc'[q] \in {"link", "write"}, current[q] # NoRow
               PROVE  /\ holder'[cur[q].payment] = q
                      /\ current[q] = View(q, cur[q].payment)'
    BY DEF ReadIsCurrent, View
  <2>1. /\ q # r /\ holder[cur[q].payment] = q /\ current[q] = View(q, cur[q].payment)
        /\ cur[q].payment \in Payments
    BY ObservationFacts DEF IInv, TypeOK, ReadIsCurrent, CurrentIsNew
  <2>2. holder'[cur[q].payment] = q
    BY <1>a, <2>1, PaymentAssumption DEF IInv, TypeOK, Free
  <2>. QED
    BY <1>m, <2>1, <2>2 DEF View
<1>6. ReducedFromCurrent'
  BY DEF IInv, TypeOK, ReducedFromCurrent
<1>7. WrittenIsForward'
  <2> SUFFICES ASSUME NEW q \in Runners, NEW z \in Payments,
                      mine'[q][z] # NoRow, z \notin inserted'[q]
               PROVE  /\ Rank(mine'[q][z].status) >= Rank(canon[z].status)
                      /\ canon[z].linked => mine'[q][z].linked
    BY DEF WrittenIsForward
  <2>1. CASE q = r /\ z = p
    <3>1. current[r] # NoRow /\ z \notin inserted[r] /\ current[r] = View(r, p)
      BY <2>1 DEF IInv, TypeOK, ReadIsCurrent
    <3>2. /\ Rank(current[r].status) >= Rank(canon[p].status)
          /\ canon[p].linked => current[r].linked
      BY <1>a, <2>1, <3>1, RankIsNumber, RowFacts DEF IInv, TypeOK, WrittenIsForward, View
    <3>3. /\ Rank(new.status) >= Rank(current[r].status)
          /\ current[r].linked => new.linked
      BY <1>d
    <3>. QED
      <4>1. /\ Rank(new.status) \in Int /\ Rank(current[r].status) \in Int
            /\ Rank(canon[p].status) \in Int
        BY <1>a, <1>b, RankIsNumber, RowFacts DEF IInv, TypeOK
      <4>2. Rank(new.status) >= Rank(canon[p].status)
        BY <3>2, <3>3, <4>1
      <4>. QED
        BY <1>m, <2>1, <3>2, <3>3, <4>2
  <2>2. CASE ~(q = r /\ z = p)
    BY <1>a, <1>m, <2>2 DEF IInv, TypeOK, WrittenIsForward
  <2>. QED
    BY <2>1, <2>2
<1>8. WrittenIsReported'
  <2> SUFFICES ASSUME NEW q \in Runners, NEW z \in Payments, mine'[q][z] # NoRow
               PROVE  Reported(mine'[q][z], z, events \cup newEvents[q])
    BY DEF WrittenIsReported
  <2>1. CASE q = r /\ z = p
    <3>1. CASE new.status = cur[r].status
      BY <1>a, <1>m, <2>1, <3>1 DEF Reported
    <3>2. CASE current[r] # NoRow /\ new.status = current[r].status
      BY <1>a, <1>m, <2>1, <3>2 DEF IInv, ReadIsCurrent, View, WrittenIsReported, StatusIsReported, Reported
    <3>. QED
      BY <1>d, <3>1, <3>2
  <2>2. CASE ~(q = r /\ z = p)
    BY <1>a, <1>m, <2>2 DEF IInv, TypeOK, WrittenIsReported
  <2>. QED
    BY <2>1, <2>2
<1>9. WrittenIsAnnounced'
  <2> SUFFICES ASSUME NEW q \in Runners, NEW z \in Payments, mine'[q][z] # NoRow
               PROVE  Announced(mine'[q][z], z, updated \cup newUpdated'[q])
    BY DEF WrittenIsAnnounced
  <2>1. CASE q = r /\ z = p
    <3>1. CASE changed(current[r], new)
      BY <1>a, <1>m, <2>1, <3>1 DEF IInv, TypeOK, Announced
    <3>2. CASE ~changed(current[r], new)
      <4>1. current[r] # NoRow /\ new.status = current[r].status
        BY <3>2 DEF changed
      <4>2. newUpdated'[r] = newUpdated[r]
        BY <3>2 DEF IInv, TypeOK
      <4>3. Announced(current[r], p, updated \cup newUpdated[r])
        BY <1>a, <4>1 DEF IInv, ReadIsCurrent, View, WrittenIsAnnounced, StatusIsAnnounced, Announced
      <4>. QED
        BY <1>m, <2>1, <4>1, <4>2, <4>3 DEF Announced
    <3>. QED
      BY <3>1, <3>2
  <2>2. CASE ~(q = r /\ z = p)
    <3>1. mine'[q][z] = mine[q][z] /\ newUpdated[q] \subseteq newUpdated'[q]
      BY <1>m, <2>2 DEF IInv, TypeOK
    <3>. QED
      BY <3>1 DEF IInv, WrittenIsAnnounced, Announced
  <2>. QED
    BY <2>1, <2>2
<1>10. InsertedIsAnnounced'
  BY <1>a DEF IInv, TypeOK, InsertedIsAnnounced, Processing, KeyOf
<1>11. (StoredIsAnnounced /\ StatusIsReported /\ StatusIsAnnounced)'
  BY DEF IInv, StoredIsAnnounced, StatusIsReported, StatusIsAnnounced
<1>. QED
  BY <1>1, <1>2, <1>3, <1>4, <1>5, <1>6, <1>7, <1>8, <1>9, <1>10, <1>11 DEF IInv

(* A transaction that ends leaves nothing behind and touches no other.     *)
LEMMA EndFacts ==
    ASSUME TypeOK, NEW r \in Runners, End(r)
    PROVE  /\ pc'[r] = "idle" /\ newEvents'[r] = {} /\ newObserved'[r] = {} /\ newUpdated'[r] = {}
           /\ \A p \in Payments :
                 /\ mine'[r][p] = NoRow
                 /\ holder'[p] = IF holder[p] = r THEN NoRunner ELSE holder[p]
           /\ \A q \in Runners \ {r} :
                 /\ pc'[q] = pc[q] /\ cur'[q] = cur[q] /\ current'[q] = current[q]
                 /\ reduced'[q] = reduced[q] /\ mine'[q] = mine[q] /\ inserted'[q] = inserted[q]
                 /\ newEvents'[q] = newEvents[q] /\ newObserved'[q] = newObserved[q]
                 /\ newUpdated'[q] = newUpdated[q]
           /\ /\ holder' \in [Payments -> Runners \cup {NoRunner}]
              /\ pc' \in [Runners -> {"idle", "open", "read", "readDuplicate", "link", "write"}]
              /\ todo' \in [Runners -> SUBSET Observations]
              /\ cur' \in [Runners -> Observations \cup {NoObservation}]
              /\ current' \in [Runners -> Row]
              /\ reduced' \in [Runners -> Row]
              /\ mine' \in [Runners -> [Payments -> Row]]
              /\ newEvents' \in [Runners -> SUBSET Observations]
              /\ newObserved' \in [Runners -> SUBSET ObservedKeys]
              /\ newUpdated' \in [Runners -> SUBSET UpdatedKeys]
              /\ inserted' \in [Runners -> SUBSET Payments]
<1> USE DEF TypeOK, End, Goto
<1>1. NoRows \in [Payments -> Row] /\ \A p \in Payments : NoRows[p] = NoRow
  BY RowFacts DEF NoRows
<1>2. /\ pc'[r] = "idle" /\ newEvents'[r] = {} /\ newObserved'[r] = {} /\ newUpdated'[r] = {}
      /\ mine'[r] = NoRows
  OBVIOUS
<1>3. ASSUME NEW q \in Runners \ {r}
      PROVE  /\ pc'[q] = pc[q] /\ cur'[q] = cur[q] /\ current'[q] = current[q]
             /\ reduced'[q] = reduced[q] /\ mine'[q] = mine[q] /\ inserted'[q] = inserted[q]
             /\ newEvents'[q] = newEvents[q] /\ newObserved'[q] = newObserved[q]
             /\ newUpdated'[q] = newUpdated[q]
  OBVIOUS
<1>4. /\ holder' \in [Payments -> Runners \cup {NoRunner}]
      /\ \A p \in Payments : holder'[p] = IF holder[p] = r THEN NoRunner ELSE holder[p]
  OBVIOUS
<1>5. /\ pc' \in [Runners -> {"idle", "open", "read", "readDuplicate", "link", "write"}]
      /\ todo' \in [Runners -> SUBSET Observations]
      /\ cur' \in [Runners -> Observations \cup {NoObservation}]
      /\ current' \in [Runners -> Row]
      /\ reduced' \in [Runners -> Row]
  BY RowFacts
<1>6. /\ mine' \in [Runners -> [Payments -> Row]]
      /\ newEvents' \in [Runners -> SUBSET Observations]
      /\ newObserved' \in [Runners -> SUBSET ObservedKeys]
      /\ newUpdated' \in [Runners -> SUBSET UpdatedKeys]
      /\ inserted' \in [Runners -> SUBSET Payments]
  BY <1>1
<1>. QED
  BY <1>1, <1>2, <1>3, <1>4, <1>5, <1>6

(* A commit publishes the transaction's writes and ends it.                *)
LEMMA CommitStep ==
    ASSUME IInv, NEW r \in Runners, Commit(r)
    PROVE  IInv'
<1> USE DEF Commit, dbVars
<1>e. /\ \A q \in Runners \ {r}, p \in Payments : holder[p] = q => holder'[p] = q
      /\ \A p \in Payments : holder'[p] # r
  BY EndFacts, PaymentAssumption DEF IInv
<1>v. /\ \A p \in Payments : canon'[p] = View(r, p)
      /\ canon' \in [Payments -> Row]
  BY ViewIsRow DEF IInv
<1>o. ASSUME NEW q \in Runners, NEW p \in Payments, holder[p] = q, q # r
      PROVE  canon'[p] = canon[p]
  BY <1>v, <1>o DEF IInv, WrittenIsHeld, View
<1>1. TypeOK'
  BY EndFacts, <1>v DEF IInv, TypeOK
<1>2. IdleIsEmpty'
  <2> SUFFICES ASSUME NEW q \in Runners, pc'[q] = "idle"
               PROVE  /\ \A p \in Payments : holder'[p] # q /\ mine'[q][p] = NoRow
                      /\ newEvents'[q] = {} /\ newObserved'[q] = {} /\ newUpdated'[q] = {}
    BY DEF IdleIsEmpty
  <2>1. CASE q = r
    BY EndFacts, <1>e, <2>1 DEF IInv
  <2>2. CASE q # r
    <3>1. /\ pc[q] = "idle" /\ mine'[q] = mine[q] /\ newEvents'[q] = newEvents[q]
          /\ newObserved'[q] = newObserved[q] /\ newUpdated'[q] = newUpdated[q]
      BY EndFacts, <2>2 DEF IInv
    <3>2. \A p \in Payments : holder'[p] # q
      <4>1. \A p \in Payments : holder'[p] = IF holder[p] = r THEN NoRunner ELSE holder[p]
        BY EndFacts DEF IInv
      <4>2. \A p \in Payments : holder[p] # q
        BY <3>1 DEF IInv, IdleIsEmpty
      <4>. QED
        BY <4>1, <4>2, PaymentAssumption
    <3>. QED
      BY <3>1, <3>2 DEF IInv, IdleIsEmpty
  <2>. QED
    BY <2>1, <2>2
<1>3. WrittenIsHeld'
  <2> SUFFICES ASSUME NEW q \in Runners, NEW p \in Payments, mine'[q][p] # NoRow
               PROVE  holder'[p] = q
    BY DEF WrittenIsHeld
  <2>1. q # r /\ mine'[q] = mine[q]
    BY EndFacts DEF IInv
  <2>. QED
    BY <1>e, <2>1 DEF IInv, WrittenIsHeld
<1>4. CurrentIsNew'
  BY EndFacts DEF IInv, CurrentIsNew, Processing
<1>5. ReadIsCurrent'
  <2> SUFFICES ASSUME NEW q \in Runners, pc'[q] \in {"link", "write"}, current'[q] # NoRow
               PROVE  /\ holder'[cur'[q].payment] = q
                      /\ current'[q] = View(q, cur[q].payment)'
    BY DEF ReadIsCurrent, View
  <2>1. /\ q # r /\ cur'[q] = cur[q] /\ mine'[q] = mine[q] /\ current'[q] = current[q]
        /\ holder[cur[q].payment] = q /\ current[q] = View(q, cur[q].payment)
        /\ cur[q].payment \in Payments
    BY EndFacts, ObservationFacts DEF IInv, ReadIsCurrent, CurrentIsNew
  <2>2. canon'[cur[q].payment] = canon[cur[q].payment]
    BY <1>o, <2>1
  <2>. QED
    BY <1>e, <2>1, <2>2 DEF View
<1>6. ReducedFromCurrent'
  BY EndFacts DEF IInv, ReducedFromCurrent
<1>7. WrittenIsForward'
  <2> SUFFICES ASSUME NEW q \in Runners, NEW p \in Payments, mine'[q][p] # NoRow, p \notin inserted'[q]
               PROVE  /\ Rank(mine'[q][p].status) >= Rank(canon'[p].status)
                      /\ canon'[p].linked => mine'[q][p].linked
    BY DEF WrittenIsForward
  <2>1. q # r /\ mine'[q] = mine[q] /\ inserted'[q] = inserted[q]
    BY EndFacts DEF IInv
  <2>2. canon'[p] = canon[p]
    BY <1>o, <2>1 DEF IInv, WrittenIsHeld
  <2>. QED
    BY <2>1, <2>2 DEF IInv, WrittenIsForward
<1>8. (WrittenIsReported /\ WrittenIsAnnounced)'
  <2> SUFFICES ASSUME NEW q \in Runners, NEW p \in Payments, mine'[q][p] # NoRow
               PROVE  /\ Reported(mine'[q][p], p, events' \cup newEvents'[q])
                      /\ Announced(mine'[q][p], p, updated' \cup newUpdated'[q])
    BY DEF WrittenIsReported, WrittenIsAnnounced
  <2>1. q # r /\ mine'[q] = mine[q] /\ newEvents'[q] = newEvents[q] /\ newUpdated'[q] = newUpdated[q]
    BY EndFacts DEF IInv
  <2>2. Reported(mine[q][p], p, events \cup newEvents[q])
    BY <2>1 DEF IInv, WrittenIsReported
  <2>3. Announced(mine[q][p], p, updated \cup newUpdated[q])
    BY <2>1 DEF IInv, WrittenIsAnnounced
  <2>4. events \subseteq events' /\ updated \subseteq updated'
    OBVIOUS
  <2>. QED
    BY <2>1, <2>2, <2>3, <2>4 DEF Reported, Announced
<1>9. InsertedIsAnnounced'
  <2> SUFFICES ASSUME NEW q \in Runners
               PROVE  /\ \A o \in newEvents'[q] :
                            ~(Processing(q)' /\ o = cur'[q]) => KeyOf(o) \in newObserved'[q]
                      /\ \A k \in newObserved'[q] : \E o \in newEvents'[q] : k = KeyOf(o)
    BY DEF InsertedIsAnnounced, Processing, KeyOf
  <2>1. CASE q = r
    BY EndFacts, <2>1 DEF IInv
  <2>2. CASE q # r
    <3>1. /\ newEvents'[q] = newEvents[q] /\ newObserved'[q] = newObserved[q]
          /\ pc'[q] = pc[q] /\ cur'[q] = cur[q]
      BY EndFacts, <2>2 DEF IInv
    <3>. QED
      BY <3>1 DEF IInv, InsertedIsAnnounced, Processing
  <2>. QED
    BY <2>1, <2>2
<1>10. StoredIsAnnounced'
  <2>1. \A o \in newEvents[r] : <<o.payment, o.hash>> \in newObserved[r]
    BY DEF IInv, InsertedIsAnnounced, Processing, KeyOf
  <2>2. \A k \in newObserved[r] : \E o \in newEvents[r] : k = <<o.payment, o.hash>>
    BY DEF IInv, InsertedIsAnnounced, KeyOf
  <2>. QED
    BY <2>1, <2>2 DEF IInv, StoredIsAnnounced
<1>11. StatusIsReported'
  BY <1>v DEF IInv, View, StatusIsReported, WrittenIsReported, Reported
<1>12. StatusIsAnnounced'
  BY <1>v DEF IInv, View, StatusIsAnnounced, WrittenIsAnnounced, Announced
<1>. QED
  BY <1>1, <1>2, <1>3, <1>4, <1>5, <1>6, <1>7, <1>8, <1>9, <1>10, <1>11, <1>12 DEF IInv

(* A rollback only ends the transaction.                                   *)
LEMMA RollbackStep ==
    ASSUME IInv, NEW r \in Runners, Rollback(r)
    PROVE  IInv'
<1> USE DEF Rollback, dbVars
<1>e. /\ \A q \in Runners \ {r}, p \in Payments : holder[p] = q => holder'[p] = q
      /\ \A p \in Payments : holder'[p] # r
  BY EndFacts, PaymentAssumption DEF IInv
<1>1. TypeOK'
  BY EndFacts DEF IInv, TypeOK
<1>2. IdleIsEmpty'
  <2> SUFFICES ASSUME NEW q \in Runners, pc'[q] = "idle"
               PROVE  /\ \A p \in Payments : holder'[p] # q /\ mine'[q][p] = NoRow
                      /\ newEvents'[q] = {} /\ newObserved'[q] = {} /\ newUpdated'[q] = {}
    BY DEF IdleIsEmpty
  <2>1. CASE q = r
    BY EndFacts, <1>e, <2>1 DEF IInv
  <2>2. CASE q # r
    <3>1. /\ pc[q] = "idle" /\ mine'[q] = mine[q] /\ newEvents'[q] = newEvents[q]
          /\ newObserved'[q] = newObserved[q] /\ newUpdated'[q] = newUpdated[q]
      BY EndFacts, <2>2 DEF IInv
    <3>2. \A p \in Payments : holder'[p] # q
      <4>1. \A p \in Payments : holder'[p] = IF holder[p] = r THEN NoRunner ELSE holder[p]
        BY EndFacts DEF IInv
      <4>2. \A p \in Payments : holder[p] # q
        BY <3>1 DEF IInv, IdleIsEmpty
      <4>. QED
        BY <4>1, <4>2, PaymentAssumption
    <3>. QED
      BY <3>1, <3>2 DEF IInv, IdleIsEmpty
  <2>. QED
    BY <2>1, <2>2
<1>3. WrittenIsHeld'
  <2> SUFFICES ASSUME NEW q \in Runners, NEW p \in Payments, mine'[q][p] # NoRow
               PROVE  holder'[p] = q
    BY DEF WrittenIsHeld
  <2>1. q # r /\ mine'[q] = mine[q]
    BY EndFacts DEF IInv
  <2>. QED
    BY <1>e, <2>1 DEF IInv, WrittenIsHeld
<1>4. CurrentIsNew'
  BY EndFacts DEF IInv, CurrentIsNew, Processing
<1>5. ReadIsCurrent'
  <2> SUFFICES ASSUME NEW q \in Runners, pc'[q] \in {"link", "write"}, current'[q] # NoRow
               PROVE  /\ holder'[cur'[q].payment] = q
                      /\ current'[q] = View(q, cur[q].payment)'
    BY DEF ReadIsCurrent, View
  <2>1. /\ q # r /\ cur'[q] = cur[q] /\ mine'[q] = mine[q] /\ current'[q] = current[q]
        /\ holder[cur[q].payment] = q /\ current[q] = View(q, cur[q].payment)
        /\ cur[q].payment \in Payments
    BY EndFacts, ObservationFacts DEF IInv, ReadIsCurrent, CurrentIsNew
  <2>. QED
    BY <1>e, <2>1 DEF View
<1>6. ReducedFromCurrent'
  BY EndFacts DEF IInv, ReducedFromCurrent
<1>7. WrittenIsForward'
  BY EndFacts DEF IInv, WrittenIsForward
<1>8. (WrittenIsReported /\ WrittenIsAnnounced)'
  <2> SUFFICES ASSUME NEW q \in Runners, NEW p \in Payments, mine'[q][p] # NoRow
               PROVE  /\ Reported(mine'[q][p], p, events' \cup newEvents'[q])
                      /\ Announced(mine'[q][p], p, updated' \cup newUpdated'[q])
    BY DEF WrittenIsReported, WrittenIsAnnounced
  <2>1. q # r /\ mine'[q] = mine[q] /\ newEvents'[q] = newEvents[q] /\ newUpdated'[q] = newUpdated[q]
    BY EndFacts DEF IInv
  <2>2. Reported(mine[q][p], p, events \cup newEvents[q])
    BY <2>1 DEF IInv, WrittenIsReported
  <2>3. Announced(mine[q][p], p, updated \cup newUpdated[q])
    BY <2>1 DEF IInv, WrittenIsAnnounced
  <2>4. events \subseteq events' /\ updated \subseteq updated'
    OBVIOUS
  <2>. QED
    BY <2>1, <2>2, <2>3, <2>4 DEF Reported, Announced
<1>9. InsertedIsAnnounced'
  <2> SUFFICES ASSUME NEW q \in Runners
               PROVE  /\ \A o \in newEvents'[q] :
                            ~(Processing(q)' /\ o = cur'[q]) => KeyOf(o) \in newObserved'[q]
                      /\ \A k \in newObserved'[q] : \E o \in newEvents'[q] : k = KeyOf(o)
    BY DEF InsertedIsAnnounced, Processing, KeyOf
  <2>1. CASE q = r
    BY EndFacts, <2>1 DEF IInv
  <2>2. CASE q # r
    <3>1. /\ newEvents'[q] = newEvents[q] /\ newObserved'[q] = newObserved[q]
          /\ pc'[q] = pc[q] /\ cur'[q] = cur[q]
      BY EndFacts, <2>2 DEF IInv
    <3>. QED
      BY <3>1 DEF IInv, InsertedIsAnnounced, Processing
  <2>. QED
    BY <2>1, <2>2
<1>10. (StoredIsAnnounced /\ StatusIsReported /\ StatusIsAnnounced)'
  BY DEF IInv, StoredIsAnnounced, StatusIsReported, StatusIsAnnounced
<1>. QED
  BY <1>1, <1>2, <1>3, <1>4, <1>5, <1>6, <1>7, <1>8, <1>9, <1>10 DEF IInv

(* Every step preserves the invariant.                                     *)
LEMMA IInvStep == IInv /\ [Next]_vars => IInv'
<1> SUFFICES ASSUME IInv, [Next]_vars PROVE IInv'
  OBVIOUS
<1>1. ASSUME NEW r \in Runners, NEW B \in Batches, Begin(r, B) PROVE IInv'
  BY <1>1, BeginStep
<1>2. ASSUME NEW r \in Runners, Process(r) PROVE IInv'
  BY <1>2, InsertStep, GetStep, ReduceStep, UpsertStep DEF Process
<1>3. ASSUME NEW r \in Runners, Commit(r) \/ Rollback(r) PROVE IInv'
  BY <1>3, CommitStep, RollbackStep
<1>4. ASSUME \/ \E p \in Payments : insertCanonicalIntent(p)
             \/ UNCHANGED vars
      PROVE  IInv'
  <2>1. intents' \subseteq Payments
    BY <1>4 DEF insertCanonicalIntent, vars, IInv, TypeOK
  <2>2. UNCHANGED <<events, canon, observed, updated, holder, pc, todo, cur, current, reduced,
                    mine, newEvents, newObserved, newUpdated, inserted>>
    BY <1>4 DEF insertCanonicalIntent, vars, dbVars, itemVars, writeVars
  <2>3. TypeOK'
    BY <2>1, <2>2 DEF IInv, TypeOK
  <2>4. (IdleIsEmpty /\ CurrentIsNew /\ WrittenIsHeld)'
    BY <2>2 DEF IInv, IdleIsEmpty, CurrentIsNew, Processing, WrittenIsHeld
  <2>5. (ReadIsCurrent /\ ReducedFromCurrent /\ WrittenIsForward)'
    BY <2>2 DEF IInv, ReadIsCurrent, View, ReducedFromCurrent, WrittenIsForward
  <2>6. (WrittenIsReported /\ WrittenIsAnnounced /\ InsertedIsAnnounced)'
    BY <2>2 DEF IInv, WrittenIsReported, WrittenIsAnnounced, Reported, Announced, InsertedIsAnnounced,
                Processing, KeyOf
  <2>7. (StoredIsAnnounced /\ StatusIsReported /\ StatusIsAnnounced)'
    BY <2>2 DEF IInv, StoredIsAnnounced, StatusIsReported, StatusIsAnnounced
  <2>. QED
    BY <2>3, <2>4, <2>5, <2>6, <2>7 DEF IInv
<1>. QED
  BY <1>1, <1>2, <1>3, <1>4 DEF Next

(* The invariant holds throughout.                                         *)
THEOREM Invariance == Spec => []IInv
  BY IInvInit, IInvStep, PTL DEF Spec

-----------------------------------------------------------------------------
(* Transactions, rows and outbox (processor.go) keep their types.          *)
THEOREM TypeCorrect == Spec => []TypeOK
<1>1. IInv => TypeOK
  BY DEF IInv
<1>. QED
  BY <1>1, Invariance, PTL

(* Processor.Process is all or nothing: an observation is stored exactly   *)
(* if its event is in the outbox.                                          *)
THEOREM StoredAndAnnounced == Spec => []StoredIsAnnounced
<1>1. IInv => StoredIsAnnounced
  BY DEF IInv
<1>. QED
  BY <1>1, Invariance, PTL

(* A canonical status (UpsertCanonicalPayment) was reported by a stored    *)
(* observation.                                                            *)
THEOREM StatusIsFounded == Spec => []StatusIsReported
<1>1. IInv => StatusIsReported
  BY DEF IInv
<1>. QED
  BY <1>1, Invariance, PTL

(* A canonical status was announced in the outbox, although InsertOutbox   *)
(* does nothing when an idempotency key is repeated.                       *)
THEOREM StatusIsPublished == Spec => []StatusIsAnnounced
<1>1. IInv => StatusIsAnnounced
  BY DEF IInv
<1>. QED
  BY <1>1, Invariance, PTL

(* Whatever is committed and when, only a transaction for which            *)
(* GetCanonicalPayment found no row can take a payment back.               *)
THEOREM OnlyBlindGoBack == Spec => OnlyBlindWritesGoBack
<1>1. IInv /\ [Next]_vars
      => [\A p \in Payments : GoesBack(p) => \E r \in Runners : p \in inserted[r]]_vars
  <2> SUFFICES ASSUME IInv, [Next]_vars, NEW p \in Payments, GoesBack(p)
               PROVE  \E r \in Runners : p \in inserted[r]
    OBVIOUS
  <2>1. Rank(canon[p].status) \in Int
    BY RankIsNumber, RowFacts DEF IInv, TypeOK
  <2>2. canon'[p] # canon[p]
    BY <2>1 DEF GoesBack
  <2>3. PICK r \in Runners : Commit(r)
    BY <2>2 DEF Next, Begin, Process, InsertObservationEvent, GetCanonicalPayment, ReducePaymentState,
                UpsertCanonicalPayment, Rollback, insertCanonicalIntent, vars, dbVars
  <2>4. mine[r][p] # NoRow /\ canon'[p] = mine[r][p]
    BY <2>2, <2>3 DEF Commit, View
  <2>5. Rank(mine[r][p].status) \in Int
    BY RankIsNumber, RowFacts DEF IInv, TypeOK
  <2>. QED
    BY <2>1, <2>4, <2>5 DEF IInv, WrittenIsForward, GoesBack
<1>. QED
  BY <1>1, Invariance, PTL DEF Spec, OnlyBlindWritesGoBack
=============================================================================
