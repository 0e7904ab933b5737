----------------------------- MODULE VaultProofs -----------------------------
(***************************************************************************)
(* Proofs about Vault for any replicas, calls, keys and tokens and any     *)
(* number of failures: a tenant's keys have one ACTIVE key, the newest;    *)
(* old keys are rotated once; and while no session has lost its lock,      *)
(* tokens only move to newer keys.                                         *)
(***************************************************************************)
EXTENDS Vault, FiniteSetTheorems, SequenceTheorems, TLAPS

Steps == {"idle", "done", "rotate", "transaction", "rotated", "inited", "get", "encrypt", "insert",
          "decrypt", "age", "migrate", "lock", "retiring", "active", "list", "reencrypt", "update",
          "count", "retire", "release"}

(* The steps of a migration behind its lock, those that have chosen an old *)
(* key, those that write tokens, and those that have resolved a key.       *)
Migrating == {"retiring", "active", "list", "reencrypt", "update", "count", "retire", "release"}
Sweeping == {"list", "reencrypt", "update", "count", "retire"}
Moving == {"list", "reencrypt", "update"}
KeySteps == {"encrypt", "insert", "decrypt", "age", "active"} \cup Moving

Names == {About[c].token : c \in Calls} \cup Nat
KeyRecord == [status : {"ACTIVE", "RETIRING", "RETIRED"}, stale : BOOLEAN,
              by : {"bootstrap", "tokenize", "detokenize", "rotate", "auto", "migrate"}]
TokenRecord == [name : Names, key : 0..MaxKeys, under : 0..MaxKeys]
CallRecord == [step : Steps, miss : BOOLEAN, key : 0..MaxKeys, buffer : Nat, old : 0..MaxKeys,
               oldBuffer : Nat, batch : SUBSET [id : Nat, row : TokenRecord], under : 0..MaxKeys,
               res : BOOLEAN, waits : Groups \cup {None}]

Types ==
    /\ world \in Worlds
    /\ keys \in Seq(KeyRecord) /\ Len(keys) <= MaxKeys
    /\ tokens \in Seq(TokenRecord)
    /\ lock \in Calls \cup {None} /\ lost \in BOOLEAN
    /\ cache \in [Replicas -> [1..MaxKeys -> [buffer : Nat, live : BOOLEAN]]]
    /\ flight \in [Replicas -> [Groups -> Calls \cup {None}]]
    /\ call \in [Calls -> CallRecord]

(* Exactly the newest key is ACTIVE.                                       *)
NewestIsActive == \A k \in DOMAIN keys : keys[k].status = "ACTIVE" <=> k = Len(keys)

(* A token was encrypted under a key there is, or under zeros.             *)
TokensHaveKeys ==
    \A i \in DOMAIN tokens : /\ tokens[i].key \in DOMAIN keys
                            /\ tokens[i].under \in {0, tokens[i].key}

(* What a call remembers is about keys and tokens there are; the key it    *)
(* sweeps is not the newest.                                               *)
Remembers(x) ==
    /\ x.key <= Len(keys)
    /\ x.miss \/ x.step \in KeySteps => x.key # 0
    /\ x.miss => x.step \in {"inited", "encrypt", "decrypt", "age", "active", "list"}
    /\ x.step = "get" \/ (x.step \in {"inited", "rotated"} /\ x.res) => Len(keys) # 0
    /\ x.step = "active" => x.key < Len(keys)
    /\ x.step \in Sweeping => x.old # 0 /\ x.old < Len(keys)
    /\ x.step \in {"insert", "update"} => x.under \in {0, x.key}
    /\ x.step \in {"reencrypt", "update"} => x.batch # {}
    /\ \A t \in x.batch : t.id \in DOMAIN tokens
    /\ x.waits # None => x.step \in {"idle", "rotate", "migrate"}

(* A migration is its replica's only one and, while no session has lost    *)
(* its lock, the only one of all; it moves tokens to the newest key.       *)
Excludes(c, x) ==
    /\ x.step # "done" => c \in world.calls
    /\ x.step \in Migrating \cup {"lock"} => flight[Replica(c)]["migrate"] = c
    /\ ~lost /\ x.step \in Migrating => lock = c
    /\ ~lost /\ x.step \in Moving => x.key = Len(keys)

LockIsUsed == lock # None => call[lock].step \in Migrating

IInv ==
    /\ Types
    /\ NewestIsActive
    /\ TokensHaveKeys
    /\ \A c \in Calls : Remembers(call[c])
    /\ \A c \in Calls : Excludes(c, call[c])
    /\ LockIsUsed
    /\ OneEffectiveRotation

-----------------------------------------------------------------------------
(* The rows of a batch have an oldest one.                                 *)
LEMMA OldestFacts ==
    ASSUME NEW S, S # {}, \A t \in S : t.id \in Nat
    PROVE  Oldest(S) \in S
<1> DEFINE ids == {t.id : t \in S}
           less == {p \in Nat \X Nat : p[1] < p[2]}
<1>1. ids \subseteq Nat /\ ids # {}
  OBVIOUS
<1>2. IsWellFoundedOn(less, Nat)
  BY NatLessThanWellFounded DEF OpToRel
<1>3. PICK n \in ids : \A m \in ids : <<m, n>> \notin less
  <2>. HIDE DEF ids, less
  <2>. QED
    BY <1>1, <1>2, WFMin
<1>4. ASSUME NEW m \in ids PROVE n <= m
  <2>1. m \in Nat /\ n \in Nat /\ ~(m < n)
    BY <1>1, <1>3
  <2>. QED
    BY <2>1
<1>5. PICK t \in S : t.id = n
  BY <1>3
<1>6. \A u \in S : t.id <= u.id
  BY <1>4, <1>5
<1>. QED
  BY <1>5, <1>6 DEF Oldest

(* The bound on keys.                                                      *)
LEMMA BoundFacts == MaxKeys \in Nat /\ MaxKeys >= 1 /\ 0 \in 0..MaxKeys
<1>1. MaxKeys \in Nat \ {0}
  BY VaultAssumption
<1>. QED
  BY <1>1

(* The keys a call remembers are numbers.                                  *)
LEMMA RecordFacts ==
    ASSUME NEW x \in CallRecord
    PROVE  x.key \in Int /\ x.old \in Int /\ x.key \in 0..MaxKeys /\ x.old \in 0..MaxKeys
<1>1. x.key \in 0..MaxKeys /\ x.old \in 0..MaxKeys
  BY DEF CallRecord
<1>. QED
  BY <1>1, BoundFacts

(* The indices of keys and tokens.                                         *)
LEMMA IndexFacts ==
    ASSUME Types
    PROVE  /\ Len(keys) \in 0..MaxKeys /\ DOMAIN keys = 1..Len(keys)
           /\ Len(tokens) \in Nat /\ DOMAIN tokens = 1..Len(tokens)
           /\ keys = <<>> <=> Len(keys) = 0
           /\ \A k \in DOMAIN keys : keys[k] \in KeyRecord /\ k \in 1..MaxKeys
           /\ \A i \in DOMAIN tokens : tokens[i] \in TokenRecord
<1>1. /\ Len(keys) \in Nat /\ DOMAIN keys = 1..Len(keys)
      /\ Len(tokens) \in Nat /\ DOMAIN tokens = 1..Len(tokens)
  BY LenProperties DEF Types
<1>2. keys = <<>> <=> Len(keys) = 0
  BY EmptySeq DEF Types
<1>3. MaxKeys \in Nat /\ Len(keys) <= MaxKeys
  BY VaultAssumption DEF Types
<1>4. \A k \in DOMAIN keys : keys[k] \in KeyRecord
  BY <1>1, ElementOfSeq DEF Types
<1>5. \A i \in DOMAIN tokens : tokens[i] \in TokenRecord
  BY <1>1, ElementOfSeq DEF Types
<1>. QED
  BY <1>1, <1>2, <1>3, <1>4, <1>5

(* The ACTIVE key is the newest.                                           *)
LEMMA ActiveFacts ==
    ASSUME Types, NewestIsActive, Len(keys) # 0
    PROVE  /\ WithStatus("ACTIVE") = {Len(keys)}
           /\ Active = Len(keys) /\ Active \in DOMAIN keys
<1>1. Len(keys) \in DOMAIN keys
  BY IndexFacts
<1>2. WithStatus("ACTIVE") = {Len(keys)}
  BY <1>1 DEF WithStatus, NewestIsActive
<1>. QED
  BY <1>1, <1>2 DEF Active

(* Calls and replicas.                                                     *)
LEMMA CallFacts ==
    /\ \A c \in Calls : /\ c # None /\ Replica(c) \in Replicas
                        /\ Kind(c) \in {"tokenize", "detokenize", "rotate", "auto", "migrate"}
    /\ None \notin Groups
  BY VaultAssumption DEF Replica, Kind

(* A call that has forgotten everything.                                   *)
Blank(x) ==
    /\ x \in CallRecord
    /\ ~x.miss /\ x.key = 0 /\ x.batch = {} /\ ~x.res /\ x.waits = None

(* An idle call is blank.                                                  *)
LEMMA IdleIsBlank ==
    /\ Blank(Idle) /\ Idle.step = "idle"
    /\ \A s \in Steps : Blank([Idle EXCEPT !.step = s]) /\ [Idle EXCEPT !.step = s].step = s
<1>1. 0 \in 0..MaxKeys
  BY VaultAssumption
<1>2. Idle \in CallRecord
  BY <1>1 DEF Idle, CallRecord, Steps
<1>3. /\ Idle.step = "idle" /\ ~Idle.miss /\ Idle.key = 0 /\ Idle.batch = {} /\ ~Idle.res
      /\ Idle.waits = None
  BY DEF Idle
<1>4. ASSUME NEW s \in Steps PROVE [Idle EXCEPT !.step = s] \in CallRecord
  BY <1>2 DEF CallRecord
<1>5. ASSUME NEW s \in Steps
      PROVE  LET x == [Idle EXCEPT !.step = s]
             IN  /\ x.step = s /\ ~x.miss /\ x.key = 0 /\ x.batch = {} /\ ~x.res /\ x.waits = None
  BY <1>2, <1>3 DEF CallRecord
<1>. QED
  BY <1>2, <1>3, <1>4, <1>5 DEF Blank

(* A call that has ended is blank.                                         *)
LEMMA EndedIsBlank == \A c : Blank(Ended(c)) /\ Ended(c).step \in {"idle", "done"}
<1> SUFFICES ASSUME NEW c PROVE Blank(Ended(c)) /\ Ended(c).step \in {"idle", "done"}
  OBVIOUS
<1>1. "idle" \in Steps /\ "done" \in Steps
  BY DEF Steps
<1>2. CASE Kind(c) \in {"auto", "migrate"}
  <2>1. Ended(c) = [Idle EXCEPT !.step = "idle"]
    BY <1>2 DEF Ended
  <2>. QED
    BY <1>1, <2>1, IdleIsBlank
<1>3. CASE Kind(c) \notin {"auto", "migrate"}
  <2>1. Ended(c) = [Idle EXCEPT !.step = "done"]
    BY <1>3 DEF Ended
  <2>. QED
    BY <1>1, <2>1, IdleIsBlank
<1>. QED
  BY <1>2, <1>3

(* It remembers nothing wrong.                                             *)
LEMMA BlankFacts ==
    ASSUME Types, NEW x, Blank(x), x.step \in {"idle", "done", "rotate", "release"}
    PROVE  Remembers(x)
  BY IndexFacts DEF Blank, Remembers, KeySteps, Moving, Sweeping

(* The invariant holds initially.                                          *)
LEMMA IInvInit == Init => IInv
<1> SUFFICES ASSUME Init PROVE IInv
  OBVIOUS
<1>0. /\ world.held \in Nat \cup {None} /\ world.calls \subseteq Calls /\ None \notin Nat
      /\ MaxKeys \in Nat /\ MaxKeys >= 1
  BY VaultAssumption DEF Init
<1>1. keys \in Seq(KeyRecord) /\ Len(keys) \in {0, 1} /\ (Len(keys) = 0 <=> world.held = None)
      /\ (Len(keys) = 1 => keys[1] = [status |-> "ACTIVE", stale |-> FALSE, by |-> "bootstrap"])
  <2> DEFINE first == [status |-> "ACTIVE", stale |-> FALSE, by |-> "bootstrap"]
  <2>1. first \in KeyRecord
    BY DEF KeyRecord
  <2>2. keys = IF world.held = None THEN <<>> ELSE <<first>>
    BY DEF Init
  <2>. HIDE DEF first
  <2>3. CASE world.held = None
    BY <2>2, <2>3
  <2>4. CASE world.held # None
    <3>1. keys = <<first>>
      BY <2>2, <2>4
    <3>2. keys \in Seq(KeyRecord)
      BY <2>1, <3>1
    <3>3. Len(keys) = 1
      BY <3>1
    <3>4. keys[1] = first
      BY <3>1
    <3>. QED
      BY <2>4, <3>2, <3>3, <3>4 DEF first
  <2>. QED
    BY <2>3, <2>4
<1>2. /\ tokens \in Seq(TokenRecord)
      /\ \A i \in DOMAIN tokens : Len(keys) = 1 /\ tokens[i].key = 1 /\ tokens[i].under = 1
  <2>1. CASE world.held = None
    BY <2>1 DEF Init
  <2>2. CASE world.held \in Nat
    <3> DEFINE n == world.held
    <3>1. tokens = [i \in 1..n |-> [name |-> i, key |-> 1, under |-> 1]] /\ Len(keys) = 1
      BY <1>0, <1>1, <2>2 DEF Init
    <3>2. tokens \in [1..n -> TokenRecord]
      BY <1>0, <2>2, <3>1 DEF TokenRecord, Names
    <3>3. tokens \in Seq(TokenRecord)
      BY <2>2, <3>2, SeqDef
    <3>. QED
      BY <3>1, <3>3
  <2>. QED
    BY <1>0, <2>1, <2>2
<1>3. /\ call \in [Calls -> CallRecord]
      /\ \A c \in Calls : /\ Blank(call[c]) /\ call[c].step \in {"idle", "done"}
                          /\ call[c].step # "done" => c \in world.calls
  <2>1. \A c \in Calls : call[c] = IF c \in world.calls THEN Idle ELSE [Idle EXCEPT !.step = "done"]
    BY DEF Init
  <2>2. "done" \in Steps
    BY DEF Steps
  <2>3. \A c \in Calls : /\ Blank(call[c]) /\ call[c].step \in {"idle", "done"}
                         /\ call[c].step # "done" => c \in world.calls
    BY <2>1, <2>2, IdleIsBlank
  <2>. QED
    BY <2>3 DEF Init, Blank
<1>4. Types
  <2>1. cache \in [Replicas -> [1..MaxKeys -> [buffer : Nat, live : BOOLEAN]]]
    BY DEF Init
  <2>2. flight \in [Replicas -> [Groups -> Calls \cup {None}]]
    BY DEF Init
  <2>3. world \in Worlds /\ lock = None /\ lost = FALSE
    BY DEF Init
  <2>4. Len(keys) <= MaxKeys
    <3>1. PICK n : n = Len(keys)
      OBVIOUS
    <3>2. n \in {0, 1}
      BY <1>1, <3>1
    <3>3. n <= MaxKeys
      BY <1>0, <3>2
    <3>. QED
      BY <3>1, <3>3
  <2>. QED
    BY <1>1, <1>2, <1>3, <2>1, <2>2, <2>3, <2>4 DEF Types
<1>5. NewestIsActive /\ OneEffectiveRotation
  BY <1>1, <1>4, IndexFacts DEF NewestIsActive, OneEffectiveRotation
<1>6. TokensHaveKeys
  BY <1>2, <1>4, IndexFacts DEF TokensHaveKeys
<1>7. \A c \in Calls : Remembers(call[c])
  BY <1>3, <1>4, BlankFacts
<1>8. \A c \in Calls : Excludes(c, call[c])
  BY <1>3 DEF Excludes, Migrating, Moving
<1>9. LockIsUsed
  BY DEF Init, LockIsUsed
<1>. QED
  BY <1>4, <1>5, <1>6, <1>7, <1>8, <1>9 DEF IInv

-----------------------------------------------------------------------------
(* One call goes on: what is left to show is that the new record fits the  *)
(* keys, the tokens, the lock and the replica's groups.                    *)
LEMMA OneCallStep ==
    ASSUME IInv, NEW c \in Calls, NEW x \in CallRecord,
           Become(c, x),
           Remembers(x),
           x.step # "done" => c \in world.calls,
           x.step \in Migrating \cup {"lock"} => flight'[Replica(c)]["migrate"] = c,
           ~lost /\ x.step \in Migrating => lock = c,
           ~lost /\ x.step \in Moving => x.key = Len(keys),
           lock = c => x.step \in Migrating,
           \/ UNCHANGED flight
           \/ \E g \in Groups : Leads(c, g),
           cache' \in [Replicas -> [1..MaxKeys -> [buffer : Nat, live : BOOLEAN]]],
           UNCHANGED <<world, database, lock, lost>>
    PROVE  IInv'
<1> USE DEF database
<1>1. /\ call'[c] = x /\ call' \in [Calls -> CallRecord]
      /\ \A d \in Calls \ {c} : call'[d] = call[d]
  BY DEF IInv, Types, Become
<1>2. /\ flight' \in [Replicas -> [Groups -> Calls \cup {None}]]
      /\ \A d \in Calls : flight[Replica(d)]["migrate"] = d => flight'[Replica(d)]["migrate"] = d
  <2>1. CASE UNCHANGED flight
    BY <2>1 DEF IInv, Types
  <2>2. ASSUME NEW g \in Groups, Leads(c, g)
        PROVE  /\ flight' \in [Replicas -> [Groups -> Calls \cup {None}]]
               /\ \A d \in Calls : flight[Replica(d)]["migrate"] = d => flight'[Replica(d)]["migrate"] = d
    <3>1. /\ flight' = [flight EXCEPT ![Replica(c)] = [flight[Replica(c)] EXCEPT ![g] = c]]
          /\ flight[Replica(c)][g] = None
      BY <2>2 DEF Leads
    <3>2. flight' \in [Replicas -> [Groups -> Calls \cup {None}]]
      BY <3>1, CallFacts DEF IInv, Types
    <3>3. ASSUME NEW d \in Calls, flight[Replica(d)]["migrate"] = d
          PROVE  flight'[Replica(d)]["migrate"] = d
      BY <3>1, <3>3, CallFacts DEF IInv, Types, Groups
    <3>. QED
      BY <3>2, <3>3
  <2>. QED
    BY <2>1, <2>2
<1>3. Types'
  BY <1>1, <1>2 DEF IInv, Types
<1>4. (NewestIsActive /\ TokensHaveKeys /\ OneEffectiveRotation)'
  BY DEF IInv, NewestIsActive, TokensHaveKeys, OneEffectiveRotation
<1>5. ASSUME NEW d \in Calls PROVE Remembers(call[d])'
  <2>1. CASE d = c
    BY <1>1, <2>1 DEF Remembers
  <2>2. CASE d # c
    BY <1>1, <2>2 DEF IInv, Remembers
  <2>. QED
    BY <2>1, <2>2
<1>6. ASSUME NEW d \in Calls PROVE Excludes(d, call[d])'
  <2>1. CASE d = c
    BY <1>1, <2>1 DEF Excludes, Replica
  <2>2. CASE d # c
    BY <1>1, <1>2, <2>2 DEF IInv, Excludes, Replica
  <2>. QED
    BY <2>1, <2>2
<1>7. LockIsUsed'
  BY <1>1 DEF IInv, Types, LockIsUsed
<1>. QED
  BY <1>3, <1>4, <1>5, <1>6, <1>7 DEF IInv

(* What holds of a call at a step.                                         *)
LEMMA AtFacts ==
    ASSUME IInv, NEW c \in Calls
    PROVE  /\ call[c] \in CallRecord /\ Remembers(call[c]) /\ Excludes(c, call[c])
           /\ lock = c => call[c].step \in Migrating
           /\ cache \in [Replicas -> [1..MaxKeys -> [buffer : Nat, live : BOOLEAN]]]
  BY CallFacts DEF IInv, Types, LockIsUsed

(* A call ends.                                                            *)
LEMMA EndStep ==
    ASSUME IInv, NEW c \in Calls, End(c), c \in world.calls, call[c].step \notin Migrating,
           UNCHANGED <<world, database, lock, lost, cache, flight>>
    PROVE  IInv'
<1>1. Blank(Ended(c)) /\ Ended(c).step \in {"idle", "done"} /\ Become(c, Ended(c))
  BY EndedIsBlank DEF End
<1>2. Remembers(Ended(c)) /\ Ended(c) \in CallRecord
  BY <1>1, BlankFacts DEF IInv, Blank
<1>3. lock # c
  BY AtFacts
<1>. QED
  BY <1>1, <1>2, <1>3, AtFacts, OneCallStep DEF Migrating, Moving

(* A call that only changes its step.                                      *)
LEMMA WithStep ==
    ASSUME NEW x \in CallRecord, NEW s \in Steps
    PROVE  LET y == [x EXCEPT !.step = s]
           IN  /\ y \in CallRecord /\ y.step = s
               /\ y.miss = x.miss /\ y.key = x.key /\ y.old = x.old /\ y.batch = x.batch
               /\ y.under = x.under /\ y.res = x.res /\ y.waits = x.waits
  BY DEF CallRecord

(* A call that has asked for a key there is.                               *)
LEMMA ResolvedFacts ==
    ASSUME Types, NEW c \in Calls, NEW k \in DOMAIN keys, NEW x \in CallRecord
    PROVE  LET y == Resolved(c, k, x)
           IN  /\ y \in CallRecord /\ y.key = k /\ (y.miss => x.miss \/ ~cache[Replica(c)][k].live)
               /\ y.step = x.step /\ y.old = x.old /\ y.batch = x.batch
               /\ y.under = x.under /\ y.res = x.res /\ y.waits = x.waits
<1> DEFINE entry == cache[Replica(c)][k]
<1>1. k \in 1..MaxKeys /\ k \in 0..MaxKeys
  BY IndexFacts
<1>2. entry \in [buffer : Nat, live : BOOLEAN]
  <2>1. /\ Replica(c) \in Replicas
        /\ cache \in [Replicas -> [1..MaxKeys -> [buffer : Nat, live : BOOLEAN]]]
    BY CallFacts DEF Types
  <2>. QED
    BY <1>1, <2>1
<1>3. CASE entry.live
  <2>1. Resolved(c, k, x) = [x EXCEPT !.key = k, !.buffer = entry.buffer]
    BY <1>3 DEF Resolved
  <2>2. entry.buffer \in Nat
    BY <1>2
  <2>. HIDE DEF entry
  <2>. QED
    BY <1>1, <2>1, <2>2 DEF CallRecord
<1>4. CASE ~entry.live
  <2>1. Resolved(c, k, x) = [x EXCEPT !.key = k, !.miss = TRUE]
    BY <1>4 DEF Resolved
  <2>. QED
    BY <1>1, <1>4, <2>1 DEF CallRecord
<1>. QED
  BY <1>3, <1>4

(* The leader of a group returns, perhaps after a rotation.                *)
LEMMA ReturnStep ==
    ASSUME IInv, NEW c \in Calls, NEW g \in Groups, NEW next \in [Calls -> CallRecord],
           Return(c, g, next),
           \A d \in Calls : d = c \/ call[d].waits = g =>
              /\ Remembers(next[d])'
              /\ next[d].step \notin Migrating \cup {"lock"}
              /\ next[d].step # "done" => d \in world.calls,
           g = "migrate" => flight[Replica(c)]["migrate"] = c,
           lock' = IF lock = c THEN None ELSE lock,
           keys' \in Seq(KeyRecord), Len(keys') \in Len(keys)..MaxKeys,
           Len(keys') = Len(keys) \/ lock = None,
           NewestIsActive', TokensHaveKeys', OneEffectiveRotation',
           UNCHANGED <<world, tokens, lost, cache>>
    PROVE  IInv'
<1> DEFINE affected(d) == d = c \/ (call[d].waits = g /\ Replica(d) = Replica(c))
<1>0. Len(keys) \in Nat /\ Len(keys') \in Nat /\ Len(keys') >= Len(keys) /\ Len(keys') <= MaxKeys
  BY IndexFacts, BoundFacts DEF IInv
<1>1. /\ \A d \in Calls : affected(d) => call'[d] = next[d]
      /\ \A d \in Calls : ~affected(d) => call'[d] = call[d]
      /\ call' \in [Calls -> CallRecord]
  BY DEF IInv, Types, Return
<1>2. /\ flight' \in [Replicas -> [Groups -> Calls \cup {None}]]
      /\ \A d \in Calls : ~affected(d) /\ flight[Replica(d)]["migrate"] = d
                          => flight'[Replica(d)]["migrate"] = d
  <2>1. flight' = [flight EXCEPT ![Replica(c)] = [flight[Replica(c)] EXCEPT ![g] = None]]
    BY DEF Return
  <2>2. flight' \in [Replicas -> [Groups -> Calls \cup {None}]]
    BY <2>1, CallFacts DEF IInv, Types
  <2>3. ASSUME NEW d \in Calls, d # c, flight[Replica(d)]["migrate"] = d
        PROVE  flight'[Replica(d)]["migrate"] = d
    <3>1. ~(g = "migrate" /\ Replica(d) = Replica(c))
      BY <2>3
    <3>. QED
      BY <2>1, <2>3, <3>1, CallFacts DEF IInv, Types, Groups
  <2>. QED
    BY <2>2, <2>3
<1>3. Types'
  BY <1>0, <1>1, <1>2 DEF IInv, Types
<1>4. ASSUME NEW d \in Calls PROVE Remembers(call[d])'
  <2>1. CASE affected(d)
    <3>1. PICK x : x = next[d]
      OBVIOUS
    <3>2. Remembers(x)' /\ call'[d] = x
      BY <1>1, <2>1, <3>1
    <3>. QED
      BY <3>2 DEF Remembers
  <2>2. CASE ~affected(d)
    <3>1. Remembers(call[d]) /\ call'[d] = call[d] /\ call[d] \in CallRecord
      BY <1>1, <2>2 DEF IInv, Types
    <3>2. call[d].key \in Int /\ call[d].old \in Int
      BY <3>1, RecordFacts
    <3>. QED
      BY <1>0, <3>1, <3>2 DEF Remembers
  <2>. QED
    BY <2>1, <2>2
<1>5. ASSUME NEW d \in Calls PROVE Excludes(d, call[d])'
  <2>1. CASE affected(d)
    BY <1>1, <2>1 DEF Excludes, Migrating, Moving
  <2>2. CASE ~affected(d)
    <3>1. Excludes(d, call[d]) /\ call'[d] = call[d] /\ d # c /\ d # None
      BY <1>1, <2>2, CallFacts DEF IInv
    <3>2. ~lost /\ call[d].step \in Moving => call[d].step \in Migrating /\ lock = d
      BY <3>1 DEF Excludes, Moving, Migrating
    <3>. QED
      BY <1>2, <2>2, <3>1, <3>2 DEF Excludes, Replica
  <2>. QED
    BY <2>1, <2>2
<1>6. LockIsUsed'
  <2> SUFFICES ASSUME lock' # None PROVE call'[lock'].step \in Migrating
    BY DEF LockIsUsed
  <2>1. lock' = lock /\ lock \in Calls /\ lock # c /\ call[lock].step \in Migrating
    BY DEF IInv, Types, LockIsUsed
  <2>2. call[lock].waits = None
    BY <2>1 DEF IInv, Remembers, Migrating
  <2>3. ~affected(lock)
    BY <2>1, <2>2, CallFacts
  <2>. QED
    BY <1>1, <2>1, <2>3
<1>. QED
  BY <1>3, <1>4, <1>5, <1>6 DEF IInv

(* What stays as it is when the database does.                             *)
LEMMA SameDatabaseFacts ==
    ASSUME IInv, UNCHANGED database
    PROVE  /\ keys' \in Seq(KeyRecord) /\ Len(keys') \in Len(keys)..MaxKeys /\ Len(keys') = Len(keys)
           /\ NewestIsActive' /\ TokensHaveKeys' /\ OneEffectiveRotation'
  BY IndexFacts DEF IInv, Types, database, NewestIsActive, TokensHaveKeys, OneEffectiveRotation

-----------------------------------------------------------------------------
(* Unwrap: a new entry of the cache, or the caller gives up.               *)
LEMMA UnwrapStep ==
    ASSUME IInv, NEW c \in Calls, Unwrap(c)
    PROVE  IInv'
<1> DEFINE k == call[c].key
           b == cache[Replica(c)][k].buffer + 1
<1>0. /\ call[c] \in CallRecord /\ Remembers(call[c]) /\ Excludes(c, call[c]) /\ call[c].miss
      /\ lock = c => call[c].step \in Migrating
      /\ UNCHANGED <<world, database, lock, lost, flight>>
      /\ cache \in [Replicas -> [1..MaxKeys -> [buffer : Nat, live : BOOLEAN]]]
  BY AtFacts DEF Unwrap
<1>1. k \in 1..MaxKeys /\ Replica(c) \in Replicas
  <2>1. k \in 0..MaxKeys /\ k # 0
    BY <1>0 DEF Remembers, CallRecord
  <2>. QED
    BY <2>1, CallFacts, VaultAssumption
<1>2. call[c].step \in {"inited", "encrypt", "decrypt", "age", "active", "list"} /\ c \in world.calls
  BY <1>0 DEF Remembers, Excludes
<1>3. CASE /\ cache' = [cache EXCEPT ![Replica(c)][k] = [buffer |-> b, live |-> TRUE]]
           /\ Become(c, [call[c] EXCEPT !.miss = FALSE, !.buffer = b])
  <2> DEFINE y == [call[c] EXCEPT !.miss = FALSE, !.buffer = b]
  <2>1. b \in Nat
    <3>1. cache[Replica(c)][k] \in [buffer : Nat, live : BOOLEAN]
      BY <1>0, <1>1
    <3>. QED
      BY <3>1
  <2>. HIDE DEF b
  <2>2. cache' \in [Replicas -> [1..MaxKeys -> [buffer : Nat, live : BOOLEAN]]]
    BY <1>0, <1>1, <1>3, <2>1
  <2>3. /\ y \in CallRecord /\ ~y.miss
        /\ y.step = call[c].step /\ y.key = call[c].key /\ y.old = call[c].old /\ y.batch = call[c].batch
        /\ y.under = call[c].under /\ y.res = call[c].res /\ y.waits = call[c].waits
    BY <1>0, <2>1 DEF CallRecord
  <2>4. Become(c, y)
    BY <1>3
  <2>. HIDE DEF y
  <2>5. Remembers(y)
    BY <1>0, <2>3 DEF Remembers
  <2>. QED
    BY <1>0, <2>2, <2>3, <2>4, <2>5, OneCallStep DEF Excludes
<1>4. CASE UNCHANGED cache /\ Become(c, Unresolved(c))
  <2> DEFINE y == Unresolved(c)
  <2>1. "rotate" \in Steps /\ "release" \in Steps
    BY DEF Steps
  <2>2. /\ Blank(y) /\ y.step \in {"rotate", "release", "idle", "done"}
        /\ y.step = "release" <=> call[c].step \in {"active", "list"}
    <3>1. CASE call[c].step = "inited"
      BY <2>1, <3>1, IdleIsBlank DEF Unresolved
    <3>2. CASE call[c].step \in {"active", "list"}
      BY <2>1, <3>2, IdleIsBlank DEF Unresolved
    <3>3. CASE call[c].step \notin {"inited", "active", "list"}
      BY <3>3, EndedIsBlank DEF Unresolved
    <3>. QED
      BY <3>1, <3>2, <3>3
  <2>3. Become(c, y)
    BY <1>4
  <2>. HIDE DEF y
  <2>4. Remembers(y) /\ y \in CallRecord
    BY <2>2, BlankFacts DEF IInv, Blank
  <2>. QED
    BY <1>0, <1>2, <1>4, <2>2, <2>3, <2>4, OneCallStep DEF Excludes, Migrating, Moving
<1>. QED
  BY <1>3, <1>4 DEF Unwrap

(* A call that waits for the leader of its group.                          *)
LEMMA JoinStep ==
    ASSUME IInv, NEW c \in Calls, NEW g \in Groups, Joins(c, g), ~call[c].miss,
           call[c].step \in {"idle", "rotate", "migrate"},
           UNCHANGED <<world, database, lock, lost, cache>>
    PROVE  IInv'
<1> DEFINE y == [call[c] EXCEPT !.waits = g]
<1>0. /\ call[c] \in CallRecord /\ Remembers(call[c]) /\ Excludes(c, call[c])
      /\ lock = c => call[c].step \in Migrating
      /\ cache \in [Replicas -> [1..MaxKeys -> [buffer : Nat, live : BOOLEAN]]]
  BY AtFacts
<1>1. /\ y \in CallRecord /\ y.waits = g /\ y.miss = call[c].miss
      /\ y.step = call[c].step /\ y.key = call[c].key /\ y.old = call[c].old /\ y.batch = call[c].batch
      /\ y.under = call[c].under /\ y.res = call[c].res
  BY <1>0 DEF CallRecord
<1>2. Become(c, y) /\ UNCHANGED flight
  BY DEF Joins
<1>. HIDE DEF y
<1>3. Remembers(y)
  BY <1>0, <1>1 DEF Remembers
<1>. QED
  BY <1>0, <1>1, <1>2, <1>3, OneCallStep DEF Excludes

(* A call that goes to a step which needs no key, token or lock.           *)
LEMMA PlainGotoStep ==
    ASSUME IInv, NEW c \in Calls, NEW s \in {"rotate", "transaction", "inited", "migrate"}, Goto(c, s),
           ~call[c].miss, call[c].waits = None, call[c].step \notin Migrating \cup {"done"},
           s = "inited" => call[c].step = "rotated",
           \/ UNCHANGED flight
           \/ \E g \in Groups : Leads(c, g),
           UNCHANGED <<world, database, lock, lost, cache>>
    PROVE  IInv'
<1> DEFINE y == [call[c] EXCEPT !.step = s]
<1>0. /\ call[c] \in CallRecord /\ Remembers(call[c]) /\ Excludes(c, call[c])
      /\ lock # c
      /\ cache \in [Replicas -> [1..MaxKeys -> [buffer : Nat, live : BOOLEAN]]]
  BY AtFacts
<1>1. /\ s \in Steps /\ s \notin Migrating \cup {"lock"} \cup KeySteps \cup Sweeping \cup Moving
      /\ s \notin {"get", "rotated", "active", "insert", "update", "reencrypt"}
  BY DEF Steps, Migrating, KeySteps, Sweeping, Moving
<1>2. /\ y \in CallRecord /\ y.step = s
      /\ y.miss = call[c].miss /\ y.key = call[c].key /\ y.old = call[c].old /\ y.batch = call[c].batch
      /\ y.under = call[c].under /\ y.res = call[c].res /\ y.waits = call[c].waits
  BY <1>0, <1>1, WithStep
<1>3. Become(c, y)
  BY DEF Goto
<1>. HIDE DEF y
<1>4. Remembers(y)
  BY <1>0, <1>1, <1>2 DEF Remembers
<1>. QED
  BY <1>0, <1>1, <1>2, <1>3, <1>4, OneCallStep DEF Excludes

(* A call that asks for a key there is.                                    *)
LEMMA ResolveStep ==
    ASSUME IInv, NEW c \in Calls, NEW k \in DOMAIN keys, NEW x \in CallRecord,
           Become(c, Resolved(c, k, x)), c \in world.calls,
           ~x.miss, x.waits = None, x.batch = call[c].batch,
           x.step \in {"inited", "encrypt", "decrypt", "age", "active", "list"},
           x.step = "active" => k < Len(keys),
           x.step = "list" => x.old # 0 /\ x.old < Len(keys) /\ k = Len(keys),
           x.step \in Migrating <=> call[c].step \in Migrating,
           \/ UNCHANGED flight
           \/ \E g \in Groups : Leads(c, g) /\ x.step \notin Migrating,
           UNCHANGED <<world, database, lock, lost, cache>>
    PROVE  IInv'
<1> DEFINE y == Resolved(c, k, x)
<1>0. /\ call[c] \in CallRecord /\ Remembers(call[c]) /\ Excludes(c, call[c])
      /\ lock = c => call[c].step \in Migrating
      /\ cache \in [Replicas -> [1..MaxKeys -> [buffer : Nat, live : BOOLEAN]]]
  BY AtFacts
<1>1. /\ y \in CallRecord /\ y.key = k /\ y.step = x.step /\ y.old = x.old /\ y.batch = x.batch
      /\ y.under = x.under /\ y.res = x.res /\ y.waits = x.waits
  BY ResolvedFacts DEF IInv
<1>2. Become(c, y)
  OBVIOUS
<1>3. k \in 1..Len(keys) /\ Len(keys) \in Nat
  BY IndexFacts DEF IInv
<1>. HIDE DEF y
<1>4. Remembers(y)
  <2>1. /\ y.key <= Len(keys) /\ y.key # 0 /\ Len(keys) # 0
        /\ y.step \notin {"get", "rotated", "insert", "update", "reencrypt", "count", "retire"}
        /\ y.step = "active" => y.key < Len(keys)
        /\ y.step = "list" => y.old # 0 /\ y.old < Len(keys)
    BY <1>1, <1>3
  <2>2. \A t \in y.batch : t.id \in DOMAIN tokens
    BY <1>0, <1>1 DEF Remembers
  <2>. QED
    BY <1>1, <2>1, <2>2 DEF Remembers, Sweeping
<1>5. /\ y.step \in Migrating \cup {"lock"} => flight'[Replica(c)]["migrate"] = c
      /\ ~lost /\ y.step \in Migrating => lock = c
      /\ lock = c => y.step \in Migrating
      /\ y.step # "done"
  BY <1>0, <1>1 DEF Excludes
<1>6. y.step \in Moving => y.key = Len(keys)
  BY <1>1 DEF Moving
<1>7. UNCHANGED flight \/ \E g \in Groups : Leads(c, g)
  OBVIOUS
<1>. QED
  BY <1>0, <1>1, <1>2, <1>4, <1>5, <1>6, <1>7, OneCallStep

(* A migration goes on behind its lock.                                    *)
LEMMA MigrationStep ==
    ASSUME IInv, NEW c \in Calls, NEW x \in CallRecord, Become(c, x), Remembers(x),
           call[c].step \in Migrating, x.step \in Migrating,
           x.step \in Moving => call[c].step \in Moving /\ x.key = call[c].key,
           UNCHANGED <<world, database, lock, lost, cache, flight>>
    PROVE  IInv'
<1>1. /\ Excludes(c, call[c])
      /\ cache \in [Replicas -> [1..MaxKeys -> [buffer : Nat, live : BOOLEAN]]]
  BY AtFacts
<1>2. call[c].step # "done"
  BY DEF Migrating
<1>. QED
  BY <1>1, <1>2, OneCallStep DEF Excludes

(* A migration gives up.                                                   *)
LEMMA ReleaseStep ==
    ASSUME IInv, NEW c \in Calls, Goto(c, "release"), call[c].step \in Migrating, ~call[c].miss,
           UNCHANGED <<world, database, lock, lost, cache, flight>>
    PROVE  IInv'
<1> DEFINE y == [call[c] EXCEPT !.step = "release"]
<1>0. call[c] \in CallRecord /\ Remembers(call[c])
  BY AtFacts
<1>1. "release" \in Steps /\ "release" \in Migrating
  BY DEF Steps, Migrating
<1>2. /\ y \in CallRecord /\ y.step = "release"
      /\ y.miss = call[c].miss /\ y.key = call[c].key /\ y.old = call[c].old /\ y.batch = call[c].batch
      /\ y.under = call[c].under /\ y.res = call[c].res /\ y.waits = call[c].waits
  BY <1>0, <1>1, WithStep
<1>3. Become(c, y)
  BY DEF Goto
<1>. HIDE DEF y
<1>4. Remembers(y)
  BY <1>0, <1>2 DEF Remembers, KeySteps, Moving, Sweeping, Migrating
<1>. QED
  BY <1>1, <1>2, <1>3, <1>4, MigrationStep DEF Moving

-----------------------------------------------------------------------------
(* The steps of tokens and of rotation that leave the database as it is.   *)
LEMMA EnsureInitialKeyStep ==
    ASSUME IInv, NEW c \in Calls, EnsureInitialKey(c)
    PROVE  IInv'
<1>0. /\ call[c].step = "idle" /\ ~call[c].miss /\ call[c].waits = None
      /\ call[c] \in CallRecord /\ c \in world.calls /\ "init" \in Groups
      /\ UNCHANGED <<world, database, lock, lost, cache>>
  BY AtFacts DEF EnsureInitialKey, At, Excludes, Groups
<1>1. call[c].step \notin Migrating \cup {"done"}
  BY <1>0 DEF Migrating
<1>2. CASE Joins(c, "init")
  BY <1>0, <1>2, JoinStep
<1>3. CASE Leads(c, "init") /\ Goto(c, "rotate")
  BY <1>0, <1>1, <1>3, PlainGotoStep
<1>4. CASE /\ Leads(c, "init") /\ keys # <<>>
           /\ Become(c, Resolved(c, Active, [call[c] EXCEPT !.step = "inited", !.res = TRUE]))
  <2> DEFINE x == [call[c] EXCEPT !.step = "inited", !.res = TRUE]
  <2>1. Active \in DOMAIN keys
    BY <1>4, ActiveFacts, IndexFacts DEF IInv
  <2>2. /\ x \in CallRecord /\ x.step = "inited" /\ ~x.miss /\ x.waits = None
        /\ x.batch = call[c].batch
    BY <1>0 DEF CallRecord, Steps
  <2>3. Become(c, Resolved(c, Active, x))
    BY <1>4
  <2>4. "inited" \notin Migrating
    BY DEF Migrating
  <2>. HIDE DEF x
  <2>. QED
    BY <1>0, <1>1, <1>4, <2>1, <2>2, <2>3, <2>4, ResolveStep
<1>. QED
  BY <1>2, <1>3, <1>4 DEF EnsureInitialKey

LEMMA InitialKeyEnsuredStep ==
    ASSUME IInv, NEW c \in Calls, InitialKeyEnsured(c)
    PROVE  IInv'
<1>0. /\ call[c].step = "inited" /\ call[c].waits = None
      /\ call[c] \in CallRecord /\ Remembers(call[c]) /\ Excludes(c, call[c])
      /\ c \in world.calls /\ "init" \in Groups
      /\ UNCHANGED <<world, database, lock, lost, cache>>
  BY AtFacts DEF InitialKeyEnsured, At, Excludes, Groups
<1>1. PICK s : s = IF call[c].res THEN "get" ELSE "done"
  OBVIOUS
<1>2. PICK next : next = [d \in Calls |-> [Idle EXCEPT !.step = s]]
  OBVIOUS
<1>3. Return(c, "init", next)
  BY <1>1, <1>2 DEF InitialKeyEnsured
<1>4. s \in Steps /\ s \in {"get", "done"} /\ (s = "get" => Len(keys) # 0)
  BY <1>0, <1>1 DEF Steps, Remembers
<1>5. /\ next \in [Calls -> CallRecord]
      /\ \A d \in Calls : Blank(next[d]) /\ next[d].step = s
  BY <1>2, <1>4, IdleIsBlank DEF Blank
<1>6. lock # c
  BY <1>0, AtFacts DEF Migrating
<1>7. ASSUME NEW d \in Calls, d = c \/ call[d].waits = "init"
      PROVE  /\ Remembers(next[d])' /\ next[d].step \notin Migrating \cup {"lock"} /\ d \in world.calls
  <2>1. Remembers(next[d])
    BY <1>4, <1>5, IndexFacts DEF IInv, Remembers, Blank, KeySteps, Moving, Sweeping
  <2>2. Remembers(next[d])'
    BY <1>0, <2>1 DEF Remembers, database
  <2>3. d \in world.calls
    BY <1>0, <1>7, CallFacts DEF IInv, Excludes, Remembers
  <2>. QED
    BY <1>4, <1>5, <2>2, <2>3 DEF Migrating
<1>. QED
  BY <1>0, <1>3, <1>5, <1>6, <1>7, SameDatabaseFacts, ReturnStep DEF database

LEMMA GetActiveKeyStep ==
    ASSUME IInv, NEW c \in Calls, GetActiveKey(c)
    PROVE  IInv'
<1> DEFINE x == [call[c] EXCEPT !.step = "encrypt"]
<1>0. /\ call[c].step = "get" /\ ~call[c].miss /\ call[c].waits = None
      /\ call[c] \in CallRecord /\ c \in world.calls /\ Len(keys) # 0
      /\ UNCHANGED <<world, database, lock, lost, cache, flight>>
  BY AtFacts DEF GetActiveKey, At, Excludes, Remembers
<1>1. Active \in DOMAIN keys
  BY <1>0, ActiveFacts DEF IInv
<1>2. /\ x \in CallRecord /\ x.step = "encrypt" /\ ~x.miss /\ x.waits = None
      /\ x.batch = call[c].batch
  BY <1>0 DEF CallRecord, Steps
<1>3. Become(c, Resolved(c, Active, x))
  BY DEF GetActiveKey
<1>4. "encrypt" \notin Migrating /\ "get" \notin Migrating
  BY DEF Migrating
<1>. HIDE DEF x
<1>. QED
  BY <1>0, <1>1, <1>2, <1>3, <1>4, ResolveStep

LEMMA DetokenizeFieldsStep ==
    ASSUME IInv, NEW c \in Calls, DetokenizeFields(c)
    PROVE  IInv'
<1> DEFINE x == [call[c] EXCEPT !.step = "decrypt"]
<1>0. /\ call[c].step = "idle" /\ ~call[c].miss /\ call[c].waits = None
      /\ call[c] \in CallRecord /\ c \in world.calls
      /\ UNCHANGED <<world, database, lock, lost, cache, flight>>
  BY AtFacts DEF DetokenizeFields, At, Excludes
<1>1. PICK i \in DOMAIN tokens : Become(c, Resolved(c, tokens[i].key, x))
  BY DEF DetokenizeFields
<1>2. tokens[i].key \in DOMAIN keys
  BY DEF IInv, TokensHaveKeys
<1>3. /\ x \in CallRecord /\ x.step = "decrypt" /\ ~x.miss /\ x.waits = None
      /\ x.batch = call[c].batch
  BY <1>0 DEF CallRecord, Steps
<1>4. "decrypt" \notin Migrating /\ "idle" \notin Migrating
  BY DEF Migrating
<1>. HIDE DEF x
<1>. QED
  BY <1>0, <1>1, <1>2, <1>3, <1>4, ResolveStep

LEMMA AutoRotateKeysStep ==
    ASSUME IInv, NEW c \in Calls, AutoRotateKeys(c)
    PROVE  IInv'
<1> DEFINE x == [call[c] EXCEPT !.step = "age"]
<1>0. /\ call[c].step = "idle" /\ ~call[c].miss /\ call[c].waits = None /\ keys # <<>>
      /\ call[c] \in CallRecord /\ c \in world.calls
      /\ UNCHANGED <<world, database, lock, lost, cache, flight>>
  BY AtFacts DEF AutoRotateKeys, At, Excludes
<1>1. Active \in DOMAIN keys
  BY <1>0, ActiveFacts, IndexFacts DEF IInv
<1>2. /\ x \in CallRecord /\ x.step = "age" /\ ~x.miss /\ x.waits = None
      /\ x.batch = call[c].batch
  BY <1>0 DEF CallRecord, Steps
<1>3. Become(c, Resolved(c, Active, x))
  BY DEF AutoRotateKeys
<1>4. "age" \notin Migrating /\ "idle" \notin Migrating
  BY DEF Migrating
<1>. HIDE DEF x
<1>. QED
  BY <1>0, <1>1, <1>2, <1>3, <1>4, ResolveStep

(* Encrypt: with the key's bytes, or with zeros.                           *)
LEMMA BytesFacts ==
    ASSUME NEW c, NEW k, NEW b
    PROVE  Bytes(c, k, b) \in {0, k}
  BY DEF Bytes

LEMMA EncryptStep ==
    ASSUME IInv, NEW c \in Calls, Encrypt(c)
    PROVE  IInv'
<1>0. /\ call[c].step = "encrypt" /\ ~call[c].miss /\ call[c].waits = None
      /\ call[c] \in CallRecord /\ c \in world.calls /\ Remembers(call[c])
      /\ cache \in [Replicas -> [1..MaxKeys -> [buffer : Nat, live : BOOLEAN]]]
      /\ UNCHANGED <<world, database, lock, lost, cache, flight>>
  BY AtFacts DEF Encrypt, At, Excludes
<1>1. PICK u : u = Bytes(c, call[c].key, call[c].buffer)
  OBVIOUS
<1>2. u \in {0, call[c].key} /\ u \in 0..MaxKeys
  <2>1. 0 \in 0..MaxKeys /\ call[c].key \in 0..MaxKeys
    BY <1>0, BoundFacts DEF CallRecord
  <2>. QED
    BY <1>1, <2>1, BytesFacts
<1> DEFINE y == [call[c] EXCEPT !.step = "insert", !.under = u]
<1>3. Become(c, y)
  BY <1>1 DEF Encrypt
<1>4. /\ y \in CallRecord /\ y.step = "insert" /\ y.under = u
      /\ y.miss = call[c].miss /\ y.key = call[c].key /\ y.old = call[c].old /\ y.batch = call[c].batch
      /\ y.res = call[c].res /\ y.waits = call[c].waits
  BY <1>0, <1>2 DEF CallRecord, Steps
<1>. HIDE DEF y
<1>5. Remembers(y)
  BY <1>0, <1>2, <1>4 DEF Remembers, KeySteps, Moving, Sweeping
<1>6. lock # c /\ y.step \notin Migrating \cup {"lock"} \cup Moving
  BY <1>0, <1>4, AtFacts DEF Migrating, Moving
<1>. QED
  BY <1>0, <1>3, <1>4, <1>5, <1>6, OneCallStep

LEMMA PlainEndStep ==
    ASSUME IInv, NEW c \in Calls,
           Decrypt(c) \/ PastThreshold(c) \/ AfterRotation(c), End(c)
    PROVE  IInv'
<1>0. /\ call[c].step \in {"decrypt", "age", "rotated"}
      /\ UNCHANGED <<world, database, lock, lost, cache, flight>>
  BY DEF Decrypt, PastThreshold, AfterRotation, At
<1>1. c \in world.calls /\ call[c].step \notin Migrating
  BY <1>0, AtFacts DEF Excludes, Migrating
<1>. QED
  BY <1>0, <1>1, EndStep

LEMMA PastThresholdStep ==
    ASSUME IInv, NEW c \in Calls, PastThreshold(c)
    PROVE  IInv'
<1>1. CASE Goto(c, "rotate")
  <2>1. /\ call[c].step = "age" /\ ~call[c].miss /\ call[c].waits = None
        /\ UNCHANGED <<world, database, lock, lost, cache, flight>>
    BY DEF PastThreshold, At
  <2>2. call[c].step \notin Migrating \cup {"done"}
    BY <2>1 DEF Migrating
  <2>. QED
    BY <1>1, <2>1, <2>2, PlainGotoStep
<1>2. CASE End(c)
  BY <1>2, PlainEndStep
<1>. QED
  BY <1>1, <1>2 DEF PastThreshold

LEMMA AfterRotationStep ==
    ASSUME IInv, NEW c \in Calls, AfterRotation(c)
    PROVE  IInv'
<1>1. CASE Goto(c, "inited") \/ Goto(c, "migrate")
  <2>1. /\ call[c].step = "rotated" /\ ~call[c].miss /\ call[c].waits = None
        /\ UNCHANGED <<world, database, lock, lost, cache, flight>>
    BY DEF AfterRotation, At
  <2>2. call[c].step \notin Migrating \cup {"done"}
    BY <2>1 DEF Migrating
  <2>. QED
    BY <1>1, <2>1, <2>2, PlainGotoStep
<1>2. CASE End(c)
  BY <1>2, PlainEndStep
<1>. QED
  BY <1>1, <1>2 DEF AfterRotation

LEMMA RotateKeyStep ==
    ASSUME IInv, NEW c \in Calls, RotateKey(c)
    PROVE  IInv'
<1>0. /\ call[c].step \in {"idle", "rotate"} /\ ~call[c].miss /\ call[c].waits = None
      /\ "rotate" \in Groups
      /\ UNCHANGED <<world, database, lock, lost, cache>>
  BY DEF RotateKey, At, Groups
<1>1. call[c].step \notin Migrating \cup {"done"}
  BY <1>0 DEF Migrating
<1>2. CASE Joins(c, "rotate")
  BY <1>0, <1>2, JoinStep
<1>3. CASE Leads(c, "rotate") /\ Goto(c, "transaction")
  BY <1>0, <1>1, <1>3, PlainGotoStep
<1>. QED
  BY <1>2, <1>3 DEF RotateKey

LEMMA MigrateKeysStep ==
    ASSUME IInv, NEW c \in Calls, MigrateKeys(c)
    PROVE  IInv'
<1>0. /\ call[c].step \in {"idle", "migrate"} /\ ~call[c].miss /\ call[c].waits = None
      /\ call[c] \in CallRecord /\ Remembers(call[c]) /\ c \in world.calls /\ "migrate" \in Groups
      /\ cache \in [Replicas -> [1..MaxKeys -> [buffer : Nat, live : BOOLEAN]]]
      /\ UNCHANGED <<world, database, lock, lost, cache>>
  BY AtFacts DEF MigrateKeys, At, Groups, Excludes
<1>1. CASE Joins(c, "migrate")
  BY <1>0, <1>1, JoinStep
<1>2. CASE Leads(c, "migrate") /\ Goto(c, "lock")
  <2> DEFINE y == [call[c] EXCEPT !.step = "lock"]
  <2>1. "lock" \in Steps /\ "lock" \notin Migrating
    BY DEF Steps, Migrating
  <2>2. /\ y \in CallRecord /\ y.step = "lock"
        /\ y.miss = call[c].miss /\ y.key = call[c].key /\ y.old = call[c].old /\ y.batch = call[c].batch
        /\ y.under = call[c].under /\ y.res = call[c].res /\ y.waits = call[c].waits
    BY <1>0, <2>1, WithStep
  <2>3. Become(c, y)
    BY <1>2 DEF Goto
  <2>. HIDE DEF y
  <2>4. Remembers(y)
    BY <1>0, <2>2 DEF Remembers, KeySteps, Moving, Sweeping
  <2>5. lock # c /\ "lock" \notin Moving
    BY <1>0, AtFacts DEF Migrating, Moving
  <2>6. flight'[Replica(c)]["migrate"] = c
    BY <1>0, <1>2, CallFacts DEF Leads, IInv, Types
  <2>. QED
    BY <1>0, <1>2, <2>1, <2>2, <2>3, <2>4, <2>5, <2>6, OneCallStep
<1>. QED
  BY <1>1, <1>2 DEF MigrateKeys

-----------------------------------------------------------------------------
(* The steps of a migration that leave the database as it is.              *)
LEMMA GetRetiringKeyStep ==
    ASSUME IInv, NEW c \in Calls, GetRetiringKey(c)
    PROVE  IInv'
<1> DEFINE x == [call[c] EXCEPT !.step = "active"]
<1>0. /\ call[c].step = "retiring" /\ ~call[c].miss /\ call[c].waits = None
      /\ call[c] \in CallRecord /\ c \in world.calls
      /\ UNCHANGED <<world, database, lock, lost, cache, flight>>
  BY AtFacts DEF GetRetiringKey, At, Excludes
<1>1. "active" \in Migrating /\ "retiring" \in Migrating
  BY DEF Migrating
<1>2. CASE Goto(c, "release")
  BY <1>0, <1>1, <1>2, ReleaseStep
<1>3. CASE \E k \in WithStatus("RETIRING") : Become(c, Resolved(c, k, x))
  <2>1. PICK k \in WithStatus("RETIRING") : Become(c, Resolved(c, k, x))
    BY <1>3
  <2>2. k \in DOMAIN keys /\ k # Len(keys)
    BY DEF WithStatus, IInv, NewestIsActive
  <2>3. k < Len(keys)
    BY <2>2, IndexFacts DEF IInv
  <2>4. /\ x \in CallRecord /\ x.step = "active" /\ ~x.miss /\ x.waits = None
        /\ x.batch = call[c].batch
    BY <1>0 DEF CallRecord, Steps
  <2>. HIDE DEF x
  <2>. QED
    BY <1>0, <1>1, <2>1, <2>2, <2>3, <2>4, ResolveStep
<1>. QED
  BY <1>2, <1>3 DEF GetRetiringKey

LEMMA GetNewKeyStep ==
    ASSUME IInv, NEW c \in Calls, GetNewKey(c)
    PROVE  IInv'
<1> DEFINE x == [call[c] EXCEPT !.step = "list", !.old = call[c].key, !.oldBuffer = call[c].buffer]
<1>0. /\ call[c].step = "active" /\ ~call[c].miss /\ call[c].waits = None
      /\ call[c] \in CallRecord /\ c \in world.calls /\ Remembers(call[c])
      /\ UNCHANGED <<world, database, lock, lost, cache, flight>>
  BY AtFacts DEF GetNewKey, At, Excludes
<1>1. "active" \in Migrating /\ "list" \in Migrating
  BY DEF Migrating
<1>2. call[c].key # 0 /\ call[c].key < Len(keys)
  BY <1>0 DEF Remembers, KeySteps
<1>3. Len(keys) # 0
  BY <1>0, <1>2, IndexFacts, BoundFacts DEF IInv, CallRecord
<1>4. Active \in DOMAIN keys /\ Active = Len(keys)
  BY <1>3, ActiveFacts DEF IInv
<1>5. /\ x \in CallRecord /\ x.step = "list" /\ ~x.miss /\ x.waits = None
      /\ x.batch = call[c].batch /\ x.old = call[c].key
  BY <1>0 DEF CallRecord, Steps
<1>6. Become(c, Resolved(c, Active, x))
  BY DEF GetNewKey
<1>. HIDE DEF x
<1>. QED
  BY <1>0, <1>1, <1>2, <1>4, <1>5, <1>6, ResolveStep

LEMMA GetTokensByKeyStep ==
    ASSUME IInv, NEW c \in Calls, GetTokensByKey(c)
    PROVE  IInv'
<1>0. /\ call[c].step = "list" /\ ~call[c].miss /\ call[c].waits = None
      /\ call[c] \in CallRecord /\ Remembers(call[c])
      /\ UNCHANGED <<world, database, lock, lost, cache, flight>>
  BY AtFacts DEF GetTokensByKey, At
<1>1. PICK rows : rows = {[id |-> i, row |-> tokens[i]] :
                             i \in {j \in DOMAIN tokens : tokens[j].key = call[c].old}}
  OBVIOUS
<1>2. rows \in SUBSET [id : Nat, row : TokenRecord] /\ \A t \in rows : t.id \in DOMAIN tokens
  BY <1>1, IndexFacts DEF IInv
<1>3. PICK s : s = IF rows = {} THEN "count" ELSE "reencrypt"
  OBVIOUS
<1>4. s \in Steps /\ s \in {"count", "reencrypt"} /\ (s = "reencrypt" => rows # {})
  BY <1>3 DEF Steps
<1> DEFINE y == [call[c] EXCEPT !.step = s, !.batch = rows]
<1>5. Become(c, y)
  BY <1>1, <1>3 DEF GetTokensByKey
<1>6. /\ y \in CallRecord /\ y.step = s /\ y.batch = rows
      /\ y.miss = call[c].miss /\ y.key = call[c].key /\ y.old = call[c].old
      /\ y.under = call[c].under /\ y.res = call[c].res /\ y.waits = call[c].waits
  BY <1>0, <1>2, <1>4 DEF CallRecord
<1>. HIDE DEF y
<1>7. Remembers(y)
  BY <1>0, <1>2, <1>4, <1>6 DEF Remembers, KeySteps, Moving, Sweeping
<1>8. call[c].step \in Migrating /\ call[c].step \in Moving /\ y.step \in Migrating
  BY <1>0, <1>4, <1>6 DEF Migrating, Moving
<1>. QED
  BY <1>0, <1>5, <1>6, <1>7, <1>8, MigrationStep

LEMMA ReencryptStep ==
    ASSUME IInv, NEW c \in Calls, Reencrypt(c)
    PROVE  IInv'
<1>0. /\ call[c].step = "reencrypt" /\ ~call[c].miss /\ call[c].waits = None
      /\ call[c] \in CallRecord /\ Remembers(call[c])
      /\ UNCHANGED <<world, database, lock, lost, cache, flight>>
  BY AtFacts DEF Reencrypt, At
<1>1. call[c].step \in Migrating /\ call[c].step \in Moving
  BY <1>0 DEF Migrating, Moving
<1>2. CASE Goto(c, "release")
  BY <1>0, <1>1, <1>2, ReleaseStep
<1>3. CASE Become(c, [call[c] EXCEPT !.step = "update",
                                     !.under = Bytes(c, call[c].key, call[c].buffer)])
  <2>1. PICK u : u = Bytes(c, call[c].key, call[c].buffer)
    OBVIOUS
  <2>2. u \in {0, call[c].key} /\ u \in 0..MaxKeys
    <3>1. 0 \in 0..MaxKeys /\ call[c].key \in 0..MaxKeys
      BY <1>0, BoundFacts DEF CallRecord
    <3>. QED
      BY <2>1, <3>1, BytesFacts
  <2> DEFINE y == [call[c] EXCEPT !.step = "update", !.under = u]
  <2>3. Become(c, y)
    BY <1>3, <2>1
  <2>4. /\ y \in CallRecord /\ y.step = "update" /\ y.under = u
        /\ y.miss = call[c].miss /\ y.key = call[c].key /\ y.old = call[c].old /\ y.batch = call[c].batch
        /\ y.res = call[c].res /\ y.waits = call[c].waits
    BY <1>0, <2>2 DEF CallRecord, Steps
  <2>. HIDE DEF y
  <2>5. Remembers(y)
    BY <1>0, <2>2, <2>4 DEF Remembers, KeySteps, Moving, Sweeping
  <2>6. y.step \in Migrating
    BY <2>4 DEF Migrating
  <2>. QED
    BY <1>0, <1>1, <2>3, <2>4, <2>5, <2>6, MigrationStep
<1>. QED
  BY <1>2, <1>3 DEF Reencrypt

LEMMA CountTokensByKeyStep ==
    ASSUME IInv, NEW c \in Calls, CountTokensByKey(c)
    PROVE  IInv'
<1>0. /\ call[c].step = "count" /\ ~call[c].miss /\ call[c].waits = None
      /\ call[c] \in CallRecord /\ Remembers(call[c])
      /\ UNCHANGED <<world, database, lock, lost, cache, flight>>
  BY AtFacts DEF CountTokensByKey, At
<1>1. call[c].step \in Migrating
  BY <1>0 DEF Migrating
<1>2. CASE Goto(c, "release")
  BY <1>0, <1>1, <1>2, ReleaseStep
<1>3. CASE Goto(c, "retire")
  <2> DEFINE y == [call[c] EXCEPT !.step = "retire"]
  <2>1. "retire" \in Steps /\ "retire" \in Migrating /\ "retire" \notin Moving
    BY DEF Steps, Migrating, Moving
  <2>2. /\ y \in CallRecord /\ y.step = "retire"
        /\ y.miss = call[c].miss /\ y.key = call[c].key /\ y.old = call[c].old /\ y.batch = call[c].batch
        /\ y.under = call[c].under /\ y.res = call[c].res /\ y.waits = call[c].waits
    BY <1>0, <2>1, WithStep
  <2>3. Become(c, y)
    BY <1>3 DEF Goto
  <2>. HIDE DEF y
  <2>4. Remembers(y)
    BY <1>0, <2>2 DEF Remembers, KeySteps, Moving, Sweeping
  <2>. QED
    BY <1>0, <1>1, <2>1, <2>2, <2>3, <2>4, MigrationStep
<1>. QED
  BY <1>2, <1>3 DEF CountTokensByKey

LEMMA StatementFailsStep ==
    ASSUME IInv, NEW c \in Calls, StatementFails(c)
    PROVE  IInv'
<1>1. call[c].step \in Migrating /\ ~call[c].miss
  BY DEF StatementFails, Migrating
<1>. QED
  BY <1>1, ReleaseStep DEF StatementFails

LEMMA MigratedStep ==
    ASSUME IInv, NEW c \in Calls, Migrated(c), c \in world.calls,
           flight[Replica(c)]["migrate"] = c,
           lock' = IF lock = c THEN None ELSE lock,
           UNCHANGED <<world, database, lost, cache>>
    PROVE  IInv'
<1>1. PICK next : next = [d \in Calls |-> Ended(d)]
  OBVIOUS
<1>2. Return(c, "migrate", next) /\ "migrate" \in Groups
  BY <1>1 DEF Migrated, Groups
<1>3. /\ next \in [Calls -> CallRecord]
      /\ \A d \in Calls : Blank(next[d]) /\ next[d].step \in {"idle", "done"}
  BY <1>1, EndedIsBlank DEF Blank
<1>4. ASSUME NEW d \in Calls, d = c \/ call[d].waits = "migrate"
      PROVE  /\ Remembers(next[d])' /\ next[d].step \notin Migrating \cup {"lock"} /\ d \in world.calls
  <2>1. Remembers(next[d])
    BY <1>3, BlankFacts DEF IInv
  <2>2. Remembers(next[d])'
    BY <2>1 DEF Remembers, database
  <2>3. d \in world.calls
    BY <1>4, CallFacts DEF IInv, Excludes, Remembers, Groups
  <2>. QED
    BY <1>3, <2>2, <2>3 DEF Migrating
<1>. QED
  BY <1>2, <1>3, <1>4, SameDatabaseFacts, ReturnStep DEF database

LEMMA ReleaseLockStep ==
    ASSUME IInv, NEW c \in Calls, releaseRotationLock(c)
    PROVE  IInv'
<1>1. c \in world.calls /\ flight[Replica(c)]["migrate"] = c
  BY AtFacts DEF releaseRotationLock, At, Excludes, Migrating
<1>. QED
  BY <1>1, MigratedStep DEF releaseRotationLock

LEMMA AcquireLockStep ==
    ASSUME IInv, NEW c \in Calls, TryAcquireTenantRotationLock(c)
    PROVE  IInv'
<1>0. /\ call[c].step = "lock" /\ ~call[c].miss /\ call[c].waits = None
      /\ call[c] \in CallRecord /\ Remembers(call[c]) /\ c \in world.calls
      /\ flight[Replica(c)]["migrate"] = c /\ lock # c
      /\ UNCHANGED <<world, database, lost, cache>>
  BY AtFacts DEF TryAcquireTenantRotationLock, At, Excludes, Migrating
<1>1. CASE Migrated(c) /\ UNCHANGED lock
  BY <1>0, <1>1, MigratedStep
<1>2. CASE lock = None /\ lock' = c /\ Goto(c, "retiring") /\ UNCHANGED flight
  <2>1. PICK y : y = [call[c] EXCEPT !.step = "retiring"]
    OBVIOUS
  <2>2. /\ y \in CallRecord /\ y.step = "retiring"
        /\ y.miss = call[c].miss /\ y.key = call[c].key /\ y.old = call[c].old /\ y.batch = call[c].batch
        /\ y.under = call[c].under /\ y.res = call[c].res /\ y.waits = call[c].waits
    BY <1>0, <2>1 DEF CallRecord, Steps
  <2>3. /\ call'[c] = y /\ call' \in [Calls -> CallRecord]
        /\ \A d \in Calls \ {c} : call'[d] = call[d]
    BY <1>2, <2>1, <2>2 DEF IInv, Types, Goto, Become
  <2>4. Types'
    BY <1>0, <1>2, <2>3 DEF IInv, Types, database
  <2>5. (NewestIsActive /\ TokensHaveKeys /\ OneEffectiveRotation)'
    BY <1>0, SameDatabaseFacts
  <2>6. Remembers(y)
    BY <1>0, <2>2 DEF Remembers, KeySteps, Moving, Sweeping
  <2>7. ASSUME NEW d \in Calls PROVE Remembers(call[d])'
    <3>1. Remembers(call'[d])
      BY <2>3, <2>6 DEF IInv
    <3>. QED
      BY <1>0, <3>1 DEF Remembers, database
  <2>8. ASSUME NEW d \in Calls PROVE Excludes(d, call[d])'
    <3>1. CASE d = c
      BY <1>0, <1>2, <2>2, <2>3, <3>1 DEF Excludes, Moving, Replica
    <3>2. CASE d # c
      <4>1. Excludes(d, call[d]) /\ call'[d] = call[d] /\ d # None
        BY <2>3, <3>2, CallFacts DEF IInv
      <4>. QED
        BY <1>0, <1>2, <4>1 DEF Excludes, Replica, database
    <3>. QED
      BY <3>1, <3>2
  <2>9. LockIsUsed'
    BY <1>2, <2>2, <2>3 DEF LockIsUsed, Migrating
  <2>. QED
    BY <2>4, <2>5, <2>7, <2>8, <2>9 DEF IInv
<1>. QED
  BY <1>1, <1>2 DEF TryAcquireTenantRotationLock

-----------------------------------------------------------------------------
(* One call goes on and writes to the database, which keeps its keys and   *)
(* tokens.                                                                 *)
LEMMA WriteStep ==
    ASSUME IInv, NEW c \in Calls, NEW x \in CallRecord, Become(c, x), Remembers(x)',
           c \in world.calls, x.step # "lock",
           x.step \in Migrating <=> call[c].step \in Migrating,
           x.step \in Moving => call[c].step \in Moving /\ x.key = call[c].key,
           keys' \in Seq(KeyRecord), Len(keys') = Len(keys),
           tokens' \in Seq(TokenRecord), Len(tokens') >= Len(tokens),
           NewestIsActive', TokensHaveKeys', OneEffectiveRotation',
           UNCHANGED <<world, lock, lost, cache, flight>>
    PROVE  IInv'
<1>1. /\ call'[c] = x /\ call' \in [Calls -> CallRecord]
      /\ \A d \in Calls \ {c} : call'[d] = call[d]
  BY DEF IInv, Types, Become
<1>2. Types'
  BY <1>1 DEF IInv, Types
<1>3. \A i : i \in DOMAIN tokens => i \in DOMAIN tokens'
  <2>1. /\ Len(tokens) \in Nat /\ DOMAIN tokens = 1..Len(tokens)
        /\ Len(tokens') \in Nat /\ DOMAIN tokens' = 1..Len(tokens')
    BY LenProperties DEF IInv, Types
  <2>. QED
    BY <2>1
<1>4. ASSUME NEW d \in Calls PROVE Remembers(call[d])'
  <2>1. CASE d = c
    BY <1>1, <2>1 DEF Remembers
  <2>2. CASE d # c
    BY <1>1, <1>3, <2>2 DEF IInv, Remembers
  <2>. QED
    BY <2>1, <2>2
<1>5. ASSUME NEW d \in Calls PROVE Excludes(d, call[d])'
  <2>1. Excludes(d, call[d])
    BY DEF IInv
  <2>2. CASE d = c
    BY <1>1, <2>1, <2>2 DEF Excludes, Replica
  <2>3. CASE d # c
    BY <1>1, <2>1, <2>3 DEF Excludes, Replica
  <2>. QED
    BY <2>2, <2>3
<1>6. LockIsUsed'
  BY <1>1 DEF IInv, Types, LockIsUsed
<1>. QED
  BY <1>2, <1>4, <1>5, <1>6 DEF IInv

(* Insert: at most one token more.                                         *)
LEMMA InsertStep ==
    ASSUME IInv, NEW c \in Calls, Insert(c)
    PROVE  IInv'
<1>0. /\ call[c].step = "insert" /\ call[c] \in CallRecord /\ Remembers(call[c]) /\ c \in world.calls
      /\ End(c) /\ UNCHANGED <<world, keys, lock, lost, cache, flight>>
  BY AtFacts DEF Insert, At, Excludes
<1>1. call[c].step \notin Migrating
  BY <1>0 DEF Migrating
<1>2. CASE UNCHANGED tokens
  BY <1>0, <1>1, <1>2, EndStep DEF database
<1> DEFINE t == [name |-> About[c].token, key |-> call[c].key, under |-> call[c].under]
<1>3. CASE tokens' = Append(tokens, t)
  <2>1. /\ call[c].key \in DOMAIN keys /\ call[c].under \in {0, call[c].key}
        /\ call[c].key \in 0..MaxKeys /\ call[c].under \in 0..MaxKeys
    <3>1. call[c].key # 0 /\ call[c].key <= Len(keys) /\ call[c].under \in {0, call[c].key}
      BY <1>0 DEF Remembers, KeySteps
    <3>2. call[c].key \in 0..MaxKeys /\ call[c].under \in 0..MaxKeys
      BY <1>0 DEF CallRecord
    <3>. QED
      BY <3>1, <3>2, IndexFacts, BoundFacts DEF IInv
  <2>2. t \in TokenRecord /\ t.key = call[c].key /\ t.under = call[c].under
    BY <2>1 DEF TokenRecord, Names
  <2>. HIDE DEF t
  <2>3. tokens \in Seq(TokenRecord) /\ Len(tokens) \in Nat /\ DOMAIN tokens = 1..Len(tokens)
    BY IndexFacts DEF IInv, Types
  <2>4. /\ tokens' \in Seq(TokenRecord) /\ Len(tokens') = Len(tokens) + 1
        /\ \A i \in 1..Len(tokens) : tokens'[i] = tokens[i]
        /\ tokens'[Len(tokens) + 1] = t
    BY <1>3, <2>2, <2>3, AppendProperties
  <2>5. DOMAIN tokens' = 1..(Len(tokens) + 1)
    BY <2>4, LenProperties
  <2>6. TokensHaveKeys'
    <3> SUFFICES ASSUME NEW i \in DOMAIN tokens'
                 PROVE  tokens'[i].key \in DOMAIN keys /\ tokens'[i].under \in {0, tokens'[i].key}
      BY <1>0 DEF TokensHaveKeys
    <3>1. i \in DOMAIN tokens \/ i = Len(tokens) + 1
      BY <2>3, <2>5
    <3>2. CASE i \in DOMAIN tokens
      BY <2>3, <2>4, <3>2 DEF IInv, TokensHaveKeys
    <3>3. CASE i = Len(tokens) + 1
      BY <2>1, <2>2, <2>4, <3>3
    <3>. QED
      BY <3>1, <3>2, <3>3
  <2>7. (NewestIsActive /\ OneEffectiveRotation)'
    BY <1>0 DEF IInv, NewestIsActive, OneEffectiveRotation
  <2>8. PICK y : y = Ended(c)
    OBVIOUS
  <2>9. /\ y \in CallRecord /\ Blank(y) /\ y.step \in {"idle", "done"} /\ Become(c, y)
        /\ y.step \notin Migrating /\ y.step \notin Moving /\ y.step # "lock"
    BY <1>0, <2>8, EndedIsBlank DEF End, Blank, Migrating, Moving
  <2>10. Remembers(y)'
    <3>1. Remembers(y) /\ y.batch = {}
      BY <2>9, BlankFacts DEF IInv, Blank
    <3>. QED
      BY <1>0, <3>1 DEF Remembers
  <2>11. keys' \in Seq(KeyRecord) /\ Len(keys') = Len(keys) /\ Len(tokens') >= Len(tokens)
    BY <1>0, <2>3, <2>4 DEF IInv, Types
  <2>. QED
    BY <1>0, <1>1, <2>4, <2>6, <2>7, <2>9, <2>10, <2>11, WriteStep
<1>. QED
  BY <1>2, <1>3 DEF Insert

(* UpdateTokenKey: a token there is moves to a key there is.               *)
LEMMA UpdateTokenKeyStep ==
    ASSUME IInv, NEW c \in Calls, UpdateTokenKey(c)
    PROVE  IInv'
<1>0. /\ call[c].step = "update" /\ ~call[c].miss /\ call[c].waits = None
      /\ call[c] \in CallRecord /\ Remembers(call[c]) /\ c \in world.calls
      /\ UNCHANGED <<world, keys, lock, lost, cache, flight>>
  BY AtFacts DEF UpdateTokenKey, At, Excludes
<1>1. PICK t : t = Oldest(call[c].batch)
  OBVIOUS
<1>2. t \in call[c].batch /\ t.id \in DOMAIN tokens
  <2>1. call[c].batch # {} /\ \A u \in call[c].batch : u.id \in Nat /\ u.id \in DOMAIN tokens
    BY <1>0, IndexFacts DEF IInv, Remembers
  <2>2. Oldest(call[c].batch) \in call[c].batch
    BY <2>1, OldestFacts
  <2>. QED
    BY <1>1, <2>1, <2>2
<1>3. PICK s : s = IF call[c].batch \ {t} = {} THEN "list" ELSE "reencrypt"
  OBVIOUS
<1>4. PICK y : y = [call[c] EXCEPT !.batch = call[c].batch \ {t}, !.under = 0, !.step = s]
  OBVIOUS
<1>5. Become(c, y)
  BY <1>1, <1>3, <1>4 DEF UpdateTokenKey
<1>6. PICK row : row = [tokens[t.id] EXCEPT !.key = call[c].key, !.under = call[c].under]
  OBVIOUS
<1>7. tokens' = [tokens EXCEPT ![t.id] = row]
  BY <1>1, <1>6 DEF UpdateTokenKey
<1>8. /\ call[c].key \in DOMAIN keys /\ call[c].under \in {0, call[c].key}
      /\ call[c].key \in 0..MaxKeys /\ call[c].under \in 0..MaxKeys /\ 0 \in 0..MaxKeys
  <2>1. call[c].key # 0 /\ call[c].key <= Len(keys) /\ call[c].under \in {0, call[c].key}
    BY <1>0 DEF Remembers, KeySteps, Moving
  <2>2. call[c].key \in 0..MaxKeys /\ call[c].under \in 0..MaxKeys
    BY <1>0 DEF CallRecord
  <2>. QED
    BY <2>1, <2>2, IndexFacts, BoundFacts DEF IInv
<1>9. row \in TokenRecord /\ row.key = call[c].key /\ row.under = call[c].under
  <2>1. tokens[t.id] \in TokenRecord
    BY <1>2, IndexFacts DEF IInv
  <2>. QED
    BY <1>6, <1>8, <2>1 DEF TokenRecord
<1>10. /\ tokens' \in Seq(TokenRecord) /\ Len(tokens') = Len(tokens) /\ DOMAIN tokens' = DOMAIN tokens
       /\ Len(tokens) \in Nat /\ tokens'[t.id] = row
       /\ \A i \in DOMAIN tokens : i # t.id => tokens'[i] = tokens[i]
  <2>1. tokens \in Seq(TokenRecord) /\ t.id \in 1..Len(tokens) /\ Len(tokens) \in Nat
    BY <1>2, IndexFacts DEF IInv, Types
  <2>2. tokens' \in Seq(TokenRecord) /\ Len(tokens') = Len(tokens)
    BY <1>7, <1>9, <2>1, ExceptSeq
  <2>. QED
    BY <1>2, <1>7, <2>1, <2>2
<1>11. TokensHaveKeys'
  BY <1>0, <1>8, <1>9, <1>10 DEF IInv, TokensHaveKeys
<1>12. (NewestIsActive /\ OneEffectiveRotation)'
  BY <1>0 DEF IInv, NewestIsActive, OneEffectiveRotation
<1>13. /\ s \in Steps /\ s \in {"list", "reencrypt"} /\ (s = "reencrypt" => call[c].batch \ {t} # {})
       /\ s \in Migrating /\ s \in Moving /\ s # "lock"
       /\ call[c].step \in Migrating /\ call[c].step \in Moving
  BY <1>0, <1>3 DEF Steps, Migrating, Moving
<1>14. /\ y \in CallRecord /\ y.step = s /\ y.batch = call[c].batch \ {t}
       /\ y.miss = call[c].miss /\ y.key = call[c].key /\ y.old = call[c].old
       /\ y.res = call[c].res /\ y.waits = call[c].waits
  BY <1>0, <1>4, <1>8, <1>13 DEF CallRecord
<1>15. Remembers(y)'
  <2>1. Remembers(y)
    BY <1>0, <1>13, <1>14 DEF Remembers, KeySteps, Moving, Sweeping
  <2>. QED
    BY <1>0, <1>10, <2>1 DEF Remembers
<1>16. keys' \in Seq(KeyRecord) /\ Len(keys') = Len(keys) /\ Len(tokens') >= Len(tokens)
  BY <1>0, <1>10 DEF IInv, Types
<1>. QED
  BY <1>0, <1>5, <1>10, <1>11, <1>12, <1>13, <1>14, <1>15, <1>16, WriteStep

(* One key's row changes, and neither its maker nor, if it was stale, that *)
(* it is.                                                                  *)
LEMMA KeyUpdate ==
    ASSUME IInv, NEW k \in DOMAIN keys, NEW row \in KeyRecord, keys' = [keys EXCEPT ![k] = row],
           row.status = "ACTIVE" <=> k = Len(keys), row.by = keys[k].by, keys[k].stale => row.stale,
           UNCHANGED tokens
    PROVE  /\ keys' \in Seq(KeyRecord) /\ Len(keys') = Len(keys)
           /\ NewestIsActive' /\ TokensHaveKeys' /\ OneEffectiveRotation'
<1>1. keys \in Seq(KeyRecord) /\ Len(keys) \in Nat /\ DOMAIN keys = 1..Len(keys)
  BY IndexFacts DEF IInv, Types
<1>2. keys' \in Seq(KeyRecord) /\ Len(keys') = Len(keys)
  BY <1>1, ExceptSeq
<1>3. /\ DOMAIN keys' = DOMAIN keys /\ keys'[k] = row
      /\ \A j \in DOMAIN keys : j # k => keys'[j] = keys[j]
  OBVIOUS
<1>4. NewestIsActive'
  BY <1>2, <1>3 DEF IInv, NewestIsActive
<1>5. TokensHaveKeys'
  BY <1>3 DEF IInv, TokensHaveKeys
<1>6. OneEffectiveRotation'
  <2> SUFFICES ASSUME NEW j \in DOMAIN keys, keys'[j].by = "auto"
               PROVE  j > 1 /\ keys'[j - 1].stale
    BY <1>3 DEF OneEffectiveRotation
  <2>1. keys[j].by = "auto"
    BY <1>3
  <2>2. j > 1 /\ keys[j - 1].stale /\ j - 1 \in DOMAIN keys
    BY <1>1, <2>1 DEF IInv, OneEffectiveRotation
  <2>. QED
    BY <1>3, <2>2
<1>. QED
  BY <1>2, <1>4, <1>5, <1>6

LEMMA MarkKeyRetiredStep ==
    ASSUME IInv, NEW c \in Calls, MarkKeyRetired(c)
    PROVE  IInv'
<1>0. /\ call[c].step = "retire" /\ ~call[c].miss /\ call[c].waits = None
      /\ call[c] \in CallRecord /\ Remembers(call[c]) /\ c \in world.calls
      /\ UNCHANGED <<world, tokens, lock, lost, cache, flight>>
  BY AtFacts DEF MarkKeyRetired, At, Excludes
<1>1. call[c].old \in DOMAIN keys /\ call[c].old # Len(keys)
  <2>1. call[c].old # 0 /\ call[c].old < Len(keys) /\ call[c].old \in 0..MaxKeys
    BY <1>0 DEF Remembers, Sweeping, CallRecord
  <2>. QED
    BY <2>1, IndexFacts, BoundFacts DEF IInv
<1>2. PICK row : row = [keys[call[c].old] EXCEPT !.status = "RETIRED"]
  OBVIOUS
<1>3. keys' = [keys EXCEPT ![call[c].old] = row]
  BY <1>2 DEF MarkKeyRetired
<1>4. /\ row \in KeyRecord /\ row.status = "RETIRED"
      /\ row.by = keys[call[c].old].by /\ row.stale = keys[call[c].old].stale
  <2>1. keys[call[c].old] \in KeyRecord
    BY <1>1, IndexFacts DEF IInv
  <2>. QED
    BY <1>2, <2>1 DEF KeyRecord
<1>5. /\ keys' \in Seq(KeyRecord) /\ Len(keys') = Len(keys)
      /\ NewestIsActive' /\ TokensHaveKeys' /\ OneEffectiveRotation'
  BY <1>0, <1>1, <1>3, <1>4, KeyUpdate
<1>6. PICK y : y = [call[c] EXCEPT !.step = "release"]
  OBVIOUS
<1>7. "release" \in Steps /\ "release" \in Migrating /\ "release" \notin Moving
  BY DEF Steps, Migrating, Moving
<1>8. /\ y \in CallRecord /\ y.step = "release"
      /\ y.miss = call[c].miss /\ y.key = call[c].key /\ y.old = call[c].old /\ y.batch = call[c].batch
      /\ y.under = call[c].under /\ y.res = call[c].res /\ y.waits = call[c].waits
  BY <1>0, <1>6, <1>7, WithStep
<1>9. Become(c, y)
  BY <1>6 DEF MarkKeyRetired, Goto
<1>10. Remembers(y)'
  BY <1>0, <1>5, <1>8 DEF Remembers, KeySteps, Moving, Sweeping
<1>11. tokens' \in Seq(TokenRecord) /\ Len(tokens') >= Len(tokens) /\ call[c].step \in Migrating
  BY <1>0, IndexFacts DEF IInv, Types, Migrating
<1>. QED
  BY <1>0, <1>5, <1>7, <1>8, <1>9, <1>10, <1>11, WriteStep

(* A rotation's transaction: one key more, the newest and only ACTIVE one; *)
(* an automatic rotation leaves a stale key behind it.                     *)
LEMMA RotateKeyTxFacts ==
    ASSUME IInv, NEW c \in Calls, keys' = rotateKeyTx(c), UNCHANGED tokens,
           Len(keys) < MaxKeys, Kind(c) = "auto" => StillStale
    PROVE  /\ keys' \in Seq(KeyRecord) /\ Len(keys') = Len(keys) + 1
           /\ NewestIsActive' /\ TokensHaveKeys' /\ OneEffectiveRotation'
<1>1. PICK new : new = [status |-> "ACTIVE", stale |-> FALSE,
                        by |-> IF Kind(c) = "tokenize" THEN "bootstrap" ELSE Kind(c)]
  OBVIOUS
<1>2. PICK olds : olds = [k \in DOMAIN keys |->
                            IF keys[k].status = "ACTIVE" THEN [keys[k] EXCEPT !.status = "RETIRING"]
                            ELSE keys[k]]
  OBVIOUS
<1>3. keys' = Append(olds, new)
  BY <1>1, <1>2 DEF rotateKeyTx
<1>4. /\ new \in KeyRecord /\ new.status = "ACTIVE" /\ (new.by = "auto" => Kind(c) = "auto")
  BY <1>1, CallFacts DEF KeyRecord
<1>5. Len(keys) \in Nat /\ DOMAIN keys = 1..Len(keys) /\ \A k \in DOMAIN keys : keys[k] \in KeyRecord
  BY IndexFacts DEF IInv
<1>6. ASSUME NEW k \in DOMAIN keys
      PROVE  /\ olds[k] \in KeyRecord /\ olds[k].status # "ACTIVE"
             /\ olds[k].by = keys[k].by /\ olds[k].stale = keys[k].stale
  <2>1. keys[k] \in KeyRecord
    BY <1>5
  <2>2. CASE keys[k].status = "ACTIVE"
    <3>1. olds[k] = [keys[k] EXCEPT !.status = "RETIRING"]
      BY <1>2, <2>2
    <3>. QED
      BY <2>1, <3>1 DEF KeyRecord
  <2>3. CASE keys[k].status # "ACTIVE"
    <3>1. olds[k] = keys[k]
      BY <1>2, <2>3
    <3>. QED
      BY <2>1, <2>3, <3>1
  <2>. QED
    BY <2>2, <2>3
<1>7. olds \in Seq(KeyRecord) /\ Len(olds) = Len(keys)
  <2>1. olds \in [1..Len(keys) -> KeyRecord]
    BY <1>2, <1>5, <1>6
  <2>2. olds \in Seq(KeyRecord)
    BY <1>5, <2>1, SeqDef
  <2>. QED
    BY <1>5, <2>1, <2>2, LenProperties
<1>8. /\ keys' \in Seq(KeyRecord) /\ Len(keys') = Len(keys) + 1
      /\ \A k \in 1..Len(keys) : keys'[k] = olds[k]
      /\ keys'[Len(keys) + 1] = new
  BY <1>3, <1>4, <1>7, AppendProperties
<1>9. DOMAIN keys' = 1..(Len(keys) + 1)
  BY <1>8, LenProperties
<1>10. \A k \in DOMAIN keys' : k \in DOMAIN keys \/ k = Len(keys) + 1
  BY <1>5, <1>9
<1>11. NewestIsActive'
  <2> SUFFICES ASSUME NEW k \in DOMAIN keys'
               PROVE  keys'[k].status = "ACTIVE" <=> k = Len(keys) + 1
    BY <1>8 DEF NewestIsActive
  <2>1. CASE k \in DOMAIN keys
    BY <1>5, <1>6, <1>8, <2>1
  <2>2. CASE k = Len(keys) + 1
    BY <1>4, <1>8, <2>2
  <2>. QED
    BY <1>10, <2>1, <2>2
<1>12. TokensHaveKeys'
  <2>1. \A k : k \in DOMAIN keys => k \in DOMAIN keys'
    BY <1>5, <1>9
  <2>. QED
    BY <2>1 DEF IInv, TokensHaveKeys
<1>13. OneEffectiveRotation'
  <2> SUFFICES ASSUME NEW k \in DOMAIN keys', keys'[k].by = "auto"
               PROVE  k > 1 /\ keys'[k - 1].stale
    BY DEF OneEffectiveRotation
  <2>1. CASE k \in DOMAIN keys
    <3>1. keys[k].by = "auto"
      BY <1>5, <1>6, <1>8, <2>1
    <3>2. k > 1 /\ keys[k - 1].stale /\ k - 1 \in DOMAIN keys
      BY <1>5, <2>1, <3>1 DEF IInv, OneEffectiveRotation
    <3>. QED
      BY <1>5, <1>6, <1>8, <3>2
  <2>2. CASE k = Len(keys) + 1
    <3>1. StillStale
      BY <1>4, <1>8, <2>2
    <3>2. Len(keys) # 0
      BY <3>1, IndexFacts DEF StillStale, IInv
    <3>3. Active = Len(keys) /\ Active \in DOMAIN keys
      BY <3>2, ActiveFacts DEF IInv
    <3>4. keys[Len(keys)].stale /\ Len(keys) \in DOMAIN keys
      BY <3>1, <3>3 DEF StillStale
    <3>5. keys'[Len(keys)].stale
      BY <1>5, <1>6, <1>8, <3>4
    <3>. QED
      BY <1>5, <2>2, <3>2, <3>5
  <2>. QED
    BY <1>10, <2>1, <2>2
<1>. QED
  BY <1>8, <1>11, <1>12, <1>13

(* A rotation returns to those who wait for it.                            *)
LEMMA RotatedStep ==
    ASSUME IInv, NEW c \in Calls, At(c, "transaction"), NEW ok \in BOOLEAN, Rotated(c, ok),
           keys' \in Seq(KeyRecord), Len(keys') \in Len(keys)..MaxKeys,
           ok => Len(keys') # 0,
           Len(keys') = Len(keys) \/ lock = None,
           NewestIsActive', TokensHaveKeys', OneEffectiveRotation',
           UNCHANGED <<world, tokens, lock, lost, cache>>
    PROVE  IInv'
<1>0. /\ call[c].step = "transaction" /\ ~call[c].miss /\ call[c].waits = None
      /\ c \in world.calls
  BY AtFacts DEF At, Excludes
<1>1. lock # c
  BY <1>0, AtFacts DEF Migrating
<1>2. PICK next : next = [d \in Calls |-> [call[d] EXCEPT !.step = "rotated", !.res = ok, !.waits = None]]
  OBVIOUS
<1>3. Return(c, "rotate", next) /\ "rotate" \in Groups
  BY <1>2 DEF Rotated, Groups
<1>4. ASSUME NEW d \in Calls
      PROVE  /\ next[d] \in CallRecord /\ next[d].step = "rotated" /\ next[d].res = ok
             /\ next[d].waits = None /\ next[d].miss = call[d].miss /\ next[d].key = call[d].key
             /\ next[d].old = call[d].old /\ next[d].batch = call[d].batch
  <2>1. call[d] \in CallRecord
    BY AtFacts
  <2>2. next[d] = [call[d] EXCEPT !.step = "rotated", !.res = ok, !.waits = None]
    BY <1>2
  <2>. QED
    BY <2>1, <2>2 DEF CallRecord, Steps
<1>5. next \in [Calls -> CallRecord]
  BY <1>2, <1>4
<1>6. Len(keys) \in Nat /\ Len(keys') \in Nat /\ Len(keys') >= Len(keys)
  BY IndexFacts, BoundFacts DEF IInv
<1>7. ASSUME NEW d \in Calls, d = c \/ call[d].waits = "rotate"
      PROVE  /\ Remembers(next[d])' /\ next[d].step \notin Migrating \cup {"lock"} /\ d \in world.calls
  <2>1. Remembers(call[d]) /\ Excludes(d, call[d]) /\ call[d].key \in Int
    BY AtFacts, RecordFacts
  <2>2. ~call[d].miss /\ d \in world.calls
    BY <1>0, <1>7, <2>1, CallFacts DEF Remembers, Excludes, Groups
  <2>3. Remembers(next[d])'
    BY <1>4, <1>6, <2>1, <2>2 DEF Remembers, KeySteps, Moving, Sweeping
  <2>. QED
    BY <1>4, <2>2, <2>3 DEF Migrating
<1>. QED
  BY <1>1, <1>3, <1>5, <1>7, ReturnStep

LEMMA RotateKeyIfStaleStep ==
    ASSUME IInv, NEW c \in Calls, RotateKeyIfStale(c)
    PROVE  IInv'
<1>0. At(c, "transaction") /\ UNCHANGED <<world, tokens, lock, lost, cache>>
  BY DEF RotateKeyIfStale
<1>1. CASE Rotated(c, FALSE) /\ UNCHANGED keys
  BY <1>0, <1>1, SameDatabaseFacts, RotatedStep DEF database
<1>2. CASE /\ lock = None /\ Len(keys) < MaxKeys /\ ~(Kind(c) = "auto" /\ ~StillStale)
           /\ Rotated(c, TRUE) /\ keys' = rotateKeyTx(c)
  <2>1. /\ keys' \in Seq(KeyRecord) /\ Len(keys') = Len(keys) + 1
        /\ NewestIsActive' /\ TokensHaveKeys' /\ OneEffectiveRotation'
    BY <1>0, <1>2, RotateKeyTxFacts
  <2>2. Len(keys') \in Len(keys)..MaxKeys /\ Len(keys') # 0
    BY <1>2, <2>1, IndexFacts, BoundFacts DEF IInv
  <2>. QED
    BY <1>0, <1>2, <2>1, <2>2, RotatedStep
<1>. QED
  BY <1>1, <1>2 DEF RotateKeyIfStale

-----------------------------------------------------------------------------
(* Time and failures.                                                      *)
LEMMA AgeStep ==
    ASSUME IInv, Age
    PROVE  IInv'
<1>0. keys # <<>> /\ UNCHANGED <<world, tokens, lock, lost, cache, flight, call>>
  BY DEF Age
<1>1. Active \in DOMAIN keys /\ Active = Len(keys)
  BY <1>0, ActiveFacts, IndexFacts DEF IInv
<1>2. PICK k : k = Active
  OBVIOUS
<1>3. PICK row : row = [keys[k] EXCEPT !.stale = TRUE]
  OBVIOUS
<1>4. keys' = [keys EXCEPT ![k] = row]
  BY <1>2, <1>3 DEF Age
<1>5. row \in KeyRecord /\ row.status = keys[k].status /\ row.by = keys[k].by /\ row.stale
  <2>1. keys[k] \in KeyRecord
    BY <1>1, <1>2, IndexFacts DEF IInv
  <2>. QED
    BY <1>3, <2>1 DEF KeyRecord
<1>6. row.status = "ACTIVE"
  BY <1>1, <1>2, <1>5 DEF IInv, NewestIsActive
<1>7. /\ keys' \in Seq(KeyRecord) /\ Len(keys') = Len(keys)
      /\ NewestIsActive' /\ TokensHaveKeys' /\ OneEffectiveRotation'
  BY <1>0, <1>1, <1>2, <1>4, <1>5, <1>6, KeyUpdate
<1>8. Types'
  BY <1>0, <1>7 DEF IInv, Types
<1>9. \A c \in Calls : Remembers(call[c])'
  BY <1>0, <1>7 DEF IInv, Remembers
<1>10. \A c \in Calls : Excludes(c, call[c])'
  BY <1>0, <1>7 DEF IInv, Excludes, Replica
<1>11. LockIsUsed'
  BY <1>0 DEF IInv, LockIsUsed
<1>. QED
  BY <1>7, <1>8, <1>9, <1>10, <1>11 DEF IInv

(* Nothing of the invariant depends on more of the cache than its type.    *)
LEMMA CacheStep ==
    ASSUME IInv, cache' \in [Replicas -> [1..MaxKeys -> [buffer : Nat, live : BOOLEAN]]],
           UNCHANGED <<world, database, lock, lost, flight, call>>
    PROVE  IInv'
<1> USE DEF database
<1>1. Types'
  BY DEF IInv, Types
<1>2. (NewestIsActive /\ TokensHaveKeys /\ OneEffectiveRotation)'
  BY SameDatabaseFacts
<1>3. \A c \in Calls : Remembers(call[c])'
  BY DEF IInv, Remembers
<1>4. \A c \in Calls : Excludes(c, call[c])'
  BY DEF IInv, Excludes, Replica
<1>5. LockIsUsed'
  BY DEF IInv, LockIsUsed
<1>. QED
  BY <1>1, <1>2, <1>3, <1>4, <1>5 DEF IInv

LEMMA ExpireStep ==
    ASSUME IInv, Expire
    PROVE  IInv'
<1>1. PICK r \in Replicas, k \in DOMAIN keys : cache' = [cache EXCEPT ![r][k].live = FALSE]
  BY DEF Expire
<1>2. k \in 1..MaxKeys
  BY IndexFacts DEF IInv
<1>3. PICK entry : entry = [cache[r][k] EXCEPT !.live = FALSE]
  OBVIOUS
<1>4. cache \in [Replicas -> [1..MaxKeys -> [buffer : Nat, live : BOOLEAN]]]
  BY DEF IInv, Types
<1>5. entry \in [buffer : Nat, live : BOOLEAN]
  <2>1. cache[r][k] \in [buffer : Nat, live : BOOLEAN]
    BY <1>2, <1>4
  <2>. QED
    BY <1>3, <2>1
<1>6. cache' = [cache EXCEPT ![r] = [cache[r] EXCEPT ![k] = entry]]
  BY <1>1, <1>3
<1>7. cache' \in [Replicas -> [1..MaxKeys -> [buffer : Nat, live : BOOLEAN]]]
  BY <1>2, <1>4, <1>5, <1>6
<1>. QED
  BY <1>7, CacheStep DEF Expire

LEMMA LoseLockStep ==
    ASSUME IInv, LoseLock
    PROVE  IInv'
<1> USE DEF database
<1>0. lock' = None /\ lost' = TRUE /\ UNCHANGED <<world, database, cache, flight, call>>
  BY DEF LoseLock
<1>1. Types'
  BY <1>0 DEF IInv, Types
<1>2. (NewestIsActive /\ TokensHaveKeys /\ OneEffectiveRotation)'
  BY <1>0, SameDatabaseFacts
<1>3. \A c \in Calls : Remembers(call[c])'
  BY <1>0 DEF IInv, Remembers
<1>4. \A c \in Calls : Excludes(c, call[c])'
  BY <1>0 DEF IInv, Excludes, Replica
<1>5. LockIsUsed'
  BY <1>0 DEF LockIsUsed
<1>. QED
  BY <1>1, <1>2, <1>3, <1>4, <1>5 DEF IInv

(* Crash: the calls of a replica end, and with them its migration.         *)
LEMMA CrashStep ==
    ASSUME IInv, NEW r \in Replicas, Crash(r)
    PROVE  IInv'
<1> USE DEF database
<1>0. UNCHANGED <<world, database, lost>>
  BY DEF Crash
<1>1. ASSUME NEW d \in Calls
      PROVE  \/ Replica(d) # r /\ call'[d] = call[d]
             \/ /\ Replica(d) = r /\ call'[d] \in CallRecord /\ Remembers(call'[d])
                /\ call'[d].step \in {"idle", "done"}
                /\ call'[d].step # "done" => d \in world.calls
  <2>1. call'[d] = IF d \in world.calls /\ Replica(d) = r /\ call[d] # Idle THEN Ended(d) ELSE call[d]
    BY DEF Crash
  <2>2. CASE d \in world.calls /\ Replica(d) = r /\ call[d] # Idle
    <3>1. call'[d] = Ended(d)
      BY <2>1, <2>2
    <3>2. Blank(Ended(d)) /\ Ended(d).step \in {"idle", "done"}
      BY EndedIsBlank
    <3>3. Remembers(Ended(d))
      BY <3>2, BlankFacts DEF IInv
    <3>. QED
      BY <2>2, <3>1, <3>2, <3>3 DEF Blank
  <2>3. CASE Replica(d) # r
    BY <2>1, <2>3
  <2>4. CASE Replica(d) = r /\ ~(d \in world.calls /\ call[d] # Idle)
    <3>1. call'[d] = call[d]
      BY <2>1, <2>4
    <3>2. call[d] \in CallRecord /\ Remembers(call[d]) /\ Excludes(d, call[d])
      BY AtFacts
    <3>3. call[d].step \in {"idle", "done"}
      BY <2>4, <3>2, IdleIsBlank DEF Excludes
    <3>. QED
      BY <2>4, <3>1, <3>2, <3>3 DEF Excludes
  <2>. QED
    BY <2>2, <2>3, <2>4
<1>2. Types'
  <2>1. call' \in [Calls -> CallRecord]
    <3>1. \A d \in Calls : call'[d] \in CallRecord
      BY <1>1 DEF IInv, Types
    <3>2. PICK f : call' = [d \in Calls |-> f[d]]
      <4>1. call' = [d \in Calls |-> call'[d]]
        BY DEF Crash
      <4>. QED
        BY <4>1
    <3>. QED
      BY <3>1, <3>2
  <2>2. flight' \in [Replicas -> [Groups -> Calls \cup {None}]]
    BY DEF IInv, Types, Crash
  <2>3. cache' \in [Replicas -> [1..MaxKeys -> [buffer : Nat, live : BOOLEAN]]]
    BY DEF IInv, Types, Crash
  <2>4. lock' \in Calls \cup {None}
    BY DEF IInv, Types, Crash
  <2>. QED
    BY <1>0, <2>1, <2>2, <2>3, <2>4 DEF IInv, Types
<1>3. (NewestIsActive /\ TokensHaveKeys /\ OneEffectiveRotation)'
  BY <1>0, SameDatabaseFacts
<1>4. ASSUME NEW d \in Calls PROVE Remembers(call[d])'
  <2>1. Remembers(call'[d])
    BY <1>1 DEF IInv
  <2>. QED
    BY <1>0, <2>1 DEF Remembers
<1>5. ASSUME NEW d \in Calls PROVE Excludes(d, call[d])'
  <2>1. CASE Replica(d) = r
    BY <1>0, <1>1, <2>1 DEF Excludes, Migrating, Moving
  <2>2. CASE Replica(d) # r
    <3>1. call'[d] = call[d] /\ Excludes(d, call[d]) /\ d # None /\ Replica(d) \in Replicas
      BY <1>1, <2>2, CallFacts DEF IInv
    <3>2. flight'[Replica(d)] = flight[Replica(d)]
      BY <2>2, <3>1 DEF Crash, IInv, Types
    <3>3. lock = d => lock' = d
      BY <2>2 DEF Crash
    <3>. QED
      BY <1>0, <3>1, <3>2, <3>3 DEF Excludes, Replica
  <2>. QED
    BY <2>1, <2>2
<1>6. LockIsUsed'
  BY <1>1 DEF IInv, Types, LockIsUsed, Crash
<1>. QED
  BY <1>2, <1>3, <1>4, <1>5, <1>6 DEF IInv

-----------------------------------------------------------------------------
(* Every step keeps the invariant.                                         *)
LEMMA IInvStep == IInv /\ [Next]_vars => IInv'
<1> SUFFICES ASSUME IInv, [Next]_vars PROVE IInv'
  OBVIOUS
<1>1. ASSUME NEW c \in Calls, Step(c) PROVE IInv'
  <2>1. CASE Unwrap(c)
    BY <2>1, UnwrapStep
  <2>2. CASE EnsureInitialKey(c)
    BY <2>2, EnsureInitialKeyStep
  <2>3. CASE InitialKeyEnsured(c)
    BY <2>3, InitialKeyEnsuredStep
  <2>4. CASE GetActiveKey(c)
    BY <2>4, GetActiveKeyStep
  <2>5. CASE Encrypt(c)
    BY <2>5, EncryptStep
  <2>6. CASE Insert(c)
    BY <2>6, InsertStep
  <2>7. CASE DetokenizeFields(c)
    BY <2>7, DetokenizeFieldsStep
  <2>8. CASE Decrypt(c)
    BY <2>8, PlainEndStep DEF Decrypt
  <2>9. CASE AutoRotateKeys(c)
    BY <2>9, AutoRotateKeysStep
  <2>10. CASE PastThreshold(c)
    BY <2>10, PastThresholdStep
  <2>11. CASE RotateKey(c)
    BY <2>11, RotateKeyStep
  <2>12. CASE RotateKeyIfStale(c)
    BY <2>12, RotateKeyIfStaleStep
  <2>13. CASE AfterRotation(c)
    BY <2>13, AfterRotationStep
  <2>14. CASE MigrateKeys(c)
    BY <2>14, MigrateKeysStep
  <2>15. CASE TryAcquireTenantRotationLock(c)
    BY <2>15, AcquireLockStep
  <2>16. CASE releaseRotationLock(c)
    BY <2>16, ReleaseLockStep
  <2>17. CASE GetRetiringKey(c)
    BY <2>17, GetRetiringKeyStep
  <2>18. CASE GetNewKey(c)
    BY <2>18, GetNewKeyStep
  <2>19. CASE GetTokensByKey(c)
    BY <2>19, GetTokensByKeyStep
  <2>20. CASE Reencrypt(c)
    BY <2>20, ReencryptStep
  <2>21. CASE UpdateTokenKey(c)
    BY <2>21, UpdateTokenKeyStep
  <2>22. CASE CountTokensByKey(c)
    BY <2>22, CountTokensByKeyStep
  <2>23. CASE MarkKeyRetired(c)
    BY <2>23, MarkKeyRetiredStep
  <2>. QED
    BY <1>1, <2>1, <2>2, <2>3, <2>4, <2>5, <2>6, <2>7, <2>8, <2>9, <2>10, <2>11, <2>12, <2>13,
       <2>14, <2>15, <2>16, <2>17, <2>18, <2>19, <2>20, <2>21, <2>22, <2>23 DEF Step
<1>2. CASE UNCHANGED vars
  <2>1. /\ UNCHANGED <<world, database, lock, lost, flight, call>>
        /\ cache' \in [Replicas -> [1..MaxKeys -> [buffer : Nat, live : BOOLEAN]]]
    BY <1>2 DEF vars, IInv, Types
  <2>. QED
    BY <2>1, CacheStep
<1>. QED
  BY <1>1, <1>2, StatementFailsStep, AgeStep, ExpireStep, LoseLockStep, CrashStep DEF Next

(* The inductive invariant holds at all times.                             *)
THEOREM Invariance == Spec => []IInv
<1>1. Init => IInv
  BY IInvInit
<1>2. IInv /\ [Next]_vars => IInv'
  BY IInvStep
<1>. QED
  BY <1>1, <1>2, PTL DEF Spec

(* With any number of replicas, requests, workers and failures the newest  *)
(* key of a tenant, and no other, is ACTIVE, a token's bytes were written  *)
(* by the key it names or by zeros, and the lock belongs to its replica's  *)
(* running migration (rotateKeyTx, Insert, UpdateTokenKey,                 *)
(* releaseRotationLock).                                                   *)
THEOREM KeysHaveLifecycle == Spec => []KeyLifecycle
<1>1. ASSUME IInv PROVE KeyLifecycle
  <2>1. ASSUME keys # <<>> PROVE WithStatus("ACTIVE") = {Len(keys)}
    BY <1>1, <2>1, ActiveFacts, IndexFacts DEF IInv
  <2>2. ASSUME lock # None PROVE flight[Replica(lock)]["migrate"] = lock
    <3>1. lock \in Calls /\ call[lock].step \in Migrating
      BY <1>1, <2>2 DEF IInv, Types, LockIsUsed
    <3>. QED
      BY <1>1, <3>1 DEF IInv, Excludes
  <2>. QED
    BY <1>1, <2>1, <2>2 DEF KeyLifecycle, IInv, TokensHaveKeys
<1>. QED
  BY <1>1, Invariance, PTL

(* Automatic rotations, however many replicas' workers saw the same old    *)
(* key, each replace a key that was stale (RotateKeyIfStale).              *)
THEOREM StaleKeysRotateOnce == Spec => []OneEffectiveRotation
<1>1. IInv => OneEffectiveRotation
  BY DEF IInv
<1>. QED
  BY <1>1, Invariance, PTL

(* While no session has lost its lock, no step moves a token to an older   *)
(* key (TryAcquireTenantRotationLock, UpdateTokenKey).                     *)
THEOREM TokensOnlyMoveForward == Spec => TokensMoveForward
<1> DEFINE Forward == ~lost => \A i \in DOMAIN tokens : tokens'[i].key >= tokens[i].key
<1>1. ASSUME IInv, [Next]_vars PROVE [Forward]_vars
  <2>0. /\ DOMAIN tokens = 1..Len(tokens) /\ Len(tokens) \in Nat /\ tokens \in Seq(TokenRecord)
        /\ \A i \in DOMAIN tokens : tokens[i].key \in Nat /\ tokens[i].key <= Len(keys)
    <3>1. \A i \in DOMAIN tokens : tokens[i].key \in DOMAIN keys
      BY <1>1 DEF IInv, TokensHaveKeys
    <3>. QED
      BY <1>1, <3>1, IndexFacts DEF IInv, Types
  <2>1. CASE UNCHANGED tokens
    BY <2>0, <2>1
  <2>2. ASSUME NEW c \in Calls, Insert(c) PROVE Forward
    <3>1. CASE UNCHANGED tokens
      BY <2>0, <3>1
    <3>2. CASE \E t : tokens' = Append(tokens, t)
      <4>1. PICK t : tokens' = Append(tokens, t)
        BY <3>2
      <4>2. ASSUME NEW i \in DOMAIN tokens PROVE tokens'[i] = tokens[i]
        BY <2>0, <4>1
      <4>. QED
        BY <2>0, <4>2
    <3>. QED
      BY <2>2, <3>1, <3>2 DEF Insert
  <2>3. ASSUME NEW c \in Calls, UpdateTokenKey(c), ~lost, NEW i \in DOMAIN tokens
        PROVE  tokens'[i].key >= tokens[i].key
    <3>1. call[c].key = Len(keys)
      BY <1>1, <2>3, AtFacts DEF UpdateTokenKey, At, Excludes, Moving
    <3>2. PICK j : tokens' = [tokens EXCEPT ![j] = [@ EXCEPT !.key = call[c].key, !.under = call[c].under]]
      BY <2>3 DEF UpdateTokenKey
    <3>3. CASE i = j
      <4>1. tokens[i] \in TokenRecord
        BY <1>1, IndexFacts DEF IInv
      <4>2. tokens'[i].key = call[c].key
        BY <3>2, <3>3, <4>1 DEF TokenRecord
      <4>. QED
        BY <1>1, <2>0, <3>1, <4>2, IndexFacts DEF IInv
    <3>4. CASE i # j
      BY <2>0, <3>2, <3>4
    <3>. QED
      BY <3>3, <3>4
  <2>4. \/ UNCHANGED tokens
        \/ \E c \in Calls : Insert(c) \/ UpdateTokenKey(c)
    BY <1>1 DEF Next, Step, vars, database, Unwrap, EnsureInitialKey, InitialKeyEnsured, GetActiveKey,
       Encrypt, DetokenizeFields, Decrypt, AutoRotateKeys, PastThreshold, RotateKey, RotateKeyIfStale,
       AfterRotation, MigrateKeys, TryAcquireTenantRotationLock, releaseRotationLock, GetRetiringKey,
       GetNewKey, GetTokensByKey, Reencrypt, CountTokensByKey, MarkKeyRetired, StatementFails,
       Age, Expire, LoseLock, Crash
  <2>. QED
    BY <2>1, <2>2, <2>3, <2>4
<1>2. [][Forward]_vars <=> TokensMoveForward
  BY DEF TokensMoveForward
<1>. QED
  BY <1>1, <1>2, Invariance, PTL DEF Spec
=============================================================================
