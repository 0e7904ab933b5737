------------------------------- MODULE Vault -------------------------------
(***************************************************************************)
(* The vault's keys (backend/vault): tokens are encrypted under a tenant's *)
(* ACTIVE key, rotation makes it RETIRING, migration moves its tokens to   *)
(* the ACTIVE key and makes it RETIRED.  Replicas share the database; each *)
(* keeps unwrapped keys in a cache that expires.                           *)
(*                                                                         *)
(* One tenant.  A statement, a transaction and a call of the key service   *)
(* are one step each.  The bytes of a key are its number, or 0 once they   *)
(* are overwritten.  Audit rows and key_rotation_jobs, which nobody reads, *)
(* and keys that were never wrapped are left out.                          *)
(***************************************************************************)
EXTENDS Naturals, Sequences, FiniteSets

CONSTANTS
    Replicas,
    Calls,
    About,     \* Calls -> kind (what the call does), replica, token (its name)
    MaxKeys,   \* bound: keys a tenant may get
    Worlds,    \* which calls are made, how many tokens the first key holds at the start (or
               \* None: no key), and how often a key ages, a cached key expires, a step fails
    None

Groups == {"init", "rotate", "migrate"}

ASSUME VaultAssumption ==
    /\ \A c \in Calls : /\ About[c].kind \in {"tokenize", "detokenize", "rotate", "auto", "migrate"}
                        /\ About[c].replica \in Replicas
    /\ Worlds \subseteq [calls : SUBSET Calls, held : Nat \cup {None},
                        ages : Nat, expiries : Nat, faults : Nat]
    /\ MaxKeys \in Nat \ {0} /\ None \notin Calls \cup Groups \cup Nat

VARIABLES
    world,
    keys,      \* token_encryption_keys: status, stale (older than ten months), by (who made it)
    tokens,    \* token_map, in the order of creation: name, key, under (what encrypted it)
    lock,      \* the session-level advisory lock of the tenant
    lost,      \* a session has lost its lock
    cache,     \* replicas -> keys -> the last buffer's number, and whether it is still live
    flight,    \* replicas -> singleflight groups -> the call that works for all
    call,      \* what each call is doing
    ages, expiries, faults

database == <<keys, tokens>>
budgets == <<ages, expiries, faults>>
vars == <<world, database, lock, lost, cache, flight, call, budgets>>

Idle == [step |-> "idle", miss |-> FALSE, key |-> 0, buffer |-> 0, old |-> 0, oldBuffer |-> 0,
         batch |-> {}, under |-> 0, res |-> FALSE, waits |-> None]

Replica(c) == About[c].replica
Kind(c) == About[c].kind
At(c, step) == call[c].step = step /\ ~call[c].miss /\ call[c].waits = None
Become(c, x) == call' = [call EXCEPT ![c] = x]
Goto(c, step) == Become(c, [call[c] EXCEPT !.step = step])
Fault == faults < world.faults /\ faults' = faults + 1 /\ UNCHANGED <<ages, expiries>>

WithStatus(s) == {k \in DOMAIN keys : keys[k].status = s}
Active == CHOOSE k \in WithStatus("ACTIVE") : TRUE

(* Workers run again and again, requests end.                              *)
Ended(c) == [Idle EXCEPT !.step = IF Kind(c) \in {"auto", "migrate"} THEN "idle" ELSE "done"]
End(c) == Become(c, Ended(c))

Init ==
    /\ world \in Worlds
    /\ keys = IF world.held = None THEN <<>>
              ELSE <<[status |-> "ACTIVE", stale |-> FALSE, by |-> "bootstrap"]>>
    /\ tokens = IF world.held = None THEN <<>>
                ELSE [i \in 1..world.held |-> [name |-> i, key |-> 1, under |-> 1]]
    /\ lock = None /\ lost = FALSE
    /\ cache = [r \in Replicas |-> [k \in 1..MaxKeys |-> [buffer |-> 0, live |-> FALSE]]]
    /\ flight = [r \in Replicas |-> [g \in Groups |-> None]]
    /\ call = [c \in Calls |-> IF c \in world.calls THEN Idle ELSE [Idle EXCEPT !.step = "done"]]
    /\ ages = 0 /\ expiries = 0 /\ faults = 0

-----------------------------------------------------------------------------
(* The key manager: a key of the database and its bytes.                   *)

(* A live entry of the cache is handed out as it is, a shared buffer.      *)
Resolved(c, k, x) ==
    LET entry == cache[Replica(c)][k]
    IN  IF entry.live THEN [x EXCEPT !.key = k, !.buffer = entry.buffer]
        ELSE [x EXCEPT !.key = k, !.miss = TRUE]

(* What the bytes of a buffer are by now: an overwritten one is zeroed.    *)
Bytes(c, k, b) == IF cache[Replica(c)][k].buffer = b THEN k ELSE 0

(* What the caller does when the key service fails.                        *)
Unresolved(c) ==
    IF call[c].step = "inited" THEN [Idle EXCEPT !.step = "rotate"]
    ELSE IF call[c].step \in {"active", "list"} THEN [Idle EXCEPT !.step = "release"]
    ELSE Ended(c)

(* The key service unwraps, and the answer replaces the cache's entry.     *)
Unwrap(c) ==
    LET k == call[c].key
        b == cache[Replica(c)][k].buffer + 1
    IN
    /\ call[c].miss
    /\ \/ /\ cache' = [cache EXCEPT ![Replica(c)][k] = [buffer |-> b, live |-> TRUE]]
          /\ Become(c, [call[c] EXCEPT !.miss = FALSE, !.buffer = b])
          /\ UNCHANGED budgets
       \/ Fault /\ UNCHANGED cache /\ Become(c, Unresolved(c))
    /\ UNCHANGED <<world, database, lock, lost, flight>>

(* One call of a group works, the others wait for its result.              *)
Joins(c, g) ==
    /\ flight[Replica(c)][g] # None
    /\ Become(c, [call[c] EXCEPT !.waits = g])
    /\ UNCHANGED flight
Leads(c, g) ==
    /\ flight[Replica(c)][g] = None
    /\ flight' = [flight EXCEPT ![Replica(c)][g] = c]

(* The leader of a group has its result: it and those who wait go on.      *)
Return(c, g, next) ==
    /\ flight' = [flight EXCEPT ![Replica(c)][g] = None]
    /\ call' = [d \in Calls |-> IF d = c \/ (call[d].waits = g /\ Replica(d) = Replica(c))
                                THEN next[d] ELSE call[d]]

-----------------------------------------------------------------------------
(* Tokens.                                                                 *)

(* A key that cannot be had, whatever the reason, is made.                 *)
EnsureInitialKey(c) ==
    /\ At(c, "idle") /\ Kind(c) = "tokenize"
    /\ \/ Joins(c, "init") /\ UNCHANGED budgets
       \/ /\ Leads(c, "init")
          /\ IF keys = <<>> THEN Goto(c, "rotate")
             ELSE Become(c, Resolved(c, Active, [call[c] EXCEPT !.step = "inited", !.res = TRUE]))
          /\ UNCHANGED budgets
       \/ Leads(c, "init") /\ Fault /\ Goto(c, "rotate")
    /\ UNCHANGED <<world, database, lock, lost, cache>>

InitialKeyEnsured(c) ==
    /\ At(c, "inited")
    /\ Return(c, "init", [d \in Calls |-> [Idle EXCEPT !.step = IF call[c].res THEN "get" ELSE "done"]])
    /\ UNCHANGED <<world, database, lock, lost, cache, budgets>>

GetActiveKey(c) ==
    /\ At(c, "get")
    /\ Become(c, Resolved(c, Active, [call[c] EXCEPT !.step = "encrypt"]))
    /\ UNCHANGED <<world, database, lock, lost, cache, flight, budgets>>

Encrypt(c) ==
    /\ At(c, "encrypt")
    /\ Become(c, [call[c] EXCEPT !.step = "insert", !.under = Bytes(c, call[c].key, call[c].buffer)])
    /\ UNCHANGED <<world, database, lock, lost, cache, flight, budgets>>

(* The name is derived from the plaintext; a token that exists stays.      *)
Insert(c) ==
    LET t == [name |-> About[c].token, key |-> call[c].key, under |-> call[c].under] IN
    /\ At(c, "insert")
    /\ \/ /\ tokens' = IF \E i \in DOMAIN tokens : tokens[i].name = t.name THEN tokens
                       ELSE Append(tokens, t)
          /\ UNCHANGED budgets
       \/ Fault /\ UNCHANGED tokens
    /\ End(c)
    /\ UNCHANGED <<world, keys, lock, lost, cache, flight>>

(* The key of the token's row is looked up whatever its status; what is    *)
(* decrypted changes nothing.                                              *)
DetokenizeFields(c) ==
    /\ At(c, "idle") /\ Kind(c) = "detokenize"
    /\ \E i \in DOMAIN tokens :
          /\ tokens[i].name = About[c].token
          /\ Become(c, Resolved(c, tokens[i].key, [call[c] EXCEPT !.step = "decrypt"]))
    /\ UNCHANGED <<world, database, lock, lost, cache, flight, budgets>>

Decrypt(c) ==
    /\ At(c, "decrypt") /\ End(c)
    /\ UNCHANGED <<world, database, lock, lost, cache, flight, budgets>>

-----------------------------------------------------------------------------
(* Rotation.                                                               *)

(* A worker looks at the key's age before it asks for a rotation.          *)
AutoRotateKeys(c) ==
    /\ At(c, "idle") /\ Kind(c) = "auto" /\ keys # <<>>
    /\ Become(c, Resolved(c, Active, [call[c] EXCEPT !.step = "age"]))
    /\ UNCHANGED <<world, database, lock, lost, cache, flight, budgets>>

PastThreshold(c) ==
    /\ At(c, "age")
    /\ IF keys[call[c].key].stale THEN Goto(c, "rotate") ELSE End(c)
    /\ UNCHANGED <<world, database, lock, lost, cache, flight, budgets>>

(* Requests for a rotation of one replica share one.                       *)
RotateKey(c) ==
    /\ At(c, "rotate") \/ (At(c, "idle") /\ Kind(c) = "rotate")
    /\ \/ Joins(c, "rotate")
       \/ Leads(c, "rotate") /\ Goto(c, "transaction")
    /\ UNCHANGED <<world, database, lock, lost, cache, budgets>>

(* A fault: the age that was read before the lock counts.                  *)
StaleWhenRead == keys # <<>>

StillStale == keys # <<>> /\ keys[Active].stale

(* A fault: the old key is not retired.                                    *)
rotateKeyTxKeeps(c) ==
    Append(keys, [status |-> "ACTIVE", stale |-> FALSE,
                  by |-> IF Kind(c) = "tokenize" THEN "bootstrap" ELSE Kind(c)])

(* The retiring of the old key and the new one's row.                      *)
rotateKeyTx(c) ==
    Append([k \in DOMAIN keys |->
               IF keys[k].status = "ACTIVE" THEN [keys[k] EXCEPT !.status = "RETIRING"]
               ELSE keys[k]],
           [status |-> "ACTIVE", stale |-> FALSE,
            by |-> IF Kind(c) = "tokenize" THEN "bootstrap" ELSE Kind(c)])

(* The advisory lock may be taken by a migration, or by another replica's  *)
(* transaction at that moment.                                             *)
Contended(c) ==
    \/ lock # None
    \/ \E d \in Calls \ {c} : call[d].step = "transaction"

Rotated(c, ok) ==
    Return(c, "rotate",
           [d \in Calls |-> [call[d] EXCEPT !.step = "rotated", !.res = ok, !.waits = None]])

(* The transaction, behind the lock: an automatic rotation looks at the    *)
(* key's age once more.                                                    *)
RotateKeyIfStale(c) ==
    /\ At(c, "transaction")
    /\ \/ Contended(c) /\ Rotated(c, FALSE) /\ UNCHANGED <<keys, budgets>>
       \/ Fault /\ Rotated(c, FALSE) /\ UNCHANGED keys
       \/ /\ lock = None /\ Len(keys) < MaxKeys
          /\ IF Kind(c) = "auto" /\ ~StillStale
             THEN Rotated(c, FALSE) /\ UNCHANGED keys
             ELSE Rotated(c, TRUE) /\ keys' = rotateKeyTx(c)
          /\ UNCHANGED budgets
    /\ UNCHANGED <<world, tokens, lock, lost, cache>>

AfterRotation(c) ==
    /\ At(c, "rotated")
    /\ \/ Kind(c) = "tokenize" /\ Goto(c, "inited")
       \/ Kind(c) = "rotate" /\ End(c)
       \/ Kind(c) = "auto" /\ IF call[c].res THEN Goto(c, "migrate") ELSE End(c)
    /\ UNCHANGED <<world, database, lock, lost, cache, flight, budgets>>

-----------------------------------------------------------------------------
(* Migration.                                                              *)

MigrateKeys(c) ==
    /\ At(c, "migrate") \/ (At(c, "idle") /\ Kind(c) = "migrate")
    /\ \/ Joins(c, "migrate")
       \/ Leads(c, "migrate") /\ Goto(c, "lock")
    /\ UNCHANGED <<world, database, lock, lost, cache, budgets>>

Migrated(c) == Return(c, "migrate", [d \in Calls |-> Ended(d)])

(* A fault: nobody looks whether the lock was had.                         *)
AcquireAnyway(c) ==
    /\ At(c, "lock")
    /\ lock' = c /\ Goto(c, "retiring")
    /\ UNCHANGED <<world, database, lost, cache, flight, budgets>>

TryAcquireTenantRotationLock(c) ==
    /\ At(c, "lock")
    /\ \/ lock = None /\ lock' = c /\ Goto(c, "retiring") /\ UNCHANGED flight
       \/ Contended(c) /\ Migrated(c) /\ UNCHANGED lock
    /\ UNCHANGED <<world, database, lost, cache, budgets>>

releaseRotationLock(c) ==
    /\ At(c, "release")
    /\ lock' = IF lock = c THEN None ELSE lock
    /\ Migrated(c)
    /\ UNCHANGED <<world, database, lost, cache, budgets>>

(* Any RETIRING key.                                                       *)
GetRetiringKey(c) ==
    /\ At(c, "retiring")
    /\ IF WithStatus("RETIRING") = {} THEN Goto(c, "release")
       ELSE \E k \in WithStatus("RETIRING") :
               Become(c, Resolved(c, k, [call[c] EXCEPT !.step = "active"]))
    /\ UNCHANGED <<world, database, lock, lost, cache, flight, budgets>>

GetNewKey(c) ==
    /\ At(c, "active")
    /\ Become(c, Resolved(c, Active, [call[c] EXCEPT !.step = "list", !.old = call[c].key,
                                                     !.oldBuffer = call[c].buffer]))
    /\ UNCHANGED <<world, database, lock, lost, cache, flight, budgets>>

(* A fault: a key without tokens is left as it is.                         *)
ReleaseWhenEmpty(c) ==
    LET rows == {[id |-> i, row |-> tokens[i]] : i \in {j \in DOMAIN tokens : tokens[j].key = call[c].old}} IN
    /\ At(c, "list")
    /\ Become(c, [call[c] EXCEPT !.step = IF rows = {} THEN "release" ELSE "reencrypt",
                                 !.batch = rows])
    /\ UNCHANGED <<world, database, lock, lost, cache, flight, budgets>>

(* The rows of the old key, until there are none.                          *)
GetTokensByKey(c) ==
    LET rows == {[id |-> i, row |-> tokens[i]] : i \in {j \in DOMAIN tokens : tokens[j].key = call[c].old}} IN
    /\ At(c, "list")
    /\ Become(c, [call[c] EXCEPT !.step = IF rows = {} THEN "count" ELSE "reencrypt",
                                 !.batch = rows])
    /\ UNCHANGED <<world, database, lock, lost, cache, flight, budgets>>

(* They are handled oldest first.                                          *)
Oldest(rows) == CHOOSE t \in rows : \A u \in rows : t.id <= u.id

(* The old bytes decrypt what they encrypted; an error ends the sweep.     *)
Reencrypt(c) ==
    LET x == call[c] IN
    /\ At(c, "reencrypt")
    /\ IF Bytes(c, x.old, x.oldBuffer) = Oldest(x.batch).row.under
       THEN Become(c, [x EXCEPT !.step = "update", !.under = Bytes(c, x.key, x.buffer)])
       ELSE Goto(c, "release")
    /\ UNCHANGED <<world, database, lock, lost, cache, flight, budgets>>

UpdateTokenKey(c) ==
    LET x == call[c]
        t == Oldest(x.batch)
        rest == x.batch \ {t}
    IN
    /\ At(c, "update")
    /\ tokens' = [tokens EXCEPT ![t.id] = [@ EXCEPT !.key = x.key, !.under = x.under]]
    /\ Become(c, [x EXCEPT !.batch = rest, !.under = 0,
                           !.step = IF rest = {} THEN "list" ELSE "reencrypt"])
    /\ UNCHANGED <<world, keys, lock, lost, cache, flight, budgets>>

CountTokensByKey(c) ==
    /\ At(c, "count")
    /\ Goto(c, IF \E i \in DOMAIN tokens : tokens[i].key = call[c].old THEN "release" ELSE "retire")
    /\ UNCHANGED <<world, database, lock, lost, cache, flight, budgets>>

MarkKeyRetired(c) ==
    /\ At(c, "retire")
    /\ keys' = [keys EXCEPT ![call[c].old].status = "RETIRED"]
    /\ Goto(c, "release")
    /\ UNCHANGED <<world, tokens, lock, lost, cache, flight, budgets>>

StatementFails(c) ==
    /\ call[c].step \in {"retiring", "active", "list", "update", "count", "retire"} /\ ~call[c].miss
    /\ Fault /\ Goto(c, "release")
    /\ UNCHANGED <<world, database, lock, lost, cache, flight>>

-----------------------------------------------------------------------------
(* Time and failures.                                                      *)

(* Ten months pass.                                                        *)
Age ==
    /\ ages < world.ages /\ ages' = ages + 1
    /\ keys # <<>> /\ ~keys[Active].stale
    /\ keys' = [keys EXCEPT ![Active].stale = TRUE]
    /\ UNCHANGED <<world, tokens, lock, lost, cache, flight, call, expiries, faults>>

(* Five minutes pass.                                                      *)
Expire ==
    /\ expiries < world.expiries /\ expiries' = expiries + 1
    /\ \E r \in Replicas, k \in DOMAIN keys :
          cache[r][k].live /\ cache' = [cache EXCEPT ![r][k].live = FALSE]
    /\ UNCHANGED <<world, database, lock, lost, flight, call, ages, faults>>

(* The connection that holds the lock breaks; its migration goes on.       *)
LoseLock ==
    /\ lock # None /\ lock' = None /\ lost' = TRUE /\ Fault
    /\ UNCHANGED <<world, database, cache, flight, call>>

Crash(r) ==
    /\ Fault
    /\ call' = [c \in Calls |-> IF c \in world.calls /\ Replica(c) = r /\ call[c] # Idle
                                THEN Ended(c)
                                ELSE call[c]]
    /\ flight' = [flight EXCEPT ![r] = [g \in Groups |-> None]]
    /\ cache' = [cache EXCEPT ![r] = [k \in 1..MaxKeys |-> [buffer |-> 0, live |-> FALSE]]]
    /\ lock' = IF lock # None /\ Replica(lock) = r THEN None ELSE lock
    /\ UNCHANGED <<world, database, lost>>

-----------------------------------------------------------------------------
Step(c) ==
    \/ Unwrap(c) \/ EnsureInitialKey(c) \/ InitialKeyEnsured(c) \/ GetActiveKey(c) \/ Encrypt(c)
    \/ Insert(c) \/ DetokenizeFields(c) \/ Decrypt(c)
    \/ AutoRotateKeys(c) \/ PastThreshold(c) \/ RotateKey(c) \/ RotateKeyIfStale(c) \/ AfterRotation(c)
    \/ MigrateKeys(c) \/ TryAcquireTenantRotationLock(c) \/ releaseRotationLock(c)
    \/ GetRetiringKey(c) \/ GetNewKey(c) \/ GetTokensByKey(c) \/ Reencrypt(c) \/ UpdateTokenKey(c)
    \/ CountTokensByKey(c) \/ MarkKeyRetired(c)

Next ==
    \/ \E c \in Calls : Step(c) \/ StatementFails(c)
    \/ Age \/ Expire \/ LoseLock
    \/ \E r \in Replicas : Crash(r)

(* Calls run, and the migration worker's ticker fires again and again.     *)
Fairness == \A c \in Calls : WF_vars(Step(c))

Spec == Init /\ [][Next]_vars /\ Fairness

-----------------------------------------------------------------------------
(* The newest key of a tenant, and no other, is ACTIVE, whichever workers  *)
(* retire keys meanwhile; a token's bytes were written by the key it       *)
(* names, or by an overwritten buffer; the session that holds the lock is  *)
(* migrating (rotateKeyTx, MarkKeyRetired, Insert, UpdateTokenKey,         *)
(* releaseRotationLock), through failures and crashes.                     *)
KeyLifecycle ==
    /\ keys # <<>> => WithStatus("ACTIVE") = {Len(keys)}
    /\ \A i \in DOMAIN tokens : /\ tokens[i].key \in DOMAIN keys
                               /\ tokens[i].under \in {0, tokens[i].key}
    /\ lock # None => flight[Replica(lock)]["migrate"] = lock

(* An automatic rotation replaces a key that is too old: replicas that see *)
(* one old key rotate it once (RotateKeyIfStale).                          *)
OneEffectiveRotation ==
    \A k \in DOMAIN keys : keys[k].by = "auto" => k > 1 /\ keys[k - 1].stale

(* A token only moves to a newer key, whatever rotations and migrations    *)
(* run on other replicas, unless a session has lost its lock               *)
(* (TryAcquireTenantRotationLock, UpdateTokenKey).                         *)
TokensMoveForward ==
    [][~lost => \A i \in DOMAIN tokens : tokens'[i].key >= tokens[i].key]_vars

Readable == \A i \in DOMAIN tokens : tokens[i].under = tokens[i].key

(* Every RETIRING key is retired in the end, through failed statements,    *)
(* lost locks and crashes, unless a token can no longer be decrypted       *)
(* (MigrateKeys and its worker).                                           *)
RetiringEnds == <>[](WithStatus("RETIRING") = {}) \/ <>~Readable
=============================================================================
