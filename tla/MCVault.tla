------------------------------ MODULE MCVault ------------------------------
(***************************************************************************)
(* Small instances of Vault: two replicas, requests and workers.           *)
(***************************************************************************)
EXTENDS Vault

MCAbout ==
    [t1 |-> [kind |-> "tokenize", replica |-> "r1", token |-> 11],
     t2 |-> [kind |-> "tokenize", replica |-> "r1", token |-> 12],
     t3 |-> [kind |-> "tokenize", replica |-> "r2", token |-> 11],
     d1 |-> [kind |-> "detokenize", replica |-> "r1", token |-> 1],
     d2 |-> [kind |-> "detokenize", replica |-> "r1", token |-> 1],
     a1 |-> [kind |-> "auto", replica |-> "r1", token |-> None],
     a2 |-> [kind |-> "auto", replica |-> "r2", token |-> None],
     k1 |-> [kind |-> "rotate", replica |-> "r1", token |-> None],
     k2 |-> [kind |-> "rotate", replica |-> "r2", token |-> None],
     m1 |-> [kind |-> "migrate", replica |-> "r1", token |-> None],
     m2 |-> [kind |-> "migrate", replica |-> "r2", token |-> None]]

World(calls, held, aging, expiring, failing) ==
    [calls |-> calls, held |-> held, ages |-> aging, expiries |-> expiring, faults |-> failing]

(* A new tenant's first tokens on two replicas; a key that gets old, seen  *)
(* by both; a rotation during a tokenization; two rotations and two        *)
(* migrations; requests that share the cache when an entry expires.        *)
MCWorlds ==
    { World({"t1", "t3", "m1"}, None, 0, 0, 1),
      World({"t1", "t2", "m2"}, None, 0, 0, 1),
      World({"a1", "a2", "m1"}, 1, 1, 0, 1),
      World({"t1", "k1", "m2"}, 1, 0, 1, 1),
      World({"k1", "k2", "m1", "m2"}, 2, 0, 0, 1),
      World({"t1", "d1", "d2", "m2"}, 1, 0, 1, 0),
      World({"k2", "d1", "d2", "m1"}, 2, 0, 1, 0) }
=============================================================================
