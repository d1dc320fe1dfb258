-------------------------------- MODULE Etcd --------------------------------
(***************************************************************************)
(* The part of etcd that the code under internal/ relies on.  etcd itself  *)
(* is a dependency (go.mod), so every definition here is external: it is   *)
(* modelled from how internal/queue, internal/cluster, internal/scheduler  *)
(* and internal/jobs use the client.                                       *)
(*                                                                         *)
(* A key prefix is a function from the keys that exist under it to their   *)
(* values, so "Version(k) = 0" is k \notin DOMAIN kv.  A transaction is    *)
(* one atomic step of the module that issues it.                           *)
(***************************************************************************)

\* kv is a prefix with keys in K and values in V.
IsKeySpace(kv, K, V) == DOMAIN kv \subseteq K /\ kv \in [DOMAIN kv -> V]

\* A prefix under which there is no key.
NoKeys == [k \in {} |-> {}]

\* OpPut
Put(kv, k, v) == [x \in DOMAIN kv \cup {k} |-> IF x = k THEN v ELSE kv[x]]

\* OpDelete of every key in ks that exists
Delete(kv, ks) == [x \in DOMAIN kv \ ks |-> kv[x]]

(***************************************************************************)
(* Keys put WithLease carry the node that put them and the number of the   *)
(* node's session (its epoch) whose lease they ride.  Epoch 0 is           *)
(* clientv3.NoLease: such a key is never removed by etcd.                  *)
(***************************************************************************)
\* What is left of a prefix when the lease of node n's session e is gone.
Unlease(kv, n, e) ==
    Delete(kv, {k \in DOMAIN kv : kv[k].node = n /\ kv[k].epoch = e})
=============================================================================
