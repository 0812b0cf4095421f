------------------------------- MODULE Bucket -------------------------------
(***************************************************************************)
(* What the functions of ccache_functor_t promise to ccache.c about one    *)
(* hashitem: a set of keys.  Cache is written with this set in place of a  *)
(* list or a tree; HashList and RBTree implement it.                       *)
(***************************************************************************)
EXTENDS Sequences, FiniteSets

CONSTANTS
  Key,      \* the keys that hash to this bucket
  NULL      \* no key

VARIABLES
  keys,     \* the keys stored in the bucket
  reply     \* what the last function told its caller

Reply(op, k, found, seen) == [op |-> op, key |-> k, found |-> found, seen |-> seen]

Init ==
  /\ keys = {}
  /\ reply = Reply("open", NULL, FALSE, <<>>)

(* find, update, and the other two on a key that exists: the node is       *)
(* returned exactly if the key is stored, and the keys stay.               *)
Lookup(op, k) ==
  /\ reply' = Reply(op, k, k \in keys, <<>>)
  /\ k \notin keys => op \in {"find", "update"}
  /\ UNCHANGED keys

(* insert and set: the key is added.                                       *)
Store(op, k) ==
  /\ reply' = Reply(op, k, FALSE, <<>>)
  /\ k \notin keys
  /\ keys' = keys \cup {k}

(* insert and set when ccache_allocate fails.                              *)
Refuse(k) ==
  /\ reply' = Reply("fail", k, FALSE, <<>>)
  /\ k \notin keys
  /\ UNCHANGED keys

(* erase, on behalf of ccache_erase or of ccache_allocate, which makes     *)
(* room for an item of this bucket or of another one.                      *)
Erase(k) ==
  /\ reply' = Reply("erase", k, TRUE, <<>>)
  /\ k \in keys
  /\ keys' = keys \ {k}

(* visit: every key is shown once.                                         *)
Visit ==
  /\ reply'.op = "visit" /\ reply'.key = NULL /\ reply'.found = FALSE
  /\ Len(reply'.seen) = Cardinality(keys)
  /\ {reply'.seen[i] : i \in DOMAIN reply'.seen} = keys
  /\ UNCHANGED keys

Next ==
  \/ \E k \in Key :
       \/ \E op \in {"find", "update", "insert", "set"} : Lookup(op, k)
       \/ \E op \in {"insert", "set"} : Store(op, k)
       \/ Refuse(k) \/ Erase(k)
  \/ Visit

Spec == Init /\ [][Next]_<<keys, reply>>
=============================================================================
