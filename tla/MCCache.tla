------------------------------ MODULE MCCache ------------------------------
(***************************************************************************)
(* Small instances of Cache for TLC.                                       *)
(***************************************************************************)
EXTENDS Cache, TLC

CONSTANTS
  k1, k2, k3,   \* keys: k1 and k2 share a bucket
  s1, s2, m, x  \* data: two small ones, one of the next size, one too long

MCKeys    == {k1, k2, k3}
MCHash    == [k \in Key |-> IF k = k3 THEN 1 ELSE 0]
MCKeyLen  == [k \in Key |-> 1]
MCDataLen == [d \in Data |-> CASE d \in {s1, s2} -> 1 [] d = m -> 2 [] d = x -> 4]

(* An update function that keeps the old datum s1 when s2 would replace it. *)
MCMerge   == [p \in Data \X Data |-> IF p = <<s1, s2>> THEN s1 ELSE p[2]]

(* Nodes are alike, and so are the two keys of the same bucket.            *)
MCSymmetry == Permutations(Node) \cup Permutations({k1, k2})

(* No call reads the reply or the error number of the one before it, and   *)
(* of the properties only EraseMakesRoom does, for an erase.               *)
WithoutReply ==
  <<carved, node, freesize, bucket, nodenum, lru,
    IF ret.op = "erase" /\ ret.rc = 0 THEN ret.node ELSE NULL>>
=============================================================================
