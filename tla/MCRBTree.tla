------------------------------ MODULE MCRBTree ------------------------------
(***************************************************************************)
(* Small instances of RBTree for TLC.                                      *)
(***************************************************************************)
EXTENDS RBTree

(* Nodes are alike, so a state is known by its keys: a node stands for its *)
(* key, and a node that holds none for any other such node.  The reply is  *)
(* left out: no step reads it, BucketSpec speaks of the one a step gives,  *)
(* and a step that gives none leaves it as it is.                          *)
Name(n) == IF n = NULL THEN NULL ELSE key[n]

ByShape ==
  <<{<<key[n], Name(tree.parent[n]), Name(tree.kid["left"][n]),
       Name(tree.kid["right"][n]), tree.color[n]>> : n \in Present},
    Name(tree.root), nodenum, phase, Name(at), Name(par), old = NULL,
    IF old = NULL THEN <<>>
    ELSE <<Name(tree.parent[old]), Name(tree.kid["left"][old]),
           Name(tree.kid["right"][old])>>,
    pending.op, pending.key, Name(pending.parent)>>
=============================================================================
