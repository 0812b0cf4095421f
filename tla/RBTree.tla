------------------------------- MODULE RBTree -------------------------------
(***************************************************************************)
(* ccache_rbtree.c: the red-black tree of one hashitem, in the default     *)
(* build.  Every round of the two rebalancing loops is a step of its own,  *)
(* and so are the two halves of a store that has to evict an item of the   *)
(* same bucket: ccache_allocate calls ccache_rbtree_erase between the      *)
(* search for the new node's parent and the linking of the node.           *)
(*                                                                         *)
(* The left-hand and right-hand halves of the C functions are mirror       *)
(* images; here they are one definition with a direction d.                *)
(***************************************************************************)
EXTENDS Integers, Sequences, FiniteSets

CONSTANTS
  Node,   \* the nodes of the cache
  Key,    \* the keys of the bucket, numbered in the order of cache_compare
  NULL

ASSUME RBTreeAssumption ==
  /\ Key \subseteq Int
  /\ NULL \notin Node /\ NULL \notin Key

VARIABLES
  tree,     \* hashitem->root and the fields parent, left, right, color
  key,      \* the key of a node of this bucket, NULL for any other node
  nodenum,  \* hashitem->nodenum
  phase,    \* "idle", in a rebalancing loop ("inserting", "erasing"), after
            \* the erase loop ("erased"), or before the linking ("linking")
  at,       \* the local variable node of the rebalancing loops
  par,      \* the local variable parent of ccache_rbtree_erase_rebalance
  old,      \* the node ccache_rbtree_erase is called with
  pending,  \* the store that waits for the erase: operation, key, parent
  ret       \* what the last function told its caller

vars  == <<tree, key, nodenum, phase, at, par, old, pending, ret>>
local == <<at, par, old, pending>>

NoStore == [op |-> "none", key |-> NULL, parent |-> NULL]

Reply(op, k, found, seen) == [op |-> op, key |-> k, found |-> found, seen |-> seen]

-----------------------------------------------------------------------------
(* Reading and writing the tree T.                                         *)

Side == {"left", "right"}
Other(d) == IF d = "left" THEN "right" ELSE "left"

Red(T, n) == n # NULL /\ T.color[n] = "red"

Painted(T, n, c)     == IF n = NULL THEN T ELSE [T EXCEPT !.color[n] = c]
WithParent(T, n, p)  == IF n = NULL THEN T ELSE [T EXCEPT !.parent[n] = p]
WithKid(T, n, d, x)  == [T EXCEPT !.kid[d][n] = x]

(* Where the parent p, or the root, pointed to n it now points to x.       *)
Replaced(T, p, n, x) ==
  IF p = NULL THEN [T EXCEPT !.root = x]
  ELSE WithKid(T, p, IF T.kid["left"][p] = n THEN "left" ELSE "right", x)

(* Mutant of Rotated: the subtree that changes sides keeps its parent.     *)
RotatedNoParent(T, n, d) ==
  LET c  == T.kid[Other(d)][n]
      T1 == WithKid(WithKid(T, n, Other(d), T.kid[d][c]), c, d, n)
      p  == T.parent[n]
  IN  WithParent(Replaced(WithParent(T1, c, p), p, n, c), n, c)

(* ccache_rbtree_rotate_left and _right: the kid of n on the other side    *)
(* takes the place of n, and n becomes its kid on side d.                  *)
Rotated(T, n, d) ==
  LET c  == T.kid[Other(d)][n]
      m  == T.kid[d][c]
      T1 == WithKid(WithParent(WithKid(T, n, Other(d), m), m, n), c, d, n)
      p  == T1.parent[n]
  IN  WithParent(Replaced(WithParent(T1, c, p), p, n, c), n, c)

(* ccache_rbtree_find_auxiliary: the node with key k, or NULL, and the     *)
(* last node on the way to it.                                             *)
Search(T, k) ==
  LET down[n \in Node] ==
        LET next == T.kid[IF key[n] > k THEN "left" ELSE "right"][n]
        IN  IF key[n] = k THEN [node |-> n, parent |-> n]
            ELSE IF next = NULL THEN [node |-> NULL, parent |-> n]
            ELSE down[next]
  IN  IF T.root = NULL THEN [node |-> NULL, parent |-> NULL] ELSE down[T.root]

(* ccache_rbtree_visit_auxiliary: the nodes from left to right.            *)
InOrder(T) ==
  LET kid(n, d) == T.kid[d][n]
      walk[n \in Node] ==
        (IF kid(n, "left") = NULL THEN <<>> ELSE walk[kid(n, "left")])
        \o <<n>> \o
        (IF kid(n, "right") = NULL THEN <<>> ELSE walk[kid(n, "right")])
  IN  IF T.root = NULL THEN <<>> ELSE walk[T.root]

-----------------------------------------------------------------------------

Init ==
  /\ tree = [root |-> NULL, kid |-> [d \in Side |-> [n \in Node |-> NULL]],
             parent |-> [n \in Node |-> NULL], color |-> [n \in Node |-> "red"]]
  /\ key = [n \in Node |-> NULL]
  /\ nodenum = 0
  /\ phase = "idle"
  /\ at = NULL /\ par = NULL /\ old = NULL /\ pending = NoStore
  /\ ret = Reply("open", NULL, FALSE, <<>>)

(* ccache_rbtree_init and ccache_rbtree_insert_auxiliary up to the loop:   *)
(* the red node n is linked below p.                                       *)
Link(op, k, n, p) ==
  LET leaf == [tree EXCEPT !.parent[n] = p, !.color[n] = "red",
                           !.kid["left"][n] = NULL, !.kid["right"][n] = NULL]
  IN  /\ key' = [key EXCEPT ![n] = k]
      /\ tree' = IF p = NULL THEN [leaf EXCEPT !.root = n]
                 ELSE WithKid(leaf, p, IF key'[p] > k THEN "left" ELSE "right", n)
      /\ phase' = "inserting"
      /\ at' = n
      /\ par' = NULL /\ old' = NULL /\ pending' = NoStore
      /\ ret' = Reply(op, k, FALSE, <<>>)
      /\ UNCHANGED nodenum

(* insert or set gets a node that holds no item of this bucket.            *)
StoreOther(op, k) ==
  LET found == Search(tree, k) IN
  /\ phase = "idle"
  /\ found.node = NULL
  /\ \E n \in Node : key[n] = NULL /\ Link(op, k, n, found.parent)

StoreFailed(k) ==
  /\ phase = "idle"
  /\ Search(tree, k).node = NULL
  /\ ret' = Reply("fail", k, FALSE, <<>>)
  /\ UNCHANGED <<tree, key, nodenum, phase, local>>

(* The first node in order of the right subtree of n.                      *)
Successor(T, n) ==
  LET leftmost[x \in Node] == IF T.kid["left"][x] = NULL THEN x
                              ELSE leftmost[T.kid["left"][x]]
  IN  leftmost[T.kid["right"][n]]

(* The first part of ccache_rbtree_erase, for a node with two kids: its    *)
(* successor s takes over its place and color.  The result holds the new   *)
(* tree, the locals child and parent, and the color that was taken out.    *)
UnlinkInner(n) ==
  LET s     == Successor(tree, n)
      child == tree.kid["right"][s]
      p     == tree.parent[s]
      T1    == Replaced(WithParent(tree, child, p), p, s, child)
      T2    == [T1 EXCEPT !.parent[s] = T1.parent[n], !.color[s] = T1.color[n],
                          !.kid["right"][s] = T1.kid["right"][n],
                          !.kid["left"][s] = T1.kid["left"][n]]
      T3    == Replaced(T2, T2.parent[n], n, s)
      T4    == WithParent(T3, T3.kid["left"][n], s)
  IN  [tree  |-> WithParent(T4, T4.kid["right"][n], s),
       child |-> child, parent |-> IF p = n THEN s ELSE p, color |-> tree.color[s]]

(* The same for a node with at most one kid, which takes its place.        *)
UnlinkOuter(n) ==
  LET child == tree.kid[IF tree.kid["left"][n] = NULL THEN "right" ELSE "left"][n]
      p     == tree.parent[n]
  IN  [tree  |-> Replaced(WithParent(tree, child, p), p, n, child),
       child |-> child, parent |-> p, color |-> tree.color[n]]

Unlinked(n) ==
  IF \A d \in Side : tree.kid[d][n] # NULL THEN UnlinkInner(n) ELSE UnlinkOuter(n)

Unlink(n) ==
  LET u == Unlinked(n) IN
  /\ tree' = u.tree
  /\ at' = u.child /\ par' = u.parent /\ old' = n
  /\ phase' = IF u.color = "black" THEN "erasing" ELSE "erased"
  /\ key' = [key EXCEPT ![n] = NULL]
  /\ ret' = Reply("erase", key[n], TRUE, <<>>)
  /\ UNCHANGED nodenum

(* erase, for ccache_erase or for an allocation for another bucket.        *)
Erase ==
  /\ phase = "idle"
  /\ \E n \in Node : key[n] # NULL /\ Unlink(n)
  /\ UNCHANGED pending

(* insert or set gets a node of this very bucket: its item goes first.     *)
StoreEvicting(op, k) ==
  LET found == Search(tree, k) IN
  /\ phase = "idle"
  /\ found.node = NULL
  /\ \E n \in Node : key[n] # NULL /\ Unlink(n)
  /\ pending' = [op |-> op, key |-> k, parent |-> found.parent]

(* Mutant of LinkPending: the parent found before the erase is used.       *)
LinkPendingStale ==
  /\ phase = "linking"
  /\ Link(pending.op, pending.key, old, pending.parent)

(* "if the allocated node is in the same hash table, then the rbtree may   *)
(* changed, we should find its parent again"                               *)
LinkPending ==
  /\ phase = "linking"
  /\ Link(pending.op, pending.key, old, Search(tree, pending.key).parent)

-----------------------------------------------------------------------------
(* The loop of ccache_rbtree_insert_rebalance.                             *)

Parent      == tree.parent[at]
GrandParent == tree.parent[Parent]
InsertSide  == IF tree.kid["left"][GrandParent] = Parent THEN "left" ELSE "right"
Uncle       == tree.kid[Other(InsertSide)][GrandParent]

(* The parent is red and so is the uncle: the grandparent is next.         *)
RecolorUncle ==
  /\ phase = "inserting"
  /\ Red(tree, Parent) /\ Red(tree, Uncle)
  /\ tree' = [tree EXCEPT !.color[Uncle] = "black", !.color[Parent] = "black",
                          !.color[GrandParent] = "red"]
  /\ at' = GrandParent
  /\ UNCHANGED <<key, nodenum, phase, par, old, pending, ret>>

(* The parent is red and the uncle is not: the upper one of node and       *)
(* parent becomes the root of the grandparent's subtree.                   *)
RotateGrandParent ==
  LET d     == InsertSide
      inner == tree.kid[Other(d)][Parent] = at
      upper == IF inner THEN at ELSE Parent
      T     == IF inner THEN Rotated(tree, Parent, d) ELSE tree
  IN  /\ phase = "inserting"
      /\ Red(tree, Parent) /\ ~Red(tree, Uncle)
      /\ tree' = Rotated([T EXCEPT !.color[upper] = "black", !.color[GrandParent] = "red"],
                         GrandParent, Other(d))
      /\ at' = IF inner THEN Parent ELSE at
      /\ UNCHANGED <<key, nodenum, phase, par, old, pending, ret>>

(* Mutants of InsertDone: the root may stay red; the node is not counted.  *)
InsertDoneRedRoot ==
  /\ phase = "inserting"
  /\ ~Red(tree, Parent)
  /\ nodenum' = nodenum + 1
  /\ phase' = "idle"
  /\ at' = NULL
  /\ UNCHANGED <<tree, key, par, old, pending, ret>>

InsertDoneUncounted ==
  /\ phase = "inserting"
  /\ ~Red(tree, Parent)
  /\ tree' = [tree EXCEPT !.color[tree.root] = "black"]
  /\ phase' = "idle"
  /\ at' = NULL
  /\ UNCHANGED <<key, nodenum, par, old, pending, ret>>

(* The loop ends, and the root is black.                                   *)
InsertDone ==
  /\ phase = "inserting"
  /\ ~Red(tree, Parent)
  /\ tree' = [tree EXCEPT !.color[tree.root] = "black"]
  /\ nodenum' = nodenum + 1
  /\ phase' = "idle"
  /\ at' = NULL
  /\ UNCHANGED <<key, par, old, pending, ret>>

-----------------------------------------------------------------------------
(* The loop of ccache_rbtree_erase_rebalance.                              *)

Unbalanced == ~Red(tree, at) /\ at # tree.root
EraseSide  == IF tree.kid["left"][par] = at THEN "left" ELSE "right"
Sibling    == tree.kid[Other(EraseSide)][par]

(* A red sibling is first rotated above the parent.                        *)
WithBlackSibling ==
  IF Red(tree, Sibling)
  THEN Rotated([tree EXCEPT !.color[Sibling] = "black", !.color[par] = "red"],
               par, EraseSide)
  ELSE tree

NoRedKid(T, n) == \A d \in Side : ~Red(T, T.kid[d][n])

(* Mutant of PushUp: one round is taken to be enough.                      *)
PushUpOnce ==
  LET d     == EraseSide
      T     == WithBlackSibling
      other == T.kid[Other(d)][par]
  IN  /\ phase = "erasing" /\ Unbalanced
      /\ NoRedKid(T, other)
      /\ tree' = Painted(Painted(T, other, "red"), par, "black")
      /\ phase' = "erased"
      /\ at' = par
      /\ UNCHANGED <<key, nodenum, par, old, pending, ret>>

(* Mutant of PushUp: the local variable parent does not climb with node.   *)
PushUpSameParent ==
  LET d     == EraseSide
      T     == WithBlackSibling
      other == T.kid[Other(d)][par]
  IN  /\ phase = "erasing" /\ Unbalanced
      /\ NoRedKid(T, other)
      /\ tree' = Painted(T, other, "red")
      /\ at' = par
      /\ UNCHANGED <<key, nodenum, phase, par, old, pending, ret>>

(* The sibling has no red kid: it turns red, and the parent is next.       *)
PushUp ==
  LET d     == EraseSide
      T     == WithBlackSibling
      other == T.kid[Other(d)][par]
  IN  /\ phase = "erasing" /\ Unbalanced
      /\ NoRedKid(T, other)
      /\ tree' = Painted(T, other, "red")
      /\ at' = par
      /\ par' = T.parent[par]
      /\ UNCHANGED <<key, nodenum, phase, old, pending, ret>>

(* It has one: rotations and new colors repair the tree, the loop breaks.  *)
Settle ==
  LET d     == EraseSide
      T     == WithBlackSibling
      near  == T.kid[Other(d)][par]
      outer == Red(T, T.kid[Other(d)][near])
      T1    == IF outer THEN T
               ELSE Rotated(Painted(Painted(T, T.kid[d][near], "black"), near, "red"),
                            near, Other(d))
      other == T1.kid[Other(d)][par]
      T2    == Painted(Painted(T1, other, T1.color[par]), par, "black")
      T3    == Rotated(Painted(T2, T2.kid[Other(d)][other], "black"), par, d)
  IN  /\ phase = "erasing" /\ Unbalanced
      /\ ~NoRedKid(T, near)
      /\ tree' = T3
      /\ at' = T3.root
      /\ UNCHANGED <<key, nodenum, phase, par, old, pending, ret>>

(* The loop ends: the node it ends at turns black.                         *)
EraseBalanced ==
  /\ phase = "erasing" /\ ~Unbalanced
  /\ tree' = Painted(tree, at, "black")
  /\ phase' = "erased"
  /\ UNCHANGED <<key, nodenum, local, ret>>

(* Mutant of EraseDone: an evicted node is not taken off the count.        *)
EraseDoneUncounted ==
  /\ phase = "erased"
  /\ tree' = [tree EXCEPT !.parent[old] = NULL,
                          !.kid["left"][old] = NULL, !.kid["right"][old] = NULL]
  /\ at' = NULL /\ par' = NULL
  /\ IF pending = NoStore
     THEN phase' = "idle" /\ old' = NULL /\ nodenum' = nodenum - 1
     ELSE phase' = "linking" /\ old' = old /\ nodenum' = nodenum
  /\ UNCHANGED <<key, pending, ret>>

(* The last lines of ccache_rbtree_erase.                                  *)
EraseDone ==
  /\ phase = "erased"
  /\ tree' = [tree EXCEPT !.parent[old] = NULL,
                          !.kid["left"][old] = NULL, !.kid["right"][old] = NULL]
  /\ nodenum' = nodenum - 1
  /\ at' = NULL /\ par' = NULL
  /\ IF pending = NoStore
     THEN phase' = "idle" /\ old' = NULL
     ELSE phase' = "linking" /\ old' = old
  /\ UNCHANGED <<key, pending, ret>>

-----------------------------------------------------------------------------

(* find and update, and insert and set on a key that exists.               *)
Lookup(op, k) ==
  LET found == Search(tree, k).node # NULL IN
  /\ phase = "idle"
  /\ found \/ op \in {"find", "update"}
  /\ ret' = Reply(op, k, found, <<>>)
  /\ UNCHANGED <<tree, key, nodenum, phase, local>>

Visit ==
  /\ phase = "idle"
  /\ ret' = Reply("visit", NULL, FALSE,
                  [i \in DOMAIN InOrder(tree) |-> key[InOrder(tree)[i]]])
  /\ UNCHANGED <<tree, key, nodenum, phase, local>>

Rebalance ==
  \/ RecolorUncle \/ RotateGrandParent \/ InsertDone
  \/ PushUp \/ Settle \/ EraseBalanced \/ EraseDone
  \/ LinkPending

Next ==
  \/ \E k \in Key :
       \/ \E op \in {"find", "update", "insert", "set"} : Lookup(op, k)
       \/ \E op \in {"insert", "set"} : StoreOther(op, k) \/ StoreEvicting(op, k)
       \/ StoreFailed(k)
  \/ Erase
  \/ Visit
  \/ Rebalance

Spec == Init /\ [][Next]_vars

-----------------------------------------------------------------------------

Present == {n \in Node : key[n] # NULL}

(* Type invariant.                                                         *)
TypeOK ==
  /\ tree \in [root : Node \cup {NULL}, kid : [Side -> [Node -> Node \cup {NULL}]],
               parent : [Node -> Node \cup {NULL}], color : [Node -> {"red", "black"}]]
  /\ key \in [Node -> Key \cup {NULL}]
  /\ nodenum \in Nat
  /\ phase \in {"idle", "inserting", "erasing", "erased", "linking"}
  /\ {at, par, old} \subseteq Node \cup {NULL}

(* The pointers describe one tree at every step of every rotation: a kid's *)
(* parent pointer leads back to the node, the root has no parent, and no   *)
(* node is the kid of two.                                                 *)
PointersAgree ==
  /\ tree.root # NULL => tree.parent[tree.root] = NULL
  /\ \A n \in Present :
       /\ tree.parent[n] = NULL <=> tree.root = n
       /\ \A d \in Side : tree.kid[d][n] # NULL => tree.parent[tree.kid[d][n]] = n
       /\ \A d, e \in Side : tree.kid[d][n] = tree.kid[e][n] => d = e \/ tree.kid[d][n] = NULL
  /\ \A n \in Node \ Present :
       phase # "idle" \/ \A d \in Side : tree.kid[d][n] = NULL /\ tree.parent[n] = NULL

(* Between two calls the tree is red-black: black root, no red node with a *)
(* red parent, and as many black nodes on every way down: so a lookup      *)
(* takes logarithmic time after any sequence of stores and erases.         *)
Balanced ==
  LET T == tree
      \* black nodes on the way from n down, or -1 if ways differ
      height[n \in Node \cup {NULL}] ==
        IF n = NULL THEN 0
        ELSE LET l == height[T.kid["left"][n]]
                 r == height[T.kid["right"][n]]
             IN  IF l = -1 \/ l # r THEN -1
                 ELSE IF Red(T, n) THEN l ELSE l + 1
  IN  phase = "idle" =>
        /\ ~Red(T, T.root)
        /\ height[T.root] # -1
        /\ \A n \in Present : ~(Red(T, n) /\ Red(T, T.parent[n]))

(* Between two calls nodenum is the number of nodes in the tree.           *)
NodeNumCounts == phase = "idle" => nodenum = Len(InOrder(tree))

(* The erase loop reads the color of the sibling and of its kids without   *)
(* asking whether there is one: there always is.                           *)
SiblingExists ==
  phase = "erasing" /\ Unbalanced => par # NULL /\ Sibling # NULL

(* Every round of a rebalancing loop leaves fewer rounds to come, so that  *)
(* the loops end: a call has the lock of the whole cache while they run.   *)
(* What bounds the rounds is the depth of the node the next one is about.  *)
Depth(n) ==
  LET up[m \in Node] == IF tree.parent[m] = NULL THEN 1 ELSE 1 + up[tree.parent[m]]
  IN  IF n = NULL THEN 0 ELSE up[n]

RoundsLeft ==
  CASE phase = "inserting" /\ Red(tree, Parent) -> Depth(at)
    [] phase = "erasing" /\ Unbalanced          -> 1 + Depth(par)
    [] OTHER                                    -> 0

RoundsDescend ==
  [][phase' = phase /\ phase \in {"inserting", "erasing"}
       => RoundsLeft' < RoundsLeft]_vars

StoredKeys == {key[n] : n \in Present}

(* The tree does what ccache.c expects of a bucket: it finds exactly the   *)
(* keys that were stored and neither erased nor evicted since.             *)
AsBucket == INSTANCE Bucket WITH keys <- StoredKeys, reply <- ret
BucketSpec == AsBucket!Spec
=============================================================================
