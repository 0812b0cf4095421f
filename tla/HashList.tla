------------------------------ MODULE HashList ------------------------------
(***************************************************************************)
(* ccache_list.c: the doubly linked list of one hashitem, in a build with  *)
(* CCACHE_USE_LIST.  New nodes go to the front, and a node that is found   *)
(* changes places with the one before it.  A store that evicts an item of  *)
(* the same bucket has two steps, as in RBTree: ccache_list_erase, called  *)
(* by ccache_allocate, and then ccache_list_init_node.                     *)
(***************************************************************************)
EXTENDS Integers, Sequences, FiniteSets

CONSTANTS
  Node,   \* the nodes of the cache
  Key,    \* the keys of the bucket
  NULL

ASSUME HashListAssumption == NULL \notin Node /\ NULL \notin Key

VARIABLES
  list,     \* hashitem->first and the fields next and prev of the nodes
  key,      \* the key of a node of this bucket, NULL for any other node
  nodenum,  \* hashitem->nodenum
  pending,  \* a store that has evicted: its node, operation and key
  ret       \* what the last function told its caller

vars == <<list, key, nodenum, pending, ret>>

NoStore == [node |-> NULL, op |-> "none", key |-> NULL]

Reply(op, k, found, seen) == [op |-> op, key |-> k, found |-> found, seen |-> seen]

-----------------------------------------------------------------------------
(* Assignments through a pointer, guarded by "if (x)".                     *)
SetNext(L, x, y) == IF x = NULL THEN L ELSE [L EXCEPT !.next[x] = y]
SetPrev(L, x, y) == IF x = NULL THEN L ELSE [L EXCEPT !.prev[x] = y]

(* The nodes in the order of the list.                                     *)
Chain(L) ==
  LET from[n \in Node] == <<n>> \o (IF L.next[n] = NULL THEN <<>> ELSE from[L.next[n]])
  IN  IF L.first = NULL THEN <<>> ELSE from[L.first]

(* ccache_list_find_auxiliary: the first node of the list with the key.    *)
Found(k) ==
  LET from[n \in Node] == IF key[n] = k THEN n
                          ELSE IF list.next[n] = NULL THEN NULL ELSE from[list.next[n]]
  IN  IF list.first = NULL THEN NULL ELSE from[list.first]

(* Mutant of Advanced: the node before the two keeps its next pointer.     *)
AdvancedForgets(n) ==
  LET prev     == list.prev[n]
      next     == list.next[n]
      prevprev == IF prev = NULL THEN NULL ELSE list.prev[prev]
      L1       == SetPrev(SetNext(list, prev, next), prev, n)
      L2       == SetPrev(L1, next, prev)
      L3       == SetPrev(SetNext(L2, n, prev), n, prevprev)
  IN  IF n = list.first THEN list
      ELSE IF prev = list.first THEN [L3 EXCEPT !.first = n] ELSE L3

(* ccache_list_advance: n moves up by one.                                 *)
Advanced(n) ==
  LET prev     == list.prev[n]
      next     == list.next[n]
      prevprev == IF prev = NULL THEN NULL ELSE list.prev[prev]
      L1       == SetPrev(SetNext(list, prev, next), prev, n)
      L2       == SetPrev(L1, next, prev)
      L3       == SetNext(SetPrev(SetNext(L2, n, prev), n, prevprev), prevprev, n)
  IN  IF n = list.first THEN list
      ELSE IF prev = list.first THEN [L3 EXCEPT !.first = n] ELSE L3

-----------------------------------------------------------------------------

Init ==
  /\ list = [first |-> NULL, next |-> [n \in Node |-> NULL], prev |-> [n \in Node |-> NULL]]
  /\ key = [n \in Node |-> NULL]
  /\ nodenum = 0
  /\ pending = NoStore
  /\ ret = Reply("open", NULL, FALSE, <<>>)

Idle == pending = NoStore

(* Mutants of Link: the node is not counted; the old first node does not   *)
(* point back to it.                                                       *)
LinkUncounted(op, k, n) ==
  /\ key' = [key EXCEPT ![n] = k]
  /\ list' = [SetPrev(SetNext(SetPrev(list, list.first, n), n, list.first), n, NULL)
                EXCEPT !.first = n]
  /\ ret' = Reply(op, k, FALSE, <<>>)
  /\ UNCHANGED nodenum

LinkOneWay(op, k, n) ==
  /\ key' = [key EXCEPT ![n] = k]
  /\ nodenum' = nodenum + 1
  /\ list' = [SetPrev(SetNext(list, n, list.first), n, NULL) EXCEPT !.first = n]
  /\ ret' = Reply(op, k, FALSE, <<>>)

(* ccache_list_init_node: n becomes the first node.                        *)
Link(op, k, n) ==
  /\ key' = [key EXCEPT ![n] = k]
  /\ nodenum' = nodenum + 1
  /\ list' = [SetPrev(SetNext(SetPrev(list, list.first, n), n, list.first), n, NULL)
                EXCEPT !.first = n]
  /\ ret' = Reply(op, k, FALSE, <<>>)

(* Mutant of Unlink: the list may go on starting with the erased node.     *)
UnlinkKeepsFirst(n) ==
  LET prev == list.prev[n]
      next == list.next[n]
      L    == SetPrev(SetNext(list, prev, next), next, prev)
  IN  /\ list' = [L EXCEPT !.prev[n] = NULL, !.next[n] = NULL,
                           !.first = IF n = L.first /\ next # NULL THEN next ELSE L.first]
      /\ key' = [key EXCEPT ![n] = NULL]
      /\ nodenum' = nodenum - 1
      /\ ret' = Reply("erase", key[n], TRUE, <<>>)

(* ccache_list_erase                                                       *)
Unlink(n) ==
  LET prev == list.prev[n]
      next == list.next[n]
      L    == SetPrev(SetNext(list, prev, next), next, prev)
  IN  /\ list' = [L EXCEPT !.prev[n] = NULL, !.next[n] = NULL,
                           !.first = IF n = L.first THEN next ELSE L.first]
      /\ key' = [key EXCEPT ![n] = NULL]
      /\ nodenum' = nodenum - 1
      /\ ret' = Reply("erase", key[n], TRUE, <<>>)

(* erase, for ccache_erase or for an allocation for another bucket.  (That *)
(* ccache_erase has found the node just before is a Hit of its own.)       *)
Erase == Idle /\ (\E n \in Node : key[n] # NULL /\ Unlink(n)) /\ UNCHANGED pending

(* insert or set gets a node that holds no item of this bucket.            *)
StoreOther(op, k) ==
  /\ Idle /\ Found(k) = NULL
  /\ \E n \in Node : key[n] = NULL /\ Link(op, k, n)
  /\ UNCHANGED pending

(* insert or set gets a node of this very bucket: its item goes first.     *)
StoreEvicting(op, k) ==
  /\ Idle /\ Found(k) = NULL
  /\ \E n \in Node :
       /\ key[n] # NULL
       /\ Unlink(n)
       /\ pending' = [node |-> n, op |-> op, key |-> k]

LinkPending ==
  /\ ~Idle
  /\ Link(pending.op, pending.key, pending.node)
  /\ pending' = NoStore

StoreFailed(k) ==
  /\ Idle /\ Found(k) = NULL
  /\ ret' = Reply("fail", k, FALSE, <<>>)
  /\ UNCHANGED <<list, key, nodenum, pending>>

(* find, update and set move the node they find up; insert does not.       *)
Hit(op, k) ==
  /\ Idle /\ Found(k) # NULL
  /\ list' = IF op = "insert" THEN list ELSE Advanced(Found(k))
  /\ ret' = Reply(op, k, TRUE, <<>>)
  /\ UNCHANGED <<key, nodenum, pending>>

Miss(op, k) ==
  /\ Idle /\ Found(k) = NULL
  /\ op \in {"find", "update"}
  /\ ret' = Reply(op, k, FALSE, <<>>)
  /\ UNCHANGED <<list, key, nodenum, pending>>

(* ccache_list_visit                                                       *)
Visit ==
  LET nodes == Chain(list) IN
  /\ Idle
  /\ ret' = Reply("visit", NULL, FALSE, [i \in DOMAIN nodes |-> key[nodes[i]]])
  /\ UNCHANGED <<list, key, nodenum, pending>>

Next ==
  \/ \E k \in Key :
       \/ \E op \in {"find", "update", "insert", "set"} : Hit(op, k) \/ Miss(op, k)
       \/ \E op \in {"insert", "set"} : StoreOther(op, k) \/ StoreEvicting(op, k)
       \/ StoreFailed(k)
  \/ Erase
  \/ LinkPending
  \/ Visit

Spec == Init /\ [][Next]_vars

-----------------------------------------------------------------------------

Present == {n \in Node : key[n] # NULL}

(* Type invariant.                                                         *)
TypeOK ==
  /\ list \in [first : Node \cup {NULL}, next : [Node -> Node \cup {NULL}],
               prev : [Node -> Node \cup {NULL}]]
  /\ key \in [Node -> Key \cup {NULL}]
  /\ nodenum \in Nat
  /\ pending.node \in Node \cup {NULL}

(* next and prev are inverse to each other, the list starts at first, and  *)
(* the nodes that are not in it have no pointers into it: an eviction or   *)
(* an erase unlinks a node without walking the list.  nodenum counts.      *)
Linked ==
  /\ nodenum = Cardinality(Present)
  /\ list.first # NULL => list.first \in Present /\ list.prev[list.first] = NULL
  /\ Present # {} => list.first # NULL
  /\ \A n \in Present :
       /\ list.prev[n] = NULL <=> n = list.first
       /\ list.next[n] # NULL => list.next[n] \in Present /\ list.prev[list.next[n]] = n
       /\ list.prev[n] # NULL => list.prev[n] \in Present /\ list.next[list.prev[n]] = n
  /\ \A n \in Node \ Present : list.next[n] = NULL /\ list.prev[n] = NULL

(* Finding a key changes the order of at most two nodes: the one found and *)
(* the one that was before it.                                             *)
HitMovesUpByOne ==
  [][ret'.found /\ ret'.op \in {"find", "update", "set"} =>
       LET now  == Chain(list)
           then == Chain(list')
           i    == CHOOSE i \in DOMAIN now : key[now[i]] = ret'.key
       IN  then = [j \in DOMAIN now |->
                     CASE i > 1 /\ j = i - 1 -> now[i]
                       [] i > 1 /\ j = i -> now[i - 1]
                       [] OTHER -> now[j]]]_vars

(* The list does what ccache.c expects of a bucket.                        *)
AsBucket == INSTANCE Bucket WITH
              keys <- LET nodes == Chain(list) IN {key[nodes[i]] : i \in DOMAIN nodes},
              reply <- ret
BucketSpec == AsBucket!Spec
=============================================================================
