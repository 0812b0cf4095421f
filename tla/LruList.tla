------------------------------ MODULE LruList ------------------------------
(***************************************************************************)
(* The pointer surgery of ccache_lrulist.c.  A freearea owns a list of     *)
(* nodes, lrufirst .. lrulast, linked by lrunext and lruprev; the node at  *)
(* lrulast is the next one ccache_allocate takes back.                     *)
(*                                                                         *)
(* The operators map one value of all these pointers to the next: a record *)
(* with the fields first and last, indexed by freearea, and next and prev, *)
(* indexed by node.  They make the assignments of the C functions in their *)
(* order, because in a damaged list two of the pointers involved may be    *)
(* the same node, and then the order decides the result.                   *)
(***************************************************************************)
CONSTANTS
  NULL    \* the null pointer

(* An assignment through a pointer, guarded by "if (NULL != x)".           *)
SetNext(L, x, y) == IF x = NULL THEN L ELSE [L EXCEPT !.next[x] = y]
SetPrev(L, x, y) == IF x = NULL THEN L ELSE [L EXCEPT !.prev[x] = y]

(* if (test) freearea->lrufirst = y; and the same for lrulast.             *)
SetFirstIf(test, L, a, y) == IF test THEN [L EXCEPT !.first[a] = y] ELSE L
SetLastIf(test, L, a, y)  == IF test THEN [L EXCEPT !.last[a] = y] ELSE L

(***************************************************************************)
(* The three cases of ccache_lrulist_advance: the list has neither end; n  *)
(* is linked to no node; n changes places with the node before it.         *)
(***************************************************************************)
StartList(L, a, n) == [L EXCEPT !.first[a] = n, !.last[a] = n]

AppendToList(L, a, n) == [L EXCEPT !.prev[n] = L.last[a], !.last[a] = n]

SwapWithPrev(L, a, n) ==
  LET prev     == L.prev[n]
      next     == L.next[n]
      L1       == SetNext(L, prev, next)
      prevprev == IF prev = NULL THEN NULL ELSE L1.prev[prev]
      L2       == SetPrev(L1, prev, n)
      L3       == SetPrev(L2, next, prev)
      L4       == SetPrev(SetNext(L3, n, prev), n, prevprev)
      L5       == SetNext(L4, prevprev, n)
      L6       == SetLastIf(n = L5.last[a], L5, a, prev)
  IN  SetFirstIf(prev = L6.first[a], L6, a, n)

(* Mutant of LruAdvance: the node at lrufirst is not left alone.           *)
LruAdvanceFirst(L, a, n) ==
  IF L.first[a] = NULL /\ L.last[a] = NULL THEN StartList(L, a, n)
  ELSE IF L.prev[n] = NULL /\ L.next[n] = NULL THEN AppendToList(L, a, n)
  ELSE SwapWithPrev(L, a, n)

(* ccache_lrulist_advance: called on every node that was found or stored.  *)
LruAdvance(L, a, n) ==
  IF L.first[a] = NULL /\ L.last[a] = NULL THEN StartList(L, a, n)
  ELSE IF L.first[a] = n THEN L
  ELSE IF L.prev[n] = NULL /\ L.next[n] = NULL THEN AppendToList(L, a, n)
  ELSE SwapWithPrev(L, a, n)

(* ccache_lrulist_free: take n, the node to be used again, off the list.   *)
LruFree(L, a, n) ==
  LET next == L.next[n]
      prev == L.prev[n]
      L1   == SetNext(SetPrev(L, next, prev), prev, next)
      L2   == SetFirstIf(n = L1.first[a], L1, a, next)
  IN  SetLastIf(n = L2.last[a], L2, a, prev)

(* ccache_lrulist_return: put the erased node n last, to be used first.    *)
LruReturn(L, a, n) ==
  IF n = L.last[a] THEN L
  ELSE LET L1 == SetPrev(SetNext(L, L.last[a], n), n, L.last[a])
       IN  [SetNext(L1, n, NULL) EXCEPT !.last[a] = n]

(* node->lrunext = node->lruprev = NULL when a node gets an item           *)
(* (ccache_list_init_node, ccache_rbtree_init).                            *)
LruDetach(L, n) == SetPrev(SetNext(L, n, NULL), n, NULL)
=============================================================================
