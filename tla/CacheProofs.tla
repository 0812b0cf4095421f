---------------------------- MODULE CacheProofs ----------------------------
(***************************************************************************)
(* Theorems about Cache, for every configuration, every set of keys and    *)
(* data and any number of nodes.                                           *)
(***************************************************************************)
EXTENDS Cache, SizeClassProofs, FiniteSetTheorems

(***************************************************************************)
(* Part 1: the LRU list operators never lead out of a freearea.            *)
(*                                                                         *)
(* C is the set of carved nodes and f gives each of them its freearea.     *)
(* Closed is LruStaysInArea with these as parameters, so that the lemmas   *)
(* speak of every intermediate value of the pointers.  Nothing is said of  *)
(* the shape of a list: the lemmas hold of damaged lists too.              *)
(***************************************************************************)
InList(C, f, a) == {n \in C : f[n] = a} \cup {NULL}

Closed(L, C, f) ==
  /\ L \in Pointers
  /\ \A a \in Area : L.first[a] \in InList(C, f, a) /\ L.last[a] \in InList(C, f, a)
  /\ \A n \in C :
       L.next[n] \in InList(C, f, f[n]) /\ L.prev[n] \in InList(C, f, f[n])

(* An assignment to lrunext or lruprev within one freearea.                *)
LEMMA SetClosed ==
  ASSUME NEW C \in SUBSET Node, NEW f, NEW L, Closed(L, C, f), NEW a \in Area,
         NEW x \in InList(C, f, a), NEW y \in InList(C, f, a)
  PROVE  Closed(SetNext(L, x, y), C, f) /\ Closed(SetPrev(L, x, y), C, f)
PROOF
<1>1. CASE x = NULL
  BY <1>1 DEF SetNext, SetPrev
<1>2. CASE x # NULL
  <2>1. x \in C /\ x \in Node /\ f[x] = a /\ y \in Node \cup {NULL}
    BY <1>2 DEF InList
  <2>2. L \in Pointers
    BY DEF Closed
  <2>3. SetNext(L, x, y) \in Pointers /\ SetPrev(L, x, y) \in Pointers
    BY <1>2, <2>1, <2>2 DEF SetNext, SetPrev, Pointers
  <2>4. /\ SetNext(L, x, y).first = L.first /\ SetNext(L, x, y).last = L.last
        /\ SetNext(L, x, y).prev = L.prev
        /\ SetNext(L, x, y).next = [L.next EXCEPT ![x] = y]
    BY <1>2, <2>2 DEF SetNext, Pointers
  <2>5. /\ SetPrev(L, x, y).first = L.first /\ SetPrev(L, x, y).last = L.last
        /\ SetPrev(L, x, y).next = L.next
        /\ SetPrev(L, x, y).prev = [L.prev EXCEPT ![x] = y]
    BY <1>2, <2>2 DEF SetPrev, Pointers
  <2>6. L.next \in [Node -> Node \cup {NULL}] /\ L.prev \in [Node -> Node \cup {NULL}]
    BY <2>2 DEF Pointers
  <2>7. \A n \in C :
          /\ [L.next EXCEPT ![x] = y][n] \in InList(C, f, f[n])
          /\ [L.prev EXCEPT ![x] = y][n] \in InList(C, f, f[n])
    BY <2>1, <2>6 DEF Closed
  <2> QED BY <2>3, <2>4, <2>5, <2>7 DEF Closed
<1> QED BY <1>1, <1>2

(* A conditional assignment to lrufirst or lrulast.                        *)
LEMMA SetEndClosed ==
  ASSUME NEW C \in SUBSET Node, NEW f, NEW L, Closed(L, C, f), NEW a \in Area,
         NEW y \in InList(C, f, a), NEW test
  PROVE  Closed(SetFirstIf(test, L, a, y), C, f) /\ Closed(SetLastIf(test, L, a, y), C, f)
PROOF
<1> DEFINE F == [L EXCEPT !.first[a] = y]
           G == [L EXCEPT !.last[a] = y]
<1>1. L \in Pointers /\ y \in Node \cup {NULL}
  BY DEF Closed, InList
<1>2. /\ F.first = [L.first EXCEPT ![a] = y] /\ F.last = L.last
      /\ F.next = L.next /\ F.prev = L.prev
      /\ G.last = [L.last EXCEPT ![a] = y] /\ G.first = L.first
      /\ G.next = L.next /\ G.prev = L.prev
      /\ F \in Pointers /\ G \in Pointers
  BY <1>1 DEF Pointers
<1>3. L.first \in [Area -> Node \cup {NULL}] /\ L.last \in [Area -> Node \cup {NULL}]
  BY <1>1 DEF Pointers
<1>4. \A b \in Area : /\ [L.first EXCEPT ![a] = y][b] \in InList(C, f, b)
                      /\ [L.last EXCEPT ![a] = y][b] \in InList(C, f, b)
  BY <1>3 DEF Closed
<1>5. Closed(F, C, f)
  BY <1>2, <1>4 DEF Closed
<1>6. Closed(G, C, f)
  BY <1>2, <1>4 DEF Closed
<1> QED BY <1>5, <1>6 DEF SetFirstIf, SetLastIf

(* What is read through a pointer of a freearea stays in it.               *)
LEMMA ReadClosed ==
  ASSUME NEW C \in SUBSET Node, NEW f, NEW L, Closed(L, C, f), NEW a \in Area
  PROVE  /\ L.first[a] \in InList(C, f, a)
         /\ L.last[a] \in InList(C, f, a)
         /\ NULL \in InList(C, f, a)
         /\ \A n \in InList(C, f, a) :
              n # NULL => L.next[n] \in InList(C, f, a) /\ L.prev[n] \in InList(C, f, a)
BY DEF Closed, InList

(* The three cases of ccache_lrulist_advance.                              *)
LEMMA SwapWithPrevClosed ==
  ASSUME NEW C \in SUBSET Node, NEW f, NEW L, Closed(L, C, f), NEW a \in Area,
         NEW n \in InList(C, f, a), n # NULL
  PROVE  Closed(SwapWithPrev(L, a, n), C, f)
PROOF
<1> DEFINE prev     == L.prev[n]
           next     == L.next[n]
           L1       == SetNext(L, prev, next)
           prevprev == IF prev = NULL THEN NULL ELSE L1.prev[prev]
           L2       == SetPrev(L1, prev, n)
           L3       == SetPrev(L2, next, prev)
           L4a      == SetNext(L3, n, prev)
           L4       == SetPrev(L4a, n, prevprev)
           L5       == SetNext(L4, prevprev, n)
           L6       == SetLastIf(n = L5.last[a], L5, a, prev)
<1>1. prev \in InList(C, f, a) /\ next \in InList(C, f, a)
  BY ReadClosed
<1> HIDE DEF prev, next
<1>2. Closed(L1, C, f)
  BY <1>1, SetClosed
<1> HIDE DEF L1
<1>3. prevprev \in InList(C, f, a)
  BY <1>1, <1>2, ReadClosed
<1> HIDE DEF prevprev
<1>4. Closed(L2, C, f)
  BY <1>1, <1>2, SetClosed
<1> HIDE DEF L2
<1>5. Closed(L3, C, f)
  BY <1>1, <1>4, SetClosed
<1> HIDE DEF L3
<1>6. Closed(L4a, C, f)
  BY <1>1, <1>5, SetClosed
<1> HIDE DEF L4a
<1>7. Closed(L4, C, f)
  BY <1>3, <1>6, SetClosed
<1> HIDE DEF L4
<1>8. Closed(L5, C, f)
  BY <1>3, <1>7, SetClosed
<1> HIDE DEF L5
<1>9. Closed(L6, C, f)
  BY <1>1, <1>8, SetEndClosed
<1> HIDE DEF L6
<1>10. Closed(SetFirstIf(prev = L6.first[a], L6, a, n), C, f)
  BY <1>9, SetEndClosed
<1>11. SwapWithPrev(L, a, n) = SetFirstIf(prev = L6.first[a], L6, a, n)
  BY DEF SwapWithPrev, prev, next, L1, prevprev, L2, L3, L4a, L4, L5, L6
<1> QED BY <1>10, <1>11

(* ccache_lrulist_advance                                                  *)
LEMMA LruAdvanceClosed ==
  ASSUME NEW C \in SUBSET Node, NEW f, NEW L, Closed(L, C, f), NEW a \in Area,
         NEW n \in InList(C, f, a), n # NULL
  PROVE  Closed(LruAdvance(L, a, n), C, f)
PROOF
<1>1. Closed(StartList(L, a, n), C, f)
  <2>1. Closed(SetFirstIf(TRUE, L, a, n), C, f)
    BY SetEndClosed
  <2>2. Closed(SetLastIf(TRUE, SetFirstIf(TRUE, L, a, n), a, n), C, f)
    BY <2>1, SetEndClosed
  <2> QED BY <2>2 DEF StartList, SetFirstIf, SetLastIf
<1>2. Closed(AppendToList(L, a, n), C, f)
  <2>1. Closed(SetPrev(L, n, L.last[a]), C, f)
    BY ReadClosed, SetClosed
  <2>2. Closed(SetLastIf(TRUE, SetPrev(L, n, L.last[a]), a, n), C, f)
    BY <2>1, SetEndClosed
  <2> QED BY <2>2 DEF AppendToList, SetPrev, SetLastIf
<1>3. Closed(SwapWithPrev(L, a, n), C, f)
  BY SwapWithPrevClosed
<1> QED BY <1>1, <1>2, <1>3 DEF LruAdvance

(* ccache_lrulist_free                                                     *)
LEMMA LruFreeClosed ==
  ASSUME NEW C \in SUBSET Node, NEW f, NEW L, Closed(L, C, f), NEW a \in Area,
         NEW n \in InList(C, f, a), n # NULL
  PROVE  Closed(LruFree(L, a, n), C, f)
PROOF
<1> DEFINE next == L.next[n]
           prev == L.prev[n]
           L0   == SetPrev(L, next, prev)
           L1   == SetNext(L0, prev, next)
           L2   == SetFirstIf(n = L1.first[a], L1, a, next)
<1>1. prev \in InList(C, f, a) /\ next \in InList(C, f, a)
  BY ReadClosed
<1> HIDE DEF prev, next
<1>2. Closed(L0, C, f)
  BY <1>1, SetClosed
<1> HIDE DEF L0
<1>3. Closed(L1, C, f)
  BY <1>1, <1>2, SetClosed
<1> HIDE DEF L1
<1>4. Closed(L2, C, f)
  BY <1>1, <1>3, SetEndClosed
<1> HIDE DEF L2
<1>5. Closed(SetLastIf(n = L2.last[a], L2, a, prev), C, f)
  BY <1>1, <1>4, SetEndClosed
<1> QED BY <1>5 DEF LruFree, prev, next, L0, L1, L2

(* ccache_lrulist_return                                                   *)
LEMMA LruReturnClosed ==
  ASSUME NEW C \in SUBSET Node, NEW f, NEW L, Closed(L, C, f), NEW a \in Area,
         NEW n \in InList(C, f, a), n # NULL
  PROVE  Closed(LruReturn(L, a, n), C, f)
PROOF
<1> DEFINE last == L.last[a]
           L0   == SetNext(L, last, n)
           L1   == SetPrev(L0, n, last)
           L2   == SetNext(L1, n, NULL)
<1>1. last \in InList(C, f, a) /\ NULL \in InList(C, f, a)
  BY ReadClosed
<1> HIDE DEF last
<1>2. Closed(L0, C, f)
  BY <1>1, SetClosed
<1> HIDE DEF L0
<1>3. Closed(L1, C, f)
  BY <1>1, <1>2, SetClosed
<1> HIDE DEF L1
<1>4. Closed(L2, C, f)
  BY <1>1, <1>3, SetClosed
<1> HIDE DEF L2
<1>5. Closed(SetLastIf(TRUE, L2, a, n), C, f)
  BY <1>4, SetEndClosed
<1> QED BY <1>5 DEF LruReturn, SetLastIf, last, L0, L1, L2

(* A node that gets an item is detached first; a node that has just been   *)
(* carved joins the nodes of its freearea.                                 *)
LEMMA LruDetachClosed ==
  ASSUME NEW C \in SUBSET Node, NEW f, NEW L, Closed(L, C, f), NEW a \in Area,
         NEW n \in InList(C, f, a), n # NULL
  PROVE  Closed(LruDetach(L, n), C, f)
PROOF
<1>1. Closed(SetNext(L, n, NULL), C, f)
  BY ReadClosed, SetClosed
<1>2. Closed(SetPrev(SetNext(L, n, NULL), n, NULL), C, f)
  BY <1>1, ReadClosed, SetClosed
<1> QED BY <1>2 DEF LruDetach

(* A freshly carved node, linked to nothing, joins its freearea.           *)
LEMMA LruCarveClosed ==
  ASSUME NEW C \in SUBSET Node, NEW f, NEW g, NEW L, Closed(L, C, f), NEW a \in Area,
         NEW n \in Node \ C, g[n] = a, \A x \in C : g[x] = f[x]
  PROVE  Closed(LruDetach(L, n), C \cup {n}, g)
PROOF
<1>1. n # NULL /\ L \in Pointers
  BY CacheAssumption DEF Closed
<1>2. \A b \in Area : InList(C, f, b) \subseteq InList(C \cup {n}, g, b)
  BY DEF InList
<1>2a. \A x \in C : InList(C, f, f[x]) \subseteq InList(C \cup {n}, g, g[x])
  BY DEF InList
<1> DEFINE D == LruDetach(L, n)
<1>3. /\ D.first = L.first /\ D.last = L.last
      /\ D.next = [L.next EXCEPT ![n] = NULL]
      /\ D.prev = [L.prev EXCEPT ![n] = NULL]
      /\ D \in Pointers
  BY <1>1 DEF LruDetach, SetNext, SetPrev, Pointers
<1>4. L.next \in [Node -> Node \cup {NULL}] /\ L.prev \in [Node -> Node \cup {NULL}]
  BY <1>1 DEF Pointers
<1> HIDE DEF D
<1>5. \A b \in Area : /\ D.first[b] \in InList(C \cup {n}, g, b)
                      /\ D.last[b] \in InList(C \cup {n}, g, b)
  BY <1>2, <1>3 DEF Closed
<1>6. D.next[n] = NULL /\ D.prev[n] = NULL
  BY <1>3, <1>4
<1>7. \A x \in C : D.next[x] = L.next[x] /\ D.prev[x] = L.prev[x]
  BY <1>3, <1>4
<1>8. \A x \in C \cup {n} : /\ D.next[x] \in InList(C \cup {n}, g, g[x])
                            /\ D.prev[x] \in InList(C \cup {n}, g, g[x])
  BY <1>2a, <1>6, <1>7 DEF Closed, InList
<1> QED BY <1>3, <1>5, <1>8 DEF Closed, D

(***************************************************************************)
(* Part 2: the inductive invariant.                                        *)
(*                                                                         *)
(* The safety properties of Cache hold one another up: a node taken from   *)
(* lrulast is as large as its freearea only because lists stay in their    *)
(* freearea, a key is not stored twice only because buckets hold every     *)
(* item, and the buckets are maintained by the hashindex of the nodes.     *)
(***************************************************************************)

(* A node with an item has a key and data.                                 *)
ItemsTyped == \A n \in carved : Live(n) => node[n].key \in Key /\ node[n].data \in Data

IInv ==
  /\ TypeOK
  /\ BucketsConsistent
  /\ LruStaysInArea
  /\ ItemFitsNode
  /\ ItemsTyped

(* node[n].freeareaid, as a function.                                      *)
AreaOf == [n \in Node |-> node[n].freeareaid]

(* LruStaysInArea is the closure property of the operators' lemmas ...     *)
LEMMA LruIsClosed ==
  ASSUME TypeOK, LruStaysInArea
  PROVE  Closed(lru, carved, AreaOf)
BY DEF TypeOK, LruStaysInArea, Closed, InList, NodesOf, AreaOf

(* ... and is what these lemmas give back.                                 *)
LEMMA ClosedIsLru ==
  ASSUME carved' \subseteq Node, Closed(lru', carved', AreaOf')
  PROVE  LruStaysInArea'
PROOF
<1>1. \A x \in carved' : AreaOf'[x] = node'[x].freeareaid
  BY DEF AreaOf
<1>2. \A b : InList(carved', AreaOf', b)
               = {y \in carved' : node'[y].freeareaid = b} \cup {NULL}
  BY <1>1 DEF InList
<1>3. \A b \in Area : {lru'.first[b], lru'.last[b]}
                      \subseteq {y \in carved' : node'[y].freeareaid = b} \cup {NULL}
  BY <1>2 DEF Closed
<1>4. \A x \in carved' :
        {lru'.next[x], lru'.prev[x]}
          \subseteq {y \in carved' : node'[y].freeareaid = node'[x].freeareaid} \cup {NULL}
  BY <1>1, <1>2 DEF Closed
<1> QED BY <1>3, <1>4 DEF LruStaysInArea, NodesOf

(* The size class of a storable item is large enough for it.               *)
LEMMA AreaForFits ==
  ASSUME NEW k \in Key, NEW d \in Data, AreaFor(k, d) # NoArea
  PROVE  /\ AreaFor(k, d) \in Area
         /\ NodeSize(KeyLen[k], DataLen[d]) <= AreaSize(AreaFor(k, d))
PROOF
<1>1. NodeSize(KeyLen[k], DataLen[d]) \in Int
  BY SizeClassAssumption, CacheAssumption DEF NodeSize
<1>2. AlignSize \in 1 .. AlignSize
  BY SizeClassAssumption
<1> QED BY <1>1, <1>2, FreeareaFits DEF AreaFor, FreeareaId

(* A node that holds the key is a carved node with that item.              *)
LEMMA FoundFacts ==
  ASSUME IInv, NEW k \in Key, NEW n \in Found(k)
  PROVE  /\ n \in carved /\ n \in Node /\ n # NULL
         /\ n \in bucket[Hash[k]] /\ Hash[k] \in HashItem
         /\ node[n].hashindex = Hash[k] /\ Live(n)
         /\ node[n].key = k /\ node[n].data \in Data
         /\ node[n].freeareaid \in Area
         /\ n \in InList(carved, AreaOf, node[n].freeareaid)
PROOF
<1>1. Hash[k] \in HashItem /\ Hash[k] # InvalidHash
  BY CacheAssumption DEF HashItem, InvalidHash
<1>2. n \in bucket[Hash[k]] /\ node[n].key = k
  BY DEF Found
<1>3. n \in carved /\ node[n].hashindex = Hash[k]
  BY <1>1, <1>2 DEF IInv, BucketsConsistent
<1>4. n \in Node /\ n # NULL
  BY <1>3, CacheAssumption DEF IInv, TypeOK
<1>5. Live(n)
  BY <1>1, <1>3 DEF Live
<1>6. node[n].data \in Data /\ node[n].freeareaid \in Area
  BY <1>3, <1>5 DEF IInv, ItemsTyped, ItemFitsNode
<1>7. n \in InList(carved, AreaOf, node[n].freeareaid)
  BY <1>3, <1>4 DEF InList, AreaOf
<1> QED BY <1>1, <1>2, <1>3, <1>4, <1>5, <1>6, <1>7

(***************************************************************************)
(* The common part of StoreFresh and StoreReused: node n, which is not in  *)
(* B any more, gets the item.                                              *)
(***************************************************************************)
StoreContext(n, a, k, d, L, B, N) ==
  /\ k \in Key /\ d \in Data /\ Found(k) = {}
  /\ a \in Area /\ NodeSize(KeyLen[k], DataLen[d]) <= AreaSize(a)
  /\ n \in Node /\ carved' = carved \cup {n} /\ freesize' \in Nat
  /\ Closed(LruDetach(L, n), carved', [AreaOf EXCEPT ![n] = a])
  /\ B \in [HashItem -> SUBSET Node] /\ N \in [HashItem -> Int]
  /\ \A h \in HashItem :
       /\ B[h] = {x \in carved \ {n} : node[x].hashindex = h}
       /\ N[h] = Cardinality(B[h])
  /\ ret'.rc \in {0, -1} /\ ret'.node \in Node \cup {NULL}
  /\ StoreIn(n, a, k, d, L, B, N)

(* What StoreIn needs of the allocation to restore the invariant.         *)
LEMMA StoreInPreserves ==
  ASSUME IInv, NEW n, NEW a, NEW k, NEW d, NEW L, NEW B, NEW N,
         StoreContext(n, a, k, d, L, B, N)
  PROVE  IInv'
PROOF
<1> USE DEF StoreContext
<1> DEFINE item == [hashindex |-> Hash[k], freeareaid |-> a,
                    key |-> k, data |-> d, datasize |-> DataLen[d]]
<1>0. /\ carved \subseteq Node
      /\ node \in [Node -> NodeFields]
  BY DEF IInv, TypeOK
<1>1. /\ Hash[k] \in HashItem /\ Hash[k] # InvalidHash
      /\ DataLen[d] \in Nat /\ a \in Nat
  BY CacheAssumption DEF HashItem, InvalidHash, Area
<1>2. item \in NodeFields
  BY <1>1 DEF NodeFields
<1>3. node' = [node EXCEPT ![n] = item]
  BY DEF StoreIn
<1>4. node'[n] = item /\ \A x \in Node \ {n} : node'[x] = node[x]
  BY <1>0, <1>3
<1>5. /\ node' \in [Node -> NodeFields] /\ carved' \subseteq Node
      /\ n \in carved'
  BY <1>0, <1>2, <1>3
<1>6. AreaOf' = [AreaOf EXCEPT ![n] = a]
  <2>1. \A x \in Node : node'[x].freeareaid = IF x = n THEN a ELSE node[x].freeareaid
    BY <1>4
  <2> QED BY <2>1 DEF AreaOf
<1>7. Closed(lru', carved', AreaOf')
  <2>1. n \in InList(carved', AreaOf', a) /\ n # NULL
    BY <1>5, <1>6, CacheAssumption DEF InList, AreaOf
  <2>2. lru' = LruAdvance(LruDetach(L, n), a, n)
    BY DEF StoreIn
  <2> QED BY <1>5, <1>6, <2>1, <2>2, LruAdvanceClosed
<1>8. LruStaysInArea'
  BY <1>5, <1>7, ClosedIsLru
<1>9. \A h \in HashItem :
        /\ bucket'[h] = {x \in carved' : node'[x].hashindex = h}
        /\ nodenum'[h] = Cardinality(bucket'[h])
        /\ bucket'[h] \in SUBSET Node /\ nodenum'[h] \in Int
  <2> TAKE h \in HashItem
  <2>1. /\ bucket' = [B EXCEPT ![Hash[k]] = @ \cup {n}]
        /\ nodenum' = [N EXCEPT ![Hash[k]] = @ + 1]
    BY DEF StoreIn
  <2>2. IsFiniteSet(B[h]) /\ n \notin B[h] /\ B[h] \subseteq Node
    BY CacheAssumption, FS_Subset
  <2>3. CASE h = Hash[k]
    <3>1. bucket'[h] = B[h] \cup {n} /\ nodenum'[h] = N[h] + 1
      BY <1>1, <2>1, <2>3
    <3>2. Cardinality(B[h] \cup {n}) = Cardinality(B[h]) + 1
      BY <2>2, FS_AddElement
    <3>3. bucket'[h] = {x \in carved' : node'[x].hashindex = h}
      BY <1>0, <1>4, <2>3, <3>1
    <3> QED BY <2>2, <3>1, <3>2, <3>3
  <2>4. CASE h # Hash[k]
    <3>1. bucket'[h] = B[h] /\ nodenum'[h] = N[h]
      BY <1>1, <2>1, <2>4
    <3>2. bucket'[h] = {x \in carved' : node'[x].hashindex = h}
      BY <1>0, <1>4, <2>4, <3>1
    <3> QED BY <2>2, <3>1, <3>2
  <2> QED BY <2>3, <2>4
<1>10. TypeOK'
  <2>1. bucket' \in [HashItem -> SUBSET Node] /\ nodenum' \in [HashItem -> Int]
    BY <1>1, <1>9 DEF StoreIn
  <2>2. errno' = "SUCCESS"
    BY DEF StoreIn
  <2> QED BY <1>5, <1>7, <2>1, <2>2 DEF TypeOK, Closed
<1>11. \A x \in carved' \ {n} : x \in carved /\ node'[x] = node[x] /\ (Live(x)' <=> Live(x))
  BY <1>0, <1>4 DEF Live
<1>12. \A x \in carved : Live(x) => node[x].key # k
  <2> SUFFICES ASSUME NEW x \in carved, Live(x), node[x].key = k PROVE FALSE
    OBVIOUS
  <2>1. Hash[k] = node[x].hashindex
    BY DEF IInv, BucketsConsistent
  <2>2. x \in bucket[Hash[k]]
    BY <1>1, <2>1 DEF IInv, BucketsConsistent
  <2> QED BY <2>2 DEF Found
<1>13. BucketsConsistent'
  <2>1. \A x \in carved' : Live(x)' => Hash[node'[x].key] = node'[x].hashindex
    BY <1>4, <1>11 DEF IInv, BucketsConsistent
  <2>2. \A x, y \in carved' :
          Live(x)' /\ Live(y)' /\ node'[x].key = node'[y].key => x = y
    BY <1>4, <1>11, <1>12 DEF IInv, BucketsConsistent
  <2> QED BY <1>9, <2>1, <2>2 DEF BucketsConsistent, Live
<1>14. ItemFitsNode' /\ ItemsTyped'
  <2> SUFFICES ASSUME NEW x \in carved'
               PROVE  /\ node'[x].freeareaid \in Area
                      /\ Live(x)' => /\ NodeSize(KeyLen[node'[x].key], node'[x].datasize)
                                          <= AreaSize(node'[x].freeareaid)
                                     /\ node'[x].key \in Key /\ node'[x].data \in Data
    BY DEF ItemFitsNode, ItemsTyped, Live
  <2>1. CASE x = n
    BY <1>4, <2>1
  <2>2. CASE x # n
    BY <1>11, <2>2 DEF IInv, ItemFitsNode, ItemsTyped
  <2> QED BY <2>1, <2>2
<1> QED BY <1>8, <1>10, <1>13, <1>14 DEF IInv

(***************************************************************************)
(* Part 3: every call preserves the invariant, and the size of the nodes.  *)
(***************************************************************************)
KeepsSize == \A n \in carved : /\ n \in carved'
                               /\ node'[n].freeareaid = node[n].freeareaid

(* Storing in a node that is carved from the free space.                   *)
LEMMA StoreFreshPreserves ==
  ASSUME IInv, NEW op, NEW k \in Key, NEW d \in Data, Found(k) = {},
         StoreFresh(op, k, d)
  PROVE  IInv' /\ KeepsSize
PROOF
<1> DEFINE a == AreaFor(k, d)
<1>1. /\ a \in Area /\ NodeSize(KeyLen[k], DataLen[d]) <= AreaSize(a)
      /\ AreaSize(a) \in Int
  BY AreaForFits, AreaFacts DEF StoreFresh, Area
<1>2. freesize' \in Nat
  <2>1. freesize \in Nat /\ freesize >= AreaSize(a) /\ freesize' = freesize - AreaSize(a)
    BY DEF StoreFresh, IInv, TypeOK
  <2>2. AreaSize(a) >= 0
    <3>1. NodeSize(KeyLen[k], DataLen[d]) \in Nat
      BY SizeClassAssumption, CacheAssumption DEF NodeSize
    <3> QED BY <1>1, <3>1
  <2> QED BY <1>1, <2>1, <2>2
<1>3. PICK n \in Node \ carved :
        /\ StoreIn(n, a, k, d, lru, bucket, nodenum)
        /\ carved' = carved \cup {n}
        /\ ret' = Reply(op, 0, n, NoItem, NULL)
  BY DEF StoreFresh
<1> HIDE DEF a
<1>4. /\ bucket \in [HashItem -> SUBSET Node] /\ nodenum \in [HashItem -> Int]
      /\ node \in [Node -> NodeFields] /\ carved \subseteq Node
  BY DEF IInv, TypeOK
<1>5. Closed(LruDetach(lru, n), carved', [AreaOf EXCEPT ![n] = a])
  <2>1. Closed(lru, carved, AreaOf)
    BY LruIsClosed DEF IInv
  <2>2. /\ [AreaOf EXCEPT ![n] = a][n] = a
        /\ \A x \in carved : [AreaOf EXCEPT ![n] = a][x] = AreaOf[x]
    BY <1>3, <1>4 DEF AreaOf
  <2> QED BY <1>1, <1>3, <1>4, <2>1, <2>2, LruCarveClosed
<1>6. \A h \in HashItem :
        /\ bucket[h] = {x \in carved \ {n} : node[x].hashindex = h}
        /\ nodenum[h] = Cardinality(bucket[h])
  BY <1>3 DEF IInv, BucketsConsistent
<1>7. ret'.rc \in {0, -1} /\ ret'.node \in Node \cup {NULL}
  BY <1>3 DEF Reply
<1>8. IInv'
  <2>1. StoreContext(n, a, k, d, lru, bucket, nodenum)
    BY <1>1, <1>2, <1>3, <1>4, <1>5, <1>6, <1>7 DEF StoreContext
  <2> QED BY <2>1, StoreInPreserves
<1>9. KeepsSize
  BY <1>3, <1>4 DEF StoreIn, KeepsSize
<1> QED BY <1>8, <1>9

(* Storing in the node at lrulast, whose item leaves its bucket.           *)
LEMMA StoreReusedPreserves ==
  ASSUME IInv, NEW op, NEW k \in Key, NEW d \in Data, Found(k) = {},
         StoreReused(op, k, d)
  PROVE  IInv' /\ KeepsSize
PROOF
<1> DEFINE a    == AreaFor(k, d)
           n    == lru.last[a]
           h    == node[n].hashindex
           live == h # InvalidHash
           L    == LruFree(lru, node[n].freeareaid, n)
           B    == IF live THEN [bucket EXCEPT ![h] = @ \ {n}] ELSE bucket
           N    == IF live THEN [nodenum EXCEPT ![h] = @ - 1] ELSE nodenum
<1>1. a \in Area /\ NodeSize(KeyLen[k], DataLen[d]) <= AreaSize(a)
  BY AreaForFits DEF StoreReused
<1>2. /\ n # NULL
      /\ StoreIn(n, a, k, d, L, B, N)
      /\ ret' = Reply(op, 0, n, NoItem, IF live THEN node[n].key ELSE NULL)
      /\ carved' = carved /\ freesize' = freesize
  BY DEF StoreReused
<1>3. /\ bucket \in [HashItem -> SUBSET Node] /\ nodenum \in [HashItem -> Int]
      /\ node \in [Node -> NodeFields] /\ carved \subseteq Node /\ freesize \in Nat
  BY DEF IInv, TypeOK
<1>4. Closed(lru, carved, AreaOf)
  BY LruIsClosed DEF IInv
<1> HIDE DEF a
<1>5. n \in InList(carved, AreaOf, a)
  BY <1>1, <1>3, <1>4, ReadClosed
<1> HIDE DEF n
<1>6. n \in carved /\ n \in Node /\ AreaOf[n] = a /\ node[n].freeareaid = a
  BY <1>2, <1>3, <1>5 DEF InList, AreaOf
<1>7. carved' = carved \cup {n}
  BY <1>2, <1>6
<1>8. Closed(LruDetach(L, n), carved', [AreaOf EXCEPT ![n] = a])
  <2>1. Closed(L, carved, AreaOf)
    BY <1>1, <1>2, <1>3, <1>4, <1>5, <1>6, LruFreeClosed
  <2> HIDE DEF L
  <2>2. Closed(LruDetach(L, n), carved, AreaOf)
    BY <1>1, <1>2, <1>3, <1>5, <2>1, LruDetachClosed
  <2>3. [AreaOf EXCEPT ![n] = a] = AreaOf
    BY <1>6 DEF AreaOf
  <2> QED BY <1>2, <2>2, <2>3
<1>9. /\ B \in [HashItem -> SUBSET Node] /\ N \in [HashItem -> Int]
      /\ \A g \in HashItem :
           /\ B[g] = {x \in carved \ {n} : node[x].hashindex = g}
           /\ N[g] = Cardinality(B[g])
  <2>1. \A g \in HashItem :
          /\ bucket[g] = {x \in carved : node[x].hashindex = g}
          /\ nodenum[g] = Cardinality(bucket[g])
          /\ IsFiniteSet(bucket[g])
    BY <1>3, CacheAssumption, FS_Subset DEF IInv, BucketsConsistent
  <2>2. CASE live
    <3>1. h \in HashItem
      BY <1>3, <1>6, <2>2 DEF NodeFields
    <3> HIDE DEF h
    <3>2. /\ B \in [HashItem -> SUBSET Node] /\ N \in [HashItem -> Int]
          /\ B[h] = bucket[h] \ {n} /\ N[h] = nodenum[h] - 1
          /\ \A g \in HashItem \ {h} : B[g] = bucket[g] /\ N[g] = nodenum[g]
      BY <1>3, <2>2, <3>1
    <3>3. n \in bucket[h]
      BY <1>6, <2>1, <3>1 DEF h
    <3>4. Cardinality(bucket[h] \ {n}) = nodenum[h] - 1
      BY <2>1, <3>1, <3>3, FS_RemoveElement
    <3>5. \A g \in HashItem \ {h} : n \notin bucket[g]
      BY <2>1 DEF h
    <3> HIDE DEF B, N
    <3>6. B[h] = {x \in carved \ {n} : node[x].hashindex = h} /\ N[h] = Cardinality(B[h])
      BY <2>1, <3>1, <3>2, <3>4
    <3>7. ASSUME NEW g \in HashItem \ {h}
          PROVE  /\ B[g] = {x \in carved \ {n} : node[x].hashindex = g}
                 /\ N[g] = Cardinality(B[g])
      BY <2>1, <3>2, <3>5
    <3> QED BY <3>2, <3>6, <3>7
  <2>3. CASE ~live
    <3>1. B = bucket /\ N = nodenum
      BY <2>3
    <3>2. h \notin HashItem
      BY <2>3 DEF HashItem, InvalidHash
    <3>3. \A g \in HashItem : n \notin bucket[g]
      BY <2>1, <3>2
    <3> QED BY <1>3, <2>1, <3>1, <3>3
  <2> HIDE DEF B, N
  <2> QED BY <2>2, <2>3
<1>10. ret'.rc \in {0, -1} /\ ret'.node \in Node \cup {NULL}
  BY <1>2, <1>6 DEF Reply
<1> HIDE DEF L, B, N
<1>11. IInv'
  <2>1. StoreContext(n, a, k, d, L, B, N)
    BY <1>1, <1>2, <1>3, <1>6, <1>7, <1>8, <1>9, <1>10 DEF StoreContext
  <2> QED BY <2>1, StoreInPreserves
<1>12. KeepsSize
  BY <1>2, <1>3, <1>6 DEF StoreIn, KeepsSize
<1> QED BY <1>11, <1>12

(* A call that touches nothing but the error number and the reply.         *)
LEMMA ReplyPreserves ==
  ASSUME IInv, UNCHANGED <<carved, node, freesize, bucket, nodenum, lru>>,
         errno' \in {"SUCCESS", "KEY_EXIST", "KEY_NOT_EXIST", "ALLOC_NODE_ERROR"},
         ret'.rc \in {0, -1}, ret'.node \in Node \cup {NULL}
  PROVE  IInv' /\ KeepsSize
PROOF
<1>1. TypeOK'
  BY DEF IInv, TypeOK
<1>2. BucketsConsistent' /\ ItemFitsNode' /\ ItemsTyped'
  BY DEF IInv, BucketsConsistent, ItemFitsNode, ItemsTyped, Live
<1>3. LruStaysInArea'
  BY DEF IInv, LruStaysInArea, NodesOf
<1>4. KeepsSize
  BY DEF KeepsSize
<1> QED BY <1>1, <1>2, <1>3, <1>4 DEF IInv

(* A call that finds the key, may replace the data and advances the node.  *)
LEMMA HitPreserves ==
  ASSUME IInv, NEW k \in Key, NEW n \in Found(k),
         node' = node \/ \E d \in Data : node' = [node EXCEPT ![n].data = d],
         lru' = Advanced(n), errno' = "SUCCESS",
         ret'.rc \in {0, -1}, ret'.node \in Node \cup {NULL},
         UNCHANGED <<carved, freesize, bucket, nodenum>>
  PROVE  IInv' /\ KeepsSize
PROOF
<1>1. /\ node \in [Node -> NodeFields] /\ carved \subseteq Node
      /\ n \in carved /\ n \in Node /\ n # NULL
      /\ node[n].freeareaid \in Area
      /\ n \in InList(carved, AreaOf, node[n].freeareaid)
  BY FoundFacts DEF IInv, TypeOK
<1>2. /\ node' \in [Node -> NodeFields]
      /\ \A x \in Node :
           /\ node'[x].hashindex = node[x].hashindex
           /\ node'[x].freeareaid = node[x].freeareaid
           /\ node'[x].key = node[x].key
           /\ node'[x].datasize = node[x].datasize
           /\ node'[x].data = node[x].data \/ node'[x].data \in Data
  <2>1. CASE node' = node
    BY <1>1, <2>1
  <2>2. ASSUME NEW d \in Data, node' = [node EXCEPT ![n].data = d]
        PROVE  <1>2!1 /\ <1>2!2
    <3>1. node' = [node EXCEPT ![n] = [node[n] EXCEPT !.data = d]]
      BY <2>2
    <3>2. /\ node'[n] = [node[n] EXCEPT !.data = d]
          /\ \A x \in Node \ {n} : node'[x] = node[x]
      BY <1>1, <3>1
    <3>3. node[n] \in NodeFields
      BY <1>1
    <3>4. /\ node'[n] \in NodeFields
          /\ node'[n].hashindex = node[n].hashindex
          /\ node'[n].freeareaid = node[n].freeareaid
          /\ node'[n].key = node[n].key
          /\ node'[n].datasize = node[n].datasize
          /\ node'[n].data = d
      BY <3>2, <3>3 DEF NodeFields
    <3> QED BY <1>1, <3>1, <3>2, <3>4
  <2> QED BY <2>1, <2>2
<1>3. AreaOf' = AreaOf
  BY <1>2 DEF AreaOf
<1>4. Closed(lru', carved', AreaOf')
  <2>1. Closed(lru, carved, AreaOf)
    BY LruIsClosed DEF IInv
  <2> QED BY <1>1, <1>3, <2>1, LruAdvanceClosed DEF Advanced
<1>5. LruStaysInArea'
  BY <1>1, <1>4, ClosedIsLru
<1>6. TypeOK'
  BY <1>2, <1>4 DEF IInv, TypeOK, Closed
<1>7. BucketsConsistent'
  <2>1. \A h \in HashItem :
          /\ bucket'[h] = {x \in carved' : node'[x].hashindex = h}
          /\ nodenum'[h] = Cardinality(bucket'[h])
    BY <1>1, <1>2 DEF IInv, BucketsConsistent
  <2> QED BY <1>1, <1>2, <2>1 DEF IInv, BucketsConsistent, Live
<1>8. ItemFitsNode' /\ ItemsTyped'
  BY <1>1, <1>2 DEF IInv, ItemFitsNode, ItemsTyped, Live
<1>9. KeepsSize
  BY <1>1, <1>2 DEF KeepsSize
<1> QED BY <1>5, <1>6, <1>7, <1>8, <1>9 DEF IInv

(* Erasing: the node leaves its bucket and keeps its freearea.             *)
LEMMA ErasePreserves ==
  ASSUME IInv, NEW k \in Key, EraseHit(k)
  PROVE  IInv' /\ KeepsSize
PROOF
<1>1. PICK n \in Found(k) :
        /\ bucket' = [bucket EXCEPT ![Hash[k]] = @ \ {n}]
        /\ nodenum' = [nodenum EXCEPT ![Hash[k]] = @ - 1]
        /\ node' = [node EXCEPT ![n] = EmptyNode(@.freeareaid)]
        /\ lru' = LruReturn(lru, node[n].freeareaid, n)
        /\ errno' = "SUCCESS"
        /\ ret' = Reply("erase", 0, n, ItemOf(n), NULL)
        /\ UNCHANGED <<carved, freesize>>
  BY DEF EraseHit
<1>2. /\ node \in [Node -> NodeFields] /\ carved \subseteq Node
      /\ bucket \in [HashItem -> SUBSET Node] /\ nodenum \in [HashItem -> Int]
      /\ freesize \in Nat
  BY DEF IInv, TypeOK
<1>3. /\ n \in carved /\ n \in Node /\ n # NULL
      /\ n \in bucket[Hash[k]] /\ Hash[k] \in HashItem
      /\ node[n].hashindex = Hash[k]
      /\ node[n].freeareaid \in Area
      /\ n \in InList(carved, AreaOf, node[n].freeareaid)
  BY FoundFacts
<1> DEFINE empty == EmptyNode(node[n].freeareaid)
<1>4. /\ empty \in NodeFields /\ empty.hashindex = InvalidHash
      /\ empty.freeareaid = node[n].freeareaid
  BY <1>2, <1>3 DEF EmptyNode, NodeFields, Area
<1> HIDE DEF empty
<1>5. /\ node'[n] = empty
      /\ \A x \in Node \ {n} : node'[x] = node[x]
      /\ node' \in [Node -> NodeFields]
  <2>1. node' = [node EXCEPT ![n] = empty]
    BY <1>1 DEF empty
  <2> QED BY <1>2, <1>3, <1>4, <2>1
<1>6. \A x \in Node : node'[x].freeareaid = node[x].freeareaid
  BY <1>4, <1>5
<1>7. AreaOf' = AreaOf
  BY <1>6 DEF AreaOf
<1>8. Closed(lru', carved', AreaOf')
  <2>1. Closed(lru, carved, AreaOf)
    BY LruIsClosed DEF IInv
  <2> QED BY <1>1, <1>2, <1>3, <1>7, <2>1, LruReturnClosed
<1>9. LruStaysInArea'
  BY <1>1, <1>2, <1>8, ClosedIsLru
<1>10. \A h \in HashItem :
         /\ bucket'[h] = {x \in carved' : node'[x].hashindex = h}
         /\ nodenum'[h] = Cardinality(bucket'[h])
         /\ bucket'[h] \in SUBSET Node /\ nodenum'[h] \in Int
  <2> TAKE h \in HashItem
  <2>1. /\ bucket[h] = {x \in carved : node[x].hashindex = h}
        /\ nodenum[h] = Cardinality(bucket[h]) /\ IsFiniteSet(bucket[h])
    BY <1>2, CacheAssumption, FS_Subset DEF IInv, BucketsConsistent
  <2>2. h # InvalidHash
    BY DEF HashItem, InvalidHash
  <2>3. {x \in carved' : node'[x].hashindex = h} = bucket[h] \ {n}
    BY <1>1, <1>2, <1>4, <1>5, <2>1, <2>2
  <2>4. CASE h = Hash[k]
    <3>1. bucket'[h] = bucket[h] \ {n} /\ nodenum'[h] = nodenum[h] - 1
      BY <1>1, <1>2, <1>3, <2>4
    <3>2. Cardinality(bucket[h] \ {n}) = nodenum[h] - 1
      BY <1>3, <2>1, <2>4, FS_RemoveElement
    <3> QED BY <1>2, <2>3, <3>1, <3>2
  <2>5. CASE h # Hash[k]
    <3>1. bucket'[h] = bucket[h] /\ nodenum'[h] = nodenum[h]
      BY <1>1, <1>2, <2>5
    <3>2. n \notin bucket[h]
      BY <1>3, <2>1, <2>5
    <3> QED BY <1>2, <2>1, <2>3, <3>1, <3>2
  <2> QED BY <2>4, <2>5
<1>11. TypeOK'
  <2>1. bucket' \in [HashItem -> SUBSET Node] /\ nodenum' \in [HashItem -> Int]
    BY <1>1, <1>2, <1>10
  <2>2. ret'.rc \in {0, -1} /\ ret'.node \in Node \cup {NULL}
    BY <1>1, <1>3 DEF Reply
  <2> QED BY <1>1, <1>2, <1>5, <1>8, <2>1, <2>2 DEF TypeOK, Closed
<1>12. \A x \in carved' : Live(x)' => x # n /\ x \in carved /\ Live(x) /\ node'[x] = node[x]
  BY <1>1, <1>2, <1>4, <1>5 DEF Live
<1>13. BucketsConsistent'
  <2>1. /\ \A x \in carved' : Live(x)' => Hash[node'[x].key] = node'[x].hashindex
        /\ \A x, y \in carved' :
             Live(x)' /\ Live(y)' /\ node'[x].key = node'[y].key => x = y
    BY <1>12 DEF IInv, BucketsConsistent
  <2> QED BY <1>10, <2>1 DEF BucketsConsistent, Live
<1>14. ItemFitsNode' /\ ItemsTyped'
  <2>1. \A x \in carved' : node'[x].freeareaid \in Area
    BY <1>1, <1>2, <1>6 DEF IInv, ItemFitsNode
  <2>2. \A x \in carved' : Live(x)' =>
          /\ NodeSize(KeyLen[node'[x].key], node'[x].datasize)
               <= AreaSize(node'[x].freeareaid)
          /\ node'[x].key \in Key /\ node'[x].data \in Data
    BY <1>12 DEF IInv, ItemFitsNode, ItemsTyped
  <2> QED BY <2>1, <2>2 DEF ItemFitsNode, ItemsTyped, Live
<1>15. KeepsSize
  BY <1>1, <1>2, <1>6 DEF KeepsSize
<1> QED BY <1>9, <1>11, <1>13, <1>14, <1>15 DEF IInv

-----------------------------------------------------------------------------
(* The invariant holds of the cache that ccache_init_freearea leaves.      *)
LEMMA InitInvariant ==
  ASSUME Init
  PROVE  IInv
PROOF
<1>1. PICK pre \in Prealloc :
        /\ carved = {pre[s] : s \in Slot}
        /\ node = [n \in Node |->
                     IF \E s \in Slot : pre[s] = n
                     THEN EmptyNode((CHOOSE s \in Slot : pre[s] = n)[1])
                     ELSE EmptyNode(0)]
        /\ lru = Linked(pre)
  BY DEF Init
<1>2. /\ pre \in [Slot -> Node]
      /\ \A s, t \in Slot : pre[s] = pre[t] => s = t
  BY DEF Prealloc
<1>3. carved \subseteq Node /\ \A n \in carved : \E s \in Slot : pre[s] = n
  BY <1>1, <1>2
<1>4. \A s \in Slot : /\ pre[s] \in carved /\ s[1] \in Area
                      /\ node[pre[s]] = EmptyNode(s[1])
  <2> TAKE s \in Slot
  <2>1. (CHOOSE t \in Slot : pre[t] = pre[s]) = s
    BY <1>2
  <2> QED BY <1>1, <1>2, <2>1 DEF Slot
<1>5. \A a \in Nat : /\ EmptyNode(a) \in NodeFields
                     /\ EmptyNode(a).hashindex = InvalidHash
                     /\ EmptyNode(a).freeareaid = a
  BY DEF EmptyNode, NodeFields
<1>6. \A n \in Node : node[n] \in NodeFields /\ node[n].hashindex = InvalidHash
  <2> TAKE n \in Node
  <2>1. CASE \E s \in Slot : pre[s] = n
    BY <1>4, <1>5, <2>1 DEF Area
  <2>2. CASE ~ \E s \in Slot : pre[s] = n
    BY <1>1, <1>5, <2>2
  <2> QED BY <2>1, <2>2
<1>7. \A s \in Slot : pre[s] \in InList(carved, AreaOf, s[1])
  <2> TAKE s \in Slot
  <2>1. AreaOf[pre[s]] = s[1]
    BY <1>2, <1>4, <1>5 DEF AreaOf, Area
  <2> QED BY <1>4, <2>1 DEF InList
<1>8. Closed(lru, carved, AreaOf)
  <2> DEFINE neighbour(n, step) ==
               {pre[<<s[1], s[2] + step>>] :
                  s \in {t \in Slot : pre[t] = n /\ t[2] + step \in 1 .. PreallocNum}}
             pointer(S) == IF S = {} THEN NULL ELSE CHOOSE n \in S : TRUE
             end(a, i)  == IF PreallocNum = 0 THEN NULL ELSE pre[<<a, i>>]
  <2>1. /\ lru.first = [a \in Area |-> end(a, 1)]
        /\ lru.last = [a \in Area |-> end(a, PreallocNum)]
        /\ lru.next = [n \in Node |-> pointer(neighbour(n, 1))]
        /\ lru.prev = [n \in Node |-> pointer(neighbour(n, -1))]
        /\ lru = [first |-> lru.first, last |-> lru.last,
                  next |-> lru.next, prev |-> lru.prev]
    BY <1>1 DEF Linked
  <2>2. ASSUME NEW a \in Area, NEW i \in {1, PreallocNum}
        PROVE  end(a, i) \in InList(carved, AreaOf, a)
    <3>1. CASE PreallocNum = 0
      BY <3>1 DEF InList
    <3>2. CASE PreallocNum # 0
      <4>1. <<a, i>> \in Slot
        BY <3>2, CacheAssumption DEF Slot
      <4>2. pre[<<a, i>>] \in InList(carved, AreaOf, <<a, i>>[1])
        BY <1>7, <4>1
      <4> QED BY <3>2, <4>2
    <3> QED BY <3>1, <3>2
  <2>3. ASSUME NEW s \in Slot, NEW step \in {1, -1}
        PROVE  /\ neighbour(pre[s], step) \subseteq InList(carved, AreaOf, s[1])
               /\ pointer(neighbour(pre[s], step)) \in InList(carved, AreaOf, s[1])
    <3>1. ASSUME NEW t \in Slot, pre[t] = pre[s], t[2] + step \in 1 .. PreallocNum
          PROVE  pre[<<t[1], t[2] + step>>] \in InList(carved, AreaOf, s[1])
      <4>1. t = s
        BY <1>2, <3>1
      <4>2. <<s[1], s[2] + step>> \in Slot
        BY <3>1, <4>1 DEF Slot
      <4>3. pre[<<s[1], s[2] + step>>] \in InList(carved, AreaOf, <<s[1], s[2] + step>>[1])
        BY <1>7, <4>2
      <4> QED BY <4>1, <4>3
    <3>2. neighbour(pre[s], step) \subseteq InList(carved, AreaOf, s[1])
      BY <3>1
    <3> HIDE DEF neighbour
    <3> QED BY <3>2 DEF InList
  <2>4. ASSUME NEW n \in Node \ carved, NEW step \in {1, -1}
        PROVE  pointer(neighbour(n, step)) = NULL
    BY <1>4
  <2>5. ASSUME NEW n \in carved
        PROVE  /\ lru.next[n] \in InList(carved, AreaOf, AreaOf[n])
               /\ lru.prev[n] \in InList(carved, AreaOf, AreaOf[n])
    <3>1. PICK s \in Slot : pre[s] = n
      BY <1>3
    <3>2. AreaOf[n] = s[1]
      BY <1>3, <1>4, <1>5, <3>1 DEF AreaOf, Area
    <3> HIDE DEF pointer, neighbour
    <3> QED BY <1>3, <2>1, <2>3, <3>1, <3>2
  <2>6. /\ \A a \in Area : /\ lru.first[a] \in InList(carved, AreaOf, a)
                           /\ lru.last[a] \in InList(carved, AreaOf, a)
    <3> HIDE DEF end
    <3> QED BY <2>1, <2>2
  <2>7. /\ lru.first \in [Area -> Node \cup {NULL}]
        /\ lru.last \in [Area -> Node \cup {NULL}]
    BY <1>3, <2>1, <2>6 DEF InList
  <2>8. \A n \in Node : lru.next[n] \in Node \cup {NULL} /\ lru.prev[n] \in Node \cup {NULL}
    <3> TAKE n \in Node
    <3>1. CASE n \in carved
      BY <1>3, <2>5, <3>1 DEF InList
    <3>2. CASE n \notin carved
      <4> HIDE DEF pointer, neighbour
      <4> QED BY <2>1, <2>4, <3>2
    <3> QED BY <3>1, <3>2
  <2>9. lru \in Pointers
    <3> HIDE DEF pointer, neighbour
    <3> QED BY <2>1, <2>7, <2>8 DEF Pointers
  <2> QED BY <2>5, <2>6, <2>9 DEF Closed
<1>9. LruStaysInArea
  <2>1. \A n \in carved : AreaOf[n] = node[n].freeareaid
    BY <1>3 DEF AreaOf
  <2>2. \A b : InList(carved, AreaOf, b) = NodesOf(b) \cup {NULL}
    BY <2>1 DEF InList, NodesOf
  <2> QED BY <1>8, <2>1, <2>2 DEF Closed, LruStaysInArea
<1>10. TypeOK
  <2>1. node \in [Node -> NodeFields]
    BY <1>1, <1>6
  <2>2. ret.rc \in {0, -1} /\ ret.node \in Node \cup {NULL}
    BY DEF Init, Reply
  <2> QED BY <1>3, <1>8, <2>1, <2>2, CacheAssumption DEF Init, TypeOK, Closed
<1>11. \A n \in carved : ~Live(n) /\ node[n].freeareaid \in Area
  BY <1>3, <1>4, <1>5, <1>6 DEF Live, Area
<1>12. BucketsConsistent
  <2>1. \A h \in HashItem : {n \in carved : node[n].hashindex = h} = {}
    BY <1>3, <1>6 DEF HashItem, InvalidHash
  <2>2. Cardinality({}) = 0
    BY FS_EmptySet
  <2> QED BY <1>11, <2>1, <2>2 DEF BucketsConsistent, Init
<1>13. ItemFitsNode /\ ItemsTyped
  BY <1>11 DEF ItemFitsNode, ItemsTyped
<1> QED BY <1>9, <1>10, <1>12, <1>13 DEF IInv

-----------------------------------------------------------------------------
(* Storing under an absent key, with any outcome.                          *)
LEMMA StorePreserves ==
  ASSUME IInv, NEW op, NEW k \in Key, NEW d \in Data, Found(k) = {}, Store(op, k, d)
  PROVE  IInv' /\ KeepsSize
PROOF
<1>1. CASE StoreFresh(op, k, d)
  BY <1>1, StoreFreshPreserves
<1>2. CASE StoreReused(op, k, d)
  BY <1>2, StoreReusedPreserves
<1>3. CASE StoreFailed(op, k, d)
  BY <1>3, ReplyPreserves DEF StoreFailed, Failure, Reply
<1> QED BY <1>1, <1>2, <1>3 DEF Store

(* ccache_insert, on a key that exists or not.                             *)
LEMMA InsertPreserves ==
  ASSUME IInv, NEW k \in Key, NEW d \in Data, Insert(k, d)
  PROVE  IInv' /\ KeepsSize
PROOF
<1>1. CASE InsertExisting(k)
  <2>1. PICK n \in Found(k) :
          /\ lru' = Advanced(n)
          /\ errno' = "SUCCESS"
          /\ ret' = Reply("insert", 0, n, NoItem, NULL)
          /\ UNCHANGED <<carved, node, freesize, bucket, nodenum>>
    BY <1>1 DEF InsertExisting
  <2>2. ret'.rc \in {0, -1} /\ ret'.node \in Node \cup {NULL}
    BY <2>1, FoundFacts DEF Reply
  <2> QED BY <2>1, <2>2, HitPreserves
<1>2. CASE Found(k) = {} /\ Store("insert", k, d)
  BY <1>2, StorePreserves
<1> QED BY <1>1, <1>2 DEF Insert

(* The functor's update and set on a node that exists.                     *)
LEMMA OverwritePreserves ==
  ASSUME IInv, NEW op, NEW k \in Key, NEW n \in Found(k), NEW d \in Data,
         Overwrite(op, n, d)
  PROVE  IInv' /\ KeepsSize
PROOF
<1>1. ret'.rc \in {0, -1} /\ ret'.node \in Node \cup {NULL}
  BY FoundFacts DEF Overwrite, Reply
<1> QED BY <1>1, HitPreserves DEF Overwrite

(* ccache_update, on a key that exists or not.                             *)
LEMMA UpdatePreserves ==
  ASSUME IInv, NEW k \in Key, NEW d \in Data, Update(k, d)
  PROVE  IInv' /\ KeepsSize
PROOF
<1>1. CASE UpdateHit(k, d)
  BY <1>1, OverwritePreserves DEF UpdateHit
<1>2. CASE UpdateMiss(k)
  BY <1>2, ReplyPreserves DEF UpdateMiss, Failure, Reply
<1> QED BY <1>1, <1>2 DEF Update

(* ccache_set, on a key that exists or not.                                *)
LEMMA SetPreserves ==
  ASSUME IInv, NEW k \in Key, NEW d \in Data, NEW merge \in BOOLEAN, Set(k, d, merge)
  PROVE  IInv' /\ KeepsSize
PROOF
<1>1. CASE SetHit(k, d, merge)
  <2>1. PICK n \in Found(k) :
          Overwrite("set", n, IF merge THEN Merge[<<node[n].data, d>>] ELSE d)
    BY <1>1 DEF SetHit
  <2>2. Merge[<<node[n].data, d>>] \in Data
    <3>1. <<node[n].data, d>> \in Data \X Data
      BY FoundFacts
    <3> QED BY <3>1, CacheAssumption
  <2> QED BY <2>1, <2>2, OverwritePreserves
<1>2. CASE Found(k) = {} /\ Store("set", k, d)
  BY <1>2, StorePreserves
<1> QED BY <1>1, <1>2 DEF Set

(* ccache_find, on a key that exists or not.                               *)
LEMMA FindPreserves ==
  ASSUME IInv, NEW k \in Key, Find(k)
  PROVE  IInv' /\ KeepsSize
PROOF
<1>1. CASE FindHit(k)
  <2>1. PICK n \in Found(k) :
          /\ lru' = Advanced(n)
          /\ errno' = "SUCCESS"
          /\ ret' = Reply("find", 0, n, ItemOf(n), NULL)
          /\ UNCHANGED <<carved, node, freesize, bucket, nodenum>>
    BY <1>1 DEF FindHit
  <2>2. ret'.rc \in {0, -1} /\ ret'.node \in Node \cup {NULL}
    BY <2>1, FoundFacts DEF Reply
  <2> QED BY <2>1, <2>2, HitPreserves
<1>2. CASE FindMiss(k)
  <2>1. errno' \in {"SUCCESS", "KEY_EXIST", "KEY_NOT_EXIST", "ALLOC_NODE_ERROR"}
    BY <1>2 DEF FindMiss, IInv, TypeOK
  <2> QED BY <1>2, <2>1, ReplyPreserves DEF FindMiss, Failure, Reply
<1> QED BY <1>1, <1>2 DEF Find

(* Every call preserves the invariant and the freearea of every node.      *)
LEMMA NextPreserves ==
  ASSUME IInv, [Next]_vars
  PROVE  IInv' /\ KeepsSize
PROOF
<1>1. ASSUME NEW k \in Key, NEW d \in Data, Insert(k, d)
      PROVE  IInv' /\ KeepsSize
  BY <1>1, InsertPreserves
<1>2. ASSUME NEW k \in Key, NEW d \in Data, Update(k, d)
      PROVE  IInv' /\ KeepsSize
  BY <1>2, UpdatePreserves
<1>3. ASSUME NEW k \in Key, NEW d \in Data, NEW merge \in BOOLEAN, Set(k, d, merge)
      PROVE  IInv' /\ KeepsSize
  BY <1>3, SetPreserves
<1>4. ASSUME NEW k \in Key, Find(k)
      PROVE  IInv' /\ KeepsSize
  BY <1>4, FindPreserves
<1>5. ASSUME NEW k \in Key, Erase(k)
      PROVE  IInv' /\ KeepsSize
  <2>1. CASE EraseHit(k)
    BY <2>1, ErasePreserves
  <2>2. CASE EraseMiss(k)
    BY <2>2, ReplyPreserves DEF EraseMiss, Failure, Reply
  <2> QED BY <1>5, <2>1, <2>2 DEF Erase
<1>6. CASE Visit
  <2>1. errno' \in {"SUCCESS", "KEY_EXIST", "KEY_NOT_EXIST", "ALLOC_NODE_ERROR"}
    BY <1>6 DEF Visit, IInv, TypeOK
  <2>2. ret'.rc = 0 /\ ret'.node = NULL
    BY <1>6 DEF Visit, Reply
  <2> QED BY <1>6, <2>1, <2>2, ReplyPreserves DEF Visit
<1>7. CASE UNCHANGED vars
  <2>1. /\ errno' \in {"SUCCESS", "KEY_EXIST", "KEY_NOT_EXIST", "ALLOC_NODE_ERROR"}
        /\ ret'.rc \in {0, -1} /\ ret'.node \in Node \cup {NULL}
    BY <1>7 DEF vars, IInv, TypeOK
  <2> QED BY <1>7, <2>1, ReplyPreserves DEF vars
<1> QED BY <1>1, <1>2, <1>3, <1>4, <1>5, <1>6, <1>7 DEF Next

(***************************************************************************)
(* Part 4: the theorems.                                                   *)
(***************************************************************************)

(* The invariant is inductive: it holds in every reachable state.          *)
THEOREM Invariance == Spec => []IInv
PROOF
<1>1. Init => IInv
  BY InitInvariant
<1>2. IInv /\ [Next]_vars => IInv'
  BY NextPreserves
<1> QED BY <1>1, <1>2, PTL DEF Spec

(* Every variable keeps its type; in particular ccache_allocate never      *)
(* takes more bytes than are free.                                         *)
THEOREM TypeCorrectness == Spec => []TypeOK
PROOF
<1>1. IInv => TypeOK
  BY DEF IInv
<1> QED BY <1>1, Invariance, PTL

(* The buckets, the nodes and the counters agree after any sequence of     *)
(* calls, and no key is stored twice.                                      *)
THEOREM BucketsStayConsistent == Spec => []BucketsConsistent
PROOF
<1>1. IInv => BucketsConsistent
  BY DEF IInv
<1> QED BY <1>1, Invariance, PTL

(* However badly an LRU list gets linked, it never leads from one freearea *)
(* into another.                                                           *)
THEOREM ListsStayInArea == Spec => []LruStaysInArea
PROOF
<1>1. IInv => LruStaysInArea
  BY DEF IInv
<1> QED BY <1>1, Invariance, PTL

(* No item is ever larger than the node it is in.                          *)
THEOREM ItemsFit == Spec => []ItemFitsNode
PROOF
<1>1. IInv => ItemFitsNode
  BY DEF IInv
<1> QED BY <1>1, Invariance, PTL

(* A node keeps its freearea, and with it its size, through every store,   *)
(* eviction and erase.                                                     *)
THEOREM NodesKeepSize == Spec => NodeKeepsSize
PROOF
<1>1. IInv /\ [Next]_vars =>
        [\A n \in carved : /\ n \in carved'
                           /\ node'[n].freeareaid = node[n].freeareaid]_vars
  BY NextPreserves DEF KeepsSize
<1> QED BY <1>1, Invariance, PTL DEF Spec, NodeKeepsSize
=============================================================================
