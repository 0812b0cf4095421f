------------------------------- MODULE Cache -------------------------------
(***************************************************************************)
(* The operations of ccache.c on an open cache: insert, find, update, set, *)
(* erase and visit, each as one step from taking the lock to releasing it. *)
(* A step does everything the call does: the lookup in the bucket, the     *)
(* allocation with the eviction it may need and the callback it makes, the *)
(* write of the item, the LRU list and the error number.                   *)
(*                                                                         *)
(* Two things are abstracted.  A bucket is the set of its nodes: that is   *)
(* what the functions of ccache_functor_t promise to this code, and the    *)
(* hash list and the tree that keep the promise are modules of their own.  *)
(* A node is a name, not an address: where nodes lie is Arena's subject.   *)
(***************************************************************************)
EXTENDS SizeClass, LruList, FiniteSets

CONSTANTS
  Node,          \* the nodes the data zone has room for
  Key,           \* keys
  Data,          \* contents of a caller's buffer
  KeyLen,        \* [Key -> Nat], the keysize of a key
  DataLen,       \* [Data -> Nat], the datasize that goes with a buffer
  HashItemNum,   \* cache->hashitemnum
  Hash,          \* [Key -> 0 .. HashItemNum - 1], ccache_hash
  Merge,         \* [Data \X Data -> Data], the caller's update function
  PreallocNum,   \* nodes preallocated in each freearea
  InitFreeSize   \* cache->freesize when the cache has been opened

HashItem == 0 .. HashItemNum - 1

ASSUME CacheAssumption ==
  /\ NULL \notin Node /\ NULL \notin Key /\ NULL \notin Data
  /\ IsFiniteSet(Node)
  /\ KeyLen \in [Key -> Nat]
  /\ DataLen \in [Data -> Nat]
  /\ HashItemNum \in Nat \ {0}
  /\ Hash \in [Key -> HashItem]
  /\ Merge \in [Data \X Data -> Data]
  /\ PreallocNum \in Nat
  /\ InitFreeSize \in Nat

(* CCACHE_INVALID_HASHINDEX: the node holds no item.                       *)
InvalidHash == -1

VARIABLES
  carved,     \* nodes taken from the data zone so far
  node,       \* the fields of the nodes, LRU pointers apart
  freesize,   \* cache->freesize
  bucket,     \* the nodes in cache->hashitem[h]
  nodenum,    \* cache->hashitem[h].nodenum
  lru,        \* the LRU lists of the freeareas (LruList)
  errno,      \* ccache_errno
  ret         \* what the last call gave its caller

vars == <<carved, node, freesize, bucket, nodenum, lru, errno, ret>>

-----------------------------------------------------------------------------
(* Sizes and lookups.                                                      *)

(* ccache_count_nodesize                                                   *)
NodeSize(keysize, datasize) == NodeHeader + keysize + datasize

(* The freearea ccache_allocate looks for on behalf of an item.            *)
AreaFor(k, d) == FreeareaId(NodeSize(KeyLen[k], DataLen[d]))

(* The functor's find: the node of the bucket that holds the key.          *)
Found(k) == {n \in bucket[Hash[k]] : node[n].key = k}

(* The item a node holds: the first datasize bytes of data.                *)
ItemOf(n) == [data |-> node[n].data, datasize |-> node[n].datasize]
NoItem    == [data |-> NULL, datasize |-> 0]

(* A call's result: its name, return code, the node it worked on, the item *)
(* copied to the caller, the key whose node the erase callback was given,  *)
(* and how often visit was called for each key.                            *)
NoVisits == [k \in Key |-> 0]
Reply(op, rc, n, item, victim) ==
  [op |-> op, rc |-> rc, node |-> n, item |-> item, victim |-> victim,
   seen |-> NoVisits]
Failure(op) == Reply(op, -1, NULL, NoItem, NULL)

-----------------------------------------------------------------------------
(* Initial state: what ccache_open leaves after ccache_init_freearea.      *)

Slot == Area \X (1 .. PreallocNum)

(* The preallocated nodes: a different one for every slot.                 *)
Prealloc == {pre \in [Slot -> Node] : \A s, t \in Slot : pre[s] = pre[t] => s = t}

EmptyNode(a) == [hashindex |-> InvalidHash, freeareaid |-> a,
                 key |-> NULL, data |-> NULL, datasize |-> 0]

(* Mutant of Linked: head and last keep their values from area to area.    *)
LinkedAcrossAreas(pre) ==
  LET end(a, i) == IF PreallocNum = 0 THEN NULL ELSE pre[<<a, i>>]
      before(n) == {pre[s] : s \in {t \in Slot : <<t[1] + 1, t[2]>> \in Slot
                                               /\ pre[<<t[1] + 1, t[2]>>] = n}}
  IN  [first |-> [a \in Area |-> end(a, 1)],
       last  |-> [a \in Area |-> end(a, PreallocNum)],
       next  |-> [n \in Node |-> NULL],
       prev  |-> [n \in Node |-> IF before(n) = {} THEN NULL
                                 ELSE CHOOSE p \in before(n) : TRUE]]

(* ccache_prealloc_freearea links the nodes of an area in their order.     *)
Linked(pre) ==
  LET neighbour(n, step) ==
        {pre[<<s[1], s[2] + step>>] :
            s \in {t \in Slot : pre[t] = n /\ t[2] + step \in 1 .. PreallocNum}}
      pointer(S)   == IF S = {} THEN NULL ELSE CHOOSE n \in S : TRUE
      end(a, i)    == IF PreallocNum = 0 THEN NULL ELSE pre[<<a, i>>]
  IN  [first |-> [a \in Area |-> end(a, 1)],
       last  |-> [a \in Area |-> end(a, PreallocNum)],
       next  |-> [n \in Node |-> pointer(neighbour(n, 1))],
       prev  |-> [n \in Node |-> pointer(neighbour(n, -1))]]

Init ==
  /\ \E pre \in Prealloc :
       /\ carved = {pre[s] : s \in Slot}
       /\ node = [n \in Node |->
                    IF \E s \in Slot : pre[s] = n
                    THEN EmptyNode((CHOOSE s \in Slot : pre[s] = n)[1])
                    ELSE EmptyNode(0)]
       /\ lru = Linked(pre)
  /\ freesize = InitFreeSize
  /\ bucket = [h \in HashItem |-> {}]
  /\ nodenum = [h \in HashItem |-> 0]
  /\ errno = "SUCCESS"
  /\ ret = Reply("open", 0, NULL, NoItem, NULL)

-----------------------------------------------------------------------------
(* Storing an item under a key that is not in the cache: ccache_allocate,  *)
(* the functor's insertion into the bucket and ccache_lrulist_advance.     *)

(* The node n gets the item, enters the bucket, and its LRU list.  L and B *)
(* are the lists and buckets that the allocation has left.                 *)
StoreIn(n, a, k, d, L, B, N) ==
  LET h == Hash[k] IN
  /\ node' = [node EXCEPT ![n] =
                [hashindex |-> h, freeareaid |-> a,
                 key |-> k, data |-> d, datasize |-> DataLen[d]]]
  /\ bucket' = [B EXCEPT ![h] = @ \cup {n}]
  /\ nodenum' = [N EXCEPT ![h] = @ + 1]
  /\ lru' = LruAdvance(LruDetach(L, n), a, n)
  /\ errno' = "SUCCESS"

(* Mutant of StoreFresh: the size of the free space is not looked at.      *)
StoreFreshUnchecked(op, k, d) ==
  LET a == AreaFor(k, d) IN
  /\ a # NoArea
  /\ \E n \in Node \ carved :
       /\ StoreIn(n, a, k, d, lru, bucket, nodenum)
       /\ carved' = carved \cup {n}
       /\ ret' = Reply(op, 0, n, NoItem, NULL)
  /\ freesize' = freesize - AreaSize(a)

(* The node is carved from the free space.                                 *)
StoreFresh(op, k, d) ==
  LET a == AreaFor(k, d) IN
  /\ a # NoArea
  /\ freesize >= AreaSize(a)
  /\ \E n \in Node \ carved :
       /\ StoreIn(n, a, k, d, lru, bucket, nodenum)
       /\ carved' = carved \cup {n}
       /\ ret' = Reply(op, 0, n, NoItem, NULL)
  /\ freesize' = freesize - AreaSize(a)

(* Mutant of StoreReused: the evicted item stays in its bucket.            *)
StoreReusedStillIndexed(op, k, d) ==
  LET a == AreaFor(k, d)
      n == lru.last[a]
  IN
  /\ a # NoArea
  /\ freesize < AreaSize(a)
  /\ n # NULL
  /\ StoreIn(n, a, k, d, LruFree(lru, node[n].freeareaid, n), bucket, nodenum)
  /\ ret' = Reply(op, 0, n, NoItem, NULL)
  /\ UNCHANGED <<carved, freesize>>

(* There is too little free space: the last node of the area's LRU list is *)
(* used again, and the item it holds, if any, leaves the cache through the *)
(* erase callback.                                                         *)
StoreReused(op, k, d) ==
  LET a    == AreaFor(k, d)
      n    == lru.last[a]
      live == node[n].hashindex # InvalidHash
      h    == node[n].hashindex
  IN
  /\ a # NoArea
  /\ freesize < AreaSize(a)
  /\ n # NULL
  /\ StoreIn(n, a, k, d, LruFree(lru, node[n].freeareaid, n),
             IF live THEN [bucket EXCEPT ![h] = @ \ {n}] ELSE bucket,
             IF live THEN [nodenum EXCEPT ![h] = @ - 1] ELSE nodenum)
  /\ ret' = Reply(op, 0, n, NoItem, IF live THEN node[n].key ELSE NULL)
  /\ UNCHANGED <<carved, freesize>>

(* ccache_allocate returns NULL.                                           *)
StoreFailed(op, k, d) ==
  LET a == AreaFor(k, d) IN
  /\ \/ a = NoArea
     \/ a # NoArea /\ freesize < AreaSize(a) /\ lru.last[a] = NULL
  /\ errno' = "ALLOC_NODE_ERROR"
  /\ ret' = Failure(op)
  /\ UNCHANGED <<carved, node, freesize, bucket, nodenum, lru>>

Store(op, k, d) ==
  StoreFresh(op, k, d) \/ StoreReused(op, k, d) \/ StoreFailed(op, k, d)

-----------------------------------------------------------------------------
(* Working on a node that holds the key.                                   *)

Advanced(n) == LruAdvance(lru, node[n].freeareaid, n)

(* Mutant of Overwrite: the node takes over the size of the new data.      *)
OverwriteResizing(op, n, d) ==
  /\ node' = [node EXCEPT ![n].data = d, ![n].datasize = DataLen[d]]
  /\ lru' = Advanced(n)
  /\ errno' = "SUCCESS"
  /\ ret' = Reply(op, 0, n, NoItem, NULL)
  /\ UNCHANGED <<carved, freesize, bucket, nodenum>>

(* memcpy into the node copies as many bytes as the item has had since it  *)
(* was inserted: node->datasize stays.  Of longer data that is their       *)
(* beginning; of shorter data all of them, and what lies behind them.      *)
Overwrite(op, n, d) ==
  /\ node' = [node EXCEPT ![n].data = d]
  /\ lru' = Advanced(n)
  /\ errno' = "SUCCESS"
  /\ ret' = Reply(op, 0, n, NoItem, NULL)
  /\ UNCHANGED <<carved, freesize, bucket, nodenum>>

-----------------------------------------------------------------------------
(* The calls.                                                              *)

(* ccache_insert: the item of a key that exists stays as it is.            *)
InsertExisting(k) ==
  \E n \in Found(k) :
    /\ lru' = Advanced(n)
    /\ errno' = "SUCCESS"
    /\ ret' = Reply("insert", 0, n, NoItem, NULL)
    /\ UNCHANGED <<carved, node, freesize, bucket, nodenum>>

Insert(k, d) ==
  \/ InsertExisting(k)
  \/ Found(k) = {} /\ Store("insert", k, d)

(* ccache_find: a miss does not touch ccache_errno.                        *)
FindHit(k) ==
  \E n \in Found(k) :
    /\ lru' = Advanced(n)
    /\ errno' = "SUCCESS"
    /\ ret' = Reply("find", 0, n, ItemOf(n), NULL)
    /\ UNCHANGED <<carved, node, freesize, bucket, nodenum>>

FindMiss(k) ==
  /\ Found(k) = {}
  /\ ret' = Failure("find")
  /\ UNCHANGED <<carved, node, freesize, bucket, nodenum, lru, errno>>

Find(k) == FindHit(k) \/ FindMiss(k)

(* ccache_update: the caller must give data of the size the item has (the  *)
(* note in ccache.h).  On a miss the functor sets CCACHE_KEY_NOT_EXIST,    *)
(* then ccache_update sets CCACHE_KEY_EXIST.                               *)
UpdateHit(k, d) ==
  \E n \in Found(k) :
    DataLen[d] = node[n].datasize /\ Overwrite("update", n, d)

UpdateMiss(k) ==
  /\ Found(k) = {}
  /\ errno' = "KEY_EXIST"
  /\ ret' = Failure("update")
  /\ UNCHANGED <<carved, node, freesize, bucket, nodenum, lru>>

Update(k, d) == UpdateHit(k, d) \/ UpdateMiss(k)

(* ccache_set, with or without an update function from the caller: nothing *)
(* is said or asked of the size of the data.                               *)
SetHit(k, d, merge) ==
  \E n \in Found(k) :
    Overwrite("set", n, IF merge THEN Merge[<<node[n].data, d>>] ELSE d)

Set(k, d, merge) ==
  \/ SetHit(k, d, merge)
  \/ Found(k) = {} /\ Store("set", k, d)

(* Mutants of EraseHit: hashindex is not reset; freeareaid is reset too.   *)
EraseHitStillLive(k) ==
  \E n \in Found(k) :
    /\ bucket' = [bucket EXCEPT ![Hash[k]] = @ \ {n}]
    /\ nodenum' = [nodenum EXCEPT ![Hash[k]] = @ - 1]
    /\ lru' = LruReturn(lru, node[n].freeareaid, n)
    /\ errno' = "SUCCESS"
    /\ ret' = Reply("erase", 0, n, ItemOf(n), NULL)
    /\ UNCHANGED <<carved, node, freesize>>

EraseHitCleared(k) ==
  \E n \in Found(k) :
    /\ bucket' = [bucket EXCEPT ![Hash[k]] = @ \ {n}]
    /\ nodenum' = [nodenum EXCEPT ![Hash[k]] = @ - 1]
    /\ node' = [node EXCEPT ![n] = EmptyNode(0)]
    /\ lru' = LruReturn(lru, 0, n)
    /\ errno' = "SUCCESS"
    /\ ret' = Reply("erase", 0, n, ItemOf(n), NULL)
    /\ UNCHANGED <<carved, freesize>>

(* ccache_erase: the node leaves its bucket and goes to the end of the LRU *)
(* list, where it stays without an item until it is used again.  (Its old  *)
(* bytes stay in it too; the code reads none of them.)                     *)
EraseHit(k) ==
  \E n \in Found(k) :
    /\ bucket' = [bucket EXCEPT ![Hash[k]] = @ \ {n}]
    /\ nodenum' = [nodenum EXCEPT ![Hash[k]] = @ - 1]
    /\ node' = [node EXCEPT ![n] = EmptyNode(@.freeareaid)]
    /\ lru' = LruReturn(lru, node[n].freeareaid, n)
    /\ errno' = "SUCCESS"
    /\ ret' = Reply("erase", 0, n, ItemOf(n), NULL)
    /\ UNCHANGED <<carved, freesize>>

EraseMiss(k) ==
  /\ Found(k) = {}
  /\ errno' = "KEY_NOT_EXIST"
  /\ ret' = Failure("erase")
  /\ UNCHANGED <<carved, node, freesize, bucket, nodenum, lru>>

Erase(k) == EraseHit(k) \/ EraseMiss(k)

(* ccache_visit: every node of every bucket is shown to the visitor.       *)
Visit ==
  /\ ret' = [Reply("visit", 0, NULL, NoItem, NULL) EXCEPT !.seen =
               [k \in Key |-> Cardinality({s \in HashItem \X Node :
                    s[2] \in bucket[s[1]] /\ node[s[2]].key = k})]]
  /\ UNCHANGED <<carved, node, freesize, bucket, nodenum, lru, errno>>

Next ==
  \/ \E k \in Key, d \in Data : Insert(k, d) \/ Update(k, d)
  \/ \E k \in Key, d \in Data, merge \in BOOLEAN : Set(k, d, merge)
  \/ \E k \in Key : Find(k) \/ Erase(k)
  \/ Visit

Spec == Init /\ [][Next]_vars

-----------------------------------------------------------------------------
(* Properties.                                                             *)

NodeFields ==
  [hashindex : HashItem \cup {InvalidHash}, freeareaid : Nat,
   key : Key \cup {NULL}, data : Data \cup {NULL}, datasize : Nat]

Pointers ==
  [first : [Area -> Node \cup {NULL}], last : [Area -> Node \cup {NULL}],
   next  : [Node -> Node \cup {NULL}], prev : [Node -> Node \cup {NULL}]]

Live(n)      == node[n].hashindex # InvalidHash
NodesOf(a)   == {n \in carved : node[n].freeareaid = a}

(* Type invariant.                                                         *)
TypeOK ==
  /\ carved \subseteq Node
  /\ node \in [Node -> NodeFields]
  /\ freesize \in Nat
  /\ bucket \in [HashItem -> SUBSET Node]
  /\ nodenum \in [HashItem -> Int]
  /\ lru \in Pointers
  /\ errno \in {"SUCCESS", "KEY_EXIST", "KEY_NOT_EXIST", "ALLOC_NODE_ERROR"}
  /\ ret.rc \in {0, -1} /\ ret.node \in Node \cup {NULL}

(* The buckets and the nodes agree, whatever was stored, evicted, erased   *)
(* and stored again in between: a node is in a bucket exactly while it     *)
(* holds an item and then in the bucket its hashindex names, which is the  *)
(* one its key hashes to; no key is stored twice; nodenum counts.          *)
BucketsConsistent ==
  /\ \A h \in HashItem :
       /\ bucket[h] = {n \in carved : node[n].hashindex = h}
       /\ nodenum[h] = Cardinality(bucket[h])
  /\ \A n \in carved : Live(n) => Hash[node[n].key] = node[n].hashindex
  /\ \A n, m \in carved :
       Live(n) /\ Live(m) /\ node[n].key = node[m].key => n = m

(* An LRU list never leads out of its freearea: the ends of the list and   *)
(* the neighbours of each of its nodes are nodes of the same freearea,     *)
(* even where the list is damaged.  An eviction that crossed over would    *)
(* put an item into a node that is too small for it.                       *)
LruStaysInArea ==
  /\ \A a \in Area : {lru.first[a], lru.last[a]} \subseteq NodesOf(a) \cup {NULL}
  /\ \A n \in carved :
       {lru.next[n], lru.prev[n]} \subseteq NodesOf(node[n].freeareaid) \cup {NULL}

(* The item of every node fits the node: header, key and data are at most  *)
(* the size of the freearea the node was made for.                         *)
ItemFitsNode ==
  \A n \in carved :
    /\ node[n].freeareaid \in Area
    /\ Live(n) => NodeSize(KeyLen[node[n].key], node[n].datasize)
                     <= AreaSize(node[n].freeareaid)

(* As soon as a freearea owns a node, ccache_allocate has one to take      *)
(* back: a store of that size never again fails for lack of memory.        *)
AreaStaysEvictable ==
  \A a \in Area : NodesOf(a) # {} => lru.last[a] # NULL

(* A node keeps the freearea, and so the size, it was carved with.         *)
NodeKeepsSize ==
  [][\A n \in carved : /\ n \in carved'
                       /\ node'[n].freeareaid = node[n].freeareaid]_vars

(* The store that follows an erase in the same freearea finds room without *)
(* evicting any item: the erased node is at lrulast, and without an item.  *)
EraseMakesRoom ==
  [][\A k \in Key, d \in Data :
       /\ ret.op = "erase" /\ ret.rc = 0
       /\ Found(k) = {}
       /\ AreaFor(k, d) = node[ret.node].freeareaid
       /\ Insert(k, d) \/ Set(k, d, FALSE)
       => ret'.rc = 0 /\ ret'.victim = NULL]_vars

(* The freearea of every item, as a table.                                 *)
AreaOfItem == [p \in Key \X Data |-> AreaFor(p[1], p[2])]

(* The map the nodes and buckets stand for, and the visible part of ret.   *)
Items ==
  [k \in Key |->
     IF Found(k) = {} THEN [data |-> NULL, datasize |-> 0, class |-> NoArea]
     ELSE LET n == CHOOSE n \in Found(k) : TRUE
          IN  [data |-> node[n].data, datasize |-> node[n].datasize,
               class |-> node[n].freeareaid]]

Visible == [op |-> ret.op, rc |-> ret.rc, item |-> ret.item,
            victim |-> ret.victim, seen |-> ret.seen]

Map == INSTANCE CacheMap WITH
         items <- Items, reply <- Visible,
         Class <- AreaOfItem, NoClass <- NoArea

(* The calls do to nodes, buckets, lists and free space what CacheMap      *)
(* says of items: what was stored under a key is what find returns      *)
(* until it is replaced, erased or evicted; a store costs at most one      *)
(* other item, of the same freearea, which the erase callback is given; a  *)
(* store fails only when no item could make room for it; visit shows every *)
(* item once.                                                              *)
MapSpec == Map!Spec

(* "set the key with the data, no matter if or not the key exists": after  *)
(* a set that returns 0 the key has the data it was given, all of them and *)
(* nothing else, whatever item it had before.                              *)
SetStoresData ==
  [][\A k \in Key, d \in Data :
       Set(k, d, FALSE) /\ ret'.rc = 0 =>
         \E n \in Found(k)' : ItemOf(n)' = [data |-> d, datasize |-> DataLen[d]]]_vars

(* The nodes ccache_allocate reaches from lrulast, one eviction after the  *)
(* other, as long as nothing else moves.                                   *)
FromLast(a) ==
  LET back[i \in 0 .. Cardinality(Node)] ==
        IF i = 0 THEN lru.last[a]
        ELSE IF back[i - 1] = NULL THEN NULL ELSE lru.prev[back[i - 1]]
  IN  {back[i] : i \in DOMAIN back} \ {NULL}

(* Every node of a freearea is on its LRU list.                            *)
EveryNodeOnList == \A a \in Area : FromLast(a) = NodesOf(a)
=============================================================================
