# A TLA+ verification of commoncache

commoncache is a C library that keeps a cache of key/data items in a
memory-mapped file, which several processes may share. It has a hash table
whose buckets are linked lists or red-black trees, a slab-like allocator with
size classes, and an approximate LRU eviction per size class. This directory
holds TLA+ models of it, the TLC runs that check them, and TLAPS proofs.

Paths below are relative to the repository.

## The system

| part | code | state | operations |
|---|---|---|---|
| size classes and data zone | `src/ccache_memory.c` | array `freearea[i].size`, `start_free`, `freesize`, the nodes | `ccache_init_freearea`, `ccache_prealloc`, `ccache_allocate`, `ccache_get_freeareaid` |
| LRU lists | `src/ccache_lrulist.c` | per freearea `lrufirst`, `lrulast`; per node `lrunext`, `lruprev` | `advance`, `free`, `return` |
| bucket, as a list | `src/ccache_list.c` | per hashitem `first`, `nodenum`; per node `next`, `prev` | the functions of `ccache_functor_t` |
| bucket, as a tree (default build) | `src/ccache_rbtree.c` | per hashitem `root`, `nodenum`; per node `parent`, `left`, `right`, `color` | the same functions |
| cache operations | `src/ccache.c` | all of the above, `ccache_errno`, statistics | `insert`, `find`, `update`, `set`, `erase`, `visit`, `open`, `close` |
| lock | `src/ccache_lock.c` | a process-shared `pthread_rwlock_t` in the file | init; write lock around every call, read lock around `visit` |
| mapped file | `src/ccache_memory.c`, `src/ccache.c` | the file, its size, the mapping, `init` | `ccache_create_mmap`, `ccache_destroy_mmap` |
| configuration | `src/ccache_config.c`, `src/ccache_util.c` | process globals `cache_config`, `cache_align_size` | reading a file, defaults |
| hash | `src/ccache_hash.c` | none | Jenkins' hash modulo `hashitem` |

How they interact. A call of `ccache.c` hashes the key, takes the lock and
calls a function of the bucket. A store calls back down into
`ccache_allocate`, which takes bytes from the free end of the data zone; when
these are too few for the size class, it takes the node at `lrulast` of that
class, and, if this node holds an item, calls the *bucket's* erase function on
the bucket the old item is in, and the user's erase callback. That bucket may
be the one the store is in the middle of. Back in `ccache.c` the node is
advanced on its LRU list by one place, and the lock is released.

What is hard. The LRU list is not a well-formed doubly linked list: a new node
is appended without its predecessor pointing to it, and an erased node is
linked at the end without being unlinked. Everything that follows works on
damaged lists, and what still holds of them is not obvious. Evictions reach
into other buckets, or into the bucket at work. The arithmetic of the size
classes has edges at exactly full nodes. `cache_align_size` belongs to the
process, not to the cache. The file outlives the processes, and the lock in it
can be left locked or be initialized again. `PROJECT.json` lists these hazards
one by one, at their lines.

What makes each part correct: nodes are disjoint and inside the file, and
items fit their nodes (data zone); an eviction finds a node, of the right
class (LRU); a bucket is a set of keys (list, tree), the tree is balanced;
the cache is a map that loses items only to evictions, which it reports
(operations).

## The modules

`SizeClass` is the arithmetic of the allocator, without state: `RoundUp`,
`AreaSize`, `FreeareaNum`, `FreeareaId`. Sizes are integers without a width;
the sums the code forms stay far from 2^31 in any configuration whose file can
be mapped, except `size * prealloc_num`, which is not modelled as wrapping.

`Arena` runs `ccache_init_freearea` and `ccache_prealloc` loop round by loop
round (`SizeArea`, `SizesDone`, `PreallocNode`, `PreallocNextArea`,
`PreallocDone`) and then `ccache_allocate` (`Carve`, `Reuse`, `Refuse`), at
the level of byte offsets into the data zone. Which old node is used again is
left open here. `OpenAnother` is the process opening another cache, which
overwrites `cache_align_size`.

`LruList` has the three functions of `ccache_lrulist.c` as operators on a
record of all LRU pointers. They make the assignments in the order of the C
code, because in a damaged list several of the pointers involved can be one
node. There is no assumption that the list is well-formed.

`Cache` has one action per outcome of a call of `ccache.c`: `InsertExisting`,
`StoreFresh`, `StoreReused`, `StoreFailed`, `FindHit`, `FindMiss`,
`UpdateHit`, `UpdateMiss`, `SetHit`, `EraseHit`, `EraseMiss`, `Visit`. A call
is one step, since it holds the write lock from beginning to end; `Sharing` has
what happens when the lock fails. A bucket is the set of its
nodes; `HashList` and `RBTree` justify this. `node[n]` has the fields of a node
apart from its LRU pointers; of an erased node's key and data, which no code
reads again, nothing is kept. `ret` is what the caller learns: return code,
node, copied data, the item given to the erase callback, and how often
`visit` was called for each key.
Callers keep the one rule `ccache.h` has for them: the data of an update have the
size of the item. It has none for a set: `SetHit` takes data of any size.

`CacheMap` is what callers see: a map from keys to items. A store costs
at most one other item, one of the same size class, and says which; it fails
only for an item that is too large, or when no item of its class is stored. It is
what `ccache.h` says of the calls but for two: an insert of a key that exists stores
nothing, and a set of one keeps the size of the item, so that data of another size
are not what the key has then. The second is a finding (`SetKeepsSize`).
`Cache` implements `CacheMap` under the mapping `Items`, `Visible` at the end of `Cache`.

`Bucket` is the promise of `ccache_functor_t` to `ccache.c`: a set of keys.
`HashList` (`ccache_list.c`) and `RBTree` (`ccache_rbtree.c`) implement it. In
both, a store that evicts an item of the same bucket takes two steps, the erase
and the linking, with the search for the tree node's parent before the erase,
as in the code. In `RBTree` each round of `ccache_rbtree_insert_rebalance` and
`ccache_rbtree_erase_rebalance` is a step; the mirror-image halves of the C
functions are one definition with a direction. `key[n]` is NULL for any node
that is not in this bucket (free, erased, or in another bucket), so `Erase`
also stands for an eviction by a store into another bucket.

`MapFile` is the life of the cache file, system call by system call: the opens
of several processes (`OpenPath`, `Stat`, `Unlink`, `Create`, `Extend`, `Map`,
`Clear`, `Adopt`, `LayHead`, `LayAreas`), the ways they fail, `Close`, and what
the system does around them (`Fork`, `Die`). A process may die at any point, and
two opens may interleave anywhere. `name` is the file the path names, `file` has
what of each file's contents matters to a process that uses it: its size, how far
it is laid out, from which addresses its pointers were made, the lock, the
descriptor number, and one item. Dying stands also for the signals a process gets
when it uses a file that another one has truncated, a pointer that leads nowhere
here, or a `hashitemnum` of 0: such a process has no other step.

`Sharing` adds the calls, as others see them: `Call`, `WriteLock`, `Find`, `Miss`,
`Store`, `Unlock`; for `ccache_visit` `ReadLock`, `VisitItem`, `VisitEnds`;
`Nest` and `NestInVisit` are callbacks that call the cache. The read-write lock is
that of the C library (NPTL): a nested call of a writer gets EDEADLK, a positive
number, and the code, which tests for negative ones, goes on; one of a reader waits
for itself. Unlocking a lock that is somebody else's by now (`UnlockForeign`) is
undefined and may do nothing, take it away, or leave it locked.

The code relies on rules of use that it nowhere states. The history variable
`broken` has those that were not kept, so that every property of `Sharing` says on
which of them it depends. No step is forbidden by them, nor by what was broken before.

| rule | a process keeps it by |
|---|---|
| forks | opening only when no other one has the cache: the others get it by `fork` |
| opens | not opening while another one opens |
| quiet | not opening while others are in a call, and not calling meanwhile |
| in use | not clearing a cache that others have, nor changing its size |
| whole | reusing (`init=0`) only a cache that was laid out to the end and that nobody has died in the middle of |
| place | reusing it only where its pointers are valid |
| flat | callbacks that do not call the cache |

`Config` is `ccache_config.c`: reading a file, or none, and the defaults. What
`fgets` returns is a piece: a line with its newline, or, without, the beginning of
a line that is too long, or a last line. The parser cuts the last character of every
piece (`Cut`): without a newline that is a blank, a digit (16 becomes 1), the last
character of a text (which may leave a number), the equals sign of an item without a
value, or a part of the section's name. `config` and `align` are the process wide variables; one behaviour
reads many files. `OpenOwn` is `ccache_open2` with a configuration of the caller,
which nobody checks.

`MCCache`, `MCRBTree`, `MCSharing` and `MCConfig` hold the small instances for TLC.
The proofs are in modules of their own: `SizeClassProofs`, `ArenaProofs`, `CacheProofs`
and `MapProofs` (of `Cache`), `HashListProofs`, `RBTreeProofs`, `SharingProofs`,
`ConfigProofs`.

How the levels fit. `Cache` uses `SizeClass` and `LruList` directly. What it
takes from `Arena` is that the free space shrinks by the size of the area of
each carved node, that the areas have the sizes `AreaSize`
(`SizesAsComputed`), and that a node is nobody else's (`BlocksDisjoint`). What
it takes from a bucket is `Bucket`. That a call is one step in `Cache` is justified
by `ReadsStayTrue` and `Exclusive` of `Sharing`, and holds under the rules quiet and
flat only. `Arena` starts with an alignment that is a power of two and in force, as
`Defaults` of `Config` leaves it; its `OpenAnother` is a later `Defaults`. The
lookup by `hashindex` needs the pointers of the file, which is `PointersLead`.

## What the runs show

| run | module | states | shows |
|---|---|---|---|
| `MCArena` | Arena | 5 000 | nodes never overlap, not even with the array before them or the free space behind them (`BlocksDisjoint`); every item fits (`ItemFits`); `freesize` is what is left of the file (`ZoneAccounted`); the loop yields the sizes `SizeClass` computes (`SizesAsComputed`) |
| `CacheLists` | MCCache | 72 000 | with two freeareas and four nodes, LRU pointers stay in their freearea (`LruStaysInArea`), items fit nodes (`ItemFitsNode`), a node never changes its freearea (`NodeKeepsSize`), buckets and nodes agree (`BucketsConsistent`), there is always a node to evict (`AreaStaysEvictable`), the store after an erase finds room without evicting (`EraseMakesRoom`) |
| `CacheMapOf` | MCCache | 570 | `Cache` implements `CacheMap` (`MapSpec`) |
| `HashList` | HashList | 23 000 | the list stays doubly linked (`Linked`), a hit swaps two neighbours only (`HitMovesUpByOne`), the list implements `Bucket` (`BucketSpec`) |
| `RBTree` | MCRBTree | 1 030 000 | pointers agree at every step of every rotation (`PointersAgree`), `nodenum` counts (`NodeNumCounts`), the sibling the erase loop reads exists (`SiblingExists`), the loops end (`RoundsDescend`), the tree is red-black between calls (`Balanced`) and implements `Bucket` (`BucketSpec`) |
| `Sharing` | MCSharing | 380 000 | what holds of a cache several processes share, see below |
| `Config` | MCConfig | 200 000 | a file with lines that fit means what it says, and reading it fails just when it should; a last line without its newline loses no more than its last character (`MeansWhatItSays`) |

What `Sharing` shows, and the rules each property depends on:

| property | says | rules |
|---|---|---|
| `ReadsStayTrue` | what a call or a visitor has read stays true until it is done | quiet, flat |
| `WorksOnWhole` | no call works on a cache that is half laid out or has another call half done in it, also after deaths | opens, in use, whole; for half done calls quiet and flat too |
| `OneCache` | all processes have the cache that the path names | opens, in use |
| `PointersLead` | the pointers of the file are valid in every process that has it open | opens, in use, place |
| `ClosesOwn` | `ccache_close` closes a descriptor of its own | forks, opens |
| `CacheSurvives` | a whole cache is lost only to an open that asks for init or for another size | opens |
| `CallsGoOn` | every call ends or waits for one that is inside; or else its process can only die, a visitor has called the cache, or the lock has been left locked and stays so | none |

A rule is an assumption: the hazard behind it is in the model, but a property that
depends on the rule does not speak of it. Nothing in the code makes processes keep the
rules, and `PROJECT.json` says of each such hazard that no property covers it.

Five runs show where the code departs from what its comments and documents
say; TLC is to find the violation.

| run | property | what happens |
|---|---|---|
| `ArenaMaxSize` | `RefusedOnlyTooLarge` | `ccache_get_freeareaid` rounds an exact size up to the next area, so an item of `max_size` bytes is refused |
| `ArenaRealign` | `ItemFits` | after another cache with a larger `alignsize` has been opened in the process, nodes that are too small are handed out |
| `LruKeepsNodes` | `EveryNodeOnList` | after three inserts and a find, a node is out of reach of evictions |
| `SetKeepsSize` | `SetStoresData` | a set of a key that exists, with data of another size, returns 0; the item keeps its old size: longer data are cut, and of shorter ones the bytes behind them are read too |
| `SharingExclusive` | `Exclusive` | a process that opens the cache initializes the lock another one holds; two are inside at once |

Other behaviour a reader of the headers might not expect is part of the model:
`set` and `update` copy as many bytes as the item had when it was inserted
(`Overwrite`), `insert` of a key that exists returns 0 and stores nothing
(`InsertExisting`), a size class that got no node before the free space ran
out can never store (`StoreFailed`), `update` of an absent key reports
`CCACHE_KEY_EXIST` over the bucket's `CCACHE_KEY_NOT_EXIST` (`UpdateMiss`), the rest
of a comment of more than 49 characters is parsed as an item, and a last line without
its newline loses its last character (`Cut`). The document gives 10 as the default of
`prealloc_num`, the code 100 (`DefVal`). `ccache_t` in `src/include/ccache.h`
declares no field `fd`, which `src/src/ccache_memory.c` uses at lines 93 and 101, so
the tree does not compile as it is; `MapFile` takes the field to be there.

### Bounds

* Arena: `NodeHeader` 4, sizes 2 to 12, step 4, so three freeareas; requests
  that fill the first one exactly, fall into the second and the third, and fit
  none. 100 bytes hold up to nine nodes; 20 bytes make the open fail in the
  second round. `OtherAligns` = {2} in the passing run, {8} in `ArenaRealign`.
* Cache: four nodes in two freeareas, of which one class may have up to three;
  three keys of which two share a bucket, data of two sizes. Three nodes in one
  freearea give every list with a first, a last and a middle, and every damaged form
  of it, cycles included; two freeareas suffice for a pointer to lead from one to
  another. `CacheMapOf` has fewer nodes and more data: two nodes suffice for a store
  to cost another item. Nodes, and the two keys of one bucket, are interchangeable
  (`MCSymmetry`). The view `WithoutReply` leaves out what no call reads, the reply
  and the error number, but for the node an erase has freed. No such run checks
  liveness. `Node` has as many members as the data zone has room for, so carving is
  bounded by `freesize`, as in the code.
* HashList: four nodes and keys, so that a node can have two neighbours and
  one more beyond them, all of which `ccache_list_advance` touches.
* RBTree: ten nodes and keys, since ten are needed before an erase climbs
  twice. States that differ only in which node holds which key are identified, and
  the reply is left out (view `ByShape`). That hides nothing from `BucketSpec`, which
  TLC checks on every step, also on one that leads to a state it has seen: no step
  reads the reply, those in the middle of a call leave it as it is, and `Bucket` speaks
  only of the reply a step gives.
* Sharing: two processes, which can die and come back; each has a place of its own, so
  that two opens agree neither on addresses nor on descriptors (a process that comes
  back elsewhere differs from one that died and another that opens only in its
  name); two sizes, one of
  which fails in `ccache_init_freearea`; three files, the most two processes can keep
  in existence; an item modulo 2, which is enough to see that it has changed. One
  step of a behaviour may break rules, `forks` not counted (`OneBreach`, an action
  constraint of `MCSharing`: without it there are more than 20 million states). It may
  break several at once. So TLC sees every property with each way of breaking the rules
  it allows, but not one breach after another; `Spec` has no such bound, and the proofs
  in `SharingProofs` hold without it. Opens, the beginnings of
  calls, and callbacks that call break rules, no step that fairness is about: a fair
  behaviour within the bound is one of `Spec`, and the bound makes no wait end.
  `SharingExclusive` has no bound. Liveness is checked, so no symmetry is used.
* Config: every file of up to four pieces, of twelve kinds of line, with and without
  newline: a section, two lines for one item, and another one. A text that loses its last
  character may become nothing, another text or a number, good or bad (`TextCut`).

### Fairness

Only `Sharing` assumes fairness, `WF_vars(CallStep(p))` for each process: the code
between taking the lock and releasing it has no loop that waits, so a process that is
scheduled and not dead gets on with it, and gets a lock that stays free. Callbacks are
assumed to return, not to make calls. Nothing is assumed of opens, of closes, of new
calls, or that a waiting writer is preferred: `CallsGoOn` therefore lets a call wait as
long as others are inside, which with a stream of readers may be for ever.

`RBTree` needs no fairness for the ends of its loops: `RoundsDescend` says that every
round leaves fewer to come, and the deadlock check that there is a next one.

`CHECK_DEADLOCK FALSE` is set for `Arena` only: a failed open, or a cache
with nothing left to refuse, ends the behaviour.

## What is proved

TLAPS checks the following for all values of the constants that satisfy the named
assumptions of the modules: any finite set of nodes, any keys, data, sizes, hash
function, alignment and preallocation, any number of processes.

* `SizeClassProofs!FreeareaFits`: the area `ccache_get_freeareaid` returns is
  at least as large as the request, provided that `cache_align_size` is not
  larger than the step of this cache. `ArenaRealign` shows the proviso is
  needed.
* `ArenaProofs`: all invariants of the run `MCArena` for any sizes, alignment,
  preallocation and data zone: `TypeCorrectness`, `NodesStayDisjoint`
  (`BlocksDisjoint`), `ZoneStaysAccounted` (`ZoneAccounted`), `LoopBuildsAreas`
  (`SizesAsComputed`), and `ItemsFit` (`ItemFits`), the last for processes that open
  no cache with a larger alignment.
* `CacheProofs`: `TypeCorrectness` (`TypeOK`, in particular `freesize` never
  goes below 0), `BucketsStayConsistent` (`BucketsConsistent`),
  `ListsStayInArea` (`LruStaysInArea`), `ItemsFit` (`ItemFitsNode`) and
  `NodesKeepSize` (`NodeKeepsSize`).
* `MapProofs`: `AlwaysEvictable` (`AreaStaysEvictable`), `ErasesMakeRoom`
  (`EraseMakesRoom`), and that `Cache` implements `CacheMap`: `ImplementsMap`
  (`MapSpec`).
* `HashListProofs`: `TypeCorrectness`, `AlwaysLinked` (`Linked`), `HitsSwap`
  (`HitMovesUpByOne`), and that the list implements `Bucket`: `ImplementsBucket`
  (`BucketSpec`), for lists of any length.
* `RBTreeProofs`: `TypeCorrectness`, `AlwaysBalanced` (`Balanced`), `PointersAlwaysAgree`
  (`PointersAgree`), `SiblingAlwaysExists` (`SiblingExists`), `NodeNumAlwaysCounts`
  (`NodeNumCounts`), `RoundsAlwaysDescend` (`RoundsDescend`: the loops end), and that
  the tree implements `Bucket`: `ImplementsBucket` (`BucketSpec`), for trees of any size.
* `ConfigProofs`: `TypeCorrectness` and `FilesMeanWhatTheySay` (`MeansWhatItSays`),
  for files of any length.
* `SharingProofs`: `TypeCorrectness`, `ReadsTrue` (`ReadsStayTrue`) and `LockExcludes`
  (`Exclusive` under the rules quiet and flat), for any number of processes, places
  and configurations. That the number of files is larger than that of processes
  (`MapFileAssumption`) is needed for `Fresh`: there is always another file. And, in
  the second half of the module, the other safety properties of `Sharing`:
  `OneCacheForAll` (`OneCache`), `PointersValid` (`PointersLead`), `ClosesItsOwn`
  (`ClosesOwn`), `WholeForCalls` (`WorksOnWhole`) and `Survives` (`CacheSurvives`).

The argument in `CacheProofs`. The inductive invariant `IInv` is the conjunction of `TypeOK`,
`BucketsConsistent`, `LruStaysInArea`, `ItemFitsNode` and `ItemsTyped` (a node
with an item has a key and data). No conjunct is inductive alone. That an item
fits after an eviction needs `LruStaysInArea`, as the code takes whatever
`lrulast` names; that the lists stay in their freearea needs `ItemFitsNode`'s
range of `freeareaid` and that a new node is not yet carved; that buckets stay
consistent when a node is evicted needs that a node with an item is in exactly
the bucket its `hashindex` names. The lists are not well-formed, so nothing
about their order can be used. What replaces it is `Closed`: the ends and the
neighbours of every carved node lie in the same freearea, or are NULL. Part 1
of `CacheProofs` shows that every assignment of `LruList` through pointers that
were read from such a list keeps it closed (`SetClosed`, `ReadClosed`), then
each of the three functions. Part 2 treats what `StoreFresh` and `StoreReused`
have in common (`StoreInPreserves`); Part 3 has one lemma per call.

The argument in `MapProofs`. That a class which has got a node can always evict is not
inductive: it says nothing of the order of nodes, which erases damage. What survives
all of `advance`, `free` and `return` is `Anchored`: if there are nodes there is an
`lrulast`; every node but `lrufirst` has an `lruprev`; and when `lrufirst` is also
`lrulast`, it does not follow itself, and if besides nothing is before it, it is the
only node. The last part is what TLC's counterexamples to weaker versions asked for:
an erase of the node at both ends must find it again at `lrulast`. `ErasedIsNext`
says that it does, and `EraseMakesRoom` follows. The refinement needs of `IInv` only
that keys and buckets are consistent. `Meaning` says which item the mapping `Items`
gives a key: that of the one node which holds it (the `CHOOSE` in `Items` is of a set
of at most one). A store changes `Items` at its key and at the key of the node's old
item (`Puts`); every other call changes at most one.

The argument in `HashListProofs`. The invariant says that there *is* a sequence `s` of
`nodenum` distinct nodes such that `first`, `next` and `prev` are what `s` asks for
(`Lists`) and the nodes with keys are those of `s` (`Holds`); besides that keys are
distinct (`Unique`) and that a store which has evicted owns a node outside the list and
a key nobody has (`Waits`). The three functions that change pointers put a node in
front of `s`, take one out, or swap two neighbours: `FrontLists`, `WithoutLists`,
`SwappedLists`, each from what the C assignments, in their order, do to the fields
(`PrependedFields`, `RemovedFields`, `AdvancedFields`). `Found` and `Chain` recur along
`next`. That such a function exists is shown by writing it down (`FollowsExists`,
`WalksExists`), that it has the value it should by going back from the end of `s`
(`NoLast`, from the least element of a set of numbers): `FoundMeans`, `ChainMeans`.

The argument in `RBTreeProofs`. The invariant says that there *are* two functions on the
nodes. `sub` gives the set of the nodes below each node, itself included
(`SearchTree`): it carries the order of the keys and rules out cycles, and since it
shrinks on the way down, a finite set of nodes has a lowest one with any property
(`Induct`), which stands for induction on the height of the tree. `b` gives the number
of black nodes on the ways down, the same on both sides of every node (`Levels`), except
that during an erase one may be lacking on the side of `at` (`Lack`). `Shape` says which
colors are allowed: between calls `RedBlack`; while an insert climbs, `at` is red and
may have a red parent (`Growing`); while an erase climbs, `at` may be black and one
short (`Rebalancing`). None of the properties is inductive: that the sibling exists
needs that the black nodes on both ways are counted, the count needs the colors, and both
need that the links form a tree. The rest of `TreeInv` says that nodes outside of the
tree have no links (`Blank`), what `nodenum` is while a call is under way (`Extra`), and
which node a store that has evicted owns (`Waits`).

Part 1 of the module says what the assignments of the C code do, field by field;
Part 2, that rotations, linking a leaf and taking a node out keep the order and change
`sub` at few nodes; Part 3, that `Search`, `Successor`, `InOrder` and the height of
`Balanced` have exactly one solution (shown by naming it) and mean what they should;
Part 4, what colors and turns do to `b`; Part 5, how nodes come and go; Parts 6 and 7 have
one lemma per action; Part 8 the theorems. Part 9 is about
`RoundsDescend`: the number of nodes above a node, itself included, is the only solution
of the recursion of `Depth` (`DepthMeans`), and a round either goes on higher up or
leaves the loop's condition false. It needs that the node on its way out still names a
parent in the tree, or none (`LeavingApart`): if it named itself, the recursion would
have no solution at all.

In `ArenaProofs` the invariant has one conjunct per phase. While the areas are sized,
`nodesize` plus what the areas so far take is `datasize`; while nodes are
preallocated, `start_free`, the bytes still reserved (`Reserved`) and `freesize` add up
to it. The reserved bytes are a sum over the areas to come, an arithmetic series,
which without induction is stated as a closed form that each round of the loop
changes by one summand (`Twice`, doubled to avoid the division). `BlocksDisjoint` rests on
all blocks ending at or before `start_free`.

In `SharingProofs` `IInv` is `Types`, `Alone` (while one process opens, and quiet has been
kept, all others are outside of calls; they may open too) and `Locked` (a process that is inside has the
lock its place in the call asks for, and a lock has a writer or readers, not both). None
of them needs to know what the file is or how many there are; what needs care is that a
file which loses its last user is emptied (`Reclaimed`) and may come back as another.

The second half of `SharingProofs` adds to it what is known of the file, one conjunct per property, each under
the rules it depends on: `OpensAlone` (one process opens at a time, and where it stands
in `ccache_create_mmap` tells how far the file is), `JoinsInUse` (while somebody has the
cache, a process that opens joins it with the right size and `init=0`, and leaves its
contents alone), `Reaches` (the pointers are right for all who have it, or are about
to), `SameNumber` (of the descriptor), `LaidOut`, and `CountedUnderLock` (a call that is
half done is the lock's writer, or died as such). `JoinsInUse` is what makes the others
inductive: it turns the eleven steps of an open into the four that can happen to a cache
in use.

In `ConfigProofs`, `MeansWhatItSays` speaks of the last valid line for an item, and the
code of the variables it overwrites. `Knows` relates the two after every line: what
`config` has is what the lines so far say, and `state` tells whether they are well
formed. The invariant `Tracks` says that it holds of one of the `Readings` of the file,
with its last line whole or cut; as long as lines fit, a piece that is followed by
another one had its newline, so that there was one reading of what came before
(`FgetsReadings`). `Ends` carries it through `Defaults`.

Model-checked only: the liveness property `CallsGoOn` of `Sharing`. Liveness under
fairness is out of the prover's reach. Induction is not, though its theorems cannot be
used as they are, since they take an operator: the least element of a set of numbers
(`LeastNat` in `HashListProofs`) follows from the well-foundedness of `<` and does the
same, as does `Induct` in `RBTreeProofs` for trees.

## What is not modelled

* The hash function (any function from keys to hashitems is considered), the
  line and file of an error, messages.
* Widths of integers: `int` overflow in sizes and in `atoi`.
* Threads: a process of `Sharing` has one. Two threads of one process differ from two
  processes in that they share `ccache_errno`, `cache_config` and `cache_align_size`.
* Failures of system calls other than `unlink` of a missing file: `fstat`, `lseek`,
  `write`, `mmap`, and `open` for lack of rights. Of the errors of the lock, EAGAIN, for
  too many readers.
* A mapping of a size other than the file's after a race of opens is "not backed", and its
  process can only die; that it may live on as long as it touches no missing page is
  left out. So is what a step through a wrong pointer does if it does not trap.
* A visitor whose nested call is `ccache_visit`, which gets a second read lock.
* Of the statistics `Sharing` has whether a call has been counted at the beginning and
  at the end, not their values.
* Tests, demo and build files.

## Plan

Threads in `Sharing`, with the process wide variables of `Config`.
