------------------------------- MODULE Arena -------------------------------
(***************************************************************************)
(* The data zone of the cache file, at the level of addresses: the loops   *)
(* of ccache_init_freearea and ccache_prealloc that lay out the freearea   *)
(* array and the first nodes, and ccache_allocate, which carves nodes off  *)
(* the unused end of the zone and, once that is too short, gives an old    *)
(* node of the same freearea a new item.  Which old node that is depends   *)
(* on the LRU lists (module Cache); here it is any of them.                *)
(*                                                                         *)
(* Addresses are byte offsets from cache->freearea, the start of the       *)
(* datasize bytes that ccache_count_cache_size adds to the file for the    *)
(* zone.                                                                   *)
(***************************************************************************)
EXTENDS SizeClass, Sequences, FiniteSets

CONSTANTS
  DataSizes,     \* values of the configuration item datasize
  AreaHeader,    \* sizeof(ccache_freearea_t)
  PreallocNum,   \* configuration item prealloc_num
  Requests,      \* key size + data size of the items callers store
  OtherAligns    \* alignsize of other caches the same process may open

ASSUME ArenaAssumption ==
  /\ DataSizes \subseteq Nat
  /\ AreaHeader \in Nat \ {0}
  /\ PreallocNum \in Nat
  /\ Requests \subseteq Nat
  /\ OtherAligns \subseteq Nat \ {0}

VARIABLES
  datasize,     \* cache->datasize, the bytes of the zone
  phase,        \* "sizes" and "prealloc": inside ccache_init_freearea;
                \* "ready": the cache is open; "failed": the open failed
  freearea,     \* the size field of the freearea array, as a sequence
  size,         \* the local variable size of the first loop
  nodesize,     \* the local variable nodesize, bytes not yet reserved
  area,         \* ccache_prealloc's loop index i
  count,        \* ccache_prealloc_freearea's loop index i
  start_free,   \* cache->start_free
  freesize,     \* cache->freesize
  blocks,       \* the nodes: address, freeareaid and bytes of their item
  refused,      \* the node sizes for which no freearea was found
  cache_align_size  \* the process wide variable of ccache_config.c

vars == <<datasize, phase, freearea, size, nodesize, area, count, start_free, freesize,
          blocks, refused, cache_align_size>>

zone   == <<start_free, freesize, blocks>>
layout == <<datasize, phase, freearea, size, nodesize, area, count>>

-----------------------------------------------------------------------------

(* A successful ccache_init_config has just set cache_align_size.          *)
Init ==
  /\ datasize \in DataSizes
  /\ phase = "sizes"
  /\ freearea = <<>>
  /\ size = NodeHeader + MinSize
  /\ nodesize = datasize
  /\ area = 0 /\ count = 0
  /\ start_free = 0 /\ freesize = 0
  /\ blocks = {} /\ refused = {}
  /\ cache_align_size = AlignSize

(* Mutants of SizeArea: the array itself is not paid for; sizes are not    *)
(* rounded up.                                                             *)
SizeAreaUnpaid ==
  LET rounded == RoundUp(size)
      left    == nodesize - rounded * PreallocNum
  IN  /\ phase = "sizes"
      /\ size <= AreaLimit
      /\ nodesize' = left
      /\ IF left < 0
         THEN phase' = "failed" /\ UNCHANGED <<freearea, size>>
         ELSE /\ freearea' = Append(freearea, rounded)
              /\ size' = rounded + AlignSize
              /\ UNCHANGED phase
      /\ UNCHANGED <<datasize, area, count, zone, refused, cache_align_size>>

SizeAreaUnrounded ==
  LET left == nodesize - (AreaHeader + size * PreallocNum)
  IN  /\ phase = "sizes"
      /\ size <= AreaLimit
      /\ nodesize' = left
      /\ IF left < 0
         THEN phase' = "failed" /\ UNCHANGED <<freearea, size>>
         ELSE /\ freearea' = Append(freearea, size)
              /\ size' = size + AlignSize
              /\ UNCHANGED phase
      /\ UNCHANGED <<datasize, area, count, zone, refused, cache_align_size>>

(* One round of the loop that sizes the freeareas and reserves their       *)
(* preallocated nodes.                                                     *)
SizeArea ==
  LET rounded == RoundUp(size)
      left    == nodesize - (AreaHeader + rounded * PreallocNum)
  IN  /\ phase = "sizes"
      /\ size <= AreaLimit
      /\ nodesize' = left
      /\ IF left < 0
         THEN phase' = "failed" /\ UNCHANGED <<freearea, size>>
         ELSE /\ freearea' = Append(freearea, rounded)
              /\ size' = rounded + AlignSize
              /\ UNCHANGED phase
      /\ UNCHANGED <<datasize, area, count, zone, refused, cache_align_size>>

(* The loop ends: what was not reserved is free space behind the array.    *)
SizesDone ==
  /\ phase = "sizes"
  /\ size > AreaLimit
  /\ freesize' = nodesize
  /\ start_free' = Len(freearea) * AreaHeader
  /\ phase' = "prealloc"
  /\ UNCHANGED <<datasize, freearea, size, nodesize, area, count, blocks,
                 refused, cache_align_size>>

(* A node of area i laid at the address start_free.                        *)
NewBlock(i, need) == [addr |-> start_free, area |-> i, need |-> need]

(* One round of ccache_prealloc_freearea: the next node of this area.      *)
PreallocNode ==
  /\ phase = "prealloc"
  /\ area < Len(freearea) /\ count < PreallocNum
  /\ blocks' = blocks \cup {NewBlock(area, 0)}
  /\ start_free' = start_free + freearea[area + 1]
  /\ count' = count + 1
  /\ UNCHANGED <<datasize, phase, freearea, size, nodesize, area, freesize,
                 refused, cache_align_size>>

(* One round of ccache_prealloc: go on to the next area.                   *)
PreallocNextArea ==
  /\ phase = "prealloc"
  /\ area < Len(freearea) /\ count = PreallocNum
  /\ area' = area + 1
  /\ count' = 0
  /\ UNCHANGED <<datasize, phase, freearea, size, nodesize, zone, refused,
                 cache_align_size>>

PreallocDone ==
  /\ phase = "prealloc"
  /\ area = Len(freearea)
  /\ phase' = "ready"
  /\ UNCHANGED <<datasize, freearea, size, nodesize, area, count, zone,
                 refused, cache_align_size>>

-----------------------------------------------------------------------------

(* Mutants of Carve: freesize is not looked at; only the requested bytes   *)
(* are taken from the zone.                                                *)
CarveUnchecked(need) ==
  LET i == FreeareaIdAligned(NodeHeader + need, cache_align_size)
  IN  /\ phase = "ready"
      /\ i # NoArea
      /\ blocks' = blocks \cup {NewBlock(i, need)}
      /\ start_free' = start_free + freearea[i + 1]
      /\ freesize' = freesize - freearea[i + 1]
      /\ UNCHANGED <<layout, refused, cache_align_size>>

CarveTight(need) ==
  LET i == FreeareaIdAligned(NodeHeader + need, cache_align_size)
  IN  /\ phase = "ready"
      /\ i # NoArea
      /\ freesize >= freearea[i + 1]
      /\ blocks' = blocks \cup {NewBlock(i, need)}
      /\ start_free' = start_free + NodeHeader + need
      /\ freesize' = freesize - (NodeHeader + need)
      /\ UNCHANGED <<layout, refused, cache_align_size>>

(* ccache_allocate while the free space is long enough for the area.       *)
Carve(need) ==
  LET i == FreeareaIdAligned(NodeHeader + need, cache_align_size)
  IN  /\ phase = "ready"
      /\ i # NoArea
      /\ freesize >= freearea[i + 1]
      /\ blocks' = blocks \cup {NewBlock(i, need)}
      /\ start_free' = start_free + freearea[i + 1]
      /\ freesize' = freesize - freearea[i + 1]
      /\ UNCHANGED <<layout, refused, cache_align_size>>

(* ccache_allocate once it is not: an old node of the area is used again.  *)
Reuse(need) ==
  LET i == FreeareaIdAligned(NodeHeader + need, cache_align_size)
  IN  /\ phase = "ready"
      /\ i # NoArea
      /\ freesize < freearea[i + 1]
      /\ \E b \in blocks :
           /\ b.area = i
           /\ blocks' = (blocks \ {b}) \cup {[b EXCEPT !.need = need]}
      /\ UNCHANGED <<layout, start_free, freesize, refused, cache_align_size>>

(* ccache_allocate returns NULL: no area is large enough.                  *)
Refuse(need) ==
  /\ phase = "ready"
  /\ FreeareaIdAligned(NodeHeader + need, cache_align_size) = NoArea
  /\ refused' = refused \cup {NodeHeader + need}
  /\ UNCHANGED <<layout, zone, cache_align_size>>

(* The process opens a second cache with another alignsize.                *)
OpenAnother(align) ==
  /\ phase = "ready"
  /\ cache_align_size' = align
  /\ UNCHANGED <<layout, zone, refused>>

Next ==
  \/ SizeArea
  \/ SizesDone
  \/ PreallocNode
  \/ PreallocNextArea
  \/ PreallocDone
  \/ \E need \in Requests : Carve(need) \/ Reuse(need) \/ Refuse(need)
  \/ \E align \in OtherAligns : OpenAnother(align)

Spec == Init /\ [][Next]_vars

-----------------------------------------------------------------------------

(* The bytes a node may use: the size of its freearea.                     *)
Extent(b) == freearea[b.area + 1]

Block == [addr : Nat, area : Nat, need : Nat]

(* Type invariant.                                                         *)
TypeOK ==
  /\ datasize \in DataSizes
  /\ phase \in {"sizes", "prealloc", "ready", "failed"}
  /\ freearea \in Seq(Nat)
  /\ size \in Nat
  /\ nodesize \in Int
  /\ area \in Nat /\ count \in Nat
  /\ start_free \in Nat /\ freesize \in Nat
  /\ blocks \subseteq Block
  /\ refused \subseteq Nat
  /\ cache_align_size \in Nat

(* The nodes of a cache never share a byte with each other, with the       *)
(* freearea array in front of them or with the space ccache_allocate will  *)
(* carve next, whatever sequence of preallocation, carving and reuse made  *)
(* them: the writes of one item cannot reach another.                      *)
BlocksDisjoint ==
  /\ \A b \in blocks :
       /\ b.area < Len(freearea)
       /\ Len(freearea) * AreaHeader <= b.addr
       /\ b.addr + Extent(b) <= start_free
  /\ \A b, c \in blocks :
       b # c => \/ b.addr + Extent(b) <= c.addr
                \/ c.addr + Extent(c) <= b.addr

(* The item of a node fits the node, header included: what                 *)
(* ccache_get_freeareaid picks is at least as large as what the insert     *)
(* asked for.                                                              *)
ItemFits == \A b \in blocks : b.need > 0 => NodeHeader + b.need <= Extent(b)

(* Once the cache is open, cache->freesize is exactly what lies between    *)
(* cache->start_free and the end of the file.  Carving until freesize is   *)
(* used up then ends at the last byte of the mapping, not after it.        *)
ZoneAccounted ==
  phase = "ready" => start_free + freesize = datasize

(* The loop of ccache_init_freearea builds the array the closed forms of   *)
(* SizeClass describe, which Cache relies on.                              *)
SizesAsComputed ==
  phase \in {"prealloc", "ready"} =>
    /\ Len(freearea) = FreeareaNum
    /\ \A i \in Area : freearea[i + 1] = AreaSize(i)

(* An item is refused only when it is larger than every node of the cache: *)
(* the comment above ccache_get_freeareaid says it finds an element whose  *)
(* size is bigger than or equal to the requested one.                      *)
RefusedOnlyTooLarge ==
  \A s \in refused : \A i \in DOMAIN freearea : freearea[i] < s
=============================================================================
