----------------------------- MODULE SizeClass -----------------------------
(***************************************************************************)
(* The size arithmetic of the slab-like allocator of ccache_memory.c: how  *)
(* a requested node size is rounded, which freeareas a cache has, and      *)
(* which freearea serves a request.  It has no state; Arena, which runs    *)
(* the loop that builds the freearea array, and Cache, which allocates     *)
(* from it, are both written with these operators.                         *)
(***************************************************************************)
EXTENDS Integers

CONSTANTS
  NodeHeader,   \* sizeof(ccache_node_t)
  MinSize,      \* configuration item min_size
  MaxSize,      \* configuration item max_size
  AlignSize     \* configuration item alignsize, the step between freeareas

(* ccache_init_defconfig refuses an alignsize that is not a power of two;  *)
(* nothing below needs more than a positive one.  Nobody refuses a         *)
(* max_size below min_size, but that makes a cache without freeareas, in   *)
(* which the index 0 that ccache_get_freeareaid returns is out of bounds.  *)
ASSUME SizeClassAssumption ==
  /\ NodeHeader \in Nat \ {0}
  /\ MinSize \in Nat /\ MaxSize \in Nat /\ MinSize <= MaxSize
  /\ AlignSize \in Nat \ {0}

-----------------------------------------------------------------------------

(* ccache_round_up: (size + a - 1) & ~(a - 1) for a power of two a.        *)
RoundUp(size) == ((size + AlignSize - 1) \div AlignSize) * AlignSize

(* The bound of the loop in ccache_init_freearea.                          *)
AreaLimit == RoundUp(NodeHeader + MaxSize)

(* cache->freearea[i].size: the first area holds the smallest nodes, each  *)
(* following one is an alignment step larger (Arena runs the loop).        *)
AreaSize(i) == RoundUp(NodeHeader + MinSize) + i * AlignSize

(* cache->freeareanum: the number of rounds of that loop.                  *)
FreeareaNum == (AreaLimit - AreaSize(0)) \div AlignSize + 1

Area == 0 .. FreeareaNum - 1

(* The value ccache_get_freeareaid returns when no area is large enough.   *)
NoArea == -1

(* Mutant of FreeareaIdAligned: the step to the next freearea is missing.  *)
FreeareaIdBelow(size, align) ==
  LET offset == size - AreaSize(0)
      i      == offset \div align
  IN  IF offset <= 0 THEN 0
      ELSE IF i >= FreeareaNum THEN NoArea
      ELSE i

(***************************************************************************)
(* ccache_get_freeareaid, called with the alignment step that the process  *)
(* wide variable cache_align_size holds at the time of the call.           *)
(***************************************************************************)
FreeareaIdAligned(size, align) ==
  LET offset == size - AreaSize(0)
      i      == offset \div align + 1
  IN  IF offset <= 0 THEN 0
      ELSE IF i >= FreeareaNum THEN NoArea
      ELSE i

FreeareaId(size) == FreeareaIdAligned(size, AlignSize)
=============================================================================
