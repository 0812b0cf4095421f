---------------------------- MODULE ArenaProofs ----------------------------
(***************************************************************************)
(* Proofs about Arena, for every configuration and every data zone.        *)
(***************************************************************************)
EXTENDS Arena, SizeClassProofs

-----------------------------------------------------------------------------
(* Part 1: arithmetic.                                                     *)

(* The areas start above the node header and grow by the alignment step.   *)
LEMMA AreaSizeFacts ==
  /\ AlignSize \in Nat \ {0} /\ AreaHeader \in Nat \ {0} /\ PreallocNum \in Nat
  /\ NodeHeader + MinSize \in Nat \ {0} /\ AreaLimit \in Nat
  /\ NodeHeader + MinSize <= AreaSize(0)
  /\ RoundUp(NodeHeader + MinSize) = AreaSize(0)
  /\ AreaSize(0) <= AreaLimit
  /\ \A i \in Nat : AreaSize(i) \in Nat \ {0} /\ AreaSize(i + 1) = AreaSize(i) + AlignSize
<1>1. /\ NodeHeader + MinSize \in Nat \ {0} /\ NodeHeader + MaxSize \in Nat
      /\ NodeHeader + MinSize <= NodeHeader + MaxSize
      /\ AlignSize \in Nat \ {0}
  BY SizeClassAssumption
<1> DEFINE first == RoundUp(NodeHeader + MinSize)
<1>2. /\ first \in Nat /\ NodeHeader + MinSize <= first
      /\ AreaLimit \in Nat /\ first <= AreaLimit
  BY <1>1, RoundUpBounds, RoundUpMonotonic DEF AreaLimit
<1>3. \A i \in Nat : AreaSize(i) = first + i * AlignSize
  BY DEF AreaSize
<1> HIDE DEF first
<1>4. \A i \in Nat : /\ i * AlignSize \in Nat
                     /\ (i + 1) * AlignSize = i * AlignSize + AlignSize
  BY <1>1
<1>5. 0 * AlignSize = 0
  BY <1>1
<1>6. AreaSize(0) = first
  BY <1>2, <1>3, <1>5
<1>7. \A i \in Nat : AreaSize(i) \in Nat \ {0} /\ AreaSize(i + 1) = AreaSize(i) + AlignSize
  <2> TAKE i \in Nat
  <2>1. AreaSize(i + 1) = first + (i + 1) * AlignSize
    BY <1>3
  <2> QED  BY <1>1, <1>2, <1>3, <1>4, <2>1
<1> QED  BY <1>1, <1>2, <1>6, <1>7, ArenaAssumption DEF first

(* The size of an area is a multiple of the step: it is not rounded again. *)
LEMMA RoundUpAreaSize ==
  ASSUME NEW i \in Nat
  PROVE  RoundUp(AreaSize(i)) = AreaSize(i)
<1> DEFINE m == (NodeHeader + MinSize + AlignSize - 1) \div AlignSize + i
           q == (AreaSize(i) + AlignSize - 1) \div AlignSize
<1>1. AlignSize \in Nat \ {0} /\ NodeHeader + MinSize + AlignSize - 1 \in Int
  BY SizeClassAssumption
<1>2. m \in Int
  BY <1>1, Division
<1>3. AreaSize(i) = m * AlignSize
  <2> DEFINE p == (NodeHeader + MinSize + AlignSize - 1) \div AlignSize
  <2>1. p \in Int
    BY <1>1, Division
  <2>2. AreaSize(i) = p * AlignSize + i * AlignSize
    BY DEF AreaSize, RoundUp
  <2> HIDE DEF p
  <2>3. (p + i) * AlignSize = p * AlignSize + i * AlignSize
    BY <1>1, <2>1
  <2> QED  BY <2>2, <2>3 DEF p
<1> HIDE DEF m
<1>4. m * AlignSize \in Int
  BY <1>1, <1>2
<1>5. /\ q \in Int
      /\ q * AlignSize <= m * AlignSize + AlignSize - 1
      /\ m * AlignSize + AlignSize - 1 < q * AlignSize + AlignSize
  <2>1. AreaSize(i) + AlignSize - 1 \in Int
    BY <1>1, <1>3, <1>4
  <2>2. /\ q \in Int /\ q * AlignSize <= AreaSize(i) + AlignSize - 1
        /\ AreaSize(i) + AlignSize - 1 < q * AlignSize + AlignSize
    BY <1>1, <2>1, Division
  <2> QED  BY <1>3, <2>2
<1>6. RoundUp(AreaSize(i)) = q * AlignSize
  BY DEF RoundUp
<1> HIDE DEF q
<1>7. q * AlignSize \in Int
  BY <1>1, <1>5
<1>8. q <= m
  <2> SUFFICES ASSUME m + 1 <= q PROVE FALSE
    BY <1>2, <1>5
  <2>1. (m + 1) * AlignSize <= q * AlignSize /\ (m + 1) * AlignSize = m * AlignSize + AlignSize
    BY <1>1, <1>2, <1>5
  <2> QED  BY <1>1, <1>4, <1>5, <1>7, <2>1
<1>9. m <= q
  <2> SUFFICES ASSUME q + 1 <= m PROVE FALSE
    BY <1>2, <1>5
  <2>1. (q + 1) * AlignSize <= m * AlignSize /\ (q + 1) * AlignSize = q * AlignSize + AlignSize
    BY <1>1, <1>2, <1>5
  <2> QED  BY <1>1, <1>4, <1>5, <1>7, <2>1
<1> QED  BY <1>2, <1>3, <1>5, <1>6, <1>8, <1>9

(* The loop over the areas ends after FreeareaNum rounds.                  *)
LEMMA FreeareaNumIs ==
  ASSUME NEW k \in Nat \ {0}, AreaSize(k - 1) <= AreaLimit, AreaLimit < AreaSize(k)
  PROVE  FreeareaNum = k
<1> DEFINE room == AreaLimit - AreaSize(0)
           q    == room \div AlignSize
<1>1. /\ AlignSize \in Nat \ {0} /\ AreaLimit \in Nat /\ AreaSize(0) \in Nat
      /\ AreaSize(0) <= AreaLimit
  BY AreaSizeFacts
<1>2. room \in Nat
  BY <1>1
<1>3. FreeareaNum = q + 1
  BY DEF FreeareaNum
<1>4. \A i \in Nat : AreaSize(i) = AreaSize(0) + i * AlignSize
  BY <1>1, RoundUpBounds, SizeClassAssumption DEF AreaSize
<1>5. (k - 1) * AlignSize <= room /\ room < k * AlignSize
  <2>1. AreaSize(k - 1) = AreaSize(0) + (k - 1) * AlignSize /\ k - 1 \in Nat
    BY <1>4
  <2>2. AreaSize(k) = AreaSize(0) + k * AlignSize
    BY <1>4
  <2>3. (k - 1) * AlignSize \in Int /\ k * AlignSize \in Int
    BY <1>1
  <2> QED  BY <1>1, <2>1, <2>2, <2>3
<1> HIDE DEF room
<1>6. q \in Int /\ q * AlignSize <= room /\ room < q * AlignSize + AlignSize
  BY <1>1, <1>2, Division
<1> HIDE DEF q
<1>7. (q + 1) * AlignSize = q * AlignSize + AlignSize /\ q * AlignSize \in Int
  BY <1>1, <1>6
<1>8. (k - 1) * AlignSize \in Int /\ k * AlignSize \in Int
  BY <1>1
<1>9. k - 1 < q + 1
  <2> SUFFICES ASSUME q + 1 <= k - 1 PROVE FALSE
    BY <1>6
  <2>1. (q + 1) * AlignSize <= (k - 1) * AlignSize
    BY <1>1, <1>6
  <2> QED  BY <1>1, <1>2, <1>5, <1>6, <1>7, <1>8, <2>1
<1>10. q < k
  <2> SUFFICES ASSUME k <= q PROVE FALSE
    BY <1>6
  <2>1. k * AlignSize <= q * AlignSize
    BY <1>1, <1>6
  <2> QED  BY <1>2, <1>5, <1>6, <1>7, <1>8, <2>1
<1> QED  BY <1>3, <1>6, <1>9, <1>10

(* With any alignment step ccache_get_freeareaid returns an index of the   *)
(* array or none.                                                          *)
LEMMA FreeareaInRange ==
  ASSUME NEW s \in Int, NEW a \in Nat \ {0}, FreeareaIdAligned(s, a) # NoArea
  PROVE  FreeareaIdAligned(s, a) \in Area
<1> DEFINE offset == s - AreaSize(0)
           q      == offset \div a
<1>1. FreeareaNum \in Nat \ {0} /\ offset \in Int
  BY AreaFacts
<1>2. CASE offset <= 0
  BY <1>1, <1>2 DEF FreeareaIdAligned, Area
<1>3. CASE offset > 0
  <2>1. q \in Int /\ offset < q * a + a /\ q * a <= offset
    BY <1>1, Division
  <2>2. FreeareaIdAligned(s, a) = q + 1 /\ q + 1 < FreeareaNum
    BY <1>1, <1>3, <2>1 DEF FreeareaIdAligned, NoArea
  <2> HIDE DEF q, offset
  <2>3. (q + 1) * a = q * a + a /\ q * a \in Int
    BY <2>1
  <2>4. (q + 1) * a > 0
    BY <1>1, <1>3, <2>1, <2>3
  <2>5. q + 1 > 0
    BY <2>1, <2>4
  <2> QED  BY <1>1, <2>1, <2>2, <2>5 DEF Area
<1> QED  BY <1>1, <1>2, <1>3

(* Twice the bytes of one node of each of the first k areas.               *)
Twice(k) == k * (2 * AreaSize(0) + (k - 1) * AlignSize)

LEMMA TwiceStep ==
  ASSUME NEW k \in Nat
  PROVE  /\ Twice(k) \in Int /\ Twice(0) = 0
         /\ Twice(k + 1) = Twice(k) + 2 * AreaSize(k)
         /\ PreallocNum * Twice(k) \in Int /\ PreallocNum * Twice(0) = 0
         /\ PreallocNum * AreaSize(k) \in Nat
         /\ PreallocNum * Twice(k + 1) = PreallocNum * Twice(k) + 2 * (PreallocNum * AreaSize(k))
<1> DEFINE a == AreaSize(0)
<1>1. AlignSize \in Nat \ {0} /\ a \in Nat /\ PreallocNum \in Nat /\ AreaSize(k) \in Nat
  BY AreaSizeFacts
<1>2. AreaSize(k) = a + k * AlignSize
  BY <1>1, RoundUpBounds, SizeClassAssumption DEF AreaSize
<1> HIDE DEF a
<1>3. Twice(k) = k * (2 * a + (k - 1) * AlignSize)
  BY DEF Twice, a
<1>4. Twice(k + 1) = (k + 1) * (2 * a + k * AlignSize)
  BY <1>1 DEF Twice, a
<1>5. Twice(0) = 0
  BY <1>1 DEF Twice, a
<1>6. Twice(k) \in Int
  BY <1>1, <1>3
<1>7. Twice(k + 1) = Twice(k) + 2 * AreaSize(k)
  BY <1>1, <1>2, <1>3, <1>4
<1>8. /\ PreallocNum * Twice(k) \in Int /\ PreallocNum * Twice(0) = 0
      /\ PreallocNum * AreaSize(k) \in Nat
  BY <1>1, <1>5, <1>6
<1>9. PreallocNum * (Twice(k) + 2 * AreaSize(k)) =
        PreallocNum * Twice(k) + 2 * (PreallocNum * AreaSize(k))
  BY <1>1, <1>6
<1> QED  BY <1>5, <1>6, <1>7, <1>8, <1>9

-----------------------------------------------------------------------------
(* Part 2: the inductive invariant.                                        *)

num == Len(freearea)

(* The array built so far.                                                 *)
Sized == /\ freearea \in Seq(Nat) /\ num * AreaHeader \in Nat
         /\ \A i \in 1 .. num : freearea[i] = AreaSize(i - 1)

(* What has been reserved, for the array and the preallocated nodes of its *)
(* areas, and what has not add up to the data zone; doubled, as half of    *)
(* Twice is no term of the arithmetic of the provers.                      *)
Reserved ==
  /\ nodesize \in Nat
  /\ 2 * datasize = 2 * nodesize + 2 * (num * AreaHeader) + PreallocNum * Twice(num)

(* The first loop, of ccache_init_freearea.                                *)
InSizes ==
  /\ Reserved
  /\ blocks = {} /\ start_free = 0 /\ freesize = 0 /\ area = 0 /\ count = 0
  /\ RoundUp(size) = AreaSize(num)
  /\ num = 0 => size <= AreaLimit
  /\ num > 0 => size = AreaSize(num) /\ AreaSize(num - 1) <= AreaLimit

(* The second one, of ccache_prealloc: start_free has passed the nodes of  *)
(* the areas before this one and count nodes of this one.                  *)
InPrealloc ==
  /\ Reserved /\ freesize = nodesize
  /\ num = FreeareaNum
  /\ area <= num /\ count <= PreallocNum
  /\ area = num => count = 0
  /\ num * AreaHeader <= start_free
  /\ 2 * start_free = 2 * (num * AreaHeader) + PreallocNum * Twice(area)
                        + 2 * (count * AreaSize(area))

Opened ==
  /\ num = FreeareaNum
  /\ num * AreaHeader <= start_free
  /\ start_free + freesize = datasize

IInv ==
  /\ TypeOK /\ Sized /\ BlocksDisjoint
  /\ phase = "sizes" => InSizes
  /\ phase = "prealloc" => InPrealloc
  /\ phase = "ready" => Opened
  /\ phase = "failed" => blocks = {}
  /\ cache_align_size # 0

LEMMA InitIInv == Init => IInv
<1> SUFFICES ASSUME Init PROVE IInv
  OBVIOUS
<1>1. num = 0 /\ freearea \in Seq(Nat) /\ num * AreaHeader = 0
  BY AreaSizeFacts DEF Init, num
<1>2. TypeOK
  BY <1>1, ArenaAssumption, SizeClassAssumption DEF Init, TypeOK
<1>3. Sized
  BY <1>1 DEF Sized
<1>4. BlocksDisjoint
  BY DEF Init, BlocksDisjoint
<1>5. Reserved
  <2>1. PreallocNum * Twice(0) = 0
    BY TwiceStep
  <2> QED  BY <1>1, <2>1, ArenaAssumption DEF Init, Reserved
<1>6. InSizes
  BY <1>1, <1>5, AreaSizeFacts DEF Init, InSizes
<1> QED
  BY <1>2, <1>3, <1>4, <1>6, SizeClassAssumption DEF Init, IInv

-----------------------------------------------------------------------------
(* Part 3: the loops.                                                      *)

LEMMA SizeAreaIInv ==
  ASSUME IInv, SizeArea
  PROVE  IInv'
<1> DEFINE left == nodesize - (AreaHeader + AreaSize(num) * PreallocNum)
<1>1. /\ TypeOK /\ Sized /\ InSizes /\ phase = "sizes" /\ size <= AreaLimit
      /\ num \in Nat /\ RoundUp(size) = AreaSize(num)
  BY DEF IInv, SizeArea, InSizes, TypeOK, num
<1>2. /\ AreaSize(num) \in Nat \ {0} /\ AreaSize(num + 1) = AreaSize(num) + AlignSize
      /\ AlignSize \in Nat \ {0} /\ AreaHeader \in Nat \ {0} /\ PreallocNum \in Nat
      /\ AreaSize(num + 1) \in Nat
      /\ AreaSize(num) <= AreaLimit
  <2>1. num = 0 => AreaSize(num) <= AreaLimit
    BY AreaSizeFacts
  <2>2. num > 0 => AreaSize(num) <= AreaLimit
    BY <1>1 DEF InSizes
  <2> QED  BY <1>1, <2>1, <2>2, AreaSizeFacts
<1>3. AreaSize(num) * PreallocNum = PreallocNum * AreaSize(num) /\ PreallocNum * AreaSize(num) \in Nat
  BY <1>2
<1>4. /\ nodesize' = left
      /\ UNCHANGED <<datasize, area, count, zone, refused, cache_align_size>>
      /\ left < 0 => phase' = "failed" /\ UNCHANGED <<freearea, size>>
      /\ ~(left < 0) => /\ freearea' = Append(freearea, AreaSize(num))
                        /\ size' = AreaSize(num) + AlignSize
                        /\ phase' = phase
  BY <1>1 DEF SizeArea, num
<1>5. left \in Int
  BY <1>1, <1>2, <1>3 DEF TypeOK
<1> HIDE DEF left
<1>6. CASE left < 0
  <2>1. num' = num
    BY <1>4, <1>6 DEF num
  <2> QED
    BY <1>1, <1>4, <1>5, <1>6, <2>1
    DEF IInv, TypeOK, Sized, InSizes, BlocksDisjoint, zone
<1>7. CASE ~(left < 0)
  <2>1. freearea' \in Seq(Nat) /\ num' = num + 1
    <3>1. freearea \in Seq(Nat) /\ freearea' = Append(freearea, AreaSize(num)) /\ AreaSize(num) \in Nat
      BY <1>1, <1>2, <1>4, <1>7 DEF Sized
    <3> QED  BY <3>1, SMT DEF num
  <2>2. \A i \in 1 .. num' : freearea'[i] = AreaSize(i - 1)
    <3> SUFFICES ASSUME NEW i \in 1 .. num + 1 PROVE freearea'[i] = AreaSize(i - 1)
      BY <2>1
    <3>1. CASE i = num + 1
      BY <1>1, <1>4, <1>7, <3>1 DEF Sized, num
    <3>2. CASE i # num + 1
      BY <1>1, <1>4, <1>7, <3>2 DEF Sized, num
    <3> QED  BY <3>1, <3>2
  <2>3. num' * AreaHeader = num * AreaHeader + AreaHeader /\ num * AreaHeader \in Nat
    BY <1>1, <1>2, <2>1
  <2>4. /\ PreallocNum * Twice(num') = PreallocNum * Twice(num) + 2 * (PreallocNum * AreaSize(num))
        /\ PreallocNum * Twice(num) \in Int
    BY <1>1, <2>1, TwiceStep
  <2>5. Reserved'
    <3>1. nodesize' = nodesize - (AreaHeader + PreallocNum * AreaSize(num))
      BY <1>3, <1>4 DEF left
    <3>2. nodesize' \in Nat
      BY <1>4, <1>5, <1>7
    <3>3. /\ nodesize \in Nat /\ datasize \in Nat /\ datasize' = datasize
          /\ 2 * datasize = 2 * nodesize + 2 * (num * AreaHeader) + PreallocNum * Twice(num)
      BY <1>1, <1>4, ArenaAssumption DEF InSizes, Reserved, TypeOK
    <3>4. 2 * datasize' = 2 * nodesize' + 2 * (num' * AreaHeader) + PreallocNum * Twice(num')
      BY <1>2, <1>3, <2>3, <2>4, <3>1, <3>3
    <3> QED  BY <3>2, <3>4 DEF Reserved
  <2>6. RoundUp(size') = AreaSize(num') /\ size' = AreaSize(num')
    BY <1>1, <1>2, <1>4, <1>7, <2>1, RoundUpAreaSize
  <2>7. InSizes'
    BY <1>1, <1>2, <1>4, <1>7, <2>1, <2>5, <2>6 DEF InSizes, zone
  <2>8. Sized'
    BY <1>2, <2>1, <2>2, <2>3 DEF Sized
  <2>9. TypeOK'
    BY <1>1, <1>2, <1>4, <1>5, <1>7, <2>1, <2>6 DEF TypeOK, zone
  <2>10. BlocksDisjoint'
    BY <2>7 DEF InSizes, BlocksDisjoint
  <2> QED
    BY <1>1, <1>4, <1>7, <2>7, <2>8, <2>9, <2>10 DEF IInv
<1> QED  BY <1>6, <1>7

LEMMA SizesDoneIInv ==
  ASSUME IInv, SizesDone
  PROVE  IInv'
<1>1. /\ TypeOK /\ Sized /\ InSizes /\ Reserved /\ size > AreaLimit /\ num \in Nat
      /\ size \in Nat /\ blocks = {}
  BY DEF IInv, SizesDone, InSizes, TypeOK, num
<1>2. num # 0 /\ AreaLimit < AreaSize(num) /\ AreaSize(num - 1) <= AreaLimit
  BY <1>1, AreaSizeFacts DEF InSizes
<1>3. num = FreeareaNum
  BY <1>1, <1>2, FreeareaNumIs
<1>4. /\ num' = num /\ freesize' = nodesize /\ nodesize' = nodesize
      /\ start_free' = num * AreaHeader /\ phase' = "prealloc" /\ datasize' = datasize
      /\ area' = 0 /\ count' = 0 /\ blocks' = {} /\ freearea' = freearea
      /\ size' = size /\ refused' = refused /\ cache_align_size' = cache_align_size
  BY <1>1 DEF SizesDone, InSizes, num
<1>5. PreallocNum * Twice(0) = 0 /\ AreaSize(0) \in Nat /\ PreallocNum \in Nat
  BY TwiceStep, AreaSizeFacts
<1>6. num * AreaHeader \in Nat
  BY <1>1 DEF Sized
<1>7. InPrealloc'
  BY <1>1, <1>3, <1>4, <1>5, <1>6 DEF InPrealloc, Reserved
<1>8. TypeOK' /\ Sized'
  BY <1>1, <1>4, <1>6 DEF TypeOK, Sized, Reserved
<1>9. BlocksDisjoint'
  BY <1>4 DEF BlocksDisjoint
<1> QED
  BY <1>4, <1>7, <1>8, <1>9 DEF IInv

(* The array holds the sizes of the areas.                                 *)
LEMMA SizedAt ==
  ASSUME Sized, NEW i \in 0 .. num - 1
  PROVE  /\ freearea[i + 1] = AreaSize(i) /\ i \in Nat
         /\ AreaSize(i) \in Nat \ {0} /\ num \in Nat
<1>1. num \in Nat
  BY DEF Sized, num
<1>2. i \in Nat /\ i + 1 \in 1 .. num /\ (i + 1) - 1 = i
  BY <1>1
<1> QED  BY <1>1, <1>2, AreaSizeFacts DEF Sized

(* A new node at start_free touches no other one.                          *)
LEMMA NewBlockDisjoint ==
  ASSUME TypeOK, Sized, BlocksDisjoint, NEW i \in 0 .. num - 1, NEW need \in Nat,
         num * AreaHeader <= start_free,
         blocks' = blocks \cup {NewBlock(i, need)}, freearea' = freearea,
         start_free' = start_free + freearea[i + 1]
  PROVE  /\ BlocksDisjoint' /\ blocks' \subseteq Block /\ start_free' \in Nat
         /\ num * AreaHeader <= start_free'
<1> PICK new : new = NewBlock(i, need)
  OBVIOUS
<1>1. /\ new.addr = start_free /\ new.area = i /\ new \in Block
      /\ start_free \in Nat /\ i \in Nat /\ num \in Nat /\ i < num
      /\ num * AreaHeader \in Nat
  BY SizedAt DEF NewBlock, Block, TypeOK, Sized
<1>2. /\ freearea[new.area + 1] \in Nat \ {0}
      /\ start_free' = start_free + freearea[new.area + 1] /\ start_free' \in Nat
  BY <1>1, SizedAt
<1>3. ASSUME NEW b \in blocks
      PROVE  /\ b.addr \in Nat /\ b.area < num /\ Extent(b) \in Nat
             /\ num * AreaHeader <= b.addr
             /\ b.addr + Extent(b) <= start_free
             /\ Extent(b)' = Extent(b) /\ Extent(b) = freearea[b.area + 1]
  <2>1. b \in Block /\ b.area \in 0 .. num - 1
    BY <1>1 DEF TypeOK, BlocksDisjoint, Block, num
  <2> QED  BY <2>1, SizedAt DEF BlocksDisjoint, Extent, num, Block
<1>4. Extent(new)' = freearea[new.area + 1] /\ num' = num
  BY DEF Extent, num
<1>5. ASSUME NEW b \in blocks'
      PROVE  /\ b.area < num' /\ num' * AreaHeader <= b.addr
             /\ b.addr + Extent(b)' <= start_free'
  <2>1. CASE b = new
    <3>1. Extent(b)' = freearea[new.area + 1]
      BY <1>4, <2>1
    <3> QED  BY <1>1, <1>2, <1>4, <2>1, <3>1
  <2>2. CASE b \in blocks
    <3>1. Extent(b)' = Extent(b) /\ b.addr + Extent(b) <= start_free
      BY <1>3, <2>2
    <3>2. b.addr \in Nat /\ Extent(b) \in Nat /\ b.area < num /\ num * AreaHeader <= b.addr
      BY <1>3, <2>2
    <3> QED  BY <1>1, <1>2, <1>4, <3>1, <3>2
  <2> QED  BY <1>5, <2>1, <2>2
<1>6. ASSUME NEW b \in blocks', NEW c \in blocks', b # c
      PROVE  b.addr + Extent(b)' <= c.addr \/ c.addr + Extent(c)' <= b.addr
  <2>1. CASE b \in blocks /\ c \in blocks
    BY <1>3, <1>6, <2>1 DEF BlocksDisjoint
  <2>2. CASE b \in blocks /\ c = new
    BY <1>1, <1>3, <2>2
  <2>3. CASE b = new /\ c \in blocks
    BY <1>1, <1>3, <2>3
  <2> QED  BY <1>6, <2>1, <2>2, <2>3
<1>7. BlocksDisjoint'
  BY <1>5, <1>6 DEF BlocksDisjoint, num
<1> QED
  BY <1>1, <1>2, <1>7 DEF TypeOK

LEMMA PreallocNodeIInv ==
  ASSUME IInv, PreallocNode
  PROVE  IInv'
<1>1. /\ TypeOK /\ Sized /\ BlocksDisjoint /\ InPrealloc /\ phase = "prealloc"
      /\ num \in Nat /\ area \in 0 .. num - 1 /\ count \in Nat /\ count < PreallocNum
      /\ cache_align_size # 0 /\ area \in Nat
  BY DEF IInv, PreallocNode, TypeOK, num
<1>2. /\ freearea[area + 1] = AreaSize(area) /\ AreaSize(area) \in Nat \ {0}
      /\ PreallocNum \in Nat
  BY <1>1, SizedAt, AreaSizeFacts
<1>3. /\ blocks' = blocks \cup {NewBlock(area, 0)} /\ freearea' = freearea /\ num' = num
      /\ start_free' = start_free + freearea[area + 1] /\ count' = count + 1
      /\ UNCHANGED <<datasize, phase, size, nodesize, area, freesize, refused, cache_align_size>>
  BY DEF PreallocNode, num
<1>4. /\ BlocksDisjoint' /\ blocks' \subseteq Block /\ start_free' \in Nat
      /\ num * AreaHeader <= start_free'
  BY <1>1, <1>3, NewBlockDisjoint DEF InPrealloc
<1>5. /\ (count + 1) * AreaSize(area) = count * AreaSize(area) + AreaSize(area)
      /\ count * AreaSize(area) \in Nat
  BY <1>1, <1>2
<1>6. PreallocNum * Twice(area) \in Int /\ num * AreaHeader \in Nat /\ start_free \in Nat
  BY <1>1, TwiceStep DEF Sized, TypeOK
<1>7. 2 * start_free' = 2 * (num * AreaHeader) + PreallocNum * Twice(area)
                          + 2 * ((count + 1) * AreaSize(area))
  BY <1>1, <1>2, <1>3, <1>5, <1>6 DEF InPrealloc
<1>8. Reserved'
  BY <1>1, <1>3 DEF InPrealloc, Reserved
<1>9. InPrealloc'
  BY <1>1, <1>2, <1>3, <1>4, <1>7, <1>8 DEF InPrealloc
<1>10. TypeOK' /\ Sized'
  BY <1>1, <1>3, <1>4 DEF TypeOK, Sized
<1> QED
  BY <1>1, <1>3, <1>4, <1>9, <1>10 DEF IInv

LEMMA PreallocNextAreaIInv ==
  ASSUME IInv, PreallocNextArea
  PROVE  IInv'
<1>1. /\ TypeOK /\ Sized /\ BlocksDisjoint /\ InPrealloc /\ phase = "prealloc"
      /\ num \in Nat /\ area \in Nat /\ area < num /\ count = PreallocNum
      /\ cache_align_size # 0
  BY DEF IInv, PreallocNextArea, TypeOK, num
<1>2. /\ num' = num /\ area' = area + 1 /\ count' = 0
      /\ UNCHANGED <<datasize, phase, freearea, size, nodesize, start_free, freesize, blocks,
                     refused, cache_align_size>>
  BY DEF PreallocNextArea, num, zone
<1>3. AreaSize(area + 1) \in Nat /\ PreallocNum \in Nat
  BY <1>1, AreaSizeFacts
<1>4. /\ PreallocNum * Twice(area + 1) = PreallocNum * Twice(area) + 2 * (PreallocNum * AreaSize(area))
      /\ 0 * AreaSize(area + 1) = 0
      /\ PreallocNum * Twice(area) \in Int /\ PreallocNum * AreaSize(area) \in Nat
  BY <1>1, <1>3, TwiceStep
<1>5. 2 * start_free = 2 * (num * AreaHeader) + PreallocNum * Twice(area + 1)
                         + 2 * (0 * AreaSize(area + 1))
  BY <1>1, <1>4 DEF InPrealloc, Sized
<1>6. Reserved'
  BY <1>1, <1>2 DEF InPrealloc, Reserved
<1>7. InPrealloc'
  BY <1>1, <1>2, <1>3, <1>5, <1>6 DEF InPrealloc
<1>8. TypeOK' /\ Sized' /\ BlocksDisjoint'
  BY <1>1, <1>2 DEF TypeOK, Sized, BlocksDisjoint, Extent
<1> QED
  BY <1>1, <1>2, <1>7, <1>8 DEF IInv

LEMMA PreallocDoneIInv ==
  ASSUME IInv, PreallocDone
  PROVE  IInv'
<1>1. /\ TypeOK /\ Sized /\ BlocksDisjoint /\ InPrealloc
      /\ num \in Nat /\ area = num /\ count = 0 /\ cache_align_size # 0
  BY DEF IInv, PreallocDone, InPrealloc, TypeOK, num
<1>2. /\ num' = num /\ phase' = "ready"
      /\ UNCHANGED <<datasize, freearea, size, nodesize, area, count, start_free, freesize, blocks,
                     refused, cache_align_size>>
  BY DEF PreallocDone, num, zone
<1>3. AreaSize(num) \in Nat /\ PreallocNum * Twice(num) \in Int
  BY <1>1, AreaSizeFacts, TwiceStep
<1>4. 0 * AreaSize(num) = 0
  BY <1>3
<1>5. start_free + freesize = datasize
  BY <1>1, <1>3, <1>4, ArenaAssumption DEF InPrealloc, Reserved, Sized, TypeOK
<1>6. Opened'
  BY <1>1, <1>2, <1>5 DEF InPrealloc, Opened
<1>7. TypeOK' /\ Sized' /\ BlocksDisjoint'
  BY <1>1, <1>2 DEF TypeOK, Sized, BlocksDisjoint, Extent
<1> QED
  BY <1>1, <1>2, <1>6, <1>7 DEF IInv

-----------------------------------------------------------------------------
(* Part 4: ccache_allocate.                                                *)

(* The area that serves a request is one of the array.                     *)
LEMMA AreaServes ==
  ASSUME IInv, phase = "ready", NEW need \in Requests,
         FreeareaIdAligned(NodeHeader + need, cache_align_size) # NoArea
  PROVE  FreeareaIdAligned(NodeHeader + need, cache_align_size) \in 0 .. num - 1
<1>1. num = FreeareaNum
  BY DEF IInv, Opened
<1>2. NodeHeader + need \in Int /\ cache_align_size \in Nat \ {0}
  BY SizeClassAssumption, ArenaAssumption DEF IInv, TypeOK
<1> QED  BY <1>1, <1>2, FreeareaInRange DEF Area

LEMMA CarveIInv ==
  ASSUME IInv, NEW need \in Requests, Carve(need)
  PROVE  IInv'
<1> DEFINE i == FreeareaIdAligned(NodeHeader + need, cache_align_size)
<1>1. /\ TypeOK /\ Sized /\ BlocksDisjoint /\ Opened /\ phase = "ready"
      /\ cache_align_size # 0 /\ i \in 0 .. num - 1 /\ need \in Nat
      /\ freesize >= freearea[i + 1]
  BY AreaServes, ArenaAssumption DEF IInv, Carve
<1>2. /\ blocks' = blocks \cup {NewBlock(i, need)} /\ freearea' = freearea /\ num' = num
      /\ start_free' = start_free + freearea[i + 1]
      /\ freesize' = freesize - freearea[i + 1]
      /\ UNCHANGED <<datasize, phase, size, nodesize, area, count, refused, cache_align_size>>
  BY DEF Carve, layout, num
<1> HIDE DEF i
<1>3. freearea[i + 1] \in Nat
  BY <1>1, SizedAt
<1>4. /\ BlocksDisjoint' /\ blocks' \subseteq Block /\ start_free' \in Nat
      /\ num * AreaHeader <= start_free'
  BY <1>1, <1>2, NewBlockDisjoint DEF Opened
<1>5. freesize' \in Nat /\ start_free' + freesize' = start_free + freesize
  <2>1. PICK bytes \in Nat : bytes = freearea[i + 1]
    BY <1>3
  <2>2. /\ freesize \in Nat /\ start_free \in Nat /\ freesize >= bytes
        /\ start_free' = start_free + bytes /\ freesize' = freesize - bytes
    BY <1>1, <1>2, <2>1 DEF TypeOK
  <2> QED  BY <2>2
<1>6. Opened' /\ TypeOK' /\ Sized'
  BY <1>1, <1>2, <1>4, <1>5 DEF Opened, TypeOK, Sized
<1> QED
  BY <1>1, <1>2, <1>4, <1>6 DEF IInv

LEMMA ReuseIInv ==
  ASSUME IInv, NEW need \in Requests, Reuse(need)
  PROVE  IInv'
<1>1. /\ TypeOK /\ Sized /\ BlocksDisjoint /\ Opened /\ phase = "ready"
      /\ cache_align_size # 0 /\ need \in Nat
  BY ArenaAssumption DEF IInv, Reuse
<1>2. PICK old \in blocks : blocks' = (blocks \ {old}) \cup {[old EXCEPT !.need = need]}
  BY DEF Reuse
<1>3. /\ num' = num
      /\ UNCHANGED <<datasize, phase, freearea, size, nodesize, area, count, start_free, freesize,
                     refused, cache_align_size>>
  BY DEF Reuse, layout, num
<1>4. PICK new : new = [old EXCEPT !.need = need]
  OBVIOUS
<1>5. old \in Block /\ new \in Block /\ new.addr = old.addr /\ new.area = old.area
  BY <1>1, <1>2, <1>4 DEF TypeOK, Block
<1>6. blocks' \subseteq Block
  BY <1>1, <1>2, <1>4, <1>5 DEF TypeOK
<1>7. \A b \in blocks' : b \in blocks \ {old} \/ b = new
  BY <1>2, <1>4
<1>8. ASSUME NEW b \in blocks'
      PROVE  /\ b.area < num' /\ num' * AreaHeader <= b.addr
             /\ b.addr + Extent(b)' <= start_free'
  <2>1. CASE b \in blocks
    BY <1>1, <1>3, <2>1 DEF BlocksDisjoint, Extent, num
  <2>2. CASE b = new
    BY <1>1, <1>2, <1>3, <1>5, <2>2 DEF BlocksDisjoint, Extent, num
  <2> QED  BY <1>7, <1>8, <2>1, <2>2
<1>9. ASSUME NEW b \in blocks', NEW c \in blocks', b # c
      PROVE  b.addr + Extent(b)' <= c.addr \/ c.addr + Extent(c)' <= b.addr
  <2>1. CASE b \in blocks /\ c \in blocks
    BY <1>1, <1>3, <1>9, <2>1 DEF BlocksDisjoint, Extent
  <2>2. CASE b \in blocks \ {old} /\ c = new
    BY <1>1, <1>2, <1>3, <1>5, <2>2 DEF BlocksDisjoint, Extent
  <2>3. CASE b = new /\ c \in blocks \ {old}
    BY <1>1, <1>2, <1>3, <1>5, <2>3 DEF BlocksDisjoint, Extent
  <2> QED  BY <1>7, <1>9, <2>1, <2>2, <2>3
<1>10. BlocksDisjoint'
  BY <1>8, <1>9 DEF BlocksDisjoint, num
<1>11. Opened' /\ TypeOK' /\ Sized'
  BY <1>1, <1>3, <1>6 DEF Opened, TypeOK, Sized
<1> QED
  BY <1>1, <1>3, <1>10, <1>11 DEF IInv

LEMMA NextIInv ==
  ASSUME IInv, [Next]_vars
  PROVE  IInv'
<1>1. CASE UNCHANGED vars
  BY <1>1 DEF vars, IInv, TypeOK, Sized, num, BlocksDisjoint, Extent, InSizes, InPrealloc,
              Reserved, Opened
<1>2. CASE SizeArea
  BY <1>2, SizeAreaIInv
<1>3. CASE SizesDone
  BY <1>3, SizesDoneIInv
<1>4. CASE PreallocNode
  BY <1>4, PreallocNodeIInv
<1>5. CASE PreallocNextArea
  BY <1>5, PreallocNextAreaIInv
<1>6. CASE PreallocDone
  BY <1>6, PreallocDoneIInv
<1>7. ASSUME NEW need \in Requests, Carve(need) \/ Reuse(need)
      PROVE  IInv'
  BY <1>7, CarveIInv, ReuseIInv
<1>8. ASSUME NEW need \in Requests, Refuse(need)
      PROVE  IInv'
  <2>1. NodeHeader + need \in Nat
    BY SizeClassAssumption, ArenaAssumption
  <2> QED
    BY <1>8, <2>1
    DEF Refuse, layout, zone, IInv, TypeOK, Sized, num, BlocksDisjoint, Extent, Opened
<1>9. ASSUME NEW align \in OtherAligns, OpenAnother(align)
      PROVE  IInv'
  BY <1>9, ArenaAssumption
  DEF OpenAnother, layout, zone, IInv, TypeOK, Sized, num, BlocksDisjoint, Extent, Opened
<1> QED
  BY <1>1, <1>2, <1>3, <1>4, <1>5, <1>6, <1>7, <1>8, <1>9 DEF Next

LEMMA Invariance == Spec => []IInv
  BY InitIInv, NextIInv, PTL DEF Spec

-----------------------------------------------------------------------------
(* Part 5: the theorems.                                                   *)

(* Every variable keeps its type: the free space is never overdrawn.       *)
THEOREM TypeCorrectness == Spec => []TypeOK
<1>1. IInv => TypeOK  BY DEF IInv
<1> QED  BY <1>1, Invariance, PTL

(* The nodes of a cache never share a byte, nor have one in the freearea   *)
(* array or in the free space, also after opens with other alignments.     *)
THEOREM NodesStayDisjoint == Spec => []BlocksDisjoint
<1>1. IInv => BlocksDisjoint  BY DEF IInv
<1> QED  BY <1>1, Invariance, PTL

(* An open cache has handed out and still has, together, the whole zone.   *)
THEOREM ZoneStaysAccounted == Spec => []ZoneAccounted
<1>1. IInv => ZoneAccounted  BY DEF IInv, Opened, ZoneAccounted
<1> QED  BY <1>1, Invariance, PTL

(* The loop of ccache_init_freearea builds the freeareas that Cache        *)
(* computes with.                                                          *)
THEOREM LoopBuildsAreas == Spec => []SizesAsComputed
<1>1. IInv => SizesAsComputed
  <2> SUFFICES ASSUME IInv, phase \in {"prealloc", "ready"} PROVE
        /\ num = FreeareaNum
        /\ \A i \in 0 .. num - 1 : freearea[i + 1] = AreaSize(i)
    BY DEF SizesAsComputed, Area, num
  <2>1. num = FreeareaNum /\ Sized
    BY DEF IInv, InPrealloc, Opened
  <2> QED  BY <2>1, SizedAt
<1> QED  BY <1>1, Invariance, PTL

(* Every item fits its node, if no other cache of the process has a larger *)
(* alignment step; the run ArenaRealign shows what happens if one has.     *)
THEOREM ItemsFit ==
  ASSUME \A align \in OtherAligns : align <= AlignSize
  PROVE  Spec => []ItemFits
<1> DEFINE Inv == IInv /\ cache_align_size <= AlignSize /\ ItemFits
<1>1. Init => Inv
  BY InitIInv, SizeClassAssumption DEF Init, ItemFits
<1>2. Inv /\ [Next]_vars => Inv'
  <2> SUFFICES ASSUME Inv, [Next]_vars PROVE Inv'
    OBVIOUS
  <2>1. IInv'
    BY NextIInv
  <2>2. cache_align_size' <= AlignSize
    BY DEF Next, vars, SizeArea, SizesDone, PreallocNode, PreallocNextArea, PreallocDone,
           Carve, Reuse, Refuse, OpenAnother
  <2>3. ItemFits'
    <3>1. CASE blocks' = blocks /\ freearea' = freearea
      BY <3>1 DEF ItemFits, Extent
    <3>2. CASE SizeArea
      BY <3>2, <2>1 DEF SizeArea, ItemFits, IInv, InSizes, zone
    <3>3. CASE PreallocNode
      BY <3>3 DEF PreallocNode, ItemFits, Extent, NewBlock
    <3>4. ASSUME NEW need \in Requests, Carve(need) \/ Reuse(need)
          PROVE  ItemFits'
      <4> DEFINE i == FreeareaIdAligned(NodeHeader + need, cache_align_size)
      <4>1. /\ i # NoArea /\ freearea' = freearea /\ phase = "ready"
            /\ NodeHeader + need \in Int /\ cache_align_size \in 1 .. AlignSize /\ Sized
        BY <3>4, SizeClassAssumption, ArenaAssumption DEF Carve, Reuse, layout, IInv, TypeOK
      <4>2. i \in 0 .. num - 1 /\ NodeHeader + need <= AreaSize(i)
        BY <3>4, <4>1, AreaServes, FreeareaFits
      <4> HIDE DEF i
      <4>3. NodeHeader + need <= freearea[i + 1]
        BY <4>1, <4>2, SizedAt
      <4>4. ASSUME NEW b \in blocks'
            PROVE  b \in blocks \/ (b.area = i /\ b.need = need)
        BY <3>4, <4>4 DEF Carve, Reuse, NewBlock, IInv, TypeOK, Block, i
      <4> QED  BY <4>1, <4>3, <4>4 DEF ItemFits, Extent
    <3> QED
      BY <3>1, <3>2, <3>3, <3>4
      DEF Next, vars, SizesDone, PreallocNextArea, PreallocDone, Refuse, OpenAnother, layout, zone
  <2> QED  BY <2>1, <2>2, <2>3
<1>3. Inv => ItemFits
  OBVIOUS
<1> QED  BY <1>1, <1>2, <1>3, PTL DEF Spec
=============================================================================
