-------------------------- MODULE SizeClassProofs --------------------------
(***************************************************************************)
(* What the size arithmetic of SizeClass guarantees for every              *)
(* configuration.                                                          *)
(***************************************************************************)
EXTENDS SizeClass, TLAPS

(* Integer division rounds down to the nearest multiple.                   *)
LEMMA Division ==
  ASSUME NEW a \in Int, NEW b \in Nat \ {0}
  PROVE  /\ a \div b \in Int
         /\ (a \div b) * b <= a
         /\ a < (a \div b) * b + b
BY Z3

(* ccache_round_up never rounds down, and by less than one step.           *)
LEMMA RoundUpBounds ==
  ASSUME NEW s \in Nat
  PROVE  /\ RoundUp(s) \in Nat
         /\ s <= RoundUp(s)
         /\ RoundUp(s) < s + AlignSize
PROOF
<1> DEFINE q == (s + AlignSize - 1) \div AlignSize
<1>1. s + AlignSize - 1 \in Int /\ AlignSize \in Nat \ {0}
  BY SizeClassAssumption
<1>2. /\ q \in Int
      /\ q * AlignSize <= s + AlignSize - 1
      /\ s + AlignSize - 1 < q * AlignSize + AlignSize
  BY <1>1, Division
<1>3. RoundUp(s) = q * AlignSize
  BY DEF RoundUp
<1>4. q * AlignSize \in Int
  BY <1>1, <1>2
<1> HIDE DEF q
<1> QED
  BY <1>1, <1>2, <1>3, <1>4

(* ccache_round_up is monotonic.                                           *)
LEMMA RoundUpMonotonic ==
  ASSUME NEW s \in Nat, NEW t \in Nat, s <= t
  PROVE  RoundUp(s) <= RoundUp(t)
PROOF
<1> DEFINE p == (s + AlignSize - 1) \div AlignSize
           q == (t + AlignSize - 1) \div AlignSize
<1>1. /\ s + AlignSize - 1 \in Int /\ t + AlignSize - 1 \in Int
      /\ AlignSize \in Nat \ {0}
  BY SizeClassAssumption
<1>2. /\ p \in Int /\ q \in Int
      /\ p * AlignSize <= s + AlignSize - 1
      /\ t + AlignSize - 1 < q * AlignSize + AlignSize
  BY <1>1, Division
<1>3. RoundUp(s) = p * AlignSize /\ RoundUp(t) = q * AlignSize
  BY DEF RoundUp
<1> HIDE DEF p, q
<1>4. p * AlignSize < (q + 1) * AlignSize
  <2>1. (q + 1) * AlignSize = q * AlignSize + AlignSize
    BY <1>1, <1>2
  <2>2. p * AlignSize \in Int /\ q * AlignSize \in Int
    BY <1>1, <1>2
  <2> QED BY <1>1, <1>2, <2>1, <2>2
<1>5. p <= q
  <2>1. SUFFICES ASSUME q + 1 <= p PROVE FALSE
    BY <1>2
  <2>2. (q + 1) * AlignSize <= p * AlignSize
    BY <1>1, <1>2, <2>1
  <2> QED BY <1>1, <1>2, <1>4, <2>2
<1>6. p * AlignSize <= q * AlignSize
  BY <1>1, <1>2, <1>5
<1> QED BY <1>3, <1>6

(* There is at least one freearea, and their sizes are integers.           *)
LEMMA AreaFacts ==
  /\ FreeareaNum \in Nat \ {0}
  /\ \A i \in Int : AreaSize(i) \in Int
PROOF
<1>1. /\ NodeHeader + MinSize \in Nat /\ NodeHeader + MaxSize \in Nat
      /\ NodeHeader + MinSize <= NodeHeader + MaxSize
      /\ AlignSize \in Nat \ {0}
  BY SizeClassAssumption
<1>2. /\ RoundUp(NodeHeader + MinSize) \in Nat
      /\ RoundUp(NodeHeader + MaxSize) \in Nat
      /\ RoundUp(NodeHeader + MinSize) <= RoundUp(NodeHeader + MaxSize)
  BY <1>1, RoundUpBounds, RoundUpMonotonic
<1>3. AreaSize(0) = RoundUp(NodeHeader + MinSize)
  BY <1>1, <1>2 DEF AreaSize
<1> DEFINE room == AreaLimit - AreaSize(0)
           q    == room \div AlignSize
<1>4. room \in Nat
  BY <1>2, <1>3 DEF AreaLimit
<1>5. FreeareaNum = q + 1
  BY DEF FreeareaNum
<1> HIDE DEF room
<1>6. q \in Int /\ room < q * AlignSize + AlignSize
  BY <1>1, <1>4, Division
<1> HIDE DEF q
<1>7. q * AlignSize + AlignSize = (q + 1) * AlignSize
  BY <1>1, <1>6
<1>8. (q + 1) * AlignSize > 0
  BY <1>1, <1>4, <1>6, <1>7
<1>9. q + 1 > 0
  BY <1>1, <1>6, <1>8
<1>10. \A i \in Int : AreaSize(i) \in Int
  BY <1>1, <1>2 DEF AreaSize
<1> QED BY <1>5, <1>6, <1>9, <1>10

(***************************************************************************)
(* ccache_get_freeareaid never returns a freearea whose nodes are too      *)
(* small for the request, nor an index outside the array, provided that    *)
(* the alignment step in force is not larger than the one the cache was    *)
(* laid out with.                                                          *)
(***************************************************************************)
THEOREM FreeareaFits ==
  ASSUME NEW size \in Int, NEW align \in 1 .. AlignSize,
         FreeareaIdAligned(size, align) # NoArea
  PROVE  /\ FreeareaIdAligned(size, align) \in Area
         /\ size <= AreaSize(FreeareaIdAligned(size, align))
PROOF
<1> DEFINE offset == size - AreaSize(0)
           q      == offset \div align
           i      == FreeareaIdAligned(size, align)
<1>1. /\ AlignSize \in Nat \ {0} /\ align \in Nat \ {0} /\ align <= AlignSize
      /\ RoundUp(NodeHeader + MinSize) \in Int
      /\ FreeareaNum \in Nat \ {0}
  <2>1. NodeHeader + MinSize \in Nat
    BY SizeClassAssumption
  <2> QED BY <2>1, SizeClassAssumption, RoundUpBounds, AreaFacts
<1>2. AreaSize(0) = RoundUp(NodeHeader + MinSize) /\ offset \in Int
  BY <1>1 DEF AreaSize
<1>3. CASE offset <= 0
  <2>1. i = 0
    BY <1>3 DEF FreeareaIdAligned
  <2> QED BY <1>1, <1>2, <1>3, <2>1 DEF Area
<1>4. CASE offset > 0
  <2>1. i = q + 1 /\ q + 1 < FreeareaNum
    <3>1. q \in Int
      BY <1>1, <1>2, Division
    <3> QED BY <1>1, <1>2, <1>4, <3>1 DEF FreeareaIdAligned, NoArea
  <2>2. q \in Int /\ offset < q * align + align /\ q * align <= offset
    BY <1>1, <1>2, Division
  <2> HIDE DEF q, offset
  <2>3. (q + 1) * align = q * align + align /\ q * align \in Int
    BY <1>1, <2>2
  <2>4. q + 1 > 0
    BY <1>1, <1>2, <1>4, <2>2, <2>3
  <2>5. (q + 1) * align <= (q + 1) * AlignSize /\ (q + 1) * AlignSize \in Int
    BY <1>1, <2>2, <2>4
  <2>6. AreaSize(q + 1) = AreaSize(0) + (q + 1) * AlignSize
    BY <1>1, <1>2 DEF AreaSize
  <2>7. size = AreaSize(0) + offset
    BY <1>1, <1>2 DEF offset
  <2>8. size <= AreaSize(q + 1)
    BY <1>1, <1>2, <2>2, <2>3, <2>5, <2>6, <2>7
  <2>9. q + 1 \in Area
    BY <1>1, <2>1, <2>2, <2>4 DEF Area
  <2> QED BY <2>1, <2>8, <2>9
<1> QED BY <1>2, <1>3, <1>4
=============================================================================
