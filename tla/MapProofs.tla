----------------------------- MODULE MapProofs -----------------------------
(***************************************************************************)
(* Proofs about what the callers of Cache may rely on, for every           *)
(* configuration: a store finds a node to evict, one that follows an erase *)
(* evicts nothing, and the calls do what CacheMap promises.                *)
(*                                                                         *)
(* The first two are about LRU lists that need not be lists: of a node     *)
(* that has been erased once, others still hold pointers, and cycles are   *)
(* common.  What is left of their order is this: but for lrufirst, every   *)
(* node has one before it.                                                 *)
(***************************************************************************)
EXTENDS CacheProofs

-----------------------------------------------------------------------------
(* Part 1: what the functions of ccache_lrulist.c leave of an LRU list.    *)

(* S are the nodes of the freearea a.  Evictions start from lrulast, and   *)
(* go on with its lruprev; where they end, at lrufirst, the list does.     *)
Anchored(L, a, S) ==
  /\ S # {} => L.last[a] # NULL
  /\ \A n \in S \ {L.first[a]} : L.prev[n] # NULL
  /\ L.first[a] # NULL /\ L.first[a] = L.last[a] =>
       /\ L.next[L.first[a]] # L.first[a]
       /\ L.prev[L.first[a]] = NULL => S = {L.first[a]}

(* The pointers of a freearea lead to its nodes.                           *)
Local(L, a, S) ==
  /\ L \in Pointers /\ S \subseteq Node
  /\ L.first[a] \in S \cup {NULL} /\ L.last[a] \in S \cup {NULL}
  /\ \A n \in S : L.next[n] \in S \cup {NULL} /\ L.prev[n] \in S \cup {NULL}

(* All other pointers are in R what they have been in L.                   *)
Leaves(L, R, a, S) ==
  /\ \A b \in Area \ {a} : R.first[b] = L.first[b] /\ R.last[b] = L.last[b]
  /\ \A n \in Node \ S : R.next[n] = L.next[n] /\ R.prev[n] = L.prev[n]

(* The assignments, field by field: M is L with the one assignment.        *)
NextSet(L, M, x, y) ==
  /\ M \in Pointers /\ M.first = L.first /\ M.last = L.last /\ M.prev = L.prev
  /\ \A n \in Node : M.next[n] = IF n = x THEN y ELSE L.next[n]

PrevSet(L, M, x, y) ==
  /\ M \in Pointers /\ M.first = L.first /\ M.last = L.last /\ M.next = L.next
  /\ \A n \in Node : M.prev[n] = IF n = x THEN y ELSE L.prev[n]

FirstSet(test, L, M, a, y) ==
  /\ M \in Pointers /\ M.last = L.last /\ M.next = L.next /\ M.prev = L.prev
  /\ \A b \in Area : M.first[b] = IF test /\ b = a THEN y ELSE L.first[b]

LastSet(test, L, M, a, y) ==
  /\ M \in Pointers /\ M.first = L.first /\ M.next = L.next /\ M.prev = L.prev
  /\ \A b \in Area : M.last[b] = IF test /\ b = a THEN y ELSE L.last[b]

LEMMA SetFields ==
  ASSUME NEW L \in Pointers, NEW x \in Node \cup {NULL}, NEW y \in Node \cup {NULL}
  PROVE  NextSet(L, SetNext(L, x, y), x, y) /\ PrevSet(L, SetPrev(L, x, y), x, y)
<1>1. CASE x = NULL
  BY <1>1, CacheAssumption DEF SetNext, SetPrev, NextSet, PrevSet
<1>2. CASE x # NULL
  <2>1. /\ SetNext(L, x, y) \in Pointers
        /\ SetNext(L, x, y).first = L.first /\ SetNext(L, x, y).last = L.last
        /\ SetNext(L, x, y).prev = L.prev
        /\ SetNext(L, x, y).next = [L.next EXCEPT ![x] = y]
    BY <1>2 DEF SetNext, Pointers
  <2>2. /\ SetPrev(L, x, y) \in Pointers
        /\ SetPrev(L, x, y).first = L.first /\ SetPrev(L, x, y).last = L.last
        /\ SetPrev(L, x, y).next = L.next
        /\ SetPrev(L, x, y).prev = [L.prev EXCEPT ![x] = y]
    BY <1>2 DEF SetPrev, Pointers
  <2>3. DOMAIN L.next = Node /\ DOMAIN L.prev = Node
    BY DEF Pointers
  <2> QED  BY <2>1, <2>2, <2>3 DEF NextSet, PrevSet
<1> QED  BY <1>1, <1>2

LEMMA SetEndFields ==
  ASSUME NEW L \in Pointers, NEW a \in Area, NEW y \in Node \cup {NULL}, NEW test
  PROVE  /\ FirstSet(test, L, SetFirstIf(test, L, a, y), a, y)
         /\ LastSet(test, L, SetLastIf(test, L, a, y), a, y)
<1> DEFINE F == [L EXCEPT !.first[a] = y]
           G == [L EXCEPT !.last[a] = y]
<1>1. /\ F \in Pointers /\ F.first = [L.first EXCEPT ![a] = y] /\ F.last = L.last
      /\ F.next = L.next /\ F.prev = L.prev
      /\ G \in Pointers /\ G.last = [L.last EXCEPT ![a] = y] /\ G.first = L.first
      /\ G.next = L.next /\ G.prev = L.prev
  BY DEF Pointers
<1>2. DOMAIN L.first = Area /\ DOMAIN L.last = Area
  BY DEF Pointers
<1>3. /\ SetFirstIf(test, L, a, y) = IF test THEN F ELSE L
      /\ SetLastIf(test, L, a, y) = IF test THEN G ELSE L
  BY DEF SetFirstIf, SetLastIf
<1> HIDE DEF F, G
<1> QED  BY <1>1, <1>2, <1>3 DEF FirstSet, LastSet

(* A node changes places with the one before it.                           *)
LEMMA SwapFields ==
  ASSUME NEW L \in Pointers, NEW a \in Area, NEW n \in Node, L.prev[n] # NULL
  PROVE  LET R == SwapWithPrev(L, a, n)
             prev == L.prev[n]
             next == L.next[n]
         IN  /\ R \in Pointers
             /\ \A b \in Area :
                  /\ R.first[b] = IF b = a /\ prev = L.first[a] THEN n ELSE L.first[b]
                  /\ R.last[b] = IF b = a /\ n = L.last[a] THEN prev ELSE L.last[b]
             /\ \A x \in Node :
                  /\ R.prev[x] = IF x = n THEN L.prev[prev]
                                 ELSE IF x = next THEN prev
                                 ELSE IF x = prev THEN n ELSE L.prev[x]
                  /\ R.next[x] = IF x = L.prev[prev] THEN n
                                 ELSE IF x = n THEN prev
                                 ELSE IF x = prev THEN next ELSE L.next[x]
<1> DEFINE prev     == L.prev[n]
           next     == L.next[n]
           L1       == SetNext(L, prev, next)
           prevprev == IF prev = NULL THEN NULL ELSE L1.prev[prev]
           L2       == SetPrev(L1, prev, n)
           L3       == SetPrev(L2, next, prev)
           L4a      == SetNext(L3, n, prev)
           L4       == SetPrev(L4a, n, prevprev)
           L5       == SetNext(L4, prevprev, n)
           L6       == SetLastIf(n = L5.last[a], L5, a, prev)
           R        == SetFirstIf(prev = L6.first[a], L6, a, n)
<1>1. /\ prev \in Node /\ next \in Node \cup {NULL} /\ L.prev[prev] \in Node \cup {NULL}
      /\ NULL \notin Node
  BY CacheAssumption DEF Pointers
<1>2. R = SwapWithPrev(L, a, n)
  BY DEF SwapWithPrev
<1> HIDE DEF prev, next
<1>3. NextSet(L, L1, prev, next)
  BY <1>1, SetFields
<1> HIDE DEF L1
<1>4. L1 \in Pointers /\ prevprev = L.prev[prev] /\ prevprev \in Node \cup {NULL}
  BY <1>1, <1>3 DEF NextSet
<1> HIDE DEF prevprev
<1>5. PrevSet(L1, L2, prev, n)
  BY <1>1, <1>4, SetFields
<1> HIDE DEF L2
<1>6. L2 \in Pointers
  BY <1>5 DEF PrevSet
<1>7. PrevSet(L2, L3, next, prev)
  BY <1>1, <1>4, <1>6, SetFields
<1> HIDE DEF L3
<1>8. L3 \in Pointers
  BY <1>7 DEF PrevSet
<1>9. NextSet(L3, L4a, n, prev)
  BY <1>1, <1>4, <1>8, SetFields
<1> HIDE DEF L4a
<1>10. L4a \in Pointers
  BY <1>9 DEF NextSet
<1>11. PrevSet(L4a, L4, n, prevprev)
  BY <1>1, <1>4, <1>10, SetFields
<1> HIDE DEF L4
<1>12. L4 \in Pointers
  BY <1>11 DEF PrevSet
<1>13. NextSet(L4, L5, prevprev, n)
  BY <1>1, <1>4, <1>12, SetFields
<1> HIDE DEF L5
<1>14. L5 \in Pointers
  BY <1>13 DEF NextSet
<1>15. LastSet(n = L5.last[a], L5, L6, a, prev)
  BY <1>1, <1>4, <1>14, SetEndFields
<1> HIDE DEF L6
<1>16. L6 \in Pointers
  BY <1>15 DEF LastSet
<1>17. FirstSet(prev = L6.first[a], L6, R, a, n)
  BY <1>1, <1>4, <1>16, SetEndFields
<1> HIDE DEF R
<1>18. R \in Pointers
  BY <1>17 DEF FirstSet
<1>19. \A b \in Area :
            /\ R.first[b] = IF b = a /\ prev = L.first[a] THEN n ELSE L.first[b]
            /\ R.last[b] = IF b = a /\ n = L.last[a] THEN prev ELSE L.last[b]
  BY <1>3, <1>5, <1>7, <1>9, <1>11, <1>13, <1>15, <1>17
  DEF NextSet, PrevSet, FirstSet, LastSet
<1>20. \A x \in Node :
         R.prev[x] = IF x = n THEN prevprev ELSE IF x = next THEN prev
                     ELSE IF x = prev THEN n ELSE L.prev[x]
  BY <1>3, <1>5, <1>7, <1>9, <1>11, <1>13, <1>15, <1>17
  DEF NextSet, PrevSet, FirstSet, LastSet
<1>21. \A x \in Node :
         R.next[x] = IF x = prevprev THEN n ELSE IF x = n THEN prev
                     ELSE IF x = prev THEN next ELSE L.next[x]
  BY <1>3, <1>5, <1>7, <1>9, <1>11, <1>13, <1>15, <1>17
  DEF NextSet, PrevSet, FirstSet, LastSet
<1> QED  BY <1>2, <1>4, <1>18, <1>19, <1>20, <1>21 DEF prev, next

(* ccache_lrulist_free: the neighbours of n point past it.                 *)
LEMMA FreeFields ==
  ASSUME NEW L \in Pointers, NEW a \in Area, NEW n \in Node
  PROVE  LET R == LruFree(L, a, n)
             prev == L.prev[n]
             next == L.next[n]
         IN  /\ R \in Pointers
             /\ \A b \in Area :
                  /\ R.first[b] = IF b = a /\ n = L.first[a] THEN next ELSE L.first[b]
                  /\ R.last[b] = IF b = a /\ n = L.last[a] THEN prev ELSE L.last[b]
             /\ \A x \in Node :
                  /\ R.prev[x] = IF x = next THEN prev ELSE L.prev[x]
                  /\ R.next[x] = IF x = prev THEN next ELSE L.next[x]
<1> DEFINE prev == L.prev[n]
           next == L.next[n]
           L1   == SetPrev(L, next, prev)
           L2   == SetNext(L1, prev, next)
           L3   == SetFirstIf(n = L2.first[a], L2, a, next)
           R    == SetLastIf(n = L3.last[a], L3, a, prev)
<1>1. prev \in Node \cup {NULL} /\ next \in Node \cup {NULL}
  BY DEF Pointers
<1>2. R = LruFree(L, a, n)
  BY DEF LruFree
<1> HIDE DEF prev, next
<1>3. PrevSet(L, L1, next, prev)
  BY <1>1, SetFields
<1> HIDE DEF L1
<1>4. L1 \in Pointers
  BY <1>3 DEF PrevSet
<1>5. NextSet(L1, L2, prev, next)
  BY <1>1, <1>4, SetFields
<1> HIDE DEF L2
<1>6. L2 \in Pointers
  BY <1>5 DEF NextSet
<1>7. FirstSet(n = L2.first[a], L2, L3, a, next)
  BY <1>1, <1>6, SetEndFields
<1> HIDE DEF L3
<1>8. L3 \in Pointers
  BY <1>7 DEF FirstSet
<1>9. LastSet(n = L3.last[a], L3, R, a, prev)
  BY <1>1, <1>8, SetEndFields
<1> HIDE DEF R
<1>10. /\ R \in Pointers
       /\ \A b \in Area :
            /\ R.first[b] = IF b = a /\ n = L.first[a] THEN next ELSE L.first[b]
            /\ R.last[b] = IF b = a /\ n = L.last[a] THEN prev ELSE L.last[b]
       /\ \A x \in Node :
            /\ R.prev[x] = IF x = next THEN prev ELSE L.prev[x]
            /\ R.next[x] = IF x = prev THEN next ELSE L.next[x]
  BY <1>3, <1>5, <1>7, <1>9 DEF NextSet, PrevSet, FirstSet, LastSet
<1> QED  BY <1>2, <1>10 DEF prev, next

LEMMA DetachFields ==
  ASSUME NEW L \in Pointers, NEW n \in Node
  PROVE  LET R == LruDetach(L, n)
         IN  /\ R \in Pointers /\ R.first = L.first /\ R.last = L.last
             /\ \A x \in Node : /\ R.prev[x] = IF x = n THEN NULL ELSE L.prev[x]
                                /\ R.next[x] = IF x = n THEN NULL ELSE L.next[x]
<1> DEFINE L1 == SetNext(L, n, NULL)
           R  == SetPrev(L1, n, NULL)
<1>1. NextSet(L, L1, n, NULL)
  BY SetFields
<1> HIDE DEF L1
<1>2. L1 \in Pointers
  BY <1>1 DEF NextSet
<1>3. PrevSet(L1, R, n, NULL)
  BY <1>2, SetFields
<1>4. R = LruDetach(L, n)
  BY DEF LruDetach, L1
<1> HIDE DEF R
<1> QED  BY <1>1, <1>3, <1>4 DEF NextSet, PrevSet

LEMMA ReturnFields ==
  ASSUME NEW L \in Pointers, NEW a \in Area, NEW n \in Node, n # L.last[a]
  PROVE  LET R == LruReturn(L, a, n)
         IN  /\ R \in Pointers /\ R.first = L.first
             /\ \A b \in Area : R.last[b] = IF b = a THEN n ELSE L.last[b]
             /\ \A x \in Node :
                  /\ R.prev[x] = IF x = n THEN L.last[a] ELSE L.prev[x]
                  /\ R.next[x] = IF x = n THEN NULL ELSE IF x = L.last[a] THEN n ELSE L.next[x]
<1> DEFINE last == L.last[a]
           L1   == SetNext(L, last, n)
           L2   == SetPrev(L1, n, last)
           L3   == SetNext(L2, n, NULL)
           R    == SetLastIf(TRUE, L3, a, n)
<1>1. last \in Node \cup {NULL}
  BY DEF Pointers
<1>2. R = LruReturn(L, a, n)
  BY DEF LruReturn, SetLastIf
<1> HIDE DEF last
<1>3. NextSet(L, L1, last, n)
  BY <1>1, SetFields
<1> HIDE DEF L1
<1>4. L1 \in Pointers
  BY <1>3 DEF NextSet
<1>5. PrevSet(L1, L2, n, last)
  BY <1>1, <1>4, SetFields
<1> HIDE DEF L2
<1>6. L2 \in Pointers
  BY <1>5 DEF PrevSet
<1>7. NextSet(L2, L3, n, NULL)
  BY <1>6, SetFields
<1> HIDE DEF L3
<1>8. L3 \in Pointers
  BY <1>7 DEF NextSet
<1>9. LastSet(TRUE, L3, R, a, n)
  BY <1>8, SetEndFields
<1> HIDE DEF R
<1>10. /\ R \in Pointers /\ R.first = L.first
       /\ \A b \in Area : R.last[b] = IF b = a THEN n ELSE L.last[b]
       /\ \A x \in Node :
            /\ R.prev[x] = IF x = n THEN last ELSE L.prev[x]
            /\ R.next[x] = IF x = n THEN NULL ELSE IF x = last THEN n ELSE L.next[x]
  BY <1>3, <1>5, <1>7, <1>9 DEF NextSet, PrevSet, LastSet
<1> QED  BY <1>2, <1>10 DEF last

(* The two short cases of ccache_lrulist_advance.                          *)
LEMMA AppendFields ==
  ASSUME NEW L \in Pointers, NEW a \in Area, NEW n \in Node
  PROVE  LET R == AppendToList(L, a, n)
         IN  /\ R \in Pointers /\ R.first = L.first /\ R.next = L.next
             /\ \A b \in Area : R.last[b] = IF b = a THEN n ELSE L.last[b]
             /\ \A x \in Node : R.prev[x] = IF x = n THEN L.last[a] ELSE L.prev[x]
<1> DEFINE L1 == SetPrev(L, n, L.last[a])
           R  == SetLastIf(TRUE, L1, a, n)
<1>1. L.last[a] \in Node \cup {NULL} /\ n # NULL
  BY CacheAssumption DEF Pointers
<1>2. PrevSet(L, L1, n, L.last[a])
  BY <1>1, SetFields
<1>3. R = AppendToList(L, a, n)
  BY <1>1 DEF AppendToList, SetPrev, SetLastIf
<1> HIDE DEF L1
<1>4. L1 \in Pointers
  BY <1>2 DEF PrevSet
<1>5. LastSet(TRUE, L1, R, a, n)
  BY <1>4, SetEndFields
<1> HIDE DEF R
<1> QED  BY <1>2, <1>3, <1>5 DEF PrevSet, LastSet

LEMMA StartFields ==
  ASSUME NEW L \in Pointers, NEW a \in Area, NEW n \in Node
  PROVE  LET R == StartList(L, a, n)
         IN  /\ R \in Pointers /\ R.next = L.next /\ R.prev = L.prev
             /\ \A b \in Area : /\ R.first[b] = IF b = a THEN n ELSE L.first[b]
                                /\ R.last[b] = IF b = a THEN n ELSE L.last[b]
<1> DEFINE L1 == SetFirstIf(TRUE, L, a, n)
           R  == SetLastIf(TRUE, L1, a, n)
<1>1. FirstSet(TRUE, L, L1, a, n)
  BY SetEndFields
<1>2. R = StartList(L, a, n)
  BY DEF StartList, SetFirstIf, SetLastIf
<1> HIDE DEF L1
<1>3. L1 \in Pointers
  BY <1>1 DEF FirstSet
<1>4. LastSet(TRUE, L1, R, a, n)
  BY <1>3, SetEndFields
<1> HIDE DEF R
<1> QED  BY <1>1, <1>2, <1>4 DEF FirstSet, LastSet

-----------------------------------------------------------------------------
(* Part 2: the lists stay anchored.                                        *)

(* ccache_lrulist_advance on a node of the freearea.                       *)
LEMMA AdvanceAnchored ==
  ASSUME NEW L, NEW a \in Area, NEW S, Local(L, a, S), Anchored(L, a, S), NEW n \in S
  PROVE  LET R == LruAdvance(L, a, n) IN Anchored(R, a, S) /\ Leaves(L, R, a, S)
<1>1. L \in Pointers /\ n \in Node /\ n # NULL /\ L.last[a] # NULL /\ NULL \notin Node
      /\ NULL \notin S
  BY CacheAssumption DEF Local, Anchored
<1>2. CASE L.first[a] = n
  <2>1. LruAdvance(L, a, n) = L
    BY <1>1, <1>2 DEF LruAdvance
  <2> QED  BY <2>1 DEF Leaves
<1>3. CASE L.first[a] # n
  <2> DEFINE R    == SwapWithPrev(L, a, n)
             prev == L.prev[n]
             next == L.next[n]
             f    == L.first[a]
             l    == L.last[a]
  <2>1. prev # NULL
    BY <1>3 DEF Anchored
  <2>2. LruAdvance(L, a, n) = R
    BY <1>1, <1>3, <2>1 DEF LruAdvance
  <2>3. prev \in S /\ next \in S \cup {NULL} /\ L.prev[prev] \in S \cup {NULL} /\ l \in S
        /\ f \in S \cup {NULL}
    BY <1>1, <2>1 DEF Local
  <2>4. /\ \A b \in Area :
             /\ R.first[b] = IF b = a /\ prev = f THEN n ELSE L.first[b]
             /\ R.last[b] = IF b = a /\ n = l THEN prev ELSE L.last[b]
        /\ \A x \in Node :
             /\ R.prev[x] = IF x = n THEN L.prev[prev] ELSE IF x = next THEN prev
                            ELSE IF x = prev THEN n ELSE L.prev[x]
             /\ R.next[x] = IF x = L.prev[prev] THEN n ELSE IF x = n THEN prev
                            ELSE IF x = prev THEN next ELSE L.next[x]
    BY <1>1, <2>1, SwapFields
  <2> HIDE DEF R
  <2>5. Leaves(L, R, a, S)
    BY <1>1, <2>3, <2>4 DEF Leaves
  <2>6. S \subseteq Node
    BY DEF Local
  <2>7. R.last[a] # NULL
    BY <1>1, <2>1, <2>4
  <2>8. ASSUME NEW x \in S \ {R.first[a]}
        PROVE  R.prev[x] # NULL
    <3>1. CASE x = n
      <4>1. prev # f
        BY <2>4, <2>8, <3>1
      <4>2. L.prev[prev] # NULL
        BY <2>3, <4>1 DEF Anchored
      <4> QED  BY <1>1, <2>4, <3>1, <4>2
    <3>2. CASE x # n /\ (x = next \/ x = prev)
      BY <1>1, <2>1, <2>4, <2>6, <3>2
    <3>3. CASE x # n /\ x # next /\ x # prev
      <4>1. x # f
        BY <2>4, <2>8, <3>3
      <4> QED  BY <2>4, <2>6, <3>3, <4>1 DEF Anchored
    <3> QED  BY <3>1, <3>2, <3>3
  <2>9. ASSUME R.first[a] # NULL, R.first[a] = R.last[a]
        PROVE  R.next[R.first[a]] # R.first[a] /\ (R.prev[R.first[a]] = NULL => S = {R.first[a]})
    <3>1. /\ prev # f /\ n # l /\ f = l /\ f # n
          /\ R.first[a] = f /\ f \in Node
      BY <1>3, <2>3, <2>4, <2>6, <2>9
    <3>2. L.next[f] # f /\ L.prev[f] # NULL
      BY <1>3, <3>1 DEF Anchored
    <3>3. R.prev[f] # NULL
      BY <1>1, <2>1, <2>4, <3>1, <3>2
    <3>4. R.next[f] # f
      BY <2>4, <3>1, <3>2
    <3> QED  BY <3>1, <3>3, <3>4
  <2> HIDE DEF prev, next, f, l
  <2>10. Anchored(R, a, S)
    BY <2>7, <2>8, <2>9 DEF Anchored
  <2> QED  BY <2>2, <2>5, <2>10
<1> QED  BY <1>2, <1>3

(* ccache_lrulist_return of an erased node.                                *)
LEMMA ReturnAnchored ==
  ASSUME NEW L, NEW a \in Area, NEW S, Local(L, a, S), Anchored(L, a, S), NEW n \in S
  PROVE  LET R == LruReturn(L, a, n)
         IN  Anchored(R, a, S) /\ Leaves(L, R, a, S) /\ R.last[a] = n
<1>1. L \in Pointers /\ n \in Node /\ n # NULL /\ L.last[a] # NULL /\ L.last[a] \in S /\ NULL \notin S
      /\ S \subseteq Node
  BY CacheAssumption DEF Local, Anchored
<1>2. CASE n = L.last[a]
  <2>1. LruReturn(L, a, n) = L
    BY <1>2 DEF LruReturn
  <2> QED  BY <1>2, <2>1 DEF Leaves
<1>3. CASE n # L.last[a]
  <2> DEFINE R == LruReturn(L, a, n)
  <2>1. /\ R \in Pointers /\ R.first = L.first
        /\ \A b \in Area : R.last[b] = IF b = a THEN n ELSE L.last[b]
        /\ \A x \in Node :
             /\ R.prev[x] = IF x = n THEN L.last[a] ELSE L.prev[x]
             /\ R.next[x] = IF x = n THEN NULL ELSE IF x = L.last[a] THEN n ELSE L.next[x]
    BY <1>1, <1>3, ReturnFields
  <2> HIDE DEF R
  <2>2. Leaves(L, R, a, S) /\ R.last[a] = n
    BY <1>1, <2>1 DEF Leaves
  <2>3. \A x \in S \ {R.first[a]} : R.prev[x] # NULL
    BY <1>1, <2>1 DEF Anchored
  <2>4. R.prev[n] # NULL /\ R.next[n] # n
    BY <1>1, <2>1
  <2>5. R.first[a] = R.last[a] => R.next[R.first[a]] # R.first[a] /\ R.prev[R.first[a]] # NULL
    BY <2>2, <2>4
  <2>6. Anchored(R, a, S)
    BY <1>1, <2>2, <2>3, <2>5 DEF Anchored
  <2> QED  BY <2>2, <2>6 DEF R
<1> QED  BY <1>2, <1>3

(* A node that is nobody else's is put at the beginning of an empty list,  *)
(* or at the end of another.                                               *)
LEMMA CarveAnchored ==
  ASSUME NEW L, NEW a \in Area, NEW S, Local(L, a, S), Anchored(L, a, S), NEW n \in Node \ S
  PROVE  LET R == LruAdvance(LruDetach(L, n), a, n)
         IN  Anchored(R, a, S \cup {n}) /\ Leaves(L, R, a, S \cup {n})
<1> DEFINE D == LruDetach(L, n)
           R == LruAdvance(D, a, n)
<1>1. L \in Pointers /\ n # NULL /\ NULL \notin S /\ S \subseteq Node
      /\ L.first[a] # n /\ L.last[a] # n /\ L.first[a] \in S \cup {NULL}
  BY CacheAssumption DEF Local
<1>2. /\ D \in Pointers /\ D.first = L.first /\ D.last = L.last
      /\ \A x \in Node : /\ D.prev[x] = IF x = n THEN NULL ELSE L.prev[x]
                         /\ D.next[x] = IF x = n THEN NULL ELSE L.next[x]
  BY <1>1, DetachFields
<1> HIDE DEF D
<1>3. CASE D.first[a] = NULL /\ D.last[a] = NULL
  <2>1. R = StartList(D, a, n)
    BY <1>3 DEF LruAdvance
  <2>2. /\ R \in Pointers /\ R.next = D.next /\ R.prev = D.prev
        /\ \A b \in Area : /\ R.first[b] = IF b = a THEN n ELSE D.first[b]
                           /\ R.last[b] = IF b = a THEN n ELSE D.last[b]
    BY <1>2, <2>1, StartFields
  <2> HIDE DEF R
  <2>3. S = {}
    BY <1>2, <1>3 DEF Anchored
  <2>4. Anchored(R, a, S \cup {n})
    BY <1>1, <1>2, <2>2, <2>3 DEF Anchored
  <2>5. Leaves(L, R, a, S \cup {n})
    BY <1>2, <2>2 DEF Leaves
  <2> QED  BY <2>4, <2>5 DEF R, D
<1>4. CASE D.first[a] # NULL \/ D.last[a] # NULL
  <2>1. R = AppendToList(D, a, n)
    BY <1>1, <1>2, <1>4 DEF LruAdvance
  <2>2. /\ R \in Pointers /\ R.first = D.first /\ R.next = D.next
        /\ \A b \in Area : R.last[b] = IF b = a THEN n ELSE D.last[b]
        /\ \A x \in Node : R.prev[x] = IF x = n THEN D.last[a] ELSE D.prev[x]
    BY <1>2, <2>1, AppendFields
  <2> HIDE DEF R
  <2>3. D.last[a] # NULL
    <3>1. D.first[a] # NULL => S # {}
      BY <1>1, <1>2
    <3> QED  BY <1>2, <1>4, <3>1 DEF Anchored
  <2>4. \A x \in (S \cup {n}) \ {R.first[a]} : R.prev[x] # NULL
    BY <1>1, <1>2, <2>2, <2>3 DEF Anchored
  <2>5. R.last[a] = n /\ R.first[a] # n
    BY <1>1, <1>2, <2>2
  <2>6. Anchored(R, a, S \cup {n})
    BY <1>1, <2>4, <2>5 DEF Anchored
  <2>7. Leaves(L, R, a, S \cup {n})
    BY <1>2, <2>2 DEF Leaves
  <2> QED  BY <2>6, <2>7 DEF R, D
<1> QED  BY <1>3, <1>4

(* The node at lrulast is taken off the list and comes back.               *)
LEMMA ReuseAnchored ==
  ASSUME NEW L, NEW a \in Area, NEW S, Local(L, a, S), Anchored(L, a, S),
         NEW n \in S, n = L.last[a]
  PROVE  LET R == LruAdvance(LruDetach(LruFree(L, a, n), n), a, n)
         IN  Anchored(R, a, S) /\ Leaves(L, R, a, S)
<1> DEFINE F    == LruFree(L, a, n)
           D    == LruDetach(F, n)
           R    == LruAdvance(D, a, n)
           prev == L.prev[n]
           next == L.next[n]
           f    == L.first[a]
<1>1. /\ L \in Pointers /\ n \in S /\ n \in Node /\ NULL \notin Node /\ S \subseteq Node
      /\ prev \in S \cup {NULL} /\ next \in S \cup {NULL} /\ f \in S \cup {NULL}
  BY CacheAssumption DEF Local
<1>2. L \in Pointers /\ n \in Node
  BY <1>1
<1>3. /\ n # f => prev # NULL
      /\ n = f => next # n /\ (prev = NULL => S = {n})
      /\ \A x \in S \ {f} : L.prev[x] # NULL
  BY <1>1 DEF Anchored
<1>4. /\ F \in Pointers
      /\ \A b \in Area :
           /\ F.first[b] = IF b = a /\ n = f THEN next ELSE L.first[b]
           /\ F.last[b] = IF b = a /\ n = L.last[a] THEN prev ELSE L.last[b]
      /\ \A x \in Node :
           /\ F.prev[x] = IF x = next THEN prev ELSE L.prev[x]
           /\ F.next[x] = IF x = prev THEN next ELSE L.next[x]
  BY <1>2, FreeFields
<1> HIDE DEF F, prev, next, f
<1>5. /\ D \in Pointers /\ D.first = F.first /\ D.last = F.last
      /\ \A x \in Node : /\ D.prev[x] = IF x = n THEN NULL ELSE F.prev[x]
                         /\ D.next[x] = IF x = n THEN NULL ELSE F.next[x]
  BY <1>1, <1>4, DetachFields
<1> HIDE DEF D
<1>6. Leaves(L, D, a, S)
  BY <1>1, <1>4, <1>5 DEF Leaves
<1>7. ASSUME NEW x \in S, x # n, x # D.first[a]
      PROVE  D.prev[x] # NULL
  <2>1. D.prev[x] = IF x = next THEN prev ELSE L.prev[x]
    BY <1>1, <1>4, <1>5, <1>7
  <2>2. D.first[a] = IF n = f THEN next ELSE f
    BY <1>4, <1>5 DEF f
  <2> QED  BY <1>3, <1>7, <2>1, <2>2
<1>8. D.first[a] # n
  BY <1>3, <1>4, <1>5 DEF f
<1>9. D.last[a] = prev
  BY <1>4, <1>5
<1>10. CASE D.first[a] = NULL /\ D.last[a] = NULL
  <2>1. R = StartList(D, a, n)
    BY <1>10 DEF LruAdvance
  <2> HIDE DEF R
  <2>2. /\ R \in Pointers /\ R.next = D.next /\ R.prev = D.prev
        /\ \A b \in Area : /\ R.first[b] = IF b = a THEN n ELSE D.first[b]
                           /\ R.last[b] = IF b = a THEN n ELSE D.last[b]
    BY <1>2, <1>5, <2>1, StartFields
  <2>3. S = {n}
    BY <1>3, <1>9, <1>10
  <2>4. Anchored(R, a, S)
    BY <1>1, <1>5, <2>2, <2>3 DEF Anchored
  <2>5. Leaves(L, R, a, S)
    BY <1>6, <2>2 DEF Leaves
  <2> QED  BY <2>4, <2>5 DEF R, D, F
<1>11. CASE D.first[a] # NULL \/ D.last[a] # NULL
  <2>1. R = AppendToList(D, a, n)
    BY <1>1, <1>5, <1>8, <1>11 DEF LruAdvance
  <2> HIDE DEF R
  <2>2. /\ R \in Pointers /\ R.first = D.first /\ R.next = D.next
        /\ \A b \in Area : R.last[b] = IF b = a THEN n ELSE D.last[b]
        /\ \A x \in Node : R.prev[x] = IF x = n THEN D.last[a] ELSE D.prev[x]
    BY <1>2, <1>5, <2>1, AppendFields
  <2>3. D.last[a] # NULL
    <3>1. prev = NULL => D.first[a] = next /\ next = NULL
      BY <1>1, <1>3, <1>4, <1>5
    <3> QED  BY <1>9, <1>11, <3>1
  <2>4. \A x \in S \ {R.first[a]} : R.prev[x] # NULL
    BY <1>1, <1>7, <2>2, <2>3
  <2>5. R.last[a] = n /\ R.first[a] # n
    BY <1>8, <2>2
  <2>6. Anchored(R, a, S)
    BY <1>1, <2>4, <2>5 DEF Anchored
  <2>7. Leaves(L, R, a, S)
    BY <1>1, <1>6, <2>2 DEF Leaves
  <2> QED  BY <2>6, <2>7 DEF R, D, F
<1> QED  BY <1>10, <1>11

-----------------------------------------------------------------------------
(* Part 3: the inductive invariant.                                        *)

AllAnchored == \A a \in Area : Anchored(lru, a, NodesOf(a))

(* The node of the last erase waits at lrulast to be used first.           *)
ErasedIsNext ==
  ret.op = "erase" /\ ret.rc = 0 =>
    /\ ret.node \in carved /\ ~Live(ret.node)
    /\ lru.last[node[ret.node].freeareaid] = ret.node

MInv == IInv /\ AllAnchored /\ ErasedIsNext

LEMMA ListsLocal ==
  ASSUME IInv, NEW a \in Area
  PROVE  Local(lru, a, NodesOf(a)) /\ \A n \in NodesOf(a) : n \in Node /\ n \in carved
  BY DEF IInv, TypeOK, LruStaysInArea, NodesOf, Local

(* A step that works on the list of one freearea.                          *)
LEMMA OneListChanges ==
  ASSUME IInv, IInv', AllAnchored, NEW a \in Area,
         Anchored(lru', a, NodesOf(a)'), Leaves(lru, lru', a, NodesOf(a)'),
         \A b \in Area \ {a} : NodesOf(b)' = NodesOf(b)
  PROVE  AllAnchored'
<1> SUFFICES ASSUME NEW b \in Area, b # a
             PROVE  Anchored(lru', b, NodesOf(b)')
  BY DEF AllAnchored
<1>1. /\ NodesOf(b)' = NodesOf(b) /\ Anchored(lru, b, NodesOf(b)) /\ Local(lru, b, NodesOf(b))
  BY ListsLocal DEF AllAnchored
<1>2. \A n \in NodesOf(b) : n \notin NodesOf(a)' /\ n \in Node
  BY <1>1 DEF NodesOf, Local
<1>3. /\ lru'.first[b] = lru.first[b] /\ lru'.last[b] = lru.last[b]
      /\ \A n \in NodesOf(b) : lru'.next[n] = lru.next[n] /\ lru'.prev[n] = lru.prev[n]
  BY <1>2 DEF Leaves
<1>4. Anchored(lru', b, NodesOf(b))
  BY <1>1, <1>3 DEF Anchored, Local
<1> QED  BY <1>1, <1>4

LEMMA FreshMInv ==
  ASSUME MInv, IInv', NEW op, op # "erase", NEW k \in Key, NEW d \in Data, StoreFresh(op, k, d)
  PROVE  AllAnchored' /\ ErasedIsNext'
<1> DEFINE a == AreaFor(k, d)
<1>1. PICK n \in Node \ carved :
        /\ StoreIn(n, a, k, d, lru, bucket, nodenum)
        /\ carved' = carved \cup {n}
        /\ ret' = Reply(op, 0, n, NoItem, NULL)
  BY DEF StoreFresh
<1>2. a \in Area
  BY AreaForFits DEF StoreFresh
<1> HIDE DEF a
<1>3. /\ lru' = LruAdvance(LruDetach(lru, n), a, n)
      /\ node \in [Node -> NodeFields] /\ carved \subseteq Node
      /\ node'[n].freeareaid = a /\ \A x \in carved : node'[x] = node[x]
  BY <1>1 DEF StoreIn, MInv, IInv, TypeOK
<1>4. NodesOf(a)' = NodesOf(a) \cup {n} /\ \A b \in Area \ {a} : NodesOf(b)' = NodesOf(b)
  BY <1>1, <1>3 DEF NodesOf
<1>5. Local(lru, a, NodesOf(a)) /\ Anchored(lru, a, NodesOf(a)) /\ n \in Node \ NodesOf(a)
  BY <1>1, <1>2, ListsLocal DEF MInv, AllAnchored, NodesOf
<1>6. Anchored(lru', a, NodesOf(a) \cup {n}) /\ Leaves(lru, lru', a, NodesOf(a) \cup {n})
  BY <1>2, <1>3, <1>5, CarveAnchored
<1>7. AllAnchored'
  BY <1>2, <1>4, <1>6, OneListChanges DEF MInv
<1>8. ret'.op # "erase"
  BY <1>1 DEF Reply
<1> QED  BY <1>7, <1>8 DEF ErasedIsNext

LEMMA ReusedMInv ==
  ASSUME MInv, IInv', NEW op, op # "erase", NEW k \in Key, NEW d \in Data, StoreReused(op, k, d)
  PROVE  AllAnchored' /\ ErasedIsNext'
<1> DEFINE a == AreaFor(k, d)
           n == lru.last[a]
<1>1. /\ n # NULL /\ a # NoArea
      /\ lru' = LruAdvance(LruDetach(LruFree(lru, node[n].freeareaid, n), n), a, n)
      /\ \E h : node' = [node EXCEPT ![n] = [hashindex |-> h, freeareaid |-> a, key |-> k,
                                             data |-> d, datasize |-> DataLen[d]]]
      /\ carved' = carved /\ ret'.op = op
  BY DEF StoreReused, StoreIn, Reply
<1>2. a \in Area
  BY <1>1, AreaForFits
<1> HIDE DEF a
<1>3. Local(lru, a, NodesOf(a)) /\ Anchored(lru, a, NodesOf(a)) /\ n \in NodesOf(a)
  BY <1>1, <1>2, ListsLocal DEF MInv, AllAnchored, Local
<1>4. n \in Node /\ node[n].freeareaid = a /\ node \in [Node -> NodeFields] /\ carved \subseteq Node
  BY <1>3 DEF NodesOf, MInv, IInv, TypeOK
<1>5. /\ lru' = LruAdvance(LruDetach(LruFree(lru, a, n), n), a, n)
      /\ \A x \in Node : node'[x].freeareaid = node[x].freeareaid
  BY <1>1, <1>4
<1>6. \A b \in Area : NodesOf(b)' = NodesOf(b)
  BY <1>1, <1>4, <1>5 DEF NodesOf
<1>7. Anchored(lru', a, NodesOf(a)) /\ Leaves(lru, lru', a, NodesOf(a))
  BY <1>2, <1>3, <1>5, ReuseAnchored
<1>8. AllAnchored'
  BY <1>2, <1>6, <1>7, OneListChanges DEF MInv
<1> QED  BY <1>1, <1>8 DEF ErasedIsNext

(* A call that works on a node of an item it has found.                    *)
LEMMA HitMInv ==
  ASSUME MInv, IInv', KeepsSize, carved' = carved, NEW k \in Key, NEW n \in Found(k),
         \/ lru' = Advanced(n) /\ ret'.op # "erase"
         \/ /\ lru' = LruReturn(lru, node[n].freeareaid, n)
            /\ node' = [node EXCEPT ![n] = EmptyNode(@.freeareaid)]
            /\ ret'.node = n
  PROVE  AllAnchored' /\ ErasedIsNext'
<1> DEFINE a == node[n].freeareaid
<1>1. a \in Area /\ n \in carved /\ n \in Node
  BY FoundFacts DEF MInv
<1> HIDE DEF a
<1>2. Local(lru, a, NodesOf(a)) /\ Anchored(lru, a, NodesOf(a)) /\ n \in NodesOf(a)
  BY <1>1, ListsLocal DEF MInv, AllAnchored, NodesOf, a
<1>3. \A b \in Area : NodesOf(b)' = NodesOf(b)
  BY DEF NodesOf, KeepsSize
<1>4. CASE lru' = Advanced(n) /\ ret'.op # "erase"
  <2>1. Anchored(lru', a, NodesOf(a)) /\ Leaves(lru, lru', a, NodesOf(a))
    <3>1. lru' = LruAdvance(lru, a, n)
      BY <1>4 DEF Advanced, a
    <3> QED  BY <1>1, <1>2, <3>1, AdvanceAnchored
  <2>2. AllAnchored'
    BY <1>1, <1>3, <2>1, OneListChanges DEF MInv
  <2> QED  BY <1>4, <2>2 DEF ErasedIsNext
<1>5. CASE /\ lru' = LruReturn(lru, node[n].freeareaid, n)
           /\ node' = [node EXCEPT ![n] = EmptyNode(@.freeareaid)]
           /\ ret'.node = n
  <2>1. /\ Anchored(lru', a, NodesOf(a)) /\ Leaves(lru, lru', a, NodesOf(a))
        /\ lru'.last[a] = n
    <3>1. lru' = LruReturn(lru, a, n)
      BY <1>5 DEF a
    <3> QED  BY <1>1, <1>2, <3>1, ReturnAnchored
  <2>2. AllAnchored'
    BY <1>1, <1>3, <2>1, OneListChanges DEF MInv
  <2>3. node'[n].hashindex = InvalidHash /\ node'[n].freeareaid = a
    BY <1>1, <1>5 DEF EmptyNode, a, MInv, IInv, TypeOK
  <2> QED  BY <1>1, <1>5, <2>1, <2>2, <2>3 DEF ErasedIsNext, Live
<1> QED  BY <1>4, <1>5

(* A call that changes no list.                                            *)
LEMMA ReplyMInv ==
  ASSUME MInv, lru' = lru, carved' = carved, node' = node,
         ret' = ret \/ ret'.op # "erase" \/ ret'.rc # 0
  PROVE  AllAnchored' /\ ErasedIsNext'
  BY DEF MInv, AllAnchored, NodesOf, ErasedIsNext, Live

LEMMA NextMInv ==
  ASSUME MInv, [Next]_vars
  PROVE  MInv'
<1>1. IInv' /\ KeepsSize
  BY NextPreserves DEF MInv
<1> DEFINE Goal == AllAnchored' /\ ErasedIsNext'
<1>2. ASSUME NEW op \in {"insert", "set"}, NEW k \in Key, NEW d \in Data, Store(op, k, d)
      PROVE  Goal
  <2>1. CASE StoreFailed(op, k, d)
    BY <1>2, <2>1, ReplyMInv DEF StoreFailed, Failure, Reply
  <2> QED  BY <1>1, <1>2, <2>1, FreshMInv, ReusedMInv DEF Store
<1>3. ASSUME NEW k \in Key, NEW d \in Data, Insert(k, d)
      PROVE  Goal
  <2>1. CASE InsertExisting(k)
    BY <1>1, <2>1, HitMInv DEF InsertExisting, Reply
  <2> QED  BY <1>2, <1>3, <2>1 DEF Insert
<1>4. ASSUME NEW op \in {"update", "set"}, NEW k \in Key, NEW n \in Found(k), NEW d,
             Overwrite(op, n, d)
      PROVE  Goal
  BY <1>1, <1>4, HitMInv DEF Overwrite, Reply
<1>5. ASSUME NEW k \in Key, NEW d \in Data, Update(k, d)
      PROVE  Goal
  <2>1. CASE UpdateMiss(k)
    BY <2>1, ReplyMInv DEF UpdateMiss, Failure, Reply
  <2> QED  BY <1>4, <1>5, <2>1 DEF Update, UpdateHit
<1>6. ASSUME NEW k \in Key, NEW d \in Data, NEW merge \in BOOLEAN, Set(k, d, merge)
      PROVE  Goal
  BY <1>2, <1>4, <1>6 DEF Set, SetHit
<1>7. ASSUME NEW k \in Key, Find(k)
      PROVE  Goal
  <2>1. CASE FindHit(k)
    BY <1>1, <2>1, HitMInv DEF FindHit, Reply
  <2>2. CASE FindMiss(k)
    BY <2>2, ReplyMInv DEF FindMiss, Failure, Reply
  <2> QED  BY <1>7, <2>1, <2>2 DEF Find
<1>8. ASSUME NEW k \in Key, Erase(k)
      PROVE  Goal
  <2>1. CASE EraseHit(k)
    <3>1. PICK n \in Found(k) :
            /\ lru' = LruReturn(lru, node[n].freeareaid, n)
            /\ node' = [node EXCEPT ![n] = EmptyNode(@.freeareaid)]
            /\ ret' = Reply("erase", 0, n, ItemOf(n), NULL)
            /\ UNCHANGED <<carved, freesize>>
      BY <2>1 DEF EraseHit
    <3>2. ret'.node = n
      BY <3>1 DEF Reply
    <3> QED  BY <1>1, <3>1, <3>2, HitMInv
  <2>2. CASE EraseMiss(k)
    <3>1. lru' = lru /\ carved' = carved /\ node' = node /\ ret'.rc # 0
      BY <2>2 DEF EraseMiss, Failure, Reply
    <3> QED  BY <3>1, ReplyMInv
  <2> QED  BY <1>8, <2>1, <2>2 DEF Erase
<1>9. ASSUME Visit  PROVE Goal
  <2>1. lru' = lru /\ carved' = carved /\ node' = node /\ ret'.op = "visit"
    BY <1>9 DEF Visit, Reply
  <2> QED  BY <2>1, ReplyMInv
<1>10. ASSUME UNCHANGED vars  PROVE Goal
  <2>1. lru' = lru /\ carved' = carved /\ node' = node /\ ret' = ret
    BY <1>10 DEF vars
  <2> QED  BY <2>1, ReplyMInv
<1> HIDE DEF Goal
<1>11. Goal
  BY <1>3, <1>5, <1>6, <1>7, <1>8, <1>9, <1>10 DEF Next
<1> QED  BY <1>1, <1>11 DEF MInv, Goal

LEMMA InitMInv ==
  ASSUME Init
  PROVE  MInv
<1>1. IInv
  BY InitInvariant
<1>2. PICK pre \in Prealloc :
        /\ carved = {pre[s] : s \in Slot}
        /\ node = [n \in Node |->
                     IF \E s \in Slot : pre[s] = n
                     THEN EmptyNode((CHOOSE s \in Slot : pre[s] = n)[1])
                     ELSE EmptyNode(0)]
        /\ lru = Linked(pre)
  BY DEF Init
<1>3. /\ pre \in [Slot -> Node]
      /\ \A s, t \in Slot : pre[s] = pre[t] => s = t
  BY DEF Prealloc
<1>4. \A s \in Slot : node[pre[s]].freeareaid = s[1]
  <2> TAKE s \in Slot
  <2>1. (CHOOSE t \in Slot : pre[t] = pre[s]) = s
    BY <1>3
  <2>2. node[pre[s]] = EmptyNode(s[1])
    BY <1>2, <1>3, <2>1
  <2> QED  BY <2>2 DEF EmptyNode
<1>5. ASSUME NEW a \in Area
      PROVE  Anchored(lru, a, NodesOf(a))
  <2> DEFINE neighbour(n, step) ==
               {pre[<<s[1], s[2] + step>>] :
                  s \in {t \in Slot : pre[t] = n /\ t[2] + step \in 1 .. PreallocNum}}
             pointer(S) == IF S = {} THEN NULL ELSE CHOOSE n \in S : TRUE
             end(b, i)  == IF PreallocNum = 0 THEN NULL ELSE pre[<<b, i>>]
  <2>1. /\ lru.first[a] = end(a, 1) /\ lru.last[a] = end(a, PreallocNum)
        /\ lru.next = [n \in Node |-> pointer(neighbour(n, 1))]
        /\ lru.prev = [n \in Node |-> pointer(neighbour(n, -1))]
    BY <1>2 DEF Linked
  <2>2. \A i \in 1 .. PreallocNum : <<a, i>> \in Slot /\ pre[<<a, i>>] \in Node
    BY <1>3 DEF Slot
  <2>3. \A n \in NodesOf(a) : \E i \in 1 .. PreallocNum : n = pre[<<a, i>>]
    <3> TAKE n \in NodesOf(a)
    <3>1. PICK s \in Slot : pre[s] = n
      BY <1>2 DEF NodesOf
    <3>2. s[1] = a
      BY <1>4, <3>1 DEF NodesOf
    <3> QED  BY <3>1, <3>2 DEF Slot
  <2>4. PreallocNum \in Nat /\ NULL \notin Node
    BY CacheAssumption
  <2>5. ASSUME NEW n \in NodesOf(a), n # lru.first[a]
        PROVE  lru.prev[n] # NULL
    <3>1. PICK i \in 1 .. PreallocNum : n = pre[<<a, i>>]
      BY <2>3
    <3>2. i # 1 /\ i - 1 \in 1 .. PreallocNum
      BY <2>1, <2>4, <2>5, <3>1
    <3>3. pre[<<a, i - 1>>] \in neighbour(n, -1)
      <4>1. <<a, i>> \in {t \in Slot : pre[t] = n /\ t[2] + (-1) \in 1 .. PreallocNum}
        BY <2>2, <2>4, <3>1, <3>2
      <4>2. pre[<<<<a, i>>[1], <<a, i>>[2] + (-1)>>] \in neighbour(n, -1)
        BY <4>1
      <4>3. <<a, i>>[2] + (-1) = i - 1 /\ <<a, i>>[1] = a
        BY <2>4
      <4> QED  BY <4>2, <4>3
    <3>4. neighbour(n, -1) \subseteq Node
      <4> SUFFICES ASSUME NEW s \in Slot, s[2] + (-1) \in 1 .. PreallocNum
                   PROVE  pre[<<s[1], s[2] + (-1)>>] \in Node
        OBVIOUS
      <4>1. <<s[1], s[2] + (-1)>> \in Slot
        BY DEF Slot
      <4> QED  BY <1>3, <4>1
    <3>5. n \in Node
      BY <2>2, <3>1
    <3> HIDE DEF neighbour
    <3> QED  BY <2>1, <2>4, <3>3, <3>4, <3>5
  <2>6. ASSUME lru.first[a] # NULL, lru.first[a] = lru.last[a]
        PROVE  lru.next[lru.first[a]] # lru.first[a] /\ NodesOf(a) \subseteq {lru.first[a]}
    <3>1. PreallocNum = 1
      <4>1. PreallocNum # 0 /\ pre[<<a, 1>>] = pre[<<a, PreallocNum>>]
        BY <2>1, <2>6
      <4>2. <<a, 1>> = <<a, PreallocNum>>
        BY <1>3, <2>2, <2>4, <4>1
      <4> QED  BY <4>2
    <3>2. lru.first[a] = pre[<<a, 1>>] /\ lru.first[a] \in Node
      BY <2>1, <2>2, <3>1
    <3>3. neighbour(lru.first[a], 1) = {}
      <4> SUFFICES ASSUME NEW t \in Slot, t[2] + 1 \in 1 .. PreallocNum
                   PROVE  FALSE
        OBVIOUS
      <4> QED  BY <3>1 DEF Slot
    <3>4. lru.next[lru.first[a]] = NULL
      <4> HIDE DEF neighbour
      <4> QED  BY <2>1, <3>2, <3>3
    <3> QED  BY <2>3, <2>6, <3>1, <3>2, <3>4
  <2>7. NodesOf(a) # {} => lru.last[a] # NULL
    <3> SUFFICES ASSUME NodesOf(a) # {}
                 PROVE  lru.last[a] # NULL
      OBVIOUS
    <3>1. PreallocNum \in 1 .. PreallocNum
      <4>1. PICK n \in NodesOf(a) : TRUE
        OBVIOUS
      <4>2. PICK i \in 1 .. PreallocNum : n = pre[<<a, i>>]
        BY <2>3, <4>1
      <4> QED  BY <2>4, <4>2
    <3> QED  BY <2>1, <2>2, <2>4, <3>1
  <2>8. lru.first[a] # NULL => lru.first[a] \in NodesOf(a)
    BY <1>1 DEF IInv, LruStaysInArea
  <2> QED  BY <2>5, <2>6, <2>7, <2>8 DEF Anchored
<1>6. ret.op # "erase"
  BY DEF Init, Reply
<1> QED  BY <1>1, <1>5, <1>6 DEF MInv, AllAnchored, ErasedIsNext

THEOREM MapInvariance == Spec => []MInv
<1>1. Init => MInv
  BY InitMInv
<1>2. MInv /\ [Next]_vars => MInv'
  BY NextMInv
<1> QED  BY <1>1, <1>2, PTL DEF Spec

-----------------------------------------------------------------------------
(* Part 4: stores find room.                                               *)

(* Once a freearea owns a node, lrulast is never NULL again, whatever the  *)
(* calls do to the order of its list: ccache_allocate, which looks nowhere *)
(* else, can always take a node back.                                      *)
THEOREM AlwaysEvictable == Spec => []AreaStaysEvictable
<1>1. MInv => AreaStaysEvictable
  BY DEF MInv, AllAnchored, Anchored, AreaStaysEvictable
<1> QED  BY <1>1, MapInvariance, PTL

(* An insert or a set of a new key in the freearea of the item that has    *)
(* just been erased succeeds, and the erase callback is not called: the    *)
(* node of the erased item is the one that ccache_allocate takes.          *)
THEOREM ErasesMakeRoom == Spec => EraseMakesRoom
<1> DEFINE Room ==
      \A k \in Key, d \in Data :
        /\ ret.op = "erase" /\ ret.rc = 0
        /\ Found(k) = {}
        /\ AreaFor(k, d) = node[ret.node].freeareaid
        /\ Insert(k, d) \/ Set(k, d, FALSE)
        => ret'.rc = 0 /\ ret'.victim = NULL
<1>1. ASSUME MInv
      PROVE  Room
  <2> SUFFICES ASSUME NEW k \in Key, NEW d \in Data,
                      ret.op = "erase", ret.rc = 0, Found(k) = {},
                      AreaFor(k, d) = node[ret.node].freeareaid,
                      Insert(k, d) \/ Set(k, d, FALSE)
               PROVE  ret'.rc = 0 /\ ret'.victim = NULL
    OBVIOUS
  <2>1. PICK op : Store(op, k, d)
    BY DEF Insert, InsertExisting, Set, SetHit
  <2> DEFINE a == AreaFor(k, d)
             n == ret.node
  <2>2. /\ n \in carved /\ node[n].hashindex = InvalidHash /\ lru.last[a] = n
    BY <1>1 DEF MInv, ErasedIsNext, Live
  <2>3. a \in Area /\ n # NULL /\ a # NoArea
    <3>1. a \in Area
      BY <1>1, <2>2 DEF MInv, IInv, ItemFitsNode
    <3>2. n # NULL
      BY <1>1, <2>2, CacheAssumption DEF MInv, IInv, TypeOK
    <3>3. a # NoArea
      BY <3>1 DEF Area, NoArea
    <3> QED  BY <3>1, <3>2, <3>3
  <2>4. CASE StoreFresh(op, k, d)
    BY <2>4 DEF StoreFresh, Reply
  <2>5. CASE StoreReused(op, k, d)
    <3>1. ret' = Reply(op, 0, n, NoItem, NULL)
      BY <2>2, <2>5 DEF StoreReused
    <3> QED  BY <3>1 DEF Reply
  <2>6. ~StoreFailed(op, k, d)
    <3>1. a # NoArea /\ lru.last[a] # NULL
      BY <2>2, <2>3
    <3> QED  BY <3>1 DEF StoreFailed
  <2> QED  BY <2>1, <2>4, <2>5, <2>6 DEF Store
<1>2. MInv /\ [Next]_vars => [Room]_vars
  BY <1>1
<1> QED  BY <1>2, MapInvariance, PTL DEF Spec, EraseMakesRoom

-----------------------------------------------------------------------------
(* Part 5: the calls implement CacheMap.                                   *)

(* The item of a node, as the map has it.                                  *)
MapItem(n) ==
  [data |-> node[n].data, datasize |-> node[n].datasize, class |-> node[n].freeareaid]

(* What Found and Items are under the invariant.                           *)
Meaning ==
  /\ Items = [k \in Key |-> Items[k]]
  /\ \A k \in Key :
       /\ Found(k) = {n \in carved : Live(n) /\ node[n].key = k}
       /\ Found(k) = {} => Items[k] = Map!Absent
       /\ \A n \in Found(k) : Found(k) = {n} /\ Items[k] = MapItem(n)

LEMMA ItemsMean == IInv => Meaning
<1> SUFFICES ASSUME IInv
             PROVE  Meaning
  OBVIOUS
<1>1. Items = [k \in Key |-> Items[k]]
  BY DEF Items
<1>2. ASSUME NEW k \in Key
      PROVE  Found(k) = {n \in carved : Live(n) /\ node[n].key = k}
  <2>1. Hash[k] \in HashItem /\ Hash[k] # InvalidHash
    BY CacheAssumption DEF HashItem, InvalidHash
  <2>2. bucket[Hash[k]] = {n \in carved : node[n].hashindex = Hash[k]}
    BY <2>1 DEF IInv, BucketsConsistent
  <2>3. \A n \in carved : Live(n) => Hash[node[n].key] = node[n].hashindex
    BY DEF IInv, BucketsConsistent
  <2> QED  BY <2>1, <2>2, <2>3 DEF Found, Live
<1>3. ASSUME NEW k \in Key, NEW n \in Found(k)
      PROVE  Found(k) = {n} /\ Items[k] = MapItem(n)
  <2>1. Found(k) = {n}
    BY <1>2 DEF IInv, BucketsConsistent
  <2> QED  BY <2>1 DEF Items, MapItem
<1>4. ASSUME NEW k \in Key, Found(k) = {}
      PROVE  Items[k] = Map!Absent
  BY <1>4 DEF Items, Map!Absent
<1> QED  BY <1>1, <1>2, <1>3, <1>4 DEF Meaning

LEMMA ItemsMeanNext == IInv' => Meaning'
  BY ItemsMean, PTL

(* An item is in the map while a node holds it.                            *)
LEMMA PresentIsFound ==
  ASSUME IInv, NEW k \in Key
  PROVE  Map!Present(k) <=> Found(k) # {}
<1>1. ASSUME NEW n \in Found(k)
      PROVE  Items[k] # Map!Absent
  <2>1. node[n].data # NULL
    BY FoundFacts, CacheAssumption
  <2>2. Items[k] = MapItem(n)
    BY <1>1, ItemsMean DEF Meaning
  <2> QED  BY <2>1, <2>2 DEF MapItem, Map!Absent
<1>2. Found(k) = {} => Items[k] = Map!Absent
  BY ItemsMean DEF Meaning
<1> QED  BY <1>1, <1>2 DEF Map!Present

(* The item of k and d is put into the node n, and the item that n has     *)
(* held goes.                                                              *)
Puts(n, k, d, victim) ==
  /\ Found(k) = {} /\ carved' = carved \cup {n}
  /\ victim = IF n \in carved /\ Live(n) THEN node[n].key ELSE NULL
  /\ node' = [node EXCEPT ![n] =
                [hashindex |-> Hash[k], freeareaid |-> AreaFor(k, d),
                 key |-> k, data |-> d, datasize |-> DataLen[d]]]

MapPuts(k, d, victim) ==
  Items' = [x \in Key |-> IF x = k THEN Map!Item(k, d)
                          ELSE IF x = victim THEN Map!Absent ELSE Items[x]]

LEMMA StoredItems ==
  ASSUME IInv, IInv', NEW k \in Key, NEW d \in Data, NEW n \in Node, NEW victim,
         Puts(n, k, d, victim)
  PROVE  MapPuts(k, d, victim)
<1>1. Meaning /\ Meaning'
  BY ItemsMean, ItemsMeanNext
<1>2. node \in [Node -> NodeFields] /\ carved \subseteq Node
  BY DEF IInv, TypeOK
<1>3. /\ node'[n].hashindex = Hash[k] /\ node'[n].freeareaid = AreaFor(k, d)
      /\ node'[n].key = k /\ node'[n].data = d /\ node'[n].datasize = DataLen[d]
      /\ \A x \in Node \ {n} : node'[x] = node[x]
      /\ carved' = carved \cup {n} /\ Found(k) = {}
      /\ victim = IF n \in carved /\ Live(n) THEN node[n].key ELSE NULL
  BY <1>2 DEF Puts
<1>4. Hash[k] # InvalidHash
  BY CacheAssumption DEF HashItem, InvalidHash
<1>5. Items'[k] = Map!Item(k, d)
  <2>1. n \in Found(k)'
    BY <1>1, <1>3, <1>4 DEF Meaning, Live
  <2>2. Items'[k] = MapItem(n)'
    BY <1>1, <2>1 DEF Meaning
  <2>3. AreaOfItem[<<k, d>>] = AreaFor(k, d)
    BY DEF AreaOfItem
  <2> QED  BY <1>3, <2>2, <2>3 DEF MapItem, Map!Item
<1>6. ASSUME NEW x \in Key, x # k
      PROVE  Items'[x] = IF x = victim THEN Map!Absent ELSE Items[x]
  <2>1. Found(x)' = Found(x) \ {n}
    BY <1>1, <1>2, <1>3, <1>6 DEF Meaning, Live
  <2>2. n \in Found(x) <=> x = victim
    BY <1>1, <1>3, CacheAssumption DEF Meaning
  <2>3. CASE x = victim
    <3>1. Found(x)' = {}
      BY <1>1, <2>1, <2>2, <2>3 DEF Meaning
    <3> QED  BY <1>1, <2>3, <3>1 DEF Meaning, Map!Absent
  <2>4. CASE x # victim /\ Found(x) = {}
    <3>1. Found(x)' = {}
      BY <2>1, <2>4
    <3> QED  BY <1>1, <2>4, <3>1 DEF Meaning, Map!Absent
  <2>5. CASE x # victim /\ Found(x) # {}
    <3>1. PICK m \in Found(x) : m # n
      BY <2>2, <2>5
    <3>2. m \in Found(x)' /\ m \in Node
      BY <1>1, <1>2, <2>1, <3>1 DEF Meaning
    <3>3. Items'[x] = MapItem(m)' /\ Items[x] = MapItem(m)
      BY <1>1, <3>1, <3>2 DEF Meaning
    <3> QED  BY <1>3, <2>5, <3>1, <3>2, <3>3 DEF MapItem
  <2> QED  BY <2>3, <2>4, <2>5
<1>7. Items' = [x \in Key |-> Items'[x]]
  BY <1>1 DEF Meaning
<1> QED  BY <1>5, <1>6, <1>7 DEF MapPuts

(* The map after a call that gives the node n of the key k other fields,   *)
(* but the same key, or no item at all.                                    *)
LEMMA ChangedItems ==
  ASSUME IInv, IInv', carved' = carved, NEW k \in Key, NEW n \in Found(k), NEW fields,
         node' = [node EXCEPT ![n] = fields],
         \/ fields.hashindex = InvalidHash
         \/ fields.hashindex = node[n].hashindex /\ fields.key = k
  PROVE  Items' = [Items EXCEPT ![k] =
                     IF fields.hashindex = InvalidHash THEN Map!Absent
                     ELSE [data |-> fields.data, datasize |-> fields.datasize,
                           class |-> fields.freeareaid]]
<1>1. Meaning /\ Meaning'
  BY ItemsMean, ItemsMeanNext
<1>2. node \in [Node -> NodeFields] /\ carved \subseteq Node
  BY DEF IInv, TypeOK
<1>3. n \in carved /\ n \in Node /\ Live(n) /\ node[n].key = k
  BY FoundFacts
<1>4. node'[n] = fields /\ \A x \in Node \ {n} : node'[x] = node[x]
  BY <1>2, <1>3
<1>5. Items'[k] = IF fields.hashindex = InvalidHash THEN Map!Absent
                  ELSE [data |-> fields.data, datasize |-> fields.datasize,
                        class |-> fields.freeareaid]
  <2>1. Found(k) = {n}
    BY <1>1 DEF Meaning
  <2>2. CASE fields.hashindex = InvalidHash
    <3>1. Found(k)' = {}
      BY <1>1, <1>2, <1>3, <1>4, <2>1, <2>2 DEF Meaning, Live
    <3> QED  BY <1>1, <2>2, <3>1 DEF Meaning, Map!Absent
  <2>3. CASE fields.hashindex # InvalidHash
    <3>1. n \in Found(k)'
      BY <1>1, <1>3, <1>4, <2>3 DEF Meaning, Live
    <3>2. Items'[k] = MapItem(n)'
      BY <1>1, <3>1 DEF Meaning
    <3> QED  BY <1>4, <2>3, <3>2 DEF MapItem
  <2> QED  BY <2>2, <2>3
<1>6. ASSUME NEW x \in Key, x # k
      PROVE  Items'[x] = Items[x]
  <2>1. n \notin Found(x)
    BY <1>1, <1>3, <1>6 DEF Meaning
  <2>2. Found(x)' = Found(x)
    <3>1. ~(Live(n)' /\ node'[n].key = x) /\ node[n].key # x
      BY <1>3, <1>4, <1>6 DEF Live
    <3>2. \A m \in carved \ {n} : (Live(m)' <=> Live(m)) /\ node'[m].key = node[m].key
      BY <1>2, <1>4 DEF Live
    <3>3. \A m \in carved :
            Live(m)' /\ node'[m].key = x <=> Live(m) /\ node[m].key = x
      BY <3>1, <3>2
    <3>4. Found(x) = {m \in carved : Live(m) /\ node[m].key = x}
      BY <1>1 DEF Meaning
    <3>5. Found(x)' = {m \in carved : Live(m)' /\ node'[m].key = x}
      BY <1>1 DEF Meaning
    <3> QED  BY <3>3, <3>4, <3>5
  <2>3. CASE Found(x) = {}
    BY <1>1, <2>2, <2>3 DEF Meaning, Map!Absent
  <2>4. CASE Found(x) # {}
    <3>1. PICK m \in Found(x) : m # n
      BY <2>1, <2>4
    <3>2. m \in Found(x)' /\ m \in Node
      BY <1>1, <1>2, <2>2, <3>1 DEF Meaning
    <3>3. Items'[x] = MapItem(m)' /\ Items[x] = MapItem(m)
      BY <1>1, <3>1, <3>2 DEF Meaning
    <3> QED  BY <1>4, <3>1, <3>2, <3>3 DEF MapItem
  <2> QED  BY <2>3, <2>4
<1>7. Items' = [x \in Key |-> Items'[x]] /\ Items = [x \in Key |-> Items[x]]
  BY <1>1 DEF Meaning
<1> QED  BY <1>5, <1>6, <1>7

LEMMA ReplyVisible ==
  ASSUME NEW op, NEW rc, NEW n, NEW item, NEW victim, ret' = Reply(op, rc, n, item, victim)
  PROVE  Visible' = Map!Reply(op, rc, item, victim)
  BY DEF Visible, Reply, Map!Reply, NoVisits, Map!NoVisits

LEMMA NoItemIsNoContent == NoItem = Map!NoContent
  BY DEF NoItem, Map!NoContent

LEMMA InitImplements ==
  ASSUME Init
  PROVE  Map!Init
<1>1. Meaning
  BY InitInvariant, ItemsMean
<1>2. \A k \in Key : Found(k) = {}
  BY CacheAssumption DEF Init, Found
<1>3. Items = [k \in Key |-> Map!Absent]
  BY <1>1, <1>2 DEF Meaning
<1>4. Visible = Map!Done("open")
  BY DEF Init, Visible, Reply, Map!Done, Map!Reply, NoVisits, Map!NoVisits,
         NoItem, Map!NoContent
<1> QED  BY <1>3, <1>4 DEF Map!Init

(* A call that changes no node and no bucket.                              *)
LEMMA ItemsStay ==
  ASSUME bucket' = bucket, node' = node
  PROVE  Items' = Items
  BY DEF Items, Found

LEMMA FreshImplements ==
  ASSUME IInv, IInv', NEW op, NEW k \in Key, NEW d \in Data, Found(k) = {}, StoreFresh(op, k, d)
  PROVE  Map!Stored(op, k, d)
<1>1. AreaOfItem[<<k, d>>] = AreaFor(k, d) /\ AreaFor(k, d) # NoArea
  BY DEF AreaOfItem, StoreFresh
<1>2. PICK n \in Node \ carved :
        /\ node' = [node EXCEPT ![n] =
                      [hashindex |-> Hash[k], freeareaid |-> AreaFor(k, d),
                       key |-> k, data |-> d, datasize |-> DataLen[d]]]
        /\ carved' = carved \cup {n}
        /\ ret' = Reply(op, 0, n, NoItem, NULL)
  BY DEF StoreFresh, StoreIn
<1>3. MapPuts(k, d, NULL)
  <2>1. Puts(n, k, d, NULL)
    BY <1>2 DEF Puts
  <2> QED  BY <2>1, StoredItems
<1>4. Visible' = Map!Reply(op, 0, Map!NoContent, NULL)
  BY <1>2, ReplyVisible, NoItemIsNoContent
<1> QED  BY <1>1, <1>3, <1>4 DEF Map!Stored, MapPuts

LEMMA ReusedImplements ==
  ASSUME IInv, IInv', NEW op, NEW k \in Key, NEW d \in Data, Found(k) = {}, StoreReused(op, k, d)
  PROVE  Map!Stored(op, k, d)
<1> DEFINE a == AreaFor(k, d)
           n == lru.last[a]
           victim == IF Live(n) THEN node[n].key ELSE NULL
<1>1. AreaOfItem[<<k, d>>] = a /\ a # NoArea /\ a \in Area
  BY AreaForFits DEF AreaOfItem, StoreReused
<1>2. /\ node' = [node EXCEPT ![n] =
                    [hashindex |-> Hash[k], freeareaid |-> a,
                     key |-> k, data |-> d, datasize |-> DataLen[d]]]
      /\ ret' = Reply(op, 0, n, NoItem, victim)
      /\ n # NULL /\ carved' = carved
  BY DEF StoreReused, StoreIn, Live
<1>3. n \in carved /\ node[n].freeareaid = a /\ n \in Node
  BY <1>1, <1>2 DEF IInv, TypeOK, LruStaysInArea, NodesOf
<1>4. carved' = carved \cup {n}
  BY <1>2, <1>3
<1>5. MapPuts(k, d, victim)
  <2>1. Puts(n, k, d, victim)
    BY <1>2, <1>3, <1>4 DEF Puts
  <2> QED  BY <1>3, <2>1, StoredItems
<1>6. Visible' = Map!Reply(op, 0, Map!NoContent, victim)
  BY <1>2, ReplyVisible, NoItemIsNoContent
<1>7. victim \in Key \cup {NULL}
  BY <1>3 DEF IInv, ItemsTyped
<1>8. victim # NULL => Items[victim].class = a
  <2> SUFFICES ASSUME Live(n)
               PROVE  Items[node[n].key].class = a
    OBVIOUS
  <2>1. Meaning /\ node[n].key \in Key
    BY <1>3, ItemsMean DEF IInv, ItemsTyped
  <2>2. n \in Found(node[n].key)
    BY <1>3, <2>1 DEF Meaning
  <2>3. Items[node[n].key] = MapItem(n)
    BY <2>1, <2>2 DEF Meaning
  <2> QED  BY <1>3, <2>3 DEF MapItem
<1> HIDE DEF victim
<1> QED  BY <1>1, <1>5, <1>6, <1>7, <1>8 DEF Map!Stored, MapPuts

(* A store fails when it is too large, or no node of its size is in the    *)
(* cache: this is where the lists count.                                   *)
LEMMA FailedImplements ==
  ASSUME MInv, NEW op, NEW k \in Key, NEW d \in Data, StoreFailed(op, k, d)
  PROVE  Map!NotStored(op, k, d)
<1> DEFINE a == AreaFor(k, d)
<1>1. AreaOfItem[<<k, d>>] = a
  BY DEF AreaOfItem
<1>2. Visible' = Map!Failure(op)
  <2>1. Visible' = Map!Reply(op, -1, NoItem, NULL)
    BY ReplyVisible DEF StoreFailed, Failure
  <2> QED  BY <2>1, NoItemIsNoContent DEF Map!Failure
<1>3. Items' = Items
  BY ItemsStay DEF StoreFailed
<1>4. ASSUME a # NoArea, NEW v \in Key, Items[v].class = a
      PROVE  FALSE
  <2>1. IInv /\ Meaning
    BY ItemsMean DEF MInv
  <2>2. Found(v) # {}
    BY <1>4, <2>1 DEF Meaning, Map!Absent
  <2>3. PICK n \in Found(v) : TRUE
    BY <2>2
  <2>4. n \in carved /\ node[n].freeareaid = a
    BY <1>4, <2>1, <2>3, FoundFacts DEF Meaning, MapItem
  <2>5. a \in Area /\ n \in NodesOf(a)
    BY <1>4, <2>4, AreaForFits DEF NodesOf
  <2>6. lru.last[a] # NULL
    BY <2>5 DEF MInv, AllAnchored, Anchored
  <2> QED  BY <1>4, <2>6 DEF StoreFailed
<1> QED  BY <1>1, <1>2, <1>3, <1>4 DEF Map!NotStored

LEMMA StoreImplements ==
  ASSUME MInv, IInv', NEW op, NEW k \in Key, NEW d \in Data, Found(k) = {}, Store(op, k, d)
  PROVE  Map!Store(op, k, d)
<1>1. IInv
  BY DEF MInv
<1> QED  BY <1>1, FreshImplements, ReusedImplements, FailedImplements DEF Store, Map!Store

LEMMA OverwriteImplements ==
  ASSUME IInv, IInv', NEW op, NEW k \in Key, NEW n \in Found(k), NEW d \in Data,
         Overwrite(op, n, d)
  PROVE  Map!Replace(op, k, d)
<1> DEFINE fields == [node[n] EXCEPT !.data = d]
<1>1. /\ node' = [node EXCEPT ![n] = fields] /\ carved' = carved
      /\ ret' = Reply(op, 0, n, NoItem, NULL)
  BY DEF Overwrite
<1>2. /\ fields.hashindex = node[n].hashindex /\ fields.key = k /\ fields.data = d
      /\ fields.datasize = node[n].datasize /\ fields.freeareaid = node[n].freeareaid
      /\ fields.hashindex # InvalidHash
  BY FoundFacts DEF IInv, TypeOK, NodeFields, Live
<1> HIDE DEF fields
<1>3. Items' = [Items EXCEPT ![k] =
                  [data |-> d, datasize |-> node[n].datasize, class |-> node[n].freeareaid]]
  BY <1>1, <1>2, ChangedItems
<1>4. Items[k] = MapItem(n)
  BY ItemsMean DEF Meaning
<1>5. Items' = [Items EXCEPT ![k].data = d]
  <2>1. [Items[k] EXCEPT !.data = d]
          = [data |-> d, datasize |-> node[n].datasize, class |-> node[n].freeareaid]
    BY <1>4 DEF MapItem
  <2> QED  BY <1>3, <2>1
<1>6. Visible' = Map!Done(op)
  BY <1>1, ReplyVisible, NoItemIsNoContent DEF Map!Done
<1> QED  BY <1>5, <1>6 DEF Map!Replace

LEMMA InsertImplements ==
  ASSUME MInv, IInv', NEW k \in Key, NEW d \in Data, Insert(k, d)
  PROVE  Map!Insert(k, d)
<1>1. Map!Present(k) <=> Found(k) # {}
  BY PresentIsFound DEF MInv
<1>2. CASE InsertExisting(k)
  <2>1. PICK n \in Found(k) : ret' = Reply("insert", 0, n, NoItem, NULL)
    BY <1>2 DEF InsertExisting
  <2>2. Visible' = Map!Done("insert")
    BY <2>1, ReplyVisible, NoItemIsNoContent DEF Map!Done
  <2>3. Items' = Items
    BY <1>2, ItemsStay DEF InsertExisting
  <2> QED  BY <1>1, <2>1, <2>2, <2>3 DEF Map!Insert
<1>3. CASE Found(k) = {} /\ Store("insert", k, d)
  BY <1>1, <1>3, StoreImplements DEF Map!Insert
<1> QED  BY <1>2, <1>3 DEF Insert

LEMMA UpdateImplements ==
  ASSUME IInv, IInv', NEW k \in Key, NEW d \in Data, Update(k, d)
  PROVE  Map!Update(k, d)
<1>1. Map!Present(k) <=> Found(k) # {}
  BY PresentIsFound
<1>2. CASE UpdateHit(k, d)
  <2>1. PICK n \in Found(k) : DataLen[d] = node[n].datasize /\ Overwrite("update", n, d)
    BY <1>2 DEF UpdateHit
  <2>2. Items[k].datasize = node[n].datasize
    BY ItemsMean DEF Meaning, MapItem
  <2>3. Map!Replace("update", k, d)
    BY <2>1, OverwriteImplements
  <2> QED  BY <1>1, <2>1, <2>2, <2>3 DEF Map!Update
<1>3. CASE UpdateMiss(k)
  <2>1. Visible' = Map!Failure("update")
    <3>1. Visible' = Map!Reply("update", -1, NoItem, NULL)
      BY <1>3, ReplyVisible DEF UpdateMiss, Failure
    <3> QED  BY <3>1, NoItemIsNoContent DEF Map!Failure
  <2>2. Items' = Items /\ Found(k) = {}
    BY <1>3, ItemsStay DEF UpdateMiss
  <2> QED  BY <1>1, <2>1, <2>2 DEF Map!Update
<1> QED  BY <1>2, <1>3 DEF Update

LEMMA SetImplements ==
  ASSUME MInv, IInv', NEW k \in Key, NEW d \in Data, NEW merge \in BOOLEAN, Set(k, d, merge)
  PROVE  Map!Set(k, d, merge)
<1>1. IInv /\ (Map!Present(k) <=> Found(k) # {})
  BY PresentIsFound DEF MInv
<1>2. CASE SetHit(k, d, merge)
  <2>1. PICK n \in Found(k) :
          Overwrite("set", n, IF merge THEN Merge[<<node[n].data, d>>] ELSE d)
    BY <1>2 DEF SetHit
  <2>2. Items[k].data = node[n].data
    BY <1>1, ItemsMean DEF Meaning, MapItem
  <2> DEFINE new == IF merge THEN Merge[<<node[n].data, d>>] ELSE d
  <2>3. new \in Data
    <3>1. node[n].data \in Data
      BY <1>1, FoundFacts
    <3> QED  BY <3>1, CacheAssumption
  <2>4. Map!Replace("set", k, new)
    BY <1>1, <2>1, <2>3, OverwriteImplements
  <2> QED  BY <1>1, <2>1, <2>2, <2>4 DEF Map!Set
<1>3. CASE Found(k) = {} /\ Store("set", k, d)
  BY <1>1, <1>3, StoreImplements DEF Map!Set
<1> QED  BY <1>2, <1>3 DEF Set

LEMMA FindImplements ==
  ASSUME IInv, NEW k \in Key, Find(k)
  PROVE  Map!Find(k)
<1>1. Map!Present(k) <=> Found(k) # {}
  BY PresentIsFound
<1>2. Items' = Items
  BY ItemsStay DEF Find, FindHit, FindMiss
<1>3. CASE FindHit(k)
  <2>1. PICK n \in Found(k) : ret' = Reply("find", 0, n, ItemOf(n), NULL)
    BY <1>3 DEF FindHit
  <2>2. ItemOf(n) = Map!Content(k)
    BY ItemsMean DEF Meaning, MapItem, ItemOf, Map!Content
  <2>3. Visible' = Map!Reply("find", 0, Map!Content(k), NULL)
    BY <2>1, <2>2, ReplyVisible
  <2> QED  BY <1>1, <1>2, <2>1, <2>3 DEF Map!Find
<1>4. CASE FindMiss(k)
  <2>1. Visible' = Map!Failure("find")
    <3>1. Visible' = Map!Reply("find", -1, NoItem, NULL)
      BY <1>4, ReplyVisible DEF FindMiss, Failure
    <3> QED  BY <3>1, NoItemIsNoContent DEF Map!Failure
  <2> QED  BY <1>1, <1>2, <1>4, <2>1 DEF Map!Find, FindMiss
<1> QED  BY <1>3, <1>4 DEF Find

LEMMA EraseImplements ==
  ASSUME IInv, IInv', NEW k \in Key, Erase(k)
  PROVE  Map!Erase(k)
<1>1. Map!Present(k) <=> Found(k) # {}
  BY PresentIsFound
<1>2. CASE EraseHit(k)
  <2>1. PICK n \in Found(k) :
          /\ node' = [node EXCEPT ![n] = EmptyNode(@.freeareaid)]
          /\ ret' = Reply("erase", 0, n, ItemOf(n), NULL)
          /\ UNCHANGED <<carved, freesize>>
    BY <1>2 DEF EraseHit
  <2>2. ItemOf(n) = Map!Content(k)
    BY ItemsMean DEF Meaning, MapItem, ItemOf, Map!Content
  <2>3. Visible' = Map!Reply("erase", 0, Map!Content(k), NULL)
    BY <2>1, <2>2, ReplyVisible
  <2>4. Items' = [Items EXCEPT ![k] = Map!Absent]
    <3> DEFINE fields == EmptyNode(node[n].freeareaid)
    <3>1. fields.hashindex = InvalidHash /\ node' = [node EXCEPT ![n] = fields]
      BY <2>1 DEF EmptyNode
    <3> HIDE DEF fields
    <3> QED  BY <2>1, <3>1, ChangedItems
  <2> QED  BY <1>1, <2>1, <2>3, <2>4 DEF Map!Erase
<1>3. CASE EraseMiss(k)
  <2>1. Visible' = Map!Failure("erase")
    <3>1. Visible' = Map!Reply("erase", -1, NoItem, NULL)
      BY <1>3, ReplyVisible DEF EraseMiss, Failure
    <3> QED  BY <3>1, NoItemIsNoContent DEF Map!Failure
  <2>2. Items' = Items /\ Found(k) = {}
    BY <1>3, ItemsStay DEF EraseMiss
  <2> QED  BY <1>1, <2>1, <2>2 DEF Map!Erase
<1> QED  BY <1>2, <1>3 DEF Erase

LEMMA VisitImplements ==
  ASSUME IInv, Visit
  PROVE  Map!Visit
<1> DEFINE shown(k) == {s \in HashItem \X Node : s[2] \in bucket[s[1]] /\ node[s[2]].key = k}
<1>1. Items' = Items
  BY ItemsStay DEF Visit
<1>2. ASSUME NEW k \in Key
      PROVE  Cardinality(shown(k)) = IF Map!Present(k) THEN 1 ELSE 0
  <2>1. \A s \in shown(k) : s[1] = Hash[k] /\ s[2] \in Found(k) /\ s = <<Hash[k], s[2]>>
    <3> TAKE s \in shown(k)
    <3>1. /\ s[1] \in HashItem /\ s[2] \in bucket[s[1]] /\ node[s[2]].key = k
          /\ s = <<s[1], s[2]>>
      OBVIOUS
    <3>2. s[2] \in carved /\ node[s[2]].hashindex = s[1]
      BY <3>1 DEF IInv, BucketsConsistent
    <3>3. Live(s[2])
      BY <3>1, <3>2 DEF Live, HashItem, InvalidHash
    <3>4. s[1] = Hash[k]
      BY <3>1, <3>2, <3>3 DEF IInv, BucketsConsistent
    <3> QED  BY <3>1, <3>4 DEF Found
  <2>2. CASE Found(k) = {}
    <3>1. shown(k) = {}
      BY <2>1, <2>2
    <3>2. Cardinality({}) = 0
      BY FS_EmptySet
    <3> QED  BY <2>2, <3>1, <3>2, PresentIsFound
  <2>3. CASE Found(k) # {}
    <3>1. PICK n \in Found(k) : TRUE
      BY <2>3
    <3>2. Found(k) = {n}
      BY <3>1, ItemsMean DEF Meaning
    <3>3. n \in bucket[Hash[k]] /\ Hash[k] \in HashItem /\ n \in Node /\ node[n].key = k
      BY <3>1, FoundFacts
    <3>4. <<Hash[k], n>> \in shown(k)
      BY <3>3
    <3>5. shown(k) = {<<Hash[k], n>>}
      <4> HIDE DEF shown
      <4> QED  BY <2>1, <3>2, <3>4
    <3>6. Cardinality({<<Hash[k], n>>}) = 1
      BY FS_Singleton
    <3> QED  BY <2>3, <3>5, <3>6, PresentIsFound
  <2> QED  BY <2>2, <2>3
<1>3. ret' = [Reply("visit", 0, NULL, NoItem, NULL) EXCEPT !.seen =
                [k \in Key |-> Cardinality(shown(k))]]
  BY DEF Visit
<1> HIDE DEF shown
<1>4. [k \in Key |-> Cardinality(shown(k))]
        = [k \in Key |-> IF Map!Present(k) THEN 1 ELSE 0]
  BY <1>2
<1>5. Visible' = [Map!Done("visit") EXCEPT !.seen =
                    [k \in Key |-> IF Map!Present(k) THEN 1 ELSE 0]]
  BY <1>3, <1>4, NoItemIsNoContent DEF Visible, Reply, Map!Done, Map!Reply
<1> QED  BY <1>1, <1>5 DEF Map!Visit

LEMMA StepImplements ==
  ASSUME MInv, IInv', [Next]_vars
  PROVE  [Map!Next]_Map!vars
<1>1. IInv
  BY DEF MInv
<1>2. ASSUME Next
      PROVE  Map!Next
  <2>1. ASSUME NEW k \in Key, NEW d \in Data, Insert(k, d) \/ Update(k, d)
        PROVE  Map!Next
    BY <1>1, <2>1, InsertImplements, UpdateImplements DEF Map!Next
  <2>2. ASSUME NEW k \in Key, NEW d \in Data, NEW merge \in BOOLEAN, Set(k, d, merge)
        PROVE  Map!Next
    BY <2>2, SetImplements DEF Map!Next
  <2>3. ASSUME NEW k \in Key, Find(k) \/ Erase(k)
        PROVE  Map!Next
    BY <1>1, <2>3, FindImplements, EraseImplements DEF Map!Next
  <2>4. ASSUME Visit
        PROVE  Map!Next
    BY <1>1, <2>4, VisitImplements DEF Map!Next
  <2> QED  BY <1>2, <2>1, <2>2, <2>3, <2>4 DEF Next
<1>3. ASSUME UNCHANGED vars
      PROVE  UNCHANGED Map!vars
  <2>1. Items' = Items
    BY <1>3, ItemsStay DEF vars
  <2>2. Visible' = Visible
    BY <1>3 DEF vars, Visible
  <2> QED  BY <2>1, <2>2 DEF Map!vars
<1> QED  BY <1>2, <1>3

(* Whatever nodes, buckets, lists and free space go through, the callers   *)
(* see the map of CacheMap: find returns what was stored last, a store     *)
(* costs at most one item, of the same freearea, and its key is given to   *)
(* the erase callback, it fails only when no item could make room for it,  *)
(* and visit shows every item once.                                        *)
THEOREM ImplementsMap == Spec => MapSpec
<1>1. Init => Map!Init
  BY InitImplements
<1>2. MInv /\ MInv' /\ [Next]_vars => [Map!Next]_Map!vars
  BY StepImplements DEF MInv
<1> QED  BY <1>1, <1>2, MapInvariance, PTL DEF Spec, MapSpec, Map!Spec
=============================================================================
