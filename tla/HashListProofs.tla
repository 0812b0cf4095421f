--------------------------- MODULE HashListProofs ---------------------------
(***************************************************************************)
(* Proofs about HashList, for every number of nodes and every set of keys. *)
(* The list is described by the sequence of its nodes, as a function from  *)
(* their positions; every operation is shown to do to the pointers what    *)
(* inserting into, removing from or swapping in that sequence does.        *)
(***************************************************************************)
EXTENDS HashList, FiniteSetTheorems, SequenceTheorems, WellFoundedInduction, TLAPS

-----------------------------------------------------------------------------
(* Part 1: what the functions of ccache_list.c do to the pointers.         *)

Pointers == [first : Node \cup {NULL}, next : [Node -> Node \cup {NULL}],
             prev : [Node -> Node \cup {NULL}]]

(* The assignments, field by field: M is L with the one assignment.        *)
NextSet(L, M, x, y) ==
  /\ M \in Pointers /\ M.first = L.first /\ M.prev = L.prev
  /\ \A n \in Node : M.next[n] = IF n = x THEN y ELSE L.next[n]

PrevSet(L, M, x, y) ==
  /\ M \in Pointers /\ M.first = L.first /\ M.next = L.next
  /\ \A n \in Node : M.prev[n] = IF n = x THEN y ELSE L.prev[n]

FirstSet(L, M, y) ==
  M \in Pointers /\ M.first = y /\ M.next = L.next /\ M.prev = L.prev

LEMMA SetFields ==
  ASSUME NEW L \in Pointers, NEW x \in Node \cup {NULL}, NEW y \in Node \cup {NULL}
  PROVE  NextSet(L, SetNext(L, x, y), x, y) /\ PrevSet(L, SetPrev(L, x, y), x, y)
<1>1. CASE x = NULL
  BY <1>1, HashListAssumption DEF SetNext, SetPrev, NextSet, PrevSet
<1>2. CASE x # NULL
  <2>1. /\ SetNext(L, x, y) \in Pointers
        /\ SetNext(L, x, y).first = L.first /\ SetNext(L, x, y).prev = L.prev
        /\ SetNext(L, x, y).next = [L.next EXCEPT ![x] = y]
    BY <1>2 DEF SetNext, Pointers
  <2>2. /\ SetPrev(L, x, y) \in Pointers
        /\ SetPrev(L, x, y).first = L.first /\ SetPrev(L, x, y).next = L.next
        /\ SetPrev(L, x, y).prev = [L.prev EXCEPT ![x] = y]
    BY <1>2 DEF SetPrev, Pointers
  <2>3. DOMAIN L.next = Node /\ DOMAIN L.prev = Node
    BY DEF Pointers
  <2> QED  BY <2>1, <2>2, <2>3 DEF NextSet, PrevSet
<1> QED  BY <1>1, <1>2

LEMMA SetFirstFields ==
  ASSUME NEW L \in Pointers, NEW y \in Node \cup {NULL}
  PROVE  FirstSet(L, [L EXCEPT !.first = y], y)
  BY DEF FirstSet, Pointers

LEMMA InPointers ==
  ASSUME NEW L, NEW M, NEW x, NEW y, NextSet(L, M, x, y) \/ PrevSet(L, M, x, y)
  PROVE  M \in Pointers
  BY DEF NextSet, PrevSet

(* The list that starts with n.                                            *)
Prepended(L, n) ==
  [SetPrev(SetNext(SetPrev(L, L.first, n), n, L.first), n, NULL) EXCEPT !.first = n]

LEMMA PrependedFields ==
  ASSUME NEW L \in Pointers, NEW n \in Node
  PROVE  LET R == Prepended(L, n)
         IN  /\ R \in Pointers /\ R.first = n
             /\ \A x \in Node :
                  /\ R.next[x] = IF x = n THEN L.first ELSE L.next[x]
                  /\ R.prev[x] = IF x = n THEN NULL ELSE IF x = L.first THEN n ELSE L.prev[x]
<1> DEFINE L1 == SetPrev(L, L.first, n)
           L2 == SetNext(L1, n, L.first)
           L3 == SetPrev(L2, n, NULL)
           R  == [L3 EXCEPT !.first = n]
<1>1. L.first \in Node \cup {NULL} /\ NULL \in Node \cup {NULL}
  BY DEF Pointers
<1>2. PrevSet(L, L1, L.first, n)
  BY <1>1, SetFields
<1>3. L1 \in Pointers
  BY <1>2, InPointers
<1> HIDE DEF L1
<1>4. NextSet(L1, L2, n, L.first)
  BY <1>1, <1>3, SetFields
<1>5. L2 \in Pointers
  BY <1>4, InPointers
<1> HIDE DEF L2
<1>6. PrevSet(L2, L3, n, NULL)
  BY <1>1, <1>5, SetFields
<1>7. L3 \in Pointers
  BY <1>6, InPointers
<1> HIDE DEF L3
<1>8. FirstSet(L3, R, n)
  BY <1>7, SetFirstFields
<1>9. Prepended(L, n) = R
  BY DEF Prepended, L1, L2, L3
<1> HIDE DEF R
<1>10. /\ R \in Pointers /\ R.first = n
       /\ \A x \in Node :
            /\ R.next[x] = IF x = n THEN L.first ELSE L.next[x]
            /\ R.prev[x] = IF x = n THEN NULL ELSE IF x = L.first THEN n ELSE L.prev[x]
  BY <1>2, <1>4, <1>6, <1>8 DEF NextSet, PrevSet, FirstSet
<1> QED  BY <1>9, <1>10

(* The list without n.                                                     *)
Removed(L, n) ==
  LET prev == L.prev[n]
      next == L.next[n]
      M    == SetPrev(SetNext(L, prev, next), next, prev)
  IN  [M EXCEPT !.prev[n] = NULL, !.next[n] = NULL,
                !.first = IF n = M.first THEN next ELSE M.first]

LEMMA RemovedFields ==
  ASSUME NEW L \in Pointers, NEW n \in Node
  PROVE  LET R == Removed(L, n)
         IN  /\ R \in Pointers /\ R.first = IF n = L.first THEN L.next[n] ELSE L.first
             /\ \A x \in Node :
                  /\ R.next[x] = IF x = n THEN NULL
                                 ELSE IF x = L.prev[n] THEN L.next[n] ELSE L.next[x]
                  /\ R.prev[x] = IF x = n THEN NULL
                                 ELSE IF x = L.next[n] THEN L.prev[n] ELSE L.prev[x]
<1> DEFINE prev == L.prev[n]
           next == L.next[n]
           L1   == SetNext(L, prev, next)
           M    == SetPrev(L1, next, prev)
           f    == IF n = M.first THEN next ELSE M.first
           R    == [M EXCEPT !.prev[n] = NULL, !.next[n] = NULL, !.first = f]
<1>1. prev \in Node \cup {NULL} /\ next \in Node \cup {NULL}
  BY DEF Pointers
<1> HIDE DEF prev, next
<1>2. NextSet(L, L1, prev, next)
  BY <1>1, SetFields
<1>3. L1 \in Pointers
  BY <1>2, InPointers
<1> HIDE DEF L1
<1>4. PrevSet(L1, M, next, prev)
  BY <1>1, <1>3, SetFields
<1>5. M \in Pointers
  BY <1>4, InPointers
<1>6. Removed(L, n) = R
  BY DEF Removed, L1, prev, next
<1> HIDE DEF M
<1>7. f \in Node \cup {NULL}
  BY <1>1, <1>5 DEF Pointers
<1> HIDE DEF f
<1>8. /\ R \in Pointers /\ R.first = f
      /\ R.next = [M.next EXCEPT ![n] = NULL] /\ R.prev = [M.prev EXCEPT ![n] = NULL]
  BY <1>5, <1>7 DEF Pointers
<1>9. DOMAIN M.next = Node /\ DOMAIN M.prev = Node
  BY <1>5 DEF Pointers
<1> HIDE DEF R
<1>10. f = IF n = L.first THEN next ELSE L.first
  BY <1>2, <1>4 DEF f, NextSet, PrevSet
<1>11. \A x \in Node :
         /\ R.next[x] = IF x = n THEN NULL ELSE IF x = prev THEN next ELSE L.next[x]
         /\ R.prev[x] = IF x = n THEN NULL ELSE IF x = next THEN prev ELSE L.prev[x]
  BY <1>2, <1>4, <1>8, <1>9 DEF NextSet, PrevSet
<1> QED  BY <1>6, <1>8, <1>10, <1>11 DEF prev, next

(* The list in which n, which is not the first node, has moved up by one.  *)
LEMMA AdvancedFields ==
  ASSUME list \in Pointers, NEW n \in Node, n # list.first,
         NEW prev \in Node, list.prev[n] = prev, NEW next, list.next[n] = next,
         NEW up, list.prev[prev] = up
  PROVE  LET R == Advanced(n)
         IN  /\ R \in Pointers /\ R.first = IF prev = list.first THEN n ELSE list.first
             /\ \A x \in Node :
                  /\ R.next[x] = IF x = up THEN n ELSE IF x = n THEN prev
                                 ELSE IF x = prev THEN next ELSE list.next[x]
                  /\ R.prev[x] = IF x = n THEN up ELSE IF x = next THEN prev
                                 ELSE IF x = prev THEN n ELSE list.prev[x]
<1> DEFINE L0 == SetNext(list, prev, next)
           L1 == SetPrev(L0, prev, n)
           L2 == SetPrev(L1, next, prev)
           L3 == SetNext(L2, n, prev)
           L4 == SetPrev(L3, n, up)
           L5 == SetNext(L4, up, n)
           R  == IF prev = list.first THEN [L5 EXCEPT !.first = n] ELSE L5
<1>1. next \in Node \cup {NULL} /\ up \in Node \cup {NULL} /\ prev # NULL
  BY HashListAssumption DEF Pointers
<1>2. Advanced(n) = R
  BY <1>1 DEF Advanced
<1>3. NextSet(list, L0, prev, next)
  BY <1>1, SetFields
<1>4. L0 \in Pointers
  BY <1>3, InPointers
<1> HIDE DEF L0
<1>5. PrevSet(L0, L1, prev, n)
  BY <1>4, SetFields
<1>6. L1 \in Pointers
  BY <1>5, InPointers
<1> HIDE DEF L1
<1>7. PrevSet(L1, L2, next, prev)
  BY <1>1, <1>6, SetFields
<1>8. L2 \in Pointers
  BY <1>7, InPointers
<1> HIDE DEF L2
<1>9. NextSet(L2, L3, n, prev)
  BY <1>8, SetFields
<1>10. L3 \in Pointers
  BY <1>9, InPointers
<1> HIDE DEF L3
<1>11. PrevSet(L3, L4, n, up)
  BY <1>1, <1>10, SetFields
<1>12. L4 \in Pointers
  BY <1>11, InPointers
<1> HIDE DEF L4
<1>13. NextSet(L4, L5, up, n)
  BY <1>1, <1>12, SetFields
<1>14. L5 \in Pointers
  BY <1>13, InPointers
<1> HIDE DEF L5
<1>15. FirstSet(L5, [L5 EXCEPT !.first = n], n)
  BY <1>14, SetFirstFields
<1>16. /\ L5.first = list.first
       /\ \A x \in Node :
            /\ L5.next[x] = IF x = up THEN n ELSE IF x = n THEN prev
                            ELSE IF x = prev THEN next ELSE list.next[x]
            /\ L5.prev[x] = IF x = n THEN up ELSE IF x = next THEN prev
                            ELSE IF x = prev THEN n ELSE list.prev[x]
  BY <1>3, <1>5, <1>7, <1>9, <1>11, <1>13 DEF NextSet, PrevSet
<1>17. /\ R \in Pointers /\ R.first = IF prev = list.first THEN n ELSE list.first
       /\ R.next = L5.next /\ R.prev = L5.prev
  BY <1>14, <1>15, <1>16 DEF FirstSet
<1> HIDE DEF R
<1> QED  BY <1>2, <1>16, <1>17

-----------------------------------------------------------------------------
(* Part 2: lists as sequences of nodes.                                    *)

(* The m nodes of the list L are those of s, in this order.                *)
Lists(L, s, m) ==
  /\ m \in Nat /\ s \in [1 .. m -> Node]
  /\ \A i, j \in 1 .. m : s[i] = s[j] => i = j
  /\ L.first = IF m = 0 THEN NULL ELSE s[1]
  /\ \A i \in 1 .. m :
       /\ L.next[s[i]] = IF i = m THEN NULL ELSE s[i + 1]
       /\ L.prev[s[i]] = IF i = 1 THEN NULL ELSE s[i - 1]
  /\ \A n \in Node : (\A i \in 1 .. m : s[i] # n) => L.next[n] = NULL /\ L.prev[n] = NULL

(* They are the nodes with keys, whatever K gives a node for its key.      *)
Holds(K, s, m) == \A n \in Node : K[n] # NULL <=> \E i \in 1 .. m : s[i] = n

(* s with n in front, without its element at p, and with the two elements  *)
(* at p - 1 and p swapped.                                                 *)
Front(n, s, m)   == [i \in 1 .. m + 1 |-> IF i = 1 THEN n ELSE s[i - 1]]
Without(p, s, m) == [i \in 1 .. m - 1 |-> IF i < p THEN s[i] ELSE s[i + 1]]
Swapped(p, s, m) == [i \in 1 .. m |-> IF i = p - 1 THEN s[p]
                                      ELSE IF i = p THEN s[p - 1] ELSE s[i]]

LEMMA FrontLists ==
  ASSUME NEW L \in Pointers, NEW m, NEW s, Lists(L, s, m),
         NEW n \in Node, \A i \in 1 .. m : s[i] # n
  PROVE  Lists(Prepended(L, n), Front(n, s, m), m + 1)
<1> DEFINE R == Prepended(L, n)
           t == Front(n, s, m)
<1>1. /\ R \in Pointers /\ R.first = n
      /\ \A x \in Node :
           /\ R.next[x] = IF x = n THEN L.first ELSE L.next[x]
           /\ R.prev[x] = IF x = n THEN NULL ELSE IF x = L.first THEN n ELSE L.prev[x]
  BY PrependedFields
<1> HIDE DEF R
<1>2. /\ m \in Nat /\ NULL \notin Node
      /\ \A i \in 1 .. m : s[i] \in Node /\ s[i] # n
      /\ \A i, j \in 1 .. m : s[i] = s[j] => i = j
      /\ L.first = IF m = 0 THEN NULL ELSE s[1]
      /\ \A i \in 1 .. m :
           /\ L.next[s[i]] = IF i = m THEN NULL ELSE s[i + 1]
           /\ L.prev[s[i]] = IF i = 1 THEN NULL ELSE s[i - 1]
      /\ \A x \in Node : (\A i \in 1 .. m : s[i] # x) => L.next[x] = NULL /\ L.prev[x] = NULL
  BY HashListAssumption DEF Lists
<1>3. /\ t \in [1 .. m + 1 -> Node] /\ t[1] = n
      /\ \A i \in 1 .. m : t[i + 1] = s[i]
      /\ \A i \in 2 .. m + 1 : i - 1 \in 1 .. m /\ t[i] = s[i - 1]
  BY <1>2 DEF Front
<1> HIDE DEF t
<1>4. \A i, j \in 1 .. m + 1 : t[i] = t[j] => i = j
  <2> SUFFICES ASSUME NEW i \in 1 .. m + 1, NEW j \in 1 .. m + 1, t[i] = t[j]
               PROVE  i = j
    OBVIOUS
  <2>1. i = 1 \/ i \in 2 .. m + 1
    BY <1>2
  <2>2. j = 1 \/ j \in 2 .. m + 1
    BY <1>2
  <2>3. CASE i = 1 /\ j = 1
    BY <2>3
  <2>4. CASE i = 1 /\ j \in 2 .. m + 1
    <3>1. t[i] = n /\ t[j] # n
      BY <1>2, <1>3, <2>4
    <3> QED  BY <3>1
  <2>5. CASE j = 1 /\ i \in 2 .. m + 1
    <3>1. t[j] = n /\ t[i] # n
      BY <1>2, <1>3, <2>5
    <3> QED  BY <3>1
  <2>6. CASE i \in 2 .. m + 1 /\ j \in 2 .. m + 1
    <3>1. i - 1 \in 1 .. m /\ j - 1 \in 1 .. m /\ s[i - 1] = s[j - 1]
      BY <1>3, <2>6
    <3>2. i - 1 = j - 1
      BY <1>2, <3>1
    <3> QED  BY <1>2, <3>2
  <2> QED  BY <2>1, <2>2, <2>3, <2>4, <2>5, <2>6
<1>5. ASSUME NEW i \in 1 .. m + 1
      PROVE  /\ R.next[t[i]] = IF i = m + 1 THEN NULL ELSE t[i + 1]
             /\ R.prev[t[i]] = IF i = 1 THEN NULL ELSE t[i - 1]
  <2>1. CASE i = 1
    <3>1. R.next[t[i]] = L.first /\ R.prev[t[i]] = NULL
      BY <1>1, <1>3, <2>1
    <3>2. m # 0 => 1 \in 1 .. m /\ t[2] = s[1]
      BY <1>2, <1>3
    <3> QED  BY <1>2, <2>1, <3>1, <3>2
  <2>2. CASE i # 1
    <3>1. i \in 2 .. m + 1 /\ i - 1 \in 1 .. m /\ t[i] = s[i - 1]
      BY <1>2, <1>3, <2>2
    <3>2. /\ R.next[t[i]] = IF i - 1 = m THEN NULL ELSE s[i - 1 + 1]
          /\ R.prev[t[i]] = IF t[i] = L.first THEN n
                            ELSE IF i - 1 = 1 THEN NULL ELSE s[i - 1 - 1]
      BY <1>1, <1>2, <3>1
    <3>3. i # m + 1 => R.next[t[i]] = t[i + 1]
      <4> SUFFICES ASSUME i # m + 1
                   PROVE  R.next[t[i]] = t[i + 1]
        OBVIOUS
      <4>1. i \in 1 .. m /\ i - 1 # m /\ i - 1 + 1 = i
        BY <1>2
      <4> QED  BY <1>3, <3>2, <4>1
    <3>4. i = m + 1 => R.next[t[i]] = NULL
      BY <1>2, <3>2
    <3>5. t[i] = L.first <=> i = 2
      BY <1>2, <3>1
    <3>6. i # 2 => R.prev[t[i]] = t[i - 1]
      <4> SUFFICES ASSUME i # 2
                   PROVE  R.prev[t[i]] = t[i - 1]
        OBVIOUS
      <4>1. i - 1 \in 2 .. m + 1 /\ i - 1 # 1
        BY <1>2, <3>1
      <4>2. R.prev[t[i]] = s[i - 1 - 1]
        BY <3>2, <3>5, <4>1
      <4> QED  BY <1>3, <4>1, <4>2
    <3>7. i = 2 => R.prev[t[i]] = t[1]
      BY <1>3, <3>2, <3>5
    <3>8. i = 2 => i - 1 = 1
      OBVIOUS
    <3> QED  BY <2>2, <3>3, <3>4, <3>6, <3>7, <3>8
  <2> QED  BY <2>1, <2>2
<1>6. ASSUME NEW x \in Node, \A i \in 1 .. m + 1 : t[i] # x
      PROVE  R.next[x] = NULL /\ R.prev[x] = NULL
  <2>1. x # n
    BY <1>2, <1>3, <1>6
  <2>2. \A i \in 1 .. m : s[i] # x
    <3> TAKE i \in 1 .. m
    <3>1. i + 1 \in 1 .. m + 1
      BY <1>2
    <3> QED  BY <1>3, <1>6, <3>1
  <2>3. x # L.first
    BY <1>2, <2>2
  <2> QED  BY <1>1, <1>2, <2>1, <2>2, <2>3
<1>7. R.first = t[1] /\ m + 1 # 0 /\ m + 1 \in Nat
  BY <1>1, <1>2, <1>3
<1> QED  BY <1>3, <1>4, <1>5, <1>6, <1>7 DEF Lists, R, t

(* The definition, for use where its conjuncts have to be found.           *)
LEMMA ListsMeans ==
  ASSUME NEW L, NEW m, NEW s, Lists(L, s, m)
  PROVE  /\ m \in Nat /\ NULL \notin Node
         /\ \A i \in 1 .. m : s[i] \in Node
         /\ \A i, j \in 1 .. m : s[i] = s[j] => i = j
         /\ L.first = IF m = 0 THEN NULL ELSE s[1]
         /\ \A i \in 1 .. m :
              /\ L.next[s[i]] = IF i = m THEN NULL ELSE s[i + 1]
              /\ L.prev[s[i]] = IF i = 1 THEN NULL ELSE s[i - 1]
         /\ \A x \in Node : (\A i \in 1 .. m : s[i] # x) => L.next[x] = NULL /\ L.prev[x] = NULL
  BY HashListAssumption DEF Lists

LEMMA WithoutLists ==
  ASSUME NEW L \in Pointers, NEW m, NEW s, Lists(L, s, m), NEW p \in 1 .. m
  PROVE  Lists(Removed(L, s[p]), Without(p, s, m), m - 1)
<1> DEFINE n == s[p]
           R == Removed(L, n)
           t == Without(p, s, m)
<1>1. /\ m \in Nat /\ NULL \notin Node
      /\ \A i \in 1 .. m : s[i] \in Node
      /\ \A i, j \in 1 .. m : s[i] = s[j] => i = j
      /\ L.first = IF m = 0 THEN NULL ELSE s[1]
      /\ \A i \in 1 .. m :
           /\ L.next[s[i]] = IF i = m THEN NULL ELSE s[i + 1]
           /\ L.prev[s[i]] = IF i = 1 THEN NULL ELSE s[i - 1]
      /\ \A x \in Node : (\A i \in 1 .. m : s[i] # x) => L.next[x] = NULL /\ L.prev[x] = NULL
  BY ListsMeans
<1>2. n \in Node
  BY <1>1
<1>3. /\ R \in Pointers /\ R.first = IF n = L.first THEN L.next[n] ELSE L.first
      /\ \A x \in Node :
           /\ R.next[x] = IF x = n THEN NULL
                          ELSE IF x = L.prev[n] THEN L.next[n] ELSE L.next[x]
           /\ R.prev[x] = IF x = n THEN NULL
                          ELSE IF x = L.next[n] THEN L.prev[n] ELSE L.prev[x]
  BY <1>2, RemovedFields
<1> HIDE DEF R
<1>4. /\ L.next[n] = IF p = m THEN NULL ELSE s[p + 1]
      /\ L.prev[n] = IF p = 1 THEN NULL ELSE s[p - 1]
  BY <1>1
<1>5. /\ t \in [1 .. m - 1 -> Node] /\ m - 1 \in Nat
      /\ \A i \in 1 .. m - 1 : i < p => i \in 1 .. m /\ t[i] = s[i] /\ s[i] # n
      /\ \A i \in 1 .. m - 1 : ~(i < p) => i + 1 \in 1 .. m /\ t[i] = s[i + 1] /\ s[i + 1] # n
  <2>1. m - 1 \in Nat /\ \A i \in 1 .. m - 1 : i \in 1 .. m /\ i + 1 \in 1 .. m
    BY <1>1
  <2>2. t \in [1 .. m - 1 -> Node]
    BY <1>1, <2>1 DEF Without
  <2>3. \A i \in 1 .. m - 1 : t[i] = IF i < p THEN s[i] ELSE s[i + 1]
    BY DEF Without
  <2>4. \A i \in 1 .. m - 1 : i < p => i # p
    BY <1>1
  <2>5. \A i \in 1 .. m - 1 : ~(i < p) => i + 1 # p
    BY <1>1
  <2> QED  BY <1>1, <2>1, <2>2, <2>3, <2>4, <2>5
<1> HIDE DEF t, n
<1>6. ASSUME NEW i \in 1 .. m - 1, NEW j \in 1 .. m - 1, t[i] = t[j]
      PROVE  i = j
  <2>0. \A a, b \in 1 .. m : s[a] = s[b] => a = b
    BY <1>1
  <2>1. CASE i < p /\ j < p
    <3>1. i \in 1 .. m /\ j \in 1 .. m /\ s[i] = s[j]
      BY <1>5, <1>6, <2>1
    <3> QED  BY <2>0, <3>1
  <2>2. CASE ~(i < p) /\ ~(j < p)
    <3>1. i + 1 \in 1 .. m /\ j + 1 \in 1 .. m /\ s[i + 1] = s[j + 1]
      BY <1>5, <1>6, <2>2
    <3>2. i + 1 = j + 1
      BY <2>0, <3>1
    <3> QED  BY <1>1, <3>2
  <2>3. CASE i < p /\ ~(j < p)
    <3>1. i \in 1 .. m /\ j + 1 \in 1 .. m /\ s[i] = s[j + 1]
      BY <1>5, <1>6, <2>3
    <3>2. i = j + 1
      BY <2>0, <3>1
    <3> QED  BY <1>1, <2>3, <3>2
  <2>4. CASE ~(i < p) /\ j < p
    <3>1. i + 1 \in 1 .. m /\ j \in 1 .. m /\ s[i + 1] = s[j]
      BY <1>5, <1>6, <2>4
    <3>2. i + 1 = j
      BY <2>0, <3>1
    <3> QED  BY <1>1, <2>4, <3>2
  <2> QED  BY <2>1, <2>2, <2>3, <2>4
<1>7. ASSUME NEW i \in 1 .. m - 1
      PROVE  /\ R.next[t[i]] = IF i = m - 1 THEN NULL ELSE t[i + 1]
             /\ R.prev[t[i]] = IF i = 1 THEN NULL ELSE t[i - 1]
  <2>0. /\ i \in Int /\ p \in Int /\ m \in Int /\ 1 =< i /\ i =< m - 1 /\ 1 =< p /\ p =< m
    BY <1>1
  <2>1. CASE i < p
    <3>1. i \in 1 .. m /\ t[i] = s[i] /\ s[i] # n /\ s[i] \in Node
      BY <1>1, <1>5, <2>1
    <3>2. s[i] # L.next[n]
      <4>1. p # m => p + 1 \in 1 .. m /\ p + 1 # i
        BY <2>0, <2>1
      <4> QED  BY <1>1, <1>4, <3>1, <4>1
    <3>3. R.prev[t[i]] = IF i = 1 THEN NULL ELSE t[i - 1]
      <4>1. R.prev[t[i]] = IF i = 1 THEN NULL ELSE s[i - 1]
        BY <1>1, <1>3, <3>1, <3>2
      <4>2. i # 1 => i - 1 \in 1 .. m - 1 /\ i - 1 < p
        BY <2>0, <2>1
      <4> QED  BY <1>5, <4>1, <4>2
    <3>4. CASE i = p - 1
      <4>1. s[i] = L.prev[n] /\ R.next[t[i]] = L.next[n]
        <5>1. p # 1
          BY <2>0, <3>4
        <5> QED  BY <1>3, <1>4, <3>1, <3>4, <5>1
      <4>2. p = m <=> i = m - 1
        BY <2>0, <3>4
      <4>3. i # m - 1 => i + 1 \in 1 .. m - 1 /\ ~(i + 1 < p) /\ i + 1 + 1 = p + 1
        BY <2>0, <3>4
      <4>4. i # m - 1 => t[i + 1] = s[p + 1]
        BY <1>5, <4>3
      <4> QED  BY <1>4, <3>3, <4>1, <4>2, <4>4
    <3>5. CASE i # p - 1
      <4>1. p # 1 => p - 1 \in 1 .. m /\ p - 1 # i
        BY <2>0, <3>5
      <4>2. s[i] # L.prev[n]
        BY <1>1, <1>4, <3>1, <4>1
      <4>3. i # m /\ i # m - 1 /\ i + 1 \in 1 .. m - 1 /\ i + 1 < p
        BY <2>0, <2>1, <3>5
      <4>4. t[i + 1] = s[i + 1]
        BY <1>5, <4>3
      <4>5. R.next[t[i]] = L.next[s[i]]
        BY <1>3, <3>1, <4>2
      <4>6. L.next[s[i]] = s[i + 1]
        BY <1>1, <3>1, <4>3
      <4> QED  BY <3>3, <4>3, <4>4, <4>5, <4>6
    <3> QED  BY <3>4, <3>5
  <2>2. CASE ~(i < p)
    <3>1. i + 1 \in 1 .. m /\ t[i] = s[i + 1] /\ s[i + 1] # n /\ s[i + 1] \in Node
      BY <1>1, <1>5, <2>2
    <3>2. s[i + 1] # L.prev[n]
      <4>1. p # 1 => p - 1 \in 1 .. m /\ p - 1 # i + 1
        BY <2>0, <2>2
      <4> QED  BY <1>1, <1>4, <3>1, <4>1
    <3>3. R.next[t[i]] = IF i = m - 1 THEN NULL ELSE t[i + 1]
      <4>1. R.next[t[i]] = IF i + 1 = m THEN NULL ELSE s[i + 1 + 1]
        BY <1>1, <1>3, <3>1, <3>2
      <4>2. i + 1 = m <=> i = m - 1
        BY <2>0
      <4>3. i # m - 1 => i + 1 \in 1 .. m - 1 /\ ~(i + 1 < p)
        BY <2>0, <2>2
      <4> QED  BY <1>5, <4>1, <4>2, <4>3
    <3>4. CASE i = p
      <4>1. p # m
        BY <2>0, <3>4
      <4>2. R.prev[t[i]] = L.prev[n]
        BY <1>3, <1>4, <3>1, <3>4, <4>1
      <4>3. i # 1 => i - 1 \in 1 .. m - 1 /\ i - 1 < p /\ i - 1 = p - 1
        BY <2>0, <3>4
      <4>4. i # 1 => t[i - 1] = s[p - 1]
        BY <1>5, <4>3
      <4> QED  BY <1>4, <3>3, <3>4, <4>2, <4>4
    <3>5. CASE i # p
      <4>1. s[i + 1] # L.next[n]
        <5>1. p # m => p + 1 \in 1 .. m /\ p + 1 # i + 1
          BY <2>0, <3>5
        <5> QED  BY <1>1, <1>4, <3>1, <5>1
      <4>2. i + 1 # 1 /\ i + 1 - 1 = i
        BY <2>0
      <4>3. R.prev[t[i]] = s[i]
        BY <1>1, <1>3, <3>1, <4>1, <4>2
      <4>4. i # 1 /\ i - 1 \in 1 .. m - 1 /\ ~(i - 1 < p) /\ i - 1 + 1 = i
        BY <2>0, <2>2, <3>5
      <4>5. t[i - 1] = s[i]
        BY <1>5, <4>4
      <4> QED  BY <3>3, <4>3, <4>4, <4>5
    <3> QED  BY <3>4, <3>5
  <2> QED  BY <2>1, <2>2
<1>8. ASSUME NEW x \in Node, \A i \in 1 .. m - 1 : t[i] # x
      PROVE  R.next[x] = NULL /\ R.prev[x] = NULL
  <2>1. CASE x = n
    BY <1>3, <2>1
  <2>2. CASE x # n
    <3>1. ASSUME NEW i \in 1 .. m PROVE s[i] # x
      <4>1. CASE i < p
        <5>1. i \in 1 .. m - 1
          BY <1>1, <4>1
        <5> QED  BY <1>5, <1>8, <4>1, <5>1
      <4>2. CASE i = p
        BY <2>2, <4>2 DEF n
      <4>3. CASE i > p
        <5>1. i - 1 \in 1 .. m - 1 /\ ~(i - 1 < p) /\ i - 1 + 1 = i
          BY <1>1, <4>3
        <5>2. t[i - 1] = s[i]
          BY <1>5, <5>1
        <5> QED  BY <1>8, <5>1, <5>2
      <4> QED  BY <1>1, <4>1, <4>2, <4>3
    <3>2. p # m => p + 1 \in 1 .. m
      BY <1>1
    <3>3. p # 1 => p - 1 \in 1 .. m
      BY <1>1
    <3>4. x # L.next[n] /\ x # L.prev[n]
      BY <1>1, <1>4, <3>1, <3>2, <3>3
    <3> QED  BY <1>1, <1>3, <2>2, <3>1, <3>4
  <2> QED  BY <2>1, <2>2
<1>9. R.first = IF m - 1 = 0 THEN NULL ELSE t[1]
  <2>1. m # 0 /\ 1 \in 1 .. m
    BY <1>1
  <2>2. n = L.first <=> p = 1
    BY <1>1, <2>1 DEF n
  <2>3. CASE p = 1
    <3>1. m - 1 # 0 => 1 \in 1 .. m - 1 /\ ~(1 < p) /\ p # m /\ p + 1 = 1 + 1
      BY <1>1, <2>3
    <3>2. m - 1 # 0 => t[1] = s[p + 1]
      BY <1>5, <3>1
    <3>3. m - 1 = 0 => p = m
      BY <1>1, <2>3
    <3> QED  BY <1>3, <1>4, <2>2, <2>3, <3>1, <3>2, <3>3
  <2>4. CASE p # 1
    <3>1. m - 1 # 0 /\ 1 \in 1 .. m - 1 /\ 1 < p
      BY <1>1, <2>4
    <3>2. t[1] = s[1]
      BY <1>5, <3>1
    <3> QED  BY <1>1, <1>3, <2>1, <2>2, <2>4, <3>1, <3>2
  <2> QED  BY <2>3, <2>4
<1>10. /\ m - 1 \in Nat /\ t \in [1 .. m - 1 -> Node]
       /\ \A i, j \in 1 .. m - 1 : t[i] = t[j] => i = j
       /\ \A i \in 1 .. m - 1 :
            /\ R.next[t[i]] = IF i = m - 1 THEN NULL ELSE t[i + 1]
            /\ R.prev[t[i]] = IF i = 1 THEN NULL ELSE t[i - 1]
       /\ \A x \in Node : (\A i \in 1 .. m - 1 : t[i] # x) => R.next[x] = NULL /\ R.prev[x] = NULL
  BY <1>5, <1>6, <1>7, <1>8
<1>11. Lists(R, t, m - 1)
  BY <1>9, <1>10 DEF Lists
<1> QED  BY <1>11 DEF R, t, n

LEMMA SwappedLists ==
  ASSUME list \in Pointers, NEW m, NEW s, Lists(list, s, m), NEW p \in 2 .. m
  PROVE  Lists(Advanced(s[p]), Swapped(p, s, m), m)
<1> DEFINE n == s[p]
           R == Advanced(n)
           t == Swapped(p, s, m)
           up == IF p = 2 THEN NULL ELSE s[p - 2]
           next == IF p = m THEN NULL ELSE s[p + 1]
           prev == s[p - 1]
<1>1. /\ m \in Nat /\ NULL \notin Node
      /\ \A i \in 1 .. m : s[i] \in Node
      /\ \A i, j \in 1 .. m : s[i] = s[j] => i = j
      /\ list.first = IF m = 0 THEN NULL ELSE s[1]
      /\ \A i \in 1 .. m :
           /\ list.next[s[i]] = IF i = m THEN NULL ELSE s[i + 1]
           /\ list.prev[s[i]] = IF i = 1 THEN NULL ELSE s[i - 1]
      /\ \A x \in Node : (\A i \in 1 .. m : s[i] # x) => list.next[x] = NULL /\ list.prev[x] = NULL
  BY ListsMeans
<1>2. \A a, b \in 1 .. m : s[a] = s[b] => a = b
  BY <1>1
<1>3. /\ m \in Int /\ p \in Int /\ 2 =< p /\ p =< m /\ m # 0
      /\ 1 \in 1 .. m /\ p \in 1 .. m /\ p - 1 \in 1 .. m /\ p # 1
      /\ (p # 2 => p - 2 \in 1 .. m) /\ (p # m => p + 1 \in 1 .. m)
      /\ p - 1 # p /\ p - 1 + 1 = p /\ p - 1 # m /\ (p - 1 = 1 <=> p = 2) /\ p - 1 - 1 = p - 2
  BY <1>1
<1>4. /\ n \in Node /\ prev \in Node
      /\ list.prev[n] = prev /\ list.next[n] = next /\ list.prev[prev] = up
  BY <1>1, <1>3
<1>5. n # list.first /\ (prev = list.first <=> p = 2)
  BY <1>1, <1>2, <1>3
<1> HIDE DEF n, prev, next, up
<1>6. /\ R \in Pointers /\ R.first = IF prev = list.first THEN n ELSE list.first
      /\ \A x \in Node :
           /\ R.next[x] = IF x = up THEN n ELSE IF x = n THEN prev
                          ELSE IF x = prev THEN next ELSE list.next[x]
           /\ R.prev[x] = IF x = n THEN up ELSE IF x = next THEN prev
                          ELSE IF x = prev THEN n ELSE list.prev[x]
  BY <1>4, <1>5, AdvancedFields
<1> HIDE DEF R
<1>7. /\ t \in [1 .. m -> Node]
      /\ t[p - 1] = n /\ t[p] = prev
      /\ \A i \in 1 .. m : i # p /\ i # p - 1 => t[i] = s[i]
  BY <1>1, <1>3, <1>4 DEF Swapped, n, prev
<1> HIDE DEF t
(* Where the four nodes are in s.                                          *)
<1>8. \A i \in 1 .. m : /\ s[i] = n <=> i = p
                        /\ s[i] = prev <=> i = p - 1
                        /\ s[i] = next <=> i = p + 1
                        /\ s[i] = up <=> i = p - 2
  <2> TAKE i \in 1 .. m
  <2>1. s[i] = n <=> i = p
    BY <1>2, <1>3 DEF n
  <2>2. s[i] = prev <=> i = p - 1
    BY <1>2, <1>3 DEF prev
  <2>3. s[i] = next <=> i = p + 1
    <3>1. CASE p = m
      BY <1>1, <1>3, <3>1 DEF next
    <3>2. CASE p # m
      BY <1>2, <1>3, <3>2 DEF next
    <3> QED  BY <3>1, <3>2
  <2>4. s[i] = up <=> i = p - 2
    <3>1. CASE p = 2
      BY <1>1, <1>3, <3>1 DEF up
    <3>2. CASE p # 2
      BY <1>2, <1>3, <3>2 DEF up
    <3> QED  BY <3>1, <3>2
  <2> QED  BY <2>1, <2>2, <2>3, <2>4
<1>9. /\ n # prev /\ n # next /\ n # up /\ prev # next /\ prev # up
  <2>1. n = s[p] /\ prev = s[p - 1]
    BY DEF n, prev
  <2>2. p # p - 1 /\ p # p + 1 /\ p # p - 2 /\ p - 1 # p + 1 /\ p - 1 # p - 2
    BY <1>3
  <2>3. n # prev
    BY <1>3, <1>8, <2>1, <2>2
  <2>4. n # next /\ n # up
    BY <1>3, <1>8, <2>1, <2>2
  <2>5. prev # next /\ prev # up
    BY <1>3, <1>8, <2>1, <2>2
  <2> QED  BY <2>3, <2>4, <2>5
<1>10. ASSUME NEW i \in 1 .. m, NEW j \in 1 .. m, t[i] = t[j]
       PROVE  i = j
  <2>1. (i = p \/ i = p - 1 \/ t[i] = s[i]) /\ (j = p \/ j = p - 1 \/ t[j] = s[j])
    BY <1>7
  <2>2. CASE i # p /\ i # p - 1 /\ j # p /\ j # p - 1
    BY <1>2, <1>10, <2>1, <2>2
  <2>3. CASE i = p \/ i = p - 1
    <3>1. CASE j = p \/ j = p - 1
      BY <1>7, <1>9, <1>10, <2>3, <3>1
    <3>2. CASE j # p /\ j # p - 1
      BY <1>7, <1>8, <1>10, <2>3, <3>2
    <3> QED  BY <3>1, <3>2
  <2>4. CASE (j = p \/ j = p - 1) /\ i # p /\ i # p - 1
    BY <1>7, <1>8, <1>10, <2>4
  <2> QED  BY <2>2, <2>3, <2>4
<1>11. ASSUME NEW i \in 1 .. m
       PROVE  R.next[t[i]] = IF i = m THEN NULL ELSE t[i + 1]
  <2>0. i \in Int /\ 1 =< i /\ i =< m
    BY <1>1
  <2>1. CASE i = p - 2
    <3>1. i # m /\ i # p /\ i # p - 1 /\ i + 1 = p - 1
      BY <1>3, <2>0, <2>1
    <3>2. t[i] = s[i] /\ s[i] = up /\ s[i] \in Node
      BY <1>1, <1>7, <1>8, <2>1, <3>1
    <3>3. R.next[t[i]] = n
      BY <1>6, <3>2
    <3> QED  BY <1>7, <3>1, <3>3
  <2>2. CASE i = p - 1
    <3>1. i # m /\ i + 1 = p
      BY <1>3, <2>2
    <3>2. R.next[t[i]] = prev
      BY <1>4, <1>6, <1>7, <1>9, <2>2
    <3> QED  BY <1>7, <3>1, <3>2
  <2>3. CASE i = p
    <3>1. R.next[t[i]] = next
      BY <1>4, <1>6, <1>7, <1>9, <2>3
    <3>2. i # m => p + 1 \in 1 .. m /\ p + 1 # p /\ p + 1 # p - 1
      BY <1>3, <2>3
    <3>3. i # m => t[p + 1] = s[p + 1]
      BY <1>7, <3>2
    <3> QED  BY <2>3, <3>1, <3>3 DEF next
  <2>4. CASE i # p - 2 /\ i # p - 1 /\ i # p
    <3>1. t[i] = s[i] /\ s[i] # up /\ s[i] # n /\ s[i] # prev /\ s[i] \in Node
      BY <1>1, <1>7, <1>8, <2>4
    <3>2. R.next[t[i]] = IF i = m THEN NULL ELSE s[i + 1]
      BY <1>1, <1>6, <3>1
    <3>3. i # m => i + 1 \in 1 .. m /\ i + 1 # p /\ i + 1 # p - 1
      BY <1>3, <2>0, <2>4
    <3>4. i # m => t[i + 1] = s[i + 1]
      BY <1>7, <3>3
    <3> QED  BY <3>2, <3>4
  <2> QED  BY <2>1, <2>2, <2>3, <2>4
<1>12. ASSUME NEW i \in 1 .. m
       PROVE  R.prev[t[i]] = IF i = 1 THEN NULL ELSE t[i - 1]
  <2>0. i \in Int /\ 1 =< i /\ i =< m
    BY <1>1
  <2>1. CASE i = p - 1
    <3>1. R.prev[t[i]] = up
      BY <1>4, <1>6, <1>7, <2>1
    <3>2. i # 1 => i - 1 = p - 2 /\ p # 2 /\ p - 2 # p /\ p - 2 # p - 1
      BY <1>3, <2>1
    <3>3. i # 1 => t[i - 1] = s[p - 2]
      BY <1>3, <1>7, <3>2
    <3> QED  BY <1>3, <2>1, <3>1, <3>2, <3>3 DEF up
  <2>2. CASE i = p + 1
    <3>1. i # 1 /\ i # p /\ i # p - 1 /\ i - 1 = p
      BY <1>3, <2>2
    <3>2. t[i] = s[i] /\ s[i] = next /\ s[i] # n /\ s[i] \in Node
      BY <1>1, <1>7, <1>8, <2>2, <3>1
    <3>3. R.prev[t[i]] = prev
      BY <1>6, <3>2
    <3> QED  BY <1>7, <3>1, <3>3
  <2>3. CASE i = p
    <3>1. R.prev[t[i]] = n
      BY <1>4, <1>6, <1>7, <1>9, <2>3
    <3> QED  BY <1>3, <1>7, <2>3, <3>1
  <2>4. CASE i # p - 1 /\ i # p + 1 /\ i # p
    <3>1. t[i] = s[i] /\ s[i] # next /\ s[i] # n /\ s[i] # prev /\ s[i] \in Node
      BY <1>1, <1>7, <1>8, <2>4
    <3>2. R.prev[t[i]] = IF i = 1 THEN NULL ELSE s[i - 1]
      BY <1>1, <1>6, <3>1
    <3>3. i # 1 => i - 1 \in 1 .. m /\ i - 1 # p /\ i - 1 # p - 1
      BY <1>3, <2>0, <2>4
    <3>4. i # 1 => t[i - 1] = s[i - 1]
      BY <1>7, <3>3
    <3> QED  BY <3>2, <3>4
  <2> QED  BY <2>1, <2>2, <2>3, <2>4
<1>13. ASSUME NEW x \in Node, \A i \in 1 .. m : t[i] # x
       PROVE  R.next[x] = NULL /\ R.prev[x] = NULL
  <2>1. x # n /\ x # prev
    BY <1>3, <1>7, <1>13
  <2>2. \A i \in 1 .. m : s[i] # x
    <3> TAKE i \in 1 .. m
    <3>1. CASE i = p \/ i = p - 1
      BY <1>8, <2>1, <3>1
    <3>2. CASE i # p /\ i # p - 1
      BY <1>7, <1>13, <3>2
    <3> QED  BY <3>1, <3>2
  <2>3. x # next /\ x # up
    BY <1>1, <1>3, <2>2 DEF next, up
  <2> QED  BY <1>1, <1>6, <2>1, <2>2, <2>3
<1>14. R.first = t[1]
  <2>1. CASE p = 2
    BY <1>3, <1>5, <1>6, <1>7, <2>1
  <2>2. CASE p # 2
    <3>1. 1 # p /\ 1 # p - 1
      BY <1>3, <2>2
    <3>2. t[1] = s[1]
      BY <1>3, <1>7, <3>1
    <3> QED  BY <1>1, <1>3, <1>5, <1>6, <2>2, <3>2
  <2> QED  BY <2>1, <2>2
<1>15. \A i, j \in 1 .. m : t[i] = t[j] => i = j
  BY <1>10
<1>16. \A i \in 1 .. m :
         /\ R.next[t[i]] = IF i = m THEN NULL ELSE t[i + 1]
         /\ R.prev[t[i]] = IF i = 1 THEN NULL ELSE t[i - 1]
  BY <1>11, <1>12
<1>17. \A x \in Node : (\A i \in 1 .. m : t[i] # x) => R.next[x] = NULL /\ R.prev[x] = NULL
  BY <1>13
<1>18. m \in Nat /\ t \in [1 .. m -> Node] /\ R.first = IF m = 0 THEN NULL ELSE t[1]
  BY <1>1, <1>3, <1>7, <1>14
<1>19. Lists(R, t, m)
  BY <1>15, <1>16, <1>17, <1>18 DEF Lists
<1> QED  BY <1>19 DEF R, t, n

-----------------------------------------------------------------------------
(* Part 3: what Found and Chain, which follow the next pointers, return.   *)

LEMMA WFMinOf ==
  ASSUME NEW R, NEW S, IsWellFoundedOn(R, S), NEW T, T \subseteq S, T # {}
  PROVE  \E x \in T : \A y \in T : ~ (<<y, x>> \in R)
  BY WFMin, Zenon

LEMMA LeastNat ==
  ASSUME NEW T, T \subseteq Nat, T # {}
  PROVE  \E x \in T : \A y \in T : x =< y
<1> DEFINE R == OpToRel(<, Nat)
<1>1. IsWellFoundedOn(R, Nat)
  BY NatLessThanWellFounded
<1>2. \A x, y \in Nat : x < y => <<x, y>> \in R
  BY DEF OpToRel
<1> HIDE DEF R
<1>3. \E x \in T : \A y \in T : ~ (<<y, x>> \in R)
  BY <1>1, WFMinOf, Zenon
<1>4. PICK x \in T : \A y \in T : ~ (<<y, x>> \in R)
  BY <1>3
<1>5. \A y \in T : x =< y
  <2> TAKE y \in T
  <2>1. x \in Nat /\ y \in Nat
    OBVIOUS
  <2>2. ~ (y < x)
    BY <1>2, <1>4, <2>1
  <2> QED  BY <2>1, <2>2
<1> QED  BY <1>5

(* What holds at the end of 1 .. m and, if at i + 1, then at i, holds at   *)
(* every place: T is where it does not hold.                               *)
LEMMA NoLast ==
  ASSUME NEW m \in Nat, NEW T, T \subseteq 1 .. m,
         \A i \in T : i # m /\ i + 1 \in T
  PROVE  T = {}
<1> SUFFICES ASSUME T # {} PROVE FALSE
  OBVIOUS
<1> DEFINE D == {m - i : i \in T}
<1>1. D \subseteq Nat /\ D # {}
  <2>1. ASSUME NEW i \in T PROVE m - i \in Nat
    <3>1. i \in 1 .. m
      OBVIOUS
    <3> QED  BY <3>1
  <2>2. PICK i \in T : TRUE
    OBVIOUS
  <2> QED  BY <2>1, <2>2
<1>2. PICK x \in D : \A y \in D : x =< y
  <2> HIDE DEF D
  <2> QED  BY <1>1, LeastNat
<1>3. PICK i \in T : x = m - i
  BY <1>2
<1>4. i + 1 \in T /\ i \in Int
  OBVIOUS
<1>5. m - (i + 1) \in D
  BY <1>4
<1>6. x =< m - (i + 1)
  BY <1>2, <1>5
<1> QED  BY <1>3, <1>4, <1>6

(* No two nodes have the same key.                                         *)
Unique == \A a, b \in Node : key[a] = key[b] /\ key[a] # NULL => a = b

(* The recursion of Found.                                                 *)
Follows(f, k) ==
  f = [n \in Node |-> IF key[n] = k THEN n
                      ELSE IF list.next[n] = NULL THEN NULL ELSE f[list.next[n]]]

LEMMA FollowsExists ==
  ASSUME NEW m, NEW s, Lists(list, s, m), Holds(key, s, m), Unique,
         key \in [Node -> Key \cup {NULL}], NEW k \in Key
  PROVE  \E f : Follows(f, k)
<1>1. /\ m \in Nat /\ NULL \notin Node
      /\ \A i \in 1 .. m : s[i] \in Node
      /\ \A i, j \in 1 .. m : s[i] = s[j] => i = j
      /\ list.first = IF m = 0 THEN NULL ELSE s[1]
      /\ \A i \in 1 .. m :
           /\ list.next[s[i]] = IF i = m THEN NULL ELSE s[i + 1]
           /\ list.prev[s[i]] = IF i = 1 THEN NULL ELSE s[i - 1]
      /\ \A x \in Node : (\A i \in 1 .. m : s[i] # x) => list.next[x] = NULL /\ list.prev[x] = NULL
  BY ListsMeans
<1>2. k # NULL
  BY HashListAssumption
<1>3. CASE \A n \in Node : key[n] # k
  <2> DEFINE f == [n \in Node |-> NULL]
  <2>1. \A n \in Node : list.next[n] # NULL => list.next[n] \in Node
    <3> TAKE n \in Node
    <3>1. CASE \A i \in 1 .. m : s[i] # n
      BY <1>1, <3>1
    <3>2. CASE \E i \in 1 .. m : s[i] = n
      <4>1. PICK i \in 1 .. m : s[i] = n
        BY <3>2
      <4>2. i # m => i + 1 \in 1 .. m
        BY <1>1
      <4> QED  BY <1>1, <4>1, <4>2
    <3> QED  BY <3>1, <3>2
  <2>2. Follows(f, k)
    BY <1>3, <2>1 DEF Follows
  <2> QED  BY <2>2
<1>4. CASE \E n \in Node : key[n] = k
  <2>1. PICK h \in Node : key[h] = k
    BY <1>4
  <2>2. PICK q \in 1 .. m : s[q] = h
    BY <1>2, <2>1 DEF Holds
  <2>3. \A n \in Node : key[n] = k => n = h
    BY <1>2, <2>1 DEF Unique
  <2> DEFINE Before(n) == \E i \in 1 .. q : s[i] = n
             f == [n \in Node |-> IF Before(n) THEN h ELSE NULL]
  <2>4. ASSUME NEW n \in Node
        PROVE  f[n] = IF key[n] = k THEN n
                      ELSE IF list.next[n] = NULL THEN NULL ELSE f[list.next[n]]
    <3>1. CASE \A i \in 1 .. m : s[i] # n
      <4>1. ~Before(n)
        BY <1>1, <3>1
      <4>2. key[n] # k
        BY <2>2, <2>3, <3>1
      <4> QED  BY <1>1, <3>1, <4>1, <4>2
    <3>2. CASE \E i \in 1 .. m : s[i] = n
      <4>1. PICK i \in 1 .. m : s[i] = n
        BY <3>2
      <4>2. Before(n) <=> i =< q
        BY <1>1, <4>1
      <4>3. i # m => i + 1 \in 1 .. m /\ s[i + 1] \in Node
        BY <1>1
      <4>4. i # m => (Before(s[i + 1]) <=> i + 1 =< q)
        BY <1>1, <4>3
      <4>5. key[n] = k <=> i = q
        BY <1>1, <2>1, <2>2, <2>3, <4>1
      <4>6. CASE i = q
        BY <2>2, <4>1, <4>2, <4>5, <4>6
      <4>7. CASE i # q /\ i = m
        <5>1. ~(i =< q)
          BY <1>1, <4>7
        <5> QED  BY <1>1, <4>1, <4>2, <4>5, <4>7, <5>1
      <4>8. CASE i # q /\ i # m
        <5>1. i =< q <=> i + 1 =< q
          BY <1>1, <4>8
        <5>2. list.next[n] = s[i + 1] /\ s[i + 1] # NULL
          BY <1>1, <4>1, <4>3, <4>8
        <5> QED  BY <4>2, <4>3, <4>4, <4>5, <4>8, <5>1, <5>2
      <4> QED  BY <4>6, <4>7, <4>8
    <3> QED  BY <3>1, <3>2
  <2>5. f = [n \in Node |-> IF key[n] = k THEN n
                            ELSE IF list.next[n] = NULL THEN NULL ELSE f[list.next[n]]]
    <3>1. f = [n \in Node |-> f[n]]
      OBVIOUS
    <3> HIDE DEF f
    <3> QED  BY <2>4, <3>1
  <2>6. Follows(f, k)
    <3> HIDE DEF f
    <3> QED  BY <2>5 DEF Follows
  <2> QED  BY <2>6
<1> QED  BY <1>3, <1>4

(* Found(k) is the node with the key k, and NULL if there is none.         *)
LEMMA FoundMeans ==
  ASSUME NEW m, NEW s, Lists(list, s, m), Holds(key, s, m), Unique,
         key \in [Node -> Key \cup {NULL}], NEW k \in Key
  PROVE  /\ \A n \in Node : key[n] = k => Found(k) = n
         /\ (\A n \in Node : key[n] # k) => Found(k) = NULL
<1>1. /\ m \in Nat /\ NULL \notin Node
      /\ \A i \in 1 .. m : s[i] \in Node
      /\ \A i, j \in 1 .. m : s[i] = s[j] => i = j
      /\ list.first = IF m = 0 THEN NULL ELSE s[1]
      /\ \A i \in 1 .. m :
           /\ list.next[s[i]] = IF i = m THEN NULL ELSE s[i + 1]
           /\ list.prev[s[i]] = IF i = 1 THEN NULL ELSE s[i - 1]
      /\ \A x \in Node : (\A i \in 1 .. m : s[i] # x) => list.next[x] = NULL /\ list.prev[x] = NULL
  BY ListsMeans
<1>2. k # NULL
  BY HashListAssumption
<1> DEFINE from[n \in Node] == IF key[n] = k THEN n
                               ELSE IF list.next[n] = NULL THEN NULL ELSE from[list.next[n]]
<1>3. Found(k) = IF list.first = NULL THEN NULL ELSE from[list.first]
  BY DEF Found
<1>4. Follows(from, k)
  BY FollowsExists DEF Follows
<1> HIDE DEF from
<1>5. \A n \in Node : from[n] = IF key[n] = k THEN n
                                ELSE IF list.next[n] = NULL THEN NULL ELSE from[list.next[n]]
  BY <1>4 DEF Follows
<1>6. ASSUME NEW h \in Node, key[h] = k
      PROVE  Found(k) = h
  <2>1. PICK q \in 1 .. m : s[q] = h
    BY <1>2, <1>6 DEF Holds
  <2>2. \A n \in Node : key[n] = k => n = h
    BY <1>2, <1>6 DEF Unique
  <2> DEFINE T == {i \in 1 .. q : from[s[i]] # h}
  <2>3. ASSUME NEW i \in T
        PROVE  i # q /\ i + 1 \in T
    <3>1. i \in 1 .. m /\ i \in 1 .. q /\ q \in 1 .. m /\ from[s[i]] # h
      BY <1>1
    <3>2. i # q
      BY <1>5, <1>6, <2>1, <3>1
    <3>3. key[s[i]] # k
      BY <1>1, <2>1, <2>2, <3>1, <3>2
    <3>4. i # m /\ i + 1 \in 1 .. q /\ i + 1 \in 1 .. m
      BY <1>1, <3>1, <3>2
    <3>5. list.next[s[i]] = s[i + 1] /\ s[i + 1] # NULL /\ s[i] \in Node
      BY <1>1, <3>1, <3>4
    <3>6. from[s[i + 1]] # h
      BY <1>5, <3>1, <3>3, <3>5
    <3> QED  BY <3>2, <3>4, <3>6
  <2>4. T = {}
    <3>1. q \in Nat /\ T \subseteq 1 .. q
      BY <1>1
    <3> HIDE DEF T
    <3> QED  BY <2>3, <3>1, NoLast
  <2>5. 1 \in 1 .. q /\ m # 0 /\ 1 \in 1 .. m
    BY <1>1
  <2>6. from[s[1]] = h
    BY <2>4, <2>5
  <2> QED  BY <1>1, <1>3, <2>5, <2>6
<1>7. ASSUME \A n \in Node : key[n] # k
      PROVE  Found(k) = NULL
  <2> DEFINE T == {i \in 1 .. m : from[s[i]] # NULL}
  <2>1. ASSUME NEW i \in T
        PROVE  i # m /\ i + 1 \in T
    <3>1. i \in 1 .. m /\ from[s[i]] # NULL /\ s[i] \in Node /\ key[s[i]] # k
      BY <1>1, <1>7
    <3>2. i # m
      BY <1>1, <1>5, <3>1
    <3>3. i + 1 \in 1 .. m
      BY <1>1, <3>1, <3>2
    <3>4. list.next[s[i]] = s[i + 1]
      BY <1>1, <3>1, <3>2
    <3>5. from[s[i + 1]] # NULL
      BY <1>5, <3>1, <3>4
    <3> QED  BY <3>2, <3>3, <3>5
  <2>2. T = {}
    <3>1. m \in Nat /\ T \subseteq 1 .. m
      BY <1>1
    <3> HIDE DEF T
    <3> QED  BY <2>1, <3>1, NoLast
  <2>3. m # 0 => 1 \in 1 .. m
    BY <1>1
  <2>4. m # 0 => from[s[1]] = NULL
    BY <2>2, <2>3
  <2> QED  BY <1>1, <1>3, <2>4
<1> QED  BY <1>6, <1>7

(* The places of s from i on.                                              *)
From(s, m, i) == [j \in 1 .. m - i + 1 |-> s[i + j - 1]]

LEMMA FromIsSeq ==
  ASSUME NEW m \in Nat, NEW s, \A i \in 1 .. m : s[i] \in Node, NEW i \in 1 .. m
  PROVE  /\ From(s, m, i) \in Seq(Node) /\ Len(From(s, m, i)) = m - i + 1
         /\ \A j \in 1 .. m - i + 1 : From(s, m, i)[j] = s[i + j - 1]
<1>1. m - i + 1 \in Nat /\ \A j \in 1 .. m - i + 1 : i + j - 1 \in 1 .. m
  OBVIOUS
<1>2. \A j \in 1 .. m - i + 1 : s[i + j - 1] \in Node
  BY <1>1
<1>3. From(s, m, i) \in [1 .. m - i + 1 -> Node]
  BY <1>2 DEF From
<1>4. From(s, m, i) \in Seq(Node)
  BY <1>1, <1>3, SeqDef
<1>5. DOMAIN From(s, m, i) = 1 .. m - i + 1
  BY <1>3
<1>6. Len(From(s, m, i)) = m - i + 1
  <2> DEFINE t == From(s, m, i)
             e == m - i + 1
  <2>1. t \in Seq(Node) /\ DOMAIN t = 1 .. e /\ e \in Nat
    BY <1>1, <1>4, <1>5
  <2> HIDE DEF t, e
  <2>2. Len(t) = e
    BY <2>1, LenProperties
  <2> QED  BY <2>2 DEF t, e
<1> QED  BY <1>4, <1>6 DEF From

LEMMA FromStep ==
  ASSUME NEW m \in Nat, NEW s, \A i \in 1 .. m : s[i] \in Node, NEW i \in 1 .. m
  PROVE  From(s, m, i) = <<s[i]>> \o (IF i = m THEN <<>> ELSE From(s, m, i + 1))
<1> DEFINE a == <<s[i]>>
           b == IF i = m THEN <<>> ELSE From(s, m, i + 1)
           t == From(s, m, i)
<1>1. /\ t \in Seq(Node) /\ Len(t) = m - i + 1
      /\ \A j \in 1 .. m - i + 1 : t[j] = s[i + j - 1]
  BY FromIsSeq
<1>2. a \in Seq(Node) /\ Len(a) = 1 /\ a[1] = s[i]
  OBVIOUS
<1>3. /\ b \in Seq(Node) /\ Len(b) = m - i
      /\ \A j \in 1 .. m - i : b[j] = s[i + j]
  <2>1. CASE i = m
    BY <2>1
  <2>2. CASE i # m
    <3>1. i + 1 \in 1 .. m /\ m - (i + 1) + 1 = m - i
      BY <2>2
    <3>2. /\ b \in Seq(Node) /\ Len(b) = m - (i + 1) + 1
          /\ \A j \in 1 .. m - (i + 1) + 1 : b[j] = s[i + 1 + j - 1]
      BY <2>2, <3>1, FromIsSeq
    <3>3. \A j \in 1 .. m - i : i + 1 + j - 1 = i + j
      OBVIOUS
    <3> QED  BY <3>1, <3>2, <3>3
  <2> QED  BY <2>1, <2>2
<1> HIDE DEF a, b, t
<1>4. /\ a \o b \in Seq(Node) /\ Len(a \o b) = 1 + (m - i)
      /\ \A j \in 1 .. 1 + (m - i) : (a \o b)[j] = IF j =< 1 THEN a[j] ELSE b[j - 1]
  <2>1. a \in Seq(Node) /\ b \in Seq(Node)
    BY <1>2, <1>3
  <2>2. /\ a \o b \in Seq(Node) /\ Len(a \o b) = Len(a) + Len(b)
        /\ \A j \in 1 .. Len(a) + Len(b) : (a \o b)[j] = IF j <= Len(a) THEN a[j] ELSE b[j - Len(a)]
    BY <2>1, ConcatProperties, Zenon
  <2>3. Len(a) = 1 /\ Len(b) = m - i
    BY <1>2, <1>3
  <2> QED  BY <2>2, <2>3
<1>5. ASSUME NEW j \in 1 .. Len(t)
      PROVE  t[j] = (a \o b)[j]
  <2>1. j \in 1 .. m - i + 1 /\ j \in 1 .. 1 + (m - i) /\ j \in Int
    BY <1>1
  <2>2. CASE j = 1
    <3>1. i + j - 1 = i /\ j =< 1
      BY <2>2
    <3> QED  BY <1>1, <1>2, <1>4, <2>1, <2>2, <3>1
  <2>3. CASE j # 1
    <3>1. ~(j =< 1) /\ j - 1 \in 1 .. m - i /\ i + (j - 1) = i + j - 1
      BY <2>1, <2>3
    <3>2. (a \o b)[j] = b[j - 1]
      BY <1>4, <2>1, <3>1
    <3>3. b[j - 1] = s[i + (j - 1)]
      BY <1>3, <3>1
    <3>4. t[j] = s[i + j - 1]
      BY <1>1, <2>1
    <3> QED  BY <3>1, <3>2, <3>3, <3>4
  <2> QED  BY <2>2, <2>3
<1>6. Len(t) = Len(a \o b)
  BY <1>1, <1>4
<1>7. t = a \o b
  BY <1>1, <1>4, <1>5, <1>6, SeqEqual
<1> QED  BY <1>7 DEF a, b, t

(* The recursion of Chain.                                                 *)
Walks(f, L) ==
  f = [n \in Node |-> <<n>> \o (IF L.next[n] = NULL THEN <<>> ELSE f[L.next[n]])]

LEMMA WalksExists ==
  ASSUME NEW L \in Pointers, NEW m, NEW s, Lists(L, s, m)
  PROVE  \E f : Walks(f, L)
<1>1. /\ m \in Nat /\ NULL \notin Node
      /\ \A i \in 1 .. m : s[i] \in Node
      /\ \A i, j \in 1 .. m : s[i] = s[j] => i = j
      /\ L.first = IF m = 0 THEN NULL ELSE s[1]
      /\ \A i \in 1 .. m :
           /\ L.next[s[i]] = IF i = m THEN NULL ELSE s[i + 1]
           /\ L.prev[s[i]] = IF i = 1 THEN NULL ELSE s[i - 1]
      /\ \A x \in Node : (\A i \in 1 .. m : s[i] # x) => L.next[x] = NULL /\ L.prev[x] = NULL
  BY ListsMeans
<1> DEFINE Place(n) == CHOOSE i \in 1 .. m : s[i] = n
           f == [n \in Node |-> IF \E i \in 1 .. m : s[i] = n THEN From(s, m, Place(n))
                                ELSE <<n>>]
<1>2. \A i \in 1 .. m : f[s[i]] = From(s, m, i)
  <2> TAKE i \in 1 .. m
  <2>1. Place(s[i]) = i
    BY <1>1
  <2> HIDE DEF Place
  <2> QED  BY <1>1, <2>1
<1>3. \A n \in Node : (\A i \in 1 .. m : s[i] # n) => f[n] = <<n>>
  OBVIOUS
<1>4. f = [n \in Node |-> f[n]]
  OBVIOUS
<1> HIDE DEF f
<1>5. ASSUME NEW n \in Node
      PROVE  f[n] = <<n>> \o (IF L.next[n] = NULL THEN <<>> ELSE f[L.next[n]])
  <2>1. CASE \A i \in 1 .. m : s[i] # n
    <3>1. f[n] = <<n>> /\ L.next[n] = NULL
      BY <1>1, <1>3, <2>1
    <3>2. <<n>> \o <<>> = <<n>>
      <4>1. <<n>> \in Seq(Node)
        OBVIOUS
      <4> QED  BY <4>1, ConcatEmptySeq
    <3> QED  BY <3>1, <3>2
  <2>2. CASE \E i \in 1 .. m : s[i] = n
    <3>1. PICK i \in 1 .. m : s[i] = n
      BY <2>2
    <3>2. From(s, m, i) = <<s[i]>> \o (IF i = m THEN <<>> ELSE From(s, m, i + 1))
      BY <1>1, FromStep
    <3>3. f[n] = From(s, m, i)
      BY <1>2, <3>1
    <3>4. CASE i = m
      <4>1. L.next[n] = NULL
        BY <1>1, <3>1, <3>4
      <4> QED  BY <3>1, <3>2, <3>3, <3>4, <4>1
    <3>5. CASE i # m
      <4>1. i + 1 \in 1 .. m
        BY <1>1, <3>5
      <4>2. L.next[n] = s[i + 1] /\ s[i + 1] # NULL
        BY <1>1, <3>1, <3>5, <4>1
      <4>3. f[L.next[n]] = From(s, m, i + 1)
        BY <1>2, <4>1, <4>2
      <4> QED  BY <3>1, <3>2, <3>3, <3>5, <4>2, <4>3
    <3> QED  BY <3>4, <3>5
  <2> QED  BY <2>1, <2>2
<1>6. Walks(f, L)
  BY <1>4, <1>5 DEF Walks
<1> QED  BY <1>6

(* Chain(L) is the sequence of the nodes of the list.                      *)
LEMMA ChainMeans ==
  ASSUME NEW L \in Pointers, NEW m, NEW s, Lists(L, s, m)
  PROVE  Chain(L) = s
<1>1. /\ m \in Nat /\ NULL \notin Node
      /\ \A i \in 1 .. m : s[i] \in Node
      /\ \A i, j \in 1 .. m : s[i] = s[j] => i = j
      /\ L.first = IF m = 0 THEN NULL ELSE s[1]
      /\ \A i \in 1 .. m :
           /\ L.next[s[i]] = IF i = m THEN NULL ELSE s[i + 1]
           /\ L.prev[s[i]] = IF i = 1 THEN NULL ELSE s[i - 1]
      /\ \A x \in Node : (\A i \in 1 .. m : s[i] # x) => L.next[x] = NULL /\ L.prev[x] = NULL
  BY ListsMeans
<1>2. s \in [1 .. m -> Node]
  BY DEF Lists
<1> DEFINE from[n \in Node] == <<n>> \o (IF L.next[n] = NULL THEN <<>> ELSE from[L.next[n]])
<1>3. Chain(L) = IF L.first = NULL THEN <<>> ELSE from[L.first]
  BY DEF Chain
<1>4. Walks(from, L)
  BY WalksExists DEF Walks
<1> HIDE DEF from
<1>5. \A n \in Node : from[n] = <<n>> \o (IF L.next[n] = NULL THEN <<>> ELSE from[L.next[n]])
  BY <1>4 DEF Walks
<1> DEFINE T == {i \in 1 .. m : from[s[i]] # From(s, m, i)}
<1>6. ASSUME NEW i \in T
      PROVE  i # m /\ i + 1 \in T
  <2>1. i \in 1 .. m /\ from[s[i]] # From(s, m, i) /\ s[i] \in Node
    BY <1>1
  <2>2. From(s, m, i) = <<s[i]>> \o (IF i = m THEN <<>> ELSE From(s, m, i + 1))
    <3>1. m \in Nat /\ \A j \in 1 .. m : s[j] \in Node
      BY <1>1
    <3> QED  BY <2>1, <3>1, FromStep
  <2>3. from[s[i]] = <<s[i]>> \o (IF L.next[s[i]] = NULL THEN <<>> ELSE from[L.next[s[i]]])
    BY <1>5, <2>1
  <2>4. i # m
    <3> SUFFICES ASSUME i = m PROVE FALSE
      OBVIOUS
    <3>1. L.next[s[i]] = NULL
      BY <1>1, <2>1
    <3> QED  BY <2>1, <2>2, <2>3, <3>1
  <2>5. i + 1 \in 1 .. m
    BY <1>1, <2>1, <2>4
  <2>6. L.next[s[i]] = s[i + 1] /\ s[i + 1] # NULL
    BY <1>1, <2>1, <2>4, <2>5
  <2>7. from[s[i + 1]] # From(s, m, i + 1)
    BY <2>1, <2>2, <2>3, <2>4, <2>6
  <2> QED  BY <2>4, <2>5, <2>7
<1>7. T = {}
  <2>1. T \subseteq 1 .. m
    OBVIOUS
  <2> HIDE DEF T
  <2> QED  BY <1>1, <1>6, <2>1, NoLast
<1>8. CASE m = 0
  <2>1. Chain(L) = <<>>
    BY <1>1, <1>3, <1>8
  <2>2. 1 .. m = {}
    BY <1>8
  <2>3. s = <<>>
    <3>1. s \in Seq(Node)
      BY <1>1, <1>2, SeqDef
    <3>2. Len(s) = 0
      BY <1>2, <1>8, <3>1, LenProperties
    <3> QED  BY <3>1, <3>2, EmptySeq
  <2> QED  BY <2>1, <2>3
<1>9. CASE m # 0
  <2>1. 1 \in 1 .. m
    BY <1>1, <1>9
  <2>2. from[s[1]] = From(s, m, 1)
    BY <1>7, <2>1
  <2>3. From(s, m, 1) = [j \in 1 .. m |-> s[j]]
    <3>1. m - 1 + 1 = m /\ \A j \in 1 .. m : 1 + j - 1 = j
      BY <1>1
    <3> QED  BY <3>1 DEF From
  <2>4. [j \in 1 .. m |-> s[j]] = s
    BY <1>2
  <2>5. L.first = s[1] /\ s[1] # NULL
    BY <1>1, <1>9, <2>1
  <2> QED  BY <1>3, <2>2, <2>3, <2>4, <2>5
<1> QED  BY <1>8, <1>9

-----------------------------------------------------------------------------
(* Part 4: the invariant.  Some sequence of nodes is the list, and exactly *)
(* its nodes have keys; the keys are distinct; and a store that has        *)
(* evicted owns a node outside the list and a key nobody has.              *)

Shape(L, K, m) == \E s : Lists(L, s, m) /\ Holds(K, s, m)

Absent(k) == \A n \in Node : key[n] # k

Waits ==
  ~Idle => /\ pending.node \in Node /\ key[pending.node] = NULL
           /\ pending.op \in {"insert", "set"}
           /\ pending.key \in Key /\ Absent(pending.key)

Typed ==
  /\ list \in Pointers
  /\ key \in [Node -> Key \cup {NULL}]
  /\ nodenum \in Nat

IInv == Typed /\ Unique /\ Waits /\ Shape(list, key, nodenum)

LEMMA InitShape == Init => IInv
<1> SUFFICES ASSUME Init PROVE IInv
  OBVIOUS
<1> DEFINE s == [i \in 1 .. 0 |-> NULL]
<1>1. 1 .. 0 = {} /\ s \in [1 .. 0 -> Node]
  OBVIOUS
<1>2. Typed /\ Unique /\ Waits
  BY DEF Init, Typed, Pointers, Unique, Waits, Idle
<1> HIDE DEF s
<1>3. Lists(list, s, nodenum)
  BY <1>1 DEF Init, Lists
<1>4. Holds(key, s, nodenum)
  BY <1>1 DEF Init, Holds
<1> QED  BY <1>2, <1>3, <1>4 DEF IInv, Shape

(* ccache_list_init_node keeps it.                                         *)
LEMMA LinkShape ==
  ASSUME Typed, Unique, Shape(list, key, nodenum),
         NEW op, NEW k \in Key, Absent(k), NEW n \in Node, key[n] = NULL, Link(op, k, n)
  PROVE  Typed' /\ Unique' /\ Shape(list', key', nodenum')
<1>1. PICK s : Lists(list, s, nodenum) /\ Holds(key, s, nodenum)
  BY DEF Shape
<1>2. list' = Prepended(list, n) /\ nodenum' = nodenum + 1 /\ key' = [key EXCEPT ![n] = k]
  BY DEF Link, Prepended
<1>3. list \in Pointers /\ key \in [Node -> Key \cup {NULL}] /\ nodenum \in Nat
  BY DEF Typed
<1>4. \A i \in 1 .. nodenum : s[i] # n
  BY <1>1 DEF Holds
<1> DEFINE t == Front(n, s, nodenum)
<1>5. Lists(list', t, nodenum')
  BY <1>1, <1>2, <1>3, <1>4, FrontLists
<1>6. list' \in Pointers
  BY <1>2, <1>3, PrependedFields
<1>7. \A x \in Node : key'[x] = IF x = n THEN k ELSE key[x]
  BY <1>2, <1>3
<1>8. k # NULL
  BY HashListAssumption
<1>9. Typed'
  BY <1>2, <1>3, <1>6 DEF Typed
<1>10. Unique'
  BY <1>7 DEF Unique, Absent
<1>11. \A i \in 1 .. nodenum : i + 1 \in 1 .. nodenum + 1 /\ t[i + 1] = s[i]
  BY <1>3 DEF Front
<1>12. 1 \in 1 .. nodenum + 1 /\ t[1] = n
  BY <1>3 DEF Front
<1>13. \A i \in 1 .. nodenum + 1 : i # 1 => i - 1 \in 1 .. nodenum /\ t[i] = s[i - 1]
  BY <1>3 DEF Front
<1> HIDE DEF t
<1>14. ASSUME NEW x \in Node
       PROVE  key'[x] # NULL <=> \E i \in 1 .. nodenum + 1 : t[i] = x
  <2>1. CASE x = n
    BY <1>7, <1>8, <1>12, <2>1
  <2>2. CASE x # n
    <3>1. key'[x] # NULL <=> \E i \in 1 .. nodenum : s[i] = x
      BY <1>1, <1>7, <2>2 DEF Holds
    <3>2. ASSUME NEW i \in 1 .. nodenum, s[i] = x
          PROVE  \E j \in 1 .. nodenum + 1 : t[j] = x
      BY <1>11, <3>2
    <3>3. ASSUME NEW i \in 1 .. nodenum + 1, t[i] = x
          PROVE  \E j \in 1 .. nodenum : s[j] = x
      BY <1>12, <1>13, <2>2, <3>3
    <3> QED  BY <3>1, <3>2, <3>3
  <2> QED  BY <2>1, <2>2
<1>15. Holds(key', t, nodenum')
  BY <1>2, <1>14 DEF Holds
<1> QED  BY <1>5, <1>9, <1>10, <1>15 DEF Shape

(* ccache_list_erase keeps it.                                             *)
LEMMA UnlinkShape ==
  ASSUME Typed, Unique, Shape(list, key, nodenum),
         NEW n \in Node, key[n] # NULL, Unlink(n)
  PROVE  Typed' /\ Unique' /\ Shape(list', key', nodenum')
<1>1. PICK s : Lists(list, s, nodenum) /\ Holds(key, s, nodenum)
  BY DEF Shape
<1>2. list' = Removed(list, n) /\ nodenum' = nodenum - 1 /\ key' = [key EXCEPT ![n] = NULL]
  BY DEF Unlink, Removed
<1>3. list \in Pointers /\ key \in [Node -> Key \cup {NULL}] /\ nodenum \in Nat
  BY DEF Typed
<1>4. PICK p \in 1 .. nodenum : s[p] = n
  BY <1>1 DEF Holds
<1> DEFINE t == Without(p, s, nodenum)
<1>5. Lists(list', t, nodenum')
  BY <1>1, <1>2, <1>3, <1>4, WithoutLists
<1>6. list' \in Pointers
  BY <1>2, <1>3, RemovedFields
<1>7. \A x \in Node : key'[x] = IF x = n THEN NULL ELSE key[x]
  BY <1>2, <1>3
<1>8. nodenum - 1 \in Nat
  BY <1>3, <1>4
<1>9. Typed'
  BY <1>2, <1>3, <1>6, <1>8 DEF Typed
<1>10. Unique'
  BY <1>7 DEF Unique
<1>11. \A i, j \in 1 .. nodenum : s[i] = s[j] => i = j
  BY <1>1 DEF Lists
<1>12. \A i \in 1 .. nodenum - 1 : i < p => i \in 1 .. nodenum /\ i # p /\ t[i] = s[i]
  BY <1>3 DEF Without
<1>13. \A i \in 1 .. nodenum - 1 : ~(i < p) => i + 1 \in 1 .. nodenum /\ i + 1 # p /\ t[i] = s[i + 1]
  BY <1>3 DEF Without
<1>14. \A i \in 1 .. nodenum : i < p => i \in 1 .. nodenum - 1
  BY <1>3
<1>15. \A i \in 1 .. nodenum : i > p => i - 1 \in 1 .. nodenum - 1 /\ ~(i - 1 < p) /\ i - 1 + 1 = i
  BY <1>3
<1> HIDE DEF t
<1>16. ASSUME NEW x \in Node
       PROVE  key'[x] # NULL <=> \E i \in 1 .. nodenum - 1 : t[i] = x
  <2>1. CASE x = n
    <3>1. key'[x] = NULL
      BY <1>7, <2>1
    <3>2. ASSUME NEW i \in 1 .. nodenum - 1
          PROVE  t[i] # x
      <4>1. CASE i < p
        BY <1>4, <1>11, <1>12, <2>1, <4>1
      <4>2. CASE ~(i < p)
        BY <1>4, <1>11, <1>13, <2>1, <4>2
      <4> QED  BY <4>1, <4>2
    <3> QED  BY <3>1, <3>2
  <2>2. CASE x # n
    <3>1. key'[x] # NULL <=> \E i \in 1 .. nodenum : s[i] = x
      BY <1>1, <1>7, <2>2 DEF Holds
    <3>2. ASSUME NEW i \in 1 .. nodenum, s[i] = x
          PROVE  \E j \in 1 .. nodenum - 1 : t[j] = x
      <4>1. i < p \/ i > p
        BY <1>3, <1>4, <2>2, <3>2
      <4>2. CASE i < p
        BY <1>12, <1>14, <3>2, <4>2
      <4>3. CASE i > p
        BY <1>13, <1>15, <3>2, <4>3
      <4> QED  BY <4>1, <4>2, <4>3
    <3>3. ASSUME NEW i \in 1 .. nodenum - 1, t[i] = x
          PROVE  \E j \in 1 .. nodenum : s[j] = x
      BY <1>12, <1>13, <3>3
    <3> QED  BY <3>1, <3>2, <3>3
  <2> QED  BY <2>1, <2>2
<1>17. Holds(key', t, nodenum')
  BY <1>2, <1>16 DEF Holds
<1> QED  BY <1>5, <1>9, <1>10, <1>17 DEF Shape

(* ccache_list_advance swaps a node with the one before it, if there is    *)
(* one.                                                                    *)
LEMMA AdvancedShape ==
  ASSUME Typed, NEW s, Lists(list, s, nodenum), Holds(key, s, nodenum), NEW p \in 1 .. nodenum
  PROVE  LET t == IF p = 1 THEN s ELSE Swapped(p, s, nodenum)
         IN  /\ Advanced(s[p]) \in Pointers
             /\ Lists(Advanced(s[p]), t, nodenum) /\ Holds(key, t, nodenum)
<1>1. list \in Pointers /\ nodenum \in Nat
  BY DEF Typed
<1>2. CASE p = 1
  <2>1. list.first = s[1]
    BY <1>1 DEF Lists
  <2>2. Advanced(s[p]) = list
    BY <1>2, <2>1 DEF Advanced
  <2> QED  BY <1>1, <1>2, <2>2
<1>3. CASE p # 1
  <2> DEFINE t == Swapped(p, s, nodenum)
  <2>1. p \in 2 .. nodenum
    BY <1>1, <1>3
  <2>2. Lists(Advanced(s[p]), t, nodenum)
    BY <1>1, <2>1, SwappedLists
  <2>3. /\ p \in 1 .. nodenum /\ p - 1 \in 1 .. nodenum /\ p - 1 # p
        /\ t[p - 1] = s[p] /\ t[p] = s[p - 1]
        /\ \A i \in 1 .. nodenum : i # p /\ i # p - 1 => t[i] = s[i]
    BY <1>1, <2>1 DEF Swapped
  <2> HIDE DEF t
  <2>4. \A x : (\E i \in 1 .. nodenum : s[i] = x) <=> (\E i \in 1 .. nodenum : t[i] = x)
    BY <2>3
  <2>5. Holds(key, t, nodenum)
    BY <2>4 DEF Holds
  <2>6. Advanced(s[p]) \in Pointers
    <3>1. /\ s[p] \in Node /\ s[p - 1] \in Node /\ list.prev[s[p]] = s[p - 1]
          /\ s[1] # s[p] /\ list.first = s[1]
      BY <1>1, <2>1 DEF Lists
    <3> QED  BY <1>1, <3>1, AdvancedFields
  <2> QED  BY <1>3, <2>2, <2>5, <2>6 DEF t
<1> QED  BY <1>2, <1>3

(* Found(k), in the terms of the invariant.                                *)
LEMMA FoundKey ==
  ASSUME IInv, NEW k \in Key
  PROVE  /\ Found(k) = NULL <=> Absent(k)
         /\ Found(k) # NULL => Found(k) \in Node /\ key[Found(k)] = k
<1>1. PICK s : Lists(list, s, nodenum) /\ Holds(key, s, nodenum)
  BY DEF IInv, Shape
<1>2. Unique /\ key \in [Node -> Key \cup {NULL}]
  BY DEF IInv, Typed
<1>3. /\ \A n \in Node : key[n] = k => Found(k) = n
      /\ (\A n \in Node : key[n] # k) => Found(k) = NULL
  BY <1>1, <1>2, FoundMeans
<1> QED  BY <1>3, HashListAssumption DEF Absent

(* A step that finds k.                                                    *)
LEMMA HitShape ==
  ASSUME IInv, NEW op, NEW k \in Key, Hit(op, k)
  PROVE  /\ Typed' /\ Shape(list', key', nodenum')
         /\ \E s, p :
              /\ Lists(list, s, nodenum) /\ p \in 1 .. nodenum /\ key[s[p]] = k
              /\ op # "insert" =>
                   Lists(list', IF p = 1 THEN s ELSE Swapped(p, s, nodenum), nodenum)
<1>1. PICK s : Lists(list, s, nodenum) /\ Holds(key, s, nodenum)
  BY DEF IInv, Shape
<1>2. Typed /\ Unique
  BY DEF IInv
<1>3. Found(k) \in Node /\ key[Found(k)] = k /\ k # NULL
  BY FoundKey, HashListAssumption DEF Hit
<1>4. PICK p \in 1 .. nodenum : s[p] = Found(k)
  BY <1>1, <1>3 DEF Holds
<1> DEFINE t == IF p = 1 THEN s ELSE Swapped(p, s, nodenum)
<1>5. /\ Advanced(s[p]) \in Pointers
      /\ Lists(Advanced(s[p]), t, nodenum) /\ Holds(key, t, nodenum)
  BY <1>1, <1>2, AdvancedShape
<1> HIDE DEF t
<1>6. key' = key /\ nodenum' = nodenum
  BY DEF Hit
<1>7. CASE op = "insert"
  <2>1. list' = list
    BY <1>7 DEF Hit
  <2> QED  BY <1>1, <1>2, <1>3, <1>4, <1>6, <1>7, <2>1 DEF Typed, Shape
<1>8. CASE op # "insert"
  <2>1. list' = Advanced(s[p])
    BY <1>4, <1>8 DEF Hit
  <2>2. Lists(list', t, nodenum) /\ Holds(key', t, nodenum') /\ Lists(list', t, nodenum')
    BY <1>5, <1>6, <2>1
  <2>3. Typed' /\ Shape(list', key', nodenum')
    BY <1>2, <1>5, <1>6, <2>1, <2>2 DEF Typed, Shape
  <2>4. Lists(list', IF p = 1 THEN s ELSE Swapped(p, s, nodenum), nodenum)
    BY <2>2 DEF t
  <2> QED  BY <1>1, <1>3, <1>4, <2>3, <2>4
<1> QED  BY <1>7, <1>8

THEOREM HashListInvariance == Spec => []IInv
<1>1. Init => IInv
  BY InitShape
<1>2. IInv /\ [Next]_vars => IInv'
  <2> SUFFICES ASSUME IInv, [Next]_vars PROVE IInv'
    OBVIOUS
  <2>1. Typed /\ Unique /\ Waits /\ Shape(list, key, nodenum)
    BY DEF IInv
  <2>2. ASSUME NEW k \in Key, NEW op \in {"find", "update", "insert", "set"}, Hit(op, k)
        PROVE  IInv'
    <3>1. Typed' /\ Shape(list', key', nodenum')
      BY <2>2, HitShape
    <3>2. Unique' /\ Waits'
      BY <2>1, <2>2 DEF Hit, Unique, Waits, Idle, Absent
    <3> QED  BY <3>1, <3>2 DEF IInv
  <2>3. ASSUME UNCHANGED <<list, key, nodenum, pending>>
        PROVE  IInv'
    BY <2>1, <2>3 DEF IInv, Typed, Unique, Waits, Idle, Absent
  <2>4. ASSUME NEW k \in Key, NEW op \in {"insert", "set"}, StoreOther(op, k)
        PROVE  IInv'
    <3>1. Absent(k) /\ Idle /\ UNCHANGED pending
      BY <2>4, FoundKey DEF StoreOther
    <3>2. PICK n \in Node : key[n] = NULL /\ Link(op, k, n)
      BY <2>4 DEF StoreOther
    <3>3. Typed' /\ Unique' /\ Shape(list', key', nodenum')
      BY <2>1, <3>1, <3>2, LinkShape
    <3>4. Waits'
      BY <3>1 DEF Waits, Idle
    <3> QED  BY <3>3, <3>4 DEF IInv
  <2>5. ASSUME NEW k \in Key, NEW op \in {"insert", "set"}, StoreEvicting(op, k)
        PROVE  IInv'
    <3>1. Absent(k)
      BY <2>5, FoundKey DEF StoreEvicting
    <3>2. PICK n \in Node :
            key[n] # NULL /\ Unlink(n) /\ pending' = [node |-> n, op |-> op, key |-> k]
      BY <2>5 DEF StoreEvicting
    <3>3. Typed' /\ Unique' /\ Shape(list', key', nodenum')
      BY <2>1, <3>2, UnlinkShape
    <3>4. \A x \in Node : key'[x] = IF x = n THEN NULL ELSE key[x]
      BY <2>1, <3>2 DEF Unlink, Typed
    <3>5. Absent(k)' /\ key'[n] = NULL
      BY <3>1, <3>4, HashListAssumption DEF Absent
    <3>6. /\ pending'.node = n /\ pending'.op = op /\ pending'.key = k
      BY <3>2
    <3>7. Waits'
      BY <3>5, <3>6 DEF Waits, Absent
    <3> QED  BY <3>3, <3>7 DEF IInv
  <2>6. ASSUME Erase PROVE IInv'
    <3>1. PICK n \in Node : key[n] # NULL /\ Unlink(n)
      BY <2>6 DEF Erase
    <3>2. Typed' /\ Unique' /\ Shape(list', key', nodenum')
      BY <2>1, <3>1, UnlinkShape
    <3>3. Waits'
      BY <2>6 DEF Erase, Waits, Idle
    <3> QED  BY <3>2, <3>3 DEF IInv
  <2>7. ASSUME LinkPending PROVE IInv'
    <3>1. /\ pending.node \in Node /\ key[pending.node] = NULL
          /\ pending.key \in Key /\ Absent(pending.key)
          /\ Link(pending.op, pending.key, pending.node)
      BY <2>1, <2>7 DEF LinkPending, Waits
    <3>2. Typed' /\ Unique' /\ Shape(list', key', nodenum')
      BY <2>1, <3>1, LinkShape
    <3>3. Waits'
      BY <2>7 DEF LinkPending, Waits, Idle
    <3> QED  BY <3>2, <3>3 DEF IInv
  <2> QED  BY <2>2, <2>3, <2>4, <2>5, <2>6, <2>7 DEF Next, Miss, StoreFailed, Visit, vars
<1> QED  BY <1>1, <1>2, PTL DEF Spec

-----------------------------------------------------------------------------
(* Part 5: the theorems.                                                   *)

(* The number of the nodes with keys is that of the places of s.           *)
LEMMA Counts ==
  ASSUME NEW s, NEW m, Lists(list, s, m), Holds(key, s, m)
  PROVE  Cardinality(Present) = m
<1>1. m \in Nat /\ s \in [1 .. m -> Node] /\ \A i, j \in 1 .. m : s[i] = s[j] => i = j
  BY DEF Lists
<1>2. \A i \in 1 .. m : s[i] \in Present
  BY <1>1 DEF Holds, Present
<1>3. s \in [1 .. m -> Present]
  BY <1>1, <1>2
<1>4. \A n \in Present : \E i \in 1 .. m : s[i] = n
  BY DEF Holds, Present
<1>5. s \in Bijection(1 .. m, Present)
  BY <1>1, <1>3, <1>4 DEF Bijection, Injection, Surjection, IsInjective
<1>6. ExistsBijection(1 .. m, Present)
  BY <1>5 DEF ExistsBijection
<1> QED  BY <1>1, <1>6, FS_CountingElements

(* Type correctness.                                                       *)
THEOREM TypeCorrectness == Spec => []TypeOK
<1>1. IInv => TypeOK
  BY DEF IInv, Typed, Waits, Idle, NoStore, TypeOK, Pointers
<1> QED  BY <1>1, HashListInvariance, PTL

(* The pointers that ccache_list_init_node, ccache_list_advance and        *)
(* ccache_list_erase assign always make up one list of the stored nodes.   *)
THEOREM AlwaysLinked == Spec => []Linked
<1>1. IInv => Linked
  <2> SUFFICES ASSUME IInv PROVE Linked
    OBVIOUS
  <2> DEFINE m == nodenum
  <2>1. PICK s : Lists(list, s, m) /\ Holds(key, s, m)
    BY DEF IInv, Shape
  <2>2. /\ m \in Nat /\ NULL \notin Node
        /\ \A i \in 1 .. m : s[i] \in Node
        /\ \A i, j \in 1 .. m : s[i] = s[j] => i = j
        /\ list.first = IF m = 0 THEN NULL ELSE s[1]
        /\ \A i \in 1 .. m :
             /\ list.next[s[i]] = IF i = m THEN NULL ELSE s[i + 1]
             /\ list.prev[s[i]] = IF i = 1 THEN NULL ELSE s[i - 1]
        /\ \A x \in Node : (\A i \in 1 .. m : s[i] # x) => list.next[x] = NULL /\ list.prev[x] = NULL
    BY <2>1, ListsMeans
  <2>3. \A n \in Node : n \in Present <=> \E i \in 1 .. m : s[i] = n
    BY <2>1 DEF Holds, Present
  <2>4. nodenum = Cardinality(Present)
    BY <2>1, Counts
  <2> HIDE DEF m
  <2>5. m # 0 => 1 \in 1 .. m
    BY <2>2
  <2>6. list.first # NULL => list.first \in Present /\ list.prev[list.first] = NULL
    BY <2>2, <2>3, <2>5
  <2>7. Present # {} => list.first # NULL
    <3> SUFFICES ASSUME NEW n \in Present PROVE m # 0 /\ list.first # NULL
      OBVIOUS
    <3>1. n \in Node
      BY DEF Present
    <3>2. PICK i \in 1 .. m : s[i] = n
      BY <2>3, <3>1
    <3>3. m # 0
      BY <2>2, <3>2
    <3> QED  BY <2>2, <2>5, <3>3
  <2>8. ASSUME NEW n \in Present
        PROVE  /\ list.prev[n] = NULL <=> n = list.first
               /\ list.next[n] # NULL => list.next[n] \in Present /\ list.prev[list.next[n]] = n
               /\ list.prev[n] # NULL => list.prev[n] \in Present /\ list.next[list.prev[n]] = n
    <3>1. n \in Node
      BY DEF Present
    <3>2. PICK i \in 1 .. m : s[i] = n
      BY <2>3, <3>1
    <3>3. m # 0 /\ 1 \in 1 .. m /\ i \in Int
      BY <2>2, <3>2
    <3>4. i # m => i + 1 \in 1 .. m /\ i + 1 # 1 /\ i + 1 - 1 = i
      BY <2>2, <3>2
    <3>5. i # 1 => i - 1 \in 1 .. m /\ i - 1 # m /\ i - 1 + 1 = i
      BY <2>2, <3>2
    <3>6. list.prev[n] = NULL <=> i = 1
      BY <2>2, <3>2, <3>5
    <3>7. n = list.first <=> i = 1
      BY <2>2, <3>2, <3>3
    <3>8. list.next[n] # NULL => list.next[n] \in Present /\ list.prev[list.next[n]] = n
      <4> SUFFICES ASSUME list.next[n] # NULL
                   PROVE  list.next[n] \in Present /\ list.prev[list.next[n]] = n
        OBVIOUS
      <4>1. i # m /\ list.next[n] = s[i + 1]
        BY <2>2, <3>2
      <4>2. list.prev[s[i + 1]] = s[i]
        BY <2>2, <3>4, <4>1
      <4> QED  BY <2>2, <2>3, <3>2, <3>4, <4>1, <4>2
    <3>9. list.prev[n] # NULL => list.prev[n] \in Present /\ list.next[list.prev[n]] = n
      <4> SUFFICES ASSUME list.prev[n] # NULL
                   PROVE  list.prev[n] \in Present /\ list.next[list.prev[n]] = n
        OBVIOUS
      <4>1. i # 1 /\ list.prev[n] = s[i - 1]
        BY <2>2, <3>2
      <4>2. list.next[s[i - 1]] = s[i]
        BY <2>2, <3>5, <4>1
      <4> QED  BY <2>2, <2>3, <3>2, <3>5, <4>1, <4>2
    <3> QED  BY <3>6, <3>7, <3>8, <3>9
  <2>9. \A n \in Node \ Present : list.next[n] = NULL /\ list.prev[n] = NULL
    BY <2>2, <2>3
  <2> QED  BY <2>4, <2>6, <2>7, <2>8, <2>9 DEF Linked
<1> QED  BY <1>1, HashListInvariance, PTL

(* Finding a key swaps its node with the one before it and leaves the      *)
(* others where they are (ccache_list_advance).                            *)
THEOREM HitsSwap == Spec => HitMovesUpByOne
<1> DEFINE Found2 == ret'.found /\ ret'.op \in {"find", "update", "set"}
           Moved(i) == Chain(list') = [j \in DOMAIN Chain(list) |->
                         CASE i > 1 /\ j = i - 1 -> Chain(list)[i]
                           [] i > 1 /\ j = i -> Chain(list)[i - 1]
                           [] OTHER -> Chain(list)[j]]
           Moves == Found2 => Moved(CHOOSE i \in DOMAIN Chain(list) : key[Chain(list)[i]] = ret'.key)
<1>1. IInv /\ Next => Moves
  <2> SUFFICES ASSUME IInv, Next, Found2
               PROVE  Moved(CHOOSE i \in DOMAIN Chain(list) : key[Chain(list)[i]] = ret'.key)
    OBVIOUS
  <2>1. PICK k \in Key, op \in {"find", "update", "set"} : Hit(op, k)
    <3>1. ASSUME NEW op, NEW k, NEW n, Link(op, k, n) PROVE ret'.found = FALSE
      BY <3>1 DEF Link, Reply
    <3>2. ASSUME NEW n, Unlink(n) PROVE ret'.op = "erase"
      BY <3>2 DEF Unlink, Reply
    <3>3. ASSUME NEW k, StoreFailed(k) PROVE ret'.found = FALSE
      BY <3>3 DEF StoreFailed, Reply
    <3>4. ASSUME NEW op, NEW k, Miss(op, k) PROVE ret'.found = FALSE
      BY <3>4 DEF Miss, Reply
    <3>5. ASSUME NEW op, NEW k, Hit(op, k) PROVE ret'.op = op
      BY <3>5 DEF Hit, Reply
    <3>6. ASSUME Visit PROVE ret'.found = FALSE
      BY <3>6 DEF Visit, Reply
    <3>7. ASSUME NEW op, NEW k, StoreOther(op, k) \/ StoreEvicting(op, k)
          PROVE  ret'.found = FALSE \/ ret'.op = "erase"
      BY <3>1, <3>2, <3>7 DEF StoreOther, StoreEvicting
    <3>8. ASSUME Erase \/ LinkPending PROVE ret'.found = FALSE \/ ret'.op = "erase"
      BY <3>1, <3>2, <3>8 DEF Erase, LinkPending
    <3> QED  BY <3>3, <3>4, <3>5, <3>6, <3>7, <3>8 DEF Next
  <2>2. ret'.key = k
    BY <2>1 DEF Hit, Reply
  <2>3. PICK s, p :
          /\ Lists(list, s, nodenum) /\ p \in 1 .. nodenum /\ key[s[p]] = k
          /\ op # "insert" => Lists(list', IF p = 1 THEN s ELSE Swapped(p, s, nodenum), nodenum)
    BY <2>1, HitShape
  <2> DEFINE t == IF p = 1 THEN s ELSE Swapped(p, s, nodenum)
  <2>4. /\ list \in Pointers /\ list' \in Pointers /\ Unique
        /\ nodenum \in Nat /\ s \in [1 .. nodenum -> Node]
        /\ \A i, j \in 1 .. nodenum : s[i] = s[j] => i = j
    BY <2>1, <2>3, HitShape DEF IInv, Typed, Lists
  <2>5. Lists(list', t, nodenum)
    BY <2>1, <2>3
  <2>6. Chain(list) = s
    BY <2>3, <2>4, ChainMeans
  <2>7. Chain(list') = t
    <3> HIDE DEF t
    <3> QED  BY <2>4, <2>5, ChainMeans
  <2>8. DOMAIN s = 1 .. nodenum
    BY <2>4
  <2>9. \A i \in DOMAIN s : key[s[i]] = k => i = p
    BY <2>3, <2>4, <2>8, HashListAssumption DEF Unique
  <2>10. (CHOOSE i \in DOMAIN s : key[s[i]] = k) = p
    BY <2>3, <2>8, <2>9
  <2>11. t = [j \in 1 .. nodenum |-> CASE p > 1 /\ j = p - 1 -> s[p]
                                       [] p > 1 /\ j = p -> s[p - 1]
                                       [] OTHER -> s[j]]
    <3>1. CASE p = 1
      <4>1. ~(p > 1)
        BY <3>1
      <4>2. s = [j \in 1 .. nodenum |-> s[j]]
        BY <2>4
      <4> QED  BY <3>1, <4>1, <4>2
    <3>2. CASE p # 1
      <4>1. p > 1 /\ p - 1 # p
        BY <2>3, <2>4, <3>2
      <4>2. t = Swapped(p, s, nodenum)
        BY <3>2
      <4> QED  BY <4>1, <4>2 DEF Swapped
    <3> QED  BY <3>1, <3>2
  <2>12. Moved(p)
    BY <2>6, <2>7, <2>8, <2>11
  <2> HIDE DEF Moved
  <2> QED  BY <2>2, <2>6, <2>10, <2>12
<1>2. IInv /\ [Next]_vars => [Moves]_vars
  BY <1>1
<1>3. [Moves]_vars => [ret'.found /\ ret'.op \in {"find", "update", "set"} =>
       LET now  == Chain(list)
           then == Chain(list')
           i    == CHOOSE i \in DOMAIN now : key[now[i]] = ret'.key
       IN  then = [j \in DOMAIN now |->
                     CASE i > 1 /\ j = i - 1 -> now[i]
                       [] i > 1 /\ j = i -> now[i - 1]
                       [] OTHER -> now[j]]]_vars
  OBVIOUS
<1> HIDE DEF Moves
<1> QED  BY <1>2, <1>3, HashListInvariance, PTL DEF Spec, HitMovesUpByOne

-----------------------------------------------------------------------------
(* Part 6: the list implements the bucket.                                 *)

Stored(K) == {K[n] : n \in {n \in Node : K[n] # NULL}}

(* The keys of the bucket are, to the abstract specification, those that   *)
(* are met along the list.                                                 *)
Met(L, K) == LET nodes == Chain(L) IN {K[nodes[i]] : i \in DOMAIN nodes}

LEMMA MetStored ==
  ASSUME NEW L \in Pointers, NEW K, NEW m, Shape(L, K, m)
  PROVE  Met(L, K) = Stored(K)
<1>1. PICK s : Lists(L, s, m) /\ Holds(K, s, m)
  BY DEF Shape
<1>2. Chain(L) = s
  BY <1>1, ChainMeans
<1>3. s \in [1 .. m -> Node] /\ DOMAIN s = 1 .. m
  BY <1>1 DEF Lists
<1>4. Met(L, K) = {K[s[i]] : i \in 1 .. m}
  BY <1>2, <1>3 DEF Met
<1>5. {K[s[i]] : i \in 1 .. m} = Stored(K)
  BY <1>1, <1>3 DEF Holds, Stored
<1> QED  BY <1>4, <1>5

LEMMA MeetsStored == IInv => Met(list, key) = Stored(key)
<1> SUFFICES ASSUME IInv PROVE Met(list, key) = Stored(key)
  OBVIOUS
<1>1. list \in Pointers /\ Shape(list, key, nodenum)
  BY DEF IInv, Typed
<1> QED  BY <1>1, MetStored

(* One list, one key at each place: what visit shows.                      *)
LEMMA Shown ==
  ASSUME IInv, NEW seen, seen = [i \in DOMAIN Chain(list) |-> key[Chain(list)[i]]]
  PROVE  Len(seen) = Cardinality(Stored(key)) /\ {seen[i] : i \in DOMAIN seen} = Stored(key)
<1>1. PICK s : Lists(list, s, nodenum) /\ Holds(key, s, nodenum)
  BY DEF IInv, Shape
<1>2. /\ list \in Pointers /\ nodenum \in Nat /\ Unique
      /\ key \in [Node -> Key \cup {NULL}]
  BY DEF IInv, Typed
<1>3. Chain(list) = s
  BY <1>1, <1>2, ChainMeans
<1>4. /\ s \in [1 .. nodenum -> Node] /\ DOMAIN s = 1 .. nodenum
      /\ \A i, j \in 1 .. nodenum : s[i] = s[j] => i = j
  BY <1>1 DEF Lists
<1>5. \A i \in 1 .. nodenum : key[s[i]] # NULL /\ key[s[i]] \in Stored(key)
  BY <1>1, <1>4 DEF Holds, Stored
<1>6. \A k \in Stored(key) : \E i \in 1 .. nodenum : key[s[i]] = k
  BY <1>1 DEF Holds, Stored
<1>7. \A i, j \in 1 .. nodenum : key[s[i]] = key[s[j]] => i = j
  BY <1>2, <1>4, <1>5 DEF Unique
<1>8. /\ seen \in [1 .. nodenum -> Stored(key)] /\ DOMAIN seen = 1 .. nodenum
      /\ \A i \in 1 .. nodenum : seen[i] = key[s[i]]
  BY <1>3, <1>4, <1>5
<1>9. seen \in Bijection(1 .. nodenum, Stored(key))
  BY <1>6, <1>7, <1>8 DEF Bijection, Injection, Surjection, IsInjective
<1>10. Cardinality(Stored(key)) = nodenum
  BY <1>2, <1>9, FS_CountingElements DEF ExistsBijection
<1>11. Len(seen) = nodenum
  <2>1. seen \in Seq(Stored(key))
    BY <1>2, <1>8, SeqDef
  <2>2. DOMAIN seen = 1 .. Len(seen) /\ Len(seen) \in Nat
    BY <2>1, LenProperties
  <2> QED  BY <1>2, <1>8, <2>2
<1>12. {seen[i] : i \in DOMAIN seen} = Stored(key)
  BY <1>5, <1>6, <1>8
<1> QED  BY <1>10, <1>11, <1>12

(* Every step of the list is a step of the bucket: find, update, insert    *)
(* and set tell exactly whether the key is stored, a store adds its key,   *)
(* an erase takes one away, also when it evicts, and a visit shows every   *)
(* key once.                                                               *)
THEOREM ImplementsBucket == Spec => BucketSpec
<1>1. Init => AsBucket!Init
  <2> SUFFICES ASSUME Init PROVE AsBucket!Init
    OBVIOUS
  <2>1. Met(list, key) = {}
    <3>1. Met(list, key) = Stored(key)
      BY InitShape, MeetsStored
    <3>2. Stored(key) = {}
      BY DEF Init, Stored
    <3> QED  BY <3>1, <3>2
  <2> QED  BY <2>1 DEF Init, AsBucket!Init, Reply, AsBucket!Reply, Met
<1>2. IInv /\ IInv' /\ [Next]_vars => [AsBucket!Next]_<<Met(list, key), ret>>
  <2> SUFFICES ASSUME IInv, IInv', [Next]_vars
               PROVE  AsBucket!Next \/ UNCHANGED <<Met(list, key), ret>>
    OBVIOUS
  <2>1. Met(list, key) = Stored(key) /\ Met(list', key') = Stored(key')
    <3>1. Met(list', key') = Stored(key')
      BY MetStored DEF IInv, Typed
    <3> QED  BY <3>1, MeetsStored
  <2>2. \A k \in Key : k \in Stored(key) <=> ~Absent(k)
    BY HashListAssumption DEF Stored, Absent
  <2>3. Typed /\ Unique /\ Waits
    BY DEF IInv
  <2>4. ASSUME NEW k \in Key, NEW op \in {"find", "update", "insert", "set"}, Hit(op, k)
        PROVE  AsBucket!Next
    <3>1. k \in Stored(key)
      BY <2>2, <2>4, FoundKey DEF Hit
    <3>2. Stored(key') = Stored(key) /\ ret' = Reply(op, k, TRUE, <<>>)
      BY <2>4 DEF Hit
    <3>3. AsBucket!Lookup(op, k)
      <4>1. (k \in Met(list, key)) = TRUE
        BY <2>1, <3>1
      <4>2. ret' = Reply(op, k, k \in Met(list, key), <<>>)
        BY <3>2, <4>1, Zenon
      <4> QED  BY <2>1, <3>1, <3>2, <4>2 DEF AsBucket!Lookup, Reply, AsBucket!Reply, Met
    <3> QED  BY <3>3 DEF AsBucket!Next
  <2>5. ASSUME NEW k \in Key, NEW op \in {"find", "update", "insert", "set"}, Miss(op, k)
        PROVE  AsBucket!Next
    <3>1. k \notin Stored(key)
      BY <2>2, <2>5, FoundKey DEF Miss
    <3>2. /\ Stored(key') = Stored(key) /\ ret' = Reply(op, k, FALSE, <<>>)
          /\ op \in {"find", "update"}
      BY <2>5 DEF Miss
    <3>3. AsBucket!Lookup(op, k)
      <4>1. (k \in Met(list, key)) = FALSE
        BY <2>1, <3>1
      <4>2. ret' = Reply(op, k, k \in Met(list, key), <<>>)
        BY <3>2, <4>1, Zenon
      <4> QED  BY <2>1, <3>1, <3>2, <4>2 DEF AsBucket!Lookup, Reply, AsBucket!Reply, Met
    <3> QED  BY <3>3 DEF AsBucket!Next
  <2>6. ASSUME NEW k \in Key, NEW op \in {"insert", "set"}, NEW n \in Node,
               Absent(k), key[n] = NULL, Link(op, k, n)
        PROVE  AsBucket!Next
    <3>1. \A x \in Node : key'[x] = IF x = n THEN k ELSE key[x]
      BY <2>3, <2>6 DEF Link, Typed
    <3>2. Stored(key') = Stored(key) \cup {k}
      BY <2>6, <3>1, HashListAssumption DEF Stored
    <3>3. k \notin Stored(key) /\ ret' = Reply(op, k, FALSE, <<>>)
      BY <2>2, <2>6 DEF Link
    <3>4. AsBucket!Store(op, k)
      BY <2>1, <3>2, <3>3 DEF AsBucket!Store, Reply, AsBucket!Reply, Met
    <3> QED  BY <3>4 DEF AsBucket!Next
  <2>7. ASSUME NEW n \in Node, key[n] # NULL, Unlink(n)
        PROVE  AsBucket!Next
    <3>1. \A x \in Node : key'[x] = IF x = n THEN NULL ELSE key[x]
      BY <2>3, <2>7 DEF Unlink, Typed
    <3>2. key[n] \in Key /\ key[n] \in Stored(key)
      BY <2>3, <2>7 DEF Typed, Stored
    <3>3. Stored(key') = Stored(key) \ {key[n]}
      <4>1. \A x \in Node : x # n /\ key[x] # NULL => key[x] # key[n]
        BY <2>3 DEF Unique
      <4> QED  BY <2>7, <3>1, <4>1 DEF Stored
    <3>4. ret' = Reply("erase", key[n], TRUE, <<>>)
      BY <2>7 DEF Unlink
    <3>5. PICK k \in Key : k = key[n]
      BY <3>2
    <3>6. AsBucket!Erase(k)
      BY <2>1, <3>2, <3>3, <3>4, <3>5 DEF AsBucket!Erase, Reply, AsBucket!Reply, Met
    <3> QED  BY <3>6 DEF AsBucket!Next
  <2>8. ASSUME NEW k \in Key, NEW op \in {"insert", "set"}, StoreOther(op, k) \/ StoreEvicting(op, k)
        PROVE  AsBucket!Next
    <3>1. Absent(k)
      BY <2>8, FoundKey DEF StoreOther, StoreEvicting
    <3> QED  BY <2>6, <2>7, <2>8, <3>1 DEF StoreOther, StoreEvicting
  <2>9. ASSUME NEW k \in Key, StoreFailed(k)
        PROVE  AsBucket!Next
    <3>1. k \notin Stored(key)
      BY <2>2, <2>9, FoundKey DEF StoreFailed
    <3>2. Stored(key') = Stored(key) /\ ret' = Reply("fail", k, FALSE, <<>>)
      BY <2>9 DEF StoreFailed
    <3>3. AsBucket!Refuse(k)
      BY <2>1, <3>1, <3>2 DEF AsBucket!Refuse, Reply, AsBucket!Reply, Met
    <3> QED  BY <3>3 DEF AsBucket!Next
  <2>10. ASSUME Erase PROVE AsBucket!Next
    BY <2>7, <2>10 DEF Erase
  <2>11. ASSUME LinkPending PROVE AsBucket!Next
    <3>1. /\ pending.key \in Key /\ pending.op \in {"insert", "set"} /\ pending.node \in Node
          /\ Absent(pending.key) /\ key[pending.node] = NULL
          /\ Link(pending.op, pending.key, pending.node)
      BY <2>3, <2>11 DEF LinkPending, Waits
    <3> QED  BY <2>6, <3>1
  <2>12. ASSUME Visit PROVE AsBucket!Next
    <3> DEFINE nodes == Chain(list)
               seen  == [i \in DOMAIN nodes |-> key[nodes[i]]]
    <3>1. Len(seen) = Cardinality(Stored(key)) /\ {seen[i] : i \in DOMAIN seen} = Stored(key)
      BY Shown
    <3>2. ret' = Reply("visit", NULL, FALSE, seen) /\ key' = key
      BY <2>12 DEF Visit
    <3>3. AsBucket!Cardinality(Met(list, key)) = Cardinality(Met(list, key))
      BY DEF AsBucket!Cardinality, Cardinality
    <3> HIDE DEF seen
    <3>4. ret'.op = "visit" /\ ret'.key = NULL /\ ret'.found = FALSE /\ ret'.seen = seen
      BY <3>2 DEF Reply
    <3>5. AsBucket!Visit
      <4>1. Len(ret'.seen) = AsBucket!Cardinality(Met(list, key))
        BY <2>1, <3>1, <3>3, <3>4
      <4>2. {ret'.seen[i] : i \in DOMAIN ret'.seen} = Met(list, key)
        BY <2>1, <3>1, <3>4
      <4>3. Met(list', key') = Met(list, key)
        BY <2>1, <3>2
      <4> QED  BY <3>4, <4>1, <4>2, <4>3, Zenon DEF AsBucket!Visit, Met
    <3> QED  BY <3>5 DEF AsBucket!Next
  <2>13. ASSUME UNCHANGED vars PROVE UNCHANGED <<Met(list, key), ret>>
    BY <2>13 DEF vars, Met
  <2> QED  BY <2>4, <2>5, <2>8, <2>9, <2>10, <2>11, <2>12, <2>13 DEF Next
<1>3. AsBucket!Init /\ [][AsBucket!Next]_<<Met(list, key), ret>> => BucketSpec
  BY DEF BucketSpec, AsBucket!Spec, Met
<1> QED  BY <1>1, <1>2, <1>3, HashListInvariance, PTL DEF Spec
=============================================================================
