---------------------------- MODULE RBTreeProofs ----------------------------
(***************************************************************************)
(* Proofs about RBTree, for every number of nodes and every set of keys.   *)
(* Two functions on the nodes describe the tree: the set of the nodes      *)
(* below each, which tells what is a tree and in which order, and the      *)
(* number of black nodes on the ways down from each.                       *)
(***************************************************************************)
EXTENDS RBTree, FiniteSetTheorems, SequenceTheorems, WellFoundedInduction, TLAPS

-----------------------------------------------------------------------------
(* Part 1: the assignments through pointers.                               *)

Trees == [root : Node \cup {NULL}, kid : [Side -> [Node -> Node \cup {NULL}]],
          parent : [Node -> Node \cup {NULL}], color : [Node -> {"red", "black"}]]

LEMMA Sides ==
  ASSUME NEW d \in Side
  PROVE  /\ Other(d) \in Side /\ Other(d) # d /\ Other(Other(d)) = d
         /\ \A e \in Side : e = d \/ e = Other(d)
  BY DEF Side, Other

(* The assignments, field by field: M is T with the one assignment.        *)
ParentSet(T, M, n, p) ==
  /\ M \in Trees /\ M.root = T.root /\ M.kid = T.kid /\ M.color = T.color
  /\ \A x \in Node : M.parent[x] = IF x = n THEN p ELSE T.parent[x]

KidSet(T, M, n, d, k) ==
  /\ M \in Trees /\ M.root = T.root /\ M.parent = T.parent /\ M.color = T.color
  /\ \A e \in Side : \A x \in Node :
       M.kid[e][x] = IF x = n /\ e = d THEN k ELSE T.kid[e][x]

RootSet(T, M, x) ==
  M \in Trees /\ M.root = x /\ M.kid = T.kid /\ M.parent = T.parent /\ M.color = T.color

ColorSet(T, M, n, c) ==
  /\ M \in Trees /\ M.root = T.root /\ M.kid = T.kid /\ M.parent = T.parent
  /\ \A x \in Node : M.color[x] = IF x = n THEN c ELSE T.color[x]

LEMMA TreeFields ==
  ASSUME NEW T \in Trees
  PROVE  /\ T.root \in Node \cup {NULL}
         /\ \A d \in Side : \A x \in Node : T.kid[d][x] \in Node \cup {NULL}
         /\ \A x \in Node : T.parent[x] \in Node \cup {NULL}
         /\ \A x \in Node : T.color[x] \in {"red", "black"}
  BY DEF Trees

LEMMA SetParent ==
  ASSUME NEW T \in Trees, NEW n \in Node \cup {NULL}, NEW p \in Node \cup {NULL}
  PROVE  ParentSet(T, WithParent(T, n, p), n, p)
<1>1. CASE n = NULL
  BY <1>1, RBTreeAssumption DEF WithParent, ParentSet
<1>2. CASE n # NULL
  <2>1. /\ WithParent(T, n, p) \in Trees
        /\ WithParent(T, n, p).root = T.root /\ WithParent(T, n, p).kid = T.kid
        /\ WithParent(T, n, p).color = T.color
        /\ WithParent(T, n, p).parent = [T.parent EXCEPT ![n] = p]
    BY <1>2 DEF WithParent, Trees
  <2>2. DOMAIN T.parent = Node
    BY DEF Trees
  <2> QED  BY <2>1, <2>2 DEF ParentSet
<1> QED  BY <1>1, <1>2

LEMMA SetColor ==
  ASSUME NEW T \in Trees, NEW n \in Node \cup {NULL}, NEW c \in {"red", "black"}
  PROVE  ColorSet(T, Painted(T, n, c), n, c)
<1>1. CASE n = NULL
  BY <1>1, RBTreeAssumption DEF Painted, ColorSet
<1>2. CASE n # NULL
  <2>1. /\ Painted(T, n, c) \in Trees
        /\ Painted(T, n, c).root = T.root /\ Painted(T, n, c).kid = T.kid
        /\ Painted(T, n, c).parent = T.parent
        /\ Painted(T, n, c).color = [T.color EXCEPT ![n] = c]
    BY <1>2 DEF Painted, Trees
  <2>2. DOMAIN T.color = Node
    BY DEF Trees
  <2> QED  BY <2>1, <2>2 DEF ColorSet
<1> QED  BY <1>1, <1>2

LEMMA SetKid ==
  ASSUME NEW T \in Trees, NEW n \in Node, NEW d \in Side, NEW k \in Node \cup {NULL}
  PROVE  KidSet(T, WithKid(T, n, d, k), n, d, k)
<1> DEFINE M == WithKid(T, n, d, k)
<1>1. /\ T.kid \in [Side -> [Node -> Node \cup {NULL}]]
      /\ DOMAIN T.kid = Side /\ \A e \in Side : DOMAIN T.kid[e] = Node
  BY DEF Trees
<1> DEFINE K == [T.kid EXCEPT ![d][n] = k]
<1>2. /\ M.root = T.root /\ M.parent = T.parent /\ M.color = T.color
      /\ M.kid = K
      /\ M = [root |-> M.root, kid |-> M.kid, parent |-> M.parent, color |-> M.color]
  BY DEF WithKid, Trees
<1>3. K \in [Side -> [Node -> Node \cup {NULL}]]
  BY <1>1
<1>4. \A e \in Side : \A x \in Node : K[e][x] = IF x = n /\ e = d THEN k ELSE T.kid[e][x]
  BY <1>1
<1> HIDE DEF K, M
<1>5. /\ M \in Trees /\ M.root = T.root /\ M.parent = T.parent /\ M.color = T.color
      /\ M.kid = K
  <2>1. T.root \in Node \cup {NULL} /\ T.parent \in [Node -> Node \cup {NULL}]
        /\ T.color \in [Node -> {"red", "black"}]
    BY DEF Trees
  <2> QED  BY <1>2, <1>3, <2>1 DEF Trees
<1>6. KidSet(T, M, n, d, k)
  BY <1>4, <1>5 DEF KidSet
<1> QED  BY <1>6 DEF M

LEMMA SetRoot ==
  ASSUME NEW T \in Trees, NEW x \in Node \cup {NULL}
  PROVE  RootSet(T, [T EXCEPT !.root = x], x)
  BY DEF RootSet, Trees

LEMMA InTrees ==
  ASSUME NEW T, NEW M, NEW n, NEW d, NEW x,
         ParentSet(T, M, n, x) \/ KidSet(T, M, n, d, x) \/ RootSet(T, M, x) \/ ColorSet(T, M, n, x)
  PROVE  M \in Trees
  BY DEF ParentSet, KidSet, RootSet, ColorSet

(* Replaced assigns to the root or to a field of p.                        *)
LEMMA ReplacedFields ==
  ASSUME NEW T \in Trees, NEW p \in Node \cup {NULL}, NEW n, NEW x \in Node \cup {NULL}
  PROVE  LET M == Replaced(T, p, n, x)
             e == IF T.kid["left"][p] = n THEN "left" ELSE "right"
         IN  IF p = NULL THEN RootSet(T, M, x) ELSE KidSet(T, M, p, e, x)
<1>1. CASE p = NULL
  BY <1>1, SetRoot DEF Replaced
<1>2. CASE p # NULL
  <2> DEFINE e == IF T.kid["left"][p] = n THEN "left" ELSE "right"
  <2>1. e \in Side /\ p \in Node
    BY <1>2 DEF Side
  <2>2. Replaced(T, p, n, x) = WithKid(T, p, e, x)
    BY <1>2 DEF Replaced
  <2> HIDE DEF e
  <2>3. KidSet(T, WithKid(T, p, e, x), p, e, x)
    BY <2>1, SetKid
  <2> QED  BY <1>2, <2>2, <2>3 DEF e
<1> QED  BY <1>1, <1>2

(* n is the kid of p on one side, or the root.                             *)
HangsFrom(T, n, p) ==
  IF p = NULL THEN T.root = n
  ELSE p \in Node /\ \E e \in Side : T.kid[e][p] = n /\ T.kid[Other(e)][p] # n

(* What a rotation assigns: c, the kid of n, takes the place of n below p, *)
(* and m, the kid of c, that of c below n.                                 *)
RotatedTo(T, R, n, d, c, m, p) ==
  /\ R \in Trees /\ R.color = T.color
  /\ R.root = IF p = NULL THEN c ELSE T.root
  /\ \A x \in Node :
       R.parent[x] = IF x = n THEN c ELSE IF x = c THEN p ELSE IF x = m THEN n ELSE T.parent[x]
  /\ \A e \in Side : \A x \in Node :
       R.kid[e][x] = IF x = n /\ e = Other(d) THEN m
                     ELSE IF x = c /\ e = d THEN n
                     ELSE IF x = p /\ T.kid[e][x] = n THEN c ELSE T.kid[e][x]

LEMMA RotatedFields ==
  ASSUME NEW T \in Trees, NEW n \in Node, NEW d \in Side,
         NEW c \in Node, T.kid[Other(d)][n] = c, NEW m, T.kid[d][c] = m,
         NEW p, T.parent[n] = p, HangsFrom(T, n, p), n # c, m # n, p # n, p # c
  PROVE  RotatedTo(T, Rotated(T, n, d), n, d, c, m, p)
<1> DEFINE o == Other(d)
           T1 == WithKid(T, n, o, m)
           T2 == WithParent(T1, m, n)
           T3 == WithKid(T2, c, d, n)
           T4 == WithParent(T3, c, p)
           T5 == Replaced(T4, p, n, c)
           R  == WithParent(T5, n, c)
<1>1. /\ o \in Side /\ o # d /\ m \in Node \cup {NULL} /\ p \in Node \cup {NULL}
      /\ NULL \notin Node
  BY Sides, TreeFields, RBTreeAssumption
<1> HIDE DEF o
<1>2. KidSet(T, T1, n, o, m)
  BY <1>1, SetKid
<1>3. T1 \in Trees
  BY <1>2, InTrees
<1> HIDE DEF T1
<1>4. ParentSet(T1, T2, m, n)
  BY <1>1, <1>3, SetParent
<1>5. T2 \in Trees
  BY <1>4, InTrees
<1> HIDE DEF T2
<1>6. KidSet(T2, T3, c, d, n)
  BY <1>1, <1>5, SetKid
<1>7. T3 \in Trees
  BY <1>6, InTrees
<1> HIDE DEF T3
<1>8. T3.parent[n] = p
  BY <1>2, <1>4, <1>6 DEF KidSet, ParentSet
<1>9. ParentSet(T3, T4, c, p)
  BY <1>1, <1>7, SetParent
<1>10. T4 \in Trees
  BY <1>9, InTrees
<1> HIDE DEF T4
<1> DEFINE s == IF T4.kid["left"][p] = n THEN "left" ELSE "right"
<1>11. IF p = NULL THEN RootSet(T4, T5, c) ELSE KidSet(T4, T5, p, s, c)
  BY <1>1, <1>10, ReplacedFields
<1>12. T5 \in Trees
  BY <1>11, InTrees
<1> HIDE DEF T5
<1>13. ParentSet(T5, R, n, c)
  BY <1>1, <1>12, SetParent
<1>14. Rotated(T, n, d) = R
  BY <1>8 DEF Rotated, T1, T2, T3, T4, T5, o
<1> HIDE DEF R
<1>15. /\ T4.root = T.root /\ T4.color = T.color
       /\ \A x \in Node : T4.parent[x] = IF x = c THEN p ELSE IF x = m THEN n ELSE T.parent[x]
       /\ \A e \in Side : \A x \in Node :
            T4.kid[e][x] = IF x = n /\ e = o THEN m ELSE IF x = c /\ e = d THEN n ELSE T.kid[e][x]
  BY <1>2, <1>4, <1>6, <1>9 DEF KidSet, ParentSet
<1>16. p # NULL => \A e \in Side : T.kid[e][p] = n <=> e = s
  <2> SUFFICES ASSUME p # NULL, NEW e \in Side PROVE T.kid[e][p] = n <=> e = s
    OBVIOUS
  <2>1. PICK a \in Side : T.kid[a][p] = n /\ T.kid[Other(a)][p] # n
    BY DEF HangsFrom
  <2>2. p \in Node /\ "left" \in Side
    BY <1>1 DEF Side
  <2>3. T4.kid["left"][p] = T.kid["left"][p]
    BY <1>15, <2>2
  <2> QED  BY <2>1, <2>3 DEF Side, Other
<1> HIDE DEF s
<1>17. R \in Trees /\ R.color = T.color /\ R.root = IF p = NULL THEN c ELSE T.root
  BY <1>11, <1>13, <1>15 DEF ParentSet, RootSet, KidSet
<1>18. \A x \in Node :
         R.parent[x] = IF x = n THEN c ELSE IF x = c THEN p ELSE IF x = m THEN n ELSE T.parent[x]
  BY <1>11, <1>13, <1>15 DEF ParentSet, RootSet, KidSet
<1>19. \A e \in Side : \A x \in Node :
         R.kid[e][x] = IF x = n /\ e = o THEN m
                       ELSE IF x = c /\ e = d THEN n
                       ELSE IF x = p /\ T.kid[e][x] = n THEN c ELSE T.kid[e][x]
  <2> SUFFICES ASSUME NEW e \in Side, NEW x \in Node
               PROVE  R.kid[e][x] = IF x = n /\ e = o THEN m
                                    ELSE IF x = c /\ e = d THEN n
                                    ELSE IF x = p /\ T.kid[e][x] = n THEN c ELSE T.kid[e][x]
    OBVIOUS
  <2>1. R.kid[e][x] = T5.kid[e][x]
    BY <1>13 DEF ParentSet
  <2>2. CASE p = NULL
    <3>1. T5.kid[e][x] = T4.kid[e][x]
      BY <1>11, <2>2 DEF RootSet
    <3> QED  BY <1>1, <1>15, <2>1, <2>2, <3>1
  <2>3. CASE p # NULL
    <3>1. T5.kid[e][x] = IF x = p /\ e = s THEN c ELSE T4.kid[e][x]
      BY <1>11, <2>3 DEF KidSet
    <3> QED  BY <1>15, <1>16, <2>1, <2>3, <3>1
  <2> QED  BY <2>2, <2>3
<1>20. RotatedTo(T, R, n, d, c, m, p)
  BY <1>17, <1>18, <1>19 DEF RotatedTo, o
<1> QED  BY <1>14, <1>20

-----------------------------------------------------------------------------
(* Part 2: what is a tree.                                                 *)

Below(sub, x) == IF x = NULL THEN {} ELSE sub[x]

Before(d, a, b) == IF d = "left" THEN a < b ELSE a > b

(* P are the nodes of the tree T, and sub[n] those from n down.            *)
Hung(T, P, sub) ==
  IF P = {} THEN T.root = NULL
  ELSE T.root \in P /\ T.parent[T.root] = NULL /\ sub[T.root] = P

Grown(T, P, sub) ==
  \A n \in P : sub[n] = {n} \cup Below(sub, T.kid["left"][n]) \cup Below(sub, T.kid["right"][n])

KidsIn(T, P) == \A n \in Node : \A d \in Side : T.kid[d][n] \in P \cup {NULL}

KidsLead(T, P) ==
  \A n \in P : \A d \in Side : T.kid[d][n] # NULL => T.parent[T.kid[d][n]] = n

ParentsLead(T, P) ==
  \A n \in P : n # T.root => T.parent[n] \in P /\ \E d \in Side : T.kid[d][T.parent[n]] = n

(* The keys K are in order.                                                *)
Keyed(P, K) ==
  (\A n \in P : K[n] \in Int) /\ (\A m, n \in P : K[m] = K[n] => m = n)

Sorted(T, P, K, sub) ==
  \A n \in P : \A d \in Side : \A x \in Below(sub, T.kid[d][n]) : Before(d, K[x], K[n])

Sets(T, P, sub) ==
  /\ T \in Trees /\ P \subseteq Node /\ IsFiniteSet(P)
  /\ sub \in [Node -> SUBSET Node] /\ \A n \in P : sub[n] \subseteq P

SearchTree(T, P, K, sub) ==
  /\ Sets(T, P, sub) /\ Hung(T, P, sub) /\ Grown(T, P, sub)
  /\ KidsIn(T, P) /\ KidsLead(T, P) /\ ParentsLead(T, P)
  /\ Keyed(P, K) /\ Sorted(T, P, K, sub)

LEMMA BeforeFacts ==
  ASSUME NEW d \in Side, NEW a \in Int, NEW b \in Int, NEW c \in Int
  PROVE  /\ ~ Before(d, a, a)
         /\ Before(d, a, b) <=> Before(Other(d), b, a)
         /\ Before(d, a, b) => ~ Before(Other(d), a, b)
         /\ Before(d, a, b) /\ Before(d, b, c) => Before(d, a, c)
         /\ a # b => Before(d, a, b) \/ Before(Other(d), a, b)
  BY DEF Before, Side, Other

(* Around one node: its kids and what is below them.                       *)
Around(T, P, K, sub, n, d) ==
  /\ T.kid[d][n] \in P \cup {NULL}
  /\ n \notin Below(sub, T.kid[d][n])
  /\ sub[n] = {n} \cup Below(sub, T.kid[d][n]) \cup Below(sub, T.kid[Other(d)][n])
  /\ \A x \in Below(sub, T.kid[d][n]) : x \notin Below(sub, T.kid[Other(d)][n])
  /\ T.kid[d][n] # NULL =>
       /\ T.kid[d][n] \in Below(sub, T.kid[d][n])
       /\ T.kid[d][n] # n /\ T.kid[d][n] # T.kid[Other(d)][n]
       /\ T.parent[T.kid[d][n]] = n /\ T.kid[d][n] # T.root

(* Nothing is below itself: a set of nodes in which everybody has a kid is *)
(* empty.  Facts about all of a tree are proved by it.                     *)
LEMMA TreeInduct ==
  ASSUME NEW T, NEW P, NEW sub, Sets(T, P, sub), Grown(T, P, sub), KidsIn(T, P),
         \A n \in P : \A d \in Side : n \notin Below(sub, T.kid[d][n]),
         NEW B \in SUBSET P, \A n \in B : \E d \in Side : T.kid[d][n] \in B
  PROVE  B = {}
<1> SUFFICES ASSUME B # {} PROVE FALSE
  OBVIOUS
<1> DEFINE R == StrictSubsetOrdering(P)
           C == {sub[n] : n \in B}
<1>1. IsWellFoundedOn(R, FiniteSubsetsOf(P))
  BY FS_StrictSubsetOrderingWellFounded
<1>2. C \subseteq FiniteSubsetsOf(P)
  <2>1. ASSUME NEW n \in B PROVE sub[n] \in FiniteSubsetsOf(P)
    <3>1. sub[n] \in SUBSET P /\ IsFiniteSet(P)
      BY DEF Sets
    <3> QED  BY <3>1, FS_Subset DEF FiniteSubsetsOf
  <2> QED  BY <2>1
<1>3. PICK c \in C : TRUE
  OBVIOUS
<1>4. \A a, b : a \subseteq P /\ b \subseteq P /\ a \subseteq b /\ a # b => <<a, b>> \in R
  BY DEF StrictSubsetOrdering
<1> HIDE DEF R, C
<1>5. PICK y \in C : \A z \in C : ~ (<<z, y>> \in R)
  BY <1>1, <1>2, <1>3, WFMin, Zenon
<1>6. PICK n \in B : y = sub[n]
  BY <1>5 DEF C
<1>7. PICK d \in Side : T.kid[d][n] \in B
  OBVIOUS
<1> DEFINE k == T.kid[d][n]
<1>8. k # NULL /\ k \in P /\ n \in P
  BY <1>7, RBTreeAssumption DEF Sets
<1>9. Below(sub, k) = sub[k]
  BY <1>8 DEF Below
<1>10. sub[k] \subseteq sub[n] /\ n \notin sub[k] /\ n \in sub[n]
  BY <1>8, <1>9 DEF Grown, Side
<1>11. <<sub[k], sub[n]>> \in R
  <2>1. sub[k] \subseteq P /\ sub[n] \subseteq P
    BY <1>8 DEF Sets
  <2> QED  BY <1>4, <1>10, <2>1
<1>12. sub[k] \in C
  BY <1>7 DEF C
<1> QED  BY <1>5, <1>6, <1>11, <1>12

LEMMA NodeAround ==
  ASSUME NEW T, NEW P, NEW K, NEW sub, SearchTree(T, P, K, sub), NEW n \in P, NEW d \in Side
  PROVE  Around(T, P, K, sub, n, d)
<1> DEFINE o == Other(d)
           k == T.kid[d][n]
           j == T.kid[o][n]
<1>1. o \in Side /\ o # d /\ P \subseteq Node /\ NULL \notin Node /\ n \in Node
  BY Sides, RBTreeAssumption DEF SearchTree, Sets
<1>2. k \in P \cup {NULL} /\ j \in P \cup {NULL}
  BY <1>1 DEF SearchTree, KidsIn
<1>3. sub[n] = {n} \cup Below(sub, k) \cup Below(sub, j) /\ sub[n] \subseteq P
  BY <1>1 DEF SearchTree, Grown, Sets, Side, Other
<1>4. /\ \A x \in Below(sub, k) : Before(d, K[x], K[n])
      /\ \A x \in Below(sub, j) : Before(o, K[x], K[n])
  BY <1>1 DEF SearchTree, Sorted
<1>5. \A x \in P : K[x] \in Int
  BY DEF SearchTree, Keyed
<1>6. n \notin Below(sub, k)
  BY <1>3, <1>4, <1>5, BeforeFacts
<1>7. \A x \in Below(sub, k) : x \notin Below(sub, j)
  <2> SUFFICES ASSUME NEW x \in Below(sub, k), x \in Below(sub, j) PROVE FALSE
    OBVIOUS
  <2>1. Before(d, K[x], K[n]) /\ Before(o, K[x], K[n])
    BY <1>4
  <2>2. K[x] \in Int /\ K[n] \in Int
    BY <1>3, <1>5
  <2> QED  BY <2>1, <2>2, BeforeFacts
<1>8. ASSUME k # NULL
      PROVE  k \in Below(sub, k) /\ T.parent[k] = n /\ k # T.root
  <2>1. k \in sub[k]
    BY <1>2, <1>8 DEF SearchTree, Grown
  <2>2. T.parent[k] = n
    BY <1>8 DEF SearchTree, KidsLead
  <2>3. T.parent[T.root] = NULL
    BY DEF SearchTree, Hung
  <2> QED  BY <1>1, <1>8, <2>1, <2>2, <2>3 DEF Below
<1>9. k # NULL => k # n /\ k # j
  <2>1. j # NULL => j \in sub[j]
    BY <1>2 DEF SearchTree, Grown
  <2> QED  BY <1>6, <1>7, <1>8, <2>1 DEF Below
<1> QED  BY <1>2, <1>3, <1>6, <1>7, <1>8, <1>9 DEF Around

LEMMA Induct ==
  ASSUME NEW T, NEW P, NEW K, NEW sub, SearchTree(T, P, K, sub),
         NEW B \in SUBSET P, \A n \in B : \E d \in Side : T.kid[d][n] \in B
  PROVE  B = {}
<1>1. \A n \in P : \A d \in Side : n \notin Below(sub, T.kid[d][n])
  BY NodeAround DEF Around
<1>2. Sets(T, P, sub) /\ Grown(T, P, sub) /\ KidsIn(T, P)
  BY DEF SearchTree
<1> QED  BY <1>1, <1>2, TreeInduct

(* Below a node is what is below a node below it.                          *)
LEMMA BelowBelow ==
  ASSUME NEW T, NEW P, NEW K, NEW sub, SearchTree(T, P, K, sub), NEW y \in P
  PROVE  \A x \in P : y \in sub[x] => sub[y] \subseteq sub[x]
<1> DEFINE B == {x \in P : y \in sub[x] /\ ~ (sub[y] \subseteq sub[x])}
<1>1. ASSUME NEW x \in B PROVE \E d \in Side : T.kid[d][x] \in B
  <2>1. \A d \in Side : Around(T, P, K, sub, x, d)
    BY NodeAround
  <2>2. PICK d \in Side : y \in Below(sub, T.kid[d][x])
    <3>1. y # x /\ y \in sub[x]
      OBVIOUS
    <3>2. sub[x] = {x} \cup Below(sub, T.kid["left"][x]) \cup Below(sub, T.kid["right"][x])
      BY DEF SearchTree, Grown
    <3> QED  BY <3>1, <3>2 DEF Side
  <2>3. T.kid[d][x] \in P /\ Below(sub, T.kid[d][x]) = sub[T.kid[d][x]]
    BY <2>1, <2>2 DEF Below, Around
  <2>4. sub[T.kid[d][x]] \subseteq sub[x]
    BY <2>1, <2>3 DEF Around
  <2> QED  BY <2>2, <2>3, <2>4
<1>2. B = {}
  <2> HIDE DEF B
  <2>1. B \in SUBSET P
    BY DEF B
  <2> QED  BY <1>1, <2>1, Induct
<1> QED  BY <1>2

LEMMA OneAbove ==
  ASSUME NEW T, NEW P, NEW K, NEW sub, SearchTree(T, P, K, sub),
         NEW x \in P, NEW y \in P, y \in sub[x], x \in sub[y]
  PROVE  x = y
<1> SUFFICES ASSUME x # y PROVE FALSE
  OBVIOUS
<1>1. PICK d \in Side : y \in Below(sub, T.kid[d][x])
  BY DEF SearchTree, Grown, Side
<1>2. Around(T, P, K, sub, x, d)
  BY NodeAround
<1> DEFINE k == T.kid[d][x]
<1>3. k \in P /\ Below(sub, k) = sub[k] /\ x \notin sub[k]
  BY <1>1, <1>2 DEF Below, Around
<1>4. sub[y] \subseteq sub[k]
  BY <1>1, <1>3, BelowBelow
<1> QED  BY <1>3, <1>4

(* The parent of a node below x, except x, is below x.                     *)
LEMMA ParentBelow ==
  ASSUME NEW T, NEW P, NEW K, NEW sub, SearchTree(T, P, K, sub), NEW y \in P
  PROVE  \A x \in P : y \in sub[x] /\ y # x => T.parent[y] \in sub[x]
<1> DEFINE B == {x \in P : y \in sub[x] /\ y # x /\ T.parent[y] \notin sub[x]}
<1>1. ASSUME NEW x \in B PROVE \E d \in Side : T.kid[d][x] \in B
  <2>1. \A d \in Side : Around(T, P, K, sub, x, d)
    BY NodeAround
  <2>2. PICK d \in Side : y \in Below(sub, T.kid[d][x])
    <3>1. y # x /\ y \in sub[x]
      OBVIOUS
    <3>2. sub[x] = {x} \cup Below(sub, T.kid["left"][x]) \cup Below(sub, T.kid["right"][x])
      BY DEF SearchTree, Grown
    <3> QED  BY <3>1, <3>2 DEF Side
  <2>3. T.kid[d][x] \in P /\ Below(sub, T.kid[d][x]) = sub[T.kid[d][x]]
    BY <2>1, <2>2 DEF Below, Around
  <2>4. sub[T.kid[d][x]] \subseteq sub[x] /\ x \in sub[x] /\ T.parent[T.kid[d][x]] = x
    BY <2>1, <2>3, RBTreeAssumption DEF Around, SearchTree, Sets
  <2>5. T.kid[d][x] # y
    BY <2>4
  <2> QED  BY <2>2, <2>3, <2>4, <2>5
<1>2. B = {}
  <2> HIDE DEF B
  <2>1. B \in SUBSET P
    BY DEF B
  <2> QED  BY <1>1, <2>1, Induct
<1> QED  BY <1>2

(* A node hangs from its parent.                                           *)
LEMMA Hangs ==
  ASSUME NEW T, NEW P, NEW K, NEW sub, SearchTree(T, P, K, sub), NEW n \in P
  PROVE  /\ T.parent[n] \in P \cup {NULL} /\ HangsFrom(T, n, T.parent[n])
         /\ T.parent[n] = NULL <=> n = T.root
         /\ T.parent[n] # n
         /\ \A d \in Side : T.kid[d][n] # NULL => T.kid[d][n] # T.parent[n]
<1>1. P \subseteq Node /\ NULL \notin Node /\ T.parent[T.root] = NULL
  BY RBTreeAssumption DEF SearchTree, Sets, Hung
<1>2. n # T.root => T.parent[n] \in P /\ \E d \in Side : T.kid[d][T.parent[n]] = n
  BY DEF SearchTree, ParentsLead
<1>3. ASSUME n # T.root PROVE HangsFrom(T, n, T.parent[n]) /\ T.parent[n] # n
  <2> DEFINE p == T.parent[n]
  <2>1. PICK e \in Side : T.kid[e][p] = n
    BY <1>2, <1>3
  <2>2. p \in P
    BY <1>2, <1>3
  <2>3. Around(T, P, K, sub, p, e)
    BY <2>2, NodeAround
  <2>4. T.kid[Other(e)][p] # n /\ p # n /\ p # NULL /\ p \in Node
    BY <1>1, <2>1, <2>2, <2>3 DEF Around
  <2> QED  BY <2>1, <2>4 DEF HangsFrom
<1>4. n = T.root => HangsFrom(T, n, T.parent[n]) /\ T.parent[n] # n
  BY <1>1 DEF HangsFrom
<1>5. ASSUME NEW d \in Side, T.kid[d][n] # NULL, T.kid[d][n] = T.parent[n] PROVE FALSE
  <2> DEFINE k == T.kid[d][n]
  <2>1. Around(T, P, K, sub, n, d) /\ k \in P
    BY <1>5, NodeAround DEF Around
  <2>2. n # T.root
    BY <1>1, <1>5
  <2>3. PICK e \in Side : T.kid[e][k] = n
    BY <1>2, <1>5, <2>2
  <2>4. Around(T, P, K, sub, k, e)
    BY <2>1, NodeAround
  <2>5. n \in sub[k] /\ k \in sub[n]
    BY <1>1, <1>5, <2>1, <2>3, <2>4 DEF Around, Below
  <2>6. n = k
    BY <2>1, <2>5, OneAbove
  <2> QED  BY <1>5, <2>1, <2>6 DEF Around
<1> QED  BY <1>1, <1>2, <1>3, <1>4, <1>5

(* Colors are no part of the order.                                        *)
LEMMA PaintKeeps ==
  ASSUME NEW T, NEW M, NEW P, NEW K, NEW sub, SearchTree(T, P, K, sub), M \in Trees,
         M.root = T.root, M.kid = T.kid, M.parent = T.parent
  PROVE  SearchTree(M, P, K, sub)
  BY DEF SearchTree, Sets, Hung, Grown, KidsIn, KidsLead, ParentsLead, Sorted

(* A rotation keeps the tree and its order.                                *)
LEMMA RotationKeeps ==
  ASSUME NEW T, NEW P, NEW K, NEW sub, SearchTree(T, P, K, sub),
         NEW n \in P, NEW d \in Side, NEW c, T.kid[Other(d)][n] = c, c # NULL,
         NEW m, T.kid[d][c] = m, NEW p, T.parent[n] = p
  PROVE  /\ RotatedTo(T, Rotated(T, n, d), n, d, c, m, p)
         /\ \E sub2 : SearchTree(Rotated(T, n, d), P, K, sub2)
<1> DEFINE o == Other(d)
           R == Rotated(T, n, d)
           q == T.kid[d][n]
           r == T.kid[o][c]
           sub2 == [sub EXCEPT ![c] = sub[n],
                               ![n] = {n} \cup Below(sub, q) \cup Below(sub, m)]
<1>1. /\ o \in Side /\ o # d /\ Other(o) = d /\ P \subseteq Node /\ NULL \notin Node
      /\ T \in Trees /\ \A e \in Side : e = d \/ e = o
  BY Sides, RBTreeAssumption DEF SearchTree, Sets
<1>2. /\ Around(T, P, K, sub, n, d) /\ Around(T, P, K, sub, n, o)
  BY <1>1, NodeAround
<1>3. c \in P /\ c # n /\ c # q /\ T.parent[c] = n /\ c \in sub[c] /\ Below(sub, c) = sub[c]
  BY <1>1, <1>2 DEF Around, Below
<1>4. Around(T, P, K, sub, c, d) /\ Around(T, P, K, sub, c, o)
  BY <1>1, <1>3, NodeAround
<1>5. /\ p \in P \cup {NULL} /\ HangsFrom(T, n, p) /\ (p = NULL <=> n = T.root)
      /\ p # n /\ p # c
  BY <1>1, <1>3, Hangs
<1>6. m # n /\ m # c /\ (m = q => m = NULL) /\ r # n /\ r # c /\ q # n
  <2>1. n \notin sub[c]
    BY <1>1, <1>2, <1>3 DEF Around
  <2>2. m # NULL => m \in sub[c] /\ T.parent[m] = c
    BY <1>4 DEF Around
  <2>3. r # NULL => r \in sub[c]
    BY <1>1, <1>4 DEF Around
  <2>4. q # NULL => T.parent[q] = n
    BY <1>1, <1>2 DEF Around
  <2> QED  BY <1>1, <1>2, <1>3, <1>4, <2>1, <2>2, <2>3, <2>4 DEF Around
<1>7. RotatedTo(T, R, n, d, c, m, p)
  BY <1>1, <1>3, <1>5, <1>6, RotatedFields
<1> HIDE DEF R
<1>8. /\ R \in Trees
      /\ R.root = IF p = NULL THEN c ELSE T.root
      /\ \A x \in Node :
           R.parent[x] = IF x = n THEN c ELSE IF x = c THEN p ELSE IF x = m THEN n ELSE T.parent[x]
      /\ \A e \in Side : \A x \in Node :
           R.kid[e][x] = IF x = n /\ e = o THEN m
                         ELSE IF x = c /\ e = d THEN n
                         ELSE IF x = p /\ T.kid[e][x] = n THEN c ELSE T.kid[e][x]
  BY <1>7 DEF RotatedTo
<1>9. /\ R.kid[o][n] = m /\ R.kid[d][n] = q
      /\ R.kid[d][c] = n /\ R.kid[o][c] = r
  BY <1>1, <1>3, <1>5, <1>6, <1>8
<1>10. \A x \in P \ {n, c} : \A e \in Side :
         R.kid[e][x] = IF T.kid[e][x] = n THEN c ELSE T.kid[e][x]
  <2> SUFFICES ASSUME NEW x \in P \ {n, c}, NEW e \in Side
               PROVE  R.kid[e][x] = IF T.kid[e][x] = n THEN c ELSE T.kid[e][x]
    OBVIOUS
  <2>1. T.kid[e][x] = n => x = p
    BY <1>1, <1>3, <1>5 DEF SearchTree, KidsLead
  <2> QED  BY <1>1, <1>8, <2>1
<1>11. \A x \in Node \ P : \A e \in Side : R.kid[e][x] = T.kid[e][x]
  BY <1>1, <1>3, <1>5, <1>8
<1>12. /\ sub2 \in [Node -> SUBSET Node] /\ sub2[c] = sub[n]
       /\ sub2[n] = {n} \cup Below(sub, q) \cup Below(sub, m)
       /\ \A x \in Node \ {n, c} : sub2[x] = sub[x]
  <2>1. sub \in [Node -> SUBSET Node] /\ c \in Node /\ n \in Node
    BY <1>1, <1>3 DEF SearchTree, Sets
  <2>2. Below(sub, q) \subseteq Node /\ Below(sub, m) \subseteq Node
    BY <1>1, <1>2, <1>4, <2>1 DEF Around, Below
  <2> QED  BY <1>3, <2>1, <2>2
<1> HIDE DEF sub2
<1>13. /\ Below(sub2, c) = sub[n] /\ Below(sub2, n) = {n} \cup Below(sub, q) \cup Below(sub, m)
       /\ Below(sub2, q) = Below(sub, q) /\ Below(sub2, m) = Below(sub, m)
       /\ Below(sub2, r) = Below(sub, r)
  <2>1. /\ q \in Node \cup {NULL} /\ m \in Node \cup {NULL} /\ r \in Node \cup {NULL}
        /\ c \in Node /\ n \in Node
    BY <1>1, <1>2, <1>3, <1>4 DEF Around
  <2> QED  BY <1>1, <1>3, <1>6, <1>12, <2>1 DEF Below
<1>14. \A x \in P \ {n, c} : \A e \in Side :
         Below(sub2, R.kid[e][x]) = Below(sub, T.kid[e][x])
  <2> SUFFICES ASSUME NEW x \in P \ {n, c}, NEW e \in Side
               PROVE  Below(sub2, R.kid[e][x]) = Below(sub, T.kid[e][x])
    OBVIOUS
  <2>1. CASE T.kid[e][x] = n
    BY <1>1, <1>10, <1>13, <2>1 DEF Below
  <2>2. CASE T.kid[e][x] # n
    <3>1. R.kid[e][x] = T.kid[e][x]
      BY <1>10, <2>2
    <3>2. T.kid[e][x] # c /\ T.kid[e][x] \in P \cup {NULL}
      BY <1>1, <1>3 DEF SearchTree, KidsLead, KidsIn
    <3> QED  BY <1>1, <1>12, <2>2, <3>1, <3>2 DEF Below
  <2> QED  BY <2>1, <2>2
<1>15. /\ sub[n] = {n} \cup Below(sub, q) \cup sub[c]
       /\ sub[c] = {c} \cup Below(sub, m) \cup Below(sub, r)
       /\ sub[n] \subseteq P
  <2>1. sub[n] \subseteq P
    BY DEF SearchTree, Sets
  <2> QED  BY <1>1, <1>2, <1>3, <1>4, <2>1 DEF Around
<1>16. Sets(R, P, sub2)
  <2>1. \A x \in P : sub2[x] \subseteq P
    <3>1. \A x \in P : sub[x] \subseteq P
      BY DEF SearchTree, Sets
    <3> QED  BY <1>1, <1>12, <1>15, <3>1
  <2> QED  BY <1>8, <1>12, <2>1 DEF SearchTree, Sets
<1>17. Hung(R, P, sub2)
  <2>1. T.root \in P /\ T.parent[T.root] = NULL /\ sub[T.root] = P
    BY DEF SearchTree, Hung
  <2>2. CASE p = NULL
    BY <1>1, <1>3, <1>5, <1>8, <1>12, <2>1, <2>2 DEF Hung
  <2>3. CASE p # NULL
    <3>1. T.root # n /\ T.root # c /\ T.root # m
      BY <1>1, <1>3, <1>4, <1>5, <2>1, <2>3 DEF Around
    <3> QED  BY <1>1, <1>8, <1>12, <2>1, <2>3, <3>1 DEF Hung
  <2> QED  BY <2>2, <2>3
<1>18. Grown(R, P, sub2)
  <2> SUFFICES ASSUME NEW x \in P
               PROVE  sub2[x] = {x} \cup Below(sub2, R.kid["left"][x])
                                    \cup Below(sub2, R.kid["right"][x])
    BY DEF Grown
  <2>1. CASE x = n
    <3>1. sub2[n] = {n} \cup Below(sub2, R.kid[d][n]) \cup Below(sub2, R.kid[o][n])
      BY <1>9, <1>12, <1>13
    <3> QED  BY <1>1, <2>1, <3>1 DEF Side
  <2>2. CASE x = c
    <3>1. sub2[c] = {c} \cup Below(sub2, R.kid[d][c]) \cup Below(sub2, R.kid[o][c])
      BY <1>9, <1>12, <1>13, <1>15
    <3> QED  BY <1>1, <2>2, <3>1 DEF Side
  <2>3. CASE x \notin {n, c}
    <3>1. sub[x] = {x} \cup Below(sub, T.kid["left"][x]) \cup Below(sub, T.kid["right"][x])
      BY DEF SearchTree, Grown
    <3> QED  BY <1>1, <1>12, <1>14, <2>3, <3>1 DEF Side
  <2> QED  BY <2>1, <2>2, <2>3
<1>19. KidsIn(R, P)
  <2> SUFFICES ASSUME NEW x \in Node, NEW e \in Side PROVE R.kid[e][x] \in P \cup {NULL}
    BY DEF KidsIn
  <2>1. T.kid[e][x] \in P \cup {NULL} /\ m \in P \cup {NULL}
    BY <1>1, <1>3 DEF SearchTree, KidsIn
  <2> QED  BY <1>3, <1>8, <2>1
<1>20. KidsLead(R, P)
  <2> SUFFICES ASSUME NEW x \in P, NEW e \in Side, R.kid[e][x] # NULL
               PROVE  R.parent[R.kid[e][x]] = x
    BY DEF KidsLead
  <2>1. /\ q \in Node \cup {NULL} /\ m \in Node \cup {NULL} /\ r \in Node \cup {NULL}
        /\ c \in Node /\ n \in Node
    BY <1>1, <1>2, <1>3, <1>4 DEF Around
  <2>2. /\ m # NULL => T.parent[m] = c /\ m # r
        /\ q # NULL => T.parent[q] = n
        /\ r # NULL => T.parent[r] = c
    BY <1>1, <1>2, <1>4 DEF Around
  <2>3. CASE x = n
    <3>1. CASE e = o
      BY <1>1, <1>6, <1>8, <1>9, <2>1, <2>3, <3>1
    <3>2. CASE e = d
      <4>1. R.kid[e][x] = q /\ q # NULL
        BY <1>9, <2>3, <3>2
      <4>2. q \in Node /\ q # n /\ q # c /\ q # m /\ T.parent[q] = n
        BY <1>3, <1>6, <2>1, <2>2, <4>1
      <4> QED  BY <1>8, <2>3, <4>1, <4>2
    <3> QED  BY <1>1, <3>1, <3>2
  <2>4. CASE x = c
    <3>1. (e = o => R.kid[e][x] = r) /\ (e = d => R.kid[e][x] = n)
      BY <1>9, <2>4
    <3> QED  BY <1>1, <1>6, <1>8, <2>1, <2>2, <2>4, <3>1
  <2>5. CASE x \notin {n, c}
    <3>1. CASE T.kid[e][x] = n
      <4>1. R.kid[e][x] = c /\ R.parent[c] = p
        BY <1>3, <1>8, <1>10, <2>1, <2>5, <3>1
      <4>2. T.parent[n] = x
        BY <1>1, <3>1 DEF SearchTree, KidsLead
      <4> QED  BY <4>1, <4>2
    <3>2. CASE T.kid[e][x] # n
      <4> DEFINE k == T.kid[e][x]
      <4>1. R.kid[e][x] = k /\ T.parent[k] = x /\ k \in P
        BY <1>1, <1>10, <2>5, <3>2 DEF SearchTree, KidsLead, KidsIn
      <4>2. k # n /\ k # c /\ k # m
        BY <1>1, <1>3, <2>2, <2>5, <3>2, <4>1
      <4> QED  BY <1>1, <1>8, <4>1, <4>2
    <3> QED  BY <3>1, <3>2
  <2> QED  BY <2>3, <2>4, <2>5
<1>21. ParentsLead(R, P)
  <2> SUFFICES ASSUME NEW x \in P, x # R.root
               PROVE  R.parent[x] \in P /\ \E e \in Side : R.kid[e][R.parent[x]] = x
    BY DEF ParentsLead
  <2>1. CASE x = n
    BY <1>1, <1>3, <1>8, <1>9, <2>1
  <2>2. CASE x = m
    <3>1. R.parent[m] = n
      BY <1>1, <1>6, <1>8, <2>2
    <3> QED  BY <1>1, <1>9, <2>2, <3>1
  <2>3. CASE x = c
    <3>1. p # NULL /\ R.parent[c] = p
      BY <1>1, <1>3, <1>8, <2>3
    <3>2. p \in P \ {n, c} /\ \E e \in Side : T.kid[e][p] = n
      BY <1>5, <3>1 DEF HangsFrom
    <3> QED  BY <1>10, <2>3, <3>1, <3>2
  <2>4. CASE x \notin {n, c, m}
    <3> DEFINE y == T.parent[x]
    <3>1. R.parent[x] = y
      BY <1>1, <1>8, <2>4
    <3>2. x # T.root
      <4>1. CASE p = NULL
        BY <1>5, <2>4, <4>1
      <4>2. CASE p # NULL
        BY <1>8, <4>2
      <4> QED  BY <4>1, <4>2
    <3>3. y \in P /\ \E e \in Side : T.kid[e][y] = x
      BY <3>2 DEF SearchTree, ParentsLead
    <3>4. PICK e \in Side : T.kid[e][y] = x
      BY <3>3
    <3>5. R.kid[e][y] = x
      <4>1. CASE y = n
        BY <1>1, <1>9, <2>4, <3>4, <4>1
      <4>2. CASE y = c
        BY <1>1, <1>9, <2>4, <3>4, <4>2
      <4>3. CASE y \notin {n, c}
        BY <1>10, <2>4, <3>3, <3>4, <4>3
      <4> QED  BY <4>1, <4>2, <4>3
    <3> QED  BY <3>1, <3>3, <3>5
  <2> QED  BY <2>1, <2>2, <2>3, <2>4
<1>22. Sorted(R, P, K, sub2)
  <2> SUFFICES ASSUME NEW x \in P, NEW e \in Side, NEW y \in Below(sub2, R.kid[e][x])
               PROVE  Before(e, K[y], K[x])
    BY DEF Sorted
  <2>1. /\ \A z \in P : \A a \in Side : \A u \in Below(sub, T.kid[a][z]) : Before(a, K[u], K[z])
        /\ \A z \in P : K[z] \in Int
    BY DEF SearchTree, Sorted, Keyed
  <2>2. Before(o, K[c], K[n]) /\ Before(d, K[n], K[c])
    <3>1. Before(o, K[c], K[n])
      BY <1>1, <1>3, <2>1
    <3> QED  BY <1>1, <1>3, <2>1, <3>1, BeforeFacts
  <2>3. CASE x = n
    <3>1. CASE e = d
      BY <1>1, <1>9, <1>13, <2>1, <2>3, <3>1
    <3>2. CASE e = o
      BY <1>1, <1>3, <1>9, <1>13, <1>15, <2>1, <2>3, <3>2
    <3> QED  BY <1>1, <3>1, <3>2
  <2>4. CASE x = c
    <3>1. CASE e = o
      BY <1>1, <1>3, <1>9, <1>13, <2>1, <2>4, <3>1
    <3>2. CASE e = d
      <4>1. y = n \/ y \in Below(sub, q) \/ y \in Below(sub, m)
        BY <1>9, <1>13, <2>4, <3>2
      <4>2. y \in Below(sub, q) => Before(d, K[y], K[n]) /\ y \in P
        BY <1>1, <1>15, <2>1
      <4>3. y \in Below(sub, m) => Before(d, K[y], K[c])
        BY <1>1, <1>3, <2>1
      <4>4. y \in Below(sub, q) => Before(d, K[y], K[c])
        BY <1>3, <2>1, <2>2, <4>2, BeforeFacts
      <4> QED  BY <2>2, <2>4, <3>2, <4>1, <4>3, <4>4
    <3> QED  BY <1>1, <3>1, <3>2
  <2>5. CASE x \notin {n, c}
    BY <1>14, <2>1, <2>5
  <2> QED  BY <2>3, <2>4, <2>5
<1>23. SearchTree(R, P, K, sub2)
  BY <1>16, <1>17, <1>18, <1>19, <1>20, <1>21, <1>22 DEF SearchTree
<1>24. RotatedTo(T, R, n, d, c, m, p) /\ \E s : SearchTree(R, P, K, s)
  BY <1>7, <1>23
<1> QED  BY <1>24 DEF R

(* A new leaf n below p on side d.                                         *)
LinkedTo(T, M, n, p, d) ==
  /\ M \in Trees
  /\ M.root = IF p = NULL THEN n ELSE T.root
  /\ \A x \in Node : M.parent[x] = IF x = n THEN p ELSE T.parent[x]
  /\ \A e \in Side : \A x \in Node :
       M.kid[e][x] = IF x = n THEN NULL ELSE IF x = p /\ e = d THEN n ELSE T.kid[e][x]

(* p is where the search for the absent key k ends, and d the next side.   *)
PlaceFor(T, P, K, sub, k, p, d) ==
  /\ \A x \in P : K[x] # k
  /\ IF P = {} THEN p = NULL
     ELSE /\ p \in P /\ d \in Side /\ T.kid[d][p] = NULL /\ Before(d, k, K[p])
          /\ \A a \in P : \A e \in Side : p \in Below(sub, T.kid[e][a]) => Before(e, k, K[a])

LEMMA LinkKeeps ==
  ASSUME NEW T, NEW P, NEW K, NEW sub, SearchTree(T, P, K, sub), NEW n \in Node \ P,
         NEW k \in Int, NEW p, NEW d, PlaceFor(T, P, K, sub, k, p, d),
         NEW M, LinkedTo(T, M, n, p, d),
         NEW K2, K2[n] = k, \A x \in P : K2[x] = K[x]
  PROVE  \E sub2 : SearchTree(M, P \cup {n}, K2, sub2)
<1> DEFINE Q == P \cup {n}
           sub2 == [x \in Node |-> IF x = n THEN {n}
                                   ELSE IF x \in P /\ p \in sub[x] THEN sub[x] \cup {n} ELSE sub[x]]
<1>1. /\ M \in Trees /\ M.root = IF p = NULL THEN n ELSE T.root
      /\ \A x \in Node : M.parent[x] = IF x = n THEN p ELSE T.parent[x]
      /\ \A e \in Side : \A x \in Node :
           M.kid[e][x] = IF x = n THEN NULL ELSE IF x = p /\ e = d THEN n ELSE T.kid[e][x]
  BY DEF LinkedTo
<1>2. /\ P \subseteq Node /\ NULL \notin Node /\ IsFiniteSet(P) /\ sub \in [Node -> SUBSET Node]
      /\ \A x \in P : sub[x] \subseteq P /\ x \in sub[x] /\ x # n
  <2>1. \A x \in P : x \in sub[x]
    BY DEF SearchTree, Grown
  <2> QED  BY <2>1, RBTreeAssumption DEF SearchTree, Sets
<1>3. p \in P \cup {NULL} /\ (p = NULL <=> P = {})
  BY <1>2 DEF PlaceFor
<1>4. /\ sub2 \in [Node -> SUBSET Node] /\ sub2[n] = {n}
      /\ \A x \in P : sub2[x] = IF p \in sub[x] THEN sub[x] \cup {n} ELSE sub[x]
  BY <1>2
<1> HIDE DEF sub2
<1>5. \A x \in P : \A e \in Side :
         Below(sub2, M.kid[e][x]) =
           IF (x = p /\ e = d) \/ p \in Below(sub, T.kid[e][x])
           THEN Below(sub, T.kid[e][x]) \cup {n} ELSE Below(sub, T.kid[e][x])
  <2> SUFFICES ASSUME NEW x \in P, NEW e \in Side
               PROVE  Below(sub2, M.kid[e][x]) =
                        IF (x = p /\ e = d) \/ p \in Below(sub, T.kid[e][x])
                        THEN Below(sub, T.kid[e][x]) \cup {n} ELSE Below(sub, T.kid[e][x])
    OBVIOUS
  <2>1. T.kid[e][x] \in P \cup {NULL}
    BY <1>2 DEF SearchTree, KidsIn
  <2>2. CASE x = p /\ e = d
    <3>1. T.kid[e][x] = NULL
      BY <2>2 DEF PlaceFor
    <3>2. M.kid[e][x] = n
      BY <1>1, <1>2, <2>2
    <3> QED  BY <1>2, <1>4, <2>2, <3>1, <3>2 DEF Below
  <2>3. CASE ~ (x = p /\ e = d)
    <3>1. M.kid[e][x] = T.kid[e][x]
      BY <1>1, <1>2, <2>3
    <3> QED  BY <1>2, <1>4, <2>1, <2>3, <3>1 DEF Below
  <2> QED  BY <2>2, <2>3
<1>6. \A e \in Side : Below(sub2, M.kid[e][n]) = {}
  BY <1>1 DEF Below
<1>7. Sets(M, Q, sub2)
  <2>1. IsFiniteSet(Q)
    BY <1>2, FS_AddElement
  <2>2. \A x \in Q : sub2[x] \subseteq Q
    BY <1>2, <1>4
  <2> QED  BY <1>1, <1>2, <1>4, <2>1, <2>2 DEF Sets
<1>8. Hung(M, Q, sub2)
  <2>1. CASE P = {}
    BY <1>1, <1>3, <1>4, <2>1 DEF Hung
  <2>2. CASE P # {}
    <3>1. T.root \in P /\ T.parent[T.root] = NULL /\ sub[T.root] = P
      BY <2>2 DEF SearchTree, Hung
    <3>2. p # NULL /\ p \in P /\ T.root # n /\ T.root \in Node
      BY <1>2, <1>3, <2>2, <3>1
    <3>3. M.root = T.root /\ M.parent[T.root] = NULL /\ sub2[T.root] = P \cup {n}
      BY <1>1, <1>4, <3>1, <3>2
    <3> QED  BY <3>1, <3>3 DEF Hung
  <2> QED  BY <2>1, <2>2
<1>9. Grown(M, Q, sub2)
  <2> SUFFICES ASSUME NEW x \in Q
               PROVE  sub2[x] = {x} \cup Below(sub2, M.kid["left"][x])
                                    \cup Below(sub2, M.kid["right"][x])
    BY DEF Grown
  <2>1. CASE x = n
    BY <1>4, <1>6, <2>1 DEF Side
  <2>2. CASE x \in P
    <3>1. /\ sub[x] = {x} \cup Below(sub, T.kid["left"][x]) \cup Below(sub, T.kid["right"][x])
          /\ "left" \in Side /\ "right" \in Side
      BY <2>2 DEF SearchTree, Grown, Side
    <3>2. x = p => d = "left" \/ d = "right"
      BY <1>2, <2>2 DEF PlaceFor, Side
    <3>3. /\ Below(sub2, M.kid["left"][x]) =
               IF (x = p /\ "left" = d) \/ p \in Below(sub, T.kid["left"][x])
               THEN Below(sub, T.kid["left"][x]) \cup {n} ELSE Below(sub, T.kid["left"][x])
          /\ Below(sub2, M.kid["right"][x]) =
               IF (x = p /\ "right" = d) \/ p \in Below(sub, T.kid["right"][x])
               THEN Below(sub, T.kid["right"][x]) \cup {n} ELSE Below(sub, T.kid["right"][x])
      BY <1>5, <2>2, <3>1
    <3>4. sub2[x] = IF p \in sub[x] THEN sub[x] \cup {n} ELSE sub[x]
      BY <1>4, <2>2
    <3> QED  BY <3>1, <3>2, <3>3, <3>4
  <2> QED  BY <2>1, <2>2
<1>10. KidsIn(M, Q)
  <2> SUFFICES ASSUME NEW x \in Node, NEW e \in Side PROVE M.kid[e][x] \in Q \cup {NULL}
    BY DEF KidsIn
  <2>1. T.kid[e][x] \in P \cup {NULL}
    BY DEF SearchTree, KidsIn
  <2> QED  BY <1>1, <2>1
<1>11. KidsLead(M, Q)
  <2> SUFFICES ASSUME NEW x \in Q, NEW e \in Side, M.kid[e][x] # NULL
               PROVE  M.parent[M.kid[e][x]] = x
    BY DEF KidsLead
  <2>1. x # n /\ x \in P /\ x \in Node
    BY <1>1, <1>2
  <2>2. CASE x = p /\ e = d
    BY <1>1, <2>1, <2>2
  <2>3. CASE ~ (x = p /\ e = d)
    <3>1. M.kid[e][x] = T.kid[e][x]
      BY <1>1, <2>1, <2>3
    <3>2. T.parent[T.kid[e][x]] = x /\ T.kid[e][x] \in P
      BY <2>1, <3>1 DEF SearchTree, KidsLead, KidsIn
    <3> QED  BY <1>1, <1>2, <3>1, <3>2
  <2> QED  BY <2>2, <2>3
<1>12. ParentsLead(M, Q)
  <2> SUFFICES ASSUME NEW x \in Q, x # M.root
               PROVE  M.parent[x] \in Q /\ \E e \in Side : M.kid[e][M.parent[x]] = x
    BY DEF ParentsLead
  <2>1. CASE x = n
    <3>1. p \in P /\ d \in Side
      BY <1>1, <1>3, <2>1 DEF PlaceFor
    <3> QED  BY <1>1, <1>2, <2>1, <3>1
  <2>2. CASE x \in P
    <3>1. x # T.root
      BY <1>1, <1>3, <2>2
    <3>2. T.parent[x] \in P
      BY <2>2, <3>1 DEF SearchTree, ParentsLead
    <3>3. PICK e \in Side : T.kid[e][T.parent[x]] = x
      BY <2>2, <3>1 DEF SearchTree, ParentsLead
    <3>4. ~ (T.parent[x] = p /\ e = d)
      BY <1>2, <2>2, <3>3 DEF PlaceFor
    <3>5. M.parent[x] = T.parent[x] /\ M.kid[e][T.parent[x]] = x
      BY <1>1, <1>2, <2>2, <3>2, <3>3, <3>4
    <3> QED  BY <3>2, <3>5
  <2> QED  BY <2>1, <2>2
<1>13. Keyed(Q, K2)
  <2>1. \A x \in P : K2[x] \in Int /\ K2[x] # k
    BY DEF PlaceFor, SearchTree, Keyed
  <2>2. \A x, y \in P : K2[x] = K2[y] => x = y
    BY DEF SearchTree, Keyed
  <2> QED  BY <2>1, <2>2 DEF Keyed
<1>14. Sorted(M, Q, K2, sub2)
  <2> SUFFICES ASSUME NEW x \in Q, NEW e \in Side, NEW y \in Below(sub2, M.kid[e][x])
               PROVE  Before(e, K2[y], K2[x])
    BY DEF Sorted
  <2>1. x \in P
    BY <1>6
  <2>2. Below(sub, T.kid[e][x]) \subseteq P
    BY <1>2, <2>1 DEF SearchTree, KidsIn, Below
  <2>3. CASE y \in Below(sub, T.kid[e][x])
    BY <2>1, <2>2, <2>3 DEF SearchTree, Sorted
  <2>4. CASE y \notin Below(sub, T.kid[e][x])
    <3>1. y = n /\ ((x = p /\ e = d) \/ p \in Below(sub, T.kid[e][x]))
      BY <1>5, <2>1, <2>4
    <3>2. Before(e, k, K[x])
      BY <1>2, <2>1, <3>1 DEF PlaceFor
    <3> QED  BY <2>1, <3>1, <3>2
  <2> QED  BY <2>3, <2>4
<1>15. SearchTree(M, Q, K2, sub2)
  BY <1>7, <1>8, <1>9, <1>10, <1>11, <1>12, <1>13, <1>14 DEF SearchTree
<1> QED  BY <1>15

(* The node n, which has no kid on side d, gives its place to the kid c it *)
(* may have on the other.                                                  *)
OutOf(T, M, n, c, p) ==
  /\ M \in Trees
  /\ M.root = IF p = NULL THEN c ELSE T.root
  /\ \A x \in Node : M.parent[x] = IF x = c THEN p ELSE T.parent[x]
  /\ \A e \in Side : \A x \in Node :
       M.kid[e][x] = IF x = p /\ T.kid[e][x] = n THEN c ELSE T.kid[e][x]

Bare(T, S) == \A x \in S : \A e \in Side : T.kid[e][x] = NULL

LEMMA OutKeeps ==
  ASSUME NEW T, NEW P, NEW K, NEW sub, SearchTree(T, P, K, sub), Bare(T, Node \ P),
         NEW n \in P, NEW d \in Side, T.kid[d][n] = NULL,
         NEW c, T.kid[Other(d)][n] = c, NEW p, T.parent[n] = p,
         NEW M, OutOf(T, M, n, c, p), NEW K2, \A x \in P \ {n} : K2[x] = K[x]
  PROVE  \E sub2 : SearchTree(M, P \ {n}, K2, sub2)
<1> DEFINE Q == P \ {n}
           o == Other(d)
           sub2 == [x \in Node |-> sub[x] \ {n}]
<1>1. /\ M \in Trees /\ M.root = IF p = NULL THEN c ELSE T.root
      /\ \A x \in Node : M.parent[x] = IF x = c THEN p ELSE T.parent[x]
      /\ \A e \in Side : \A x \in Node :
           M.kid[e][x] = IF x = p /\ T.kid[e][x] = n THEN c ELSE T.kid[e][x]
  BY DEF OutOf
<1>2. /\ P \subseteq Node /\ NULL \notin Node /\ IsFiniteSet(P) /\ sub \in [Node -> SUBSET Node]
      /\ \A x \in P : sub[x] \subseteq P /\ x \in sub[x]
      /\ o \in Side /\ o # d /\ \A e \in Side : e = d \/ e = o
  <2>1. \A x \in P : x \in sub[x]
    BY DEF SearchTree, Grown
  <2> QED  BY <2>1, Sides, RBTreeAssumption DEF SearchTree, Sets
<1>3. Around(T, P, K, sub, n, o)
  BY <1>2, NodeAround
<1>4. Other(o) = d
  BY Sides
<1>5. /\ c \in P \cup {NULL} /\ c # n /\ sub[n] = {n} \cup Below(sub, c) /\ n \notin Below(sub, c)
      /\ c # NULL => T.parent[c] = n /\ c # T.root
  BY <1>2, <1>3, <1>4 DEF Around, Below
<1>6. /\ p \in P \cup {NULL} /\ HangsFrom(T, n, p) /\ (p = NULL <=> n = T.root) /\ p # n
  BY Hangs
<1>7. /\ sub2 \in [Node -> SUBSET Node]
      /\ \A x \in Node : sub2[x] = sub[x] \ {n}
  BY <1>2
<1> HIDE DEF sub2
<1>8. \A x \in Q : \A e \in Side : M.kid[e][x] = IF T.kid[e][x] = n THEN c ELSE T.kid[e][x]
  <2> SUFFICES ASSUME NEW x \in Q, NEW e \in Side
               PROVE  M.kid[e][x] = IF T.kid[e][x] = n THEN c ELSE T.kid[e][x]
    OBVIOUS
  <2>1. T.kid[e][x] = n => x = p
    BY <1>2 DEF SearchTree, KidsLead
  <2> QED  BY <1>1, <1>2, <2>1
<1>9. \A x \in Q : \A e \in Side : Below(sub2, M.kid[e][x]) = Below(sub, T.kid[e][x]) \ {n}
  <2> SUFFICES ASSUME NEW x \in Q, NEW e \in Side
               PROVE  Below(sub2, M.kid[e][x]) = Below(sub, T.kid[e][x]) \ {n}
    OBVIOUS
  <2>1. T.kid[e][x] \in P \cup {NULL}
    BY <1>2 DEF SearchTree, KidsIn
  <2>2. CASE T.kid[e][x] = n
    BY <1>2, <1>5, <1>7, <1>8, <2>2 DEF Below
  <2>3. CASE T.kid[e][x] # n
    BY <1>2, <1>7, <1>8, <2>1, <2>3 DEF Below
  <2> QED  BY <2>2, <2>3
<1>10. Sets(M, Q, sub2)
  <2>1. IsFiniteSet(Q)
    BY <1>2, FS_RemoveElement
  <2> QED  BY <1>1, <1>2, <1>7, <2>1 DEF Sets
<1>11. P # {} /\ T.root \in P /\ T.parent[T.root] = NULL /\ sub[T.root] = P
  BY DEF SearchTree, Hung
<1>12. Hung(M, Q, sub2)
  <2>1. CASE p = NULL
    <3>1. P = {n} \cup Below(sub, c) /\ M.root = c
      BY <1>1, <1>5, <1>6, <1>11, <2>1
    <3>2. CASE c = NULL
      BY <3>1, <3>2 DEF Hung, Below
    <3>3. CASE c # NULL
      BY <1>1, <1>2, <1>5, <1>7, <2>1, <3>1, <3>3 DEF Hung, Below
    <3> QED  BY <3>2, <3>3
  <2>2. CASE p # NULL
    <3>1. T.root # n /\ T.root # c /\ T.root \in Node
      BY <1>2, <1>5, <1>6, <1>11, <2>2
    <3> QED  BY <1>1, <1>7, <1>11, <2>2, <3>1 DEF Hung
  <2> QED  BY <2>1, <2>2
<1>13. Grown(M, Q, sub2)
  <2> SUFFICES ASSUME NEW x \in Q
               PROVE  sub2[x] = {x} \cup Below(sub2, M.kid["left"][x])
                                    \cup Below(sub2, M.kid["right"][x])
    BY DEF Grown
  <2>1. sub[x] = {x} \cup Below(sub, T.kid["left"][x]) \cup Below(sub, T.kid["right"][x])
    BY DEF SearchTree, Grown
  <2> QED  BY <1>2, <1>7, <1>9, <2>1 DEF Side
<1>14. KidsIn(M, Q)
  <2> SUFFICES ASSUME NEW x \in Node, NEW e \in Side PROVE M.kid[e][x] \in Q \cup {NULL}
    BY DEF KidsIn
  <2>1. T.kid[e][x] \in P \cup {NULL}
    BY DEF SearchTree, KidsIn
  <2>2. CASE x \in Q
    BY <1>5, <1>8, <2>1, <2>2
  <2>3. CASE x = n
    BY <1>1, <1>2, <1>5, <1>6, <2>3
  <2>4. CASE x \notin P
    BY <1>1, <1>2, <1>6, <2>4 DEF Bare
  <2> QED  BY <2>2, <2>3, <2>4
<1>15. KidsLead(M, Q)
  <2> SUFFICES ASSUME NEW x \in Q, NEW e \in Side, M.kid[e][x] # NULL
               PROVE  M.parent[M.kid[e][x]] = x
    BY DEF KidsLead
  <2>1. CASE T.kid[e][x] = n
    <3>1. p = x
      BY <1>2, <2>1 DEF SearchTree, KidsLead
    <3>2. M.kid[e][x] = c /\ c \in Node
      BY <1>2, <1>5, <1>8, <2>1
    <3> QED  BY <1>1, <3>1, <3>2
  <2>2. CASE T.kid[e][x] # n
    <3>1. M.kid[e][x] = T.kid[e][x]
      BY <1>8, <2>2
    <3>2. T.parent[T.kid[e][x]] = x /\ T.kid[e][x] \in P
      BY <1>2, <3>1 DEF SearchTree, KidsLead, KidsIn
    <3>3. T.kid[e][x] # c
      BY <1>2, <1>5, <3>2
    <3>4. M.parent[T.kid[e][x]] = T.parent[T.kid[e][x]]
      BY <1>1, <1>2, <3>2, <3>3
    <3> QED  BY <3>1, <3>2, <3>4
  <2> QED  BY <2>1, <2>2
<1>16. ParentsLead(M, Q)
  <2> SUFFICES ASSUME NEW x \in Q, x # M.root
               PROVE  M.parent[x] \in Q /\ \E e \in Side : M.kid[e][M.parent[x]] = x
    BY DEF ParentsLead
  <2>1. CASE x = c
    <3>1. p \in Q
      BY <1>1, <1>6, <2>1
    <3>2. PICK e \in Side : T.kid[e][p] = n
      BY <1>2, <1>6, <3>1 DEF HangsFrom
    <3> QED  BY <1>1, <1>2, <1>8, <2>1, <3>1, <3>2
  <2>2. CASE x # c
    <3>1. x # T.root
      BY <1>1, <1>6, <2>2
    <3>2. T.parent[x] \in P
      BY <3>1 DEF SearchTree, ParentsLead
    <3>3. PICK e \in Side : T.kid[e][T.parent[x]] = x
      BY <3>1 DEF SearchTree, ParentsLead
    <3>4. T.parent[x] # n
      BY <1>2, <2>2, <3>3
    <3>5. M.parent[x] = T.parent[x] /\ M.kid[e][T.parent[x]] = x
      BY <1>1, <1>2, <1>8, <2>2, <3>2, <3>3, <3>4
    <3> QED  BY <3>2, <3>4, <3>5
  <2> QED  BY <2>1, <2>2
<1>17. Keyed(Q, K2)
  BY DEF SearchTree, Keyed
<1>18. Sorted(M, Q, K2, sub2)
  <2> SUFFICES ASSUME NEW x \in Q, NEW e \in Side, NEW y \in Below(sub2, M.kid[e][x])
               PROVE  Before(e, K2[y], K2[x])
    BY DEF Sorted
  <2>1. y \in Below(sub, T.kid[e][x]) /\ y # n
    BY <1>9
  <2>2. Below(sub, T.kid[e][x]) \subseteq P
    BY <1>2 DEF SearchTree, KidsIn, Below
  <2>3. Before(e, K[y], K[x])
    BY <2>1 DEF SearchTree, Sorted
  <2> QED  BY <2>1, <2>2, <2>3
<1>19. SearchTree(M, Q, K2, sub2)
  BY <1>10, <1>12, <1>13, <1>14, <1>15, <1>16, <1>17, <1>18 DEF SearchTree
<1> QED  BY <1>19

(* The node s takes over the place of n.                                   *)
InPlaceOf(T, M, n, s) ==
  /\ M \in Trees
  /\ M.root = IF T.parent[n] = NULL THEN s ELSE T.root
  /\ \A x \in Node :
       M.parent[x] = IF x = s THEN T.parent[n]
                     ELSE IF \E e \in Side : T.kid[e][n] = x THEN s ELSE T.parent[x]
  /\ \A e \in Side : \A x \in Node :
       M.kid[e][x] = IF x = s THEN T.kid[e][n]
                     ELSE IF x = T.parent[n] /\ T.kid[e][x] = n THEN s ELSE T.kid[e][x]

LEMMA PlaceKeeps ==
  ASSUME NEW T, NEW P, NEW K, NEW sub, SearchTree(T, P, K, sub),
         NEW n \in P, NEW s \in Node \ P, Bare(T, Node \ (P \cup {s})),
         NEW M, InPlaceOf(T, M, n, s),
         NEW K2, K2[s] \in Int, \A x \in P \ {n} : K2[x] = K[x] /\ K2[x] # K2[s],
         \A x \in P \ {n} : \A d \in Side : Before(d, K[x], K[n]) => Before(d, K[x], K2[s])
  PROVE  \E sub2 : SearchTree(M, (P \ {n}) \cup {s}, K2, sub2)
<1> DEFINE Q == (P \ {n}) \cup {s}
           p == T.parent[n]
           sub2 == [x \in Node |-> IF x = s THEN (sub[n] \ {n}) \cup {s}
                                   ELSE IF n \in sub[x] THEN (sub[x] \ {n}) \cup {s} ELSE sub[x]]
<1>1. /\ M \in Trees /\ M.root = IF p = NULL THEN s ELSE T.root
      /\ \A x \in Node :
           M.parent[x] = IF x = s THEN p
                         ELSE IF \E e \in Side : T.kid[e][n] = x THEN s ELSE T.parent[x]
      /\ \A e \in Side : \A x \in Node :
           M.kid[e][x] = IF x = s THEN T.kid[e][n]
                         ELSE IF x = p /\ T.kid[e][x] = n THEN s ELSE T.kid[e][x]
  BY DEF InPlaceOf
<1>2. /\ P \subseteq Node /\ NULL \notin Node /\ IsFiniteSet(P) /\ sub \in [Node -> SUBSET Node]
      /\ \A x \in P : sub[x] \subseteq P /\ x \in sub[x] /\ x # s
      /\ s # NULL /\ n # s
  <2>1. \A x \in P : x \in sub[x]
    BY DEF SearchTree, Grown
  <2> QED  BY <2>1, RBTreeAssumption DEF SearchTree, Sets
<1>3. \A e \in Side : Around(T, P, K, sub, n, e)
  BY NodeAround
<1>4. /\ p \in P \cup {NULL} /\ HangsFrom(T, n, p) /\ (p = NULL <=> n = T.root) /\ p # n
  BY Hangs
<1>5. /\ sub2 \in [Node -> SUBSET Node] /\ sub2[s] = (sub[n] \ {n}) \cup {s}
      /\ \A x \in P : sub2[x] = IF n \in sub[x] THEN (sub[x] \ {n}) \cup {s} ELSE sub[x]
  <2>1. \A x \in Node : sub[x] \subseteq Node
    BY <1>2
  <2> QED  BY <1>2, <2>1
<1> HIDE DEF sub2, Q
<1>6. Q = (P \ {n}) \cup {s}
  BY DEF Q
<1>7. \A x \in P \ {n} : \A e \in Side :
         M.kid[e][x] = IF T.kid[e][x] = n THEN s ELSE T.kid[e][x]
  <2> SUFFICES ASSUME NEW x \in P \ {n}, NEW e \in Side
               PROVE  M.kid[e][x] = IF T.kid[e][x] = n THEN s ELSE T.kid[e][x]
    OBVIOUS
  <2>1. T.kid[e][x] = n => x = p
    BY <1>2 DEF SearchTree, KidsLead
  <2>2. x \in Node /\ x # s
    BY <1>2
  <2> QED  BY <1>1, <2>1, <2>2
<1>8. \A e \in Side : M.kid[e][s] = T.kid[e][n]
  BY <1>1
<1>9. \A x \in P \ {n} : \A e \in Side :
         Below(sub2, M.kid[e][x]) = IF n \in Below(sub, T.kid[e][x])
                                    THEN (Below(sub, T.kid[e][x]) \ {n}) \cup {s}
                                    ELSE Below(sub, T.kid[e][x])
  <2> SUFFICES ASSUME NEW x \in P \ {n}, NEW e \in Side
               PROVE  Below(sub2, M.kid[e][x]) = IF n \in Below(sub, T.kid[e][x])
                                    THEN (Below(sub, T.kid[e][x]) \ {n}) \cup {s}
                                    ELSE Below(sub, T.kid[e][x])
    OBVIOUS
  <2>1. T.kid[e][x] \in P \cup {NULL}
    BY <1>2 DEF SearchTree, KidsIn
  <2>2. CASE T.kid[e][x] = n
    BY <1>2, <1>5, <1>7, <2>2 DEF Below
  <2>3. CASE T.kid[e][x] # n
    BY <1>2, <1>5, <1>7, <2>1, <2>3 DEF Below
  <2> QED  BY <2>2, <2>3
<1>10. \A e \in Side : Below(sub2, M.kid[e][s]) = Below(sub, T.kid[e][n])
  <2> SUFFICES ASSUME NEW e \in Side PROVE Below(sub2, M.kid[e][s]) = Below(sub, T.kid[e][n])
    OBVIOUS
  <2>1. T.kid[e][n] \in P \cup {NULL} /\ n \notin Below(sub, T.kid[e][n])
    BY <1>3 DEF Around
  <2>2. CASE T.kid[e][n] = NULL
    BY <1>8, <2>2 DEF Below
  <2>3. CASE T.kid[e][n] # NULL
    BY <1>5, <1>8, <2>1, <2>3 DEF Below
  <2> QED  BY <2>2, <2>3
<1>11. Sets(M, Q, sub2)
  <2>1. IsFiniteSet(P \ {n})
    BY <1>2, FS_RemoveElement
  <2>2. IsFiniteSet(Q)
    BY <1>6, <2>1, FS_AddElement
  <2>3. \A x \in Q : sub2[x] \subseteq Q
    <3>1. ASSUME NEW x \in P PROVE sub2[x] \subseteq Q
      <4>1. sub[x] \subseteq P /\ sub2[x] = IF n \in sub[x] THEN (sub[x] \ {n}) \cup {s} ELSE sub[x]
        BY <1>2, <1>5
      <4> QED  BY <1>6, <4>1
    <3>2. sub2[s] \subseteq Q
      BY <1>2, <1>5, <1>6
    <3> QED  BY <1>6, <3>1, <3>2
  <2> QED  BY <1>1, <1>2, <1>5, <1>6, <2>2, <2>3 DEF Sets
<1>12. Hung(M, Q, sub2)
  <2>1. T.root \in P /\ T.parent[T.root] = NULL /\ sub[T.root] = P
    BY DEF SearchTree, Hung
  <2>2. CASE p = NULL
    <3>1. M.root = s /\ M.parent[s] = NULL /\ sub2[s] = Q
      BY <1>1, <1>4, <1>5, <1>6, <2>1, <2>2
    <3> QED  BY <1>6, <3>1 DEF Hung
  <2>3. CASE p # NULL
    <3>1. T.root # n /\ T.root \in Q /\ T.root # s /\ T.root \in Node
      BY <1>2, <1>4, <1>6, <2>1, <2>3
    <3>2. \A e \in Side : T.kid[e][n] # T.root
      BY <1>2, <1>3, <2>1 DEF Around
    <3>3. M.root = T.root /\ M.parent[T.root] = NULL
      BY <1>1, <2>1, <2>3, <3>1, <3>2
    <3>4. sub2[T.root] = Q
      BY <1>5, <1>6, <2>1
    <3> QED  BY <3>1, <3>3, <3>4 DEF Hung
  <2> QED  BY <2>2, <2>3
<1>13. Grown(M, Q, sub2)
  <2> SUFFICES ASSUME NEW x \in Q
               PROVE  sub2[x] = {x} \cup Below(sub2, M.kid["left"][x])
                                    \cup Below(sub2, M.kid["right"][x])
    BY DEF Grown
  <2>1. "left" \in Side /\ "right" \in Side
    BY DEF Side
  <2>2. \A y \in P : sub[y] = {y} \cup Below(sub, T.kid["left"][y]) \cup Below(sub, T.kid["right"][y])
    BY DEF SearchTree, Grown
  <2>3. CASE x = s
    <3>1. /\ n \notin Below(sub, T.kid["left"][n]) /\ n \notin Below(sub, T.kid["right"][n])
      BY <1>3, <2>1 DEF Around
    <3> QED  BY <1>5, <1>10, <2>1, <2>2, <2>3, <3>1
  <2>4. CASE x # s
    <3>1. x \in P /\ x # n
      BY <1>6, <2>4
    <3>2. sub2[x] = IF n \in sub[x] THEN (sub[x] \ {n}) \cup {s} ELSE sub[x]
      BY <1>5, <3>1
    <3>3. \A e \in Side :
            Below(sub2, M.kid[e][x]) = IF n \in Below(sub, T.kid[e][x])
                                       THEN (Below(sub, T.kid[e][x]) \ {n}) \cup {s}
                                       ELSE Below(sub, T.kid[e][x])
      BY <1>9, <3>1
    <3>4. sub[x] = {x} \cup Below(sub, T.kid["left"][x]) \cup Below(sub, T.kid["right"][x])
      BY <2>2, <3>1
    <3>5. CASE n \in sub[x]
      <4>1. n \notin Below(sub, T.kid["left"][x]) => n \in Below(sub, T.kid["right"][x])
        BY <3>1, <3>4, <3>5
      <4> QED  BY <2>1, <3>1, <3>2, <3>3, <3>4, <3>5, <4>1
    <3>6. CASE n \notin sub[x]
      BY <2>1, <3>2, <3>3, <3>4, <3>6
    <3> QED  BY <3>5, <3>6
  <2> QED  BY <2>3, <2>4
<1>14. KidsIn(M, Q)
  <2> SUFFICES ASSUME NEW x \in Node, NEW e \in Side PROVE M.kid[e][x] \in Q \cup {NULL}
    BY DEF KidsIn
  <2>1. \A y \in Node : T.kid[e][y] \in P \cup {NULL}
    BY DEF SearchTree, KidsIn
  <2>2. CASE x = s
    <3>1. T.kid[e][n] # n
      BY <1>2, <1>3 DEF Around
    <3> QED  BY <1>2, <1>6, <1>8, <2>1, <2>2, <3>1
  <2>3. CASE x \in P \ {n}
    BY <1>6, <1>7, <2>1, <2>3
  <2>4. CASE x = n
    <3>1. T.kid[e][n] # n
      BY <1>2, <1>3 DEF Around
    <3>2. M.kid[e][n] = T.kid[e][n]
      BY <1>1, <1>2, <1>4, <2>4
    <3> QED  BY <1>2, <1>6, <2>1, <2>4, <3>1, <3>2
  <2>5. CASE x \notin P /\ x # s
    BY <1>1, <1>2, <1>4, <2>5 DEF Bare
  <2> QED  BY <2>2, <2>3, <2>4, <2>5
<1>15. KidsLead(M, Q)
  <2> SUFFICES ASSUME NEW x \in Q, NEW e \in Side, M.kid[e][x] # NULL
               PROVE  M.parent[M.kid[e][x]] = x
    BY DEF KidsLead
  <2>1. \A y \in P : T.kid[e][y] # NULL => T.parent[T.kid[e][y]] = y /\ T.kid[e][y] \in P
    BY <1>2 DEF SearchTree, KidsLead, KidsIn
  <2>2. CASE x = s
    <3>1. M.kid[e][x] = T.kid[e][n] /\ T.kid[e][n] \in P
      BY <1>8, <2>1, <2>2
    <3> QED  BY <1>1, <1>2, <2>2, <3>1
  <2>3. CASE x # s
    <3>1. x \in P \ {n}
      BY <1>6, <2>3
    <3>2. CASE T.kid[e][x] = n
      <4>1. p = x /\ M.kid[e][x] = s
        BY <1>2, <1>7, <2>1, <3>1, <3>2
      <4> QED  BY <1>1, <4>1
    <3>3. CASE T.kid[e][x] # n
      <4>1. M.kid[e][x] = T.kid[e][x] /\ T.kid[e][x] \in P /\ T.parent[T.kid[e][x]] = x
        BY <1>7, <2>1, <3>1, <3>3
      <4>2. \A f \in Side : T.kid[f][n] # T.kid[e][x]
        BY <1>2, <3>1, <4>1 DEF SearchTree, KidsLead
      <4>3. M.parent[T.kid[e][x]] = x
        BY <1>1, <1>2, <4>1, <4>2
      <4> QED  BY <4>1, <4>3
    <3> QED  BY <3>2, <3>3
  <2> QED  BY <2>2, <2>3
<1>16. ParentsLead(M, Q)
  <2> SUFFICES ASSUME NEW x \in Q, x # M.root
               PROVE  M.parent[x] \in Q /\ \E e \in Side : M.kid[e][M.parent[x]] = x
    BY DEF ParentsLead
  <2>1. CASE x = s
    <3>1. p \in P \ {n} /\ M.parent[s] = p
      BY <1>1, <1>4, <2>1
    <3>2. PICK e \in Side : T.kid[e][p] = n
      BY <1>2, <1>4, <3>1 DEF HangsFrom
    <3> QED  BY <1>6, <1>7, <2>1, <3>1, <3>2
  <2>2. CASE x # s
    <3>1. x \in P \ {n} /\ x \in Node
      BY <1>2, <1>6, <2>2
    <3>2. CASE \E e \in Side : T.kid[e][n] = x
      <4>1. M.parent[x] = s
        BY <1>1, <2>2, <3>1, <3>2
      <4> QED  BY <1>6, <1>8, <3>2, <4>1
    <3>3. CASE \A e \in Side : T.kid[e][n] # x
      <4>1. x # T.root
        BY <1>1, <1>4, <3>1
      <4>2. T.parent[x] \in P
        BY <3>1, <4>1 DEF SearchTree, ParentsLead
      <4>3. PICK e \in Side : T.kid[e][T.parent[x]] = x
        BY <3>1, <4>1 DEF SearchTree, ParentsLead
      <4>4. T.parent[x] # n
        BY <3>3, <4>3
      <4>5. M.parent[x] = T.parent[x] /\ M.kid[e][T.parent[x]] = x
        BY <1>1, <1>7, <2>2, <3>1, <3>3, <4>2, <4>3, <4>4
      <4> QED  BY <1>6, <4>2, <4>4, <4>5
    <3> QED  BY <3>2, <3>3
  <2> QED  BY <2>1, <2>2
<1>17. Keyed(Q, K2)
  <2>1. \A x \in P \ {n} : K2[x] = K[x] /\ K2[x] # K2[s]
    OBVIOUS
  <2>2. (\A x \in P : K[x] \in Int) /\ (\A x, y \in P : K[x] = K[y] => x = y)
    BY DEF SearchTree, Keyed
  <2> QED  BY <1>6, <2>1, <2>2 DEF Keyed
<1>18. Sorted(M, Q, K2, sub2)
  <2> SUFFICES ASSUME NEW x \in Q, NEW e \in Side, NEW y \in Below(sub2, M.kid[e][x])
               PROVE  Before(e, K2[y], K2[x])
    BY DEF Sorted
  <2>1. /\ \A z \in P : \A u \in Below(sub, T.kid[e][z]) : Before(e, K[u], K[z])
        /\ \A z \in P : Below(sub, T.kid[e][z]) \subseteq P /\ K[z] \in Int
    BY <1>2 DEF SearchTree, Sorted, KidsIn, Below, Keyed
  <2>2. CASE x = s
    <3>1. y \in Below(sub, T.kid[e][n]) /\ y \in P \ {n}
      BY <1>3, <1>10, <2>1, <2>2 DEF Around
    <3> QED  BY <2>1, <2>2, <3>1
  <2>3. CASE x # s
    <3>1. x \in P \ {n}
      BY <1>6, <2>3
    <3>2. CASE y \in Below(sub, T.kid[e][x]) /\ y # n
      BY <2>1, <3>1, <3>2
    <3>3. CASE y = s /\ n \in Below(sub, T.kid[e][x])
      <4>1. Before(e, K[n], K[x])
        BY <2>1, <3>1, <3>3
      <4>2. Before(Other(e), K[x], K[n])
        BY <2>1, <3>1, <4>1, BeforeFacts
      <4>3. Before(Other(e), K[x], K2[s])
        BY <3>1, <4>2, Sides
      <4> QED  BY <2>1, <3>1, <3>3, <4>3, BeforeFacts
    <3> QED  BY <1>9, <3>1, <3>2, <3>3
  <2> QED  BY <2>2, <2>3
<1>19. SearchTree(M, Q, K2, sub2)
  BY <1>11, <1>12, <1>13, <1>14, <1>15, <1>16, <1>17, <1>18 DEF SearchTree
<1> QED  BY <1>19 DEF Q

-----------------------------------------------------------------------------
(* Part 3: the recursive functions on a tree.  Each is the only one that   *)
(* follows its equation, as Induct shows; that there is one is shown by    *)
(* naming it.                                                              *)

Toward(k, n) == IF key[n] > k THEN "left" ELSE "right"

LEMMA TowardFacts ==
  ASSUME NEW k \in Int, NEW n, key[n] \in Int, key[n] # k
  PROVE  Toward(k, n) \in Side /\ Before(Toward(k, n), k, key[n])
  BY DEF Toward, Side, Before

LEMMA TowardSide ==
  ASSUME NEW k, NEW n
  PROVE  Toward(k, n) \in Side
  BY DEF Toward, Side

(* The recursion of Search.                                                *)
Goes(f, T, k) ==
  f = [n \in Node |->
         LET next == T.kid[IF key[n] > k THEN "left" ELSE "right"][n]
         IN  IF key[n] = k THEN [node |-> n, parent |-> n]
             ELSE IF next = NULL THEN [node |-> NULL, parent |-> n]
             ELSE f[next]]

Hits(sub, k, n) == {y \in sub[n] : key[y] = k}

(* Where a search for k that starts at n ends.                             *)
Ends(T, sub, k, n) ==
  {y \in sub[n] :
     /\ T.kid[Toward(k, y)][y] = NULL
     /\ \A a \in sub[n] : y \in sub[a] /\ a # y => y \in Below(sub, T.kid[Toward(k, a)][a])}

LEMMA NextHits ==
  ASSUME NEW T, NEW P, NEW sub, SearchTree(T, P, key, sub), NEW k \in Int,
         NEW n \in P, key[n] # k
  PROVE  Hits(sub, k, n) = IF T.kid[Toward(k, n)][n] = NULL THEN {}
                           ELSE Hits(sub, k, T.kid[Toward(k, n)][n])
<1> DEFINE d == Toward(k, n)
           o == Other(d)
           x == T.kid[d][n]
<1>1. \A y \in P : key[y] \in Int
  BY DEF SearchTree, Keyed
<1>2. d \in Side /\ Before(d, k, key[n])
  BY <1>1, TowardFacts
<1> HIDE DEF d
<1>3. o \in Side
  BY <1>2, Sides
<1>4. Around(T, P, key, sub, n, d)
  BY <1>2, NodeAround
<1>5. sub[n] = {n} \cup Below(sub, x) \cup Below(sub, T.kid[o][n]) /\ sub[n] \subseteq P
  BY <1>4 DEF Around, SearchTree, Sets
<1>6. \A y \in Below(sub, T.kid[o][n]) : key[y] # k
  <2> SUFFICES ASSUME NEW y \in Below(sub, T.kid[o][n]), key[y] = k PROVE FALSE
    OBVIOUS
  <2>1. Before(o, k, key[n])
    BY <1>3 DEF SearchTree, Sorted
  <2> QED  BY <1>1, <1>2, <2>1, BeforeFacts
<1>7. Hits(sub, k, n) = {y \in Below(sub, x) : key[y] = k}
  BY <1>5, <1>6 DEF Hits
<1> QED  BY <1>7 DEF Hits, Below, d

LEMMA NextEnds ==
  ASSUME NEW T, NEW P, NEW sub, SearchTree(T, P, key, sub), NEW k \in Int,
         NEW n \in P, key[n] # k
  PROVE  Ends(T, sub, k, n) = IF T.kid[Toward(k, n)][n] = NULL THEN {n}
                              ELSE Ends(T, sub, k, T.kid[Toward(k, n)][n])
<1> DEFINE d == Toward(k, n)
           x == T.kid[d][n]
           z == T.kid[Other(d)][n]
<1>1. /\ d \in Side /\ n \in sub[n] /\ n \in Node /\ sub[n] \subseteq P
      /\ \A y \in P : y \in sub[y]
  BY TowardSide DEF SearchTree, Grown, Sets
<1> HIDE DEF d
<1>2. /\ Around(T, P, key, sub, n, d)
      /\ x \in P \cup {NULL} /\ z \in P \cup {NULL}
      /\ sub[n] = {n} \cup Below(sub, x) \cup Below(sub, z)
  <2>1. Around(T, P, key, sub, n, d) /\ Other(d) \in Side
    BY <1>1, NodeAround, Sides
  <2> QED  BY <1>1, <2>1 DEF Around, SearchTree, KidsIn
<1>3. ASSUME x = NULL PROVE Ends(T, sub, k, n) = {n}
  <2>1. ASSUME NEW y \in Ends(T, sub, k, n) PROVE y = n
    <3>1. y \in sub[n]
      BY <2>1 DEF Ends
    <3>2. y # n => y \in Below(sub, x)
      BY <1>1, <2>1, <3>1 DEF Ends, d
    <3> QED  BY <1>3, <3>2 DEF Below
  <2>2. n \in Ends(T, sub, k, n)
    <3>1. \A a \in sub[n] : n \in sub[a] => a = n
      BY <1>1, OneAbove
    <3> QED  BY <1>1, <1>3, <3>1 DEF Ends, d
  <2> QED  BY <2>1, <2>2
<1>4. ASSUME x # NULL PROVE Ends(T, sub, k, n) = Ends(T, sub, k, x)
  <2>1. x \in P /\ Below(sub, x) = sub[x] /\ n \notin sub[x]
    BY <1>2, <1>4 DEF Below, Around
  <2>2. ASSUME NEW y \in Ends(T, sub, k, n) PROVE y \in Ends(T, sub, k, x)
    <3>1. y \in sub[n] /\ T.kid[Toward(k, y)][y] = NULL
      BY <2>2 DEF Ends
    <3>2. \A a \in sub[n] : y \in sub[a] /\ a # y => y \in Below(sub, T.kid[Toward(k, a)][a])
      BY <2>2 DEF Ends
    <3>3. y # n
      BY <1>4, <3>1 DEF d
    <3>4. y \in sub[x]
      BY <1>1, <2>1, <3>1, <3>2, <3>3 DEF d
    <3>5. sub[x] \subseteq sub[n]
      BY <1>2, <2>1
    <3>6. \A a \in sub[x] : y \in sub[a] /\ a # y => y \in Below(sub, T.kid[Toward(k, a)][a])
      BY <3>2, <3>5
    <3> QED  BY <3>1, <3>4, <3>6 DEF Ends
  <2>3. ASSUME NEW y \in Ends(T, sub, k, x) PROVE y \in Ends(T, sub, k, n)
    <3>1. y \in sub[x] /\ T.kid[Toward(k, y)][y] = NULL
      BY <2>3 DEF Ends
    <3>2. \A a \in sub[x] : y \in sub[a] /\ a # y => y \in Below(sub, T.kid[Toward(k, a)][a])
      BY <2>3 DEF Ends
    <3>3. ASSUME NEW a \in Below(sub, z) PROVE y \notin sub[a]
      <4>1. z \in P /\ Below(sub, z) = sub[z]
        BY <1>2, <3>3 DEF Below
      <4>2. sub[a] \subseteq sub[z]
        <5>1. a \in P
          BY <1>1, <1>2, <3>3
        <5> QED  BY <3>3, <4>1, <5>1, BelowBelow
      <4>3. y \notin Below(sub, z)
        BY <1>2, <2>1, <3>1 DEF Around
      <4> QED  BY <4>1, <4>2, <4>3
    <3>4. \A a \in sub[n] : y \in sub[a] /\ a # y => y \in Below(sub, T.kid[Toward(k, a)][a])
      BY <1>2, <2>1, <3>1, <3>2, <3>3 DEF d
    <3> QED  BY <1>2, <2>1, <3>1, <3>4 DEF Ends
  <2> QED  BY <2>2, <2>3
<1> QED  BY <1>3, <1>4 DEF d

LEMMA GoesExists ==
  ASSUME NEW T, NEW P, NEW sub, SearchTree(T, P, key, sub), NEW k \in Int
  PROVE  \E f : Goes(f, T, k)
<1> DEFINE nx(n) == T.kid[Toward(k, n)][n]
           D(n) == IF Hits(sub, k, n) # {}
                   THEN [node |-> CHOOSE y \in Hits(sub, k, n) : TRUE,
                         parent |-> CHOOSE y \in Hits(sub, k, n) : TRUE]
                   ELSE [node |-> NULL, parent |-> CHOOSE y \in Ends(T, sub, k, n) : TRUE]
           Step(n) == IF key[n] = k THEN [node |-> n, parent |-> n]
                      ELSE IF nx(n) = NULL THEN [node |-> NULL, parent |-> n]
                      ELSE D(nx(n))
           f == [n \in Node |-> Step(n)]
<1>1. ASSUME NEW n \in P PROVE D(n) = Step(n)
  <2>1. CASE key[n] = k
    <3>1. n \in Hits(sub, k, n)
      BY <2>1 DEF Hits, SearchTree, Grown
    <3>2. \A y \in Hits(sub, k, n) : y = n
      BY <2>1 DEF Hits, SearchTree, Sets, Keyed
    <3>3. Hits(sub, k, n) = {n}
      BY <3>1, <3>2
    <3> QED  BY <2>1, <3>3
  <2>2. CASE key[n] # k /\ nx(n) = NULL
    <3>1. Hits(sub, k, n) = {} /\ Ends(T, sub, k, n) = {n}
      BY <2>2, NextHits, NextEnds
    <3> QED  BY <2>2, <3>1
  <2>3. CASE key[n] # k /\ nx(n) # NULL
    <3>1. Hits(sub, k, n) = Hits(sub, k, nx(n)) /\ Ends(T, sub, k, n) = Ends(T, sub, k, nx(n))
      BY <2>3, NextHits, NextEnds
    <3> QED  BY <2>3, <3>1
  <2> QED  BY <2>1, <2>2, <2>3
<1>2. \A n \in Node : nx(n) \in P \cup {NULL}
  BY TowardSide DEF SearchTree, KidsIn
<1>3. P \subseteq Node
  BY DEF SearchTree, Sets
<1> HIDE DEF D
<1>4. \A n \in P : f[n] = D(n)
  BY <1>1, <1>3
<1>5. \A n \in Node : Step(n) = IF key[n] = k THEN [node |-> n, parent |-> n]
                                ELSE IF nx(n) = NULL THEN [node |-> NULL, parent |-> n]
                                ELSE f[nx(n)]
  <2> HIDE DEF f
  <2> QED  BY <1>2, <1>4
<1>6. f = [n \in Node |-> IF key[n] = k THEN [node |-> n, parent |-> n]
                          ELSE IF nx(n) = NULL THEN [node |-> NULL, parent |-> n]
                          ELSE f[nx(n)]]
  <2>1. f = [n \in Node |-> Step(n)]
    OBVIOUS
  <2> HIDE DEF f, Step
  <2> QED  BY <1>5, <2>1
<1> HIDE DEF f
<1>7. Goes(f, T, k)
  BY <1>6 DEF Goes, Toward
<1> QED  BY <1>7

(* What a search returns.                                                  *)
LEMMA SearchMeans ==
  ASSUME NEW T, NEW P, NEW sub, SearchTree(T, P, key, sub), NEW k \in Int
  PROVE  /\ (\E x \in P : key[x] = k) => Search(T, k).node \in P
         /\ (\A x \in P : key[x] # k) =>
              /\ Search(T, k).node = NULL
              /\ PlaceFor(T, P, key, sub, k, Search(T, k).parent, Toward(k, Search(T, k).parent))
<1> DEFINE down == CHOOSE f : Goes(f, T, k)
           nx(n) == T.kid[Toward(k, n)][n]
<1>1. Search(T, k) = IF T.root = NULL THEN [node |-> NULL, parent |-> NULL] ELSE down[T.root]
  BY DEF Search, Goes
<1>2. Goes(down, T, k)
  <2>1. \E f : Goes(f, T, k)
    BY GoesExists
  <2> QED  BY <2>1
<1> HIDE DEF down
<1>3. P \subseteq Node /\ NULL \notin Node /\ \A n \in P : n \in sub[n] /\ sub[n] \subseteq P
  BY RBTreeAssumption DEF SearchTree, Sets, Grown
<1>4. \A n \in P : down[n] = IF key[n] = k THEN [node |-> n, parent |-> n]
                             ELSE IF nx(n) = NULL THEN [node |-> NULL, parent |-> n]
                             ELSE down[nx(n)]
  BY <1>2, <1>3 DEF Goes, Toward
<1>5. \A n \in P : Toward(k, n) \in Side /\ nx(n) \in P \cup {NULL}
  BY <1>3, TowardSide DEF SearchTree, KidsIn
<1>6. CASE P = {}
  <2>1. Search(T, k) = [node |-> NULL, parent |-> NULL]
    BY <1>1, <1>6 DEF SearchTree, Hung
  <2> QED  BY <1>6, <2>1 DEF PlaceFor
<1>7. CASE P # {}
  <2>1. T.root \in P /\ sub[T.root] = P
    BY <1>7 DEF SearchTree, Hung
  <2>2. Search(T, k) = down[T.root]
    BY <1>1, <1>3, <2>1
  <2>3. ASSUME NEW h \in P, key[h] = k
        PROVE  Search(T, k).node \in P
    <3> DEFINE B == {n \in P : h \in sub[n] /\ down[n].node \notin P}
    <3>1. ASSUME NEW n \in B PROVE \E d \in Side : T.kid[d][n] \in B
      <4>1. key[n] # k
        <5>1. n \in P /\ down[n].node \notin P
          OBVIOUS
        <5>2. key[n] = k => down[n] = [node |-> n, parent |-> n]
          BY <1>4, <5>1
        <5> QED  BY <5>1, <5>2
      <4>2. h \in Hits(sub, k, n)
        BY <2>3 DEF Hits
      <4>3. nx(n) # NULL /\ Hits(sub, k, n) = Hits(sub, k, nx(n))
        BY <4>1, <4>2, NextHits
      <4>4. nx(n) \in P /\ h \in sub[nx(n)] /\ down[nx(n)] = down[n]
        BY <1>4, <1>5, <4>1, <4>2, <4>3 DEF Hits
      <4> QED  BY <1>5, <4>4
    <3>2. B = {}
      <4> HIDE DEF B
      <4>1. B \in SUBSET P
        BY DEF B
      <4> QED  BY <3>1, <4>1, Induct
    <3> QED  BY <2>1, <2>2, <3>2
  <2>4. ASSUME \A x \in P : key[x] # k
        PROVE  /\ Search(T, k).node = NULL
               /\ PlaceFor(T, P, key, sub, k, Search(T, k).parent, Toward(k, Search(T, k).parent))
    <3> DEFINE Fits(n, p) ==
                 /\ p \in sub[n] /\ nx(p) = NULL
                 /\ \A a \in sub[n] : \A e \in Side :
                      p \in Below(sub, T.kid[e][a]) => Before(e, k, key[a])
               B == {n \in P : ~ (down[n].node = NULL /\ Fits(n, down[n].parent))}
    <3>1. \A n \in P : key[n] \in Int
      BY DEF SearchTree, Keyed
    <3>2. ASSUME NEW n \in P, nx(n) = NULL PROVE down[n].node = NULL /\ Fits(n, down[n].parent)
      <4>1. down[n] = [node |-> NULL, parent |-> n]
        BY <1>4, <2>4, <3>2
      <4>2. ASSUME NEW a \in sub[n], NEW e \in Side, n \in Below(sub, T.kid[e][a])
            PROVE  FALSE
        <5>1. a \in P /\ Around(T, P, key, sub, a, e)
          BY <1>3, NodeAround
        <5>2. n \in sub[a] /\ n # a
          BY <4>2, <5>1 DEF Around
        <5> QED  BY <5>1, <5>2, OneAbove
      <4> QED  BY <1>3, <3>2, <4>1, <4>2
    <3>3. ASSUME NEW n \in P, nx(n) # NULL, NEW p, Fits(nx(n), p) PROVE Fits(n, p)
      <4> DEFINE d == Toward(k, n)
                 z == T.kid[Other(d)][n]
      <4>1. nx(n) \in P /\ d \in Side /\ Around(T, P, key, sub, n, d) /\ Other(d) \in Side
        BY <1>5, <3>3, NodeAround, Sides
      <4>2. /\ Below(sub, nx(n)) = sub[nx(n)] /\ p \in sub[nx(n)] /\ p \notin Below(sub, z)
            /\ sub[n] = {n} \cup sub[nx(n)] \cup Below(sub, z)
        BY <3>3, <4>1 DEF Below, Around
      <4>3. ASSUME NEW a \in sub[n], NEW e \in Side, p \in Below(sub, T.kid[e][a])
            PROVE  Before(e, k, key[a])
        <5>1. CASE a = n
          <6>1. e = d
            BY <4>1, <4>2, <4>3, <5>1, Sides
          <6> QED  BY <2>4, <3>1, <5>1, <6>1, TowardFacts
        <5>2. CASE a \in sub[nx(n)]
          BY <3>3, <4>3, <5>2
        <5>3. CASE a \in Below(sub, z)
          <6>1. z \in P /\ Below(sub, z) = sub[z] /\ a \in P
            BY <1>3, <4>1, <5>3 DEF Below, SearchTree, KidsIn
          <6>2. sub[a] \subseteq sub[z]
            BY <5>3, <6>1, BelowBelow
          <6>3. p \in sub[a]
            BY <4>3, <6>1, NodeAround DEF Around
          <6> QED  BY <4>2, <6>1, <6>2, <6>3
        <5> QED  BY <4>2, <5>1, <5>2, <5>3
      <4> QED  BY <3>3, <4>2, <4>3
    <3>4. ASSUME NEW n \in B PROVE \E d \in Side : T.kid[d][n] \in B
      <4>1. nx(n) # NULL
        BY <3>2
      <4>2. nx(n) \in P /\ down[n] = down[nx(n)]
        BY <1>4, <1>5, <2>4, <4>1
      <4>3. nx(n) \in B
        BY <3>3, <4>1, <4>2
      <4> QED  BY <1>5, <4>3
    <3>5. B = {}
      <4> HIDE DEF B
      <4>1. B \in SUBSET P
        BY DEF B
      <4> QED  BY <3>4, <4>1, Induct
    <3> DEFINE p == down[T.root].parent
    <3>6. down[T.root].node = NULL /\ Fits(T.root, p)
      BY <2>1, <3>5
    <3> HIDE DEF p
    <3>7. p \in P /\ Before(Toward(k, p), k, key[p])
      BY <1>3, <2>1, <2>4, <3>1, <3>6, TowardFacts
    <3>8. PlaceFor(T, P, key, sub, k, p, Toward(k, p))
      BY <1>5, <1>7, <2>1, <2>4, <3>6, <3>7 DEF PlaceFor
    <3> QED  BY <2>2, <3>6, <3>8 DEF p
  <2> QED  BY <2>3, <2>4
<1> QED  BY <1>6, <1>7

(* The recursion of Successor.                                             *)
GoesLeft(f, T) ==
  f = [x \in Node |-> IF T.kid["left"][x] = NULL THEN x ELSE f[T.kid["left"][x]]]

Least(K, sub, n) == {y \in sub[n] : \A z \in sub[n] : K[y] =< K[z]}

LEMMA LeftLeast ==
  ASSUME NEW T, NEW P, NEW K, NEW sub, SearchTree(T, P, K, sub), NEW n \in P
  PROVE  Least(K, sub, n) = IF T.kid["left"][n] = NULL THEN {n}
                            ELSE Least(K, sub, T.kid["left"][n])
<1> DEFINE x == T.kid["left"][n]
           z == T.kid["right"][n]
<1>1. /\ sub[n] = {n} \cup Below(sub, x) \cup Below(sub, z) /\ sub[n] \subseteq P
      /\ x \in P \cup {NULL}
  BY DEF SearchTree, Grown, Sets, KidsIn, Side
<1>2. /\ \A y \in Below(sub, x) : K[y] < K[n]
      /\ \A y \in Below(sub, z) : K[y] > K[n]
  BY DEF SearchTree, Sorted, Side, Before
<1>3. (\A y \in P : K[y] \in Int) /\ (\A y, u \in P : K[y] = K[u] => y = u)
  BY DEF SearchTree, Keyed
<1>4. ASSUME x = NULL PROVE Least(K, sub, n) = {n}
  <2>1. sub[n] = {n} \cup Below(sub, z)
    BY <1>1, <1>4 DEF Below
  <2>2. n \in Least(K, sub, n)
    BY <1>1, <1>2, <1>3, <2>1 DEF Least
  <2>3. \A y \in Below(sub, z) : y \notin Least(K, sub, n)
    BY <1>1, <1>2, <1>3, <2>1 DEF Least
  <2>4. Least(K, sub, n) \subseteq sub[n]
    BY DEF Least
  <2> QED  BY <2>1, <2>2, <2>3, <2>4
<1>5. ASSUME x # NULL PROVE Least(K, sub, n) = Least(K, sub, x)
  <2>1. x \in P /\ Below(sub, x) = sub[x] /\ x \in sub[x]
    BY <1>1, <1>5 DEF Below, SearchTree, Grown
  <2>2. ASSUME NEW y \in Least(K, sub, n) PROVE y \in Least(K, sub, x)
    <3>1. y \in sub[n] /\ \A u \in sub[n] : K[y] =< K[u]
      BY <2>2 DEF Least
    <3>2. K[y] =< K[x] /\ K[x] < K[n] /\ K[y] \in Int /\ K[x] \in Int /\ K[n] \in Int
      BY <1>1, <1>2, <1>3, <2>1, <3>1
    <3>3. y # n /\ y \notin Below(sub, z)
      BY <1>2, <3>2
    <3>4. y \in sub[x]
      BY <1>1, <2>1, <3>1, <3>3
    <3> QED  BY <1>1, <2>1, <3>1, <3>4 DEF Least
  <2>3. ASSUME NEW y \in Least(K, sub, x) PROVE y \in Least(K, sub, n)
    <3>1. y \in sub[x] /\ \A u \in sub[x] : K[y] =< K[u]
      BY <2>3 DEF Least
    <3>2. y \in sub[n] /\ K[y] < K[n] /\ K[y] \in Int /\ K[n] \in Int
      BY <1>1, <1>2, <1>3, <2>1, <3>1
    <3>3. \A u \in Below(sub, z) : K[y] =< K[u]
      BY <1>1, <1>2, <1>3, <3>2
    <3>4. \A u \in sub[n] : K[y] =< K[u]
      BY <1>1, <2>1, <3>1, <3>2, <3>3
    <3> QED  BY <3>2, <3>4 DEF Least
  <2> QED  BY <2>2, <2>3
<1> QED  BY <1>4, <1>5

LEMMA GoesLeftExists ==
  ASSUME NEW T, NEW P, NEW K, NEW sub, SearchTree(T, P, K, sub)
  PROVE  \E f : GoesLeft(f, T)
<1> DEFINE nx(n) == T.kid["left"][n]
           D(n) == CHOOSE y \in Least(K, sub, n) : TRUE
           Step(n) == IF nx(n) = NULL THEN n ELSE D(nx(n))
           f == [n \in Node |-> Step(n)]
<1>1. ASSUME NEW n \in P PROVE D(n) = Step(n)
  <2>1. CASE nx(n) = NULL
    <3>1. Least(K, sub, n) = {n}
      BY <2>1, LeftLeast
    <3> QED  BY <2>1, <3>1
  <2>2. CASE nx(n) # NULL
    <3>1. Least(K, sub, n) = Least(K, sub, nx(n))
      BY <2>2, LeftLeast
    <3> QED  BY <2>2, <3>1
  <2> QED  BY <2>1, <2>2
<1>2. /\ \A n \in Node : nx(n) \in P \cup {NULL}
      /\ P \subseteq Node
  BY DEF SearchTree, KidsIn, Sets, Side
<1> HIDE DEF D
<1>3. \A n \in P : f[n] = D(n)
  BY <1>1, <1>2
<1>4. \A n \in Node : Step(n) = IF nx(n) = NULL THEN n ELSE f[nx(n)]
  <2> HIDE DEF f
  <2> QED  BY <1>2, <1>3
<1>5. f = [n \in Node |-> IF nx(n) = NULL THEN n ELSE f[nx(n)]]
  <2>1. f = [n \in Node |-> Step(n)]
    OBVIOUS
  <2> HIDE DEF f, Step
  <2> QED  BY <1>4, <2>1
<1> HIDE DEF f
<1>6. GoesLeft(f, T)
  BY <1>5 DEF GoesLeft
<1> QED  BY <1>6

(* Successor finds the least key of the right subtree.                     *)
LEMMA SuccessorMeans ==
  ASSUME NEW T, NEW P, NEW K, NEW sub, SearchTree(T, P, K, sub),
         NEW n \in P, T.kid["right"][n] # NULL
  PROVE  /\ Successor(T, n) \in Least(K, sub, T.kid["right"][n])
         /\ T.kid["left"][Successor(T, n)] = NULL
<1> DEFINE leftmost == CHOOSE f : GoesLeft(f, T)
           r == T.kid["right"][n]
<1>1. Successor(T, n) = leftmost[r]
  BY DEF Successor, GoesLeft
<1>2. GoesLeft(leftmost, T)
  <2>1. \E f : GoesLeft(f, T)
    BY GoesLeftExists
  <2> QED  BY <2>1
<1> HIDE DEF leftmost
<1>3. /\ P \subseteq Node /\ r \in P
      /\ \A x \in P : T.kid["left"][x] \in P \cup {NULL}
  BY DEF SearchTree, Sets, KidsIn, Side
<1>4. \A x \in P : leftmost[x] = IF T.kid["left"][x] = NULL THEN x
                                 ELSE leftmost[T.kid["left"][x]]
  BY <1>2, <1>3 DEF GoesLeft
<1> DEFINE B == {x \in P : ~ (/\ leftmost[x] \in Least(K, sub, x)
                              /\ T.kid["left"][leftmost[x]] = NULL)}
<1>5. ASSUME NEW x \in B PROVE \E d \in Side : T.kid[d][x] \in B
  <2>1. CASE T.kid["left"][x] = NULL
    <3>1. leftmost[x] = x /\ Least(K, sub, x) = {x}
      BY <1>4, <2>1, LeftLeast
    <3> QED  BY <2>1, <3>1
  <2>2. CASE T.kid["left"][x] # NULL
    <3>1. Least(K, sub, x) = Least(K, sub, T.kid["left"][x])
      BY <2>2, LeftLeast
    <3>2. leftmost[x] = leftmost[T.kid["left"][x]] /\ T.kid["left"][x] \in P
      BY <1>3, <1>4, <2>2
    <3> QED  BY <3>1, <3>2 DEF Side
  <2> QED  BY <2>1, <2>2
<1>6. B = {}
  <2> HIDE DEF B
  <2>1. B \in SUBSET P
    BY DEF B
  <2> QED  BY <1>5, <2>1, Induct
<1> QED  BY <1>1, <1>3, <1>6

(* A node that is not below n stands on the same side of n and of all that *)
(* is below n.                                                             *)
LEMMA Aside ==
  ASSUME NEW T, NEW P, NEW K, NEW sub, SearchTree(T, P, K, sub),
         NEW n \in P, NEW z \in sub[n], NEW y \in P, y \notin sub[n], NEW d \in Side
  PROVE  Before(d, K[y], K[n]) => Before(d, K[y], K[z])
<1> DEFINE Claim == Before(d, K[y], K[n]) => Before(d, K[y], K[z])
           B == {x \in P : n \in sub[x] /\ y \in sub[x] /\ ~ Claim}
<1>1. (\A x \in P : K[x] \in Int /\ sub[x] \subseteq P /\ x \in sub[x]) /\ z \in P
  BY DEF SearchTree, Sets, Keyed, Grown
<1>2. ASSUME NEW x \in B PROVE \E e \in Side : T.kid[e][x] \in B
  <2>1. x \in P /\ n \in sub[x] /\ y \in sub[x] /\ ~ Claim
    BY <1>2
  <2> HIDE DEF B, Claim
  <2>2. x # n
    BY <2>1
  <2>3. PICK e \in Side : n \in Below(sub, T.kid[e][x])
    BY <2>1, <2>2 DEF SearchTree, Grown, Side
  <2>4. /\ Around(T, P, K, sub, x, e) /\ T.kid[e][x] \in P
        /\ Below(sub, T.kid[e][x]) = sub[T.kid[e][x]]
    BY <2>1, <2>3, NodeAround DEF Around, Below
  <2>5. sub[n] \subseteq Below(sub, T.kid[e][x])
    BY <2>3, <2>4, BelowBelow
  <2>6. \A u \in Below(sub, T.kid[e][x]) : Before(e, K[u], K[x])
    BY <2>1 DEF SearchTree, Sorted
  <2>7. Before(e, K[n], K[x]) /\ Before(e, K[z], K[x])
    BY <1>1, <2>5, <2>6
  <2>8. CASE y \in Below(sub, T.kid[e][x])
    BY <2>1, <2>3, <2>4, <2>8 DEF B
  <2>9. CASE y \notin Below(sub, T.kid[e][x])
    <3>1. y = x \/ y \in Below(sub, T.kid[Other(e)][x])
      BY <2>1, <2>4, <2>9 DEF Around
    <3>2. y = x \/ Before(Other(e), K[y], K[x])
      BY <2>1, <3>1, Sides DEF SearchTree, Sorted
    <3>3. Before(Other(e), K[y], K[n]) /\ Before(Other(e), K[y], K[z])
      <4>1. Before(Other(e), K[x], K[n]) /\ Before(Other(e), K[x], K[z])
        BY <1>1, <2>1, <2>7, BeforeFacts
      <4>2. K[x] \in Int /\ K[y] \in Int /\ K[n] \in Int /\ K[z] \in Int /\ Other(e) \in Side
        BY <1>1, <2>1, Sides
      <4> QED  BY <3>2, <4>1, <4>2, BeforeFacts
    <3>4. Claim
      <4>1. d = e \/ d = Other(e)
        BY Sides
      <4>2. K[y] \in Int /\ K[n] \in Int
        BY <1>1
      <4>3. ~ Before(e, K[y], K[n])
        BY <3>3, <4>2, BeforeFacts
      <4> QED  BY <3>3, <4>1, <4>3 DEF Claim
    <3> QED  BY <2>1, <3>4
  <2> QED  BY <2>8, <2>9
<1>3. B = {}
  <2> HIDE DEF B
  <2>1. B \in SUBSET P
    BY DEF B
  <2> QED  BY <1>2, <2>1, Induct
<1>4. P # {} /\ T.root \in P /\ sub[T.root] = P
  BY DEF SearchTree, Hung
<1> QED  BY <1>3, <1>4

(* No key of the tree is between that of n and that of its successor.      *)
LEMMA NextKey ==
  ASSUME NEW T, NEW P, NEW K, NEW sub, SearchTree(T, P, K, sub),
         NEW n \in P, T.kid["right"][n] # NULL, NEW s, s = Successor(T, n)
  PROVE  /\ s \in P /\ s # n /\ s \in sub[T.kid["right"][n]] /\ T.kid["left"][s] = NULL
         /\ \A x \in P \ {n, s} : \A d \in Side : Before(d, K[x], K[n]) => Before(d, K[x], K[s])
<1> DEFINE r == T.kid["right"][n]
           l == T.kid["left"][n]
<1>1. s \in sub[r] /\ (\A z \in sub[r] : K[s] =< K[z]) /\ T.kid["left"][s] = NULL
  BY SuccessorMeans DEF Least
<1>2. /\ "right" \in Side /\ Other("right") = "left" /\ Other("left") = "right"
  BY DEF Side, Other
<1>3. Around(T, P, K, sub, n, "right")
  BY <1>2, NodeAround
<1>4. /\ Below(sub, r) = sub[r] /\ sub[n] = {n} \cup sub[r] \cup Below(sub, l) /\ n \notin sub[r]
      /\ sub[n] \subseteq P
  BY <1>2, <1>3 DEF Around, Below, SearchTree, Sets
<1>5. s \in P /\ s # n /\ s \in sub[n]
  BY <1>1, <1>4
<1>6. /\ \A y \in sub[r] : K[y] > K[n]
      /\ \A y \in Below(sub, l) : K[y] < K[n]
  BY <1>4 DEF SearchTree, Sorted, Side, Before
<1>7. (\A y \in P : K[y] \in Int) /\ (\A y, u \in P : K[y] = K[u] => y = u)
  BY DEF SearchTree, Keyed
<1>8. ASSUME NEW x \in P \ {n, s}, NEW d \in Side, Before(d, K[x], K[n])
      PROVE  Before(d, K[x], K[s])
  <2>1. CASE x \notin sub[n]
    BY <1>5, <1>8, <2>1, Aside
  <2>2. K[x] \in Int /\ K[n] \in Int /\ K[s] \in Int /\ K[x] # K[s] /\ K[s] > K[n]
    BY <1>1, <1>5, <1>6, <1>7
  <2>3. CASE x \in sub[r]
    <3>1. K[s] =< K[x] /\ K[x] > K[n]
      BY <1>1, <1>6, <2>3
    <3> QED  BY <1>8, <2>2, <3>1 DEF Before, Side
  <2>4. CASE x \in Below(sub, l)
    <3>1. K[x] < K[n]
      BY <1>6, <2>4
    <3> QED  BY <1>8, <2>2, <3>1 DEF Before, Side
  <2> QED  BY <1>4, <2>1, <2>3, <2>4
<1> QED  BY <1>1, <1>5, <1>8

(* The recursion of InOrder.                                               *)
Part(g, T, n, d) == IF T.kid[d][n] = NULL THEN <<>> ELSE g[T.kid[d][n]]

Line(g, T, n) == Part(g, T, n, "left") \o <<n>> \o Part(g, T, n, "right")

Walks(f, T) ==
  f = [n \in Node |->
         (IF T.kid["left"][n] = NULL THEN <<>> ELSE f[T.kid["left"][n]])
         \o <<n>> \o
         (IF T.kid["right"][n] = NULL THEN <<>> ELSE f[T.kid["right"][n]])]

LEMMA WalksBelow ==
  ASSUME NEW T, NEW P, NEW K, NEW sub, SearchTree(T, P, K, sub), NEW n \in P
  PROVE  \E g : \A y \in sub[n] : g[y] = Line(g, T, y)
<1> DEFINE Good(x) == \E g : \A y \in sub[x] : g[y] = Line(g, T, y)
           B == {x \in P : ~ Good(x)}
<1>1. ASSUME NEW x \in B, \A d \in Side : T.kid[d][x] \notin B
      PROVE  FALSE
  <2> DEFINE l == T.kid["left"][x]
             r == T.kid["right"][x]
  <2>1. /\ Around(T, P, K, sub, x, "left") /\ Around(T, P, K, sub, x, "right")
        /\ Other("left") = "right" /\ Other("right") = "left"
    BY NodeAround DEF Side, Other
  <2>2. PICK gl : \A y \in Below(sub, l) : gl[y] = Line(gl, T, y)
    BY <1>1, <2>1 DEF Around, Below, Side
  <2>3. PICK gr : \A y \in Below(sub, r) : gr[y] = Line(gr, T, y)
    BY <1>1, <2>1 DEF Around, Below, Side
  <2> DEFINE Whole == (IF l = NULL THEN <<>> ELSE gl[l]) \o <<x>> \o (IF r = NULL THEN <<>> ELSE gr[r])
             g == [y \in sub[x] |-> IF y = x THEN Whole
                                    ELSE IF y \in Below(sub, l) THEN gl[y] ELSE gr[y]]
  <2>4. /\ sub[x] = {x} \cup Below(sub, l) \cup Below(sub, r)
        /\ x \notin Below(sub, l) /\ x \notin Below(sub, r)
        /\ \A y \in Below(sub, r) : y \notin Below(sub, l)
        /\ l # NULL => l \in Below(sub, l)
        /\ r # NULL => r \in Below(sub, r)
    BY <2>1 DEF Around
  <2>5. /\ g[x] = Whole
        /\ \A y \in Below(sub, l) : g[y] = gl[y]
        /\ \A y \in Below(sub, r) : g[y] = gr[y]
    BY <2>4
  <2> HIDE DEF g
  <2>6. \A u \in {l, r} : \A y \in Below(sub, u) : \A d \in Side :
          T.kid[d][y] # NULL => T.kid[d][y] \in Below(sub, u)
    <3> SUFFICES ASSUME NEW u \in {l, r}, NEW y \in Below(sub, u), NEW d \in Side,
                        T.kid[d][y] # NULL
                 PROVE  T.kid[d][y] \in Below(sub, u)
      OBVIOUS
    <3>1. u \in P /\ Below(sub, u) = sub[u] /\ sub[u] \subseteq P
      BY <2>1 DEF Around, Below, SearchTree, Sets
    <3>2. y \in P /\ sub[y] \subseteq sub[u]
      BY <3>1, BelowBelow
    <3>3. T.kid[d][y] \in sub[y]
      BY <3>2, NodeAround DEF Around
    <3> QED  BY <3>1, <3>2, <3>3
  <2>7. ASSUME NEW y \in Below(sub, l) PROVE g[y] = Line(g, T, y)
    <3>1. \A d \in Side : Part(g, T, y, d) = Part(gl, T, y, d)
      BY <2>5, <2>6, <2>7 DEF Part
    <3> QED  BY <2>2, <2>5, <3>1 DEF Line, Side
  <2>8. ASSUME NEW y \in Below(sub, r) PROVE g[y] = Line(g, T, y)
    <3>1. \A d \in Side : Part(g, T, y, d) = Part(gr, T, y, d)
      BY <2>5, <2>6, <2>8 DEF Part
    <3> QED  BY <2>3, <2>5, <3>1 DEF Line, Side
  <2>9. g[x] = Line(g, T, x)
    BY <2>4, <2>5 DEF Line, Part
  <2>10. Good(x)
    BY <2>4, <2>7, <2>8, <2>9
  <2> QED  BY <1>1, <2>10
<1>2. B = {}
  <2>1. \A x \in B : \E d \in Side : T.kid[d][x] \in B
    BY <1>1
  <2>2. B \in SUBSET P
    OBVIOUS
  <2> HIDE DEF B
  <2> QED  BY <2>1, <2>2, Induct
<1> QED  BY <1>2

LEMMA WalksExists ==
  ASSUME NEW T, NEW P, NEW K, NEW sub, SearchTree(T, P, K, sub)
  PROVE  \E f : Walks(f, T)
<1>1. \E g : \A y \in P : g[y] = Line(g, T, y)
  <2>1. CASE P = {}
    BY <2>1
  <2>2. CASE P # {}
    <3>1. T.root \in P /\ sub[T.root] = P
      BY <2>2 DEF SearchTree, Hung
    <3> QED  BY <3>1, WalksBelow
  <2> QED  BY <2>1, <2>2
<1>2. PICK g : \A y \in P : g[y] = Line(g, T, y)
  BY <1>1
<1> DEFINE f == [n \in Node |-> Line(g, T, n)]
<1>3. P \subseteq Node /\ \A n \in Node : \A d \in Side : T.kid[d][n] \in P \cup {NULL}
  BY DEF SearchTree, KidsIn, Sets
<1>4. \A n \in P : f[n] = g[n]
  BY <1>2, <1>3
<1>5. \A n \in Node : Line(g, T, n) = Line(f, T, n)
  <2> HIDE DEF f
  <2>1. \A n \in Node : \A d \in Side : Part(g, T, n, d) = Part(f, T, n, d)
    BY <1>3, <1>4 DEF Part
  <2> QED  BY <2>1 DEF Line, Side
<1>6. f = [n \in Node |-> Line(f, T, n)]
  <2>1. f = [n \in Node |-> Line(g, T, n)]
    OBVIOUS
  <2> HIDE DEF f
  <2> QED  BY <1>5, <2>1
<1> HIDE DEF f
<1>7. Walks(f, T)
  BY <1>6 DEF Walks, Line, Part
<1> QED  BY <1>7

(* The nodes in a sequence.                                                *)
Shown(s) == {s[i] : i \in DOMAIN s}

LEMMA Between ==
  ASSUME NEW a \in Seq(Node), NEW n \in Node, NEW b \in Seq(Node)
  PROVE  LET s == a \o <<n>> \o b
         IN  /\ s \in Seq(Node) /\ Len(s) = Len(a) + 1 + Len(b)
             /\ Shown(s) = {n} \cup Shown(a) \cup Shown(b)
<1> DEFINE c == a \o <<n>>
           s == c \o b
<1>1. <<n>> \in Seq(Node) /\ Len(<<n>>) = 1 /\ <<n>>[1] = n
  OBVIOUS
<1> DEFINE one == <<n>>
<1> HIDE DEF one
<1>2. c = a \o one /\ one \in Seq(Node) /\ Len(one) = 1 /\ one[1] = n
  BY <1>1 DEF one
<1> HIDE DEF c
<1>3. c \in Seq(Node) /\ Len(c) = Len(a) + Len(one)
  BY <1>2, ConcatProperties, Zenon
<1>4. \A i \in 1 .. Len(a) + Len(one) : c[i] = IF i <= Len(a) THEN a[i] ELSE one[i - Len(a)]
  BY <1>2, ConcatProperties, Zenon
<1>5. s = c \o b
  OBVIOUS
<1> HIDE DEF s
<1>6. s \in Seq(Node) /\ Len(s) = Len(c) + Len(b)
  BY <1>3, <1>5, ConcatProperties, Zenon
<1>7. \A i \in 1 .. Len(c) + Len(b) : s[i] = IF i <= Len(c) THEN c[i] ELSE b[i - Len(c)]
  <2>1. c \in Seq(Node) /\ b \in Seq(Node)
    BY <1>3
  <2>2. \A i \in 1 .. Len(c) + Len(b) : (c \o b)[i] = IF i <= Len(c) THEN c[i] ELSE b[i - Len(c)]
    BY <2>1, ConcatProperties, Zenon
  <2> QED  BY <1>5, <2>2
<1>8. /\ Len(a) \in Nat /\ Len(b) \in Nat /\ Len(c) = Len(a) + 1 /\ Len(s) = Len(a) + 1 + Len(b)
      /\ DOMAIN a = 1 .. Len(a) /\ DOMAIN b = 1 .. Len(b) /\ DOMAIN s = 1 .. Len(s)
  BY <1>2, <1>3, <1>6
<1>9. \A i \in 1 .. Len(a) : i \in DOMAIN s /\ s[i] = a[i]
  <2> SUFFICES ASSUME NEW i \in 1 .. Len(a) PROVE i \in DOMAIN s /\ s[i] = a[i]
    OBVIOUS
  <2>1. i \in 1 .. Len(c) + Len(b) /\ i <= Len(c) /\ i <= Len(a) /\ i \in 1 .. Len(a) + Len(one)
    BY <1>2, <1>8
  <2> QED  BY <1>4, <1>6, <1>7, <1>8, <2>1
<1>10. Len(c) \in DOMAIN s /\ s[Len(c)] = n
  <2>1. Len(c) \in 1 .. Len(c) + Len(b) /\ Len(c) \in 1 .. Len(a) + Len(one) /\ ~ (Len(c) <= Len(a))
        /\ Len(c) - Len(a) = 1 /\ Len(c) <= Len(c)
    BY <1>2, <1>8
  <2> QED  BY <1>2, <1>4, <1>6, <1>7, <1>8, <2>1
<1>11. \A i \in 1 .. Len(b) : Len(c) + i \in DOMAIN s /\ s[Len(c) + i] = b[i]
  <2> SUFFICES ASSUME NEW i \in 1 .. Len(b)
               PROVE  Len(c) + i \in DOMAIN s /\ s[Len(c) + i] = b[i]
    OBVIOUS
  <2>1. Len(c) + i \in 1 .. Len(c) + Len(b) /\ ~ (Len(c) + i <= Len(c)) /\ (Len(c) + i) - Len(c) = i
    BY <1>8
  <2> QED  BY <1>6, <1>7, <1>8, <2>1
<1>12. ASSUME NEW i \in DOMAIN s
       PROVE  s[i] = n \/ (\E j \in DOMAIN a : s[i] = a[j]) \/ (\E j \in DOMAIN b : s[i] = b[j])
  <2>1. CASE i \in 1 .. Len(a)
    BY <1>8, <1>9, <2>1
  <2>2. CASE i = Len(c)
    BY <1>10, <2>2
  <2>3. CASE i \notin 1 .. Len(a) /\ i # Len(c)
    <3>1. i - Len(c) \in 1 .. Len(b) /\ Len(c) + (i - Len(c)) = i
      BY <1>8, <2>3
    <3>2. s[Len(c) + (i - Len(c))] = b[i - Len(c)]
      BY <1>11, <3>1
    <3> QED  BY <1>8, <3>1, <3>2
  <2> QED  BY <2>1, <2>2, <2>3
<1>13. Shown(s) = {n} \cup Shown(a) \cup Shown(b)
  <2>1. ASSUME NEW x \in Shown(s)
        PROVE  x \in {n} \cup Shown(a) \cup Shown(b)
    BY <1>12 DEF Shown
  <2>2. n \in Shown(s)
    BY <1>10 DEF Shown
  <2>3. ASSUME NEW x \in Shown(a) PROVE x \in Shown(s)
    BY <1>8, <1>9 DEF Shown
  <2>4. ASSUME NEW x \in Shown(b) PROVE x \in Shown(s)
    BY <1>8, <1>11 DEF Shown
  <2> QED  BY <2>1, <2>2, <2>3, <2>4
<1>14. s = a \o <<n>> \o b
  BY DEF s, c
<1> QED  BY <1>6, <1>8, <1>13, <1>14

(* InOrder shows every node of the tree once.                              *)
LEMMA InOrderMeans ==
  ASSUME NEW T, NEW P, NEW K, NEW sub, SearchTree(T, P, K, sub)
  PROVE  /\ InOrder(T) \in Seq(Node) /\ Len(InOrder(T)) = Cardinality(P)
         /\ Shown(InOrder(T)) = P
<1> DEFINE walk == CHOOSE f : Walks(f, T)
           Good(s, S) == /\ s \in Seq(Node) /\ Len(s) = Cardinality(S)
                         /\ Shown(s) = S
           B == {n \in P : ~ Good(walk[n], sub[n])}
<1>1. InOrder(T) = IF T.root = NULL THEN <<>> ELSE walk[T.root]
  BY DEF InOrder, Walks
<1>2. Walks(walk, T)
  <2>1. \E f : Walks(f, T)
    BY WalksExists
  <2> QED  BY <2>1
<1> HIDE DEF walk
<1>3. /\ P \subseteq Node /\ NULL \notin Node /\ IsFiniteSet(P) /\ \A n \in P : sub[n] \subseteq P
      /\ \A n \in Node : \A d \in Side : T.kid[d][n] \in P \cup {NULL}
  BY RBTreeAssumption DEF SearchTree, Sets, KidsIn
<1>4. \A n \in P : walk[n] = Part(walk, T, n, "left") \o <<n>> \o Part(walk, T, n, "right")
  BY <1>2, <1>3 DEF Walks, Part
<1>5. Good(<<>>, {})
  <2>1. <<>> \in Seq(Node) /\ Len(<<>>) = 0 /\ DOMAIN <<>> = {}
    OBVIOUS
  <2> QED  BY <2>1, FS_EmptySet DEF Shown
<1>6. ASSUME NEW n \in P, \A d \in Side : T.kid[d][n] \notin B
      PROVE  Good(walk[n], sub[n])
  <2> DEFINE l == T.kid["left"][n]
             r == T.kid["right"][n]
             a == Part(walk, T, n, "left")
             b == Part(walk, T, n, "right")
  <2>1. /\ Around(T, P, K, sub, n, "left") /\ Other("left") = "right"
        /\ "left" \in Side /\ "right" \in Side
    BY NodeAround DEF Side, Other
  <2>2. \A d \in Side : Good(Part(walk, T, n, d), Below(sub, T.kid[d][n]))
    <3> SUFFICES ASSUME NEW d \in Side
                 PROVE  Good(Part(walk, T, n, d), Below(sub, T.kid[d][n]))
      OBVIOUS
    <3>1. T.kid[d][n] \in P \cup {NULL} /\ T.kid[d][n] \notin B
      BY <1>3, <1>6
    <3>2. CASE T.kid[d][n] = NULL
      <4>1. Part(walk, T, n, d) = <<>> /\ Below(sub, T.kid[d][n]) = {}
        BY <3>2 DEF Part, Below
      <4> QED  BY <1>5, <4>1
    <3>3. CASE T.kid[d][n] # NULL
      <4>1. /\ Part(walk, T, n, d) = walk[T.kid[d][n]]
            /\ Below(sub, T.kid[d][n]) = sub[T.kid[d][n]]
        BY <3>3 DEF Part, Below
      <4>2. Good(walk[T.kid[d][n]], sub[T.kid[d][n]])
        BY <3>1, <3>3
      <4> QED  BY <4>1, <4>2
    <3> QED  BY <3>2, <3>3
  <2>3. Good(a, Below(sub, l)) /\ Good(b, Below(sub, r))
    BY <2>1, <2>2
  <2>4. walk[n] = a \o <<n>> \o b /\ n \in Node
    BY <1>3, <1>4
  <2>5. /\ sub[n] = {n} \cup Below(sub, l) \cup Below(sub, r)
        /\ n \notin Below(sub, l) /\ n \notin Below(sub, r)
        /\ Below(sub, l) \cap Below(sub, r) = {}
        /\ Below(sub, l) \subseteq P /\ Below(sub, r) \subseteq P
    <3>1. sub[n] = {n} \cup Below(sub, l) \cup Below(sub, r) /\ sub[n] \subseteq P
      BY <1>3, <2>1 DEF Around
    <3>2. n \notin Below(sub, r)
      BY <2>1, NodeAround DEF Around
    <3> QED  BY <2>1, <3>1, <3>2 DEF Around
  <2> HIDE DEF a, b, l, r
  <2>6. /\ walk[n] \in Seq(Node) /\ Len(walk[n]) = Len(a) + 1 + Len(b)
        /\ Shown(walk[n]) = {n} \cup Shown(a) \cup Shown(b)
    <3>1. a \in Seq(Node) /\ b \in Seq(Node)
      BY <2>3
    <3> QED  BY <2>4, <3>1, Between
  <2>7. IsFiniteSet(Below(sub, l)) /\ IsFiniteSet(Below(sub, r))
    BY <1>3, <2>5, FS_Subset
  <2>8. /\ IsFiniteSet(Below(sub, l) \cup Below(sub, r))
        /\ Cardinality(Below(sub, l) \cup Below(sub, r)) =
             Cardinality(Below(sub, l)) + Cardinality(Below(sub, r)) - Cardinality({})
    BY <2>5, <2>7, FS_Union
  <2>9. Cardinality((Below(sub, l) \cup Below(sub, r)) \cup {n}) =
          Cardinality(Below(sub, l) \cup Below(sub, r)) + 1
    BY <2>5, <2>8, FS_AddElement
  <2>10. sub[n] = (Below(sub, l) \cup Below(sub, r)) \cup {n}
    BY <2>5
  <2>11. /\ Len(a) = Cardinality(Below(sub, l)) /\ Len(b) = Cardinality(Below(sub, r))
         /\ Cardinality(Below(sub, l)) \in Nat /\ Cardinality(Below(sub, r)) \in Nat
         /\ Cardinality({}) = 0
    BY <2>3, <2>7, FS_CardinalityType, FS_EmptySet
  <2>12. Len(walk[n]) = Cardinality(sub[n])
    BY <2>6, <2>8, <2>9, <2>10, <2>11
  <2>13. Shown(walk[n]) = sub[n]
    <3>1. Shown(a) = Below(sub, l) /\ Shown(b) = Below(sub, r)
      BY <2>3
    <3> QED  BY <2>5, <2>6, <3>1
  <2> QED  BY <2>6, <2>12, <2>13
<1>7. B = {}
  <2>1. \A n \in B : \E d \in Side : T.kid[d][n] \in B
    BY <1>6
  <2>2. B \in SUBSET P
    OBVIOUS
  <2> HIDE DEF B
  <2> QED  BY <2>1, <2>2, Induct
<1>8. CASE P = {}
  <2>1. InOrder(T) = <<>>
    BY <1>1, <1>8 DEF SearchTree, Hung
  <2> QED  BY <1>5, <1>8, <2>1
<1>9. CASE P # {}
  <2>1. T.root \in P /\ sub[T.root] = P
    BY <1>9 DEF SearchTree, Hung
  <2>2. InOrder(T) = walk[T.root] /\ Good(walk[T.root], P)
    BY <1>1, <1>3, <1>7, <2>1
  <2> QED  BY <2>2
<1> QED  BY <1>8, <1>9

-----------------------------------------------------------------------------
(* Part 4: colors.  b[x] is the number of black nodes on every way from x  *)
(* down, x left out, where one may be lacking on side ld of the node lp.   *)

Rank(T, b, x) == IF x = NULL THEN 0 ELSE b[x] + (IF T.color[x] = "black" THEN 1 ELSE 0)

Lack(x, e, lp, ld) == IF x = lp /\ e = ld THEN 1 ELSE 0

Levels(T, P, b, lp, ld) ==
  /\ b \in [Node -> Nat]
  /\ \A x \in P : \A e \in Side : b[x] = Rank(T, b, T.kid[e][x]) + Lack(x, e, lp, ld)

TwoRed(T, x) == Red(T, x) /\ Red(T, T.parent[x])

LEMMA RankFacts ==
  ASSUME NEW T \in Trees, NEW b \in [Node -> Nat], NEW x \in Node \cup {NULL}
  PROVE  /\ Rank(T, b, x) \in Nat
         /\ Red(T, x) => Rank(T, b, x) = b[x] /\ x \in Node
         /\ ~ Red(T, x) /\ x # NULL => Rank(T, b, x) = b[x] + 1 /\ b[x] \in Nat
         /\ Rank(T, b, NULL) = 0
<1>1. x # NULL => T.color[x] \in {"red", "black"} /\ b[x] \in Nat
  BY TreeFields
<1> QED  BY <1>1 DEF Rank, Red

LEMMA SameRank ==
  ASSUME NEW T, NEW M, NEW b, NEW b2, NEW x,
         x = NULL \/ (M.color[x] = T.color[x] /\ b2[x] = b[x])
  PROVE  Rank(M, b2, x) = Rank(T, b, x) /\ (Red(M, x) <=> Red(T, x))
  BY DEF Rank, Red

(* A rotation around n, between the trees S before the painting and R: only*)
(* n, its kid c and the three subtrees below the two are concerned.        *)
LEMMA RotationLevels ==
  ASSUME NEW T, NEW P, NEW K, NEW sub, SearchTree(T, P, K, sub),
         NEW n \in P, NEW d \in Side, NEW c, T.kid[Other(d)][n] = c, c # NULL,
         NEW m, T.kid[d][c] = m, NEW p, T.parent[n] = p,
         NEW q, T.kid[d][n] = q, NEW r, T.kid[Other(d)][c] = r,
         NEW R, RotatedTo(T, R, n, d, c, m, p),
         NEW S, S \in Trees, \A x \in Node \ {n, c, q, m, r} : R.color[x] = S.color[x],
         NEW b \in [Node -> Nat], NEW b2 \in [Node -> Nat],
         \A x \in Node \ {n, c} : b2[x] = b[x],
         NEW lp, NEW ld,
         \A x \in P \ {n, c} : \A e \in Side :
           b[x] = Rank(S, b, T.kid[e][x]) + Lack(x, e, lp, ld),
         Rank(R, b2, c) = Rank(S, b, n),
         b2[n] = Rank(R, b2, q) + Lack(n, d, lp, ld),
         b2[n] = Rank(R, b2, m) + Lack(n, Other(d), lp, ld),
         b2[c] = Rank(R, b2, n) + Lack(c, d, lp, ld),
         b2[c] = Rank(R, b2, r) + Lack(c, Other(d), lp, ld)
  PROVE  Levels(R, P, b2, lp, ld)
<1> DEFINE o == Other(d)
<1>1. /\ o \in Side /\ o # d /\ P \subseteq Node /\ NULL \notin Node /\ \A e \in Side : e = d \/ e = o
  BY Sides, RBTreeAssumption DEF SearchTree, Sets
<1>2. /\ \A x \in P : \A e \in Side : T.kid[e][x] \in P \cup {NULL}
      /\ \A x \in P : \A e \in Side : T.kid[e][x] # NULL => T.parent[T.kid[e][x]] = x
  BY <1>1 DEF SearchTree, KidsIn, KidsLead
<1>3. c \in P /\ c # n /\ T.parent[c] = n /\ p # c /\ p # n
  <2>1. c \in P /\ c # n /\ T.parent[c] = n
    BY <1>1, NodeAround DEF Around
  <2> QED  BY <1>1, <2>1, Hangs
<1>4. \A e \in Side : \A x \in Node :
        R.kid[e][x] = IF x = n /\ e = o THEN m
                      ELSE IF x = c /\ e = d THEN n
                      ELSE IF x = p /\ T.kid[e][x] = n THEN c ELSE T.kid[e][x]
  BY DEF RotatedTo
<1>5. R.kid[d][n] = q /\ R.kid[o][n] = m /\ R.kid[d][c] = n /\ R.kid[o][c] = r
  BY <1>1, <1>3, <1>4
<1>6. ASSUME NEW x \in P \ {n, c}, NEW e \in Side
      PROVE  b2[x] = Rank(R, b2, R.kid[e][x]) + Lack(x, e, lp, ld)
  <2> DEFINE k == T.kid[e][x]
  <2>1. b2[x] = Rank(S, b, k) + Lack(x, e, lp, ld)
    BY <1>1
  <2>2. CASE k = n
    <3>1. R.kid[e][x] = c
      <4>1. x = p
        BY <1>1, <1>2, <2>2
      <4> QED  BY <1>1, <1>4, <2>2, <4>1
    <3> QED  BY <2>1, <2>2, <3>1
  <2>3. CASE k # n
    <3>1. R.kid[e][x] = k
      BY <1>1, <1>4, <2>3
    <3>2. k = NULL \/ (k \in Node \ {n, c, q, m, r})
      <4>1. k # NULL => k \in P /\ T.parent[k] = x
        BY <1>2
      <4>2. q # NULL => T.parent[q] = n
        BY <1>2
      <4>3. (m # NULL => T.parent[m] = c) /\ (r # NULL => T.parent[r] = c)
        BY <1>1, <1>2, <1>3
      <4> QED  BY <1>1, <1>3, <2>3, <4>1, <4>2, <4>3
    <3>3. Rank(R, b2, k) = Rank(S, b, k)
      BY <3>2, SameRank
    <3> QED  BY <2>1, <3>1, <3>3
  <2> QED  BY <2>2, <2>3
<1>7. ASSUME NEW x \in {n, c}, NEW e \in Side
      PROVE  b2[x] = Rank(R, b2, R.kid[e][x]) + Lack(x, e, lp, ld)
  <2>1. CASE x = n
    <3>1. CASE e = d
      BY <1>5, <2>1, <3>1
    <3>2. CASE e = o
      BY <1>5, <2>1, <3>2
    <3> QED  BY <1>1, <3>1, <3>2
  <2>2. CASE x = c
    <3>1. CASE e = d
      BY <1>5, <2>2, <3>1
    <3>2. CASE e = o
      BY <1>5, <2>2, <3>2
    <3> QED  BY <1>1, <3>1, <3>2
  <2> QED  BY <2>1, <2>2
<1> QED  BY <1>6, <1>7 DEF Levels

LEMMA RotationReds ==
  ASSUME NEW T, NEW P, NEW K, NEW sub, SearchTree(T, P, K, sub),
         NEW n \in P, NEW d \in Side, NEW c, T.kid[Other(d)][n] = c, c # NULL,
         NEW m, T.kid[d][c] = m, NEW p, T.parent[n] = p,
         NEW q, T.kid[d][n] = q, NEW r, T.kid[Other(d)][c] = r,
         NEW R, RotatedTo(T, R, n, d, c, m, p),
         NEW S, S \in Trees, S.parent = T.parent,
         \A x \in Node \ {n, c, q, m, r} : R.color[x] = S.color[x],
         Red(R, q) => Red(S, q), Red(R, m) => Red(S, m), Red(R, r) => Red(S, r)
  PROVE  /\ \A x \in P \ {n, c, q, m, r} : TwoRed(R, x) => TwoRed(S, x)
         /\ TwoRed(R, c) => Red(R, c) /\ Red(S, p)
         /\ TwoRed(R, n) => Red(R, n) /\ Red(R, c)
         /\ q # NULL /\ TwoRed(R, q) => Red(R, q) /\ Red(R, n)
         /\ m # NULL /\ TwoRed(R, m) => Red(R, m) /\ Red(R, n)
         /\ r # NULL /\ TwoRed(R, r) => Red(R, r) /\ Red(R, c)
<1> DEFINE o == Other(d)
<1>1. /\ o \in Side /\ o # d /\ P \subseteq Node /\ NULL \notin Node
  BY Sides, RBTreeAssumption DEF SearchTree, Sets
<1>2. /\ \A x \in P : \A e \in Side : T.kid[e][x] \in P \cup {NULL}
      /\ \A x \in P : \A e \in Side : T.kid[e][x] # NULL => T.parent[T.kid[e][x]] = x
  BY <1>1 DEF SearchTree, KidsIn, KidsLead
<1>3. c \in P /\ c # n /\ T.parent[c] = n
  BY <1>1, NodeAround DEF Around
<1>4. /\ q # NULL => q \in P /\ T.parent[q] = n
      /\ m # NULL => m \in P /\ T.parent[m] = c
      /\ r # NULL => r \in P /\ T.parent[r] = c
      /\ m # NULL => m # r
  <2>1. m # NULL => m # r
    BY <1>3, NodeAround DEF Around
  <2> QED  BY <1>1, <1>2, <1>3, <2>1
<1>5. p # c /\ p # n /\ p \in P \cup {NULL}
  BY <1>1, <1>3, Hangs
<1>6. \A x \in Node : R.parent[x] = IF x = n THEN c ELSE IF x = c THEN p
                                    ELSE IF x = m THEN n ELSE T.parent[x]
  BY DEF RotatedTo
<1>7. \A y \in Node \ {n, c} : Red(R, y) => Red(S, y)
  BY <1>1 DEF Red
<1>8. ~ Red(R, NULL)
  BY DEF Red
<1>9. ASSUME NEW x \in P \ {n, c, q, m, r}, TwoRed(R, x) PROVE TwoRed(S, x)
  <2> DEFINE y == T.parent[x]
  <2>1. y \in P \cup {NULL} /\ HangsFrom(T, x, y)
    BY Hangs
  <2>2. y # n /\ y # c
    <3> SUFFICES ASSUME y = n \/ y = c PROVE FALSE
      OBVIOUS
    <3>1. y # NULL
      BY <1>1, <1>3
    <3>2. PICK e \in Side : T.kid[e][y] = x
      BY <2>1, <3>1 DEF HangsFrom
    <3>3. e = d \/ e = o
      BY Sides
    <3> QED  BY <3>2, <3>3
  <2>3. R.parent[x] = y /\ Red(R, x) /\ Red(R, y)
    BY <1>1, <1>6, <1>9 DEF TwoRed
  <2>4. y \in Node \ {n, c} /\ x \in Node \ {n, c}
    BY <1>1, <1>8, <2>1, <2>2, <2>3
  <2>5. Red(S, x) /\ Red(S, y)
    BY <1>7, <2>3, <2>4
  <2> QED  BY <2>5 DEF TwoRed
<1>10. TwoRed(R, c) => Red(R, c) /\ Red(S, p)
  BY <1>1, <1>3, <1>5, <1>6, <1>7, <1>8 DEF TwoRed
<1>11. TwoRed(R, n) => Red(R, n) /\ Red(R, c)
  BY <1>1, <1>6 DEF TwoRed
<1>12. q # NULL /\ TwoRed(R, q) => Red(R, q) /\ Red(R, n)
  <2> SUFFICES ASSUME q # NULL PROVE R.parent[q] = n
    BY DEF TwoRed
  <2>1. q \in P /\ T.parent[q] = n /\ q # n /\ q # c
    BY <1>3, <1>4, NodeAround DEF Around
  <2>2. q # m
    BY <1>3, <1>4, <2>1
  <2> QED  BY <1>1, <1>6, <2>1, <2>2
<1>13. m # NULL /\ TwoRed(R, m) => Red(R, m) /\ Red(R, n)
  <2> SUFFICES ASSUME m # NULL PROVE R.parent[m] = n
    BY DEF TwoRed
  <2>1. m # n /\ m # c
    <3>1. m # c
      BY <1>3, NodeAround DEF Around
    <3> QED  BY <1>4, <1>5, <3>1
  <2> QED  BY <1>1, <1>4, <1>6, <2>1
<1>14. r # NULL /\ TwoRed(R, r) => Red(R, r) /\ Red(R, c)
  <2> SUFFICES ASSUME r # NULL PROVE R.parent[r] = c
    BY DEF TwoRed
  <2>1. r # n /\ r # c
    <3>1. r # c
      BY <1>1, <1>3, NodeAround DEF Around
    <3> QED  BY <1>4, <1>5, <3>1
  <2> QED  BY <1>1, <1>4, <1>6, <2>1
<1> QED  BY <1>9, <1>10, <1>11, <1>12, <1>13, <1>14

(* The nodes that a rotation is about.                                     *)
Turn(T, P, n, d, c, m, p, q, r) ==
  /\ T.kid[d][n] = q /\ T.kid[Other(d)][n] = c /\ T.kid[d][c] = m /\ T.kid[Other(d)][c] = r
  /\ T.parent[n] = p /\ T.parent[c] = n
  /\ n \in P /\ c \in P /\ c # n
  /\ \A x \in {q, m, r} : x \in P \cup {NULL} /\ x # n /\ x # c
  /\ p \in P \cup {NULL} /\ p # n /\ p # c
  /\ q # NULL => T.parent[q] = n
  /\ m # NULL => T.parent[m] = c /\ m # q
  /\ r # NULL => T.parent[r] = c /\ r # q /\ r # m

LEMMA TurnMeans ==
  ASSUME NEW T, NEW P, NEW K, NEW sub, SearchTree(T, P, K, sub),
         NEW n \in P, NEW d \in Side, NEW c, T.kid[Other(d)][n] = c, c # NULL
  PROVE  Turn(T, P, n, d, c, T.kid[d][c], T.parent[n], T.kid[d][n], T.kid[Other(d)][c])
<1> DEFINE o == Other(d)
           m == T.kid[d][c]
           p == T.parent[n]
           q == T.kid[d][n]
           r == T.kid[o][c]
<1>1. o \in Side /\ Other(o) = d
  BY Sides
<1>2. Around(T, P, K, sub, n, d) /\ Around(T, P, K, sub, n, o)
  BY <1>1, NodeAround
<1>3. c \in P /\ c # n /\ T.parent[c] = n /\ c # q
  BY <1>1, <1>2 DEF Around
<1>4. Around(T, P, K, sub, c, d) /\ Around(T, P, K, sub, c, o)
  BY <1>1, <1>3, NodeAround
<1>5. p \in P \cup {NULL} /\ p # n /\ p # c
  BY <1>1, <1>3, Hangs
<1>6. m # NULL => m # n
  <2>1. T.parent[n] # c
    BY <1>5
  <2> QED  BY <1>4, <2>1 DEF Around
<1>7. r # NULL => r # n
  BY <1>4, <1>5 DEF Around
<1>8. NULL \notin P
  BY RBTreeAssumption DEF SearchTree, Sets
<1>9. /\ q \in P \cup {NULL} /\ q # n /\ q # c /\ (q # NULL => T.parent[q] = n)
  BY <1>2, <1>3, <1>8 DEF Around
<1>10. /\ m \in P \cup {NULL} /\ m # n /\ m # c /\ (m # NULL => T.parent[m] = c /\ m # r)
       /\ r \in P \cup {NULL} /\ r # n /\ r # c /\ (r # NULL => T.parent[r] = c)
  BY <1>3, <1>4, <1>6, <1>7, <1>8 DEF Around
<1>11. (m # NULL => m # q) /\ (r # NULL => r # q /\ r # m)
  BY <1>3, <1>9, <1>10
<1> QED  BY <1>3, <1>5, <1>9, <1>10, <1>11 DEF Turn

(* Two paintings in one.                                                   *)
PaintedTo(T, M, x, c, y, e) ==
  /\ M \in Trees /\ M.root = T.root /\ M.kid = T.kid /\ M.parent = T.parent
  /\ \A z \in Node : M.color[z] = IF z = x THEN c ELSE IF z = y THEN e ELSE T.color[z]

LEMMA PaintTwo ==
  ASSUME NEW T \in Trees, NEW x \in Node, NEW y \in Node, x # y,
         NEW c \in {"red", "black"}, NEW e \in {"red", "black"}
  PROVE  PaintedTo(T, [T EXCEPT !.color[x] = c, !.color[y] = e], x, c, y, e)
<1> DEFINE M1 == Painted(T, x, c)
           M2 == Painted(M1, y, e)
<1>1. x # NULL /\ y # NULL
  BY RBTreeAssumption
<1>2. [T EXCEPT !.color[x] = c, !.color[y] = e] = M2
  BY <1>1 DEF Painted
<1>3. ColorSet(T, M1, x, c)
  BY SetColor
<1>4. M1 \in Trees
  BY <1>3, InTrees
<1> HIDE DEF M1
<1>5. ColorSet(M1, M2, y, e)
  BY <1>4, SetColor
<1> HIDE DEF M2
<1>6. PaintedTo(T, M2, x, c, y, e)
  BY <1>3, <1>5 DEF ColorSet, PaintedTo
<1> QED  BY <1>2, <1>6

(* The links of other nodes than P stay as they are.                       *)
SameOutside(T, M, P) ==
  \A x \in Node \ P : M.parent[x] = T.parent[x] /\ \A e \in Side : M.kid[e][x] = T.kid[e][x]

LEMMA RotatedOutside ==
  ASSUME NEW T, NEW R, NEW P, NEW n, NEW d, NEW c, NEW m, NEW p, NEW q, NEW r,
         RotatedTo(T, R, n, d, c, m, p), Turn(T, P, n, d, c, m, p, q, r)
  PROVE  SameOutside(T, R, P)
  BY RBTreeAssumption DEF RotatedTo, Turn, SameOutside

ColorsApart(S, R, X) == \A x \in Node \ X : R.color[x] = S.color[x]

LevelsApart(S, T, P, b, X, lp, ld) ==
  \A x \in P \ X : \A e \in Side : b[x] = Rank(S, b, T.kid[e][x]) + Lack(x, e, lp, ld)

LEMMA TurnLevels ==
  ASSUME NEW T, NEW P, NEW K, NEW sub, SearchTree(T, P, K, sub),
         NEW n, NEW d \in Side, NEW c, NEW m, NEW p, NEW q, NEW r,
         Turn(T, P, n, d, c, m, p, q, r), NEW R, RotatedTo(T, R, n, d, c, m, p),
         NEW S \in Trees, ColorsApart(S, R, {n, c, q, m, r}),
         NEW b \in [Node -> Nat], NEW b2 \in [Node -> Nat],
         \A x \in Node \ {n, c} : b2[x] = b[x],
         NEW lp, NEW ld, LevelsApart(S, T, P, b, {n, c}, lp, ld),
         Rank(R, b2, c) = Rank(S, b, n),
         b2[n] = Rank(R, b2, q) + Lack(n, d, lp, ld),
         b2[n] = Rank(R, b2, m) + Lack(n, Other(d), lp, ld),
         b2[c] = Rank(R, b2, n) + Lack(c, d, lp, ld),
         b2[c] = Rank(R, b2, r) + Lack(c, Other(d), lp, ld)
  PROVE  Levels(R, P, b2, lp, ld)
<1>1. /\ n \in P /\ c # NULL /\ T.kid[Other(d)][n] = c /\ T.kid[d][c] = m /\ T.parent[n] = p
      /\ T.kid[d][n] = q /\ T.kid[Other(d)][c] = r
  <2>1. NULL \notin P
    BY RBTreeAssumption DEF SearchTree, Sets
  <2> QED  BY <2>1 DEF Turn
<1>2. \A x \in Node \ {n, c, q, m, r} : R.color[x] = S.color[x]
  BY DEF ColorsApart
<1>3. \A x \in P \ {n, c} : \A e \in Side :
        b[x] = Rank(S, b, T.kid[e][x]) + Lack(x, e, lp, ld)
  BY DEF LevelsApart
<1> QED  BY <1>1, <1>2, <1>3, RotationLevels

LEMMA TurnReds ==
  ASSUME NEW T, NEW P, NEW K, NEW sub, SearchTree(T, P, K, sub),
         NEW n, NEW d \in Side, NEW c, NEW m, NEW p, NEW q, NEW r,
         Turn(T, P, n, d, c, m, p, q, r), NEW R, RotatedTo(T, R, n, d, c, m, p),
         NEW S \in Trees, S.parent = T.parent, ColorsApart(S, R, {n, c, q, m, r}),
         Red(R, q) => Red(S, q), Red(R, m) => Red(S, m), Red(R, r) => Red(S, r),
         \A x \in P \ {n, c, q, m, r} : ~ TwoRed(S, x),
         ~ (Red(R, c) /\ Red(S, p)), ~ (Red(R, q) /\ Red(R, n)), ~ (Red(R, m) /\ Red(R, n)),
         ~ (Red(R, r) /\ Red(R, c))
  PROVE  \A x \in P : TwoRed(R, x) => x = n /\ Red(R, n) /\ Red(R, c)
<1>1. /\ n \in P /\ c # NULL /\ T.kid[Other(d)][n] = c /\ T.kid[d][c] = m /\ T.parent[n] = p
      /\ T.kid[d][n] = q /\ T.kid[Other(d)][c] = r /\ NULL \notin P
  <2>1. NULL \notin P
    BY RBTreeAssumption DEF SearchTree, Sets
  <2> QED  BY <2>1 DEF Turn
<1>2. \A x \in Node \ {n, c, q, m, r} : R.color[x] = S.color[x]
  BY DEF ColorsApart
<1>3. /\ \A x \in P \ {n, c, q, m, r} : TwoRed(R, x) => TwoRed(S, x)
      /\ TwoRed(R, c) => Red(R, c) /\ Red(S, p)
      /\ TwoRed(R, n) => Red(R, n) /\ Red(R, c)
      /\ q # NULL /\ TwoRed(R, q) => Red(R, q) /\ Red(R, n)
      /\ m # NULL /\ TwoRed(R, m) => Red(R, m) /\ Red(R, n)
      /\ r # NULL /\ TwoRed(R, r) => Red(R, r) /\ Red(R, c)
  BY <1>1, <1>2, RotationReds
<1> QED  BY <1>1, <1>3

Ordered(T, P, K) == \E sub : SearchTree(T, P, K, sub)

(* The tree in the loop of erase: below p a black node lacks on side d,    *)
(* where a hangs.                                                          *)
Lacking(T, P, K, b, a, p, d) ==
  /\ Ordered(T, P, K) /\ Levels(T, P, b, p, d)
  /\ \A x \in P : ~ TwoRed(T, x)
  /\ ~ Red(T, T.root) /\ ~ Red(T, a)
  /\ p \in P /\ d \in Side /\ T.kid[d][p] = a

(* The sibling of a then exists.                                           *)
LEMMA LackingSibling ==
  ASSUME NEW T, NEW P, NEW K, NEW b, NEW a, NEW p, NEW d, Lacking(T, P, K, b, a, p, d)
  PROVE  /\ T.kid[Other(d)][p] \in P /\ T.kid[Other(d)][p] # NULL
         /\ Rank(T, b, T.kid[Other(d)][p]) = b[p]
         /\ Rank(T, b, a) = b[p] - 1 /\ b[p] \in Nat /\ b[p] - 1 \in Nat
<1>1. PICK sub : SearchTree(T, P, K, sub)
  BY DEF Lacking, Ordered
<1>2. p \in P /\ d \in Side /\ T.kid[d][p] = a /\ Levels(T, P, b, p, d) /\ Other(d) \in Side /\ Other(d) # d
  BY Sides DEF Lacking
<1>3. T \in Trees /\ b \in [Node -> Nat] /\ p \in Node /\ a \in Node \cup {NULL}
  BY <1>1, <1>2, TreeFields DEF SearchTree, Sets, Levels
<1>4. /\ b[p] = Rank(T, b, a) + 1
      /\ b[p] = Rank(T, b, T.kid[Other(d)][p])
  <2>1. /\ b[p] = Rank(T, b, a) + Lack(p, d, p, d)
        /\ b[p] = Rank(T, b, T.kid[Other(d)][p]) + Lack(p, Other(d), p, d)
    BY <1>2 DEF Levels
  <2>2. Rank(T, b, T.kid[Other(d)][p]) \in Nat
    BY <1>2, <1>3, RankFacts, TreeFields
  <2> QED  BY <1>2, <2>1, <2>2 DEF Lack
<1>5. Rank(T, b, a) \in Nat
  BY <1>3, RankFacts
<1>6. T.kid[Other(d)][p] # NULL
  BY <1>4, <1>5 DEF Rank
<1>7. T.kid[Other(d)][p] \in P
  BY <1>1, <1>2, <1>3, <1>6 DEF SearchTree, KidsIn
<1> QED  BY <1>3, <1>4, <1>5, <1>6, <1>7

(* The facts a rotation in the loop of erase starts from: the kid of a red *)
(* node is not red, the parent of a red node is not red.                   *)
LEMMA NotBothRed ==
  ASSUME NEW T, NEW P, \A z \in P : ~ TwoRed(T, z),
         NEW x \in P, NEW y, T.parent[x] = y
  PROVE  Red(T, x) => ~ Red(T, y)
<1>1. ~ (Red(T, x) /\ Red(T, T.parent[x]))
  BY DEF TwoRed
<1> QED  BY <1>1

Turned(T, R, P, K, n, d, c, m, p, q, r) ==
  /\ RotatedTo(T, R, n, d, c, m, p) /\ Ordered(R, P, K) /\ SameOutside(T, R, P)
  /\ R \in Trees /\ R.color = T.color /\ R.root = IF p = NULL THEN c ELSE T.root
  /\ R.kid[d][n] = q /\ R.kid[Other(d)][n] = m /\ R.kid[d][c] = n /\ R.kid[Other(d)][c] = r
  /\ R.parent[n] = c /\ R.parent[c] = p

LEMMA TurnTurns ==
  ASSUME NEW T, NEW P, NEW K, NEW sub, SearchTree(T, P, K, sub),
         NEW n, NEW d \in Side, NEW c, NEW m, NEW p, NEW q, NEW r,
         Turn(T, P, n, d, c, m, p, q, r)
  PROVE  Turned(T, Rotated(T, n, d), P, K, n, d, c, m, p, q, r)
<1> DEFINE R == Rotated(T, n, d)
<1>1. /\ n \in P /\ c # NULL /\ T.kid[Other(d)][n] = c /\ T.kid[d][c] = m /\ T.parent[n] = p
      /\ T.kid[d][n] = q /\ T.kid[Other(d)][c] = r /\ c # n /\ p # n /\ p # c
      /\ n \in Node /\ c \in Node
  <2>1. NULL \notin P /\ P \subseteq Node
    BY RBTreeAssumption DEF SearchTree, Sets
  <2> QED  BY <2>1 DEF Turn
<1>2. RotatedTo(T, R, n, d, c, m, p) /\ Ordered(R, P, K)
  BY <1>1, RotationKeeps DEF Ordered
<1> HIDE DEF R
<1>3. SameOutside(T, R, P)
  BY <1>2, RotatedOutside
<1>4. R \in Trees /\ R.color = T.color /\ R.root = IF p = NULL THEN c ELSE T.root
  BY <1>2 DEF RotatedTo
<1>5. Other(d) \in Side /\ Other(d) # d
  BY Sides
<1>6. /\ R.kid[d][n] = q /\ R.kid[Other(d)][n] = m /\ R.kid[d][c] = n /\ R.kid[Other(d)][c] = r
      /\ R.parent[n] = c /\ R.parent[c] = p
  BY <1>1, <1>2, <1>5 DEF RotatedTo
<1>7. Turned(T, R, P, K, n, d, c, m, p, q, r)
  BY <1>2, <1>3, <1>4, <1>6 DEF Turned
<1> QED  BY <1>7 DEF R

(* With a tree, its painted copy is one, around the same nodes.            *)
LEMMA PaintedTree ==
  ASSUME NEW T, NEW P, NEW K, NEW sub, SearchTree(T, P, K, sub),
         NEW U, U \in Trees, U.root = T.root, U.kid = T.kid, U.parent = T.parent
  PROVE  /\ SearchTree(U, P, K, sub)
         /\ \A n, d, c, m, p, q, r :
              Turn(T, P, n, d, c, m, p, q, r) => Turn(U, P, n, d, c, m, p, q, r)
         /\ \A R : SameOutside(U, R, P) => SameOutside(T, R, P)
<1>1. SearchTree(U, P, K, sub)
  BY PaintKeeps
<1> QED  BY <1>1 DEF Turn, SameOutside

LEMMA LevelAt ==
  ASSUME NEW T \in Trees, NEW P, P \subseteq Node, NEW b, NEW lp, NEW ld, Levels(T, P, b, lp, ld),
         NEW x \in P, NEW e \in Side, x # lp \/ e # ld
  PROVE  b[x] = Rank(T, b, T.kid[e][x]) /\ b[x] \in Nat
<1>1. b \in [Node -> Nat] /\ b[x] = Rank(T, b, T.kid[e][x]) + Lack(x, e, lp, ld)
  BY DEF Levels
<1>2. Rank(T, b, T.kid[e][x]) \in Nat
  BY <1>1, RankFacts, TreeFields
<1> QED  BY <1>1, <1>2 DEF Lack

(* A red sibling is rotated above the parent: a black one takes its place. *)
LEMMA RedSiblingTurn ==
  ASSUME NEW T, NEW P, NEW K, NEW b, NEW a, NEW n, NEW d, Lacking(T, P, K, b, a, n, d),
         NEW c, NEW m, NEW p, NEW r, Turn(T, P, n, d, c, m, p, a, r), Red(T, c),
         NEW U, PaintedTo(T, U, c, "black", n, "red"),
         NEW R, Turned(U, R, P, K, n, d, c, m, p, a, r)
  PROVE  /\ Lacking(R, P, K, b, a, n, d)
         /\ R.kid[Other(d)][n] = m /\ m \in P /\ ~ Red(R, m) /\ Red(R, n)
<1> DEFINE o == Other(d)
<1>1. PICK sub : SearchTree(T, P, K, sub)
  BY DEF Lacking, Ordered
<1>2. /\ n \in P /\ d \in Side /\ T.kid[d][n] = a /\ Levels(T, P, b, n, d)
      /\ (\A x \in P : ~ TwoRed(T, x)) /\ ~ Red(T, T.root) /\ ~ Red(T, a)
      /\ o \in Side /\ o # d
  BY Sides DEF Lacking
<1>3. T \in Trees /\ b \in [Node -> Nat] /\ P \subseteq Node /\ NULL \notin Node
  BY <1>1, <1>2, RBTreeAssumption DEF SearchTree, Sets, Levels
<1>4. /\ c \in P /\ c # n /\ T.parent[c] = n /\ p # n /\ p # c /\ p \in P \cup {NULL}
      /\ a \in P \cup {NULL} /\ m \in P \cup {NULL} /\ r \in P \cup {NULL}
      /\ a # n /\ a # c /\ m # n /\ m # c /\ r # n /\ r # c
      /\ (m # NULL => T.parent[m] = c) /\ (r # NULL => T.parent[r] = c)
      /\ T.kid[o][n] = c /\ T.kid[d][c] = m /\ T.kid[o][c] = r /\ T.parent[n] = p
  BY DEF Turn
<1>5. /\ U \in Trees /\ U.root = T.root /\ U.kid = T.kid /\ U.parent = T.parent
      /\ U.color[c] = "black" /\ U.color[n] = "red"
      /\ \A x \in Node \ {n, c} : U.color[x] = T.color[x]
  BY <1>2, <1>3, <1>4 DEF PaintedTo
<1>6. /\ SearchTree(U, P, K, sub) /\ Turn(U, P, n, d, c, m, p, a, r)
  BY <1>1, <1>5, PaintedTree
<1>7. /\ RotatedTo(U, R, n, d, c, m, p) /\ R \in Trees /\ R.color = U.color
      /\ R.root = IF p = NULL THEN c ELSE T.root
      /\ R.kid[d][n] = a /\ R.kid[o][n] = m /\ Ordered(R, P, K)
  BY <1>5 DEF Turned
<1>8. Red(R, n) /\ ~ Red(R, c)
  BY <1>2, <1>3, <1>5, <1>7 DEF Red
<1>9. \A x \in {a, m, r} : Rank(R, b, x) = Rank(T, b, x) /\ (Red(R, x) <=> Red(T, x))
  <2>1. \A x \in {a, m, r} : x = NULL \/ R.color[x] = T.color[x]
    BY <1>3, <1>4, <1>5, <1>7
  <2> QED  BY <2>1, SameRank
<1>10. ~ Red(T, n) /\ ~ Red(T, m) /\ ~ Red(T, r)
  <2>1. ~ Red(T, n)
    BY <1>2, <1>4, NotBothRed
  <2>2. m # NULL => ~ Red(T, m)
    BY <1>2, <1>4, NotBothRed
  <2>3. r # NULL => ~ Red(T, r)
    BY <1>2, <1>4, NotBothRed
  <2> QED  BY <2>1, <2>2, <2>3 DEF Red
<1>11. /\ b[n] = Rank(T, b, a) + 1 /\ b[c] = b[n] /\ b[n] \in Nat /\ Rank(T, b, n) = b[n] + 1
       /\ Rank(R, b, n) = b[n] /\ Rank(R, b, c) = b[c] + 1
  <2>1. Rank(T, b, a) = b[n] - 1 /\ Rank(T, b, c) = b[n] /\ b[n] \in Nat
    BY <1>4, LackingSibling
  <2>2. c \in Node /\ n \in Node /\ n # NULL /\ c # NULL
    BY <1>2, <1>3, <1>4
  <2>3. Rank(T, b, c) = b[c] /\ Rank(T, b, n) = b[n] + 1
    BY <1>3, <1>10, <2>2, RankFacts
  <2>4. Rank(R, b, n) = b[n] /\ Rank(R, b, c) = b[c] + 1
    BY <1>3, <1>7, <1>8, <2>2, RankFacts
  <2>5. b[c] = b[n]
    BY <2>1, <2>3
  <2>6. b[n] = Rank(T, b, a) + 1
    BY <2>1
  <2> QED  BY <2>1, <2>3, <2>4, <2>5, <2>6
<1>12. b[c] = Rank(T, b, m) /\ b[c] = Rank(T, b, r)
  <2>1. \A e \in Side : b[c] = Rank(T, b, T.kid[e][c])
    <3> SUFFICES ASSUME NEW e \in Side PROVE b[c] = Rank(T, b, T.kid[e][c])
      OBVIOUS
    <3>1. c \in P /\ (c # n \/ e # d) /\ Levels(T, P, b, n, d)
      BY <1>2, <1>4
    <3> QED  BY <1>3, <3>1, LevelAt
  <2>2. b[c] = Rank(T, b, T.kid[d][c]) /\ b[c] = Rank(T, b, T.kid[o][c])
    BY <1>2, <2>1
  <2> QED  BY <1>4, <2>2
<1>13. Levels(R, P, b, n, d)
  <2>1. Lack(n, d, n, d) = 1 /\ Lack(n, o, n, d) = 0 /\ Lack(c, d, n, d) = 0 /\ Lack(c, o, n, d) = 0
    BY <1>2, <1>4 DEF Lack
  <2>2. /\ b[n] = Rank(R, b, a) + Lack(n, d, n, d)
        /\ b[n] = Rank(R, b, m) + Lack(n, o, n, d)
        /\ b[c] = Rank(R, b, n) + Lack(c, d, n, d)
        /\ b[c] = Rank(R, b, r) + Lack(c, o, n, d)
        /\ Rank(R, b, c) = Rank(T, b, n)
    <3>1. Rank(R, b, a) = Rank(T, b, a) /\ Rank(R, b, m) = Rank(T, b, m) /\ Rank(R, b, r) = Rank(T, b, r)
      BY <1>9
    <3>2. Rank(R, b, m) = b[n] /\ b[c] = b[n] /\ Rank(R, b, n) = b[n] /\ Rank(R, b, r) = b[n]
      BY <1>11, <1>12, <3>1, Zenon
    <3>3. b[n] + 0 = b[n]
      BY <1>11
    <3>4. b[n] = Rank(R, b, a) + 1 /\ Rank(R, b, c) = Rank(T, b, n)
      BY <1>11, <3>1, Zenon
    <3>5. /\ b[n] = Rank(R, b, a) + Lack(n, d, n, d)
          /\ b[n] = Rank(R, b, m) + Lack(n, o, n, d)
      BY <2>1, <3>2, <3>3, <3>4, Zenon
    <3>6. /\ b[c] = Rank(R, b, n) + Lack(c, d, n, d)
          /\ b[c] = Rank(R, b, r) + Lack(c, o, n, d)
      BY <2>1, <3>2, <3>3, Zenon
    <3> QED  BY <3>4, <3>5, <3>6
  <2>3. LevelsApart(T, U, P, b, {n, c}, n, d)
    BY <1>2, <1>5 DEF Levels, LevelsApart
  <2>4. ColorsApart(T, R, {n, c, a, m, r})
    BY <1>5, <1>7 DEF ColorsApart
  <2>5. \A x \in Node \ {n, c} : b[x] = b[x]
    OBVIOUS
  <2> QED  BY <1>2, <1>3, <1>6, <1>7, <2>2, <2>3, <2>4, <2>5, TurnLevels
<1>14. \A x \in P : ~ TwoRed(R, x)
  <2>1. ColorsApart(T, R, {n, c, a, m, r})
    BY <1>5, <1>7 DEF ColorsApart
  <2>2. \A x \in P : TwoRed(R, x) => x = n /\ Red(R, n) /\ Red(R, c)
    BY <1>2, <1>3, <1>5, <1>6, <1>7, <1>8, <1>9, <1>10, <2>1, TurnReds
  <2> QED  BY <1>8, <2>2
<1>15. ~ Red(R, R.root)
  <2>1. CASE p = NULL
    BY <1>7, <1>8, <2>1
  <2>2. CASE p # NULL
    <3>1. T.parent[T.root] = NULL /\ T.root \in P
      BY <1>1, <1>2 DEF SearchTree, Hung
    <3>2. T.root \in Node \ {n, c}
      BY <1>2, <1>3, <1>4, <2>2, <3>1
    <3>3. R.root = T.root /\ R.color[T.root] = T.color[T.root]
      BY <1>5, <1>7, <2>2, <3>2
    <3> QED  BY <1>2, <3>3 DEF Red
  <2> QED  BY <2>1, <2>2
<1>16. Lacking(R, P, K, b, a, n, d)
  BY <1>2, <1>7, <1>9, <1>13, <1>14, <1>15 DEF Lacking
<1>17. m \in P
  BY <1>7, <1>16, LackingSibling
<1> QED  BY <1>7, <1>8, <1>9, <1>10, <1>16, <1>17

BlackKid(T, n, e, s) == T.kid[e][n] = s /\ ~ Red(T, s)

(* A red inner nephew is rotated above the black sibling.                  *)
LEMMA RedNephewTurn ==
  ASSUME NEW T, NEW P, NEW K, NEW b, NEW a, NEW n, NEW d, Lacking(T, P, K, b, a, n, d),
         NEW s, NEW c, NEW m, NEW q, NEW r, BlackKid(T, n, Other(d), s),
         Turn(T, P, s, Other(d), c, m, n, q, r), Red(T, c), ~ Red(T, q),
         NEW U, PaintedTo(T, U, c, "black", s, "red"),
         NEW R, Turned(U, R, P, K, s, Other(d), c, m, n, q, r)
  PROVE  /\ Lacking(R, P, K, b, a, n, d) /\ BlackKid(R, n, Other(d), c)
         /\ R.kid[Other(d)][c] = s /\ Red(R, s)
<1> DEFINE o == Other(d)
<1>0. T.kid[o][n] = s /\ ~ Red(T, s)
  BY DEF BlackKid
<1>1. PICK sub : SearchTree(T, P, K, sub)
  BY DEF Lacking, Ordered
<1>2. /\ n \in P /\ d \in Side /\ T.kid[d][n] = a /\ Levels(T, P, b, n, d)
      /\ (\A x \in P : ~ TwoRed(T, x)) /\ ~ Red(T, T.root) /\ ~ Red(T, a)
      /\ o \in Side /\ o # d /\ Other(o) = d
  BY Sides DEF Lacking
<1>3. T \in Trees /\ b \in [Node -> Nat] /\ P \subseteq Node /\ NULL \notin Node
  BY <1>1, <1>2, RBTreeAssumption DEF SearchTree, Sets, Levels
<1>4. /\ s \in P /\ c \in P /\ c # s /\ T.parent[c] = s /\ T.parent[s] = n /\ n # s /\ n # c
      /\ q \in P \cup {NULL} /\ m \in P \cup {NULL} /\ r \in P \cup {NULL}
      /\ q # s /\ q # c /\ m # s /\ m # c /\ r # s /\ r # c
      /\ (m # NULL => T.parent[m] = c) /\ (r # NULL => T.parent[r] = c)
      /\ T.kid[o][s] = q /\ T.kid[d][s] = c /\ T.kid[o][c] = m /\ T.kid[d][c] = r
  BY <1>0, <1>2 DEF Turn
<1>5. /\ U \in Trees /\ U.root = T.root /\ U.kid = T.kid /\ U.parent = T.parent
      /\ U.color[c] = "black" /\ U.color[s] = "red"
      /\ \A x \in Node \ {s, c} : U.color[x] = T.color[x]
  BY <1>2, <1>3, <1>4 DEF PaintedTo
<1>6. /\ SearchTree(U, P, K, sub) /\ Turn(U, P, s, o, c, m, n, q, r)
  BY <1>1, <1>5, PaintedTree
<1>7. /\ RotatedTo(U, R, s, o, c, m, n) /\ R \in Trees /\ R.color = U.color
      /\ R.root = T.root /\ R.kid[o][c] = s /\ Ordered(R, P, K)
  <2>1. n # NULL
    BY <1>2, <1>3
  <2> QED  BY <1>5, <2>1 DEF Turned
<1>8. Red(R, s) /\ ~ Red(R, c)
  BY <1>2, <1>3, <1>4, <1>5, <1>7 DEF Red
<1>9. \A x \in {q, m, r} : Rank(R, b, x) = Rank(T, b, x) /\ (Red(R, x) <=> Red(T, x))
  <2>1. \A x \in {q, m, r} : x = NULL \/ R.color[x] = T.color[x]
    BY <1>3, <1>4, <1>5, <1>7
  <2> QED  BY <2>1, SameRank
<1>10. ~ Red(T, m) /\ ~ Red(T, r)
  <2>1. m # NULL => ~ Red(T, m)
    BY <1>2, <1>4, NotBothRed
  <2>2. r # NULL => ~ Red(T, r)
    BY <1>2, <1>4, NotBothRed
  <2> QED  BY <2>1, <2>2 DEF Red
<1>11. \A x \in P : x # n => \A e \in Side : b[x] = Rank(T, b, T.kid[e][x])
  <2> SUFFICES ASSUME NEW x \in P, x # n, NEW e \in Side PROVE b[x] = Rank(T, b, T.kid[e][x])
    OBVIOUS
  <2>1. Levels(T, P, b, n, d) /\ P \subseteq Node /\ T \in Trees
    BY <1>2, <1>3
  <2> QED  BY <2>1, LevelAt
<1>12. b[s] = Rank(T, b, q) /\ b[s] = Rank(T, b, c) /\ b[c] = Rank(T, b, m) /\ b[c] = Rank(T, b, r)
  <2>1. b[s] = Rank(T, b, T.kid[o][s]) /\ b[s] = Rank(T, b, T.kid[d][s])
    BY <1>2, <1>4, <1>11
  <2>2. b[c] = Rank(T, b, T.kid[o][c]) /\ b[c] = Rank(T, b, T.kid[d][c])
    BY <1>2, <1>4, <1>11
  <2> QED  BY <1>4, <2>1, <2>2
<1>13. /\ b[c] = b[s] /\ b[s] \in Nat /\ Rank(T, b, s) = b[s] + 1
       /\ Rank(R, b, s) = b[s] /\ Rank(R, b, c) = b[c] + 1
  <2>1. c \in Node /\ s \in Node /\ s # NULL /\ c # NULL
    BY <1>3, <1>4
  <2>2. Rank(T, b, c) = b[c] /\ Rank(T, b, s) = b[s] + 1 /\ b[s] \in Nat
    BY <1>0, <1>3, <2>1, RankFacts
  <2>3. Rank(R, b, s) = b[s] /\ Rank(R, b, c) = b[c] + 1
    BY <1>3, <1>7, <1>8, <2>1, RankFacts
  <2> QED  BY <1>12, <2>2, <2>3
<1>14. Levels(R, P, b, n, d)
  <2>1. Lack(s, o, n, d) = 0 /\ Lack(s, Other(o), n, d) = 0 /\ Lack(c, o, n, d) = 0 /\ Lack(c, Other(o), n, d) = 0
    BY <1>2, <1>4 DEF Lack
  <2>2. b[s] + 0 = b[s]
    BY <1>13
  <2>3. /\ b[s] = Rank(R, b, q) /\ b[s] = Rank(R, b, m) /\ b[c] = Rank(R, b, s)
        /\ b[c] = Rank(R, b, r) /\ Rank(R, b, c) = Rank(T, b, s) /\ b[c] = b[s]
    <3>1. Rank(R, b, q) = Rank(T, b, q) /\ Rank(R, b, m) = Rank(T, b, m) /\ Rank(R, b, r) = Rank(T, b, r)
      BY <1>9
    <3>2. Rank(R, b, c) = Rank(T, b, s)
      BY <1>13, Zenon
    <3> QED  BY <1>12, <1>13, <3>1, <3>2, Zenon
  <2>4. /\ b[s] = Rank(R, b, q) + Lack(s, o, n, d)
        /\ b[s] = Rank(R, b, m) + Lack(s, Other(o), n, d)
        /\ b[c] = Rank(R, b, s) + Lack(c, o, n, d)
        /\ b[c] = Rank(R, b, r) + Lack(c, Other(o), n, d)
    BY <2>1, <2>2, <2>3, Zenon
  <2>5. LevelsApart(T, U, P, b, {s, c}, n, d)
    BY <1>2, <1>5 DEF Levels, LevelsApart
  <2>6. ColorsApart(T, R, {s, c, q, m, r})
    BY <1>5, <1>7 DEF ColorsApart
  <2>7. \A x \in Node \ {s, c} : b[x] = b[x]
    OBVIOUS
  <2>8. T \in Trees /\ b \in [Node -> Nat] /\ o \in Side /\ RotatedTo(U, R, s, o, c, m, n)
        /\ SearchTree(U, P, K, sub) /\ Turn(U, P, s, o, c, m, n, q, r)
    BY <1>2, <1>3, <1>6, <1>7
  <2>9. Rank(R, b, c) = Rank(T, b, s)
    BY <2>3
  <2> HIDE DEF o
  <2> QED  BY <2>4, <2>5, <2>6, <2>7, <2>8, <2>9, TurnLevels
<1>15. \A x \in P : ~ TwoRed(R, x)
  <2>1. ColorsApart(T, R, {s, c, q, m, r})
    BY <1>5, <1>7 DEF ColorsApart
  <2>2. \A x \in P : TwoRed(R, x) => x = s /\ Red(R, s) /\ Red(R, c)
    BY <1>2, <1>3, <1>5, <1>6, <1>7, <1>8, <1>9, <1>10, <2>1, TurnReds
  <2> QED  BY <1>8, <2>2
<1>16. a # s
  <2>1. Around(T, P, K, sub, n, o) /\ s # NULL
    BY <1>1, <1>2, <1>3, <1>4, NodeAround
  <2> QED  BY <1>0, <1>2, <2>1 DEF Around
<1>17. R.kid[d][n] = a /\ R.kid[o][n] = c
  <2>1. \A e \in Side : R.kid[e][n] = IF U.kid[e][n] = s THEN c ELSE U.kid[e][n]
    BY <1>2, <1>3, <1>4, <1>7 DEF RotatedTo
  <2> QED  BY <1>0, <1>2, <1>5, <1>16, <2>1
<1>18. ~ Red(R, R.root) /\ ~ Red(R, a)
  <2>1. T.root \in Node \ {s, c}
    <3>1. T.root \in P /\ T.parent[T.root] = NULL
      BY <1>1, <1>2 DEF SearchTree, Hung
    <3> QED  BY <1>2, <1>3, <1>4, <3>1
  <2>2. R.color[T.root] = T.color[T.root]
    BY <1>5, <1>7, <2>1
  <2>3. a = NULL \/ R.color[a] = T.color[a]
    <3>1. a \in P \cup {NULL}
      BY <1>1, <1>2, <1>3 DEF SearchTree, KidsIn
    <3>2. a # c
      <4>1. a # NULL => T.parent[a] = n
        BY <1>1, <1>2 DEF SearchTree, KidsLead
      <4> QED  BY <1>2, <1>3, <1>4, <4>1
    <3> QED  BY <1>3, <1>5, <1>7, <1>16, <3>1, <3>2
  <2> QED  BY <1>2, <1>7, <2>2, <2>3 DEF Red
<1>19. Lacking(R, P, K, b, a, n, d)
  BY <1>2, <1>7, <1>14, <1>15, <1>17, <1>18 DEF Lacking
<1> QED  BY <1>7, <1>8, <1>17, <1>19 DEF BlackKid

(* A red-black tree: it is in order, the ways down from a node have as many*)
(* black nodes, no red node has a red parent, and the root is not red.     *)
RedBlack(T, P, K, b) ==
  /\ Ordered(T, P, K) /\ Levels(T, P, b, NULL, "left")
  /\ \A x \in P : ~ TwoRed(T, x)
  /\ ~ Red(T, T.root)

(* Three paintings in one.                                                 *)
Recolored(T, U, n, s, r) ==
  /\ U \in Trees /\ U.root = T.root /\ U.kid = T.kid /\ U.parent = T.parent
  /\ \A x \in Node : U.color[x] = IF x = n \/ x = r THEN "black"
                                  ELSE IF x = s THEN T.color[n] ELSE T.color[x]

(* The black sibling with a red outer kid is rotated above the parent, and *)
(* nothing lacks any more.                                                 *)
LEMMA LastTurn ==
  ASSUME NEW T, NEW P, NEW K, NEW b, NEW a, NEW n, NEW d, Lacking(T, P, K, b, a, n, d),
         NEW s, NEW m, NEW p, NEW r, ~ Red(T, s), Turn(T, P, n, d, s, m, p, a, r), Red(T, r),
         NEW U, Recolored(T, U, n, s, r),
         NEW R, Turned(U, R, P, K, n, d, s, m, p, a, r)
  PROVE  \E b2 : RedBlack(R, P, K, b2)
<1> DEFINE o == Other(d)
           b2 == [b EXCEPT ![n] = b[n] - 1, ![s] = b[n]]
<1>1. PICK sub : SearchTree(T, P, K, sub)
  BY DEF Lacking, Ordered
<1>2. /\ n \in P /\ d \in Side /\ T.kid[d][n] = a /\ Levels(T, P, b, n, d)
      /\ (\A x \in P : ~ TwoRed(T, x)) /\ ~ Red(T, T.root) /\ ~ Red(T, a)
      /\ o \in Side /\ o # d
  BY Sides DEF Lacking
<1>3. T \in Trees /\ b \in [Node -> Nat] /\ P \subseteq Node /\ NULL \notin Node
  BY <1>1, <1>2, RBTreeAssumption DEF SearchTree, Sets, Levels
<1>4. /\ s \in P /\ s # n /\ T.parent[s] = n /\ p # n /\ p # s /\ p \in P \cup {NULL}
      /\ a \in P \cup {NULL} /\ m \in P \cup {NULL} /\ r \in P \cup {NULL}
      /\ a # n /\ a # s /\ m # n /\ m # s /\ r # n /\ r # s
      /\ T.kid[o][n] = s /\ T.kid[d][s] = m /\ T.kid[o][s] = r /\ T.parent[n] = p
      /\ (m # NULL => m # a) /\ (r # NULL => r # a /\ r # m)
  BY DEF Turn
<1>5. r \in P /\ r # a /\ r # m
  BY <1>4 DEF Red
<1>6. /\ U \in Trees /\ U.root = T.root /\ U.kid = T.kid /\ U.parent = T.parent
      /\ U.color[n] = "black" /\ U.color[r] = "black" /\ U.color[s] = T.color[n]
      /\ \A x \in Node \ {n, s, r} : U.color[x] = T.color[x]
  BY <1>2, <1>3, <1>4, <1>5 DEF Recolored
<1>7. SearchTree(U, P, K, sub) /\ Turn(U, P, n, d, s, m, p, a, r)
  BY <1>1, <1>6, PaintedTree
<1>8. /\ RotatedTo(U, R, n, d, s, m, p) /\ R \in Trees /\ R.color = U.color
      /\ R.root = IF p = NULL THEN s ELSE T.root
      /\ Ordered(R, P, K)
  BY <1>6 DEF Turned
<1>9. ~ Red(R, n) /\ ~ Red(R, r) /\ (Red(R, s) <=> Red(T, n))
  BY <1>2, <1>3, <1>4, <1>5, <1>6, <1>8 DEF Red
<1>10. b[n] \in Nat /\ b[n] - 1 \in Nat /\ Rank(T, b, a) = b[n] - 1 /\ Rank(T, b, s) = b[n]
  BY <1>4, LackingSibling
<1>11. /\ b2 \in [Node -> Nat] /\ b2[n] = b[n] - 1 /\ b2[s] = b[n]
       /\ \A x \in Node \ {n, s} : b2[x] = b[x]
  BY <1>2, <1>3, <1>4, <1>10
<1> HIDE DEF b2
<1>12. \A x \in {a, m} : Rank(R, b2, x) = Rank(T, b, x) /\ (Red(R, x) <=> Red(T, x))
  <2>1. \A x \in {a, m} : x = NULL \/ (R.color[x] = T.color[x] /\ b2[x] = b[x])
    BY <1>3, <1>4, <1>5, <1>6, <1>8, <1>11
  <2> QED  BY <2>1, SameRank
<1>13. \A e \in Side : b[s] = Rank(T, b, T.kid[e][s])
  <2> SUFFICES ASSUME NEW e \in Side PROVE b[s] = Rank(T, b, T.kid[e][s])
    OBVIOUS
  <2>1. Levels(T, P, b, n, d) /\ P \subseteq Node /\ T \in Trees /\ s \in P /\ (s # n \/ e # d)
    BY <1>2, <1>3, <1>4
  <2> QED  BY <2>1, LevelAt
<1>14. b[s] = Rank(T, b, m) /\ b[s] = Rank(T, b, r)
  <2>1. b[s] = Rank(T, b, T.kid[d][s]) /\ b[s] = Rank(T, b, T.kid[o][s])
    BY <1>2, <1>13
  <2> QED  BY <1>4, <2>1
<1>15. /\ b[s] \in Nat /\ b[n] = b[s] + 1 /\ b[r] = b[s]
  <2>1. r \in Node /\ s \in Node /\ s # NULL
    BY <1>3, <1>4, <1>5
  <2>2. Rank(T, b, s) = b[s] + 1 /\ b[s] \in Nat
    BY <1>3, <2>1, RankFacts
  <2>3. Rank(T, b, r) = b[r]
    BY <1>3, <2>1, RankFacts
  <2> QED  BY <1>10, <1>14, <2>2, <2>3
<1>16. Rank(R, b2, n) = b[n] /\ Rank(R, b2, r) = b[n] /\ Rank(R, b2, s) = Rank(T, b, n)
  <2>1. n \in Node /\ r \in Node /\ s \in Node /\ n # NULL /\ r # NULL /\ s # NULL /\ b2[r] = b[s]
    BY <1>2, <1>3, <1>4, <1>5, <1>11, <1>15
  <2>2. Rank(R, b2, n) = b2[n] + 1 /\ Rank(R, b2, r) = b2[r] + 1
    BY <1>8, <1>9, <1>11, <2>1, RankFacts
  <2>3. Rank(R, b2, n) = b[n]
    BY <1>10, <1>11, <2>2
  <2>4. Rank(R, b2, r) = b[n]
    BY <1>15, <2>1, <2>2
  <2>5. Rank(R, b2, s) = Rank(T, b, n)
    BY <1>6, <1>8, <1>11, <2>1 DEF Rank
  <2> QED  BY <2>3, <2>4, <2>5
<1>17. Levels(R, P, b2, NULL, "left")
  <2>1. /\ Lack(n, d, NULL, "left") = 0 /\ Lack(n, o, NULL, "left") = 0
        /\ Lack(s, d, NULL, "left") = 0 /\ Lack(s, o, NULL, "left") = 0
    BY <1>2, <1>3, <1>4 DEF Lack
  <2>2. b2[n] + 0 = b2[n] /\ b2[s] + 0 = b2[s] /\ b[s] = b[n] - 1
    BY <1>10, <1>11, <1>15
  <2>3. /\ Rank(R, b2, a) = b2[n] /\ Rank(R, b2, m) = b2[n]
        /\ Rank(R, b2, n) = b2[s] /\ Rank(R, b2, r) = b2[s]
    <3>1. Rank(R, b2, a) = Rank(T, b, a) /\ Rank(R, b2, m) = Rank(T, b, m)
      BY <1>12
    <3> QED  BY <1>10, <1>11, <1>14, <1>16, <2>2, <3>1, Zenon
  <2>4. /\ b2[n] = Rank(R, b2, a) + Lack(n, d, NULL, "left")
        /\ b2[n] = Rank(R, b2, m) + Lack(n, o, NULL, "left")
        /\ b2[s] = Rank(R, b2, n) + Lack(s, d, NULL, "left")
        /\ b2[s] = Rank(R, b2, r) + Lack(s, o, NULL, "left")
    BY <2>1, <2>2, <2>3, Zenon
  <2>5. LevelsApart(T, U, P, b, {n, s}, NULL, "left")
    <3> SUFFICES ASSUME NEW x \in P \ {n, s}, NEW e \in Side
                 PROVE  b[x] = Rank(T, b, T.kid[e][x]) + Lack(x, e, NULL, "left")
      BY <1>6 DEF LevelsApart
    <3>1. Lack(x, e, NULL, "left") = Lack(x, e, n, d)
      BY <1>3 DEF Lack
    <3> QED  BY <1>2, <3>1 DEF Levels
  <2>6. ColorsApart(T, R, {n, s, a, m, r})
    BY <1>6, <1>8 DEF ColorsApart
  <2>7. Rank(R, b2, s) = Rank(T, b, n) /\ \A x \in Node \ {n, s} : b2[x] = b[x]
    BY <1>11, <1>16
  <2>8. T \in Trees /\ b \in [Node -> Nat] /\ b2 \in [Node -> Nat] /\ d \in Side
        /\ RotatedTo(U, R, n, d, s, m, p)
        /\ SearchTree(U, P, K, sub) /\ Turn(U, P, n, d, s, m, p, a, r)
    BY <1>2, <1>3, <1>7, <1>8, <1>11
  <2> QED  BY <2>4, <2>5, <2>6, <2>7, <2>8, TurnLevels
<1>18. \A x \in P : ~ TwoRed(R, x)
  <2>1. ColorsApart(T, R, {n, s, a, m, r})
    BY <1>6, <1>8 DEF ColorsApart
  <2>2. ~ (Red(R, s) /\ Red(T, p))
    BY <1>2, <1>4, <1>9, NotBothRed
  <2>3. \A x \in P : TwoRed(R, x) => x = n /\ Red(R, n) /\ Red(R, s)
    BY <1>2, <1>3, <1>6, <1>7, <1>8, <1>9, <1>12, <2>1, <2>2, TurnReds
  <2> QED  BY <1>9, <2>3
<1>19. ~ Red(R, R.root)
  <2>0. T.parent[T.root] = NULL /\ T.root \in P
    BY <1>1, <1>2 DEF SearchTree, Hung
  <2>1. CASE p = NULL
    <3>1. T.root = n
      BY <1>1, <1>2, <1>4, <2>1, Hangs
    <3> QED  BY <1>2, <1>8, <1>9, <2>1, <3>1
  <2>2. CASE p # NULL
    <3>1. T.root \in Node \ {n, s}
      BY <1>2, <1>3, <1>4, <2>2, <2>0
    <3>2. R.root = T.root /\ (R.color[T.root] = T.color[T.root] \/ R.color[T.root] = "black")
      BY <1>6, <1>8, <2>2, <3>1
    <3> QED  BY <1>2, <3>2 DEF Red
  <2> QED  BY <2>1, <2>2
<1>20. RedBlack(R, P, K, b2)
  BY <1>8, <1>17, <1>18, <1>19 DEF RedBlack
<1> QED  BY <1>20

(* The loop of erase before a round: nothing lacks any more and a is the   *)
(* root, or a black node lacks where a hangs below p.  If a is red, it may *)
(* be a red root, a red kid of a red node and a parent of red kids.        *)
Rebalancing(T, P, K, a, p) ==
  /\ Ordered(T, P, K)
  /\ \A x \in P : TwoRed(T, x) => x = a \/ T.parent[x] = a
  /\ Red(T, T.root) => T.root = a
  /\ \/ T.root = a /\ \E b : Levels(T, P, b, NULL, "left")
     \/ p \in P /\ \E d \in Side : T.kid[d][p] = a /\ \E b : Levels(T, P, b, p, d)

(* A round is about to begin.                                              *)
LEMMA RoundBegins ==
  ASSUME NEW T, NEW P, NEW K, NEW a, NEW p, Rebalancing(T, P, K, a, p),
         ~ Red(T, a), a # T.root
  PROVE  \E d \in Side : \E b : Lacking(T, P, K, b, a, p, d)
<1>1. PICK d \in Side : T.kid[d][p] = a /\ \E b : Levels(T, P, b, p, d)
  BY DEF Rebalancing
<1>2. PICK b : Levels(T, P, b, p, d)
  BY <1>1
<1>3. p \in P /\ Ordered(T, P, K) /\ ~ Red(T, T.root)
  BY DEF Rebalancing
<1>4. \A x \in P : ~ TwoRed(T, x)
  BY DEF Rebalancing, TwoRed
<1>5. Lacking(T, P, K, b, a, p, d)
  BY <1>1, <1>2, <1>3, <1>4 DEF Lacking
<1> QED  BY <1>5

LEMMA KidIsOne ==
  ASSUME NEW T, NEW P, NEW K, NEW sub, SearchTree(T, P, K, sub), NEW n \in P, NEW d \in Side,
         NEW x \in P, NEW e \in Side, T.kid[e][x] = T.kid[d][n], T.kid[d][n] # NULL
  PROVE  x = n /\ e = d
<1>1. T.parent[T.kid[d][n]] = n /\ T.kid[d][n] # T.kid[Other(d)][n]
  BY NodeAround DEF Around
<1>2. T.parent[T.kid[e][x]] = x
  BY NodeAround DEF Around
<1>3. e = d \/ e = Other(d)
  BY Sides
<1> QED  BY <1>1, <1>2, <1>3

(* The sibling turns red: now below the parent's parent a node lacks.      *)
LEMMA PushedUp ==
  ASSUME NEW T, NEW P, NEW K, NEW b, NEW a, NEW n, NEW d, Lacking(T, P, K, b, a, n, d),
         NEW s, T.kid[Other(d)][n] = s, ~ Red(T, s), NoRedKid(T, s)
  PROVE  Rebalancing(Painted(T, s, "red"), P, K, n, T.parent[n])
<1> DEFINE o == Other(d)
           M == Painted(T, s, "red")
           p == T.parent[n]
           b2 == [b EXCEPT ![n] = b[n] - 1]
<1>1. PICK sub : SearchTree(T, P, K, sub)
  BY DEF Lacking, Ordered
<1>2. /\ n \in P /\ d \in Side /\ T.kid[d][n] = a /\ Levels(T, P, b, n, d)
      /\ (\A x \in P : ~ TwoRed(T, x)) /\ ~ Red(T, T.root) /\ ~ Red(T, a)
      /\ o \in Side /\ o # d /\ \A e \in Side : e = d \/ e = o
  BY Sides DEF Lacking
<1>3. T \in Trees /\ b \in [Node -> Nat] /\ P \subseteq Node /\ NULL \notin Node
  BY <1>1, <1>2, RBTreeAssumption DEF SearchTree, Sets, Levels
<1>4. /\ s \in P /\ Rank(T, b, s) = b[n] /\ Rank(T, b, a) = b[n] - 1
      /\ b[n] \in Nat /\ b[n] - 1 \in Nat
  BY LackingSibling
<1>5. /\ T.parent[s] = n /\ s # n /\ s # a /\ a # n /\ s # T.root
  <2>1. T.parent[s] = n /\ s # n /\ s # a /\ s # T.root
    BY <1>1, <1>2, <1>3, <1>4, NodeAround, Sides DEF Around
  <2>2. a # n
    BY <1>1, <1>2, <1>3, NodeAround DEF Around
  <2> QED  BY <2>1, <2>2
<1>6. /\ M \in Trees /\ M.root = T.root /\ M.kid = T.kid /\ M.parent = T.parent
      /\ \A x \in Node : M.color[x] = IF x = s THEN "red" ELSE T.color[x]
  BY <1>3, <1>4, SetColor DEF ColorSet
<1> HIDE DEF M
<1>7. /\ b2 \in [Node -> Nat] /\ b2[n] = b[n] - 1 /\ \A x \in Node \ {n} : b2[x] = b[x]
  BY <1>2, <1>3, <1>4
<1> HIDE DEF b2
<1>8. /\ Rank(M, b2, s) = b[n] - 1 /\ Rank(M, b2, a) = b[n] - 1
      /\ \A x \in P \cup {NULL} : x # s /\ x # n => Rank(M, b2, x) = Rank(T, b, x)
  <2>1. s \in Node /\ s # NULL /\ b2[s] = b[s] /\ Red(M, s)
    BY <1>3, <1>4, <1>5, <1>6, <1>7 DEF Red
  <2>2. Rank(M, b2, s) = b2[s] /\ Rank(T, b, s) = b[s] + 1 /\ b[s] \in Nat
    BY <1>3, <1>6, <1>7, <2>1, RankFacts
  <2>3. Rank(M, b2, s) = b[n] - 1
    BY <1>4, <2>1, <2>2
  <2>4. ASSUME NEW x \in P \cup {NULL}, x # s, x # n PROVE Rank(M, b2, x) = Rank(T, b, x)
    BY <1>3, <1>6, <1>7, <2>4, SameRank
  <2>5. a \in P \cup {NULL}
    BY <1>1, <1>2, <1>3 DEF SearchTree, KidsIn
  <2> QED  BY <1>4, <1>5, <2>3, <2>4, <2>5
<1>9. n # NULL /\ Rank(M, b2, n) + 1 = Rank(T, b, n) /\ Rank(M, b2, n) \in Nat
  <2>1. M.color[n] = T.color[n] /\ n \in Node /\ n # NULL
    BY <1>2, <1>3, <1>5, <1>6
  <2> QED  BY <1>4, <1>7, <2>1 DEF Rank
<1>10. \A e \in Side : b2[n] = Rank(M, b2, M.kid[e][n])
  <2> SUFFICES ASSUME NEW e \in Side PROVE b2[n] = Rank(M, b2, M.kid[e][n])
    OBVIOUS
  <2>1. M.kid[e][n] = a \/ M.kid[e][n] = s
    BY <1>2, <1>6
  <2> QED  BY <1>7, <1>8, <2>1
<1>11. ASSUME NEW x \in P \ {n}, NEW e \in Side
       PROVE  b2[x] = Rank(M, b2, M.kid[e][x]) + (IF T.kid[e][x] = n THEN 1 ELSE 0)
  <2> DEFINE k == T.kid[e][x]
  <2>1. b[x] = Rank(T, b, k) /\ b[x] \in Nat
    <3>1. Levels(T, P, b, n, d) /\ P \subseteq Node /\ T \in Trees /\ x \in P /\ (x # n \/ e # d)
      BY <1>2, <1>3
    <3> QED  BY <3>1, LevelAt
  <2>2. b2[x] = b[x]
    BY <1>3, <1>7
  <2>3. k \in P \cup {NULL} /\ k # s
    <3>1. k # s
      BY <1>1, <1>2, <1>3, <1>4, KidIsOne
    <3>2. k \in P \cup {NULL}
      BY <1>1, <1>3 DEF SearchTree, KidsIn
    <3> QED  BY <3>1, <3>2
  <2>4. CASE k = n
    <3>1. M.kid[e][x] = n
      BY <1>6, <2>4
    <3> QED  BY <1>9, <2>1, <2>2, <2>4, <3>1
  <2>5. CASE k # n
    <3>1. Rank(M, b2, M.kid[e][x]) = b[x]
      BY <1>6, <1>8, <2>1, <2>3, <2>5
    <3> QED  BY <2>1, <2>2, <2>5, <3>1
  <2> QED  BY <2>4, <2>5
<1>12. \/ M.root = n /\ Levels(M, P, b2, NULL, "left")
       \/ p \in P /\ \E e \in Side : M.kid[e][p] = n /\ Levels(M, P, b2, p, e)
  <2>1. b2[n] + 0 = b2[n]
    BY <1>4, <1>7
  <2>2. CASE n = T.root
    <3> SUFFICES ASSUME NEW x \in P, NEW e \in Side
                 PROVE  b2[x] = Rank(M, b2, M.kid[e][x]) + Lack(x, e, NULL, "left")
      BY <1>6, <1>7, <2>2 DEF Levels
    <3>1. Lack(x, e, NULL, "left") = 0
      BY <1>3 DEF Lack
    <3>2. T.kid[e][x] # n
      BY <1>1, <1>9, <2>2, NodeAround DEF Around
    <3> QED  BY <1>10, <1>11, <2>1, <3>1, <3>2
  <2>3. CASE n # T.root
    <3>1. PICK e \in Side : T.kid[e][p] = n
      BY <1>1, <1>2, <2>3 DEF SearchTree, ParentsLead
    <3>2. p \in P /\ p # n
      BY <1>1, <1>2, <2>3, Hangs DEF SearchTree, ParentsLead
    <3>3. ASSUME NEW x \in P, NEW f \in Side
          PROVE  b2[x] = Rank(M, b2, M.kid[f][x]) + Lack(x, f, p, e)
      <4>1. CASE x = n
        <5>1. Lack(x, f, p, e) = 0
          BY <3>2, <4>1 DEF Lack
        <5> QED  BY <1>10, <2>1, <4>1, <5>1
      <4>2. CASE x # n
        <5>1. T.kid[f][x] = n <=> x = p /\ f = e
          BY <1>1, <1>9, <3>1, <3>2, KidIsOne
        <5>2. Lack(x, f, p, e) = IF T.kid[f][x] = n THEN 1 ELSE 0
          BY <5>1 DEF Lack
        <5> QED  BY <1>11, <4>2, <5>2
      <4> QED  BY <4>1, <4>2
    <3>4. Levels(M, P, b2, p, e)
      BY <1>7, <3>3 DEF Levels
    <3> QED  BY <1>6, <3>1, <3>2, <3>4
  <2> QED  BY <2>2, <2>3
<1>13. \A x \in P : TwoRed(M, x) => x = n \/ M.parent[x] = n
  <2> SUFFICES ASSUME NEW x \in P, TwoRed(M, x), x # n, M.parent[x] # n PROVE FALSE
    OBVIOUS
  <2>1. x # s
    BY <1>5, <1>6
  <2>2. T.parent[x] # s
    <3> SUFFICES ASSUME T.parent[x] = s PROVE FALSE
      OBVIOUS
    <3>1. s # NULL
      BY <1>3, <1>4
    <3>2. PICK e \in Side : T.kid[e][s] = x
      BY <1>1, <3>1, Hangs DEF HangsFrom
    <3>3. ~ Red(T, x)
      BY <3>2 DEF NoRedKid
    <3> QED  BY <1>3, <1>6, <2>1, <3>3 DEF TwoRed, Red
  <2>3. Red(T, x) /\ Red(T, T.parent[x])
    <3>1. T.parent[x] \in P \cup {NULL}
      BY <1>1, Hangs
    <3> QED  BY <1>3, <1>6, <2>1, <2>2, <3>1 DEF TwoRed, Red
  <2> QED  BY <1>2, <2>3 DEF TwoRed
<1>14. ~ Red(M, M.root)
  <2>1. T.root = NULL \/ T.root \in Node
    BY <1>3, TreeFields
  <2> QED  BY <1>2, <1>5, <1>6, <2>1 DEF Red
<1>15. Ordered(M, P, K)
  BY <1>1, <1>6, PaintKeeps DEF Ordered
<1>16. Rebalancing(M, P, K, n, p)
  BY <1>12, <1>13, <1>14, <1>15 DEF Rebalancing
<1> QED  BY <1>16 DEF M

LEMMA PaintTwice ==
  ASSUME NEW T \in Trees, NEW x \in Node, NEW y \in Node, x # y,
         NEW c \in {"red", "black"}, NEW e \in {"red", "black"}
  PROVE  PaintedTo(T, Painted(Painted(T, x, c), y, e), x, c, y, e)
<1> DEFINE M1 == Painted(T, x, c)
           M2 == Painted(M1, y, e)
<1>1. ColorSet(T, M1, x, c)
  BY SetColor
<1>2. M1 \in Trees
  BY <1>1, InTrees
<1> HIDE DEF M1
<1>3. ColorSet(M1, M2, y, e)
  BY <1>2, SetColor
<1> HIDE DEF M2
<1>4. PaintedTo(T, M2, x, c, y, e)
  BY <1>1, <1>3 DEF ColorSet, PaintedTo
<1> QED  BY <1>4 DEF M2, M1

LEMMA PaintThrice ==
  ASSUME NEW T \in Trees, NEW n \in Node, NEW s \in Node, NEW r \in Node, n # s, r # s
  PROVE  Recolored(T, Painted(Painted(Painted(T, s, T.color[n]), n, "black"), r, "black"), n, s, r)
<1> DEFINE M1 == Painted(Painted(T, s, T.color[n]), n, "black")
           M2 == Painted(M1, r, "black")
<1>1. T.color[n] \in {"red", "black"}
  BY TreeFields
<1>2. PaintedTo(T, M1, s, T.color[n], n, "black")
  BY <1>1, PaintTwice
<1>3. M1 \in Trees
  BY <1>2 DEF PaintedTo
<1> HIDE DEF M1
<1>4. ColorSet(M1, M2, r, "black")
  BY <1>3, SetColor
<1> HIDE DEF M2
<1>5. Recolored(T, M2, n, s, r)
  BY <1>2, <1>4 DEF ColorSet, PaintedTo, Recolored
<1> QED  BY <1>5 DEF M2, M1

(* From Lacking to what the turns are about.                               *)
LEMMA LackingTurn ==
  ASSUME NEW T, NEW P, NEW K, NEW b, NEW a, NEW n, NEW d, Lacking(T, P, K, b, a, n, d),
         NEW s, T.kid[Other(d)][n] = s
  PROVE  /\ T \in Trees /\ n \in Node /\ s \in Node /\ n # s /\ s \in P /\ d \in Side
         /\ Turn(T, P, n, d, s, T.kid[d][s], T.parent[n], a, T.kid[Other(d)][s])
<1>1. PICK sub : SearchTree(T, P, K, sub)
  BY DEF Lacking, Ordered
<1>2. n \in P /\ d \in Side /\ T.kid[d][n] = a /\ s \in P /\ s # NULL
  BY LackingSibling DEF Lacking
<1>3. Turn(T, P, n, d, s, T.kid[d][s], T.parent[n], T.kid[d][n], T.kid[Other(d)][s])
  BY <1>1, <1>2, TurnMeans
<1>4. T \in Trees /\ P \subseteq Node
  BY <1>1 DEF SearchTree, Sets
<1>5. n # s
  BY <1>3 DEF Turn
<1> QED  BY <1>2, <1>3, <1>4, <1>5

(* WithBlackSibling, with its arguments spelled out.                       *)
BlackSibling(T, n, d) ==
  LET s == T.kid[Other(d)][n] IN
  IF Red(T, s) THEN Rotated([T EXCEPT !.color[s] = "black", !.color[n] = "red"], n, d) ELSE T

LEMMA BlackSiblingKeeps ==
  ASSUME NEW T, NEW P, NEW K, NEW b, NEW a, NEW n, NEW d, Lacking(T, P, K, b, a, n, d)
  PROVE  LET R == BlackSibling(T, n, d)
         IN  /\ Lacking(R, P, K, b, a, n, d) /\ ~ Red(R, R.kid[Other(d)][n])
             /\ SameOutside(T, R, P)
<1> DEFINE s == T.kid[Other(d)][n]
           m == T.kid[d][s]
           p == T.parent[n]
           r == T.kid[Other(d)][s]
           U == [T EXCEPT !.color[s] = "black", !.color[n] = "red"]
           R == BlackSibling(T, n, d)
<1>1. CASE ~ Red(T, s)
  <2>1. R = T
    BY <1>1 DEF BlackSibling
  <2>2. SameOutside(T, T, P)
    BY DEF SameOutside
  <2> QED  BY <1>1, <2>1, <2>2
<1>2. CASE Red(T, s)
  <2>1. R = Rotated(U, n, d)
    BY <1>2 DEF BlackSibling
  <2> HIDE DEF R
  <2>2. /\ T \in Trees /\ n \in Node /\ s \in Node /\ n # s /\ s \in P /\ d \in Side
        /\ Turn(T, P, n, d, s, m, p, a, r)
    BY LackingTurn
  <2> HIDE DEF s, m, p, r
  <2>3. PaintedTo(T, U, s, "black", n, "red")
    <3>1. "black" \in {"red", "black"} /\ "red" \in {"red", "black"}
      OBVIOUS
    <3> QED  BY <2>2, <3>1, PaintTwo, Zenon
  <2> HIDE DEF U
  <2>4. PICK sub : SearchTree(T, P, K, sub)
    BY DEF Lacking, Ordered
  <2>5. U \in Trees /\ U.root = T.root /\ U.kid = T.kid /\ U.parent = T.parent
    BY <2>3 DEF PaintedTo
  <2>6. SearchTree(U, P, K, sub) /\ Turn(U, P, n, d, s, m, p, a, r)
    BY <2>2, <2>4, <2>5, PaintedTree
  <2>7. Turned(U, R, P, K, n, d, s, m, p, a, r)
    BY <2>1, <2>2, <2>6, TurnTurns
  <2>8. /\ Lacking(R, P, K, b, a, n, d)
        /\ R.kid[Other(d)][n] = m /\ ~ Red(R, m)
    BY <1>2, <2>2, <2>3, <2>7, RedSiblingTurn
  <2>9. SameOutside(U, R, P)
    BY <2>7 DEF Turned
  <2>10. SameOutside(T, R, P)
    BY <2>4, <2>5, <2>9, PaintedTree
  <2> QED  BY <2>8, <2>10 DEF R
<1> QED  BY <1>1, <1>2

(* The first turn of Settle.                                               *)
RedOutside(T, n, d) ==
  LET s == T.kid[Other(d)][n] IN
  IF Red(T, T.kid[Other(d)][s]) THEN T
  ELSE Rotated(Painted(Painted(T, T.kid[d][s], "black"), s, "red"), s, Other(d))

LEMMA RedOutsideKeeps ==
  ASSUME NEW T, NEW P, NEW K, NEW b, NEW a, NEW n, NEW d, Lacking(T, P, K, b, a, n, d),
         NEW s, T.kid[Other(d)][n] = s, ~ Red(T, s), ~ NoRedKid(T, s)
  PROVE  LET R == RedOutside(T, n, d)
             c == R.kid[Other(d)][n]
         IN  /\ Lacking(R, P, K, b, a, n, d) /\ ~ Red(R, c) /\ Red(R, R.kid[Other(d)][c])
             /\ SameOutside(T, R, P)
<1> DEFINE o == Other(d)
           q == T.kid[o][s]
           R == RedOutside(T, n, d)
<1>1. CASE Red(T, q)
  <2>1. R = T
    BY <1>1 DEF RedOutside
  <2>2. SameOutside(T, T, P)
    BY DEF SameOutside
  <2> QED  BY <1>1, <2>1, <2>2
<1>2. CASE ~ Red(T, q)
  <2> DEFINE c == T.kid[d][s]
             m == T.kid[o][c]
             r == T.kid[d][c]
             U == Painted(Painted(T, c, "black"), s, "red")
  <2>1. R = Rotated(U, s, o)
    BY <1>2 DEF RedOutside
  <2> HIDE DEF R
  <2>2. /\ T \in Trees /\ s \in Node /\ s \in P /\ d \in Side
        /\ Turn(T, P, n, d, s, T.kid[d][s], T.parent[n], a, T.kid[Other(d)][s])
    BY LackingTurn
  <2>3. T.parent[s] = n
    BY <2>2 DEF Turn
  <2>4. PICK sub : SearchTree(T, P, K, sub)
    BY DEF Lacking, Ordered
  <2>5. P \subseteq Node /\ o \in Side /\ Other(o) = d /\ \A e \in Side : e = d \/ e = o
    BY <2>2, <2>4, Sides DEF SearchTree, Sets
  <2>6. Red(T, c)
    BY <1>2, <2>5 DEF NoRedKid
  <2>7. c # NULL /\ T.kid[Other(o)][s] = c
    BY <2>5, <2>6 DEF Red
  <2>8. Turn(T, P, s, o, c, T.kid[o][c], T.parent[s], T.kid[o][s], T.kid[Other(o)][c])
    BY <2>2, <2>4, <2>5, <2>7, TurnMeans
  <2>9. Turn(T, P, s, o, c, m, n, q, r)
    BY <2>3, <2>5, <2>8
  <2>10. c \in Node /\ c # s
    BY <2>5, <2>9 DEF Turn
  <2>11. PaintedTo(T, U, c, "black", s, "red")
    BY <2>2, <2>10, PaintTwice
  <2> HIDE DEF U, m, c, q, r
  <2>12. U \in Trees /\ U.root = T.root /\ U.kid = T.kid /\ U.parent = T.parent
    BY <2>11 DEF PaintedTo
  <2>13. SearchTree(U, P, K, sub) /\ Turn(U, P, s, o, c, m, n, q, r)
    BY <2>4, <2>9, <2>12, PaintedTree
  <2>14. Turned(U, R, P, K, s, o, c, m, n, q, r)
    <3> HIDE DEF o
    <3> QED  BY <2>1, <2>5, <2>13, TurnTurns
  <2>15. /\ Lacking(R, P, K, b, a, n, d) /\ BlackKid(R, n, Other(d), c)
         /\ R.kid[Other(d)][c] = s /\ Red(R, s)
    <3>1. ~ Red(T, q) /\ BlackKid(T, n, Other(d), s)
      BY <1>2 DEF BlackKid
    <3>2. Turn(T, P, s, Other(d), c, m, n, q, r) /\ Turned(U, R, P, K, s, Other(d), c, m, n, q, r)
      BY <2>9, <2>14
    <3>3. Red(T, c) /\ Lacking(T, P, K, b, a, n, d) /\ PaintedTo(T, U, c, "black", s, "red")
      BY <2>6, <2>11
    <3> HIDE DEF o
    <3> QED  BY <3>1, <3>2, <3>3, RedNephewTurn
  <2>16. SameOutside(U, R, P)
    BY <2>14 DEF Turned
  <2>17. SameOutside(T, R, P)
    BY <2>4, <2>12, <2>16, PaintedTree
  <2> QED  BY <2>15, <2>17 DEF R, BlackKid
<1> QED  BY <1>1, <1>2

(* The last turn of Settle.                                                *)
LEMMA LastTurnKeeps ==
  ASSUME NEW T, NEW P, NEW K, NEW b, NEW a, NEW n, NEW d, Lacking(T, P, K, b, a, n, d),
         NEW s, T.kid[Other(d)][n] = s, ~ Red(T, s), NEW r, T.kid[Other(d)][s] = r, Red(T, r)
  PROVE  LET R == Rotated(Painted(Painted(Painted(T, s, T.color[n]), n, "black"), r, "black"), n, d)
         IN  (\E b2 : RedBlack(R, P, K, b2)) /\ SameOutside(T, R, P)
<1> DEFINE m == T.kid[d][s]
           p == T.parent[n]
           U == Painted(Painted(Painted(T, s, T.color[n]), n, "black"), r, "black")
           R == Rotated(U, n, d)
<1>1. /\ T \in Trees /\ n \in Node /\ s \in Node /\ n # s /\ s \in P /\ d \in Side
      /\ Turn(T, P, n, d, s, m, p, a, r)
  BY LackingTurn
<1>2. PICK sub : SearchTree(T, P, K, sub)
  BY DEF Lacking, Ordered
<1>3. r \in Node /\ r # s
  <2>1. r \in P \cup {NULL} /\ r # s
    BY <1>1 DEF Turn
  <2> QED  BY <1>2, <2>1 DEF SearchTree, Sets, Red
<1>4. Recolored(T, U, n, s, r)
  BY <1>1, <1>3, PaintThrice
<1> HIDE DEF U, m, p
<1>5. U \in Trees /\ U.root = T.root /\ U.kid = T.kid /\ U.parent = T.parent
  BY <1>4 DEF Recolored
<1>6. SearchTree(U, P, K, sub) /\ Turn(U, P, n, d, s, m, p, a, r)
  BY <1>1, <1>2, <1>5, PaintedTree
<1>7. Turned(U, R, P, K, n, d, s, m, p, a, r)
  BY <1>1, <1>6, TurnTurns
<1> HIDE DEF R
<1>8. \E b2 : RedBlack(R, P, K, b2)
  BY <1>1, <1>4, <1>7, LastTurn
<1>9. SameOutside(U, R, P)
  BY <1>7 DEF Turned
<1>10. SameOutside(T, R, P)
  BY <1>2, <1>5, <1>9, PaintedTree
<1> QED  BY <1>8, <1>10 DEF R, U

(* To paint a black adds no red, and counts on the ways through a only.    *)
LEMMA BlackPaint ==
  ASSUME NEW T \in Trees, NEW P, P \subseteq Node, KidsIn(T, P), NEW b \in [Node -> Nat],
         NEW a \in P, NEW M, ColorSet(T, M, a, "black")
  PROVE  /\ \A x \in Node \cup {NULL} : Red(M, x) <=> Red(T, x) /\ x # a
         /\ \A x \in P \cup {NULL} : x # a => Rank(M, b, x) = Rank(T, b, x)
         /\ Red(T, a) => Rank(M, b, a) = Rank(T, b, a) + 1 /\ Rank(T, b, a) \in Nat
<1>1. NULL \notin Node /\ a # NULL
  BY RBTreeAssumption
<1>2. M \in Trees /\ \A x \in Node : M.color[x] = IF x = a THEN "black" ELSE T.color[x]
  BY DEF ColorSet
<1>3. \A x \in Node \cup {NULL} : Red(M, x) <=> Red(T, x) /\ x # a
  BY <1>1, <1>2 DEF Red
<1>4. ASSUME NEW x \in P \cup {NULL}, x # a PROVE Rank(M, b, x) = Rank(T, b, x)
  BY <1>2, <1>4, SameRank
<1>5. ASSUME Red(T, a) PROVE Rank(M, b, a) = Rank(T, b, a) + 1 /\ Rank(T, b, a) \in Nat
  <2>1. ~ Red(M, a) /\ a \in Node
    BY <1>3
  <2>2. Rank(M, b, a) = b[a] + 1 /\ b[a] \in Nat
    BY <1>1, <1>2, <2>1, RankFacts
  <2>3. Rank(T, b, a) = b[a]
    BY <1>5, <2>1, RankFacts
  <2> QED  BY <2>2, <2>3
<1> QED  BY <1>3, <1>4, <1>5

(* The loop of erase ends.                                                 *)
LEMMA EndPaint ==
  ASSUME NEW T, NEW P, NEW K, NEW a, NEW p, Rebalancing(T, P, K, a, p),
         Red(T, a) \/ a = T.root
  PROVE  \E b : RedBlack(Painted(T, a, "black"), P, K, b)
<1> DEFINE M == Painted(T, a, "black")
<1>1. PICK sub : SearchTree(T, P, K, sub)
  BY DEF Rebalancing, Ordered
<1>2. T \in Trees /\ P \subseteq Node /\ NULL \notin Node /\ KidsIn(T, P) /\ NULL \notin P
  BY <1>1, RBTreeAssumption DEF SearchTree, Sets
<1>3. /\ \A x \in P : TwoRed(T, x) => x = a \/ T.parent[x] = a
      /\ Red(T, T.root) => T.root = a
  BY DEF Rebalancing
<1>4. CASE a = NULL
  <2>1. M = T /\ T.root = a /\ ~ Red(T, a)
    BY <1>4 DEF Painted, Red
  <2>2. PICK b : Levels(T, P, b, NULL, "left")
    <3>1. ~ (p \in P /\ \E d \in Side : T.kid[d][p] = a /\ \E b : Levels(T, P, b, p, d))
      <4>1. T.root \in P \/ P = {}
        BY <1>1 DEF SearchTree, Hung
      <4> QED  BY <1>2, <1>4, <2>1, <4>1
    <3> QED  BY <3>1 DEF Rebalancing
  <2>3. \A x \in P : ~ TwoRed(T, x)
    BY <1>2, <1>3, <1>4, <2>1 DEF TwoRed
  <2>4. RedBlack(T, P, K, b)
    BY <2>1, <2>2, <2>3 DEF RedBlack, Rebalancing
  <2> QED  BY <2>1, <2>4
<1>5. CASE a # NULL
  <2>1. a \in P
    <3>1. T.root \in P \cup {NULL}
      BY <1>1 DEF SearchTree, Hung
    <3> QED  BY <1>2, <1>5, <3>1 DEF Rebalancing, KidsIn
  <2>2. ColorSet(T, M, a, "black")
    BY <1>2, <2>1, SetColor
  <2> HIDE DEF M
  <2>3. M \in Trees /\ M.root = T.root /\ M.kid = T.kid /\ M.parent = T.parent
    BY <2>2 DEF ColorSet
  <2>4. PICK b : Levels(M, P, b, NULL, "left")
    <3>1. CASE T.root = a /\ \E b : Levels(T, P, b, NULL, "left")
      <4>1. PICK b : Levels(T, P, b, NULL, "left")
        BY <3>1
      <4>2. b \in [Node -> Nat]
        BY <4>1 DEF Levels
      <4>3. ASSUME NEW x \in P, NEW e \in Side
            PROVE  b[x] = Rank(M, b, M.kid[e][x]) + Lack(x, e, NULL, "left")
        <5>1. T.kid[e][x] \in P \cup {NULL} /\ T.kid[e][x] # a
          BY <1>1, <1>2, <1>5, <3>1, NodeAround DEF Around, KidsIn
        <5>2. Rank(M, b, T.kid[e][x]) = Rank(T, b, T.kid[e][x])
          BY <1>2, <2>1, <2>2, <4>2, <5>1, BlackPaint
        <5> QED  BY <2>3, <4>1, <5>2 DEF Levels
      <4>4. Levels(M, P, b, NULL, "left")
        BY <4>2, <4>3 DEF Levels
      <4> QED  BY <4>4
    <3>2. CASE p \in P /\ \E d \in Side : T.kid[d][p] = a /\ \E b : Levels(T, P, b, p, d)
      <4>1. PICK d \in Side : T.kid[d][p] = a /\ \E b : Levels(T, P, b, p, d)
        BY <3>2
      <4>2. PICK b : Levels(T, P, b, p, d)
        BY <4>1
      <4>3. b \in [Node -> Nat]
        BY <4>2 DEF Levels
      <4>4. Red(T, a)
        <5>1. a # T.root
          BY <1>1, <1>5, <3>2, <4>1, NodeAround DEF Around
        <5> QED  BY <5>1
      <4>5. Rank(M, b, a) = Rank(T, b, a) + 1 /\ Rank(T, b, a) \in Nat
        BY <1>2, <2>1, <2>2, <4>3, <4>4, BlackPaint
      <4>6. ASSUME NEW x \in P, NEW e \in Side
            PROVE  b[x] = Rank(M, b, M.kid[e][x]) + Lack(x, e, NULL, "left")
        <5>1. b[x] = Rank(T, b, T.kid[e][x]) + Lack(x, e, p, d)
          BY <4>2 DEF Levels
        <5>2. Lack(x, e, NULL, "left") = 0
          BY <1>2 DEF Lack
        <5>3. T.kid[e][x] \in P \cup {NULL} /\ T.kid[e][x] \in Node \cup {NULL}
          BY <1>2 DEF KidsIn
        <5>4. CASE T.kid[e][x] = a
          <6>1. Lack(x, e, p, d) = 1
            BY <1>1, <1>5, <3>2, <4>1, <5>4, KidIsOne DEF Lack
          <6> QED  BY <2>3, <4>5, <5>1, <5>2, <5>4, <6>1
        <5>5. CASE T.kid[e][x] # a
          <6>1. Lack(x, e, p, d) = 0
            BY <4>1, <5>5 DEF Lack
          <6>2. Rank(M, b, T.kid[e][x]) = Rank(T, b, T.kid[e][x])
            BY <1>2, <2>1, <2>2, <4>3, <5>3, <5>5, BlackPaint
          <6> QED  BY <2>3, <5>1, <5>2, <6>1, <6>2
        <5> QED  BY <5>4, <5>5
      <4>7. Levels(M, P, b, NULL, "left")
        BY <4>3, <4>6 DEF Levels
      <4> QED  BY <4>7
    <3> QED  BY <3>1, <3>2 DEF Rebalancing
  <2>5. \A x \in Node \cup {NULL} : Red(M, x) => Red(T, x) /\ x # a
    <3>1. b \in [Node -> Nat]
      BY <2>4 DEF Levels
    <3> QED  BY <1>2, <2>1, <2>2, <3>1, BlackPaint
  <2>6. \A x \in P : ~ TwoRed(M, x)
    <3> SUFFICES ASSUME NEW x \in P, TwoRed(M, x) PROVE FALSE
      OBVIOUS
    <3>1. x \in Node /\ T.parent[x] \in Node \cup {NULL}
      BY <1>2, TreeFields
    <3> QED  BY <1>3, <2>3, <2>5, <3>1 DEF TwoRed
  <2>7. ~ Red(M, M.root)
    BY <1>2, <1>3, <2>3, <2>5, TreeFields
  <2>8. Ordered(M, P, K)
    BY <1>1, <2>3, PaintKeeps DEF Ordered
  <2>9. RedBlack(M, P, K, b)
    BY <2>4, <2>6, <2>7, <2>8 DEF RedBlack
  <2> QED  BY <2>9 DEF M
<1> QED  BY <1>4, <1>5

(* The tree in the loop of insert: all is well, except that the parent of  *)
(* the red node a may be red too, or a may be the root.                    *)
Growing(T, P, K, b, a) ==
  /\ Ordered(T, P, K) /\ Levels(T, P, b, NULL, "left")
  /\ a \in P /\ Red(T, a)
  /\ \A x \in P : TwoRed(T, x) => x = a
  /\ Red(T, T.root) => T.root = a

(* The loop of insert ends.                                                *)
LEMMA BlackRoot ==
  ASSUME NEW T, NEW P, NEW K, NEW b, NEW a, Growing(T, P, K, b, a), ~ Red(T, T.parent[a])
  PROVE  RedBlack([T EXCEPT !.color[T.root] = "black"], P, K, b)
<1> DEFINE rt == T.root
           M == Painted(T, rt, "black")
<1>1. PICK sub : SearchTree(T, P, K, sub)
  BY DEF Growing, Ordered
<1>2. T \in Trees /\ P \subseteq Node /\ NULL \notin Node /\ KidsIn(T, P) /\ NULL \notin P
  BY <1>1, RBTreeAssumption DEF SearchTree, Sets
<1>3. rt \in P /\ rt # NULL
  BY <1>1, <1>2 DEF SearchTree, Hung, Growing
<1>4. [T EXCEPT !.color[T.root] = "black"] = M
  BY <1>3 DEF Painted
<1>5. ColorSet(T, M, rt, "black")
  BY <1>2, <1>3, SetColor
<1> HIDE DEF M
<1>6. M \in Trees /\ M.root = T.root /\ M.kid = T.kid /\ M.parent = T.parent
  BY <1>5 DEF ColorSet
<1>7. b \in [Node -> Nat]
  BY DEF Growing, Levels
<1>8. /\ \A x \in Node \cup {NULL} : Red(M, x) => Red(T, x) /\ x # rt
      /\ \A x \in P \cup {NULL} : x # rt => Rank(M, b, x) = Rank(T, b, x)
  <2> HIDE DEF rt
  <2> QED  BY <1>2, <1>3, <1>5, <1>7, BlackPaint
<1>9. Levels(M, P, b, NULL, "left")
  <2> SUFFICES ASSUME NEW x \in P, NEW e \in Side
               PROVE  b[x] = Rank(M, b, M.kid[e][x]) + Lack(x, e, NULL, "left")
    BY <1>7 DEF Levels
  <2>1. T.kid[e][x] \in P \cup {NULL} /\ T.kid[e][x] # rt
    BY <1>1, <1>2, <1>3, NodeAround DEF Around, KidsIn
  <2>2. Rank(M, b, T.kid[e][x]) = Rank(T, b, T.kid[e][x])
    BY <1>8, <2>1
  <2> QED  BY <1>6, <2>2 DEF Growing, Levels
<1>10. \A x \in P : ~ TwoRed(M, x)
  <2> SUFFICES ASSUME NEW x \in P, TwoRed(M, x) PROVE FALSE
    OBVIOUS
  <2>1. x \in Node /\ T.parent[x] \in Node \cup {NULL}
    BY <1>2, TreeFields
  <2>2. TwoRed(T, x)
    BY <1>6, <1>8, <2>1 DEF TwoRed
  <2> QED  BY <2>2 DEF TwoRed, Growing
<1>11. ~ Red(M, M.root)
  BY <1>2, <1>3, <1>6, <1>8
<1>12. Ordered(M, P, K)
  BY <1>1, <1>6, PaintKeeps DEF Ordered
<1>13. RedBlack(M, P, K, b)
  BY <1>9, <1>10, <1>11, <1>12 DEF RedBlack
<1> QED  BY <1>4, <1>13

(* A red parent c has a parent g, which is black.                          *)
Grand(T, P, a, c, g, d) ==
  /\ T.parent[a] = c /\ T.parent[c] = g /\ T.kid[d][g] = c /\ Red(T, c)
  /\ a \in P /\ c \in P /\ g \in P /\ d \in Side
  /\ a # c /\ a # g /\ c # g /\ ~ Red(T, g) /\ ~ Red(T, T.root)

LEMMA GrandParentIs ==
  ASSUME NEW T, NEW P, NEW K, NEW b, NEW a, Growing(T, P, K, b, a),
         NEW c, T.parent[a] = c, Red(T, c), NEW g, T.parent[c] = g
  PROVE  Grand(T, P, a, c, g, IF T.kid["left"][g] = c THEN "left" ELSE "right")
<1> DEFINE d == IF T.kid["left"][g] = c THEN "left" ELSE "right"
<1>1. PICK sub : SearchTree(T, P, K, sub)
  BY DEF Growing, Ordered
<1>2. T \in Trees /\ P \subseteq Node /\ NULL \notin Node /\ NULL \notin P
  BY <1>1, RBTreeAssumption DEF SearchTree, Sets
<1>3. a \in P /\ Red(T, a) /\ (\A x \in P : TwoRed(T, x) => x = a) /\ (Red(T, T.root) => T.root = a)
  BY DEF Growing
<1>4. c \in P /\ a # c /\ c # NULL
  BY <1>1, <1>2, <1>3, Hangs DEF Red
<1>5. T.root # a
  BY <1>1, <1>3, <1>4, Hangs
<1>6. ~ Red(T, T.root) /\ c # T.root
  BY <1>3, <1>5
<1>7. g \in P /\ g # c /\ g # NULL /\ HangsFrom(T, c, g)
  BY <1>1, <1>2, <1>4, <1>6, Hangs
<1>8. T.kid[d][g] = c /\ d \in Side
  <2>1. \E e \in Side : T.kid[e][g] = c
    BY <1>7 DEF HangsFrom
  <2> QED  BY <2>1 DEF Side
<1>9. a # g
  <2>1. PICK e \in Side : T.kid[e][c] = a
    BY <1>1, <1>3, <1>4, Hangs DEF HangsFrom
  <2> QED  BY <1>1, <1>2, <1>3, <1>4, <2>1, Hangs
<1>10. ~ Red(T, g)
  BY <1>3, <1>4 DEF TwoRed
<1> QED  BY <1>3, <1>4, <1>6, <1>7, <1>8, <1>9, <1>10 DEF Grand

(* A red uncle: the grandparent gives its black to its kids.               *)
LEMMA RedUncle ==
  ASSUME NEW T, NEW P, NEW K, NEW b, NEW a, Growing(T, P, K, b, a),
         NEW c, NEW g, NEW d, Grand(T, P, a, c, g, d), NEW u, T.kid[Other(d)][g] = u, Red(T, u),
         NEW M, M \in Trees, M.root = T.root, M.kid = T.kid, M.parent = T.parent,
         \A x \in Node : M.color[x] = IF x = g THEN "red" ELSE IF x = u \/ x = c THEN "black"
                                      ELSE T.color[x]
  PROVE  \E b2 : Growing(M, P, K, b2, g)
<1> DEFINE b2 == [b EXCEPT ![g] = b[g] + 1]
           o == Other(d)
<1>1. PICK sub : SearchTree(T, P, K, sub)
  BY DEF Growing, Ordered
<1>2. T \in Trees /\ P \subseteq Node /\ NULL \notin Node /\ NULL \notin P /\ KidsIn(T, P)
  BY <1>1, RBTreeAssumption DEF SearchTree, Sets
<1>3. /\ a \in P /\ (\A x \in P : TwoRed(T, x) => x = a)
      /\ Levels(T, P, b, NULL, "left") /\ b \in [Node -> Nat]
  BY DEF Growing, Levels
<1>4. /\ T.parent[a] = c /\ T.parent[c] = g /\ T.kid[d][g] = c /\ Red(T, c)
      /\ c \in P /\ g \in P /\ d \in Side /\ a # c /\ a # g /\ c # g /\ ~ Red(T, g) /\ ~ Red(T, T.root)
  BY DEF Grand
<1>5. o \in Side /\ \A e \in Side : e = d \/ e = o
  BY <1>4, Sides
<1>6. u \in P /\ u # NULL /\ u # g /\ T.parent[u] = g
  <2>1. Around(T, P, K, sub, g, o) /\ u # NULL
    BY <1>1, <1>4, <1>5, NodeAround DEF Red
  <2> QED  BY <1>2, <2>1 DEF Around
<1>7. \A x \in P : \A e \in Side : b[x] = Rank(T, b, T.kid[e][x])
  <2> SUFFICES ASSUME NEW x \in P, NEW e \in Side PROVE b[x] = Rank(T, b, T.kid[e][x])
    OBVIOUS
  <2>1. x # NULL
    BY <1>2
  <2>2. Levels(T, P, b, NULL, "left") /\ P \subseteq Node /\ T \in Trees /\ (x # NULL \/ e # "left")
    BY <1>2, <1>3, <2>1
  <2> QED  BY <2>2, LevelAt
<1>8. Rank(T, b, u) = b[g] /\ Rank(T, b, c) = b[g]
  BY <1>4, <1>5, <1>7
<1>9. /\ b2 \in [Node -> Nat] /\ b2[g] = b[g] + 1 /\ \A x \in Node \ {g} : b2[x] = b[x]
  BY <1>2, <1>3, <1>4
<1> HIDE DEF b2
<1>10. Rank(M, b2, u) = b[g] + 1 /\ Rank(M, b2, c) = b[g] + 1
  <2>1. c \in Node \ {g} /\ u \in Node \ {g}
    BY <1>2, <1>4, <1>6
  <2>2. Rank(T, b, u) = b[u] /\ Rank(T, b, c) = b[c]
    BY <1>2, <1>3, <1>4, <2>1, RankFacts
  <2>3. M.color[u] = "black" /\ M.color[c] = "black" /\ u # NULL /\ c # NULL
    BY <1>2, <2>1
  <2>4. Rank(M, b2, u) = b2[u] + 1 /\ Rank(M, b2, c) = b2[c] + 1
    BY <2>3 DEF Rank
  <2>5. b2[u] = b[u] /\ b2[c] = b[c]
    BY <1>9, <2>1
  <2> QED  BY <1>8, <2>2, <2>4, <2>5
<1>11. Rank(M, b2, g) = Rank(T, b, g) /\ Red(M, g)
  <2>1. g \in Node /\ g # NULL
    BY <1>2, <1>4
  <2>2. Red(M, g)
    BY <2>1 DEF Red
  <2>3. Rank(T, b, g) = b[g] + 1
    BY <1>2, <1>3, <1>4, <2>1, RankFacts
  <2>4. Rank(M, b2, g) = b2[g]
    BY <1>9, <2>1, <2>2, RankFacts
  <2> QED  BY <1>9, <2>2, <2>3, <2>4
<1>12. Levels(M, P, b2, NULL, "left")
  <2> SUFFICES ASSUME NEW x \in P, NEW e \in Side
               PROVE  b2[x] = Rank(M, b2, M.kid[e][x]) + Lack(x, e, NULL, "left")
    BY <1>9 DEF Levels
  <2>1. Lack(x, e, NULL, "left") = 0
    BY <1>2 DEF Lack
  <2>2. b2[x] \in Nat
    BY <1>2, <1>9
  <2>3. b2[x] = Rank(M, b2, T.kid[e][x])
    <3>1. CASE x = g
      <4>1. T.kid[e][x] = c \/ T.kid[e][x] = u
        BY <1>4, <1>5, <3>1
      <4> QED  BY <1>9, <1>10, <3>1, <4>1
    <3>2. CASE x # g
      <4>1. T.kid[e][x] # c /\ T.kid[e][x] # u
        BY <1>1, <1>2, <1>4, <1>5, <1>6, <3>2, KidIsOne
      <4>2. T.kid[e][x] \in Node \cup {NULL}
        BY <1>2 DEF KidsIn
      <4>3. Rank(M, b2, T.kid[e][x]) = Rank(T, b, T.kid[e][x])
        <5>1. CASE T.kid[e][x] = g
          BY <1>11, <5>1
        <5>2. CASE T.kid[e][x] # g
          BY <1>9, <4>1, <4>2, <5>2, SameRank
        <5> QED  BY <5>1, <5>2
      <4>4. b2[x] = b[x]
        BY <1>2, <1>9, <3>2
      <4> QED  BY <1>7, <4>3, <4>4
    <3> QED  BY <3>1, <3>2
  <2> QED  BY <2>1, <2>2, <2>3
<1>13. \A x \in P : TwoRed(M, x) => x = g
  <2> SUFFICES ASSUME NEW x \in P, TwoRed(M, x), x # g PROVE FALSE
    OBVIOUS
  <2> DEFINE y == T.parent[x]
  <2>1. y \in P /\ y # NULL
    BY <1>1, Hangs DEF TwoRed, Red
  <2>2. x # u /\ x # c /\ Red(T, x)
    BY <1>2 DEF TwoRed, Red
  <2>3. y # g
    <3>1. HangsFrom(T, x, y)
      BY <1>1, Hangs
    <3>2. \E e \in Side : T.kid[e][y] = x
      BY <2>1, <3>1 DEF HangsFrom
    <3> QED  BY <1>4, <1>5, <2>2, <3>2
  <2>4. y # u /\ y # c /\ Red(T, y)
    BY <1>2, <2>1, <2>3 DEF TwoRed, Red
  <2> QED  BY <1>3, <1>4, <2>2, <2>4 DEF TwoRed
<1>14. Red(M, M.root) => M.root = g
  BY <1>2, <1>4, TreeFields DEF Red
<1>15. Ordered(M, P, K)
  BY <1>1, PaintKeeps DEF Ordered
<1>16. Growing(M, P, K, b2, g)
  BY <1>4, <1>11, <1>12, <1>13, <1>14, <1>15 DEF Growing
<1> QED  BY <1>16

Even(T, P, b) ==
  /\ b \in [Node -> Nat]
  /\ \A x \in P : \A e \in Side : b[x] = Rank(T, b, T.kid[e][x])
  /\ \A x \in P : \A e \in Side : Lack(x, e, NULL, "left") = 0 /\ b[x] + 0 = b[x]

LEMMA LevelsEven ==
  ASSUME NEW T \in Trees, NEW P, P \subseteq Node, NEW b, Levels(T, P, b, NULL, "left")
  PROVE  Even(T, P, b)
<1>1. b \in [Node -> Nat]
  BY DEF Levels
<1>2. ASSUME NEW x \in P, NEW e \in Side PROVE b[x] = Rank(T, b, T.kid[e][x])
  <2>1. x # NULL
    BY RBTreeAssumption
  <2>2. Levels(T, P, b, NULL, "left") /\ P \subseteq Node /\ T \in Trees /\ (x # NULL \/ e # "left")
    BY <2>1
  <2> QED  BY <2>2, LevelAt
<1>3. ASSUME NEW x \in P, NEW e \in Side PROVE Lack(x, e, NULL, "left") = 0 /\ b[x] + 0 = b[x]
  <2>1. x # NULL /\ b[x] \in Nat
    BY <1>1, RBTreeAssumption
  <2> QED  BY <2>1 DEF Lack
<1> QED  BY <1>1, <1>2, <1>3 DEF Even

(* The numbers stay as they are when the five ways around a turn agree.    *)
LEMMA TurnEven ==
  ASSUME NEW T, NEW P, NEW K, NEW sub, SearchTree(T, P, K, sub),
         NEW n, NEW d \in Side, NEW c, NEW m, NEW p, NEW q, NEW r,
         Turn(T, P, n, d, c, m, p, q, r), NEW R, RotatedTo(T, R, n, d, c, m, p),
         NEW S \in Trees, S.kid = T.kid, ColorsApart(S, R, {n, c, q, m, r}),
         NEW b, Levels(S, P, b, NULL, "left"),
         Rank(R, b, c) = Rank(S, b, n), Rank(R, b, n) = b[c],
         \A x \in {q, m, r} : x = NULL \/ R.color[x] = S.color[x],
         b[n] = b[c]
  PROVE  Levels(R, P, b, NULL, "left")
<1> DEFINE o == Other(d)
<1>1. o \in Side /\ P \subseteq Node
  BY Sides DEF SearchTree, Sets
<1>2. /\ n \in P /\ c \in P
      /\ S.kid[d][n] = q /\ S.kid[d][c] = m /\ S.kid[o][c] = r
  BY DEF Turn
<1>3. /\ b \in [Node -> Nat]
      /\ \A x \in P : \A e \in Side : b[x] = Rank(S, b, S.kid[e][x])
      /\ \A x \in P : \A e \in Side : Lack(x, e, NULL, "left") = 0 /\ b[x] + 0 = b[x]
  <2>1. Even(S, P, b)
    BY <1>1, LevelsEven
  <2> QED  BY <2>1 DEF Even
<1>4. /\ b[n] = Rank(S, b, q) /\ b[c] = Rank(S, b, m) /\ b[c] = Rank(S, b, r)
  BY <1>1, <1>2, <1>3
<1>5. Rank(R, b, q) = Rank(S, b, q) /\ Rank(R, b, m) = Rank(S, b, m) /\ Rank(R, b, r) = Rank(S, b, r)
  <2>1. \A x \in {q, m, r} : Rank(R, b, x) = Rank(S, b, x)
    BY SameRank
  <2> QED  BY <2>1
<1>6. /\ b[n] = Rank(R, b, q) /\ b[n] = Rank(R, b, m)
      /\ b[c] = Rank(R, b, n) /\ b[c] = Rank(R, b, r)
  BY <1>4, <1>5, Zenon
<1>7. /\ Lack(n, d, NULL, "left") = 0 /\ Lack(n, o, NULL, "left") = 0
      /\ Lack(c, d, NULL, "left") = 0 /\ Lack(c, o, NULL, "left") = 0
      /\ b[n] + 0 = b[n] /\ b[c] + 0 = b[c]
  BY <1>1, <1>2, <1>3
<1>8. /\ b[n] = Rank(R, b, q) + Lack(n, d, NULL, "left")
      /\ b[n] = Rank(R, b, m) + Lack(n, o, NULL, "left")
      /\ b[c] = Rank(R, b, n) + Lack(c, d, NULL, "left")
      /\ b[c] = Rank(R, b, r) + Lack(c, o, NULL, "left")
  BY <1>6, <1>7, Zenon
<1>9. LevelsApart(S, T, P, b, {n, c}, NULL, "left")
  BY DEF Levels, LevelsApart
<1>10. \A x \in Node \ {n, c} : b[x] = b[x]
  OBVIOUS
<1>11. Rank(R, b, c) = Rank(S, b, n) /\ b \in [Node -> Nat]
  BY <1>3
<1> HIDE DEF o
<1> QED  BY <1>8, <1>9, <1>10, <1>11, TurnLevels DEF o

(* An inner kid is rotated above its parent, which takes its part.         *)
LEMMA InnerInsert ==
  ASSUME NEW T, NEW P, NEW K, NEW b, NEW a, Growing(T, P, K, b, a),
         NEW c, NEW g, NEW d, Grand(T, P, a, c, g, d), T.kid[Other(d)][c] = a
  PROVE  LET R == Rotated(T, c, d)
         IN  /\ Growing(R, P, K, b, c) /\ SameOutside(T, R, P)
             /\ Grand(R, P, c, a, g, d) /\ R.kid[d][a] = c
             /\ R.kid[Other(d)][g] = T.kid[Other(d)][g] /\ R.color = T.color
<1> DEFINE o == Other(d)
           R == Rotated(T, c, d)
           m == T.kid[d][a]
           q == T.kid[d][c]
           r == T.kid[o][a]
<1>1. PICK sub : SearchTree(T, P, K, sub)
  BY DEF Growing, Ordered
<1>2. T \in Trees /\ P \subseteq Node /\ NULL \notin Node /\ NULL \notin P /\ KidsIn(T, P)
  BY <1>1, RBTreeAssumption DEF SearchTree, Sets
<1>3. /\ a \in P /\ Red(T, a) /\ (\A x \in P : TwoRed(T, x) => x = a)
      /\ Levels(T, P, b, NULL, "left")
  BY DEF Growing
<1>4. /\ T.parent[a] = c /\ T.parent[c] = g /\ T.kid[d][g] = c /\ Red(T, c)
      /\ c \in P /\ g \in P /\ d \in Side /\ a # c /\ a # g /\ c # g /\ ~ Red(T, g) /\ ~ Red(T, T.root)
  BY DEF Grand
<1>5. o \in Side /\ o # d /\ \A e \in Side : e = d \/ e = o
  BY <1>4, Sides
<1>6. Turn(T, P, c, d, a, m, g, q, r)
  BY <1>1, <1>2, <1>3, <1>4, TurnMeans
<1>7. Turned(T, R, P, K, c, d, a, m, g, q, r)
  BY <1>1, <1>4, <1>6, TurnTurns
<1> HIDE DEF R, m, q, r
<1>8. /\ RotatedTo(T, R, c, d, a, m, g) /\ Ordered(R, P, K) /\ SameOutside(T, R, P)
      /\ R \in Trees /\ R.color = T.color /\ R.root = T.root
      /\ R.kid[d][a] = c /\ R.parent[c] = a /\ R.parent[a] = g
  BY <1>2, <1>4, <1>7 DEF Turned
<1>9. \A x : Red(R, x) <=> Red(T, x)
  BY <1>8 DEF Red
<1>10. b \in [Node -> Nat] /\ Rank(T, b, a) = b[a] /\ b[c] = Rank(T, b, a) /\ Rank(T, b, c) = b[c]
  <2>1. b \in [Node -> Nat] /\ b[c] = Rank(T, b, T.kid[o][c])
    <3>1. Even(T, P, b)
      BY <1>2, <1>3, LevelsEven
    <3> QED  BY <1>4, <1>5, <3>1 DEF Even
  <2>2. a \in Node /\ c \in Node
    BY <1>2, <1>3, <1>4
  <2> QED  BY <1>2, <1>3, <1>4, <2>1, <2>2, RankFacts
<1>11. Rank(R, b, a) = Rank(T, b, c) /\ Rank(R, b, c) = b[a] /\ b[c] = b[a]
  <2>1. Rank(R, b, a) = Rank(T, b, a) /\ Rank(R, b, c) = Rank(T, b, c)
    BY <1>8 DEF Rank
  <2> QED  BY <1>10, <2>1, Zenon
<1>12. Levels(R, P, b, NULL, "left")
  <2>1. ColorsApart(T, R, {c, a, q, m, r}) /\ \A x \in {q, m, r} : x = NULL \/ R.color[x] = T.color[x]
    BY <1>8 DEF ColorsApart
  <2>2. T.kid = T.kid
    OBVIOUS
  <2> QED  BY <1>1, <1>2, <1>3, <1>4, <1>6, <1>8, <1>11, <2>1, <2>2, TurnEven
<1>13. \A x \in P : TwoRed(R, x) => x = c
  <2>1. ColorsApart(T, R, {c, a, q, m, r})
    BY <1>8 DEF ColorsApart
  <2>2. ~ Red(T, q) /\ ~ Red(T, m) /\ ~ Red(T, r)
    <3>1. /\ q # NULL => q \in P /\ q # a /\ T.parent[q] = c
          /\ m # NULL => m \in P /\ m # a /\ T.parent[m] = a
          /\ r # NULL => r \in P /\ r # a /\ T.parent[r] = a
      BY <1>6 DEF Turn
    <3> QED  BY <1>3, <1>4, <3>1 DEF TwoRed, Red
  <2>3. \A x \in P \ {c, a, q, m, r} : ~ TwoRed(T, x)
    BY <1>3
  <2>4. ~ (Red(R, a) /\ Red(T, g)) /\ ~ (Red(R, q) /\ Red(R, c)) /\ ~ (Red(R, m) /\ Red(R, c))
        /\ ~ (Red(R, r) /\ Red(R, a))
    BY <1>4, <1>9, <2>2
  <2>5. T.parent = T.parent /\ (Red(R, q) => Red(T, q)) /\ (Red(R, m) => Red(T, m)) /\ (Red(R, r) => Red(T, r))
    BY <1>9
  <2> QED  BY <1>1, <1>2, <1>4, <1>6, <1>8, <2>1, <2>3, <2>4, <2>5, TurnReds
<1>14. R.kid[d][g] = a /\ R.kid[o][g] = T.kid[o][g]
  <2>1. T.kid[o][g] # c
    BY <1>1, <1>2, <1>4, <1>5, KidIsOne
  <2>2. \A e \in Side : R.kid[e][g] = IF T.kid[e][g] = c THEN a ELSE T.kid[e][g]
    BY <1>2, <1>4, <1>8 DEF RotatedTo
  <2> QED  BY <1>4, <1>5, <2>1, <2>2
<1>15. Growing(R, P, K, b, c)
  BY <1>4, <1>8, <1>9, <1>12, <1>13 DEF Growing
<1>16. Grand(R, P, c, a, g, d)
  BY <1>3, <1>4, <1>8, <1>9, <1>14 DEF Grand
<1> QED  BY <1>8, <1>14, <1>15, <1>16 DEF R

(* The parent of an outer kid is rotated above the grandparent.            *)
BelowGrand(T, P, K, b, a, c, g, d) ==
  /\ Growing(T, P, K, b, a) /\ Grand(T, P, a, c, g, d) /\ T.kid[d][c] = a
  /\ ~ Red(T, T.kid[Other(d)][g])

AboveGrand(T, c, g, d) ==
  Rotated([T EXCEPT !.color[c] = "black", !.color[g] = "red"], g, Other(d))

LEMMA OuterInsert ==
  ASSUME NEW T, NEW P, NEW K, NEW b, NEW a, NEW c, NEW g, NEW d,
         BelowGrand(T, P, K, b, a, c, g, d)
  PROVE  /\ Growing(AboveGrand(T, c, g, d), P, K, b, a)
         /\ SameOutside(T, AboveGrand(T, c, g, d), P)
         /\ ~ Red(AboveGrand(T, c, g, d), AboveGrand(T, c, g, d).parent[a])
<1>0. /\ Growing(T, P, K, b, a) /\ Grand(T, P, a, c, g, d) /\ T.kid[d][c] = a
      /\ ~ Red(T, T.kid[Other(d)][g])
  BY DEF BelowGrand
<1> USE <1>0
<1> DEFINE o == Other(d)
           U == [T EXCEPT !.color[c] = "black", !.color[g] = "red"]
           R == Rotated(U, g, o)
           m == T.kid[o][c]
           q == T.kid[o][g]
           p == T.parent[g]
<1>a. AboveGrand(T, c, g, d) = R
  BY Zenon DEF AboveGrand
<1>1. PICK sub : SearchTree(T, P, K, sub)
  BY DEF Growing, Ordered
<1>2. T \in Trees /\ P \subseteq Node /\ NULL \notin Node /\ NULL \notin P /\ KidsIn(T, P)
  BY <1>1, RBTreeAssumption DEF SearchTree, Sets
<1>3. /\ a \in P /\ Red(T, a) /\ (\A x \in P : TwoRed(T, x) => x = a)
      /\ Levels(T, P, b, NULL, "left")
  BY DEF Growing
<1>4. /\ T.parent[a] = c /\ T.parent[c] = g /\ T.kid[d][g] = c /\ Red(T, c)
      /\ c \in P /\ g \in P /\ d \in Side /\ a # c /\ a # g /\ c # g /\ ~ Red(T, g) /\ ~ Red(T, T.root)
  BY DEF Grand
<1>5. o \in Side /\ Other(o) = d
  BY <1>4, Sides
<1>6. Turn(T, P, g, o, c, m, p, q, a)
  <2>1. T.kid[Other(o)][g] = c /\ c # NULL /\ T.kid[Other(o)][c] = a
    BY <1>2, <1>4, <1>5
  <2>2. Turn(T, P, g, o, c, T.kid[o][c], T.parent[g], T.kid[o][g], T.kid[Other(o)][c])
    BY <1>1, <1>4, <1>5, <2>1, TurnMeans
  <2> QED  BY <2>1, <2>2
<1>7. PaintedTo(T, U, c, "black", g, "red")
  <2>1. "black" \in {"red", "black"} /\ "red" \in {"red", "black"} /\ c \in Node /\ g \in Node /\ T \in Trees /\ c # g
    BY <1>2, <1>4
  <2> QED  BY <2>1, PaintTwo, Zenon
<1> HIDE DEF U, m, q, p
<1>8. /\ U \in Trees /\ U.root = T.root /\ U.kid = T.kid /\ U.parent = T.parent
      /\ U.color[c] = "black" /\ U.color[g] = "red"
      /\ \A x \in Node \ {g, c} : U.color[x] = T.color[x]
  BY <1>2, <1>4, <1>7 DEF PaintedTo
<1>9. SearchTree(U, P, K, sub) /\ Turn(U, P, g, o, c, m, p, q, a)
  BY <1>1, <1>6, <1>8, PaintedTree
<1>10. Turned(U, R, P, K, g, o, c, m, p, q, a)
  <2> HIDE DEF o
  <2> QED  BY <1>5, <1>9, TurnTurns
<1> HIDE DEF R
<1>11. /\ RotatedTo(U, R, g, o, c, m, p) /\ Ordered(R, P, K) /\ SameOutside(U, R, P)
       /\ R \in Trees /\ R.color = U.color /\ R.root = IF p = NULL THEN c ELSE T.root
  BY <1>8, <1>10 DEF Turned
<1>12. SameOutside(T, R, P)
  BY <1>1, <1>8, <1>11, PaintedTree
<1>13. Red(R, g) /\ ~ Red(R, c)
  BY <1>2, <1>4, <1>8, <1>11 DEF Red
<1>14. /\ q \in P \cup {NULL} /\ m \in P \cup {NULL} /\ q # g /\ q # c /\ m # g /\ m # c
       /\ (m # NULL => T.parent[m] = c /\ m # a)
       /\ T.kid[o][g] = q /\ T.kid[o][c] = m
  <2>1. m # NULL => m # a
    <3>1. Turn(T, P, g, o, c, m, p, q, a)
      BY <1>6
    <3> QED  BY <1>2, <1>3, <3>1 DEF Turn
  <2> QED  BY <1>6, <2>1 DEF Turn
<1>15. \A x \in {q, m, a} : (x = NULL \/ R.color[x] = T.color[x]) /\ (Red(R, x) <=> Red(T, x))
  <2>1. \A x \in {q, m, a} : x = NULL \/ R.color[x] = T.color[x]
    BY <1>2, <1>3, <1>4, <1>8, <1>11, <1>14
  <2> QED  BY <2>1 DEF Red
<1>16. /\ b \in [Node -> Nat] /\ b[g] = b[c] /\ Rank(R, b, c) = Rank(T, b, g) /\ Rank(R, b, g) = b[c]
  <2>1. b \in [Node -> Nat] /\ b[g] = Rank(T, b, T.kid[d][g])
    <3>1. Even(T, P, b)
      BY <1>2, <1>3, LevelsEven
    <3> QED  BY <1>4, <3>1 DEF Even
  <2>2. c \in Node /\ g \in Node /\ c # NULL /\ g # NULL
    BY <1>2, <1>4
  <2>3. Rank(T, b, c) = b[c] /\ Rank(T, b, g) = b[g] + 1
    BY <1>2, <1>4, <2>1, <2>2, RankFacts
  <2>4. Rank(R, b, c) = b[c] + 1 /\ Rank(R, b, g) = b[g]
    BY <1>11, <1>13, <2>1, <2>2, RankFacts
  <2>5. b[g] = b[c]
    BY <1>4, <2>1, <2>3, Zenon
  <2> QED  BY <2>1, <2>3, <2>4, <2>5, Zenon
<1>17. ColorsApart(T, R, {g, c, q, m, a})
  BY <1>8, <1>11 DEF ColorsApart
<1>18. Levels(R, P, b, NULL, "left")
  <2>1. \A x \in {q, m, a} : x = NULL \/ R.color[x] = T.color[x]
    BY <1>15
  <2>2. T.kid = U.kid
    BY <1>8
  <2> HIDE DEF o
  <2> QED  BY <1>2, <1>3, <1>5, <1>9, <1>11, <1>16, <1>17, <2>1, <2>2, TurnEven
<1>19. \A x \in P : ~ TwoRed(R, x)
  <2>1. ~ Red(T, m) /\ ~ Red(T, q)
    <3>1. ~ Red(T, q)
      BY <1>14
    <3>2. m # NULL => ~ TwoRed(T, m)
      BY <1>2, <1>3, <1>14
    <3> QED  BY <1>4, <1>14, <3>1, <3>2 DEF TwoRed, Red
  <2>2. \A x \in P \ {g, c, q, m, a} : ~ TwoRed(T, x)
    BY <1>3
  <2>3. ~ (Red(R, c) /\ Red(T, p)) /\ ~ (Red(R, q) /\ Red(R, g)) /\ ~ (Red(R, m) /\ Red(R, g))
        /\ ~ (Red(R, a) /\ Red(R, c))
    BY <1>13, <1>15, <2>1
  <2>4. T.parent = U.parent /\ (Red(R, q) => Red(T, q)) /\ (Red(R, m) => Red(T, m)) /\ (Red(R, a) => Red(T, a))
    BY <1>8, <1>15
  <2>5. \A x \in P : TwoRed(R, x) => x = g /\ Red(R, g) /\ Red(R, c)
    <3> HIDE DEF o
    <3> QED  BY <1>2, <1>5, <1>9, <1>11, <1>17, <2>2, <2>3, <2>4, TurnReds
  <2> QED  BY <1>13, <2>5
<1>20. ~ Red(R, R.root)
  <2>1. CASE p = NULL
    BY <1>11, <1>13, <2>1
  <2>2. CASE p # NULL
    <3>1. T.root # g /\ T.root # c /\ T.root \in Node
      <4>1. T.parent[T.root] = NULL /\ T.root \in P
        BY <1>1, <1>3 DEF SearchTree, Hung
      <4> QED  BY <1>2, <1>4, <2>2, <4>1 DEF p
    <3>2. R.root = T.root /\ R.color[T.root] = T.color[T.root]
      BY <1>8, <1>11, <2>2, <3>1
    <3> QED  BY <1>4, <3>2 DEF Red
  <2> QED  BY <2>1, <2>2
<1>21. Growing(R, P, K, b, a)
  BY <1>3, <1>11, <1>15, <1>18, <1>19, <1>20 DEF Growing
<1>22. ~ Red(R, R.parent[a])
  <2>1. R.parent[a] = c
    BY <1>2, <1>3, <1>4, <1>8, <1>11, <1>14 DEF RotatedTo
  <2> QED  BY <1>13, <2>1
<1> QED  BY <1>12, <1>21, <1>22, <1>a

-----------------------------------------------------------------------------
(* Part 5: nodes come and go.                                              *)

(* What Link assigns.                                                      *)
Leaf(T, n, p) == [T EXCEPT !.parent[n] = p, !.color[n] = "red",
                           !.kid["left"][n] = NULL, !.kid["right"][n] = NULL]

LEMMA LinkedFields ==
  ASSUME NEW T \in Trees, NEW n \in Node, NEW p \in Node \cup {NULL}, n # p, NEW d \in Side
  PROVE  LET M == IF p = NULL THEN [Leaf(T, n, p) EXCEPT !.root = n] ELSE WithKid(Leaf(T, n, p), p, d, n)
         IN  /\ LinkedTo(T, M, n, p, d)
             /\ \A x \in Node : M.color[x] = IF x = n THEN "red" ELSE T.color[x]
<1> DEFINE T1 == WithParent(T, n, p)
           T2 == Painted(T1, n, "red")
           T3 == WithKid(T2, n, "left", NULL)
           T4 == WithKid(T3, n, "right", NULL)
           M  == IF p = NULL THEN [T4 EXCEPT !.root = n] ELSE WithKid(T4, p, d, n)
<1>1. n # NULL /\ "left" \in Side /\ "right" \in Side
  BY RBTreeAssumption DEF Side
<1>2. Leaf(T, n, p) = T4
  BY <1>1 DEF Leaf, WithParent, Painted, WithKid
<1>3. ParentSet(T, T1, n, p)
  BY SetParent
<1>4. T1 \in Trees
  BY <1>3, InTrees
<1> HIDE DEF T1
<1>5. ColorSet(T1, T2, n, "red")
  BY <1>4, SetColor
<1>6. T2 \in Trees
  BY <1>5, InTrees
<1> HIDE DEF T2
<1>7. KidSet(T2, T3, n, "left", NULL)
  BY <1>1, <1>6, SetKid
<1>8. T3 \in Trees
  BY <1>7, InTrees
<1> HIDE DEF T3
<1>9. KidSet(T3, T4, n, "right", NULL)
  BY <1>1, <1>8, SetKid
<1>10. T4 \in Trees
  BY <1>9, InTrees
<1> HIDE DEF T4
<1>11. /\ T4.root = T.root
       /\ \A x \in Node : T4.parent[x] = IF x = n THEN p ELSE T.parent[x]
       /\ \A x \in Node : T4.color[x] = IF x = n THEN "red" ELSE T.color[x]
       /\ \A e \in Side : \A x \in Node : T4.kid[e][x] = IF x = n THEN NULL ELSE T.kid[e][x]
  <2>1. T4.root = T.root /\ T4.parent = T1.parent /\ T4.color = T2.color
    BY <1>3, <1>5, <1>7, <1>9 DEF ParentSet, ColorSet, KidSet
  <2>2. \A e \in Side : \A x \in Node : T4.kid[e][x] = IF x = n THEN NULL ELSE T2.kid[e][x]
    BY <1>7, <1>9 DEF KidSet, Side
  <2>3. T2.kid = T.kid /\ T1.color = T.color
    BY <1>3, <1>5 DEF ParentSet, ColorSet
  <2>4. \A x \in Node : T2.color[x] = IF x = n THEN "red" ELSE T1.color[x]
    BY <1>5 DEF ColorSet
  <2>5. \A x \in Node : T1.parent[x] = IF x = n THEN p ELSE T.parent[x]
    BY <1>3 DEF ParentSet
  <2> QED  BY <2>1, <2>2, <2>3, <2>4, <2>5
<1>12. LinkedTo(T, M, n, p, d) /\ \A x \in Node : M.color[x] = IF x = n THEN "red" ELSE T.color[x]
  <2>1. CASE p = NULL
    <3>1. RootSet(T4, M, n)
      BY <1>10, <2>1, SetRoot
    <3> HIDE DEF M
    <3> QED  BY <1>1, <1>11, <2>1, <3>1, RBTreeAssumption DEF RootSet, LinkedTo
  <2>2. CASE p # NULL
    <3>1. KidSet(T4, M, p, d, n)
      BY <1>10, <2>2, SetKid
    <3> HIDE DEF M
    <3> QED  BY <1>1, <1>11, <2>2, <3>1 DEF KidSet, LinkedTo
  <2> QED  BY <2>1, <2>2
<1> QED  BY <1>2, <1>12

(* The new leaf is red.                                                    *)
RedLeaf(T, M, P, K, K2, sub, n, k, p, d) ==
  /\ SearchTree(T, P, K, sub) /\ n \in Node \ P /\ k \in Int
  /\ PlaceFor(T, P, K, sub, k, p, d) /\ LinkedTo(T, M, n, p, d)
  /\ \A x \in Node : M.color[x] = IF x = n THEN "red" ELSE T.color[x]
  /\ K2[n] = k /\ \A x \in P : K2[x] = K[x]

LEMMA LinkGrows ==
  ASSUME NEW T, NEW M, NEW P, NEW K, NEW K2, NEW sub, NEW b, NEW n, NEW k, NEW p, NEW d,
         RedBlack(T, P, K, b), RedLeaf(T, M, P, K, K2, sub, n, k, p, d)
  PROVE  \E b2 : Growing(M, P \cup {n}, K2, b2, n)
<1>0. /\ SearchTree(T, P, K, sub) /\ n \in Node \ P /\ k \in Int
      /\ PlaceFor(T, P, K, sub, k, p, d) /\ LinkedTo(T, M, n, p, d)
      /\ \A x \in Node : M.color[x] = IF x = n THEN "red" ELSE T.color[x]
      /\ K2[n] = k /\ \A x \in P : K2[x] = K[x]
  BY DEF RedLeaf
<1> USE <1>0
<1> DEFINE Q == P \cup {n}
           b2 == [b EXCEPT ![n] = 0]
<1>1. Ordered(M, Q, K2)
  BY LinkKeeps DEF Ordered
<1>2. /\ T \in Trees /\ P \subseteq Node /\ NULL \notin Node /\ NULL \notin P /\ n # NULL
      /\ KidsIn(T, P) /\ n \notin P /\ n \in Node /\ M \in Trees
  BY RBTreeAssumption DEF SearchTree, Sets, LinkedTo
<1>3. b \in [Node -> Nat] /\ Even(T, P, b)
  BY <1>2, LevelsEven DEF RedBlack, Levels
<1>4. b2 \in [Node -> Nat] /\ b2[n] = 0 /\ \A x \in P : b2[x] = b[x]
  BY <1>2, <1>3
<1> HIDE DEF b2
<1>5. Red(M, n) /\ Rank(M, b2, n) = 0
  <2>1. Red(M, n)
    BY <1>2 DEF Red
  <2> QED  BY <1>2, <1>4, <2>1, RankFacts
<1>6. p = NULL \/ (p \in P /\ d \in Side /\ T.kid[d][p] = NULL)
  BY DEF PlaceFor
<1>7. \A x \in P \cup {NULL} : Rank(M, b2, x) = Rank(T, b, x) /\ (Red(M, x) <=> Red(T, x))
  <2>1. \A x \in P \cup {NULL} : x = NULL \/ (M.color[x] = T.color[x] /\ b2[x] = b[x])
    BY <1>2, <1>4
  <2> QED  BY <2>1, SameRank
<1>8. Levels(M, Q, b2, NULL, "left")
  <2> SUFFICES ASSUME NEW x \in Q, NEW e \in Side
               PROVE  b2[x] = Rank(M, b2, M.kid[e][x]) + Lack(x, e, NULL, "left")
    BY <1>4 DEF Levels
  <2>1. x \in Node /\ x # NULL /\ Lack(x, e, NULL, "left") = 0 /\ b2[x] \in Nat
    BY <1>2, <1>4 DEF Lack
  <2>2. b2[x] = Rank(M, b2, M.kid[e][x])
    <3>1. CASE x = n
      <4>1. M.kid[e][n] = NULL
        BY DEF LinkedTo
      <4> QED  BY <1>4, <3>1, <4>1 DEF Rank
    <3>2. CASE x # n
      <4>1. x \in P /\ b2[x] = Rank(T, b, T.kid[e][x]) /\ T.kid[e][x] \in P \cup {NULL}
        BY <1>2, <1>3, <1>4, <2>1, <3>2 DEF Even, KidsIn
      <4>2. CASE x = p /\ e = d
        <5>1. M.kid[e][x] = n /\ T.kid[e][x] = NULL
          BY <1>2, <1>6, <3>2, <4>1, <4>2 DEF LinkedTo
        <5> QED  BY <1>5, <4>1, <5>1 DEF Rank
      <4>3. CASE ~ (x = p /\ e = d)
        <5>1. M.kid[e][x] = T.kid[e][x]
          BY <2>1, <3>2, <4>3 DEF LinkedTo
        <5> QED  BY <1>7, <4>1, <5>1
      <4> QED  BY <4>2, <4>3
    <3> QED  BY <3>1, <3>2
  <2> QED  BY <2>1, <2>2
<1>9. \A x \in Q : TwoRed(M, x) => x = n
  <2> SUFFICES ASSUME NEW x \in P, TwoRed(M, x) PROVE FALSE
    BY <1>2
  <2>1. M.parent[x] = T.parent[x]
    BY <1>2 DEF LinkedTo
  <2>2. T.parent[x] \in P \cup {NULL}
    BY Hangs
  <2>3. TwoRed(T, x)
    BY <1>7, <2>1, <2>2 DEF TwoRed
  <2> QED  BY <2>3 DEF RedBlack
<1>10. Red(M, M.root) => M.root = n
  <2>1. CASE p = NULL
    BY <2>1 DEF LinkedTo
  <2>2. CASE p # NULL
    <3>1. M.root = T.root /\ T.root \in P
      BY <1>6, <2>2 DEF LinkedTo, SearchTree, Hung
    <3> QED  BY <1>7, <3>1 DEF RedBlack
  <2> QED  BY <2>1, <2>2
<1>11. Growing(M, Q, K2, b2, n)
  BY <1>1, <1>5, <1>8, <1>9, <1>10 DEF Growing
<1> QED  BY <1>11

(* A node without kids on one side goes out: if it was black, a black node *)
(* lacks where it was.                                                     *)
LEMMA OutLevels ==
  ASSUME NEW T, NEW P, NEW K, NEW b, RedBlack(T, P, K, b),
         NEW sub, SearchTree(T, P, K, sub), Bare(T, Node \ P),
         NEW n \in P, NEW d \in Side, T.kid[d][n] = NULL,
         NEW c, T.kid[Other(d)][n] = c, NEW p, T.parent[n] = p,
         NEW M, OutOf(T, M, n, c, p), M.color = T.color,
         NEW K2, \A x \in P \ {n} : K2[x] = K[x]
  PROVE  IF T.color[n] = "black" THEN Rebalancing(M, P \ {n}, K2, c, p)
         ELSE \E b2 : RedBlack(M, P \ {n}, K2, b2)
<1> DEFINE Q == P \ {n}
<1>1. Ordered(M, Q, K2)
  BY OutKeeps DEF Ordered
<1>2. /\ T \in Trees /\ P \subseteq Node /\ NULL \notin Node /\ NULL \notin P
      /\ KidsIn(T, P) /\ M \in Trees /\ n \in Node /\ n # NULL
  BY RBTreeAssumption DEF SearchTree, Sets, OutOf
<1>3. b \in [Node -> Nat] /\ Even(T, P, b)
  BY <1>2, LevelsEven DEF RedBlack, Levels
<1>4. /\ p \in P \cup {NULL} /\ HangsFrom(T, n, p) /\ (p = NULL <=> n = T.root) /\ p # n
  BY Hangs
<1>5. /\ c \in P \cup {NULL} /\ c # n /\ (c # NULL => T.parent[c] = n)
      /\ \A e \in Side : e = d \/ e = Other(d)
  <2>1. Other(d) \in Side /\ \A e \in Side : e = d \/ e = Other(d)
    BY Sides
  <2>2. Around(T, P, K, sub, n, Other(d))
    BY <2>1, NodeAround
  <2> QED  BY <1>2, <2>1, <2>2 DEF Around
<1>6. \A x \in Node \cup {NULL} : Rank(M, b, x) = Rank(T, b, x)
  BY SameRank
<1>7. \A x : Red(M, x) <=> Red(T, x)
  BY DEF Red
<1>8. /\ \A x \in Node : M.parent[x] = IF x = c THEN p ELSE T.parent[x]
      /\ \A e \in Side : \A x \in Node :
           M.kid[e][x] = IF x = p /\ T.kid[e][x] = n THEN c ELSE T.kid[e][x]
      /\ M.root = IF p = NULL THEN c ELSE T.root
  BY DEF OutOf
<1>9. Rank(T, b, c) = b[n] /\ b[n] \in Nat
  <2>1. Other(d) \in Side
    BY Sides
  <2> QED  BY <1>2, <1>3, <2>1 DEF Even
<1>10. ASSUME NEW x \in Q, NEW e \in Side
       PROVE  /\ T.kid[e][x] # n => b[x] = Rank(M, b, M.kid[e][x])
              /\ T.kid[e][x] = n => /\ M.kid[e][x] = c /\ x = p
                                    /\ b[x] = Rank(M, b, c) + (IF T.color[n] = "black" THEN 1 ELSE 0)
  <2>1. x \in P /\ x \in Node /\ b[x] = Rank(T, b, T.kid[e][x]) /\ T.kid[e][x] \in Node \cup {NULL}
    BY <1>2, <1>3 DEF Even, KidsIn
  <2>2. CASE T.kid[e][x] # n
    BY <1>6, <1>8, <2>1, <2>2
  <2>3. CASE T.kid[e][x] = n
    <3>1. x = p
      BY <1>2, <2>1, <2>3 DEF SearchTree, KidsLead
    <3>2. M.kid[e][x] = c
      BY <1>8, <2>1, <2>3, <3>1
    <3>3. b[x] = b[n] + (IF T.color[n] = "black" THEN 1 ELSE 0)
      BY <1>2, <2>1, <2>3 DEF Rank
    <3>4. Rank(M, b, c) = b[n]
      BY <1>2, <1>5, <1>6, <1>9
    <3> QED  BY <2>3, <3>1, <3>2, <3>3, <3>4
  <2> QED  BY <2>2, <2>3
<1>11. ASSUME NEW x \in Q, TwoRed(M, x)
       PROVE  x = c /\ ~ Red(T, n)
  <2>1. x \in Node /\ x \in P /\ Red(T, x)
    BY <1>2, <1>7, <1>11 DEF TwoRed
  <2>2. ~ TwoRed(T, x)
    BY <2>1 DEF RedBlack
  <2>3. x = c
    BY <1>7, <1>8, <1>11, <2>1, <2>2 DEF TwoRed
  <2>4. T.parent[x] = n
    BY <1>2, <1>5, <2>1, <2>3
  <2> QED  BY <2>1, <2>2, <2>3, <2>4 DEF TwoRed
<1>12. Red(M, M.root) => M.root = c
  BY <1>7, <1>8 DEF RedBlack
<1>13. CASE T.color[n] = "black"
  <2>1. \A x \in Q : TwoRed(M, x) => x = c \/ M.parent[x] = c
    BY <1>11
  <2>2. \/ M.root = c /\ Levels(M, Q, b, NULL, "left")
        \/ p \in Q /\ \E e \in Side : M.kid[e][p] = c /\ Levels(M, Q, b, p, e)
    <3>1. CASE p = NULL
      <4> SUFFICES ASSUME NEW x \in Q, NEW e \in Side
                   PROVE  b[x] = Rank(M, b, M.kid[e][x]) + Lack(x, e, NULL, "left")
        BY <1>3, <1>8, <3>1 DEF Levels
      <4>1. x # NULL /\ x \in Node /\ T.kid[e][x] # n
        BY <1>2, <1>10, <3>1
      <4>2. Lack(x, e, NULL, "left") = 0 /\ b[x] \in Nat
        BY <1>3, <4>1 DEF Lack
      <4> QED  BY <1>10, <4>1, <4>2
    <3>2. CASE p # NULL
      <4>1. PICK e \in Side : T.kid[e][p] = n
        BY <1>4, <3>2 DEF HangsFrom
      <4>2. p \in Q /\ p \in P /\ p \in Node /\ M.kid[e][p] = c
        BY <1>2, <1>4, <1>8, <3>2, <4>1
      <4>3. ASSUME NEW x \in Q, NEW f \in Side
            PROVE  b[x] = Rank(M, b, M.kid[f][x]) + Lack(x, f, p, e)
        <5>1. T.kid[f][x] = n <=> x = p /\ f = e
          BY <1>2, <4>1, <4>2, KidIsOne
        <5>2. CASE T.kid[f][x] = n
          BY <1>10, <1>13, <5>1, <5>2 DEF Lack
        <5>3. CASE T.kid[f][x] # n
          <6>1. Lack(x, f, p, e) = 0 /\ b[x] \in Nat
            BY <1>2, <1>3, <5>1, <5>3 DEF Lack
          <6> QED  BY <1>10, <5>3, <6>1
        <5> QED  BY <5>2, <5>3
      <4>4. Levels(M, Q, b, p, e)
        BY <1>3, <4>3 DEF Levels
      <4> QED  BY <4>1, <4>2, <4>4
    <3> QED  BY <3>1, <3>2
  <2>3. Rebalancing(M, Q, K2, c, p)
    BY <1>1, <1>12, <2>1, <2>2 DEF Rebalancing
  <2> QED  BY <1>13, <2>3
<1>14. CASE T.color[n] # "black"
  <2>1. Red(T, n)
    BY <1>2, <1>14, TreeFields DEF Red
  <2>2. Levels(M, Q, b, NULL, "left")
    <3> SUFFICES ASSUME NEW x \in Q, NEW e \in Side
                 PROVE  b[x] = Rank(M, b, M.kid[e][x]) + Lack(x, e, NULL, "left")
      BY <1>3 DEF Levels
    <3>1. Lack(x, e, NULL, "left") = 0 /\ b[x] \in Nat
      BY <1>2, <1>3 DEF Lack
    <3>2. b[x] = Rank(M, b, M.kid[e][x])
      <4>1. CASE T.kid[e][x] # n
        BY <1>10, <4>1
      <4>2. CASE T.kid[e][x] = n
        <5>1. Rank(M, b, c) \in Nat
          BY <1>2, <1>3, <1>5, RankFacts
        <5> QED  BY <1>10, <1>14, <4>2, <5>1
      <4> QED  BY <4>1, <4>2
    <3> QED  BY <3>1, <3>2
  <2>3. \A x \in Q : ~ TwoRed(M, x)
    BY <1>11, <2>1
  <2>4. ~ Red(M, M.root)
    BY <1>4, <1>7, <1>8, <2>1 DEF RedBlack
  <2>5. RedBlack(M, Q, K2, b)
    BY <1>1, <2>2, <2>3, <2>4 DEF RedBlack
  <2> QED  BY <1>14, <2>5
<1> QED  BY <1>13, <1>14

(* What s does in the place of n is what n did.                            *)
Moved(n, s, x) == IF x = n THEN s ELSE x

LEMMA PlaceRenames ==
  ASSUME NEW T, NEW P, NEW K, NEW sub, SearchTree(T, P, K, sub),
         NEW n \in P, NEW s \in Node \ P, NEW M, InPlaceOf(T, M, n, s)
  PROVE  /\ M.root = Moved(n, s, T.root)
         /\ \A x \in P : M.parent[Moved(n, s, x)] = Moved(n, s, T.parent[x])
         /\ \A x \in P : \A e \in Side : M.kid[e][Moved(n, s, x)] = Moved(n, s, T.kid[e][x])
<1>1. /\ P \subseteq Node /\ NULL \notin Node /\ NULL \notin P /\ n \in Node /\ s \in Node
      /\ s \notin P /\ s # n /\ s # NULL /\ KidsIn(T, P) /\ KidsLead(T, P)
  BY RBTreeAssumption DEF SearchTree, Sets
<1>2. /\ M.root = IF T.parent[n] = NULL THEN s ELSE T.root
      /\ \A x \in Node :
           M.parent[x] = IF x = s THEN T.parent[n]
                         ELSE IF \E e \in Side : T.kid[e][n] = x THEN s ELSE T.parent[x]
      /\ \A e \in Side : \A x \in Node :
           M.kid[e][x] = IF x = s THEN T.kid[e][n]
                         ELSE IF x = T.parent[n] /\ T.kid[e][x] = n THEN s ELSE T.kid[e][x]
  BY DEF InPlaceOf
<1>3. T.parent[n] # n /\ (T.parent[n] = NULL <=> n = T.root)
  BY Hangs
<1>4. \A e \in Side : T.kid[e][n] # n
  BY <1>1, NodeAround DEF Around
<1>5. M.root = Moved(n, s, T.root)
  BY <1>2, <1>3 DEF Moved
<1>6. ASSUME NEW x \in P PROVE M.parent[Moved(n, s, x)] = Moved(n, s, T.parent[x])
  <2>1. CASE x = n
    BY <1>1, <1>2, <1>3, <2>1 DEF Moved
  <2>2. CASE x # n
    <3>1. x \in Node /\ x # s /\ x # NULL /\ Moved(n, s, x) = x
      BY <1>1, <2>2 DEF Moved
    <3>2. T.parent[x] = n <=> \E e \in Side : T.kid[e][n] = x
      <4>1. HangsFrom(T, x, T.parent[x])
        BY Hangs
      <4>2. T.parent[x] = n => \E e \in Side : T.kid[e][n] = x
        BY <1>1, <4>1 DEF HangsFrom
      <4> QED  BY <1>1, <3>1, <4>2 DEF KidsLead
    <3> QED  BY <1>2, <3>1, <3>2 DEF Moved
  <2> QED  BY <2>1, <2>2
<1>7. ASSUME NEW x \in P, NEW e \in Side PROVE M.kid[e][Moved(n, s, x)] = Moved(n, s, T.kid[e][x])
  <2>1. CASE x = n
    BY <1>1, <1>2, <1>4, <2>1 DEF Moved
  <2>2. CASE x # n
    <3>1. x \in Node /\ x # s /\ Moved(n, s, x) = x
      BY <1>1, <2>2 DEF Moved
    <3>2. T.kid[e][x] = n => T.parent[n] = x
      BY <1>1 DEF KidsLead
    <3> QED  BY <1>2, <3>1, <3>2 DEF Moved
  <2> QED  BY <2>1, <2>2
<1> QED  BY <1>5, <1>6, <1>7

LEMMA PlaceColors ==
  ASSUME NEW T, NEW P, NEW K, NEW sub, SearchTree(T, P, K, sub),
         NEW n \in P, NEW s \in Node \ P, NEW M, InPlaceOf(T, M, n, s),
         M.color[s] = T.color[n], \A x \in P \ {n} : M.color[x] = T.color[x]
  PROVE  /\ \A x \in P \cup {NULL} : Red(M, Moved(n, s, x)) <=> Red(T, x)
         /\ \A x \in P : TwoRed(M, Moved(n, s, x)) <=> TwoRed(T, x)
         /\ Red(M, M.root) <=> Red(T, T.root)
<1>1. /\ P \subseteq Node /\ NULL \notin Node /\ NULL \notin P /\ n # NULL /\ s # NULL
  BY RBTreeAssumption DEF SearchTree, Sets
<1>2. \A x \in P \cup {NULL} : Red(M, Moved(n, s, x)) <=> Red(T, x)
  BY <1>1 DEF Moved, Red
<1>3. \A x \in P : T.parent[x] \in P \cup {NULL}
  BY Hangs
<1>4. \A x \in P : TwoRed(M, Moved(n, s, x)) <=> TwoRed(T, x)
  BY <1>2, <1>3, PlaceRenames DEF TwoRed
<1>5. T.root \in P \cup {NULL}
  BY DEF SearchTree, Hung
<1> QED  BY <1>2, <1>4, <1>5, PlaceRenames

LEMMA PlaceLevels ==
  ASSUME NEW T, NEW P, NEW K, NEW sub, SearchTree(T, P, K, sub),
         NEW n \in P, NEW s \in Node \ P, NEW M, InPlaceOf(T, M, n, s),
         M.color[s] = T.color[n], \A x \in P \ {n} : M.color[x] = T.color[x],
         NEW b, NEW lp \in P \cup {NULL}, NEW ld, Levels(T, P, b, lp, ld)
  PROVE  \E b2 : Levels(M, (P \ {n}) \cup {s}, b2, Moved(n, s, lp), ld)
<1> DEFINE Q == (P \ {n}) \cup {s}
           b2 == [b EXCEPT ![s] = b[n]]
<1>1. /\ P \subseteq Node /\ NULL \notin Node /\ NULL \notin P /\ n # NULL /\ s # NULL
      /\ s \notin P /\ s # n /\ KidsIn(T, P) /\ T \in Trees
  BY RBTreeAssumption DEF SearchTree, Sets
<1>2. b \in [Node -> Nat]
  BY DEF Levels
<1>3. b2 \in [Node -> Nat] /\ b2[s] = b[n] /\ \A x \in Node \ {s} : b2[x] = b[x]
  BY <1>1, <1>2
<1> HIDE DEF b2
<1>4. \A x \in P \cup {NULL} : Rank(M, b2, Moved(n, s, x)) = Rank(T, b, x)
  <2> SUFFICES ASSUME NEW x \in P \cup {NULL} PROVE Rank(M, b2, Moved(n, s, x)) = Rank(T, b, x)
    OBVIOUS
  <2>1. CASE x = n
    BY <1>1, <1>3, <2>1 DEF Moved, Rank
  <2>2. CASE x # n
    <3>1. Moved(n, s, x) = x
      BY <2>2 DEF Moved
    <3>2. x = NULL \/ (M.color[x] = T.color[x] /\ b2[x] = b[x])
      BY <1>1, <1>3, <2>2
    <3> QED  BY <3>1, <3>2, SameRank
  <2> QED  BY <2>1, <2>2
<1>5. ASSUME NEW x \in P, NEW e \in Side
      PROVE  LET y == Moved(n, s, x)
             IN  b2[y] = Rank(M, b2, M.kid[e][y]) + Lack(y, e, Moved(n, s, lp), ld)
  <2> DEFINE y == Moved(n, s, x)
  <2>1. b[x] = Rank(T, b, T.kid[e][x]) + Lack(x, e, lp, ld)
    BY DEF Levels
  <2>2. b2[y] = b[x]
    BY <1>1, <1>3 DEF Moved
  <2>3. Rank(M, b2, M.kid[e][y]) = Rank(T, b, T.kid[e][x])
    <3>1. T.kid[e][x] \in P \cup {NULL}
      BY <1>1 DEF KidsIn
    <3>2. M.kid[e][y] = Moved(n, s, T.kid[e][x])
      BY PlaceRenames
    <3> QED  BY <1>4, <3>1, <3>2
  <2>4. Lack(y, e, Moved(n, s, lp), ld) = Lack(x, e, lp, ld)
    BY <1>1 DEF Lack, Moved
  <2> QED  BY <2>1, <2>2, <2>3, <2>4
<1>6. \A y \in Q : \E x \in P : y = Moved(n, s, x)
  BY DEF Moved
<1>7. Levels(M, Q, b2, Moved(n, s, lp), ld)
  BY <1>3, <1>5, <1>6 DEF Levels
<1> QED  BY <1>7

SameKeys(K, K2, S) == \A x \in S : K2[x] = K[x]

SameColors(T, M, S) == \A x \in S : M.color[x] = T.color[x]

TakesPlace(T, M, P, Q, K, K2, n, s) ==
  /\ Ordered(T, P, K) /\ n \in P /\ s \in Node \ P /\ InPlaceOf(T, M, n, s)
  /\ M.color[s] = T.color[n] /\ SameColors(T, M, P \ {n})
  /\ Q = (P \ {n}) \cup {s} /\ Ordered(M, Q, K2)

(* When s is in the place of n the tree is as much of a red-black tree.    *)
LEMMA PlaceBalances ==
  ASSUME NEW T, NEW M, NEW P, NEW Q, NEW K, NEW K2, NEW n, NEW s,
         TakesPlace(T, M, P, Q, K, K2, n, s)
  PROVE  /\ (\E b : RedBlack(T, P, K, b)) => \E b2 : RedBlack(M, Q, K2, b2)
         /\ \A a, p : a # n /\ Rebalancing(T, P, K, a, p) =>
              Rebalancing(M, Q, K2, a, Moved(n, s, p))
<1>9. /\ n \in P /\ s \in Node \ P /\ InPlaceOf(T, M, n, s)
      /\ M.color[s] = T.color[n] /\ \A x \in P \ {n} : M.color[x] = T.color[x]
      /\ Q = (P \ {n}) \cup {s} /\ Ordered(M, Q, K2)
  BY DEF TakesPlace, SameColors
<1>8. PICK sub : SearchTree(T, P, K, sub)
  BY DEF TakesPlace, Ordered
<1>1. /\ P \subseteq Node /\ NULL \notin Node /\ NULL \notin P /\ n # NULL /\ s # NULL
      /\ s \notin P /\ s # n /\ KidsIn(T, P)
  BY <1>8, <1>9, RBTreeAssumption DEF SearchTree, Sets
<1>2. /\ \A x \in P : TwoRed(M, Moved(n, s, x)) <=> TwoRed(T, x)
      /\ Red(M, M.root) <=> Red(T, T.root)
  BY <1>8, <1>9, PlaceColors
<1>3. /\ M.root = Moved(n, s, T.root)
      /\ \A x \in P : M.parent[Moved(n, s, x)] = Moved(n, s, T.parent[x])
      /\ \A x \in P : \A e \in Side : M.kid[e][Moved(n, s, x)] = Moved(n, s, T.kid[e][x])
  BY <1>8, <1>9, PlaceRenames
<1>4. \A y \in Q : \E x \in P : y = Moved(n, s, x)
  BY <1>9 DEF Moved
<1>5. ASSUME NEW b, NEW lp \in P \cup {NULL}, NEW ld, Levels(T, P, b, lp, ld)
      PROVE  \E b2 : Levels(M, Q, b2, Moved(n, s, lp), ld)
  BY <1>5, <1>8, <1>9, PlaceLevels
<1>6. ASSUME NEW b, RedBlack(T, P, K, b) PROVE \E b2 : RedBlack(M, Q, K2, b2)
  <2>1. Levels(T, P, b, NULL, "left") /\ NULL \in P \cup {NULL} /\ Moved(n, s, NULL) = NULL
    BY <1>1, <1>6 DEF RedBlack, Moved
  <2>2. PICK b2 : Levels(M, Q, b2, NULL, "left")
    BY <1>5, <2>1
  <2>3. \A y \in Q : ~ TwoRed(M, y)
    BY <1>2, <1>4, <1>6 DEF RedBlack
  <2>4. ~ Red(M, M.root)
    BY <1>2, <1>6 DEF RedBlack
  <2>5. RedBlack(M, Q, K2, b2)
    BY <1>9, <2>2, <2>3, <2>4 DEF RedBlack
  <2> QED  BY <2>5
<1>7. ASSUME NEW a, NEW p, a # n, Rebalancing(T, P, K, a, p)
      PROVE  Rebalancing(M, Q, K2, a, Moved(n, s, p))
  <2>1. \A y \in Q : TwoRed(M, y) => y = a \/ M.parent[y] = a
    <3> SUFFICES ASSUME NEW x \in P, TwoRed(M, Moved(n, s, x))
                 PROVE  Moved(n, s, x) = a \/ M.parent[Moved(n, s, x)] = a
      BY <1>4
    <3>1. x = a \/ T.parent[x] = a
      BY <1>2, <1>7 DEF Rebalancing
    <3> QED  BY <1>3, <1>7, <3>1 DEF Moved
  <2>2. Red(M, M.root) => M.root = a
    BY <1>2, <1>3, <1>7 DEF Rebalancing, Moved
  <2>3. CASE T.root = a /\ \E b : Levels(T, P, b, NULL, "left")
    <3>1. PICK b : Levels(T, P, b, NULL, "left")
      BY <2>3
    <3>2. NULL \in P \cup {NULL} /\ Moved(n, s, NULL) = NULL
      BY <1>1 DEF Moved
    <3>3. \E b2 : Levels(M, Q, b2, NULL, "left")
      BY <1>5, <3>1, <3>2
    <3>4. M.root = a
      BY <1>3, <1>7, <2>3 DEF Moved
    <3> QED  BY <1>9, <2>1, <2>2, <3>3, <3>4 DEF Rebalancing
  <2>4. CASE p \in P /\ \E d \in Side : T.kid[d][p] = a /\ \E b : Levels(T, P, b, p, d)
    <3>1. PICK d \in Side : T.kid[d][p] = a /\ \E b : Levels(T, P, b, p, d)
      BY <2>4
    <3>2. PICK b : Levels(T, P, b, p, d)
      BY <3>1
    <3>3. \E b2 : Levels(M, Q, b2, Moved(n, s, p), d)
      BY <1>5, <2>4, <3>2
    <3>4. M.kid[d][Moved(n, s, p)] = a
      BY <1>3, <1>7, <2>4, <3>1 DEF Moved
    <3>5. Moved(n, s, p) \in Q
      BY <1>9, <2>4 DEF Moved
    <3> QED  BY <1>9, <2>1, <2>2, <3>1, <3>3, <3>4, <3>5 DEF Rebalancing
  <2> QED  BY <1>7, <2>3, <2>4 DEF Rebalancing
<1> QED  BY <1>6, <1>7

LEMMA OutFields ==
  ASSUME NEW T \in Trees, NEW n \in Node, NEW c \in Node \cup {NULL},
         NEW p \in Node \cup {NULL}, HangsFrom(T, n, p)
  PROVE  LET M == Replaced(WithParent(T, c, p), p, n, c)
         IN  OutOf(T, M, n, c, p) /\ M.color = T.color
<1> DEFINE T1 == WithParent(T, c, p)
           M == Replaced(T1, p, n, c)
           e0 == IF T1.kid["left"][p] = n THEN "left" ELSE "right"
<1>1. ParentSet(T, T1, c, p)
  BY SetParent
<1>2. T1 \in Trees
  BY <1>1, InTrees
<1> HIDE DEF T1
<1>3. IF p = NULL THEN RootSet(T1, M, c) ELSE KidSet(T1, M, p, e0, c)
  BY <1>2, ReplacedFields
<1> HIDE DEF M
<1>4. T1.kid = T.kid /\ T1.color = T.color /\ T1.root = T.root
      /\ \A x \in Node : T1.parent[x] = IF x = c THEN p ELSE T.parent[x]
  BY <1>1 DEF ParentSet
<1>5. CASE p = NULL
  <2>1. RootSet(T1, M, c) /\ \A x \in Node : x # p
    BY <1>3, <1>5, RBTreeAssumption
  <2>2. OutOf(T, M, n, c, p) /\ M.color = T.color
    BY <1>4, <1>5, <2>1 DEF RootSet, OutOf
  <2> QED  BY <2>2 DEF M, T1
<1>6. CASE p # NULL
  <2>1. KidSet(T1, M, p, e0, c)
    BY <1>3, <1>6
  <2>2. p \in Node /\ \A e \in Side : T.kid[e][p] = n <=> e = e0
    <3>1. PICK e \in Side : T.kid[e][p] = n /\ T.kid[Other(e)][p] # n
      BY <1>6 DEF HangsFrom
    <3>2. \A f \in Side : f = e \/ f = Other(e)
      BY Sides
    <3>3. e0 = e
      <4>1. "left" \in Side /\ "right" \in Side
        BY DEF Side
      <4> QED  BY <1>4, <3>1, <3>2, <4>1 DEF Side
    <3> QED  BY <1>6, <3>1, <3>2, <3>3
  <2> HIDE DEF e0
  <2>3. OutOf(T, M, n, c, p) /\ M.color = T.color
    BY <1>4, <1>6, <2>1, <2>2 DEF KidSet, OutOf
  <2> QED  BY <2>3 DEF M, T1
<1> QED  BY <1>5, <1>6

(* The assignments to s of UnlinkInner.                                    *)
Taken(T, n, s) ==
  [T EXCEPT !.parent[s] = T.parent[n], !.color[s] = T.color[n],
            !.kid["right"][s] = T.kid["right"][n], !.kid["left"][s] = T.kid["left"][n]]

LEMMA TakenFields ==
  ASSUME NEW T \in Trees, NEW n \in Node, NEW s \in Node, n # s
  PROVE  LET M == Taken(T, n, s)
         IN  /\ M \in Trees /\ M.root = T.root
             /\ \A x \in Node : M.parent[x] = IF x = s THEN T.parent[n] ELSE T.parent[x]
             /\ \A x \in Node : M.color[x] = IF x = s THEN T.color[n] ELSE T.color[x]
             /\ \A e \in Side : \A x \in Node : M.kid[e][x] = IF x = s THEN T.kid[e][n] ELSE T.kid[e][x]
<1> DEFINE l == T.kid["left"][n]
           r == T.kid["right"][n]
           T1 == WithParent(T, s, T.parent[n])
           T2 == Painted(T1, s, T.color[n])
           T3 == WithKid(T2, s, "right", r)
           M  == WithKid(T3, s, "left", l)
<1>1. s # NULL /\ "left" \in Side /\ "right" \in Side
  BY RBTreeAssumption DEF Side
<1>2. Taken(T, n, s) = M
  BY <1>1 DEF Taken, WithParent, Painted, WithKid
<1>3. T.parent[n] \in Node \cup {NULL} /\ T.color[n] \in {"red", "black"} /\ l \in Node \cup {NULL} /\ r \in Node \cup {NULL}
  BY <1>1, TreeFields
<1>4. ParentSet(T, T1, s, T.parent[n])
  BY <1>3, SetParent
<1>5. T1 \in Trees
  BY <1>4, InTrees
<1> HIDE DEF T1
<1>6. ColorSet(T1, T2, s, T.color[n])
  BY <1>3, <1>5, SetColor
<1>7. T2 \in Trees
  BY <1>6, InTrees
<1> HIDE DEF T2, l, r
<1>8. KidSet(T2, T3, s, "right", r)
  BY <1>1, <1>3, <1>7, SetKid
<1>9. T3 \in Trees
  BY <1>8, InTrees
<1> HIDE DEF T3
<1>10. KidSet(T3, M, s, "left", l)
  BY <1>1, <1>3, <1>9, SetKid
<1> HIDE DEF M
<1>11. M \in Trees /\ M.root = T.root /\ M.parent = T1.parent /\ M.color = T2.color
  BY <1>4, <1>6, <1>8, <1>10 DEF ParentSet, ColorSet, KidSet
<1>12. \A x \in Node : M.parent[x] = IF x = s THEN T.parent[n] ELSE T.parent[x]
  BY <1>4, <1>11 DEF ParentSet
<1>13. \A x \in Node : M.color[x] = IF x = s THEN T.color[n] ELSE T.color[x]
  BY <1>4, <1>6, <1>11 DEF ParentSet, ColorSet
<1>14. ASSUME NEW e \in Side, NEW x \in Node
       PROVE  M.kid[e][x] = IF x = s THEN T.kid[e][n] ELSE T.kid[e][x]
  <2>1. T2.kid = T.kid
    BY <1>4, <1>6 DEF ParentSet, ColorSet
  <2>2. M.kid[e][x] = IF x = s /\ e = "left" THEN l ELSE T3.kid[e][x]
    BY <1>10 DEF KidSet
  <2>3. T3.kid[e][x] = IF x = s /\ e = "right" THEN r ELSE T2.kid[e][x]
    BY <1>8 DEF KidSet
  <2>4. e = "left" \/ e = "right"
    BY DEF Side
  <2> QED  BY <2>1, <2>2, <2>3, <2>4 DEF l, r
<1> QED  BY <1>2, <1>11, <1>12, <1>13, <1>14

(* The second half of UnlinkInner.                                         *)
Placed(T, n, s) ==
  LET T2 == Taken(T, n, s)
      T3 == Replaced(T2, T2.parent[n], n, s)
      T4 == WithParent(T3, T3.kid["left"][n], s)
  IN  WithParent(T4, T4.kid["right"][n], s)

LEMMA PlaceFields ==
  ASSUME NEW T \in Trees, NEW n \in Node, NEW s \in Node, n # s,
         HangsFrom(T, n, T.parent[n]), T.parent[n] # s, T.parent[n] # n,
         \A e \in Side : T.kid[e][n] # s
  PROVE  /\ InPlaceOf(T, Placed(T, n, s), n, s)
         /\ \A x \in Node : Placed(T, n, s).color[x] = IF x = s THEN T.color[n] ELSE T.color[x]
<1> DEFINE T2 == Taken(T, n, s)
           p  == T2.parent[n]
           e0 == IF T2.kid["left"][p] = n THEN "left" ELSE "right"
           T3 == Replaced(T2, p, n, s)
           l  == T3.kid["left"][n]
           T4 == WithParent(T3, l, s)
           r  == T4.kid["right"][n]
           M  == WithParent(T4, r, s)
<1>16. Placed(T, n, s) = M
  BY DEF Placed
<1>0. "left" \in Side /\ "right" \in Side /\ (\A e \in Side : e = "left" \/ e = "right")
      /\ NULL \notin Node
  BY RBTreeAssumption DEF Side
<1>1. /\ T2 \in Trees /\ T2.root = T.root
      /\ \A x \in Node : T2.parent[x] = IF x = s THEN T.parent[n] ELSE T.parent[x]
      /\ \A x \in Node : T2.color[x] = IF x = s THEN T.color[n] ELSE T.color[x]
      /\ \A e \in Side : \A x \in Node : T2.kid[e][x] = IF x = s THEN T.kid[e][n] ELSE T.kid[e][x]
  BY TakenFields
<1> HIDE DEF T2
<1>2. p = T.parent[n] /\ p \in Node \cup {NULL}
  BY <1>1, TreeFields
<1>3. IF p = NULL THEN RootSet(T2, T3, s) ELSE KidSet(T2, T3, p, e0, s)
  BY <1>1, <1>2, ReplacedFields
<1>4. /\ T3 \in Trees /\ T3.parent = T2.parent /\ T3.color = T2.color
      /\ T3.root = IF p = NULL THEN s ELSE T.root
      /\ \A e \in Side : \A x \in Node :
           T3.kid[e][x] = IF x = p /\ T2.kid[e][x] = n THEN s ELSE T2.kid[e][x]
  <2> HIDE DEF T3, p
  <2>1. CASE p = NULL
    <3>1. RootSet(T2, T3, s)
      BY <1>3, <2>1
    <3> QED  BY <1>0, <1>1, <2>1, <3>1 DEF RootSet
  <2>2. CASE p # NULL
    <3>1. KidSet(T2, T3, p, e0, s)
      BY <1>3, <2>2
    <3>2. p \in Node /\ p # s
      BY <1>2, <2>2
    <3>3. \A e \in Side : T2.kid[e][p] = n <=> e = e0
      <4>1. PICK e \in Side : T.kid[e][p] = n /\ T.kid[Other(e)][p] # n
        BY <1>2, <2>2 DEF HangsFrom
      <4>2. \A f \in Side : f = e \/ f = Other(e)
        BY Sides
      <4>3. \A f \in Side : T2.kid[f][p] = T.kid[f][p]
        BY <1>1, <3>2
      <4>4. \A f \in Side : T2.kid[f][p] = n <=> f = e
        BY <4>1, <4>2, <4>3
      <4>5. e0 = e
        BY <1>0, <4>4
      <4> QED  BY <4>4, <4>5
    <3> HIDE DEF e0
    <3> QED  BY <1>1, <2>2, <3>1, <3>2, <3>3 DEF KidSet
  <2> QED  BY <2>1, <2>2
<1> HIDE DEF T3
<1>5. \A e \in Side : T3.kid[e][n] = T.kid[e][n]
  BY <1>1, <1>2, <1>4
<1>6. l = T.kid["left"][n] /\ l \in Node \cup {NULL}
  BY <1>0, <1>5, TreeFields
<1>7. ParentSet(T3, T4, l, s)
  BY <1>4, <1>6, SetParent
<1>8. T4 \in Trees
  BY <1>7, InTrees
<1> HIDE DEF T4
<1>9. r = T.kid["right"][n] /\ r \in Node \cup {NULL}
  BY <1>0, <1>5, <1>7, TreeFields DEF ParentSet
<1> HIDE DEF l, r
<1>10. ParentSet(T4, M, r, s)
  BY <1>8, <1>9, SetParent
<1> HIDE DEF M
<1>11. M \in Trees /\ M.root = T3.root /\ M.kid = T3.kid /\ M.color = T3.color
  BY <1>7, <1>10 DEF ParentSet
<1>12. ASSUME NEW x \in Node
       PROVE  M.parent[x] = IF x = s THEN T.parent[n]
                            ELSE IF \E e \in Side : T.kid[e][n] = x THEN s ELSE T.parent[x]
  <2>1. M.parent[x] = IF x = l \/ x = r THEN s ELSE T2.parent[x]
    BY <1>4, <1>7, <1>10 DEF ParentSet
  <2>2. (\E e \in Side : T.kid[e][n] = x) <=> x = l \/ x = r
    BY <1>0, <1>6, <1>9
  <2>3. s # l /\ s # r
    BY <1>0, <1>6, <1>9
  <2> QED  BY <1>1, <2>1, <2>2, <2>3
<1>13. ASSUME NEW e \in Side, NEW x \in Node
       PROVE  M.kid[e][x] = IF x = s THEN T.kid[e][n]
                            ELSE IF x = T.parent[n] /\ T.kid[e][x] = n THEN s ELSE T.kid[e][x]
  BY <1>1, <1>2, <1>4, <1>11
<1>14. InPlaceOf(T, M, n, s)
  BY <1>2, <1>4, <1>11, <1>12, <1>13 DEF InPlaceOf
<1>15. \A x \in Node : M.color[x] = IF x = s THEN T.color[n] ELSE T.color[x]
  BY <1>1, <1>4, <1>11
<1> QED  BY <1>14, <1>15, <1>16

(* Nodes outside of the tree have no links.                                *)
Blank(T, S) == \A x \in S : T.parent[x] = NULL /\ \A e \in Side : T.kid[e][x] = NULL

(* A node went out of the tree for which c came in below p.                *)
Without(T, P, K, c, p, color) ==
  /\ color = "black" => Rebalancing(T, P, K, c, p)
  /\ color # "black" => \E b : RedBlack(T, P, K, b)

(* The node n goes out of the tree, and c comes in below p.                *)
OutTree(T, n, c, p) == Replaced(WithParent(T, c, p), p, n, c)

GoesOut(T, P, K, K2, sub, b, n, d, c, p) ==
  /\ RedBlack(T, P, K, b) /\ SearchTree(T, P, K, sub) /\ Blank(T, Node \ P)
  /\ n \in P /\ d \in Side /\ T.kid[d][n] = NULL
  /\ T.kid[Other(d)][n] = c /\ T.parent[n] = p /\ SameKeys(K, K2, P \ {n})

WentOut(T, M, P, K2, n, c, p) ==
  /\ OutOf(T, M, n, c, p) /\ M.color = T.color /\ Blank(M, Node \ P)
  /\ \E sub2 : SearchTree(M, P \ {n}, K2, sub2)
  /\ Without(M, P \ {n}, K2, c, p, T.color[n])
  /\ c \in (P \ {n}) \cup {NULL} /\ p \in (P \ {n}) \cup {NULL}

LEMMA OutMeans ==
  ASSUME NEW T, NEW P, NEW K, NEW K2, NEW sub, NEW b, NEW n, NEW d, NEW c, NEW p,
         GoesOut(T, P, K, K2, sub, b, n, d, c, p)
  PROVE  WentOut(T, OutTree(T, n, c, p), P, K2, n, c, p)
<1>0. /\ RedBlack(T, P, K, b) /\ SearchTree(T, P, K, sub) /\ Blank(T, Node \ P)
      /\ n \in P /\ d \in Side /\ T.kid[d][n] = NULL
      /\ T.kid[Other(d)][n] = c /\ T.parent[n] = p /\ \A x \in P \ {n} : K2[x] = K[x]
  BY DEF GoesOut, SameKeys
<1> DEFINE M == OutTree(T, n, c, p)
<1>1. T \in Trees /\ P \subseteq Node /\ NULL \notin Node /\ KidsIn(T, P)
  BY <1>0, RBTreeAssumption DEF SearchTree, Sets
<1>2. /\ p \in P \cup {NULL} /\ HangsFrom(T, n, p) /\ p # n
  BY <1>0, Hangs
<1>3. c \in P \cup {NULL} /\ c # n
  <2>1. Other(d) \in Side
    BY <1>0, Sides
  <2>2. Around(T, P, K, sub, n, Other(d))
    BY <1>0, <2>1, NodeAround
  <2> QED  BY <1>0, <1>1, <2>1, <2>2 DEF Around
<1>4. OutOf(T, M, n, c, p) /\ M.color = T.color
  BY <1>0, <1>1, <1>2, <1>3, OutFields DEF OutTree
<1> HIDE DEF M
<1>5. Bare(T, Node \ P)
  BY <1>0 DEF Blank, Bare
<1>6. \E sub2 : SearchTree(M, P \ {n}, K2, sub2)
  BY <1>0, <1>4, <1>5, OutKeeps
<1>7. IF T.color[n] = "black" THEN Rebalancing(M, P \ {n}, K2, c, p)
      ELSE \E b2 : RedBlack(M, P \ {n}, K2, b2)
  BY <1>0, <1>4, <1>5, OutLevels
<1>8. Without(M, P \ {n}, K2, c, p, T.color[n])
  BY <1>7 DEF Without
<1>9. Blank(M, Node \ P)
  BY <1>0, <1>1, <1>2, <1>3, <1>4 DEF Blank, OutOf
<1> QED  BY <1>2, <1>3, <1>4, <1>6, <1>8, <1>9 DEF M, WentOut

LEMMA UnlinkOuterMeans ==
  ASSUME NEW P, NEW b, RedBlack(tree, P, key, b), Blank(tree, Node \ P),
         NEW n \in P, ~ \A d \in Side : tree.kid[d][n] # NULL,
         NEW K2, SameKeys(key, K2, P \ {n})
  PROVE  LET u == UnlinkOuter(n)
         IN  /\ Without(u.tree, P \ {n}, K2, u.child, u.parent, u.color)
             /\ Blank(u.tree, Node \ P) /\ u.color = tree.color[n]
             /\ u.child \in P \cup {NULL} /\ u.parent \in P \cup {NULL}
             /\ u.tree.parent[n] = tree.parent[n]
<1> DEFINE d == IF tree.kid["left"][n] = NULL THEN "left" ELSE "right"
           c == tree.kid[IF tree.kid["left"][n] = NULL THEN "right" ELSE "left"][n]
           p == tree.parent[n]
           M == OutTree(tree, n, c, p)
<1>1. PICK sub : SearchTree(tree, P, key, sub)
  BY DEF RedBlack, Ordered
<1>2. d \in Side /\ tree.kid[d][n] = NULL /\ tree.kid[Other(d)][n] = c
  BY DEF Side, Other
<1>3. /\ UnlinkOuter(n).tree = M /\ UnlinkOuter(n).child = c
      /\ UnlinkOuter(n).parent = p /\ UnlinkOuter(n).color = tree.color[n]
  BY DEF UnlinkOuter, OutTree
<1>5. tree.parent[n] = p
  OBVIOUS
<1> HIDE DEF d, c, p
<1>4. /\ Blank(M, Node \ P) /\ Without(M, P \ {n}, K2, c, p, tree.color[n])
      /\ c \in P \cup {NULL} /\ p \in P \cup {NULL} /\ OutOf(tree, M, n, c, p)
  <2>1. /\ Blank(OutTree(tree, n, c, p), Node \ P)
        /\ Without(OutTree(tree, n, c, p), P \ {n}, K2, c, p, tree.color[n])
        /\ c \in (P \ {n}) \cup {NULL} /\ p \in (P \ {n}) \cup {NULL}
        /\ OutOf(tree, OutTree(tree, n, c, p), n, c, p)
    <3>1. GoesOut(tree, P, key, K2, sub, b, n, d, c, p)
      BY <1>1, <1>2, <1>5 DEF GoesOut
    <3> QED  BY <3>1, OutMeans DEF WentOut
  <2> QED  BY <2>1 DEF M
<1> HIDE DEF M
<1>6. M.parent[n] = tree.parent[n]
  <2>1. n \in Node /\ n # NULL
    BY <1>1, RBTreeAssumption DEF SearchTree, Sets
  <2>2. c # n
    BY <1>1, <1>2, <2>1, Sides, NodeAround DEF Around
  <2> QED  BY <1>4, <2>1, <2>2 DEF OutOf
<1> QED  BY <1>3, <1>4, <1>6

LEMMA UnlinkInnerMeans ==
  ASSUME NEW P, NEW b, RedBlack(tree, P, key, b), Blank(tree, Node \ P),
         NEW n \in P, \A d \in Side : tree.kid[d][n] # NULL,
         NEW K2, SameKeys(key, K2, P \ {n})
  PROVE  LET u == UnlinkInner(n)
         IN  /\ Without(u.tree, P \ {n}, K2, u.child, u.parent, u.color)
             /\ Blank(u.tree, Node \ P) /\ u.color \in {"red", "black"}
             /\ u.child \in P \cup {NULL} /\ u.parent \in P \cup {NULL}
             /\ u.tree.parent[n] = tree.parent[n]
<1> DEFINE s  == Successor(tree, n)
           c  == tree.kid["right"][s]
           p  == tree.parent[s]
           T1 == OutTree(tree, s, c, p)
           M  == Placed(T1, n, s)
           p2 == IF p = n THEN s ELSE p
           Q  == P \ {s}
<1>1. PICK sub : SearchTree(tree, P, key, sub)
  BY DEF RedBlack, Ordered
<1>2. /\ UnlinkInner(n).tree = M /\ UnlinkInner(n).child = c
      /\ UnlinkInner(n).parent = p2 /\ UnlinkInner(n).color = tree.color[s]
  <2>1. UnlinkInner(n) = [tree |-> M, child |-> c, parent |-> p2, color |-> tree.color[s]]
    BY Zenon DEF UnlinkInner, Placed, Taken, OutTree
  <2> HIDE DEF M, c, p2, s
  <2> QED  BY <2>1
<1>3. "left" \in Side /\ "right" \in Side /\ Other("left") = "right" /\ tree.kid["right"][n] # NULL
  BY DEF Side, Other
<1>4. /\ s \in P /\ s # n /\ s \in sub[tree.kid["right"][n]] /\ tree.kid["left"][s] = NULL
      /\ \A x \in P \ {n, s} : \A d \in Side : Before(d, key[x], key[n]) => Before(d, key[x], key[s])
  BY <1>1, <1>3, NextKey
<1> HIDE DEF s
<1>5. /\ tree \in Trees /\ P \subseteq Node /\ NULL \notin Node /\ NULL \notin P
      /\ n \in Node /\ s \in Node /\ Keyed(P, key)
  BY <1>1, <1>4, RBTreeAssumption DEF SearchTree, Sets
<1>6. /\ OutOf(tree, T1, s, c, p) /\ T1.color = tree.color /\ Blank(T1, Node \ P)
      /\ (\E sub2 : SearchTree(T1, Q, key, sub2))
      /\ Without(T1, Q, key, c, p, tree.color[s])
      /\ c \in Q \cup {NULL} /\ p \in Q \cup {NULL}
  <2>1. SameKeys(key, key, P \ {s})
    BY DEF SameKeys
  <2>2. tree.kid[Other("left")][s] = c /\ tree.parent[s] = p
    BY <1>3
  <2> HIDE DEF c, p
  <2>3. /\ OutOf(tree, OutTree(tree, s, c, p), s, c, p)
        /\ OutTree(tree, s, c, p).color = tree.color
        /\ Blank(OutTree(tree, s, c, p), Node \ P)
        /\ \E sub2 : SearchTree(OutTree(tree, s, c, p), P \ {s}, key, sub2)
        /\ Without(OutTree(tree, s, c, p), P \ {s}, key, c, p, tree.color[s])
        /\ c \in (P \ {s}) \cup {NULL} /\ p \in (P \ {s}) \cup {NULL}
    <3>1. GoesOut(tree, P, key, key, sub, b, s, "left", c, p)
      BY <1>1, <1>3, <1>4, <2>1, <2>2 DEF GoesOut
    <3>2. WentOut(tree, OutTree(tree, s, c, p), P, key, s, c, p)
      BY <3>1, OutMeans
    <3> QED  BY <3>2 DEF WentOut
  <2> QED  BY <2>3 DEF T1, Q
<1>7. c # n
  <2>1. CASE c = NULL
    BY <1>5, <2>1
  <2>2. CASE c # NULL
    <3>1. c \in sub[s]
      BY <1>1, <1>3, <1>4, <2>2, NodeAround DEF Around
    <3>2. s \in sub[n]
      BY <1>1, <1>3, <1>4, NodeAround DEF Around, Below
    <3> QED  BY <1>1, <1>4, <3>1, <3>2, OneAbove
  <2> QED  BY <2>1, <2>2
<1> HIDE DEF T1, c, p
<1>8. PICK sub1 : SearchTree(T1, Q, key, sub1)
  BY <1>6
<1>9. n \in Q /\ s \in Node \ Q /\ T1 \in Trees /\ KidsIn(T1, Q)
  BY <1>4, <1>5, <1>8 DEF SearchTree, Sets
<1>10. /\ HangsFrom(T1, n, T1.parent[n]) /\ T1.parent[n] # s /\ T1.parent[n] # n
       /\ \A e \in Side : T1.kid[e][n] # s
  <2>1. HangsFrom(T1, n, T1.parent[n]) /\ T1.parent[n] \in Q \cup {NULL} /\ T1.parent[n] # n
    BY <1>8, <1>9, Hangs
  <2> QED  BY <1>5, <1>9, <2>1 DEF KidsIn
<1>11. /\ InPlaceOf(T1, M, n, s)
       /\ \A x \in Node : M.color[x] = IF x = s THEN T1.color[n] ELSE T1.color[x]
  BY <1>4, <1>5, <1>9, <1>10, PlaceFields
<1> HIDE DEF M
<1>12. (Q \ {n}) \cup {s} = P \ {n} /\ Q \cup {s} = P
  BY <1>4
<1>13. Ordered(M, P \ {n}, K2)
  <2>1. Bare(T1, Node \ (Q \cup {s}))
    BY <1>6, <1>12 DEF Bare, Blank
  <2>2. K2[s] \in Int /\ \A x \in Q \ {n} : K2[x] = key[x] /\ K2[x] # K2[s]
    BY <1>4, <1>5 DEF Keyed, SameKeys
  <2>3. K2[s] = key[s]
    BY <1>4 DEF SameKeys
  <2>4. \A x \in Q \ {n} : \A d \in Side : Before(d, key[x], key[n]) => Before(d, key[x], K2[s])
    BY <1>4, <2>3
  <2>5. \E sub2 : SearchTree(M, (Q \ {n}) \cup {s}, K2, sub2)
    BY <1>8, <1>9, <1>11, <2>1, <2>2, <2>4, PlaceKeeps
  <2> QED  BY <1>12, <2>5 DEF Ordered
<1>14. M.color[s] = T1.color[n] /\ \A x \in Q \ {n} : M.color[x] = T1.color[x]
  BY <1>5, <1>9, <1>11
<1>15. /\ (\E b2 : RedBlack(T1, Q, key, b2)) => \E b2 : RedBlack(M, P \ {n}, K2, b2)
       /\ Rebalancing(T1, Q, key, c, p) => Rebalancing(M, P \ {n}, K2, c, p2)
  <2> DEFINE W == P \ {n}
  <2>1. W = (Q \ {n}) \cup {s} /\ Ordered(M, W, K2)
    BY <1>12, <1>13
  <2> HIDE DEF W, Q
  <2>5. M.color[s] = T1.color[n] /\ \A x \in Q \ {n} : M.color[x] = T1.color[x]
    BY <1>14
  <2>2. /\ (\E b2 : RedBlack(T1, Q, key, b2)) => \E b2 : RedBlack(M, W, K2, b2)
        /\ \A a, pp : a # n /\ Rebalancing(T1, Q, key, a, pp) => Rebalancing(M, W, K2, a, Moved(n, s, pp))
    <3>1. TakesPlace(T1, M, Q, W, key, K2, n, s)
      BY <1>8, <1>9, <1>11, <2>1, <2>5 DEF TakesPlace, SameColors, Ordered
    <3> QED  BY <3>1, PlaceBalances
  <2>3. Moved(n, s, p) = p2
    BY DEF Moved
  <2> QED  BY <1>7, <2>2, <2>3 DEF W
<1>16. Without(M, P \ {n}, K2, c, p2, tree.color[s])
  BY <1>6, <1>15 DEF Without
<1>17. Blank(M, Node \ P)
  <2> SUFFICES ASSUME NEW x \in Node \ P
               PROVE  M.parent[x] = NULL /\ \A e \in Side : M.kid[e][x] = NULL
    BY DEF Blank
  <2>1. T1.parent[x] = NULL /\ (\A e \in Side : T1.kid[e][x] = NULL) /\ x # s /\ x # n /\ x # NULL
    BY <1>4, <1>5, <1>6 DEF Blank
  <2>3. x \notin Q /\ n \in Node /\ n # NULL
    BY <1>5
  <2>2. T1.parent[n] # x /\ \A e \in Side : T1.kid[e][n] # x
    <3>1. T1.parent[n] \in Q \cup {NULL}
      BY <1>8, <1>9, Hangs
    <3> QED  BY <1>9, <2>1, <2>3, <3>1 DEF KidsIn
  <2> QED  BY <1>11, <2>1, <2>2 DEF InPlaceOf
<1>18. tree.color[s] \in {"red", "black"} /\ c \in P \cup {NULL} /\ p2 \in P \cup {NULL}
  BY <1>4, <1>5, <1>6, TreeFields
<1>19. M.parent[n] = tree.parent[n]
  <2>1. T1.parent[n] = tree.parent[n]
    BY <1>5, <1>6, <1>7 DEF OutOf
  <2>2. \A e \in Side : T1.kid[e][n] # n
    BY <1>5, <1>8, <1>9, NodeAround DEF Around
  <2> QED  BY <1>4, <1>5, <1>11, <2>1, <2>2 DEF InPlaceOf
<1> QED  BY <1>2, <1>16, <1>17, <1>18, <1>19

LEMMA UnlinkedMeans ==
  ASSUME NEW P, NEW b, RedBlack(tree, P, key, b), Blank(tree, Node \ P),
         NEW n \in P, NEW K2, SameKeys(key, K2, P \ {n})
  PROVE  LET u == Unlinked(n)
         IN  /\ Without(u.tree, P \ {n}, K2, u.child, u.parent, u.color)
             /\ Blank(u.tree, Node \ P) /\ u.color \in {"red", "black"}
             /\ u.child \in P \cup {NULL} /\ u.parent \in P \cup {NULL}
             /\ u.tree.parent[n] = tree.parent[n]
<1>1. CASE \A d \in Side : tree.kid[d][n] # NULL
  <2>1. Unlinked(n) = UnlinkInner(n)
    BY <1>1 DEF Unlinked
  <2> QED  BY <1>1, <2>1, UnlinkInnerMeans
<1>2. CASE ~ \A d \in Side : tree.kid[d][n] # NULL
  <2>1. Unlinked(n) = UnlinkOuter(n)
    BY <1>2 DEF Unlinked
  <2>2. tree.color[n] \in {"red", "black"}
    BY TreeFields DEF RedBlack, Ordered, SearchTree, Sets
  <2> QED  BY <1>2, <2>1, <2>2, UnlinkOuterMeans
<1> QED  BY <1>1, <1>2

-----------------------------------------------------------------------------
(* Part 6: the rounds of the loops.                                        *)

SideIs(T, n, p) == IF T.kid["left"][p] = n THEN "left" ELSE "right"

LEMMA LackingSide ==
  ASSUME NEW T, NEW P, NEW K, NEW b, NEW a, NEW p, NEW d, Lacking(T, P, K, b, a, p, d)
  PROVE  d = SideIs(T, a, p)
<1>1. PICK sub : SearchTree(T, P, K, sub)
  BY DEF Lacking, Ordered
<1>2. p \in P /\ d \in Side /\ T.kid[d][p] = a
  BY DEF Lacking
<1>3. T.kid[Other(d)][p] # NULL
  BY LackingSibling
<1>4. Other(d) \in Side /\ Other(Other(d)) = d
  BY <1>2, Sides
<1>5. T.kid[Other(d)][p] # T.kid[d][p]
  BY <1>1, <1>2, <1>3, <1>4, NodeAround DEF Around
<1> QED  BY <1>2, <1>5 DEF SideIs, Side, Other

(* Painting changes no links.                                              *)
LEMMA PaintLinks ==
  ASSUME NEW T, NEW n, NEW c
  PROVE  /\ Painted(T, n, c).root = T.root /\ Painted(T, n, c).kid = T.kid
         /\ Painted(T, n, c).parent = T.parent
<1>1. CASE n = NULL
  BY <1>1 DEF Painted
<1>2. CASE n # NULL
  BY <1>2 DEF Painted
<1> QED  BY <1>1, <1>2

LEMMA OutsideTrans ==
  ASSUME NEW T, NEW R, NEW M, NEW P, SameOutside(T, R, P),
         SameOutside(R, M, P) \/ (M.kid = R.kid /\ M.parent = R.parent)
  PROVE  SameOutside(T, M, P)
BY DEF SameOutside

LEMMA OutsideBlank ==
  ASSUME NEW T, NEW M, NEW P, NEW S, S \subseteq Node \ P, Blank(T, S), SameOutside(T, M, P)
  PROVE  Blank(M, S)
BY DEF Blank, SameOutside

(* A round of the loop of erase.                                           *)
LEMMA RoundSide ==
  ASSUME NEW P, Rebalancing(tree, P, key, at, par), Unbalanced
  PROVE  /\ \E b : Lacking(tree, P, key, b, at, par, EraseSide)
         /\ WithBlackSibling = BlackSibling(tree, par, EraseSide)
<1>1. ~ Red(tree, at) /\ at # tree.root
  BY DEF Unbalanced
<1>2. PICK d \in Side : \E b : Lacking(tree, P, key, b, at, par, d)
  BY <1>1, RoundBegins
<1>3. d = EraseSide
  BY <1>2, LackingSide DEF SideIs, EraseSide
<1>4. WithBlackSibling = BlackSibling(tree, par, EraseSide)
  BY DEF WithBlackSibling, BlackSibling, Sibling
<1> QED  BY <1>2, <1>3, <1>4

LEMMA PushUpKeeps ==
  ASSUME NEW P, Rebalancing(tree, P, key, at, par), PushUp
  PROVE  /\ Rebalancing(tree', P, key, at', par') /\ SameOutside(tree, tree', P)
         /\ at' \in Node /\ par' \in Node \cup {NULL}
<1> DEFINE d == EraseSide
           R == BlackSibling(tree, par, d)
           s == R.kid[Other(d)][par]
<1>1. Unbalanced
  BY DEF PushUp
<1>2. PICK b : Lacking(tree, P, key, b, at, par, d)
  BY <1>1, RoundSide
<1>3. /\ NoRedKid(R, s) /\ tree' = Painted(R, s, "red") /\ at' = par /\ par' = R.parent[par]
  BY <1>1, RoundSide DEF PushUp
<1> HIDE DEF d
<1>4. Lacking(R, P, key, b, at, par, d) /\ ~ Red(R, s) /\ SameOutside(tree, R, P)
  BY <1>2, BlackSiblingKeeps
<1> HIDE DEF R
<1>5. Rebalancing(Painted(R, s, "red"), P, key, par, R.parent[par])
  BY <1>3, <1>4, PushedUp
<1>6. tree'.kid = R.kid /\ tree'.parent = R.parent
  BY <1>3, PaintLinks
<1>7. SameOutside(tree, tree', P)
  BY <1>4, <1>6, OutsideTrans
<1>8. par \in Node /\ R \in Trees
  BY <1>4 DEF Lacking, Ordered, SearchTree, Sets
<1>9. R.parent[par] \in Node \cup {NULL}
  BY <1>8, TreeFields
<1> QED  BY <1>3, <1>5, <1>7, <1>8, <1>9

LEMMA SettleKeeps ==
  ASSUME NEW P, Rebalancing(tree, P, key, at, par), Settle
  PROVE  /\ Rebalancing(tree', P, key, at', par') /\ SameOutside(tree, tree', P)
         /\ at' = tree'.root /\ par' = par
<1> DEFINE d == EraseSide
           T == BlackSibling(tree, par, d)
           near == T.kid[Other(d)][par]
           T1 == RedOutside(T, par, d)
           other == T1.kid[Other(d)][par]
           r == T1.kid[Other(d)][other]
           T2 == Painted(Painted(T1, other, T1.color[par]), par, "black")
           T3 == Rotated(Painted(T2, r, "black"), par, d)
<1>1. Unbalanced
  BY Zenon DEF Settle
<1>2. PICK b : Lacking(tree, P, key, b, at, par, d)
  BY <1>1, RoundSide
<1>3. T = WithBlackSibling
  BY <1>1, RoundSide
<1>4. T2.kid = T1.kid
  BY PaintLinks
<1>5. ~ NoRedKid(T, near) /\ tree' = T3 /\ at' = T3.root /\ par' = par
  <2> HIDE DEF T
  <2>1. /\ ~ NoRedKid(T, near) /\ at' = tree'.root /\ par' = par
        /\ tree' = Rotated(Painted(T2, T2.kid[Other(d)][other], "black"), par, d)
    BY <1>3, Zenon DEF Settle, RedOutside
  <2> HIDE DEF T2
  <2> QED  BY <1>4, <2>1
<1> HIDE DEF d
<1>6. Lacking(T, P, key, b, at, par, d) /\ ~ Red(T, near) /\ SameOutside(tree, T, P)
  BY <1>2, BlackSiblingKeeps
<1> HIDE DEF T
<1>7. /\ Lacking(T1, P, key, b, at, par, d) /\ ~ Red(T1, other) /\ Red(T1, r)
      /\ SameOutside(T, T1, P)
  BY <1>5, <1>6, RedOutsideKeeps
<1> HIDE DEF T1
<1>8. (\E b2 : RedBlack(T3, P, key, b2)) /\ SameOutside(T1, T3, P)
  BY <1>7, LastTurnKeeps
<1> HIDE DEF T3
<1>9. Rebalancing(T3, P, key, T3.root, par)
  BY <1>8 DEF Rebalancing, RedBlack
<1>10. SameOutside(tree, T3, P)
  <2>1. SameOutside(tree, T1, P)
    BY <1>6, <1>7, OutsideTrans
  <2> QED  BY <1>8, <2>1, OutsideTrans
<1> QED  BY <1>5, <1>9, <1>10

LEMMA EraseBalancedKeeps ==
  ASSUME NEW P, Rebalancing(tree, P, key, at, par), EraseBalanced
  PROVE  (\E b : RedBlack(tree', P, key, b)) /\ SameOutside(tree, tree', P)
<1>1. (Red(tree, at) \/ at = tree.root) /\ tree' = Painted(tree, at, "black")
  BY DEF EraseBalanced, Unbalanced
<1>2. \E b : RedBlack(Painted(tree, at, "black"), P, key, b)
  BY <1>1, EndPaint
<1>3. tree'.kid = tree.kid /\ tree'.parent = tree.parent
  BY <1>1, PaintLinks
<1>4. SameOutside(tree, tree', P)
  BY <1>3 DEF SameOutside
<1> QED  BY <1>1, <1>2, <1>4

(* The erase loop finds a sibling.                                         *)
LEMMA RoundSibling ==
  ASSUME NEW P, Rebalancing(tree, P, key, at, par), Unbalanced
  PROVE  par # NULL /\ Sibling # NULL
<1>1. PICK b : Lacking(tree, P, key, b, at, par, EraseSide)
  BY RoundSide
<1>2. tree.kid[Other(EraseSide)][par] # NULL
  BY <1>1, LackingSibling
<1>3. par \in P /\ \E sub : SearchTree(tree, P, key, sub)
  BY <1>1 DEF Lacking, Ordered
<1>4. par # NULL
  BY <1>3, RBTreeAssumption DEF SearchTree, Sets
<1> QED  BY <1>2, <1>4 DEF Sibling

(* A round of the loop of insert.                                          *)
LEMMA GrandAt ==
  ASSUME NEW P, NEW b, Growing(tree, P, key, b, at), Red(tree, Parent)
  PROVE  Grand(tree, P, at, Parent, GrandParent, InsertSide)
<1> DEFINE c == Parent
           g == GrandParent
<1>1. tree.parent[at] = c /\ tree.parent[c] = g
  BY DEF Parent, GrandParent
<1>2. InsertSide = IF tree.kid["left"][g] = c THEN "left" ELSE "right"
  BY DEF InsertSide
<1>3. Red(tree, c)
  OBVIOUS
<1> HIDE DEF c, g
<1>4. Grand(tree, P, at, c, g, InsertSide)
  BY <1>1, <1>2, <1>3, GrandParentIs
<1> QED  BY <1>4 DEF c, g

LEMMA RecolorUncleKeeps ==
  ASSUME NEW P, NEW b, Growing(tree, P, key, b, at), RecolorUncle
  PROVE  (\E b2 : Growing(tree', P, key, b2, at')) /\ SameOutside(tree, tree', P)
<1> DEFINE c == Parent
           g == GrandParent
           d == InsertSide
           u == Uncle
<1>1. Red(tree, c) /\ Red(tree, u) /\ at' = g
  BY DEF RecolorUncle
<1>2. Grand(tree, P, at, c, g, d) /\ tree.kid[Other(d)][g] = u
  BY <1>1, GrandAt DEF Uncle
<1>3. tree' = [tree EXCEPT !.color[u] = "black", !.color[c] = "black", !.color[g] = "red"]
  BY DEF RecolorUncle
<1>4. tree \in Trees /\ P \subseteq Node
  BY DEF Growing, Ordered, SearchTree, Sets
<1>5. tree' \in Trees /\ tree'.root = tree.root /\ tree'.kid = tree.kid /\ tree'.parent = tree.parent
  BY <1>3, <1>4 DEF Trees
<1>6. \A x \in Node : tree'.color[x] = IF x = g THEN "red" ELSE IF x = u \/ x = c THEN "black"
                                       ELSE tree.color[x]
  <2> HIDE DEF c, g, u
  <2>1. DOMAIN tree.color = Node
    BY <1>4 DEF Trees
  <2> QED  BY <1>3, <1>4, <2>1 DEF Trees
<1> HIDE DEF c, g, d, u
<1>7. \E b2 : Growing(tree', P, key, b2, g)
  BY <1>1, <1>2, <1>5, <1>6, RedUncle
<1>8. SameOutside(tree, tree', P)
  BY <1>5 DEF SameOutside
<1> QED  BY <1>1, <1>7, <1>8

LEMMA RotateGrandParentKeeps ==
  ASSUME NEW P, NEW b, Growing(tree, P, key, b, at), RotateGrandParent
  PROVE  Growing(tree', P, key, b, at') /\ SameOutside(tree, tree', P) /\ ~ Red(tree', tree'.parent[at'])
<1> DEFINE c == Parent
           g == GrandParent
           d == InsertSide
           u == Uncle
           inner == tree.kid[Other(d)][c] = at
           T == IF inner THEN Rotated(tree, c, d) ELSE tree
           upper == IF inner THEN at ELSE c
<1>1. /\ Red(tree, c) /\ ~ Red(tree, u) /\ at' = IF inner THEN c ELSE at
      /\ tree' = Rotated([T EXCEPT !.color[upper] = "black", !.color[g] = "red"], g, Other(d))
  BY Zenon DEF RotateGrandParent
<1>2. Grand(tree, P, at, c, g, d) /\ tree.kid[Other(d)][g] = u
  BY <1>1, GrandAt DEF Uncle
<1> HIDE DEF c, g, d, u
<1>3. CASE inner
  <2>1. tree.kid[Other(d)][c] = at
    BY <1>3
  <2>2. /\ Growing(T, P, key, b, c) /\ SameOutside(tree, T, P)
        /\ Grand(T, P, c, at, g, d) /\ T.kid[d][at] = c
        /\ T.kid[Other(d)][g] = u /\ T.color = tree.color
    <3>1. T = Rotated(tree, c, d)
      BY <1>3
    <3> HIDE DEF T
    <3> QED  BY <1>2, <2>1, <3>1, InnerInsert
  <2>3. upper = at /\ at' = c
    BY <1>1, <1>3
  <2> HIDE DEF T, upper, inner
  <2>4. ~ Red(T, T.kid[Other(d)][g])
    BY <1>1, <2>2 DEF Red
  <2>5. tree' = Rotated([T EXCEPT !.color[at] = "black", !.color[g] = "red"], g, Other(d))
    BY <1>1, <2>3
  <2>6. Growing(tree', P, key, b, c) /\ SameOutside(T, tree', P) /\ ~ Red(tree', tree'.parent[c])
    <3>1. BelowGrand(T, P, key, b, c, at, g, d)
      BY <2>2, <2>4 DEF BelowGrand
    <3>2. tree' = AboveGrand(T, at, g, d)
      BY <2>5 DEF AboveGrand
    <3> QED  BY <3>1, <3>2, OuterInsert
  <2>7. SameOutside(tree, tree', P)
    BY <2>2, <2>6, OutsideTrans
  <2> QED  BY <2>3, <2>6, <2>7
<1>4. CASE ~ inner
  <2>1. tree.kid[d][c] = at
    <3>1. at \in P /\ c \in P /\ d \in Side /\ tree.parent[at] = c
      BY <1>2 DEF Grand
    <3>2. PICK sub : SearchTree(tree, P, key, sub)
      BY DEF Growing, Ordered
    <3>3. HangsFrom(tree, at, c) /\ c # NULL
      BY <3>1, <3>2, Hangs, RBTreeAssumption DEF SearchTree, Sets
    <3>4. PICK e \in Side : tree.kid[e][c] = at
      BY <3>3 DEF HangsFrom
    <3>5. e = d \/ e = Other(d)
      BY <3>1, Sides
    <3> QED  BY <1>4, <3>4, <3>5
  <2>2. T = tree /\ upper = c /\ at' = at
    BY <1>1, <1>4
  <2> HIDE DEF T, upper, inner
  <2>3. tree' = Rotated([tree EXCEPT !.color[c] = "black", !.color[g] = "red"], g, Other(d))
    BY <1>1, <2>2
  <2>4. ~ Red(tree, tree.kid[Other(d)][g])
    BY <1>1, <1>2
  <2>5. Growing(tree', P, key, b, at) /\ SameOutside(tree, tree', P) /\ ~ Red(tree', tree'.parent[at])
    <3>1. BelowGrand(tree, P, key, b, at, c, g, d)
      BY <1>2, <2>1, <2>4 DEF BelowGrand
    <3>2. tree' = AboveGrand(tree, c, g, d)
      BY <2>3 DEF AboveGrand
    <3> QED  BY <3>1, <3>2, OuterInsert
  <2> QED  BY <2>2, <2>5
<1> QED  BY <1>3, <1>4

LEMMA InsertDoneKeeps ==
  ASSUME NEW P, NEW b, Growing(tree, P, key, b, at), InsertDone
  PROVE  RedBlack(tree', P, key, b) /\ SameOutside(tree, tree', P)
<1>1. ~ Red(tree, tree.parent[at]) /\ tree' = [tree EXCEPT !.color[tree.root] = "black"]
  BY DEF InsertDone, Parent
<1>2. RedBlack(tree', P, key, b)
  BY <1>1, BlackRoot
<1>3. tree'.kid = tree.kid /\ tree'.parent = tree.parent
  <2>1. tree \in Trees
    BY DEF Growing, Ordered, SearchTree, Sets
  <2> QED  BY <1>1, <2>1 DEF Trees
<1> QED  BY <1>2, <1>3 DEF SameOutside

(* The new node is linked where a search for its key ends.                 *)
LEMMA LinkGives ==
  ASSUME NEW P, NEW b, RedBlack(tree, P, key, b), NEW op, NEW k \in Int,
         \A x \in P : key[x] # k, NEW n \in Node \ P,
         DOMAIN key = Node,
         NEW p, p = Search(tree, k).parent, Link(op, k, n, p)
  PROVE  /\ \E b2 : Growing(tree', P \cup {n}, key', b2, n)
         /\ SameOutside(tree, tree', P \cup {n}) /\ p \in P \cup {NULL}
<1> DEFINE e == IF key'[p] > k THEN "left" ELSE "right"
           d == IF P = {} THEN "left" ELSE Toward(k, p)
           M == IF p = NULL THEN [Leaf(tree, n, p) EXCEPT !.root = n]
                ELSE WithKid(Leaf(tree, n, p), p, d, n)
<1>1. PICK sub : SearchTree(tree, P, key, sub)
  BY DEF RedBlack, Ordered
<1>2. PlaceFor(tree, P, key, sub, k, p, Toward(k, p))
  BY <1>1, SearchMeans
<1>3. P \subseteq Node /\ tree \in Trees /\ NULL \notin Node
  BY <1>1, RBTreeAssumption DEF SearchTree, Sets
<1>4. p \in P \cup {NULL} /\ (p = NULL <=> P = {}) /\ p # n
  BY <1>2, <1>3 DEF PlaceFor
<1>5. d \in Side
  BY <1>2 DEF PlaceFor, Side
<1>6. PlaceFor(tree, P, key, sub, k, p, d)
  BY <1>2 DEF PlaceFor
<1>7. key' = [key EXCEPT ![n] = k]
  BY DEF Link
<1>8. key'[n] = k /\ \A x \in P : key'[x] = key[x]
  BY <1>3, <1>7
<1>9. tree' = M
  <2>1. tree' = IF p = NULL THEN [Leaf(tree, n, p) EXCEPT !.root = n]
                ELSE WithKid(Leaf(tree, n, p), p, e, n)
    BY Zenon DEF Link, Leaf
  <2>2. CASE p = NULL
    BY <2>1, <2>2
  <2>3. CASE p # NULL
    <3>1. key'[p] = key[p] /\ P # {}
      BY <1>4, <1>8, <2>3
    <3>2. e = d
      BY <3>1 DEF Toward
    <3> HIDE DEF e, d
    <3> QED  BY <2>1, <2>3, <3>2
  <2> QED  BY <2>2, <2>3
<1> HIDE DEF d
<1>10. /\ LinkedTo(tree, tree', n, p, d)
       /\ \A x \in Node : tree'.color[x] = IF x = n THEN "red" ELSE tree.color[x]
  BY <1>3, <1>4, <1>5, <1>9, LinkedFields
<1> HIDE DEF M
<1>11. \E b2 : Growing(tree', P \cup {n}, key', b2, n)
  <2>1. RedLeaf(tree, tree', P, key, key', sub, n, k, p, d)
    BY <1>1, <1>6, <1>8, <1>10 DEF RedLeaf
  <2> QED  BY <2>1, LinkGrows
<1>12. SameOutside(tree, tree', P \cup {n})
  <2> SUFFICES ASSUME NEW x \in Node \ (P \cup {n})
               PROVE  tree'.parent[x] = tree.parent[x] /\ \A f \in Side : tree'.kid[f][x] = tree.kid[f][x]
    BY DEF SameOutside
  <2>1. x # n /\ x # p /\ x \in Node
    BY <1>3, <1>4
  <2> QED  BY <1>10, <2>1 DEF LinkedTo
<1> QED  BY <1>4, <1>11, <1>12

-----------------------------------------------------------------------------
(* Part 7: the invariant.                                                  *)

(* In every phase the tree is ordered; how far from red-black it may be    *)
(* depends on the phase.                                                   *)
Shape(T, P, K, ph, a, p) ==
  /\ ph \in {"idle", "linking", "erased"} => \E b : RedBlack(T, P, K, b)
  /\ ph = "inserting" => \E b : Growing(T, P, K, b, a)
  /\ ph = "erasing" => Rebalancing(T, P, K, a, p)

Extra(ph) == IF ph = "inserting" THEN -1 ELSE IF ph \in {"erasing", "erased"} THEN 1 ELSE 0

(* The node that is out of the tree, but still has its links.              *)
Leaving == IF phase \in {"erasing", "erased"} THEN {old} ELSE {}

Waits ==
  /\ phase \in {"idle", "inserting"} => pending = NoStore
  /\ phase = "linking" => pending # NoStore
  /\ phase \in {"erasing", "erased", "linking"} => old \in Node \ Present
  /\ pending # NoStore => /\ pending.op \in {"insert", "set"} /\ pending.key \in Key
                           /\ \A x \in Present : key[x] # pending.key

TreeInv ==
  /\ TypeOK
  /\ Shape(tree, Present, key, phase, at, par)
  /\ Blank(tree, Node \ (Present \cup Leaving))
  /\ nodenum = Cardinality(Present) + Extra(phase)
  /\ Waits

Phases == {"idle", "inserting", "erasing", "erased", "linking"}

LEMMA ShapeTree ==
  ASSUME NEW T, NEW P, NEW K, NEW ph \in Phases, NEW a, NEW p, Shape(T, P, K, ph, a, p)
  PROVE  T \in Trees /\ P \subseteq Node /\ IsFiniteSet(P) /\ \E sub : SearchTree(T, P, K, sub)
<1>1. Ordered(T, P, K)
  BY DEF Shape, Phases, RedBlack, Growing, Rebalancing
<1> QED  BY <1>1 DEF Ordered, SearchTree, Sets

(* A step that changes the tree only.                                      *)
LEMMA SameNodes ==
  ASSUME TreeInv, key' = key, nodenum' = nodenum, old' = old, pending' = pending,
         phase' = phase \/ (phase = "erasing" /\ phase' = "erased"),
         SameOutside(tree, tree', Present),
         Shape(tree', Present, key, phase', at', par'),
         at' \in Node \cup {NULL}, par' \in Node \cup {NULL}
  PROVE  TreeInv'
<1>1. Present' = Present
  BY DEF Present
<1>2. phase \in Phases /\ phase' \in Phases
  BY DEF TreeInv, TypeOK, Phases
<1>3. Leaving' = Leaving /\ Extra(phase') = Extra(phase)
  BY DEF Leaving, Extra
<1>4. tree' \in Trees
  BY <1>2, ShapeTree
<1>5. TypeOK'
  BY <1>2, <1>4 DEF TreeInv, TypeOK, Trees, Phases
<1>6. Waits'
  BY <1>1 DEF TreeInv, Waits
<1>7. Blank(tree', Node \ (Present \cup Leaving))
  <2> DEFINE S == Node \ (Present \cup Leaving)
  <2>1. S \subseteq Node \ Present /\ Blank(tree, S)
    BY DEF TreeInv
  <2> HIDE DEF S
  <2>2. Blank(tree', S)
    BY <2>1, OutsideBlank
  <2> QED  BY <2>2 DEF S
<1>8. Shape(tree', Present', key', phase', at', par')
  BY <1>1
<1>9. Blank(tree', Node \ (Present' \cup Leaving'))
  BY <1>1, <1>3, <1>7
<1>10. nodenum' = Cardinality(Present') + Extra(phase')
  BY <1>1, <1>3 DEF TreeInv
<1> QED  BY <1>5, <1>6, <1>8, <1>9, <1>10 DEF TreeInv

LEMMA StartInv == Init => TreeInv
<1> SUFFICES ASSUME Init PROVE TreeInv
  OBVIOUS
<1>1. Present = {}
  BY DEF Init, Present
<1>2. TypeOK
  BY DEF Init, TypeOK, Side
<1>3. RedBlack(tree, {}, key, [n \in Node |-> 0])
  <2> DEFINE sub == [n \in Node |-> {}]
  <2>1. tree \in Trees
    BY <1>2 DEF TypeOK, Trees
  <2>2. SearchTree(tree, {}, key, sub)
    <3>1. IsFiniteSet({})
      BY FS_EmptySet
    <3>2. Sets(tree, {}, sub)
      BY <2>1, <3>1 DEF Sets
    <3>3. KidsIn(tree, {}) /\ Hung(tree, {}, sub)
      BY DEF Init, KidsIn, Hung
    <3> QED  BY <3>2, <3>3 DEF SearchTree, Grown, KidsLead, ParentsLead, Keyed, Sorted
  <2>3. Ordered(tree, {}, key)
    BY <2>2 DEF Ordered
  <2> QED  BY <2>3 DEF RedBlack, Levels, Red, Init
<1>4. Shape(tree, Present, key, phase, at, par)
  BY <1>1, <1>3 DEF Init, Shape
<1>5. Blank(tree, Node \ (Present \cup Leaving))
  BY DEF Init, Blank
<1>6. nodenum = Cardinality(Present) + Extra(phase)
  BY <1>1, FS_EmptySet DEF Init, Extra
<1>7. Waits
  BY DEF Init, Waits
<1> QED  BY <1>2, <1>4, <1>5, <1>6, <1>7 DEF TreeInv

(* The rounds.                                                             *)
LEMMA RoundsInv ==
  ASSUME TreeInv, RecolorUncle \/ RotateGrandParent \/ PushUp \/ Settle \/ EraseBalanced
  PROVE  TreeInv'
<1>1. /\ Shape(tree, Present, key, phase, at, par) /\ phase \in Phases
      /\ at \in Node \cup {NULL} /\ par \in Node \cup {NULL} /\ Present \subseteq Node
  BY DEF TreeInv, TypeOK, Phases, Present
<1>2. CASE RecolorUncle \/ RotateGrandParent
  <2>1. /\ phase = "inserting" /\ phase' = phase /\ key' = key /\ nodenum' = nodenum
        /\ old' = old /\ pending' = pending /\ par' = par
    BY <1>2, Zenon DEF RecolorUncle, RotateGrandParent
  <2>2. PICK b : Growing(tree, Present, key, b, at)
    BY <1>1, <2>1 DEF Shape
  <2>3. (\E b2 : Growing(tree', Present, key, b2, at')) /\ SameOutside(tree, tree', Present)
    BY <1>2, <2>2, RecolorUncleKeeps, RotateGrandParentKeeps
  <2>4. Shape(tree', Present, key, phase', at', par') /\ at' \in Node
    BY <1>1, <2>1, <2>3 DEF Shape, Growing
  <2> QED  BY <1>1, <2>1, <2>3, <2>4, SameNodes
<1>3. CASE PushUp
  <2>1. /\ phase = "erasing" /\ phase' = phase /\ key' = key /\ nodenum' = nodenum
        /\ old' = old /\ pending' = pending
    BY <1>3, Zenon DEF PushUp
  <2>2. Rebalancing(tree, Present, key, at, par)
    BY <1>1, <2>1 DEF Shape
  <2>3. /\ Rebalancing(tree', Present, key, at', par') /\ SameOutside(tree, tree', Present)
        /\ at' \in Node /\ par' \in Node \cup {NULL}
    BY <1>3, <2>2, PushUpKeeps
  <2>4. Shape(tree', Present, key, phase', at', par')
    BY <2>1, <2>3 DEF Shape
  <2> QED  BY <2>1, <2>3, <2>4, SameNodes
<1>4. CASE Settle
  <2>1. /\ phase = "erasing" /\ phase' = phase /\ key' = key /\ nodenum' = nodenum
        /\ old' = old /\ pending' = pending
    BY <1>4, Zenon DEF Settle
  <2>2. Rebalancing(tree, Present, key, at, par)
    BY <1>1, <2>1 DEF Shape
  <2>3. /\ Rebalancing(tree', Present, key, at', par') /\ SameOutside(tree, tree', Present)
        /\ at' = tree'.root /\ par' = par
    BY <1>4, <2>2, SettleKeeps
  <2>4. Shape(tree', Present, key, phase', at', par')
    BY <2>1, <2>3 DEF Shape
  <2>5. at' \in Node \cup {NULL}
    <3>1. tree' \in Trees
      BY <2>3 DEF Rebalancing, Ordered, SearchTree, Sets
    <3> QED  BY <2>3, <3>1, TreeFields
  <2> QED  BY <1>1, <2>1, <2>3, <2>4, <2>5, SameNodes
<1>5. CASE EraseBalanced
  <2>1. /\ phase = "erasing" /\ phase' = "erased" /\ key' = key /\ nodenum' = nodenum
        /\ old' = old /\ pending' = pending /\ at' = at /\ par' = par
    BY <1>5 DEF EraseBalanced, local
  <2>2. Rebalancing(tree, Present, key, at, par)
    BY <1>1, <2>1 DEF Shape
  <2>3. (\E b : RedBlack(tree', Present, key, b)) /\ SameOutside(tree, tree', Present)
    BY <1>5, <2>2, EraseBalancedKeeps
  <2>4. Shape(tree', Present, key, phase', at', par')
    BY <2>1, <2>3 DEF Shape
  <2> QED  BY <1>1, <2>1, <2>3, <2>4, SameNodes
<1> QED  BY <1>2, <1>3, <1>4, <1>5

LEMMA InsertDoneInv ==
  ASSUME TreeInv, InsertDone
  PROVE  TreeInv'
<1>1. /\ phase = "inserting" /\ phase' = "idle" /\ key' = key /\ nodenum' = nodenum + 1
      /\ old' = old /\ pending' = pending /\ at' = NULL /\ par' = par
  BY DEF InsertDone
<1>2. PICK b : Growing(tree, Present, key, b, at)
  BY <1>1 DEF TreeInv, Shape
<1>3. RedBlack(tree', Present, key, b) /\ SameOutside(tree, tree', Present)
  BY <1>2, InsertDoneKeeps
<1>4. Present' = Present /\ Leaving = {} /\ Leaving' = {}
  BY <1>1 DEF Present, Leaving
<1>5. /\ tree' \in Trees /\ Shape(tree', Present, key, phase', at', par')
  <2>1. tree' \in Trees
    BY <1>3 DEF RedBlack, Ordered, SearchTree, Sets
  <2>2. Shape(tree', Present, key, phase', at', par')
    BY <1>1, <1>3 DEF Shape
  <2> QED  BY <2>1, <2>2
<1>6. Cardinality(Present) \in Nat
  <2>1. IsFiniteSet(Present)
    BY <1>2 DEF Growing, Ordered, SearchTree, Sets
  <2> QED  BY <2>1, FS_CardinalityType
<1>7. nodenum' = Cardinality(Present) + Extra(phase') /\ nodenum' \in Nat
  <2>1. nodenum \in Nat /\ nodenum = Cardinality(Present) + (-1)
    BY <1>1 DEF TreeInv, TypeOK, Extra
  <2> QED  BY <1>1, <1>6, <2>1 DEF Extra
<1>8. TypeOK'
  BY <1>1, <1>5, <1>7 DEF TreeInv, TypeOK, Trees
<1>9. Blank(tree', Node \ Present)
  <2>1. Blank(tree, Node \ Present)
    BY <1>4 DEF TreeInv
  <2> QED  BY <1>3, <2>1, OutsideBlank
<1>10. Waits'
  BY <1>1, <1>4 DEF TreeInv, Waits
<1> QED  BY <1>1, <1>4, <1>5, <1>7, <1>8, <1>9, <1>10 DEF TreeInv

(* Taking the links away from a node outside of the tree.                  *)
LEMMA CutTree ==
  ASSUME NEW T, NEW M, NEW P, NEW K, NEW b, RedBlack(T, P, K, b),
         M \in Trees, M.root = T.root, M.color = T.color,
         \A x \in P : M.parent[x] = T.parent[x],
         \A e \in Side : \A x \in P : M.kid[e][x] = T.kid[e][x],
         \A e \in Side : \A x \in Node \ P : M.kid[e][x] = T.kid[e][x] \/ M.kid[e][x] = NULL
  PROVE  RedBlack(M, P, K, b)
<1>1. PICK sub : SearchTree(T, P, K, sub)
  BY DEF RedBlack, Ordered
<1>2. P \subseteq Node /\ "left" \in Side /\ "right" \in Side /\ KidsIn(T, P)
  BY <1>1 DEF SearchTree, Sets, Side
<1>3. Sets(M, P, sub)
  BY <1>1 DEF SearchTree, Sets
<1>4. Hung(M, P, sub)
  BY <1>1 DEF SearchTree, Hung
<1>5. Grown(M, P, sub)
  BY <1>1, <1>2 DEF SearchTree, Grown
<1>6. KidsIn(M, P)
  BY <1>2 DEF KidsIn
<1>7. KidsLead(M, P)
  <2> SUFFICES ASSUME NEW n \in P, NEW d \in Side, M.kid[d][n] # NULL
               PROVE  M.parent[M.kid[d][n]] = n
    BY DEF KidsLead
  <2>1. M.kid[d][n] = T.kid[d][n] /\ T.kid[d][n] \in P
    BY <1>2 DEF KidsIn
  <2>2. T.parent[T.kid[d][n]] = n
    BY <1>1, <2>1 DEF SearchTree, KidsLead
  <2> QED  BY <2>1, <2>2
<1>8. ParentsLead(M, P)
  <2> SUFFICES ASSUME NEW n \in P, n # M.root
               PROVE  M.parent[n] \in P /\ \E d \in Side : M.kid[d][M.parent[n]] = n
    BY DEF ParentsLead
  <2>1. T.parent[n] \in P /\ \E d \in Side : T.kid[d][T.parent[n]] = n
    BY <1>1 DEF SearchTree, ParentsLead
  <2>2. M.parent[n] = T.parent[n]
    OBVIOUS
  <2> QED  BY <2>1, <2>2
<1>9. Sorted(M, P, K, sub)
  BY <1>1 DEF SearchTree, Sorted
<1>10. Ordered(M, P, K)
  BY <1>1, <1>3, <1>4, <1>5, <1>6, <1>7, <1>8, <1>9 DEF SearchTree, Ordered
<1>11. \A x : Red(M, x) <=> Red(T, x)
  BY DEF Red
<1>12. \A x : Rank(M, b, x) = Rank(T, b, x)
  BY DEF Rank
<1>13. Levels(M, P, b, NULL, "left")
  BY <1>12 DEF RedBlack, Levels
<1>14. \A x \in P : ~ TwoRed(M, x)
  BY <1>11 DEF RedBlack, TwoRed
<1> QED  BY <1>10, <1>11, <1>13, <1>14 DEF RedBlack

LEMMA EraseDoneInv ==
  ASSUME TreeInv, EraseDone
  PROVE  TreeInv'
<1>1. /\ phase = "erased" /\ key' = key /\ nodenum' = nodenum - 1
      /\ pending' = pending /\ at' = NULL /\ par' = NULL
      /\ IF pending = NoStore THEN phase' = "idle" /\ old' = NULL
         ELSE phase' = "linking" /\ old' = old
      /\ tree' = [tree EXCEPT !.parent[old] = NULL,
                              !.kid["left"][old] = NULL, !.kid["right"][old] = NULL]
  BY DEF EraseDone
<1>2. PICK b : RedBlack(tree, Present, key, b)
  BY <1>1 DEF TreeInv, Shape
<1>3. old \in Node \ Present
  BY <1>1 DEF TreeInv, Waits
<1>4. Present' = Present /\ Leaving = {old} /\ Leaving' = {} /\ Extra(phase) = 1 /\ Extra(phase') = 0
  BY <1>1 DEF Present, Leaving, Extra
<1>5. /\ tree' \in Trees /\ tree'.root = tree.root /\ tree'.color = tree.color
      /\ \A x \in Node : tree'.parent[x] = IF x = old THEN NULL ELSE tree.parent[x]
      /\ \A e \in Side : \A x \in Node : tree'.kid[e][x] = IF x = old THEN NULL ELSE tree.kid[e][x]
  <2> DEFINE T1 == WithParent(tree, old, NULL)
             T2 == WithKid(T1, old, "left", NULL)
             T3 == WithKid(T2, old, "right", NULL)
  <2>0. tree \in Trees
    BY <1>2 DEF RedBlack, Ordered, SearchTree, Sets
  <2>1. old # NULL /\ "left" \in Side /\ "right" \in Side /\ old \in Node
        /\ \A e \in Side : e = "left" \/ e = "right"
    BY <1>3, RBTreeAssumption DEF Side
  <2>2. tree' = T3
    BY <1>1, <2>1 DEF WithParent, WithKid
  <2>3. ParentSet(tree, T1, old, NULL)
    BY <2>0, <2>1, SetParent
  <2>4. T1 \in Trees
    BY <2>3, InTrees
  <2> HIDE DEF T1
  <2>5. KidSet(T1, T2, old, "left", NULL)
    BY <2>1, <2>4, SetKid
  <2>6. T2 \in Trees
    BY <2>5, InTrees
  <2> HIDE DEF T2
  <2>7. KidSet(T2, T3, old, "right", NULL)
    BY <2>1, <2>6, SetKid
  <2> HIDE DEF T3
  <2>8. /\ T3 \in Trees /\ T3.root = tree.root /\ T3.color = tree.color
        /\ \A x \in Node : T3.parent[x] = IF x = old THEN NULL ELSE tree.parent[x]
    BY <2>3, <2>5, <2>7 DEF ParentSet, KidSet
  <2>9. \A e \in Side : \A x \in Node : T3.kid[e][x] = IF x = old THEN NULL ELSE tree.kid[e][x]
    BY <2>1, <2>3, <2>5, <2>7 DEF ParentSet, KidSet
  <2> QED  BY <2>2, <2>8, <2>9
<1>6. RedBlack(tree', Present, key, b)
  <2>1. \A x \in Present : x # old /\ x \in Node
    BY <1>3 DEF Present
  <2> QED  BY <1>2, <1>5, <2>1, CutTree
<1>7. Shape(tree', Present, key, phase', at', par')
  BY <1>1, <1>6 DEF Shape
<1>8. nodenum' = Cardinality(Present) /\ nodenum' \in Nat
  <2>1. IsFiniteSet(Present)
    BY <1>2 DEF RedBlack, Ordered, SearchTree, Sets
  <2>2. Cardinality(Present) \in Nat
    BY <2>1, FS_CardinalityType
  <2> QED  BY <1>1, <1>4, <2>2 DEF TreeInv
<1>9. TypeOK'
  <2>1. phase' \in {"idle", "inserting", "erasing", "erased", "linking"} /\ {at', par', old'} \subseteq Node \cup {NULL}
    BY <1>1, <1>3
  <2> QED  BY <1>1, <1>5, <1>8, <2>1 DEF TreeInv, TypeOK, Trees
<1>10. Blank(tree', Node \ Present)
  <2>1. Blank(tree, Node \ (Present \cup {old}))
    BY <1>4 DEF TreeInv
  <2> QED  BY <1>5, <2>1 DEF Blank
<1>11. Waits'
  BY <1>1, <1>3, <1>4 DEF TreeInv, Waits
<1>12. nodenum' = Cardinality(Present') + Extra(phase')
  <2>1. nodenum' \in Int
    BY <1>8
  <2> QED  BY <1>4, <1>8, <2>1
<1>13. Blank(tree', Node \ (Present' \cup Leaving'))
  BY <1>4, <1>10
<1> QED  BY <1>1, <1>4, <1>7, <1>9, <1>11, <1>12, <1>13 DEF TreeInv

(* The steps that only reply.                                              *)
LEMMA ReplyInv ==
  ASSUME TreeInv, UNCHANGED <<tree, key, nodenum, phase, local>>
  PROVE  TreeInv'
<1>1. /\ tree' = tree /\ key' = key /\ nodenum' = nodenum /\ phase' = phase
      /\ at' = at /\ par' = par /\ old' = old /\ pending' = pending
  BY DEF local
<1>2. Present' = Present /\ Leaving' = Leaving
  BY <1>1 DEF Present, Leaving
<1> QED  BY <1>1, <1>2 DEF TreeInv, TypeOK, Waits

(* A node is linked, found by the search for the key k that is not there.  *)
LEMMA LinkInv ==
  ASSUME TreeInv, phase \in {"idle", "linking"}, NEW op, NEW k \in Key, NEW n \in Node,
         n \notin Present, \A x \in Present : key[x] # k,
         Link(op, k, n, Search(tree, k).parent)
  PROVE  TreeInv'
<1> DEFINE p == Search(tree, k).parent
           P == Present
<1>1. /\ key' = [key EXCEPT ![n] = k] /\ phase' = "inserting" /\ at' = n /\ par' = NULL
      /\ old' = NULL /\ pending' = NoStore /\ nodenum' = nodenum
  BY DEF Link
<1>2. PICK b : RedBlack(tree, P, key, b)
  BY DEF TreeInv, Shape
<1>3. P \subseteq Node /\ IsFiniteSet(P) /\ k \in Int /\ k # NULL /\ DOMAIN key = Node
  BY <1>2, RBTreeAssumption DEF RedBlack, Ordered, SearchTree, Sets, TreeInv, TypeOK
<1>4. Present' = P \cup {n}
  BY <1>1, <1>3 DEF Present
<1>5. Leaving = {} /\ Leaving' = {} /\ Extra(phase) = 0 /\ Extra(phase') = -1
  BY <1>1 DEF Leaving, Extra
<1>6. Blank(tree, Node \ P)
  BY <1>5 DEF TreeInv
<1> HIDE DEF P, p
<1>7. /\ \E b2 : Growing(tree', P \cup {n}, key', b2, n)
      /\ SameOutside(tree, tree', P \cup {n})
  <2>1. n \in Node \ P /\ (\A x \in P : key[x] # k) /\ Link(op, k, n, p)
    BY DEF P, p
  <2>2. p = Search(tree, k).parent
    BY DEF p
  <2> QED  BY <1>2, <1>3, <2>1, <2>2, LinkGives
<1>8. Shape(tree', Present', key', phase', at', par')
  BY <1>1, <1>4, <1>7 DEF Shape
<1>9. tree' \in Trees
  BY <1>7 DEF Growing, Ordered, SearchTree, Sets
<1>10. key' \in [Node -> Key \cup {NULL}] /\ nodenum' \in Nat
  BY <1>1 DEF TreeInv, TypeOK
<1>11. TypeOK'
  BY <1>1, <1>9, <1>10 DEF TypeOK, Trees
<1>12. Blank(tree', Node \ (P \cup {n}))
  <2>1. Blank(tree, Node \ (P \cup {n}))
    BY <1>6 DEF Blank
  <2> QED  BY <1>7, <2>1, OutsideBlank
<1>13. nodenum' = Cardinality(Present') + Extra(phase')
  <2>1. Cardinality(P \cup {n}) = Cardinality(P) + 1
    <3>1. n \notin P
      BY DEF P
    <3> QED  BY <1>3, <3>1, FS_AddElement
  <2>2. nodenum = Cardinality(P) + 0
    BY <1>5 DEF TreeInv, P
  <2>3. Cardinality(P) \in Nat
    BY <1>3, FS_CardinalityType
  <2> QED  BY <1>1, <1>4, <1>5, <2>1, <2>2, <2>3
<1>14. Waits'
  BY <1>1 DEF Waits
<1>15. Blank(tree', Node \ (Present' \cup Leaving'))
  BY <1>4, <1>5, <1>12
<1> QED  BY <1>8, <1>11, <1>13, <1>14, <1>15 DEF TreeInv

(* What a search for k finds in the tree.                                  *)
LEMMA SearchFinds ==
  ASSUME TreeInv, phase \in {"idle", "linking"}, NEW k \in Key
  PROVE  Search(tree, k).node = NULL <=> \A x \in Present : key[x] # k
<1>1. PICK sub : SearchTree(tree, Present, key, sub)
  BY DEF TreeInv, Shape, RedBlack, Ordered
<1>2. k \in Int /\ NULL \notin Present
  BY RBTreeAssumption DEF Present
<1> QED  BY <1>1, <1>2, SearchMeans

(* A node is taken out, and the key of the store that may wait for it is   *)
(* not there.                                                              *)
LEMMA UnlinkInv ==
  ASSUME TreeInv, phase = "idle", NEW n \in Present, Unlink(n),
         \/ pending' = pending
         \/ /\ pending' # NoStore /\ pending'.op \in {"insert", "set"} /\ pending'.key \in Key
            /\ \A x \in Present : key[x] # pending'.key
  PROVE  TreeInv'
<1> DEFINE u == Unlinked(n)
           P == Present
           Q == P \ {n}
<1>1. /\ tree' = u.tree /\ at' = u.child /\ par' = u.parent /\ old' = n
      /\ phase' = (IF u.color = "black" THEN "erasing" ELSE "erased")
      /\ key' = [key EXCEPT ![n] = NULL] /\ nodenum' = nodenum
  BY DEF Unlink
<1>2. PICK b : RedBlack(tree, P, key, b)
  BY DEF TreeInv, Shape
<1>3. P \subseteq Node /\ IsFiniteSet(P) /\ DOMAIN key = Node /\ n \in Node /\ NULL \notin Key
  BY <1>2, RBTreeAssumption DEF RedBlack, Ordered, SearchTree, Sets, TreeInv, TypeOK
<1>4. Present' = Q
  BY <1>1, <1>3 DEF Present
<1>5. /\ Leaving = {} /\ Leaving' = {n} /\ Extra(phase) = 0 /\ Extra(phase') = 1
      /\ phase' \in {"erasing", "erased"}
  BY <1>1 DEF Leaving, Extra
<1>6. Blank(tree, Node \ P)
  BY <1>5 DEF TreeInv
<1>7. SameKeys(key, key', Q)
  BY <1>1, <1>3 DEF SameKeys
<1> HIDE DEF u, P
<1>8. /\ Without(u.tree, Q, key', u.child, u.parent, u.color)
      /\ Blank(u.tree, Node \ P) /\ u.color \in {"red", "black"}
      /\ u.child \in P \cup {NULL} /\ u.parent \in P \cup {NULL}
  <2>1. n \in P
    BY DEF P
  <2> QED  BY <1>2, <1>6, <1>7, <2>1, UnlinkedMeans DEF u
<1> HIDE DEF Q
<1>9. Shape(tree', Q, key', phase', at', par')
  <2>1. CASE u.color = "black"
    BY <1>1, <1>8, <2>1 DEF Shape, Without
  <2>2. CASE u.color # "black"
    BY <1>1, <1>8, <2>2 DEF Shape, Without
  <2> QED  BY <2>1, <2>2
<1>10. tree' \in Trees
  <2>1. phase' \in Phases
    BY <1>5 DEF Phases
  <2> QED  BY <1>9, <2>1, ShapeTree
<1>11. key' \in [Node -> Key \cup {NULL}] /\ nodenum' \in Nat
  BY <1>1 DEF TreeInv, TypeOK
<1>12. TypeOK'
  <2>1. {at', par', old'} \subseteq Node \cup {NULL}
    BY <1>1, <1>3, <1>8
  <2> QED  BY <1>5, <1>10, <1>11, <2>1 DEF TypeOK, Trees
<1>13. nodenum' = Cardinality(Present') + Extra(phase')
  <2>1. n \in P
    BY DEF P
  <2>2. Cardinality(Q) = Cardinality(P) - 1
    BY <1>3, <2>1, FS_RemoveElement DEF Q
  <2>3. nodenum = Cardinality(P) + 0
    BY <1>5 DEF TreeInv, P
  <2>4. Cardinality(P) \in Nat
    BY <1>3, FS_CardinalityType
  <2> QED  BY <1>1, <1>4, <1>5, <2>2, <2>3, <2>4
<1>14. Waits'
  <2>1. \A x \in Q : x \in P /\ key'[x] = key[x]
    BY <1>7 DEF SameKeys, Q
  <2>2. pending' # NoStore => /\ pending'.op \in {"insert", "set"} /\ pending'.key \in Key
                              /\ \A x \in P : key[x] # pending'.key
    BY DEF TreeInv, Waits, P
  <2>3. old' \in Node \ Q
    BY <1>1, <1>3 DEF Q
  <2> QED  BY <1>4, <1>5, <2>1, <2>2, <2>3 DEF Waits
<1>15. Blank(tree', Node \ (Present' \cup Leaving'))
  <2>1. Q \cup {n} = P
    BY DEF P, Q
  <2> QED  BY <1>1, <1>4, <1>5, <1>8, <2>1
<1>16. Shape(tree', Present', key', phase', at', par')
  BY <1>4, <1>9
<1> QED  BY <1>12, <1>13, <1>14, <1>15, <1>16 DEF TreeInv

LEMMA NextInv ==
  TreeInv /\ [Next]_vars => TreeInv'
<1> SUFFICES ASSUME TreeInv, [Next]_vars PROVE TreeInv'
  OBVIOUS
<1>1. CASE UNCHANGED vars
  BY <1>1, ReplyInv DEF vars, local
<1>2. ASSUME NEW k \in Key, NEW op, Lookup(op, k) PROVE TreeInv'
  BY <1>2, ReplyInv DEF Lookup
<1>3. ASSUME NEW k \in Key, StoreFailed(k) PROVE TreeInv'
  BY <1>3, ReplyInv DEF StoreFailed
<1>4. CASE Visit
  BY <1>4, ReplyInv DEF Visit
<1>5. ASSUME NEW k \in Key, NEW op, StoreOther(op, k) PROVE TreeInv'
  <2>1. phase = "idle" /\ Search(tree, k).node = NULL
    BY <1>5 DEF StoreOther
  <2>2. PICK n \in Node : key[n] = NULL /\ Link(op, k, n, Search(tree, k).parent)
    BY <1>5 DEF StoreOther
  <2>3. n \notin Present /\ \A x \in Present : key[x] # k
    BY <2>1, <2>2, SearchFinds DEF Present
  <2> QED  BY <2>1, <2>2, <2>3, LinkInv
<1>6. CASE LinkPending
  <2>1. phase = "linking" /\ Link(pending.op, pending.key, old, Search(tree, pending.key).parent)
    BY <1>6 DEF LinkPending
  <2>2. /\ old \in Node /\ old \notin Present /\ pending.key \in Key
        /\ \A x \in Present : key[x] # pending.key
    BY <2>1 DEF TreeInv, Waits
  <2> QED  BY <2>1, <2>2, LinkInv
<1>7. CASE Erase
  <2>1. PICK n \in Node : key[n] # NULL /\ Unlink(n)
    BY <1>7 DEF Erase
  <2>2. phase = "idle" /\ pending' = pending /\ n \in Present
    BY <1>7, <2>1 DEF Erase, Present
  <2> QED  BY <2>1, <2>2, UnlinkInv
<1>8. ASSUME NEW k \in Key, NEW op \in {"insert", "set"}, StoreEvicting(op, k) PROVE TreeInv'
  <2>1. /\ phase = "idle" /\ Search(tree, k).node = NULL
        /\ pending' = [op |-> op, key |-> k, parent |-> Search(tree, k).parent]
    BY <1>8 DEF StoreEvicting
  <2>2. PICK n \in Node : key[n] # NULL /\ Unlink(n)
    BY <1>8 DEF StoreEvicting
  <2>3. n \in Present /\ \A x \in Present : key[x] # k
    BY <2>1, <2>2, SearchFinds DEF Present
  <2>4. pending' # NoStore /\ pending'.key = k /\ pending'.op \in {"insert", "set"}
    BY <2>1, RBTreeAssumption DEF NoStore
  <2> QED  BY <2>1, <2>2, <2>3, <2>4, UnlinkInv
<1>9. CASE RecolorUncle \/ RotateGrandParent \/ PushUp \/ Settle \/ EraseBalanced
  BY <1>9, RoundsInv
<1>10. CASE InsertDone
  BY <1>10, InsertDoneInv
<1>11. CASE EraseDone
  BY <1>11, EraseDoneInv
<1> QED  BY <1>1, <1>2, <1>3, <1>4, <1>5, <1>6, <1>7, <1>8, <1>9, <1>10, <1>11 DEF Next, Rebalance

(* In every phase of every call the tree is ordered, as near to red-black  *)
(* as the phase allows, and counted.                                       *)
THEOREM AlwaysTree == Spec => []TreeInv
<1>1. TreeInv /\ [Next]_vars => TreeInv'
  BY NextInv
<1> QED  BY <1>1, StartInv, PTL DEF Spec

-----------------------------------------------------------------------------
(* Part 8: the properties.                                                 *)

LEMMA InvTree ==
  ASSUME TreeInv
  PROVE  /\ \E sub : SearchTree(tree, Present, key, sub)
         /\ tree \in Trees /\ Present \subseteq Node /\ IsFiniteSet(Present)
<1>1. phase \in Phases /\ Shape(tree, Present, key, phase, at, par)
  BY DEF TreeInv, TypeOK, Phases
<1> QED  BY <1>1, ShapeTree

(* The fields have their types.                                            *)
THEOREM TypeCorrectness == Spec => []TypeOK
<1>1. TreeInv => TypeOK
  BY DEF TreeInv
<1> QED  BY <1>1, AlwaysTree, PTL

(* At every step of a store, an erase or an eviction the pointers in both  *)
(* directions describe one tree, and between two calls a node outside of   *)
(* the tree has no links.                                                  *)
THEOREM PointersAlwaysAgree == Spec => []PointersAgree
<1>1. TreeInv => PointersAgree
  <2> SUFFICES ASSUME TreeInv PROVE PointersAgree
    OBVIOUS
  <2>1. PICK sub : SearchTree(tree, Present, key, sub)
    BY InvTree
  <2>2. NULL \notin Present /\ tree.root \in Node \cup {NULL}
    BY InvTree, TreeFields, RBTreeAssumption DEF Present
  <2>3. tree.root # NULL => tree.parent[tree.root] = NULL
    BY <2>1 DEF SearchTree, Hung
  <2>4. ASSUME NEW n \in Present
        PROVE  /\ (tree.parent[n] = NULL <=> tree.root = n)
               /\ \A d \in Side : tree.kid[d][n] # NULL => tree.parent[tree.kid[d][n]] = n
               /\ \A d, e \in Side : tree.kid[d][n] = tree.kid[e][n] => d = e \/ tree.kid[d][n] = NULL
    <3>1. tree.parent[n] = NULL <=> tree.root = n
      BY <2>1, Hangs
    <3>2. \A d \in Side : Around(tree, Present, key, sub, n, d)
      BY <2>1, NodeAround
    <3>3. \A d, e \in Side : d = e \/ e = Other(d)
      BY Sides
    <3> QED  BY <3>1, <3>2, <3>3 DEF Around
  <2>5. ASSUME NEW n \in Node \ Present, phase = "idle"
        PROVE  \A d \in Side : tree.kid[d][n] = NULL /\ tree.parent[n] = NULL
    BY <2>5 DEF TreeInv, Leaving, Blank
  <2> QED  BY <2>3, <2>4, <2>5 DEF PointersAgree
<1> QED  BY <1>1, AlwaysTree, PTL

(* The loop of erase never follows a NULL pointer to a sibling.            *)
THEOREM SiblingAlwaysExists == Spec => []SiblingExists
<1>1. TreeInv => SiblingExists
  <2> SUFFICES ASSUME TreeInv, phase = "erasing", Unbalanced
               PROVE  par # NULL /\ Sibling # NULL
    BY DEF SiblingExists
  <2>1. Rebalancing(tree, Present, key, at, par)
    BY DEF TreeInv, Shape
  <2> QED  BY <2>1, RoundSibling
<1> QED  BY <1>1, AlwaysTree, PTL

(* Between two calls nodenum is the number of nodes that a visit shows.    *)
THEOREM NodeNumAlwaysCounts == Spec => []NodeNumCounts
<1>1. TreeInv => NodeNumCounts
  <2> SUFFICES ASSUME TreeInv, phase = "idle" PROVE nodenum = Len(InOrder(tree))
    BY DEF NodeNumCounts
  <2>1. PICK sub : SearchTree(tree, Present, key, sub)
    BY InvTree
  <2>2. Len(InOrder(tree)) = Cardinality(Present)
    BY <2>1, InOrderMeans
  <2>3. Cardinality(Present) \in Nat
    BY InvTree, FS_CardinalityType
  <2>4. nodenum = Cardinality(Present) + 0
    BY DEF TreeInv, Extra
  <2> QED  BY <2>2, <2>3, <2>4
<1> QED  BY <1>1, AlwaysTree, PTL

(* The recursion of Balanced, and what it finds.                           *)
Height(f, T, n) ==
  IF n = NULL THEN 0
  ELSE LET l == f[T.kid["left"][n]]
           r == f[T.kid["right"][n]]
       IN  IF l = -1 \/ l # r THEN -1 ELSE IF Red(T, n) THEN l ELSE l + 1

Heights(f, T) == f = [n \in Node \cup {NULL} |-> Height(f, T, n)]

LEMMA HeightIs ==
  ASSUME NEW T, NEW P, NEW b, NEW sub, NEW K, SearchTree(T, P, K, sub),
         Levels(T, P, b, NULL, "left"), NEW n \in P, NEW f,
         \A d \in Side : f[T.kid[d][n]] = Rank(T, b, T.kid[d][n])
  PROVE  Height(f, T, n) = Rank(T, b, n)
<1>1. /\ n # NULL /\ T \in Trees /\ b \in [Node -> Nat] /\ n \in Node
      /\ "left" \in Side /\ "right" \in Side
  BY RBTreeAssumption DEF SearchTree, Sets, Levels, Side
<1>2. \A d \in Side : b[n] = Rank(T, b, T.kid[d][n])
  <2> SUFFICES ASSUME NEW d \in Side PROVE b[n] = Rank(T, b, T.kid[d][n])
    OBVIOUS
  <2>1. b[n] = Rank(T, b, T.kid[d][n]) + 0
    BY <1>1 DEF Levels, Lack
  <2>2. T.kid[d][n] \in Node \cup {NULL}
    BY <1>1, TreeFields
  <2> QED  BY <1>1, <2>1, <2>2, RankFacts
<1>3. f[T.kid["left"][n]] = b[n] /\ f[T.kid["right"][n]] = b[n] /\ b[n] \in Nat
  BY <1>1, <1>2
<1>4. Height(f, T, n) = IF Red(T, n) THEN b[n] ELSE b[n] + 1
  BY <1>1, <1>3 DEF Height
<1> QED  BY <1>1, <1>4, RankFacts

LEMMA HeightsExist ==
  ASSUME NEW T, NEW P, NEW b, NEW sub, NEW K, SearchTree(T, P, K, sub),
         Levels(T, P, b, NULL, "left"), Blank(T, Node \ P)
  PROVE  \E f : Heights(f, T)
<1> DEFINE v(n) == IF n \in P \cup {NULL} THEN Rank(T, b, n)
                   ELSE IF Red(T, n) THEN 0 ELSE 1
           f == [n \in Node \cup {NULL} |-> v(n)]
<1>1. NULL \notin Node /\ P \subseteq Node /\ KidsIn(T, P) /\ "left" \in Side /\ "right" \in Side
  BY RBTreeAssumption DEF SearchTree, Sets, Side
<1>2. \A n \in P \cup {NULL} : f[n] = Rank(T, b, n)
  BY <1>1
<1>3. f[NULL] = 0
  BY <1>2 DEF Rank
<1>4. ASSUME NEW n \in Node \cup {NULL} PROVE v(n) = Height(f, T, n)
  <2> HIDE DEF f
  <2>1. CASE n = NULL
    BY <1>2, <2>1 DEF Height, Rank
  <2>2. CASE n \in P
    <3>1. \A d \in Side : f[T.kid[d][n]] = Rank(T, b, T.kid[d][n])
      BY <1>1, <1>2, <2>2 DEF KidsIn
    <3> QED  BY <2>2, <3>1, HeightIs
  <2>3. CASE n # NULL /\ n \notin P
    <3>1. T.kid["left"][n] = NULL /\ T.kid["right"][n] = NULL
      BY <1>1, <2>3 DEF Blank
    <3> QED  BY <1>3, <2>3, <3>1 DEF Height
  <2> QED  BY <2>1, <2>2, <2>3
<1>5. f = [n \in Node \cup {NULL} |-> Height(f, T, n)]
  <2>1. f = [n \in Node \cup {NULL} |-> v(n)]
    OBVIOUS
  <2> HIDE DEF f, v
  <2> QED  BY <1>4, <2>1
<1> HIDE DEF f
<1>6. Heights(f, T)
  BY <1>5 DEF Heights
<1> QED  BY <1>6

LEMMA HeightsMean ==
  ASSUME NEW T, NEW P, NEW b, NEW sub, NEW K, SearchTree(T, P, K, sub),
         Levels(T, P, b, NULL, "left"), NEW f, Heights(f, T)
  PROVE  \A n \in P \cup {NULL} : f[n] = Rank(T, b, n)
<1> DEFINE B == {n \in P : f[n] # Rank(T, b, n)}
<1>1. P \subseteq Node /\ KidsIn(T, P)
  BY DEF SearchTree, Sets
<1>2. \A n \in P \cup {NULL} : f[n] = Height(f, T, n)
  BY <1>1 DEF Heights
<1>3. f[NULL] = Rank(T, b, NULL)
  BY <1>2 DEF Height, Rank
<1>4. ASSUME NEW n \in B PROVE \E d \in Side : T.kid[d][n] \in B
  <2> SUFFICES ASSUME \A d \in Side : T.kid[d][n] \notin B PROVE FALSE
    OBVIOUS
  <2>1. n \in P
    OBVIOUS
  <2>2. \A d \in Side : f[T.kid[d][n]] = Rank(T, b, T.kid[d][n])
    BY <1>1, <1>3, <2>1 DEF KidsIn
  <2>3. Height(f, T, n) = Rank(T, b, n)
    BY <2>1, <2>2, HeightIs
  <2> QED  BY <1>2, <2>1, <2>3
<1>5. B = {}
  <2>1. B \in SUBSET P
    OBVIOUS
  <2> HIDE DEF B
  <2> QED  BY <1>4, <2>1, Induct
<1> QED  BY <1>3, <1>5

(* Between two calls the tree is red-black.                                *)
THEOREM AlwaysBalanced == Spec => []Balanced
<1>1. TreeInv => Balanced
  <2> SUFFICES ASSUME TreeInv PROVE Balanced
    OBVIOUS
  <2>1. CASE phase # "idle"
    BY <2>1 DEF Balanced
  <2>2. CASE phase = "idle"
    <3> DEFINE height == CHOOSE f : Heights(f, tree)
    <3>1. PICK b : RedBlack(tree, Present, key, b)
      BY <2>2 DEF TreeInv, Shape
    <3>2. PICK sub : SearchTree(tree, Present, key, sub)
      BY InvTree
    <3>3. Levels(tree, Present, b, NULL, "left") /\ Blank(tree, Node \ Present)
      BY <2>2, <3>1 DEF RedBlack, TreeInv, Leaving
    <3>4. Heights(height, tree)
      <4>1. \E f : Heights(f, tree)
        BY <3>2, <3>3, HeightsExist
      <4> QED  BY <4>1
    <3> HIDE DEF height
    <3>5. height[tree.root] = Rank(tree, b, tree.root)
      <4>1. tree.root \in Present \cup {NULL}
        BY <3>2 DEF SearchTree, Hung
      <4> QED  BY <3>2, <3>3, <3>4, <4>1, HeightsMean
    <3>6. height[tree.root] # -1
      <4>1. Rank(tree, b, tree.root) \in Nat
        BY <3>3, InvTree, TreeFields, RankFacts DEF Levels
      <4> QED  BY <3>5, <4>1
    <3>7. ~ Red(tree, tree.root) /\ \A n \in Present : ~ (Red(tree, n) /\ Red(tree, tree.parent[n]))
      BY <3>1 DEF RedBlack, TwoRed
    <3> QED  BY <3>6, <3>7, Zenon DEF Balanced, Heights, Height, height
  <2> QED  BY <2>1, <2>2
<1> QED  BY <1>1, AlwaysTree, PTL

(* The keys that are stored.                                               *)
Stored(K) == {K[n] : n \in {x \in Node : K[x] # NULL}}

KeysOf(T, K) == LET nodes == InOrder(T) IN {K[nodes[i]] : i \in DOMAIN nodes}

LEMMA KeysStored ==
  ASSUME NEW T, NEW K, NEW sub, SearchTree(T, {x \in Node : K[x] # NULL}, K, sub)
  PROVE  KeysOf(T, K) = Stored(K)
<1>1. Shown(InOrder(T)) = {x \in Node : K[x] # NULL}
  BY InOrderMeans
<1>2. KeysOf(T, K) = {K[x] : x \in Shown(InOrder(T))}
  BY DEF KeysOf, Shown
<1> QED  BY <1>1, <1>2 DEF Stored

LEMMA InvKeys ==
  ASSUME TreeInv
  PROVE  KeysOf(tree, key) = StoredKeys
<1>1. PICK sub : SearchTree(tree, Present, key, sub)
  BY InvTree
<1>2. KeysOf(tree, key) = Stored(key)
  BY <1>1, KeysStored DEF Present
<1> QED  BY <1>2 DEF StoredKeys, Stored, Present

(* The tree does what ccache.c expects of a bucket: every answer of find,  *)
(* update, insert and set is right, a store adds its key and nothing else, *)
(* an erase or an eviction takes its key, and a visit shows every key once.*)
THEOREM ImplementsBucket == Spec => BucketSpec
<1>1. Init => AsBucket!Init
  <2> SUFFICES ASSUME Init PROVE AsBucket!Init
    OBVIOUS
  <2>1. StoredKeys = Stored(key)
    BY DEF StoredKeys, Stored, Present
  <2>2. Stored(key) = {}
    BY DEF Init, Stored
  <2> QED  BY <2>1, <2>2 DEF Init, AsBucket!Init, Reply, AsBucket!Reply
<1>2. TreeInv /\ TreeInv' /\ [Next]_vars => [AsBucket!Next]_<<StoredKeys, ret>>
  <2> SUFFICES ASSUME TreeInv, TreeInv', [Next]_vars
               PROVE  AsBucket!Next \/ UNCHANGED <<StoredKeys, ret>>
    OBVIOUS
  <2>1. StoredKeys = Stored(key) /\ StoredKeys' = Stored(key')
    BY DEF StoredKeys, Stored, Present
  <2>2. key \in [Node -> Key \cup {NULL}] /\ NULL \notin Key /\ NULL \notin Node
    BY RBTreeAssumption DEF TreeInv, TypeOK
  <2>3. \A k \in Key : k \in Stored(key) <=> ~ \A x \in Present : key[x] # k
    BY <2>2 DEF Stored, Present
  <2>4. ASSUME NEW k \in Key, NEW op \in {"find", "update", "insert", "set"}, Lookup(op, k)
        PROVE  AsBucket!Next
    <3>1. phase = "idle" /\ key' = key
      BY <2>4 DEF Lookup
    <3>2. Search(tree, k).node # NULL <=> k \in Stored(key)
      BY <2>3, <3>1, SearchFinds
    <3>3. /\ ret' = Reply(op, k, Search(tree, k).node # NULL, <<>>)
          /\ Search(tree, k).node # NULL \/ op \in {"find", "update"}
      BY <2>4 DEF Lookup
    <3>4. (Search(tree, k).node # NULL) = (k \in StoredKeys)
      BY <2>1, <3>2
    <3>5. ret' = Reply(op, k, k \in StoredKeys, <<>>)
      BY <3>3, <3>4, Zenon
    <3>6. AsBucket!Lookup(op, k)
      BY <2>1, <3>1, <3>2, <3>3, <3>5 DEF AsBucket!Lookup, Reply, AsBucket!Reply
    <3> QED  BY <3>6 DEF AsBucket!Next
  <2>5. ASSUME NEW k \in Key, NEW op \in {"insert", "set"}, NEW n \in Node, NEW p,
               \A x \in Present : key[x] # k, key[n] = NULL, Link(op, k, n, p)
        PROVE  AsBucket!Next
    <3>1. key' = [key EXCEPT ![n] = k] /\ ret' = Reply(op, k, FALSE, <<>>)
      BY <2>5 DEF Link
    <3>2. \A x \in Node : key'[x] = IF x = n THEN k ELSE key[x]
      BY <2>2, <3>1
    <3>3. Stored(key') = Stored(key) \cup {k}
      BY <2>2, <2>5, <3>2 DEF Stored
    <3>4. k \notin Stored(key)
      BY <2>3, <2>5
    <3>5. AsBucket!Store(op, k)
      BY <2>1, <3>1, <3>3, <3>4 DEF AsBucket!Store, Reply, AsBucket!Reply
    <3> QED  BY <3>5 DEF AsBucket!Next
  <2>6. ASSUME NEW n \in Node, key[n] # NULL, Unlink(n)
        PROVE  AsBucket!Next
    <3>1. key' = [key EXCEPT ![n] = NULL] /\ ret' = Reply("erase", key[n], TRUE, <<>>)
      BY <2>6 DEF Unlink
    <3>2. \A x \in Node : key'[x] = IF x = n THEN NULL ELSE key[x]
      BY <2>2, <3>1
    <3>3. key[n] \in Key /\ key[n] \in Stored(key)
      BY <2>2, <2>6 DEF Stored
    <3>4. \A x \in Node : x # n /\ key[x] # NULL => key[x] # key[n]
      <4>1. Keyed(Present, key)
        BY InvTree DEF SearchTree
      <4> QED  BY <2>6, <4>1 DEF Keyed, Present
    <3>5. Stored(key') = Stored(key) \ {key[n]}
      BY <2>6, <3>2, <3>4 DEF Stored
    <3>6. PICK k \in Key : k = key[n]
      BY <3>3
    <3>7. AsBucket!Erase(k)
      BY <2>1, <3>1, <3>3, <3>5, <3>6 DEF AsBucket!Erase, Reply, AsBucket!Reply
    <3> QED  BY <3>7 DEF AsBucket!Next
  <2>7. ASSUME NEW k \in Key, NEW op \in {"insert", "set"}, StoreOther(op, k)
        PROVE  AsBucket!Next
    <3>1. phase = "idle" /\ Search(tree, k).node = NULL
      BY <2>7 DEF StoreOther
    <3>2. \A x \in Present : key[x] # k
      BY <3>1, SearchFinds
    <3>3. PICK n \in Node : key[n] = NULL /\ Link(op, k, n, Search(tree, k).parent)
      BY <2>7 DEF StoreOther
    <3> QED  BY <2>5, <3>2, <3>3
  <2>8. ASSUME NEW k, NEW op, StoreEvicting(op, k) PROVE AsBucket!Next
    BY <2>6, <2>8 DEF StoreEvicting
  <2>9. ASSUME NEW k \in Key, StoreFailed(k)
        PROVE  AsBucket!Next
    <3>1. phase = "idle" /\ Search(tree, k).node = NULL /\ key' = key /\ ret' = Reply("fail", k, FALSE, <<>>)
      BY <2>9 DEF StoreFailed
    <3>2. k \notin Stored(key)
      BY <2>3, <3>1, SearchFinds
    <3>3. AsBucket!Refuse(k)
      BY <2>1, <3>1, <3>2 DEF AsBucket!Refuse, Reply, AsBucket!Reply
    <3> QED  BY <3>3 DEF AsBucket!Next
  <2>10. ASSUME Erase PROVE AsBucket!Next
    BY <2>6, <2>10 DEF Erase
  <2>11. ASSUME LinkPending PROVE AsBucket!Next
    <3>1. phase = "linking" /\ Link(pending.op, pending.key, old, Search(tree, pending.key).parent)
      BY <2>11 DEF LinkPending
    <3>2. /\ pending.key \in Key /\ pending.op \in {"insert", "set"}
          /\ old \in Node /\ key[old] = NULL /\ \A x \in Present : key[x] # pending.key
      BY <3>1 DEF TreeInv, Waits, Present
    <3> QED  BY <2>5, <3>1, <3>2
  <2>12. ASSUME Visit PROVE AsBucket!Next
    <3> DEFINE nodes == InOrder(tree)
               seen  == [i \in DOMAIN nodes |-> key[nodes[i]]]
    <3>1. ret' = Reply("visit", NULL, FALSE, seen) /\ key' = key
      BY <2>12 DEF Visit
    <3>2. nodes \in Seq(Node) /\ Len(nodes) = Cardinality(Present)
      BY InvTree, InOrderMeans
    <3>3. Cardinality(Stored(key)) = Cardinality(Present)
      <4> DEFINE f == [n \in Present |-> key[n]]
      <4>1. Keyed(Present, key) /\ IsFiniteSet(Present)
        BY InvTree DEF SearchTree
      <4>2. f \in Bijection(Present, Stored(key))
        BY <4>1 DEF Bijection, Injection, Surjection, IsInjective, Keyed, Stored, Present
      <4>3. ExistsBijection(Present, Stored(key))
        BY <4>2 DEF ExistsBijection
      <4> QED  BY <4>1, <4>3, FS_Bijection
    <3>4. Len(seen) = Cardinality(Stored(key))
      <4>1. DOMAIN nodes = 1..Len(nodes) /\ Len(nodes) \in Nat
        BY <3>2
      <4> HIDE DEF nodes
      <4>2. DOMAIN seen = 1..Len(nodes)
        BY <4>1
      <4>3. seen \in Seq({key[nodes[i]] : i \in 1..Len(nodes)}) 
        BY <4>1
      <4>4. Len(seen) = Len(nodes)
        BY <4>1, <4>2, <4>3
      <4> QED  BY <3>2, <3>3, <4>4
    <3>5. {seen[i] : i \in DOMAIN seen} = StoredKeys
      BY InvKeys DEF KeysOf
    <3>6. AsBucket!Cardinality(StoredKeys) = Cardinality(StoredKeys)
      BY DEF AsBucket!Cardinality, Cardinality
    <3> HIDE DEF seen
    <3>7. ret'.op = "visit" /\ ret'.key = NULL /\ ret'.found = FALSE /\ ret'.seen = seen
      BY <3>1 DEF Reply
    <3>8. AsBucket!Visit
      <4>1. Len(ret'.seen) = AsBucket!Cardinality(StoredKeys)
        BY <2>1, <3>4, <3>6, <3>7
      <4>2. {ret'.seen[i] : i \in DOMAIN ret'.seen} = StoredKeys
        BY <3>5, <3>7
      <4>3. StoredKeys' = StoredKeys
        BY <2>1, <3>1
      <4> QED  BY <3>7, <4>1, <4>2, <4>3, Zenon DEF AsBucket!Visit
    <3> QED  BY <3>8 DEF AsBucket!Next
  <2>13. ASSUME UNCHANGED <<key, ret>> PROVE UNCHANGED <<StoredKeys, ret>>
    BY <2>1, <2>13
  <2>14. ASSUME Rebalance, ~ LinkPending PROVE UNCHANGED <<key, ret>>
    BY <2>14, Zenon DEF Rebalance, RecolorUncle, RotateGrandParent, InsertDone, PushUp, Settle,
                 EraseBalanced, EraseDone
  <2>15. ASSUME UNCHANGED vars PROVE UNCHANGED <<key, ret>>
    BY <2>15 DEF vars
  <2> QED  BY <2>4, <2>7, <2>8, <2>9, <2>10, <2>11, <2>12, <2>13, <2>14, <2>15 DEF Next
<1>3. AsBucket!Init /\ [][AsBucket!Next]_<<StoredKeys, ret>> => BucketSpec
  BY DEF BucketSpec, AsBucket!Spec
<1> QED  BY <1>1, <1>2, <1>3, AlwaysTree, PTL DEF Spec

-----------------------------------------------------------------------------
(* Part 9: the rounds of a loop go up.                                     *)

(* The recursion of Depth along the parents up.                           *)
Ups(f, up) == f = [m \in Node |-> IF up[m] = NULL THEN 1 ELSE 1 + f[up[m]]]

DepthOf(up, n) == LET f == CHOOSE g : Ups(g, up) IN IF n = NULL THEN 0 ELSE f[n]

ParentsIn(T, P) == \A x \in Node : T.parent[x] \in P \cup {NULL}

NodesAbove(P, sub, n) == {a \in P : n \in sub[a]}

LEMMA AboveCount ==
  ASSUME NEW T, NEW P, NEW K, NEW sub, SearchTree(T, P, K, sub), NEW n \in P
  PROVE  Cardinality(NodesAbove(P, sub, n)) =
           IF T.parent[n] = NULL THEN 1 ELSE 1 + Cardinality(NodesAbove(P, sub, T.parent[n]))
<1> DEFINE above(x) == NodesAbove(P, sub, x)
           p == T.parent[n]
<1> USE DEF NodesAbove
<1>1. IsFiniteSet(P) /\ NULL \notin P /\ NULL \notin Node /\ P \subseteq Node
  BY RBTreeAssumption DEF SearchTree, Sets
<1>2. n \in sub[n]
  BY DEF SearchTree, Grown
<1>3. /\ p \in P \cup {NULL} /\ (p = NULL <=> n = T.root) /\ p # n
  BY Hangs
<1>4. ASSUME p = NULL PROVE Cardinality(above(n)) = 1
  <2>1. ASSUME NEW a \in P, n \in sub[a] PROVE a = n
    <3>1. sub[n] = P
      BY <1>3, <1>4 DEF SearchTree, Hung
    <3> QED  BY <2>1, <3>1, OneAbove
  <2>2. above(n) = {n}
    BY <1>2, <2>1
  <2> QED  BY <1>4, <2>2, FS_Singleton
<1>5. ASSUME p # NULL PROVE Cardinality(above(n)) = 1 + Cardinality(above(p))
  <2>1. p \in P /\ IsFiniteSet(above(p))
    <3>1. above(p) \subseteq P
      OBVIOUS
    <3> QED  BY <1>1, <1>3, <1>5, <3>1, FS_Subset
  <2>2. n \in sub[p]
    <3>1. \E d \in Side : T.kid[d][p] = n
      BY <1>3, <1>5 DEF SearchTree, ParentsLead
    <3>2. PICK d \in Side : T.kid[d][p] = n
      BY <3>1
    <3>3. Around(T, P, K, sub, p, d)
      BY <2>1, NodeAround
    <3> QED  BY <1>1, <3>2, <3>3 DEF Around
  <2>3. n \notin above(p)
    BY <1>3, <2>1, <2>2, OneAbove
  <2>4. above(n) = above(p) \cup {n}
    <3>1. ASSUME NEW a \in P, n \in sub[a], a # n PROVE p \in sub[a]
      BY <3>1, ParentBelow
    <3>2. ASSUME NEW a \in P, p \in sub[a] PROVE n \in sub[a]
      BY <2>1, <2>2, <3>2, BelowBelow
    <3> QED  BY <1>2, <3>1, <3>2
  <2> HIDE DEF above, p, NodesAbove
  <2>5. Cardinality(above(n)) = Cardinality(above(p)) + 1
    BY <2>1, <2>3, <2>4, FS_AddElement
  <2>6. Cardinality(above(p)) \in Nat
    BY <2>1, FS_CardinalityType
  <2> QED  BY <1>5, <2>5, <2>6
<1> HIDE DEF NodesAbove
<1> QED  BY <1>4, <1>5

LEMMA UpsExist ==
  ASSUME NEW T, NEW P, NEW K, NEW sub, SearchTree(T, P, K, sub), ParentsIn(T, P)
  PROVE  \E f : Ups(f, T.parent)
<1> DEFINE above(x) == NodesAbove(P, sub, x)
           v(x) == IF x \in P THEN Cardinality(above(x))
                   ELSE IF T.parent[x] = NULL THEN 1 ELSE 1 + Cardinality(above(T.parent[x]))
           f == [x \in Node |-> v(x)]
<1>1. P \subseteq Node /\ NULL \notin P
  BY RBTreeAssumption DEF SearchTree, Sets
<1>2. \A x \in P : f[x] = Cardinality(above(x))
  BY <1>1
<1>3. ASSUME NEW x \in P
      PROVE  Cardinality(above(x)) = IF T.parent[x] = NULL THEN 1 ELSE 1 + Cardinality(above(T.parent[x]))
  BY <1>3, AboveCount
<1> HIDE DEF above
<1>4. ASSUME NEW x \in Node
      PROVE  v(x) = IF T.parent[x] = NULL THEN 1 ELSE 1 + f[T.parent[x]]
  <2>1. T.parent[x] \in P \cup {NULL}
    BY DEF ParentsIn
  <2>2. v(x) = IF T.parent[x] = NULL THEN 1 ELSE 1 + Cardinality(above(T.parent[x]))
    BY <1>3
  <2> HIDE DEF f, v
  <2> QED  BY <1>2, <2>1, <2>2
<1>5. f = [x \in Node |-> IF T.parent[x] = NULL THEN 1 ELSE 1 + f[T.parent[x]]]
  <2>1. f = [x \in Node |-> v(x)]
    OBVIOUS
  <2> HIDE DEF f, v
  <2> QED  BY <1>4, <2>1
<1> HIDE DEF f
<1>6. Ups(f, T.parent)
  BY <1>5 DEF Ups
<1> QED  BY <1>6

(* The depth of a node is one more than that of its parent.                *)
LEMMA DepthMeans ==
  ASSUME NEW T, NEW P, NEW K, NEW sub, SearchTree(T, P, K, sub), ParentsIn(T, P)
  PROVE  /\ DepthOf(T.parent, NULL) = 0
         /\ \A n \in P : DepthOf(T.parent, n) \in Nat /\ DepthOf(T.parent, n) = 1 + DepthOf(T.parent, T.parent[n])
<1> DEFINE up == CHOOSE g : Ups(g, T.parent)
<1>1. Ups(up, T.parent)
  <2>1. \E f : Ups(f, T.parent)
    BY UpsExist
  <2> QED  BY <2>1
<1>2. \A n : DepthOf(T.parent, n) = IF n = NULL THEN 0 ELSE up[n]
  BY DEF DepthOf
<1> HIDE DEF up
<1>3. P \subseteq Node /\ NULL \notin P /\ NULL \notin Node /\ KidsIn(T, P) /\ KidsLead(T, P)
  BY RBTreeAssumption DEF SearchTree, Sets
<1>4. \A n \in P : up[n] = IF T.parent[n] = NULL THEN 1 ELSE 1 + up[T.parent[n]]
  BY <1>1, <1>3 DEF Ups
<1>5. ASSUME NEW n \in P PROVE up[n] \in Nat
  <2> DEFINE B == {a \in P : n \in sub[a] /\ up[a] \in Nat}
  <2> SUFFICES ASSUME up[n] \notin Nat PROVE FALSE
    OBVIOUS
  <2>1. T.root \in B
    <3>1. T.root \in P /\ T.parent[T.root] = NULL /\ sub[T.root] = P
      BY DEF SearchTree, Hung
    <3> QED  BY <1>4, <3>1
  <2>2. ASSUME NEW a \in B PROVE \E d \in Side : T.kid[d][a] \in B
    <3>1. a \in P /\ n \in sub[a] /\ n # a /\ up[a] \in Nat
      OBVIOUS
    <3>2. n \in Below(sub, T.kid["left"][a]) \/ n \in Below(sub, T.kid["right"][a])
      BY <3>1 DEF SearchTree, Grown
    <3>3. PICK d \in Side : n \in Below(sub, T.kid[d][a])
      BY <3>2 DEF Side
    <3>4. T.kid[d][a] \in P /\ n \in sub[T.kid[d][a]] /\ T.parent[T.kid[d][a]] = a
      BY <1>3, <3>1, <3>3 DEF Below, KidsIn, KidsLead
    <3>5. up[T.kid[d][a]] = 1 + up[a]
      BY <1>3, <1>4, <3>1, <3>4
    <3> QED  BY <3>1, <3>4, <3>5
  <2>3. B \in SUBSET P
    OBVIOUS
  <2> HIDE DEF B
  <2>4. B = {}
    BY <2>2, <2>3, Induct
  <2> QED  BY <2>1, <2>4
<1>6. \A n \in P : DepthOf(T.parent, n) = 1 + DepthOf(T.parent, T.parent[n])
  BY <1>2, <1>3, <1>4
<1> QED  BY <1>2, <1>3, <1>5, <1>6


LEMMA RotatedColor == \A T, n, d : Rotated(T, n, d).color = T.color
<1>1. \A T, n, d, x : WithKid(T, n, d, x).color = T.color
  BY DEF WithKid
<1>2. \A T, n, p : WithParent(T, n, p).color = T.color
  BY DEF WithParent
<1>3. \A T, p, n, x : Replaced(T, p, n, x).color = T.color
  BY <1>1 DEF Replaced
<1> TAKE T, n, d
<1> DEFINE c  == T.kid[Other(d)][n]
           m  == T.kid[d][c]
           T1 == WithKid(WithParent(WithKid(T, n, Other(d), m), m, n), c, d, n)
           p  == T1.parent[n]
           T2 == WithParent(T1, c, p)
           T3 == Replaced(T2, p, n, c)
<1>4. Rotated(T, n, d) = WithParent(T3, n, c)
  BY Zenon DEF Rotated
<1>5. T1.color = T.color
  BY <1>1, <1>2
<1> HIDE DEF T1, c, m, p
<1>6. T3.color = T1.color
  BY <1>2, <1>3
<1> HIDE DEF T3
<1> QED  BY <1>2, <1>4, <1>5, <1>6

(* What RoundsLeft is, before and after a step.                            *)
LEMMA RoundsAre ==
  /\ phase = "inserting" =>
       RoundsLeft = IF Red(tree, tree.parent[at]) THEN DepthOf(tree.parent, at) ELSE 0
  /\ phase = "erasing" =>
       RoundsLeft = IF Unbalanced THEN 1 + DepthOf(tree.parent, par) ELSE 0
<1>1. \A n : Depth(n) = DepthOf(tree.parent, n)
  BY Zenon DEF Depth, DepthOf, Ups
<1> QED  BY <1>1 DEF RoundsLeft, Parent

LEMMA RoundsNext ==
  /\ phase' = "inserting" =>
       RoundsLeft' = IF Red(tree', tree'.parent[at']) THEN DepthOf(tree'.parent, at') ELSE 0
  /\ phase' = "erasing" =>
       RoundsLeft' = IF ~ Red(tree', at') /\ at' # tree'.root THEN 1 + DepthOf(tree'.parent, par') ELSE 0
<1>1. Depth(at)' = DepthOf(tree'.parent, at')
  BY Zenon DEF Depth, DepthOf, Ups
<1>2. Depth(par)' = DepthOf(tree'.parent, par')
  BY Zenon DEF Depth, DepthOf, Ups
<1> QED  BY <1>1, <1>2 DEF RoundsLeft, Parent, Unbalanced, Red

(* The node on its way out still names its last parent, or none.           *)
LeavingApart == \A x \in Leaving : tree.parent[x] \in Present \cup {NULL}

LEMMA ParentsApart ==
  ASSUME TreeInv, LeavingApart
  PROVE  ParentsIn(tree, Present)
<1>1. PICK sub : SearchTree(tree, Present, key, sub)
  BY InvTree
<1>2. \A x \in Present : tree.parent[x] \in Present \cup {NULL}
  BY <1>1, Hangs
<1>3. \A x \in Node \ (Present \cup Leaving) : tree.parent[x] = NULL
  BY DEF TreeInv, Blank
<1> QED  BY <1>2, <1>3 DEF ParentsIn, LeavingApart

LEMMA UnlinkApart ==
  ASSUME TreeInv, phase = "idle", NEW n \in Present, Unlink(n)
  PROVE  LeavingApart'
<1> DEFINE P == Present
           K2 == [key EXCEPT ![n] = NULL]
<1>1. PICK b : RedBlack(tree, P, key, b)
  BY DEF TreeInv, Shape
<1>2. P \subseteq Node /\ DOMAIN key = Node /\ n \in P /\ n \in Node
  BY <1>1 DEF RedBlack, Ordered, SearchTree, Sets, TreeInv, TypeOK
<1>3. Blank(tree, Node \ P)
  BY DEF TreeInv, Leaving
<1>4. SameKeys(key, K2, P \ {n})
  BY <1>2 DEF SameKeys
<1>5. Present' = P \ {n} /\ old' = n /\ tree' = Unlinked(n).tree
  BY <1>2 DEF Unlink, Present
<1> HIDE DEF K2, P
<1>6. Unlinked(n).tree.parent[n] = tree.parent[n]
  BY <1>1, <1>2, <1>3, <1>4, UnlinkedMeans
<1>7. tree.parent[n] \in (P \ {n}) \cup {NULL}
  <2>1. PICK sub : SearchTree(tree, P, key, sub)
    BY <1>1 DEF RedBlack, Ordered
  <2> QED  BY <1>2, <2>1, Hangs
<1> QED  BY <1>5, <1>6, <1>7 DEF LeavingApart, Leaving

(* The rounds leave the nodes outside of the tree alone.                   *)
LEMMA RoundsOutside ==
  ASSUME TreeInv, RecolorUncle \/ RotateGrandParent \/ PushUp \/ Settle \/ EraseBalanced
  PROVE  SameOutside(tree, tree', Present) /\ key' = key /\ old' = old
         /\ (phase' = phase \/ phase = "erasing")
<1>1. Shape(tree, Present, key, phase, at, par)
  BY DEF TreeInv
<1>2. CASE RecolorUncle \/ RotateGrandParent
  <2>1. phase = "inserting" /\ phase' = phase /\ key' = key /\ old' = old
    BY <1>2, Zenon DEF RecolorUncle, RotateGrandParent
  <2>2. PICK b : Growing(tree, Present, key, b, at)
    BY <1>1, <2>1 DEF Shape
  <2> QED  BY <1>2, <2>1, <2>2, RecolorUncleKeeps, RotateGrandParentKeeps
<1>3. CASE PushUp \/ Settle
  <2>1. phase = "erasing" /\ phase' = phase /\ key' = key /\ old' = old
    BY <1>3, Zenon DEF PushUp, Settle
  <2>2. Rebalancing(tree, Present, key, at, par)
    BY <1>1, <2>1 DEF Shape
  <2> QED  BY <1>3, <2>1, <2>2, PushUpKeeps, SettleKeeps
<1>4. CASE EraseBalanced
  <2>1. phase = "erasing" /\ key' = key /\ old' = old
    BY <1>4 DEF EraseBalanced, local
  <2>2. Rebalancing(tree, Present, key, at, par)
    BY <1>1, <2>1 DEF Shape
  <2> QED  BY <1>4, <2>1, <2>2, EraseBalancedKeeps
<1> QED  BY <1>2, <1>3, <1>4

LEMMA NextApart ==
  ASSUME TreeInv, LeavingApart, [Next]_vars
  PROVE  LeavingApart'
<1>1. CASE tree' = tree /\ key' = key /\ phase' = phase /\ old' = old
  BY <1>1 DEF LeavingApart, Leaving, Present
<1>2. CASE phase' \notin {"erasing", "erased"}
  BY <1>2 DEF LeavingApart, Leaving
<1>3. CASE RecolorUncle \/ RotateGrandParent \/ PushUp \/ Settle \/ EraseBalanced
  <2>1. /\ SameOutside(tree, tree', Present) /\ key' = key /\ old' = old
        /\ phase' = phase \/ phase = "erasing"
    BY <1>3, RoundsOutside
  <2>2. Present' = Present /\ Leaving' \subseteq Leaving
    BY <2>1 DEF Present, Leaving
  <2>3. Leaving \subseteq Node \ Present
    BY DEF TreeInv, Waits, Leaving
  <2> QED  BY <2>1, <2>2, <2>3 DEF LeavingApart, SameOutside
<1>4. CASE phase = "idle" /\ \E n \in Node : key[n] # NULL /\ Unlink(n)
  BY <1>4, UnlinkApart DEF Present
<1>5. \/ tree' = tree /\ key' = key /\ phase' = phase /\ old' = old
      \/ phase' \notin {"erasing", "erased"}
      \/ RecolorUncle \/ RotateGrandParent \/ PushUp \/ Settle \/ EraseBalanced
      \/ phase = "idle" /\ \E n \in Node : key[n] # NULL /\ Unlink(n)
  <2>1. CASE UNCHANGED vars
    BY <2>1 DEF vars
  <2>2. CASE Visit \/ \E k \in Key : StoreFailed(k) \/ \E op \in {"find", "update", "insert", "set"} : Lookup(op, k)
    <3>1. tree' = tree /\ key' = key /\ phase' = phase /\ old' = old
      BY <2>2 DEF Lookup, StoreFailed, Visit, local
    <3> QED  BY <3>1
  <2>3. ASSUME NEW k, NEW n, NEW q, NEW op, Link(op, k, n, q) PROVE phase' \notin {"erasing", "erased"}
    BY <2>3 DEF Link
  <2>4. CASE \E k \in Key : \E op \in {"insert", "set"} : StoreOther(op, k)
    BY <2>3, <2>4, Zenon DEF StoreOther
  <2>5. CASE LinkPending
    BY <2>3, <2>5, Zenon DEF LinkPending
  <2>6. CASE InsertDone \/ EraseDone
    BY <2>6 DEF InsertDone, EraseDone
  <2>7. CASE Erase \/ \E k \in Key : \E op \in {"insert", "set"} : StoreEvicting(op, k)
    BY <2>7 DEF StoreEvicting, Erase
  <2> QED  BY <2>1, <2>2, <2>4, <2>5, <2>6, <2>7 DEF Next, Rebalance
<1> QED  BY <1>1, <1>2, <1>3, <1>4, <1>5


(* Above a red sibling the parent turns red.                               *)
LEMMA BlackSiblingRed ==
  ASSUME NEW T, NEW P, NEW K, NEW b, NEW a, NEW n, NEW d, Lacking(T, P, K, b, a, n, d)
  PROVE  /\ Red(T, T.kid[Other(d)][n]) => BlackSibling(T, n, d).color[n] = "red"
         /\ ~ Red(T, T.kid[Other(d)][n]) => BlackSibling(T, n, d) = T
<1> DEFINE s == T.kid[Other(d)][n]
           U == [T EXCEPT !.color[s] = "black", !.color[n] = "red"]
<1>1. ASSUME Red(T, s) PROVE BlackSibling(T, n, d).color[n] = "red"
  <2>1. BlackSibling(T, n, d) = Rotated(U, n, d)
    BY <1>1 DEF BlackSibling
  <2>2. T \in Trees /\ n \in Node /\ s \in Node /\ n # s
    BY LackingTurn
  <2> HIDE DEF s
  <2>3. PaintedTo(T, U, s, "black", n, "red")
    <3>1. "black" \in {"red", "black"} /\ "red" \in {"red", "black"}
      OBVIOUS
    <3> QED  BY <2>2, <3>1, PaintTwo, Zenon
  <2> HIDE DEF U
  <2>4. U.color[n] = "red"
    BY <2>2, <2>3 DEF PaintedTo
  <2>5. Rotated(U, n, d).color = U.color
    BY RotatedColor
  <2> QED  BY <2>1, <2>4, <2>5
<1>2. ASSUME ~ Red(T, s) PROVE BlackSibling(T, n, d) = T
  BY <1>2 DEF BlackSibling
<1> QED  BY <1>1, <1>2

(* A round of the loop of insert.                                          *)
LEMMA InsertRoundsDescend ==
  ASSUME TreeInv, LeavingApart, RecolorUncle \/ RotateGrandParent
  PROVE  RoundsLeft' < RoundsLeft
<1>1. phase = "inserting" /\ phase' = phase
  BY Zenon DEF RecolorUncle, RotateGrandParent
<1>2. PICK b : Growing(tree, Present, key, b, at)
  BY <1>1 DEF TreeInv, Shape
<1>3. at \in Present /\ \E sub : SearchTree(tree, Present, key, sub)
  BY <1>2 DEF Growing, Ordered
<1>4. Red(tree, tree.parent[at])
  BY Zenon DEF RecolorUncle, RotateGrandParent, Parent
<1>5. /\ DepthOf(tree.parent, NULL) = 0
      /\ \A n \in Present : /\ DepthOf(tree.parent, n) \in Nat
                            /\ DepthOf(tree.parent, n) = 1 + DepthOf(tree.parent, tree.parent[n])
  BY <1>3, ParentsApart, DepthMeans
<1>6. RoundsLeft = DepthOf(tree.parent, at)
  BY <1>1, <1>4, RoundsAre
<1>7. RoundsLeft' = IF Red(tree', tree'.parent[at']) THEN DepthOf(tree'.parent, at') ELSE 0
  BY <1>1, RoundsNext
<1>8. DepthOf(tree.parent, at) \in Nat \ {0}
  <2>1. tree.parent[at] \in Present \cup {NULL}
    BY <1>3, Hangs
  <2>2. DepthOf(tree.parent, tree.parent[at]) \in Nat
    BY <1>5, <2>1
  <2> QED  BY <1>3, <1>5, <2>2
<1>9. CASE RecolorUncle
  <2> DEFINE c == Parent
             g == GrandParent
             u == Uncle
  <2>1. at' = GrandParent /\ tree'.parent = tree.parent
    <3>1. /\ at' = g
          /\ tree' = [tree EXCEPT !.color[u] = "black", !.color[c] = "black", !.color[g] = "red"]
      BY <1>9 DEF RecolorUncle
    <3> HIDE DEF c, g, u
    <3>2. tree'.parent = tree.parent
      BY <1>3, <3>1 DEF SearchTree, Sets, Trees
    <3> QED  BY <3>1, <3>2 DEF g
  <2>2. Grand(tree, Present, at, Parent, GrandParent, InsertSide)
    BY <1>2, <1>4, GrandAt DEF Parent
  <2>3. /\ Parent = tree.parent[at] /\ GrandParent = tree.parent[Parent]
        /\ Parent \in Present /\ GrandParent \in Present
    BY <2>2 DEF Grand
  <2>4. /\ DepthOf(tree.parent, at) = 1 + DepthOf(tree.parent, Parent)
        /\ DepthOf(tree.parent, Parent) = 1 + DepthOf(tree.parent, GrandParent)
        /\ DepthOf(tree.parent, GrandParent) \in Nat
    BY <1>3, <1>5, <2>3
  <2>5. DepthOf(tree'.parent, at') = DepthOf(tree.parent, GrandParent)
    BY <2>1
  <2> QED  BY <1>6, <1>7, <1>8, <2>4, <2>5
<1>10. CASE RotateGrandParent
  <2>1. ~ Red(tree', tree'.parent[at'])
    BY <1>2, <1>10, RotateGrandParentKeeps
  <2> QED  BY <1>6, <1>7, <1>8, <2>1
<1> QED  BY <1>9, <1>10

(* A round of the loop of erase.                                           *)
LEMMA EraseRoundsDescend ==
  ASSUME TreeInv, LeavingApart, PushUp \/ Settle
  PROVE  RoundsLeft' < RoundsLeft
<1>1. phase = "erasing" /\ phase' = phase /\ Unbalanced
  BY Zenon DEF PushUp, Settle
<1>2. Rebalancing(tree, Present, key, at, par)
  BY <1>1 DEF TreeInv, Shape
<1>3. PICK b : Lacking(tree, Present, key, b, at, par, EraseSide)
  BY <1>1, <1>2, RoundSide
<1>4. par \in Present /\ \E sub : SearchTree(tree, Present, key, sub)
  BY <1>3 DEF Lacking, Ordered
<1>5. \A n \in Present : /\ DepthOf(tree.parent, n) \in Nat
                         /\ DepthOf(tree.parent, n) = 1 + DepthOf(tree.parent, tree.parent[n])
  BY <1>4, ParentsApart, DepthMeans
<1>6. RoundsLeft = 1 + DepthOf(tree.parent, par) /\ DepthOf(tree.parent, par) \in Nat
  BY <1>1, <1>4, <1>5, RoundsAre
<1>7. RoundsLeft' = IF ~ Red(tree', at') /\ at' # tree'.root THEN 1 + DepthOf(tree'.parent, par') ELSE 0
  BY <1>1, RoundsNext
<1>8. CASE PushUp
  <2> DEFINE d == EraseSide
             R == BlackSibling(tree, par, d)
             o == R.kid[Other(d)][par]
  <2>1. tree' = Painted(R, o, "red") /\ at' = par /\ par' = R.parent[par]
    BY <1>1, <1>2, <1>8, RoundSide DEF PushUp
  <2>2. tree'.parent = R.parent
    BY <2>1, PaintLinks
  <2>3. CASE Red(tree, Sibling)
    <3>1. par \in Node /\ tree \in Trees
      BY <1>4 DEF SearchTree, Sets
    <3>2. R \in Trees
      <4>1. Lacking(R, Present, key, b, at, par, d)
        BY <1>3, BlackSiblingKeeps
      <4> HIDE DEF R, d
      <4> QED  BY <4>1 DEF Lacking, Ordered, SearchTree, Sets
    <3>3. R.color[par] = "red"
      BY <1>3, <2>3, BlackSiblingRed DEF Sibling
    <3> HIDE DEF R, o
    <3>4. tree'.color[par] = "red"
      BY <2>1, <3>1, <3>2, <3>3 DEF Painted, Trees
    <3>5. Red(tree', at')
      BY <2>1, <3>1, <3>4, RBTreeAssumption DEF Red
    <3> QED  BY <1>6, <1>7, <3>5
  <2>4. CASE ~ Red(tree, Sibling)
    <3>1. R = tree
      BY <1>3, <2>4, BlackSiblingRed DEF Sibling
    <3> HIDE DEF R, o, d
    <3>2. tree'.parent = tree.parent /\ par' = tree.parent[par]
      BY <2>1, <2>2, <3>1
    <3>3. DepthOf(tree'.parent, par') = DepthOf(tree.parent, tree.parent[par])
      BY <3>2
    <3>4. DepthOf(tree.parent, tree.parent[par]) \in Nat
      <4>1. tree.parent[par] \in Present \cup {NULL}
        BY <1>4, Hangs
      <4>2. DepthOf(tree.parent, NULL) = 0
        BY DEF DepthOf
      <4> QED  BY <1>5, <4>1, <4>2
    <3>5. DepthOf(tree.parent, par) = 1 + DepthOf(tree.parent, tree.parent[par])
      BY <1>4, <1>5
    <3> QED  BY <1>6, <1>7, <3>3, <3>4, <3>5
  <2> QED  BY <2>3, <2>4
<1>9. CASE Settle
  <2>1. at' = tree'.root
    BY <1>2, <1>9, SettleKeeps
  <2> QED  BY <1>6, <1>7, <2>1
<1> QED  BY <1>8, <1>9

(* The loops end: every round of a store or an erase, on a tree of any     *)
(* size, leaves fewer rounds to come, so that no call climbs for ever with *)
(* the lock of the whole cache.                                            *)
THEOREM RoundsAlwaysDescend == Spec => RoundsDescend
<1>1. Init => LeavingApart
  BY DEF Init, LeavingApart, Leaving
<1>2. TreeInv /\ LeavingApart /\ [Next]_vars => LeavingApart'
  BY NextApart
<1>3. ASSUME TreeInv, LeavingApart, [Next]_vars
      PROVE  [phase' = phase /\ phase \in {"inserting", "erasing"} => RoundsLeft' < RoundsLeft]_vars
  <2> SUFFICES ASSUME Next, phase' = phase, phase \in {"inserting", "erasing"}
               PROVE  RoundsLeft' < RoundsLeft
    BY <1>3
  <2>1. ~ InsertDone /\ ~ EraseBalanced /\ ~ EraseDone /\ ~ LinkPending /\ ~ Erase /\ ~ Visit
    BY DEF InsertDone, EraseBalanced, EraseDone, LinkPending, Erase, Visit
  <2>2. \A k, op : ~ Lookup(op, k) /\ ~ StoreFailed(k)
    BY DEF Lookup, StoreFailed
  <2>3. \A k, op : ~ StoreOther(op, k) /\ ~ StoreEvicting(op, k)
    BY Zenon DEF StoreOther, StoreEvicting
  <2>4. RecolorUncle \/ RotateGrandParent \/ PushUp \/ Settle
    BY <2>1, <2>2, <2>3 DEF Next, Rebalance
  <2> QED  BY <1>3, <2>4, InsertRoundsDescend, EraseRoundsDescend
<1> QED  BY <1>1, <1>2, <1>3, AlwaysTree, PTL DEF Spec, RoundsDescend
=============================================================================
