------------------------------ MODULE CacheMap ------------------------------
(***************************************************************************)
(* What the calls of ccache.c do for their callers: a map from keys to     *)
(* items that may lose an item to make room for another one.  Nothing is   *)
(* said of nodes, buckets, LRU lists or free space.  Cache implements this *)
(* specification.                                                          *)
(*                                                                         *)
(* It is what ccache.h says of the calls but for two of them: an insert of *)
(* a key that exists succeeds without storing anything, and a set of one   *)
(* keeps the size of the item, also when the data given have another one.  *)
(***************************************************************************)
EXTENDS Integers

CONSTANTS
  NULL,       \* no key, no data
  Key, Data,
  DataLen,    \* [Data -> Nat]
  Class,      \* [Key \X Data -> Int], the size class an item is stored in
  NoClass,    \* the class of an item that is too large for the cache
  Merge       \* [Data \X Data -> Data], the caller's update function

VARIABLES
  items,      \* [Key -> item], Absent for a key that is not in the cache
  reply       \* what the last call gave its caller

vars == <<items, reply>>

Absent     == [data |-> NULL, datasize |-> 0, class |-> NoClass]
Present(k) == items[k] # Absent
Item(k, d) == [data |-> d, datasize |-> DataLen[d], class |-> Class[<<k, d>>]]

(* The part of an item that find and erase copy to the caller.             *)
Content(k) == [data |-> items[k].data, datasize |-> items[k].datasize]
NoContent  == [data |-> NULL, datasize |-> 0]

NoVisits == [k \in Key |-> 0]
Reply(op, rc, item, victim) ==
  [op |-> op, rc |-> rc, item |-> item, victim |-> victim, seen |-> NoVisits]
Done(op)    == Reply(op, 0, NoContent, NULL)
Failure(op) == Reply(op, -1, NoContent, NULL)

Init ==
  /\ items = [k \in Key |-> Absent]
  /\ reply = Done("open")

-----------------------------------------------------------------------------

(* The item is stored; at most one other item leaves the cache for it, one *)
(* of the same size class, and the caller is told which.                   *)
Stored(op, k, d) ==
  /\ Class[<<k, d>>] # NoClass
  /\ \E victim \in Key \cup {NULL} :
       /\ reply' = Reply(op, 0, NoContent, victim)
       /\ victim # NULL => items[victim].class = Class[<<k, d>>]
       /\ items' = [x \in Key |-> IF x = k THEN Item(k, d)
                                  ELSE IF x = victim THEN Absent ELSE items[x]]

(* A store may fail, and then changes nothing; but not while the cache     *)
(* holds an item whose place the new one could take.                       *)
NotStored(op, k, d) ==
  /\ reply' = Failure(op)
  /\ \/ Class[<<k, d>>] = NoClass
     \/ \A v \in Key : items[v].class # Class[<<k, d>>]
  /\ UNCHANGED items

Store(op, k, d) == Stored(op, k, d) \/ NotStored(op, k, d)

(* An item never changes its size: new data replace the bytes it has, no   *)
(* more and no fewer.                                                      *)
Replace(op, k, d) ==
  /\ reply' = Done(op)
  /\ items' = [items EXCEPT ![k].data = d]

-----------------------------------------------------------------------------

Insert(k, d) ==
  \/ reply' = Done("insert") /\ Present(k) /\ UNCHANGED items
  \/ Store("insert", k, d) /\ ~Present(k)

Find(k) ==
  /\ reply' = IF Present(k) THEN Reply("find", 0, Content(k), NULL) ELSE Failure("find")
  /\ UNCHANGED items

Update(k, d) ==
  \/ Present(k) /\ DataLen[d] = items[k].datasize /\ Replace("update", k, d)
  \/ reply' = Failure("update") /\ ~Present(k) /\ UNCHANGED items

Set(k, d, merge) ==
  \/ Present(k) /\ Replace("set", k, IF merge THEN Merge[<<items[k].data, d>>] ELSE d)
  \/ Store("set", k, d) /\ ~Present(k)

Erase(k) ==
  \/ /\ reply' = Reply("erase", 0, Content(k), NULL)
     /\ Present(k)
     /\ items' = [items EXCEPT ![k] = Absent]
  \/ reply' = Failure("erase") /\ ~Present(k) /\ UNCHANGED items

(* Every item is visited exactly once.                                     *)
Visit ==
  /\ reply' = [Done("visit") EXCEPT !.seen = [k \in Key |-> IF Present(k) THEN 1 ELSE 0]]
  /\ UNCHANGED items

Next ==
  \/ \E k \in Key, d \in Data :
       Insert(k, d) \/ Update(k, d) \/ \E merge \in BOOLEAN : Set(k, d, merge)
  \/ \E k \in Key : Find(k) \/ Erase(k)
  \/ Visit

Spec == Init /\ [][Next]_vars
=============================================================================
