------------------------------ MODULE Sharing ------------------------------
(***************************************************************************)
(* Several processes and one cache file: MapFile, and the calls of         *)
(* ccache.c as far as others can see them.  A call of ccache_insert, find, *)
(* update, erase or set is one pattern, and ccache_visit another; what     *)
(* they do to the lists and buckets inside is in Cache.                    *)
(*                                                                         *)
(* The lock is the one of the C library (NPTL): readers go before waiting  *)
(* writers; a thread that asks for the lock while it has it for writing    *)
(* gets EDEADLK, a positive number, which the code does not take for an    *)
(* error; it waits for itself if it has it for reading.                    *)
(***************************************************************************)
EXTENDS MapFile

Inside(p)  == proc[p].pc \in {"find", "store", "nested", "visit", "see", "unlock"}
Waiting(p) == proc[p].pc \in {"wlock", "rlock", "itself"}
InCall(p)  == Inside(p) \/ Waiting(p)

-----------------------------------------------------------------------------
(* Calls.                                                                  *)

(* What a call reads first is there: the file has its pages, a hashitemnum *)
(* other than 0, and pointers that lead somewhere in this process.  If not *)
(* the process can only die.                                               *)
Usable(p) ==
  LET f == file[Mine(p)] IN
  f.size # 0 /\ f.made \in {"head", "whole"} /\ proc[p].place.base \in f.bases

Holds(p) == file[Mine(p)].writer = p \/ p \in file[Mine(p)].readers

(* The step of a call from one place in it to another.                     *)
Within(p, from, to) ==
  /\ At(p, from)
  /\ Usable(p)
  /\ UNCHANGED <<name, broken>>
  /\ proc' = [proc EXCEPT ![p].pc = to]

CallBreaks(p) == When("quiet", SomeoneOpens(p))

(* A call begins: all but ccache_visit ask for the lock for writing.       *)
Call(p, lock) ==
  /\ At(p, "ready")
  /\ Usable(p)
  /\ proc' = [proc EXCEPT ![p].pc = lock]
  /\ UNCHANGED <<name, file>>
  /\ Breaks(CallBreaks(p))

(* Mutant of WriteLock: a lock that others have for reading is taken.      *)
WriteLockAmongReaders(p) ==
  /\ Within(p, "wlock", "find")
  /\ file[Mine(p)].writer = NULL
  /\ file' = [file EXCEPT ![Mine(p)].writer = p]

(* pthread_rwlock_wrlock                                                   *)
WriteLock(p) ==
  /\ Within(p, "wlock", "find")
  /\ file[Mine(p)].writer = NULL /\ file[Mine(p)].readers = {}
  /\ file' = [file EXCEPT ![Mine(p)].writer = p]

(* The call is counted in total_num and finds its item.                    *)
Find(p) ==
  /\ At(p, "find")
  /\ Usable(p)
  /\ proc' = [proc EXCEPT ![p].pc = "store", ![p].read = file[Mine(p)].value]
  /\ file' = [file EXCEPT ![Mine(p)].unfinished = @ \cup {p}]
  /\ UNCHANGED <<name, broken>>

(* Mutant of Miss: the lock is kept.                                       *)
MissKeepsLock(p) ==
  /\ Within(p, "find", "ready")
  /\ UNCHANGED file

(* It finds none, and is counted in fail_num too.                          *)
Miss(p) ==
  /\ Within(p, "find", "unlock")
  /\ UNCHANGED file

(* The erase or update callback calls the cache: the inner call goes on    *)
(* without a lock of its own, does what it is for, and unlocks: the lock   *)
(* of the outer call is gone.  (If the lock has been initialized since, it *)
(* is the lock of nobody, and the inner call takes it and returns it.)     *)
Nest(p) ==
  LET i == Mine(p) IN
  /\ At(p, "store")
  /\ Usable(p)
  /\ file[i].writer \in {p, NULL} /\ file[i].readers = {}
  /\ proc' = [proc EXCEPT ![p].pc = "nested"]
  /\ file' = [file EXCEPT ![i].writer = NULL,
                          ![i].value = (@ + 1) % ItemValues]
  /\ UNCHANGED name
  /\ Breaks({"flat"})

(* Mutant of Store: a call that gets this far is not counted again.        *)
StoreUncounted(p) ==
  /\ proc[p].pc \in {"store", "nested"}
  /\ Usable(p)
  /\ proc' = [proc EXCEPT ![p].pc = "unlock", ![p].read = 0]
  /\ file' = [file EXCEPT ![Mine(p)].value = (proc[p].read + 1) % ItemValues]
  /\ UNCHANGED <<name, broken>>

(* The item becomes what the call makes of what it has found, and the call *)
(* is counted in success_num.                                              *)
Store(p) ==
  /\ proc[p].pc \in {"store", "nested"}
  /\ Usable(p)
  /\ proc' = [proc EXCEPT ![p].pc = "unlock", ![p].read = 0]
  /\ file' = [file EXCEPT ![Mine(p)].value = (proc[p].read + 1) % ItemValues,
                          ![Mine(p)].unfinished = @ \ {p}]
  /\ UNCHANGED <<name, broken>>

(* ccache_visit: pthread_rwlock_rdlock                                     *)
ReadLock(p) ==
  /\ Within(p, "rlock", "visit")
  /\ file[Mine(p)].writer = NULL
  /\ file' = [file EXCEPT ![Mine(p)].readers = @ \cup {p}]

(* It shows one item, then others; what it has shown it has shown.         *)
VisitItem(p) ==
  /\ At(p, "visit")
  /\ Usable(p)
  /\ proc' = [proc EXCEPT ![p].pc = "see", ![p].read = file[Mine(p)].value]
  /\ UNCHANGED <<name, file, broken>>

(* The visitor calls the cache: it waits for the lock it has itself.       *)
NestInVisit(p) ==
  /\ At(p, "see")
  /\ Usable(p)
  /\ proc' = [proc EXCEPT ![p].pc = "itself", ![p].read = 0]
  /\ UNCHANGED <<name, file>>
  /\ Breaks({"flat"})

VisitEnds(p) ==
  /\ At(p, "see")
  /\ Usable(p)
  /\ proc' = [proc EXCEPT ![p].pc = "unlock", ![p].read = 0]
  /\ UNCHANGED <<name, file, broken>>

(* pthread_rwlock_unlock                                                   *)
Unlock(p) ==
  LET i == Mine(p) IN
  /\ Within(p, "unlock", "ready")
  /\ Holds(p)
  /\ file' = IF file[i].writer = p THEN [file EXCEPT ![i].writer = NULL]
             ELSE [file EXCEPT ![i].readers = @ \ {p}]

(* The same without the lock, which may be free, or somebody else's, by    *)
(* now: undefined behaviour.  It may do nothing, take the lock away from   *)
(* who has it, or leave it locked for ever.                                *)
UnlockForeign(p) ==
  LET i == Mine(p) IN
  /\ Within(p, "unlock", "ready")
  /\ ~Holds(p)
  /\ \E w \in {NULL, DEAD, file[i].writer}, r \in {{}, file[i].readers} :
       file' = [file EXCEPT ![i].writer = w, ![i].readers = r]

(* The rest of a call once begun, but for what callbacks choose to do.     *)
CallStep(p) ==
  \/ WriteLock(p) \/ Find(p) \/ Miss(p) \/ Store(p)
  \/ ReadLock(p) \/ VisitItem(p) \/ VisitEnds(p)
  \/ Unlock(p) \/ UnlockForeign(p)

Next ==
  \E p \in Proc :
    \/ Lifecycle(p)
    \/ \E lock \in {"wlock", "rlock"} : Call(p, lock)
    \/ CallStep(p)
    \/ Nest(p) \/ NestInVisit(p)

(* A process that is in a call goes on with it; it need not make another,  *)
(* and nothing is assumed of opens.                                        *)
Spec == Init /\ [][Next]_vars /\ \A p \in Proc : WF_vars(CallStep(p))

-----------------------------------------------------------------------------
(* Properties.  Kept(R): all rules of R have been kept so far.             *)

Kept(rules) == broken \cap rules = {}

(* Type invariant.                                                         *)
TypeOK ==
  /\ name \in File \cup {NULL}
  /\ file \in [File -> [size : Nat, made : {"raw", "clear", "head", "whole"},
                        bases : SUBSET Base, fd : Nat, value : 0 .. ItemValues - 1,
                        writer : Proc \cup {NULL, DEAD},
                        readers : SUBSET (Proc \cup {DEAD}),
                        unfinished : SUBSET (Proc \cup {DEAD})]]
  /\ \A p \in Proc :
       /\ Idle(p) \/ HasOpen(p) \/ proc[p].pc \in Opening
       /\ Idle(p) <=> Mine(p) = NULL
       /\ HasOpen(p) => InCall(p) \/ At(p, "ready")
  /\ broken \subseteq Rule

(* What a call or a visitor has read of the cache stays true until it is   *)
(* done with it: nobody changes the cache under it, provided that opens    *)
(* keep away from a cache at work and callbacks do not call it.            *)
ReadsStayTrue ==
  Kept({"quiet", "flat"}) =>
    \A p \in Proc : proc[p].pc \in {"store", "see"} => file[Mine(p)].value = proc[p].read

(* Who has the cache open has one that is laid out to the end, and a call  *)
(* finds it with no other call half done in it, also after processes have  *)
(* died in opens and in calls.                                             *)
WorksOnWhole ==
  Kept({"opens", "in use", "whole"}) =>
    \A p \in Proc :
      /\ HasOpen(p) => file[Mine(p)].made = "whole"
      /\ Kept({"quiet", "flat"}) /\ At(p, "find") => Whole(Mine(p))

(* All processes that have the cache have the same one, which is the one   *)
(* the path names, so that the next to open it gets it too.                *)
OneCache ==
  Kept({"opens", "in use"}) => \A p \in Proc : HasOpen(p) => Mine(p) = name

(* The pointers in the file are valid in every process that has it open.   *)
PointersLead ==
  Kept({"opens", "in use", "place"}) =>
    \A p \in Proc : HasOpen(p) => file[Mine(p)].bases = {proc[p].place.base}

(* ccache_close closes the descriptor this process has opened, or has been *)
(* forked with, not one another process has written into the file.         *)
ClosesOwn ==
  Kept({"forks", "opens"}) => \A p \in Proc : HasOpen(p) => file[Mine(p)].fd = proc[p].place.fd

(* The cache survives: a whole cache loses its name or its contents only   *)
(* to an open that asks for init, or for another size.                     *)
CacheSurvives ==
  [][name # NULL /\ file[name].made = "whole"
       /\ (name' # name \/ file'[name].made # "whole")
     => \/ ~Kept({"opens"})
        \/ \E p \in Proc : /\ proc[p].pc \in Opening
                           /\ proc[p].config.init \/ proc[p].config.size # file[name].size
    ]_vars

(* Calls that need not end: the process can only die, or a visitor waits   *)
(* for the lock it has itself.                                             *)
Excused(p) ==
  \/ ~Usable(p)
  \/ \E q \in Proc : Mine(q) = Mine(p) /\ At(q, "itself")

(* The lock has been left locked: a process has died with it, since it is  *)
(* not robust, or has returned one that it did not have.                   *)
Orphaned(p) == DEAD \in {file[Mine(p)].writer} \cup file[Mine(p)].readers

(* Every call comes to its end, unless it waits for another one that is    *)
(* inside the same cache: whatever opens and callbacks do, nobody waits    *)
(* for a lock that no one will give back, but in the cases of Excused, or  *)
(* for an orphaned one; and for that only as long as it stays orphaned: if *)
(* an open initializes it, the calls go on.                                *)
CallsGoOn ==
  \A p \in Proc :
    InCall(p) ~> \/ ~InCall(p) \/ Excused(p)
                 \/ Waiting(p) /\ \E q \in Others(p) : Mine(q) = Mine(p) /\ Inside(q)
                 \/ [](Waiting(p) /\ Orphaned(p))

(* A call that changes the cache has it to itself.                         *)
Exclusive ==
  \A p, q \in Proc :
    /\ p # q /\ Mine(p) = Mine(q)
    /\ proc[p].pc \in {"find", "store"}
    => proc[q].pc \notin {"find", "store", "visit", "see"}
=============================================================================
