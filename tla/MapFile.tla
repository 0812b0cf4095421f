------------------------------ MODULE MapFile ------------------------------
(***************************************************************************)
(* The life of the cache file: ccache_open2 from the open of the path to   *)
(* the laid out cache, system call by system call, ccache_close, fork, and *)
(* processes that die.  The calls on an open cache, and the whole system,  *)
(* are in Sharing.                                                         *)
(*                                                                         *)
(* Several processes open one path.  The path names at most one file; a    *)
(* process that has a file open or mapped keeps it when the path is given  *)
(* to another one.  Of the contents, a file has what must be right for a   *)
(* process that uses it: how far it is laid out, from which addresses its  *)
(* pointers were made, the lock, the descriptor number, and one item.      *)
(*                                                                         *)
(* The code relies on rules of use it nowhere states.  The variable broken *)
(* is a history of those that were not kept, so that each property can say *)
(* on which of them it depends.                                            *)
(***************************************************************************)
EXTENDS Integers, FiniteSets

CONSTANTS
  Proc,         \* processes
  NULL,         \* no file, no address, nobody
  DEAD,         \* a lock's owner that has died
  Config,       \* configurations in use, see ConfigType
  PlaceOf,      \* [Proc -> sets of places], where the system may put a process
  MaxFile,      \* files that exist at once, with or without a name
  ItemValues    \* values the item goes through, 0 to ItemValues - 1

(* size: what ccache_count_cache_size computes; init: the item init; fits: *)
(* whether datasize has room for the freeareas and preallocated nodes.     *)
ConfigType == [size : Nat \ {0}, init : BOOLEAN, fits : BOOLEAN]

(* A place: base is where the file and the code of the library are mapped, *)
(* fd the number that open returns.                                        *)
Place   == UNION {PlaceOf[p] : p \in Proc}
Base    == {pl.base : pl \in Place}
NoPlace == [base |-> NULL, fd |-> 0]

ASSUME MapFileAssumption ==
  /\ NULL \notin Proc /\ DEAD \notin Proc /\ NULL # DEAD
  /\ Place \subseteq [base : Base, fd : Nat \ {0}] /\ NULL \notin Base
  /\ Config \subseteq ConfigType
  /\ IsFiniteSet(Proc) /\ MaxFile \in Nat /\ Cardinality(Proc) < MaxFile
  /\ NULL \notin 1 .. MaxFile
  /\ ItemValues \in Nat \ {0}

VARIABLES
  name,     \* the file the path names
  file,     \* the files
  proc,     \* the processes
  broken    \* the rules of use not kept so far

vars == <<name, file, proc, broken>>

File == 1 .. MaxFile

(* size: st_size.  made: "raw" until cleared, "clear", "head" once the     *)
(* header and the hashitems are written, "whole" with the freeareas.       *)
(* bases: the addresses its pointers were made from.  fd: cache->fd.       *)
(* writer, readers: the lock.  value: an item.  unfinished: who has been   *)
(* counted in total_num and not yet in success_num or fail_num.            *)
Empty == [size |-> 0, made |-> "raw", bases |-> {}, fd |-> 0,
          writer |-> NULL, readers |-> {}, value |-> 0, unfinished |-> {}]

(* A process that has neither the cache nor a part of an open behind it.   *)
NoConfig == [size |-> 0, init |-> FALSE, fits |-> FALSE]

State(pc, config, init, i, place) ==
  [pc |-> pc, config |-> config, init |-> init, file |-> i, place |-> place, read |-> 0]

Outside == State("idle", NoConfig, FALSE, NULL, NoPlace)

Opening == {"stat", "unlink", "create", "extend", "map", "clear", "adopt",
            "head", "areas"}

-----------------------------------------------------------------------------
(* Helpers of the actions.                                                 *)

At(p, pc)  == proc[p].pc = pc
Mine(p)    == proc[p].file
Others(p)  == Proc \ {p}
Idle(p)    == At(p, "idle")
HasOpen(p) == proc[p].pc \notin Opening \cup {"idle"}

(* A file without a name and without a process is gone.                    *)
Reclaimed(files, n, procs) ==
  [i \in File |-> IF i = n \/ \E p \in Proc : procs[p].file = i
                  THEN files[i] ELSE Empty]

(* The process record of p changes to r, and the files to files.           *)
Step(p, r, files) ==
  /\ proc' = [proc EXCEPT ![p] = r]
  /\ file' = Reclaimed(files, name', proc')

Goes(p, pc) == [proc[p] EXCEPT !.pc = pc]

(* An empty file that nothing refers to.                                   *)
Unused == {i \in File : i # name /\ \A p \in Proc : Mine(p) # i}
Fresh  == CHOOSE i \in Unused : TRUE

(* The rules of use.                                                       *)
Rule == {"forks",    \* a process opens only when no other one has the cache
         "opens",    \* only one process opens at a time
         "quiet",    \* nobody is in a call while another one opens
         "in use",   \* a cache in use is not cleared, nor its size changed
         "whole",    \* only a whole cache is opened with init=0
         "place",    \* and only where its pointers are valid
         "flat"}     \* callbacks do not call the cache

Breaks(rules) == broken' = broken \cup rules

When(rule, cond) == IF cond THEN {rule} ELSE {}
SomeoneOpens(p)  == \E q \in Others(p) : proc[q].pc \in Opening

(* No lock holder has died in the middle, and no open has.                 *)
Whole(i) == file[i].made = "whole" /\ file[i].unfinished = {}

-----------------------------------------------------------------------------
(* ccache_open2, ccache_create_mmap.                                       *)

(* The rules p breaks as it opens the path with configuration c and gets   *)
(* file i.                                                                 *)
OpenBreaks(p, c, i) ==
  When("forks", \E q \in Others(p) : HasOpen(q))
    \cup When("opens", SomeoneOpens(p))
    \cup When("quiet", \E q \in Others(p) : HasOpen(q) /\ ~At(q, "ready"))
    \cup When("in use", /\ \E q \in Others(p) : HasOpen(q)
                        /\ c.init \/ name = NULL \/ file[i].size # c.size)
    \cup When("whole", ~c.init /\ file[i].size = c.size /\ ~Whole(i))

(* open(path, O_RDWR | O_CREAT)                                            *)
OpenPath(p, c, pl) ==
  LET i == IF name = NULL THEN Fresh ELSE name IN
  /\ Idle(p)
  /\ name' = i
  /\ Step(p, State("stat", c, c.init, i, pl), file)
  /\ Breaks(OpenBreaks(p, c, i))

(* Mutant of Stat: the size is compared with one it never has.             *)
StatOfDatasize(p) ==
  /\ At(p, "stat")
  /\ UNCHANGED <<name, broken>>
  /\ Step(p, Goes(p, "unlink"), file)

(* fstat: a file of another size is replaced.                              *)
Stat(p) ==
  /\ At(p, "stat")
  /\ UNCHANGED <<name, broken>>
  /\ Step(p, Goes(p, IF file[Mine(p)].size # proc[p].config.size THEN "unlink"
                     ELSE IF proc[p].init THEN "extend" ELSE "map"), file)

(* unlink(path): whichever file it names by now.                           *)
Unlink(p) ==
  /\ At(p, "unlink")
  /\ name # NULL
  /\ name' = NULL
  /\ Step(p, Goes(p, "create"), file)
  /\ UNCHANGED broken

(* It names none: the open fails, with the descriptor left open.           *)
UnlinkFails(p) ==
  /\ At(p, "unlink")
  /\ name = NULL
  /\ UNCHANGED <<name, broken>>
  /\ Step(p, Outside, file)

(* close, and open(path, O_RDWR | O_CREAT | O_TRUNC): the file is new, or  *)
(* the one that another process has made meanwhile, and is cut to nothing. *)
Create(p) ==
  LET i == IF name = NULL THEN Fresh ELSE name IN
  /\ At(p, "create")
  /\ name' = i
  /\ Step(p, State("extend", proc[p].config, TRUE, i, proc[p].place),
          [file EXCEPT ![i] = Empty])
  /\ UNCHANGED broken

(* lseek, and write of the last byte.                                      *)
Extend(p) ==
  /\ At(p, "extend")
  /\ UNCHANGED <<name, broken>>
  /\ Step(p, Goes(p, "map"),
          [file EXCEPT ![Mine(p)].size = IF @ < proc[p].config.size
                                         THEN proc[p].config.size ELSE @])

(* The pages the process is about to touch are in the file: if another one *)
(* has truncated it, they are not, and the process can only die.           *)
Backed(p) == file[Mine(p)].size >= proc[p].config.size

(* The rule p breaks as it maps a file with pointers from elsewhere.       *)
MapBreaks(p) ==
  When("place", ~proc[p].init /\ file[Mine(p)].bases # {proc[p].place.base})

(* Mutant of Map: the cache is cleared whether or not init says so.        *)
MapClearing(p) ==
  /\ At(p, "map")
  /\ UNCHANGED name
  /\ Step(p, Goes(p, "clear"), file)
  /\ Breaks(MapBreaks(p))

(* mmap                                                                    *)
Map(p) ==
  /\ At(p, "map")
  /\ UNCHANGED name
  /\ Step(p, Goes(p, IF proc[p].init THEN "clear" ELSE "adopt"), file)
  /\ Breaks(MapBreaks(p))

(* Mutant of Clear: only a new file is filled with zeros.                  *)
ClearNew(p) ==
  /\ At(p, "clear") /\ Backed(p)
  /\ UNCHANGED <<name, broken>>
  /\ Step(p, Goes(p, "adopt"),
          [file EXCEPT ![Mine(p)].made = IF @ = "raw" THEN "clear" ELSE @])

(* memset: all is zero, the lock included, which means free.               *)
Clear(p) ==
  /\ At(p, "clear") /\ Backed(p)
  /\ UNCHANGED <<name, broken>>
  /\ Step(p, Goes(p, "adopt"),
          [file EXCEPT ![Mine(p)] = [Empty EXCEPT !.made = "clear",
                                                  !.size = file[Mine(p)].size]])

(* An open that succeeds: the process may call the cache.                  *)
Opened(p) == [Goes(p, "ready") EXCEPT !.config = NoConfig, !.init = FALSE]

(* Mutant of Adopt: the descriptor is kept by the process that lays out.   *)
AdoptOnce(p) ==
  /\ At(p, "adopt") /\ Backed(p)
  /\ UNCHANGED <<name, broken>>
  /\ Step(p, IF proc[p].init THEN Goes(p, "head") ELSE Opened(p),
          [file EXCEPT ![Mine(p)].fd = IF proc[p].init THEN proc[p].place.fd ELSE @,
                       ![Mine(p)].writer = NULL, ![Mine(p)].readers = {}])

(* cache->fd = fd, and ccache_init_thread_rwlock "no matter if or not the  *)
(* init is set".                                                           *)
Adopt(p) ==
  /\ At(p, "adopt") /\ Backed(p)
  /\ UNCHANGED <<name, broken>>
  /\ Step(p, IF proc[p].init THEN Goes(p, "head") ELSE Opened(p),
          [file EXCEPT ![Mine(p)].fd = proc[p].place.fd,
                       ![Mine(p)].writer = NULL, ![Mine(p)].readers = {}])

(* Sizes, ccache_init_functor and ccache_init_hashitem.                    *)
LayHead(p) ==
  /\ At(p, "head") /\ Backed(p)
  /\ UNCHANGED <<name, broken>>
  /\ Step(p, Goes(p, "areas"),
          [file EXCEPT ![Mine(p)].made = "head",
                       ![Mine(p)].bases = @ \cup {proc[p].place.base}])

(* ccache_init_freearea                                                    *)
LayAreas(p) ==
  /\ At(p, "areas") /\ Backed(p)
  /\ proc[p].config.fits
  /\ UNCHANGED <<name, broken>>
  /\ Step(p, Opened(p), [file EXCEPT ![Mine(p)].made = "whole"])

(* "not enough memory for prealloc!": the open returns NULL.               *)
LayAreasFails(p) ==
  /\ At(p, "areas") /\ Backed(p)
  /\ ~proc[p].config.fits
  /\ UNCHANGED <<name, broken>>
  /\ Step(p, Outside, file)

-----------------------------------------------------------------------------

(* Mutant of Close: the file stays mapped.                                 *)
CloseMapped(p) ==
  /\ At(p, "ready") /\ file[Mine(p)].size # 0
  /\ UNCHANGED <<name, broken>>
  /\ Step(p, [Outside EXCEPT !.file = Mine(p)], file)

(* ccache_close: the lock is destroyed, which changes nothing in it (NPTL),*)
(* the file unmapped, and the descriptor of the number in the file closed. *)
Close(p) ==
  /\ At(p, "ready") /\ file[Mine(p)].size # 0
  /\ UNCHANGED <<name, broken>>
  /\ Step(p, Outside, file)

(* fork: the child has the same mapping and the same descriptors.          *)
Fork(p, q) ==
  /\ At(p, "ready") /\ Idle(q)
  /\ UNCHANGED <<name, broken>>
  /\ Step(q, proc[p], file)

(* A process is killed, at any point; it keeps the locks it has.  That is  *)
(* also what happens to one that touches a page the file no longer has.    *)
Die(p) ==
  /\ ~Idle(p)
  /\ UNCHANGED <<name, broken>>
  /\ Step(p, Outside,
          [i \in File |-> [file[i] EXCEPT
             !.writer     = IF @ = p THEN DEAD ELSE @,
             !.readers    = IF p \in @ THEN (@ \ {p}) \cup {DEAD} ELSE @,
             !.unfinished = IF p \in @ THEN (@ \ {p}) \cup {DEAD} ELSE @]])

Init ==
  /\ name = NULL
  /\ file = [i \in File |-> Empty]
  /\ proc = [p \in Proc |-> Outside]
  /\ broken = {}

OpenStep(p) ==
  \/ Stat(p) \/ Unlink(p) \/ UnlinkFails(p)
  \/ Create(p) \/ Extend(p) \/ Map(p) \/ Clear(p) \/ Adopt(p) \/ LayHead(p) \/ LayAreas(p) \/ LayAreasFails(p)

Lifecycle(p) ==
  \/ \E c \in Config, pl \in PlaceOf[p] : OpenPath(p, c, pl)
  \/ OpenStep(p)
  \/ Close(p) \/ Die(p)
  \/ \E q \in Others(p) : Fork(p, q)
=============================================================================
